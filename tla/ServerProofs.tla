----------------------------- MODULE ServerProofs -----------------------------
(***************************************************************************)
(* Proofs about the query server (Server) and about the client that asks   *)
(* it (Preparation).  The server: for any finite number of requests, any   *)
(* number of permits, and any table of handlers that are as careful as     *)
(* those of the code (HandlersAssumption).  A step is one of one request.  *)
(* Besides its own variables it changes the permits, which count the       *)
(* running tasks, and the pin of the reviews, which once set is only given *)
(* back by a client: so the other requests keep what is true of them.      *)
(*                                                                         *)
(* The client: for any finite number of requests and any scopes, of which  *)
(* each names two at most.  What the map of preparations holds was started *)
(* and runs or is ready, and what runs is in it (Kept); Leaves, Finds and  *)
(* Moves say of several actions at once what they do to those who wait.    *)
(***************************************************************************)
EXTENDS Server, Integers, Ranking, FiniteSetTheorems, TLAPS

CONSTANTS Scopes, Asks, Tokens, Capacity, MaxFetches, MaxSwitches

VARIABLES token, session, switches, order, entry, fetches, sweeps, stage, sent, epoch, clears, waits

\* The web client, for whose requests the server prepares snapshots: INSTANCE takes its
\* constants and variables from here.
Panes == INSTANCE Preparation

-----------------------------------------------------------------------------
(* The server. *)

\* Only request r is touched.
Touches(r) ==
  \A q \in Requests \ {r} :
    /\ request'[q] = request[q] /\ handler'[q] = handler[q] /\ answer'[q] = answer[q]
    /\ task'[q] = task[q] /\ live'[q] = live[q]

KeepsPin == pinned \/ released => pinned' \/ released'

Accounted == permits + Cardinality(Held) = MaxQueries

\* What is true of the other requests stays true of them.
LEMMA OthersStep ==
  ASSUME ServerInvariant, NEW r \in Requests, Touches(r), KeepsPin
  PROVE  \A q \in Requests \ {r} : Consistent(q)'
<1> SUFFICES ASSUME NEW q \in Requests \ {r}  PROVE Consistent(q)'
  OBVIOUS
<1>1. /\ request'[q] = request[q] /\ handler'[q] = handler[q] /\ answer'[q] = answer[q]
      /\ task'[q] = task[q] /\ live'[q] = live[q]
  BY DEF Touches
<1>2. Consistent(q)
  BY DEF ServerInvariant
<1>3. (Alive(q)' <=> Alive(q)) /\ (CutSince(q)' <=> CutSince(q)) /\ (HasPinned(q)' <=> HasPinned(q))
  BY <1>1 DEF Alive, CutSince, HasPinned
<1> QED
  BY <1>1, <1>2, <1>3 DEF Consistent, KeepsPin

\* A step of one request keeps the invariant if it keeps what is said of that request,
\* of the permits and of the pin.
LEMMA OneRequest ==
  ASSUME ServerInvariant, NEW r \in Requests, Touches(r), KeepsPin,
         Typed', Consistent(r)', Accounted', ReviewsArePinned'
  PROVE  ServerInvariant'
<1>1. \A q \in Requests : Consistent(q)'
  BY OthersStep
<1> QED
  BY <1>1 DEF ServerInvariant, Accounted

\* The running tasks are finitely many.
LEMMA HeldIsFinite ==
  ASSUME HandlersAssumption
  PROVE  IsFiniteSet(Held) /\ Cardinality(Held) \in Nat
<1>1. IsFiniteSet(Held)
  BY FS_Subset DEF Held, HandlersAssumption
<1> QED
  BY <1>1, FS_CardinalityType

\* A task that starts takes a permit, one that ends gives it back.
LEMMA PermitsFollow ==
  ASSUME HandlersAssumption, ServerInvariant, NEW r \in Requests, Touches(r),
         \/ Alive(r)' /\ Alive(r) /\ permits' = permits
         \/ ~Alive(r)' /\ ~Alive(r) /\ permits' = permits
         \/ Alive(r)' /\ ~Alive(r) /\ permits' = permits - 1
         \/ ~Alive(r)' /\ Alive(r) /\ permits' = permits + 1
  PROVE  Accounted'
<1>1. \A q \in Requests \ {r} : Alive(q)' <=> Alive(q)
  BY DEF Touches, Alive
<1>2. /\ IsFiniteSet(Held) /\ Cardinality(Held) \in Nat /\ permits \in Nat /\ MaxQueries \in Nat
      /\ permits + Cardinality(Held) = MaxQueries
  BY HeldIsFinite DEF ServerInvariant, Typed, HandlersAssumption
<1>3. CASE (Alive(r)' <=> Alive(r)) /\ permits' = permits
  <2>1. Held' = Held
    BY <1>1, <1>3 DEF Held
  <2> QED  BY <1>2, <1>3, <2>1 DEF Accounted
<1>4. CASE Alive(r)' /\ ~Alive(r) /\ permits' = permits - 1
  <2>1. Held' = Held \cup {r} /\ r \notin Held
    BY <1>1, <1>4 DEF Held
  <2>2. Cardinality(Held') = Cardinality(Held) + 1
    BY <1>2, <2>1, FS_AddElement
  <2> QED  BY <1>2, <1>4, <2>2 DEF Accounted
<1>5. CASE ~Alive(r)' /\ Alive(r) /\ permits' = permits + 1
  <2>1. Held' = Held \ {r} /\ r \in Held
    BY <1>1, <1>5 DEF Held
  <2>2. Cardinality(Held') = Cardinality(Held) - 1
    BY <1>2, <2>1, FS_RemoveElement
  <2> QED  BY <1>2, <1>5, <2>2 DEF Accounted
<1> QED
  BY <1>3, <1>4, <1>5

\* A running task is at a step of its handler, and its handler is a careful one.
LEMMA AtAStep ==
  ASSUME HandlersAssumption, ServerInvariant, NEW r \in Requests, Alive(r)
  PROVE  /\ request[r].route \in Routes /\ Careful(request[r].route)
         /\ Handlers[request[r].route] \in Seq(Steps)
         /\ task[r].pc \in 1..Len(Handlers[request[r].route])
         /\ Now(r) = Handlers[request[r].route][task[r].pc] /\ Now(r) \in Steps
<1>1. request[r].route \in Routes /\ Careful(request[r].route)
  BY DEF ServerInvariant, Typed, HandlersAssumption
<1>2. Handlers[request[r].route] \in Seq(Steps)
  BY <1>1 DEF Careful
<1>3. task[r].pc \in 1..Len(Handlers[request[r].route])
  BY <1>2 DEF ServerInvariant, Consistent
<1> QED
  BY <1>1, <1>2, <1>3 DEF Now

\* The codes the server itself makes.
LEMMA OwnCodes ==
  /\ {"budget_exhausted", "query_failed", "too_large", "overloaded"} \subseteq DOMAIN Status
  /\ \A code \in DOMAIN Status : Status[code] # 200
BY DEF Status

-----------------------------------------------------------------------------
(* Handlers. *)

\* A refused request has no task.
LEMMA RefuseStep ==
  ASSUME HandlersAssumption, ServerInvariant, NEW r \in Requests, Refuse(r)
  PROVE  ServerInvariant'
<1>1. PICK defects \in (SUBSET Defects) \ {{}} :
        /\ request' = [request EXCEPT ![r].defects = defects]
        /\ answer' = [answer EXCEPT ![r] = Told(Refusal[FirstFailed(defects)], FALSE)]
  BY DEF Refuse
<1>2. /\ handler[r] = "idle" /\ handler' = [handler EXCEPT ![r] = "answered"]
      /\ UNCHANGED <<task, live, permits, pinned, reviewed, released>>
  BY DEF Refuse, effects
<1>3. Typed' /\ Touches(r) /\ KeepsPin
  BY <1>1, <1>2 DEF ServerInvariant, Typed, Touches, KeepsPin
<1>4. task[r] = NoTask /\ Consistent(r)
  BY <1>2 DEF ServerInvariant, Consistent
<1>5. ~Alive(r)' /\ ~Alive(r) /\ ~task'[r].cut /\ task'[r].cause = "none" /\ task'[r].state = "none"
  BY <1>2, <1>4 DEF Alive, NoTask
<1>6. Consistent(r)' /\ Accounted'
  BY <1>2, <1>3, <1>5, PermitsFollow DEF Consistent, ServerInvariant, Typed
<1>7. ReviewsArePinned'
  BY <1>2 DEF ServerInvariant, ReviewsArePinned
<1> QED
  BY <1>3, <1>6, <1>7, OneRequest

\* A task starts at its first step, with all its controls and a permit.
LEMMA AdmitStep ==
  ASSUME HandlersAssumption, ServerInvariant, NEW r \in Requests, Admit(r)
  PROVE  ServerInvariant'
<1>1. PICK route \in Routes :
        /\ request' = [request EXCEPT ![r] = [route |-> route, defects |-> {}]]
        /\ IF permits = 0
           THEN /\ handler' = [handler EXCEPT ![r] = "answered"]
                /\ answer' = [answer EXCEPT ![r] = Told(Status["overloaded"], FALSE)]
                /\ UNCHANGED <<task, live, permits>>
           ELSE /\ handler' = [handler EXCEPT ![r] = "waiting"]
                /\ permits' = permits - 1
                /\ task' = [task EXCEPT ![r] = [NoTask EXCEPT !.state = "alive", !.pc = 1]]
                /\ live' = [live EXCEPT ![r] = Guarded(route) \cup {"own"}]
                /\ UNCHANGED answer
  BY DEF Admit
<1>2. handler[r] = "idle" /\ UNCHANGED <<pinned, reviewed, released>>
  BY DEF Admit, effects
<1>3. task[r] = NoTask /\ answer[r] = NoAnswer /\ Consistent(r)
  BY <1>2 DEF ServerInvariant, Consistent
<1>4. Touches(r) /\ KeepsPin /\ ReviewsArePinned'
  BY <1>1, <1>2 DEF ServerInvariant, Typed, Touches, KeepsPin, ReviewsArePinned
<1>5. ~Alive(r)
  BY <1>3 DEF Alive, NoTask
<1>6. CASE permits = 0
  <2>1. Typed' /\ handler'[r] # "idle" /\ task'[r] = NoTask
    BY <1>1, <1>2, <1>3, <1>6 DEF ServerInvariant, Typed
  <2>2. ~Alive(r)' /\ ~task'[r].cut /\ task'[r].cause = "none" /\ task'[r].state = "none"
    BY <2>1 DEF Alive, NoTask
  <2>3. Consistent(r)'
    BY <2>1, <2>2 DEF Consistent
  <2>4. Accounted'
    BY <1>1, <1>4, <1>5, <1>6, <2>2, PermitsFollow
  <2> QED
    BY <1>4, <2>1, <2>3, <2>4, OneRequest
<1>7. CASE permits # 0
  <2>1. PICK first : first = [NoTask EXCEPT !.state = "alive", !.pc = 1]
    OBVIOUS
  <2>2. task' = [task EXCEPT ![r] = first]
    BY <1>1, <1>7, <2>1
  <2>3. /\ first.state = "alive" /\ first.pc = 1 /\ first.cut = FALSE /\ first.cause = "none"
        /\ first \in [state : {"none", "alive", "ended"}, pc : Nat, partial : BOOLEAN,
                      cut : BOOLEAN, result : Results, cause : {"none", "failure", "stopped"}]
    BY <2>1 DEF NoTask, Results
  <2>4. /\ task'[r] = first
        /\ handler'[r] = "waiting" /\ request'[r] = [route |-> route, defects |-> {}]
        /\ answer'[r] = NoAnswer
    BY <1>1, <1>3, <1>7, <2>2 DEF ServerInvariant, Typed
  <2>5. permits' \in Nat /\ permits' = permits - 1
    <3>1. permits \in Nat /\ permits # 0 /\ permits' = permits - 1
      BY <1>1, <1>7 DEF ServerInvariant, Typed
    <3> QED  BY <3>1
  <2>6. live' \in [Requests -> SUBSET {"query", "analysis", "own"}]
    BY <1>1, <1>7 DEF ServerInvariant, Typed, Guarded
  <2>7. task' \in [Requests -> [state : {"none", "alive", "ended"}, pc : Nat, partial : BOOLEAN,
                               cut : BOOLEAN, result : Results, cause : {"none", "failure", "stopped"}]]
    BY <2>2, <2>3 DEF ServerInvariant, Typed
  <2>8. Typed'
    BY <1>1, <1>2, <1>7, <2>5, <2>6, <2>7 DEF ServerInvariant, Typed
  <2>9. 1 \in DOMAIN Handlers[route]
    BY DEF HandlersAssumption, Careful
  <2>10. Alive(r)' /\ ~HasPinned(r)'
    BY <2>4, <2>3 DEF Alive, HasPinned
  <2>11. Consistent(r)'
    BY <2>4, <2>3, <2>9, <2>10 DEF Consistent, NoAnswer
  <2>12. Accounted'
    BY <1>4, <1>5, <2>5, <2>10, PermitsFollow
  <2> QED
    BY <1>4, <2>8, <2>11, <2>12, OneRequest
<1> QED
  BY <1>6, <1>7

\* However the handler ends, its controls are cancelled; the task goes on with its permit.
LEMMA HandlerEnds ==
  ASSUME HandlersAssumption, ServerInvariant, NEW r \in Requests,
         Receive(r) \/ Timeout(r) \/ Disconnect(r)
  PROVE  ServerInvariant'
<1>1. /\ handler[r] = "waiting" /\ handler' \in {[handler EXCEPT ![r] = "answered"], [handler EXCEPT ![r] = "gone"]}
      /\ live' = [live EXCEPT ![r] = @ \ {"query", "analysis"}]
      /\ UNCHANGED <<request, task, permits, pinned, reviewed, released>>
  BY DEF Receive, Timeout, Disconnect, DropGuard, effects
<1>2. /\ DOMAIN answer' = Requests
      /\ \A q \in Requests \ {r} : answer'[q] = answer[q]
  BY DEF Receive, Timeout, Disconnect, ServerInvariant, Typed
<1>3. Typed' /\ Touches(r) /\ KeepsPin /\ ReviewsArePinned'
  BY <1>1, <1>2 DEF ServerInvariant, Typed, Touches, KeepsPin, ReviewsArePinned
<1>4. /\ Alive(r) => answer'[r].status # 200
      /\ task[r].cut => (answer'[r].status = 200 => answer'[r].partial)
  <2>1. Consistent(r)
    BY DEF ServerInvariant
  <2>2. CASE Receive(r)
    <3>1. ~Alive(r) /\ answer'[r] \in {Told(200, task[r].partial), Told(Status[task[r].result], FALSE)}
      BY <2>2 DEF Receive, Alive, ServerInvariant, Typed
    <3>2. CASE task[r].result = "ok"
      <4>1. answer'[r] = Told(200, task[r].partial)
        BY <2>2, <3>2 DEF Receive, ServerInvariant, Typed
      <4> QED  BY <2>1, <3>1, <4>1 DEF Told, Consistent
    <3>3. CASE task[r].result # "ok"
      <4>1. task[r].result \in DOMAIN Status
        BY <2>2, <2>1, <3>3 DEF Receive, Consistent, ServerInvariant, Typed, Results
      <4>2. answer'[r] = Told(Status[task[r].result], FALSE)
        BY <2>2, <3>3 DEF Receive, ServerInvariant, Typed
      <4> QED  BY <3>1, <4>1, <4>2, OwnCodes DEF Told
    <3> QED  BY <3>2, <3>3
  <2>3. CASE Timeout(r)
    <3>1. answer'[r] = Told(Status["budget_exhausted"], FALSE)
      BY <2>3 DEF Timeout, ServerInvariant, Typed
    <3> QED  BY <3>1, OwnCodes DEF Told
  <2>4. CASE Disconnect(r)
    BY <2>1, <2>4 DEF Disconnect, Consistent
  <2> QED  BY <2>2, <2>3, <2>4
<1>5. /\ Alive(r)' <=> Alive(r)
      /\ CutSince(r)' <=> CutSince(r)
      /\ HasPinned(r)' <=> HasPinned(r)
  BY <1>1 DEF Alive, CutSince, HasPinned
<1>6. Consistent(r)'
  <2>1. live'[r] = live[r] \ {"query", "analysis"} /\ handler'[r] # "idle" /\ Consistent(r)
    BY <1>1 DEF ServerInvariant, Typed
  <2> QED  BY <1>1, <1>4, <1>5, <2>1 DEF Consistent
<1>7. Accounted'
  BY <1>1, <1>3, <1>5, PermitsFollow
<1> QED
  BY <1>3, <1>6, <1>7, OneRequest

\* A control that expires stops the task at its next look.
LEMMA ExpireStep ==
  ASSUME HandlersAssumption, ServerInvariant, NEW r \in Requests, Expire(r)
  PROVE  ServerInvariant'
<1>1. PICK c \in live[r] : live' = [live EXCEPT ![r] = @ \ {c}]
  BY DEF Expire
<1>2. UNCHANGED <<request, handler, answer, task, permits, pinned, reviewed, released>>
  BY DEF Expire, effects
<1>3. Typed' /\ Touches(r) /\ KeepsPin /\ ReviewsArePinned'
  BY <1>1, <1>2 DEF ServerInvariant, Typed, Touches, KeepsPin, ReviewsArePinned
<1>4. (Alive(r)' <=> Alive(r)) /\ (CutSince(r)' <=> CutSince(r)) /\ (HasPinned(r)' <=> HasPinned(r))
  BY <1>2 DEF Alive, CutSince, HasPinned
<1>5. Consistent(r)'
  <2>1. Consistent(r) /\ live'[r] \subseteq live[r]
    BY <1>1 DEF ServerInvariant, Typed
  <2> QED  BY <1>2, <1>4, <2>1 DEF Consistent
<1>6. Accounted'
  BY <1>2, <1>3, <1>4, PermitsFollow
<1> QED
  BY <1>3, <1>5, <1>6, OneRequest

\* The next request of a client starts from nothing.
LEMMA ForgetStep ==
  ASSUME HandlersAssumption, ServerInvariant, NEW r \in Requests, Forget(r)
  PROVE  ServerInvariant'
<1>1. /\ ~Alive(r) /\ handler' = [handler EXCEPT ![r] = "idle"]
      /\ request' = [request EXCEPT ![r] = NoRequest]
      /\ answer' = [answer EXCEPT ![r] = NoAnswer] /\ task' = [task EXCEPT ![r] = NoTask]
      /\ live' = [live EXCEPT ![r] = {}]
      /\ UNCHANGED <<permits, pinned, reviewed, released>>
  BY DEF Forget, effects
<1>2. /\ NoRequest \in [route : Routes, defects : SUBSET Defects] /\ NoRequest.defects = {}
      /\ NoTask \in [state : {"none", "alive", "ended"}, pc : Nat, partial : BOOLEAN,
                     cut : BOOLEAN, result : Results, cause : {"none", "failure", "stopped"}]
      /\ NoTask.state = "none" /\ NoTask.cut = FALSE /\ NoTask.cause = "none"
  BY DEF NoRequest, NoTask, HandlersAssumption, Results
<1>3. Touches(r) /\ KeepsPin /\ ReviewsArePinned'
  BY <1>1 DEF ServerInvariant, Typed, Touches, KeepsPin, ReviewsArePinned
<1>4. Typed'
  BY <1>1, <1>2 DEF ServerInvariant, Typed
<1>5. /\ request'[r] = NoRequest /\ answer'[r] = NoAnswer /\ task'[r] = NoTask /\ handler'[r] = "idle"
      /\ ~Alive(r)'
  BY <1>1, <1>2 DEF ServerInvariant, Typed, Alive
<1>6. Consistent(r)'
  BY <1>2, <1>5 DEF Consistent
<1>7. Accounted'
  BY <1>1, <1>3, <1>5, PermitsFollow
<1> QED
  BY <1>3, <1>4, <1>6, <1>7, OneRequest

-----------------------------------------------------------------------------
(* Tasks. *)

\* A task that ends gives its permit back; a stopped one says that its budget is used up.
LEMMA EndStep ==
  ASSUME HandlersAssumption, ServerInvariant, NEW r \in Requests, Alive(r),
         NEW result \in DOMAIN Status, NEW cause \in {"failure", "stopped"},
         cause = "stopped" => result = "budget_exhausted",
         End(r, result, cause), UNCHANGED <<request, handler, answer, effects>>
  PROVE  ServerInvariant'
<1>1. /\ task' = [task EXCEPT ![r].state = "ended", ![r].result = result, ![r].cause = cause]
      /\ permits' = permits + 1 /\ live' = [live EXCEPT ![r] = {}]
      /\ UNCHANGED <<request, handler, answer, pinned, reviewed, released>>
  BY DEF End, effects
<1>2. result \in Results /\ result # "none"
  BY DEF Results, Status
<1>3. /\ task'[r].state = "ended" /\ task'[r].result = result /\ task'[r].cause = cause
      /\ task'[r].cut = task[r].cut /\ task'[r].partial = task[r].partial
  BY <1>1 DEF ServerInvariant, Typed
<1>4. /\ task' \in [Requests -> [state : {"none", "alive", "ended"}, pc : Nat, partial : BOOLEAN,
                               cut : BOOLEAN, result : Results, cause : {"none", "failure", "stopped"}]]
      /\ \A q \in Requests \ {r} : task'[q] = task[q]
  <2> DEFINE T == [state : {"none", "alive", "ended"}, pc : Nat, partial : BOOLEAN,
                   cut : BOOLEAN, result : Results, cause : {"none", "failure", "stopped"}]
  <2>1. PICK ended : ended = [task[r] EXCEPT !.state = "ended", !.result = result, !.cause = cause]
    OBVIOUS
  <2>2. task \in [Requests -> T]
    BY DEF ServerInvariant, Typed
  <2>3. task[r] \in T
    BY <2>2
  <2>4. ended \in T
    BY <1>2, <2>1, <2>3
  <2>5. task' = [task EXCEPT ![r] = ended]
    BY <1>1, <2>1, <2>2
  <2> QED
    BY <2>2, <2>4, <2>5
<1>5. permits' \in Nat
  BY <1>1 DEF ServerInvariant, Typed
<1>6. Typed' /\ Touches(r) /\ KeepsPin /\ ReviewsArePinned'
  BY <1>1, <1>4, <1>5 DEF ServerInvariant, Typed, Touches, KeepsPin, ReviewsArePinned
<1>7. Consistent(r) /\ ~Alive(r)' /\ task[r].state # "none"
  BY <1>3 DEF ServerInvariant, Alive
<1>8. Consistent(r)'
  BY <1>1, <1>2, <1>3, <1>7 DEF Consistent, NoTask
<1>9. Accounted'
  BY <1>1, <1>6, <1>7, PermitsFollow
<1> QED
  BY <1>6, <1>8, <1>9, OneRequest

\* A failure is told by a code of the step or of the server.
LEMMA FailStep ==
  ASSUME HandlersAssumption, ServerInvariant, NEW r \in Requests, Fail(r) \/ Panic(r)
  PROVE  ServerInvariant'
<1>1. Alive(r) /\ UNCHANGED <<request, handler, answer, effects>>
  BY DEF Fail, Panic
<1>2. CASE Fail(r)
  <2>1. PICK error \in Now(r).errors : End(r, LoadError(r, error), "failure")
    BY <1>2 DEF Fail
  <2>2. LoadError(r, error) \in DOMAIN Status
    BY <1>1, AtAStep, OwnCodes DEF LoadError, Steps
  <2> QED  BY <1>1, <2>1, <2>2, EndStep
<1>3. CASE Panic(r)
  BY <1>1, <1>3, EndStep, OwnCodes DEF Panic
<1> QED
  BY <1>2, <1>3

\* A stopped load of an analysis is asked whether it was stopped; every other stop is told
\* as one at once.
LEMMA StopStepStep ==
  ASSUME HandlersAssumption, ServerInvariant, NEW r \in Requests, StopStep(r)
  PROVE  ServerInvariant'
<1>1. /\ Alive(r) /\ End(r, StopError(r), "stopped") /\ UNCHANGED <<request, handler, answer, effects>>
      /\ Stopped(r) \/ Now(r).op = "reviewable"
  BY DEF StopStep
<1>2. StopError(r) = "budget_exhausted"
  <2>1. CASE Now(r).op \notin {"flow", "list", "record"} \/ Now(r).errors = {}
    BY <2>1 DEF StopError
  <2>2. CASE Now(r).op \in {"flow", "list", "record"} /\ Now(r).errors # {}
    <3>1. Stopped(r)
      BY <1>1, <2>2
    <3>2. /\ Careful(request[r].route) /\ task[r].pc \in DOMAIN Handlers[request[r].route]
          /\ Now(r) = Handlers[request[r].route][task[r].pc]
      BY <1>1, AtAStep
    <3>3. Now(r).control \in {"none", "analysis"}
      BY <2>2, <3>2 DEF Careful
    <3>4. Now(r).control = "analysis"
      BY <3>1, <3>3 DEF Stopped
    <3> QED  BY <2>2, <3>1, <3>4 DEF StopError, LoadError
  <2> QED  BY <2>1, <2>2
<1> QED
  BY <1>1, <1>2, EndStep, OwnCodes

\* A task goes on to its next step, or ends with its answer: what it has cut or pinned so
\* far is what it had before and this step.
LEMMA AdvanceStep ==
  ASSUME HandlersAssumption, ServerInvariant, NEW r \in Requests, NEW cut \in BOOLEAN,
         Alive(r), Advance(r, cut), UNCHANGED <<request, handler, answer>>,
         pinned' \in BOOLEAN, reviewed' \in BOOLEAN, released' \in BOOLEAN,
         KeepsPin, ReviewsArePinned',
         cut => Now(r).stop # "fails",
         ~cut /\ task[r].cut => Now(r).op # "reviewable",
         Now(r).op = "pin" /\ request[r].route = "review" => pinned' \/ released'
  PROVE  ServerInvariant'
<1> DEFINE T == [state : {"none", "alive", "ended"}, pc : Nat, partial : BOOLEAN,
                 cut : BOOLEAN, result : Results, cause : {"none", "failure", "stopped"}]
<1> DEFINE route == request[r].route
<1>1. PICK next : next = [task[r] EXCEPT !.pc = @ + 1, !.partial = Carried(task[r].partial, cut),
                                         !.cut = @ \/ cut]
  OBVIOUS
<1>2. task \in [Requests -> T] /\ task[r] \in T /\ task[r].state = "alive"
  BY DEF ServerInvariant, Typed, Alive
<1>3. /\ next \in T /\ next.state = "alive" /\ next.pc = task[r].pc + 1
      /\ next.cut <=> task[r].cut \/ cut
      /\ next.partial <=> task[r].partial \/ cut
      /\ next.cause = task[r].cause
  <2>1. PICK p \in BOOLEAN : p = Carried(task[r].partial, cut) /\ (p <=> task[r].partial \/ cut)
    BY DEF Carried
  <2>2. PICK c \in BOOLEAN : c = (task[r].cut \/ cut) /\ (c <=> task[r].cut \/ cut)
    OBVIOUS
  <2>3. next = [task[r] EXCEPT !.pc = @ + 1, !.partial = p, !.cut = c]
    BY <1>1, <2>1, <2>2
  <2>4. PICK n \in Nat : n = task[r].pc + 1
    BY <1>2
  <2>5. next = [task[r] EXCEPT !.pc = n, !.partial = p, !.cut = c]
    BY <2>3, <2>4
  <2>6. next \in T
    BY <1>2, <2>5
  <2>7. /\ next.state = task[r].state /\ next.pc = n /\ next.cut = c /\ next.partial = p
        /\ next.cause = task[r].cause
    BY <1>2, <2>5
  <2> QED  BY <1>2, <2>1, <2>2, <2>4, <2>6, <2>7
<1>4. /\ task[r].pc \in 1..Len(Handlers[route]) /\ Handlers[route] \in Seq(Steps)
      /\ Now(r) = Handlers[route][task[r].pc]
  BY AtAStep
<1>5. Consistent(r)
  BY DEF ServerInvariant
<1>6. CASE task[r].pc < Len(Handlers[route])
  <2>1. task' = [task EXCEPT ![r] = next] /\ live' = [live EXCEPT ![r] = @ \cup {"own"}]
        /\ permits' = permits
    BY <1>1, <1>6 DEF Advance
  <2>2. task'[r] = next /\ live'[r] = live[r] \cup {"own"} /\ Alive(r)'
    BY <1>2, <1>3, <2>1 DEF ServerInvariant, Typed, Alive
  <2>3. Typed' /\ Touches(r)
    BY <1>3, <2>1 DEF ServerInvariant, Typed, Touches
  <2>4. next.pc \in DOMAIN Handlers[route]
    BY <1>3, <1>4, <1>6
  <2>5. next.cut => CutSince(r)'
    <3>1. CASE cut
      <4>1. /\ task[r].pc \in 1..(next.pc - 1) /\ Handlers[route][task[r].pc].stop # "fails"
            /\ \A j \in (task[r].pc + 1)..(next.pc - 1) : Handlers[route][j].op # "reviewable"
        BY <1>3, <1>4, <3>1
      <4> QED  BY <2>2, <4>1 DEF CutSince
    <3>2. CASE ~cut /\ task[r].cut
      <4>1. PICK k \in 1..(task[r].pc - 1) :
              /\ Handlers[route][k].stop # "fails"
              /\ \A j \in (k + 1)..(task[r].pc - 1) : Handlers[route][j].op # "reviewable"
        BY <1>5, <3>2 DEF Consistent, CutSince
      <4>2. k \in 1..(next.pc - 1)
        BY <1>3, <1>4
      <4>3. \A j \in (k + 1)..(next.pc - 1) : Handlers[route][j].op # "reviewable"
        <5> SUFFICES ASSUME NEW j \in (k + 1)..(next.pc - 1)
                     PROVE  Handlers[route][j].op # "reviewable"
          OBVIOUS
        <5>1. CASE j = task[r].pc
          BY <1>4, <3>2, <5>1
        <5>2. CASE j # task[r].pc
          <6>1. j \in (k + 1)..(task[r].pc - 1)
            BY <1>3, <1>4, <5>2
          <6> QED  BY <4>1, <6>1
        <5> QED  BY <5>1, <5>2
      <4> QED  BY <2>2, <4>1, <4>2, <4>3 DEF CutSince
    <3> QED  BY <1>3, <3>1, <3>2
  <2>6. HasPinned(r)' => pinned' \/ released'
    <3> SUFFICES ASSUME HasPinned(r)'  PROVE pinned' \/ released'
      OBVIOUS
    <3>1. PICK j \in 1..(next.pc - 1) : Handlers["review"][j].op = "pin"
      BY <2>2 DEF HasPinned
    <3>2. route = "review"
      BY DEF HasPinned
    <3>3. CASE j = task[r].pc
      BY <1>4, <3>1, <3>2, <3>3
    <3>4. CASE j # task[r].pc
      <4>1. j \in 1..(task[r].pc - 1)
        BY <1>3, <1>4, <3>4
      <4>2. HasPinned(r)
        BY <3>1, <3>2, <4>1 DEF HasPinned
      <4> QED  BY <1>5, <4>2 DEF Consistent, KeepsPin
    <3> QED  BY <3>3, <3>4
  <2>7. Consistent(r)'
    BY <1>2, <1>3, <1>5, <2>2, <2>4, <2>5, <2>6 DEF Consistent, Alive, NoTask
  <2>8. Accounted'
    BY <2>1, <2>2, <2>3, PermitsFollow
  <2> QED
    BY <2>3, <2>7, <2>8, OneRequest
<1>7. CASE ~(task[r].pc < Len(Handlers[route]))
  <2>1. PICK result \in {"ok", "too_large"} :
          task' = [task EXCEPT ![r] = [next EXCEPT !.state = "ended", !.result = result]]
    BY <1>1, <1>7 DEF Advance
  <2>2. permits' = permits + 1 /\ live' = [live EXCEPT ![r] = {}]
    BY <1>7 DEF Advance
  <2>3. PICK ended : ended = [next EXCEPT !.state = "ended", !.result = result]
    OBVIOUS
  <2>4. result \in Results
    BY OwnCodes DEF Results
  <2>5. /\ ended \in T /\ ended.state = "ended" /\ ended.result = result
        /\ ended.cut = next.cut /\ ended.partial = next.partial /\ ended.cause = next.cause
    BY <1>3, <2>3, <2>4
  <2>6. task' = [task EXCEPT ![r] = ended]
    BY <2>1, <2>3
  <2>7. task'[r] = ended /\ ~Alive(r)' /\ permits' \in Nat
    BY <1>2, <2>2, <2>5, <2>6 DEF ServerInvariant, Typed, Alive
  <2>8. Typed' /\ Touches(r)
    BY <2>2, <2>5, <2>6, <2>7 DEF ServerInvariant, Typed, Touches
  <2>9. task[r].cause # "stopped"
    BY <1>2, <1>5 DEF Consistent
  <2>10. Consistent(r)'
    BY <1>2, <1>3, <1>5, <2>5, <2>7, <2>9 DEF Consistent, Alive, NoTask
  <2>11. Accounted'
    BY <2>2, <2>7, <2>8, PermitsFollow
  <2> QED
    BY <2>8, <2>10, <2>11, OneRequest
<1> QED
  BY <1>6, <1>7

\* What a step does to the pin and the reviews: nothing takes the pin away but a client
\* that gives it back, and a review is recorded behind its pin.
LEMMA ApplyStep ==
  ASSUME HandlersAssumption, ServerInvariant, NEW r \in Requests, Alive(r), Apply(r)
  PROVE  /\ pinned' \in BOOLEAN /\ reviewed' \in BOOLEAN /\ released' \in BOOLEAN
         /\ KeepsPin /\ ReviewsArePinned'
         /\ Now(r).op = "pin" /\ request[r].route = "review" => pinned' \/ released'
<1>1. /\ pinned \in BOOLEAN /\ reviewed \in BOOLEAN /\ released \in BOOLEAN
      /\ ReviewsArePinned /\ Consistent(r)
  BY DEF ServerInvariant, Typed
<1>2. Now(r).op = "record" => pinned \/ released
  <2> SUFFICES ASSUME Now(r).op = "record"  PROVE pinned \/ released
    OBVIOUS
  <2>1. /\ Careful(request[r].route) /\ task[r].pc \in DOMAIN Handlers[request[r].route]
        /\ Now(r) = Handlers[request[r].route][task[r].pc]
    BY AtAStep
  <2>2. HasPinned(r)
    BY <2>1 DEF Careful, HasPinned
  <2> QED  BY <1>1, <2>2 DEF Consistent
<1>3. CASE Now(r).op = "pin" /\ pinned' = TRUE /\ released' = FALSE /\ UNCHANGED reviewed
  BY <1>1, <1>3 DEF KeepsPin, ReviewsArePinned
<1>4. CASE Now(r).op = "unpin" /\ pinned' = FALSE /\ released' = TRUE /\ UNCHANGED reviewed
  BY <1>1, <1>4 DEF KeepsPin, ReviewsArePinned
<1>5. CASE Now(r).op = "record" /\ reviewed' = TRUE /\ UNCHANGED <<pinned, released>>
  BY <1>1, <1>2, <1>5 DEF KeepsPin, ReviewsArePinned
<1>6. CASE ~(Now(r).op = "pin" /\ request[r].route = "review") /\ UNCHANGED <<pinned, reviewed, released>>
  BY <1>1, <1>6 DEF KeepsPin, ReviewsArePinned
<1> QED
  BY <1>3, <1>4, <1>5, <1>6 DEF Apply, effects

\* Only a whole inference passes the check of one, and only a step that may be cut is.
LEMMA WorkStep ==
  ASSUME HandlersAssumption, ServerInvariant, NEW r \in Requests, Succeed(r) \/ Cut(r)
  PROVE  ServerInvariant'
<1>1. Alive(r) /\ UNCHANGED <<request, handler, answer>> /\ Consistent(r)
  BY DEF Succeed, Cut, ServerInvariant
<1>2. CASE Succeed(r)
  <2>1. Apply(r) /\ Advance(r, FALSE) /\ (Now(r).op = "reviewable" => ~task[r].partial)
    BY <1>2 DEF Succeed
  <2>2. task[r].cut => Now(r).op # "reviewable"
    BY <1>1, <2>1 DEF Consistent
  <2> QED
    BY <1>1, <2>1, <2>2, ApplyStep, AdvanceStep
<1>3. CASE Cut(r)
  <2>1. Advance(r, TRUE) /\ Now(r).stop # "fails" /\ UNCHANGED <<pinned, reviewed, released>>
    BY <1>3 DEF Cut, effects
  <2>2. Now(r).op # "pin"
    <3>1. /\ Careful(request[r].route) /\ task[r].pc \in DOMAIN Handlers[request[r].route]
          /\ Now(r) = Handlers[request[r].route][task[r].pc]
      BY <1>1, AtAStep
    <3> QED  BY <2>1, <3>1 DEF Careful
  <2>3. /\ pinned' \in BOOLEAN /\ reviewed' \in BOOLEAN /\ released' \in BOOLEAN
        /\ KeepsPin /\ ReviewsArePinned'
    BY <2>1 DEF ServerInvariant, Typed, KeepsPin, ReviewsArePinned
  <2> QED
    BY <1>1, <2>1, <2>2, <2>3, AdvanceStep
<1> QED
  BY <1>2, <1>3

-----------------------------------------------------------------------------
(* The invariant. *)

\* Nobody has asked for anything yet.
LEMMA InvariantInit == ASSUME HandlersAssumption, Init PROVE ServerInvariant
<1>1. /\ NoRequest \in [route : Routes, defects : SUBSET Defects] /\ NoRequest.defects = {}
      /\ NoTask \in [state : {"none", "alive", "ended"}, pc : Nat, partial : BOOLEAN,
                     cut : BOOLEAN, result : Results, cause : {"none", "failure", "stopped"}]
      /\ NoTask.state = "none" /\ NoTask.cut = FALSE /\ NoTask.cause = "none"
  BY DEF NoRequest, NoTask, HandlersAssumption, Results
<1>2. Typed /\ ReviewsArePinned
  BY <1>1 DEF Init, Typed, HandlersAssumption, ReviewsArePinned
<1>3. \A r \in Requests : ~Alive(r)
  BY <1>1 DEF Init, Alive
<1>4. \A r \in Requests : Consistent(r)
  BY <1>1, <1>3 DEF Init, Consistent
<1>5. Held = {}
  BY <1>3 DEF Held
<1>6. permits + Cardinality(Held) = MaxQueries
  BY <1>5, FS_EmptySet DEF Init, HandlersAssumption
<1> QED
  BY <1>2, <1>4, <1>6 DEF ServerInvariant

\* Nothing changes.
LEMMA Stutter ==
  ASSUME HandlersAssumption, ServerInvariant, UNCHANGED vars PROVE ServerInvariant'
<1>1. Held' = Held /\ UNCHANGED vars
  BY DEF vars, Held, Alive
<1>2. \A r \in Requests : Consistent(r)'
  BY DEF vars, ServerInvariant, Consistent, Alive, CutSince, HasPinned
<1> QED
  BY <1>1, <1>2 DEF vars, ServerInvariant, Typed, ReviewsArePinned

\* Every step of a request keeps the invariant.
LEMMA InvariantStep ==
  ASSUME HandlersAssumption, ServerInvariant, [Next]_vars PROVE ServerInvariant'
<1>1. ASSUME NEW r \in Requests,
             \/ Refuse(r) \/ Admit(r) \/ Receive(r) \/ Timeout(r) \/ Disconnect(r) \/ Expire(r)
             \/ Succeed(r) \/ Cut(r) \/ Fail(r) \/ StopStep(r) \/ Panic(r) \/ Forget(r)
      PROVE  ServerInvariant'
  BY <1>1, RefuseStep, AdmitStep, HandlerEnds, ExpireStep, WorkStep, FailStep, StopStepStep, ForgetStep
<1> QED
  BY <1>1, Stutter DEF Next

\* The inductive invariant: what a running task has behind it, and who holds the permits.
THEOREM ServerInvariantHolds == ASSUME HandlersAssumption PROVE Spec => []ServerInvariant
<1>1. Init => ServerInvariant
  BY InvariantInit
<1>2. ServerInvariant /\ [Next]_vars => ServerInvariant'
  BY InvariantStep
<1> QED
  BY <1>1, <1>2, PTL DEF Spec

-----------------------------------------------------------------------------
(* What clients are told. *)

\* What a client is told, nothing yet or a status, and how far a task of some steps has come.
Codes == {0, 200} \cup {Status[c] : c \in DOMAIN Status} \cup {Refusal[d] : d \in DOMAIN Refusal}
Says(told) == told.status \in Codes /\ told.partial \in BOOLEAN
IsAt(pc, steps) == pc \in 0..(Len(steps) + 1)
Reported(r) == Says(answer[r]) /\ IsAt(task[r].pc, Handlers[request[r].route])

\* Whatever the server tells is said by one of its codes.
LEMMA ToldIsSaid ==
  /\ Says(NoAnswer)
  /\ \A partial \in BOOLEAN : Says(Told(200, partial))
  /\ \A c \in DOMAIN Status : Says(Told(Status[c], FALSE))
  /\ \A d \in DOMAIN Refusal : Says(Told(Refusal[d], FALSE))
<1>1. /\ {0, 200} \subseteq Codes
      /\ \A c \in DOMAIN Status : Status[c] \in Codes
      /\ \A d \in DOMAIN Refusal : Refusal[d] \in Codes
  BY DEF Codes
<1> QED
  BY <1>1 DEF Says, Told, NoAnswer

\* Every defect is found by a check.
LEMMA RefusalIsKnown ==
  ASSUME HandlersAssumption, NEW defects \in (SUBSET Defects) \ {{}}
  PROVE  FirstFailed(defects) \in DOMAIN Refusal
<1> DEFINE failed == {i \in DOMAIN Checks : Checks[i] \in defects}
<1>1. /\ DOMAIN Checks = 1..10
      /\ \A i \in DOMAIN Checks : Checks[i] \in DOMAIN Refusal
      /\ \A d \in DOMAIN Refusal : \E i \in DOMAIN Checks : Checks[i] = d
  BY DEF Checks, Refusal
<1>2. PICK d \in defects : d \in DOMAIN Refusal
  <2>1. Defects \subseteq DOMAIN Refusal
    BY DEF HandlersAssumption
  <2>2. PICK d : d \in defects
    OBVIOUS
  <2> QED  BY <2>1, <2>2
<1>3. failed \subseteq Nat /\ failed # {}
  BY <1>1, <1>2
<1>4. PICK i \in failed : \A j \in failed : i <= j
  BY <1>3, HasLeast
<1>5. i \in DOMAIN Checks /\ Checks[i] \in defects /\ \A j \in 1..(i - 1) : Checks[j] \notin defects
  <2>1. \A j \in 1..(i - 1) : j \in DOMAIN Checks /\ ~(i <= j)
    BY <1>1, <1>4
  <2> QED  BY <1>4, <2>1
<1> HIDE DEF failed
<1> QED
  BY <1>1, <1>5 DEF FirstFailed

\* A step of one request reports as it should if it does so to that one.
LEMMA ReportsOne ==
  ASSUME \A q \in Requests : Reported(q), NEW r \in Requests, Reported(r)',
         \A q \in Requests \ {r} : /\ request'[q] = request[q] /\ answer'[q] = answer[q]
                                   /\ task'[q] = task[q]
  PROVE  \A q \in Requests : Reported(q)'
BY DEF Reported

\* Handlers end with an answer that has a status, or with none.
LEMMA HandlersReport ==
  ASSUME HandlersAssumption, ServerInvariant, \A q \in Requests : Reported(q), NEW r \in Requests,
         Refuse(r) \/ Admit(r) \/ Receive(r) \/ Timeout(r) \/ Disconnect(r) \/ Forget(r)
  PROVE  \A q \in Requests : Reported(q)'
<1>1. /\ Typed /\ Consistent(r) /\ Reported(r)
      /\ \A route \in Routes : Handlers[route] \in Seq(Steps) /\ Len(Handlers[route]) \in Nat
  BY DEF ServerInvariant, HandlersAssumption, Careful
<1>2. CASE Refuse(r)
  <2>1. PICK defects \in (SUBSET Defects) \ {{}} :
          /\ request' = [request EXCEPT ![r].defects = defects]
          /\ answer' = [answer EXCEPT ![r] = Told(Refusal[FirstFailed(defects)], FALSE)]
    BY <1>2 DEF Refuse
  <2>2. /\ answer'[r] = Told(Refusal[FirstFailed(defects)], FALSE)
        /\ request'[r].route = request[r].route /\ task' = task
        /\ \A q \in Requests \ {r} : request'[q] = request[q] /\ answer'[q] = answer[q]
    <3>1. PICK told : told = Told(Refusal[FirstFailed(defects)], FALSE)
      OBVIOUS
    <3>2. answer' = [answer EXCEPT ![r] = told] /\ DOMAIN answer = Requests
      BY <1>1, <2>1, <3>1 DEF Typed
    <3>3. answer'[r] = told /\ \A q \in Requests \ {r} : answer'[q] = answer[q]
      BY <3>2
    <3>4. request'[r].route = request[r].route /\ \A q \in Requests \ {r} : request'[q] = request[q]
      <4>1. PICK asked : asked = [request[r] EXCEPT !.defects = defects]
        OBVIOUS
      <4>2. request' = [request EXCEPT ![r] = asked]
        BY <1>1, <2>1, <4>1 DEF Typed
      <4>3. asked.route = request[r].route
        BY <1>1, <4>1 DEF Typed
      <4> QED  BY <1>1, <4>2, <4>3 DEF Typed
    <3>5. task' = task
      BY <1>2 DEF Refuse
    <3> QED  BY <3>1, <3>3, <3>4, <3>5
  <2>3. Says(answer'[r])
    BY <2>2, RefusalIsKnown, ToldIsSaid
  <2>4. Reported(r)'
    BY <1>1, <2>2, <2>3 DEF Reported
  <2> QED  BY <2>2, <2>4, ReportsOne
<1>3. CASE Admit(r)
  <2>1. PICK route \in Routes :
          /\ request' = [request EXCEPT ![r] = [route |-> route, defects |-> {}]]
          /\ \/ /\ answer' = [answer EXCEPT ![r] = Told(Status["overloaded"], FALSE)]
                /\ task' = task
             \/ /\ task' = [task EXCEPT ![r] = [NoTask EXCEPT !.state = "alive", !.pc = 1]]
                /\ answer' = answer
    BY <1>3 DEF Admit
  <2>2. task[r] = NoTask /\ task[r].pc = 0
    BY <1>1, <1>3 DEF Admit, Consistent, NoTask
  <2>3. /\ request'[r].route = route /\ task'[r].pc \in {0, 1}
        /\ answer'[r] = Told(Status["overloaded"], FALSE) \/ answer'[r] = answer[r]
    <3>1. PICK first : first = [NoTask EXCEPT !.state = "alive", !.pc = 1]
      OBVIOUS
    <3>2. first.pc = 1
      BY <3>1 DEF NoTask
    <3>3. PICK asked : asked = [route |-> route, defects |-> {}]
      OBVIOUS
    <3>4. /\ request' = [request EXCEPT ![r] = asked] /\ asked.route = route
          /\ \/ answer' = [answer EXCEPT ![r] = Told(Status["overloaded"], FALSE)] /\ task' = task
             \/ task' = [task EXCEPT ![r] = first] /\ answer' = answer
      BY <2>1, <3>1, <3>3
    <3> QED  BY <1>1, <2>2, <3>2, <3>4 DEF Typed
  <2>4. \A q \in Requests \ {r} : request'[q] = request[q] /\ answer'[q] = answer[q] /\ task'[q] = task[q]
    BY <1>1, <2>1 DEF Typed
  <2>5. Says(answer'[r])
    BY <1>1, <2>3, OwnCodes, ToldIsSaid DEF Reported
  <2>6. IsAt(task'[r].pc, Handlers[route])
    BY <1>1, <2>3 DEF IsAt
  <2>7. Reported(r)'
    BY <2>3, <2>5, <2>6 DEF Reported
  <2> QED  BY <2>4, <2>7, ReportsOne
<1>4. CASE Receive(r) \/ Timeout(r) \/ Disconnect(r)
  <2>1. /\ UNCHANGED <<request, task>>
        /\ \A q \in Requests \ {r} : answer'[q] = answer[q]
    BY <1>1, <1>4 DEF Receive, Timeout, Disconnect, Typed
  <2>2. Says(answer'[r])
    <3>1. CASE Receive(r)
      <4>1. /\ answer'[r] = IF task[r].result = "ok" THEN Told(200, task[r].partial)
                                                     ELSE Told(Status[task[r].result], FALSE)
            /\ task[r].state = "ended" /\ task[r].partial \in BOOLEAN
        BY <1>1, <3>1 DEF Receive, Typed
      <4>2. task[r].result \in {"ok"} \cup DOMAIN Status
        BY <1>1, <4>1 DEF Consistent, Typed, Results
      <4> QED  BY <4>1, <4>2, ToldIsSaid
    <3>2. CASE Timeout(r)
      BY <1>1, <3>2, OwnCodes, ToldIsSaid DEF Timeout, Typed
    <3>3. CASE Disconnect(r)
      BY <1>1, <3>3 DEF Disconnect, Reported
    <3> QED  BY <1>4, <3>1, <3>2, <3>3
  <2>3. Reported(r)'
    BY <1>1, <2>1, <2>2 DEF Reported
  <2> QED  BY <2>1, <2>3, ReportsOne
<1>5. CASE Forget(r)
  <2>1. /\ request' = [request EXCEPT ![r] = NoRequest]
        /\ answer' = [answer EXCEPT ![r] = NoAnswer] /\ task' = [task EXCEPT ![r] = NoTask]
    BY <1>5 DEF Forget
  <2>2. /\ request'[r] = NoRequest /\ answer'[r] = NoAnswer /\ task'[r] = NoTask
        /\ \A q \in Requests \ {r} : request'[q] = request[q] /\ answer'[q] = answer[q] /\ task'[q] = task[q]
    BY <1>1, <2>1 DEF Typed
  <2>3. NoRequest.route \in Routes
    BY DEF NoRequest, HandlersAssumption
  <2>4. IsAt(0, Handlers[NoRequest.route]) /\ NoTask.pc = 0
    BY <1>1, <2>3 DEF IsAt, NoTask
  <2>5. Reported(r)'
    BY <2>2, <2>4, ToldIsSaid DEF Reported
  <2> QED  BY <2>2, <2>5, ReportsOne
<1> QED
  BY <1>2, <1>3, <1>4, <1>5

\* Tasks advance by one step, from a step they are at.
LEMMA TasksReport ==
  ASSUME HandlersAssumption, ServerInvariant, \A q \in Requests : Reported(q), NEW r \in Requests,
         Succeed(r) \/ Cut(r) \/ Fail(r) \/ StopStep(r) \/ Panic(r)
  PROVE  \A q \in Requests : Reported(q)'
<1>1. Typed /\ Reported(r) /\ Alive(r) /\ UNCHANGED <<request, answer>>
  BY DEF ServerInvariant, Succeed, Cut, Fail, StopStep, Panic
<1>2. task[r].pc \in 1..Len(Handlers[request[r].route]) /\ Handlers[request[r].route] \in Seq(Steps)
  BY <1>1, AtAStep
<1>3. CASE Succeed(r) \/ Cut(r)
  <2>1. PICK cut \in BOOLEAN : Advance(r, cut)
    BY <1>3 DEF Succeed, Cut
  <2>2. PICK next : next = [task[r] EXCEPT !.pc = @ + 1, !.partial = Carried(task[r].partial, cut),
                                           !.cut = @ \/ cut]
    OBVIOUS
  <2>3. \E last : task' = [task EXCEPT ![r] = last]
                  /\ (last = next \/ \E result \in {"ok", "too_large"} :
                                       last = [next EXCEPT !.state = "ended", !.result = result])
    BY <2>1, <2>2 DEF Advance
  <2>4. PICK last : /\ task' = [task EXCEPT ![r] = last]
                    /\ last = next \/ \E result \in {"ok", "too_large"} :
                                        last = [next EXCEPT !.state = "ended", !.result = result]
    BY <2>3
  <2>5. next.pc = task[r].pc + 1 /\ last.pc = next.pc
    <3>1. DOMAIN task[r] = {"state", "pc", "partial", "cut", "result", "cause"}
      BY <1>1 DEF Typed
    <3> QED  BY <2>2, <2>4, <3>1
  <2>6. task'[r] = last /\ \A q \in Requests \ {r} : task'[q] = task[q]
    BY <1>1, <2>4 DEF Typed
  <2>7. IsAt(task'[r].pc, Handlers[request[r].route])
    BY <1>2, <2>5, <2>6 DEF IsAt
  <2>8. Reported(r)'
    BY <1>1, <2>7 DEF Reported
  <2> QED  BY <1>1, <2>6, <2>8, ReportsOne
<1>4. CASE Fail(r) \/ StopStep(r) \/ Panic(r)
  <2>1. \E result, cause : End(r, result, cause)
    BY <1>4 DEF Fail, StopStep, Panic
  <2>2. /\ task'[r].pc = task[r].pc
        /\ \A q \in Requests \ {r} : task'[q] = task[q]
    BY <1>1, <2>1 DEF End, Typed
  <2>3. Reported(r)'
    BY <1>1, <2>2 DEF Reported
  <2> QED  BY <1>1, <2>2, <2>3, ReportsOne
<1> QED
  BY <1>3, <1>4

\* The types of the model, from the invariant and what is reported.
LEMMA TypesFollow ==
  ASSUME HandlersAssumption, ServerInvariant, \A r \in Requests : Reported(r)
  PROVE  TypeOK
<1>1. permits \in 0..MaxQueries
  <2>1. /\ permits \in Nat /\ MaxQueries \in Nat /\ Cardinality(Held) \in Nat
        /\ permits + Cardinality(Held) = MaxQueries
    BY HeldIsFinite DEF ServerInvariant, Typed, HandlersAssumption
  <2> QED  BY <2>1
<1>2. \A r \in Requests : /\ task[r].state \in {"none", "alive", "ended"}
                          /\ task[r].result \in {"none", "ok"} \cup DOMAIN Status
                          /\ live[r] \subseteq {"query", "analysis", "own"}
  BY DEF ServerInvariant, Typed, Results
<1> QED
  BY <1>1, <1>2 DEF ServerInvariant, Typed, Reported, Says, IsAt, Codes, TypeOK

-----------------------------------------------------------------------------
(* What the invariant implies. *)

\* Every answer has a status of the server, no task runs past its last step, and permits
\* are neither lost nor made.
THEOREM TypesHold == ASSUME HandlersAssumption PROVE Spec => []TypeOK
<1>1. Init => \A r \in Requests : Reported(r)
  <2> SUFFICES ASSUME Init, NEW r \in Requests  PROVE Reported(r)
    OBVIOUS
  <2>1. /\ request[r] = NoRequest /\ answer[r] = NoAnswer /\ task[r] = NoTask
    BY DEF Init
  <2>2. NoRequest.route \in Routes
    BY DEF NoRequest, HandlersAssumption
  <2>3. Len(Handlers[NoRequest.route]) \in Nat
    BY <2>2 DEF HandlersAssumption, Careful
  <2>4. IsAt(0, Handlers[NoRequest.route]) /\ NoTask.pc = 0
    BY <2>3 DEF IsAt, NoTask
  <2> QED  BY <2>1, <2>4, ToldIsSaid DEF Reported
<1>2. ServerInvariant /\ (\A r \in Requests : Reported(r)) /\ [Next]_vars => (\A r \in Requests : Reported(r))'
  <2> SUFFICES ASSUME ServerInvariant, \A r \in Requests : Reported(r), [Next]_vars
               PROVE  \A r \in Requests : Reported(r)'
    OBVIOUS
  <2>1. CASE UNCHANGED vars
    BY <2>1 DEF vars, Reported
  <2>2. ASSUME NEW r \in Requests,
               \/ Refuse(r) \/ Admit(r) \/ Receive(r) \/ Timeout(r) \/ Disconnect(r) \/ Expire(r)
               \/ Succeed(r) \/ Cut(r) \/ Fail(r) \/ StopStep(r) \/ Panic(r) \/ Forget(r)
        PROVE  \A q \in Requests : Reported(q)'
    <3>1. CASE Expire(r)
      BY <3>1 DEF Expire, Reported
    <3> QED  BY <2>2, <3>1, HandlersReport, TasksReport
  <2> QED  BY <2>1, <2>2 DEF Next
<1>3. ServerInvariant /\ (\A r \in Requests : Reported(r)) => TypeOK
  BY TypesFollow
<1> QED
  BY <1>1, <1>2, <1>3, ServerInvariantHolds, PTL DEF Spec

\* perform_with_timeout: the permits that are out are those of running tasks, so requests
\* that time out or are dropped never start more work than max_concurrent_queries.
THEOREM PermitsAccountedHolds == ASSUME HandlersAssumption PROVE Spec => []PermitsAccounted
<1>1. ServerInvariant => PermitsAccounted
  BY DEF ServerInvariant, Consistent, PermitsAccounted
<1> QED
  BY <1>1, ServerInvariantHolds, PTL

\* CancelOnDrop: a task whose handler is over, however it ended, finds its controls stopped.
THEOREM OrphansAreToldHolds == ASSUME HandlersAssumption PROVE Spec => []OrphansAreTold
<1>1. ServerInvariant => OrphansAreTold
  BY DEF ServerInvariant, Consistent, OrphansAreTold
<1> QED
  BY <1>1, ServerInvariantHolds, PTL

\* The handlers of the analyses and of the reviews: an answer that was cut says so, and
\* nothing that was cut is validated, pinned or recorded.
THEOREM NoSilentCutHolds == ASSUME HandlersAssumption PROVE Spec => []NoSilentCut
<1>1. ASSUME HandlersAssumption, ServerInvariant, NEW r \in Requests, task[r].cut, Alive(r)
      PROVE  Now(r).op \notin {"record", "validate", "pin"}
  <2> DEFINE route == request[r].route
  <2>1. /\ Careful(route) /\ task[r].pc \in 1..Len(Handlers[route]) /\ Handlers[route] \in Seq(Steps)
        /\ Now(r) = Handlers[route][task[r].pc]
    BY <1>1, AtAStep
  <2>2. PICK k \in 1..(task[r].pc - 1) :
          /\ Handlers[route][k].stop # "fails"
          /\ \A j \in (k + 1)..(task[r].pc - 1) : Handlers[route][j].op # "reviewable"
    BY <1>1 DEF ServerInvariant, Consistent, CutSince
  <2>3. ~WholeBefore(route, task[r].pc)
    <3> SUFFICES ASSUME WholeBefore(route, task[r].pc)  PROVE FALSE
      OBVIOUS
    <3>1. PICK j \in 0..(task[r].pc - 1) :
            /\ j # 0 => Handlers[route][j].op = "reviewable"
            /\ \A i \in 1..(task[r].pc - 1) : j <= i => Handlers[route][i].stop = "fails"
      BY DEF WholeBefore
    <3>2. ~(j <= k)
      BY <2>2, <3>1
    <3>3. j # 0 /\ j \in (k + 1)..(task[r].pc - 1)
      BY <2>1, <3>1, <3>2
    <3> QED  BY <2>2, <3>1, <3>3
  <2> QED
    BY <2>1, <2>3 DEF Careful
<1>2. ServerInvariant => NoSilentCut
  BY <1>1 DEF ServerInvariant, Consistent, NoSilentCut
<1> QED
  BY <1>2, ServerInvariantHolds, PTL

\* compiler_load_cancelled and review_error: a load that was stopped is never answered as missing or damaged evidence.
THEOREM StopIsNotCorruptionHolds == ASSUME HandlersAssumption PROVE Spec => []StopIsNotCorruption
<1>1. ServerInvariant => StopIsNotCorruption
  BY DEF ServerInvariant, Consistent, StopIsNotCorruption
<1> QED
  BY <1>1, ServerInvariantHolds, PTL

\* state_machine review: a stored review keeps its snapshot pinned until a client gives the
\* pin back, whatever stops, fails or panics between the pin and the record.
THEOREM ReviewsArePinnedHolds == ASSUME HandlersAssumption PROVE Spec => []ReviewsArePinned
<1>1. ServerInvariant => ReviewsArePinned
  BY DEF ServerInvariant
<1> QED
  BY <1>1, ServerInvariantHolds, PTL

\* What the server tells: a cut answer says so, a stopped load is not answered as damaged
\* evidence, and a stored review keeps its snapshot pinned.
THEOREM AnswersAreHonestHolds == ASSUME HandlersAssumption PROVE Spec => []AnswersAreHonest
<1>1. TypeOK /\ ServerInvariant /\ NoSilentCut /\ StopIsNotCorruption /\ ReviewsArePinned => AnswersAreHonest
  BY DEF AnswersAreHonest
<1> QED
  BY <1>1, TypesHold, ServerInvariantHolds, NoSilentCutHolds, StopIsNotCorruptionHolds,
     ReviewsArePinnedHolds, PTL

\* How the server runs its tasks: permits are held by those that run, and one that nobody
\* waits for is told.
THEOREM TasksAreSupervisedHolds == ASSUME HandlersAssumption PROVE Spec => []TasksAreSupervised
<1>1. TypeOK /\ ServerInvariant /\ PermitsAccounted /\ OrphansAreTold => TasksAreSupervised
  BY DEF TasksAreSupervised
<1> QED
  BY <1>1, TypesHold, ServerInvariantHolds, PermitsAccountedHolds, OrphansAreToldHolds, PTL

-----------------------------------------------------------------------------
(* The preparations that the panes of the client share. *)

\* An instance counts as this module does.
LEMMA PanesCount ==
  /\ \A S : Panes!IsFiniteSet(S) <=> IsFiniteSet(S)
  /\ \A S : Panes!Cardinality(S) = Cardinality(S)
<1>1. \A S : Panes!IsFiniteSet(S) <=> IsFiniteSet(S)
  BY DEF Panes!IsFiniteSet, IsFiniteSet
<1>2. \A S : Panes!Cardinality(S) = Cardinality(S)
  BY DEF Panes!Cardinality, Cardinality
<1> QED
  BY <1>1, <1>2

\* Taking entries from the map keeps the order of the others.
LEMMA LessOrdered ==
  ASSUME NEW map, Panes!IsMap(map), Panes!Ordered(map), NEW es
  PROVE  LET left == Panes!Less(map, es)
         IN  /\ Panes!IsMap(left) /\ DOMAIN left = DOMAIN map \ es
             /\ Panes!Ordered(left)
<1> DEFINE left == Panes!Less(map, es)
<1>1. /\ DOMAIN map \subseteq Panes!Entries /\ \A e \in DOMAIN map : map[e] \subseteq DOMAIN map
  BY DEF Panes!IsMap
<1>2. DOMAIN left = DOMAIN map \ es /\ \A e \in DOMAIN map \ es : left[e] = map[e] \ es
  BY DEF Panes!Less
<1>3. left \in [DOMAIN map \ es -> SUBSET (DOMAIN map \ es)]
  BY <1>1 DEF Panes!Less
<1>4. Panes!IsMap(left)
  BY <1>1, <1>3 DEF Panes!IsMap
<1> HIDE DEF left
<1>5. Panes!Ordered(left)
  <2>1. ASSUME NEW e \in DOMAIN left
        PROVE  e \notin left[e] /\ \A f \in left[e] : left[f] \subseteq left[e]
    <3>1. ASSUME NEW f \in left[e]
          PROVE  left[f] \subseteq left[e]
      <4>1. e \in DOMAIN map /\ f \in map[e] /\ f \in DOMAIN map \ es
        BY <1>1, <1>2, <2>1, <3>1
      <4>2. map[f] \subseteq map[e]
        BY <4>1 DEF Panes!Ordered
      <4> QED  BY <1>2, <2>1, <4>1, <4>2
    <3>2. e \notin left[e]
      BY <1>2, <2>1 DEF Panes!Ordered
    <3> QED  BY <3>1, <3>2
  <2>2. ASSUME NEW e \in DOMAIN left, NEW f \in DOMAIN left
        PROVE  e = f \/ e \in left[f] \/ f \in left[e]
    <3>1. e \in DOMAIN map \ es /\ f \in DOMAIN map \ es
      BY <1>2, <2>2
    <3>2. e = f \/ e \in map[f] \/ f \in map[e]
      BY <3>1 DEF Panes!Ordered
    <3> QED  BY <1>2, <3>1, <3>2
  <2> QED  BY <2>1, <2>2 DEF Panes!Ordered
<1> QED
  BY <1>2, <1>4, <1>5 DEF left

\* And so does one that is put behind all of them.
LEMMA MoreOrdered ==
  ASSUME NEW map, Panes!IsMap(map), Panes!Ordered(map), NEW e \in Panes!Entries, e \notin DOMAIN map
  PROVE  LET more == Panes!More(map, e)
         IN  /\ Panes!IsMap(more) /\ DOMAIN more = DOMAIN map \cup {e}
             /\ Panes!Ordered(more)
<1> DEFINE more == Panes!More(map, e)
<1>1. /\ DOMAIN map \subseteq Panes!Entries /\ \A f \in DOMAIN map : map[f] \subseteq DOMAIN map
  BY DEF Panes!IsMap
<1>2. /\ DOMAIN more = DOMAIN map \cup {e} /\ more[e] = DOMAIN map
      /\ \A f \in DOMAIN map : more[f] = map[f]
  BY DEF Panes!More
<1>3. more \in [DOMAIN map \cup {e} -> SUBSET (DOMAIN map \cup {e})]
  BY <1>1 DEF Panes!More
<1>4. Panes!IsMap(more)
  BY <1>1, <1>3 DEF Panes!IsMap
<1> HIDE DEF more
<1>5. Panes!Ordered(more)
  <2>1. ASSUME NEW f \in DOMAIN more
        PROVE  f \notin more[f] /\ \A g \in more[f] : more[g] \subseteq more[f]
    <3>1. CASE f = e
      BY <1>1, <1>2, <3>1
    <3>2. CASE f # e
      <4>1. f \in DOMAIN map /\ more[f] = map[f]
        BY <1>2, <2>1, <3>2
      <4>2. f \notin map[f] /\ \A g \in map[f] : g \in DOMAIN map /\ map[g] \subseteq map[f]
        BY <1>1, <4>1 DEF Panes!Ordered
      <4> QED  BY <1>2, <4>1, <4>2
    <3> QED  BY <3>1, <3>2
  <2>2. ASSUME NEW f \in DOMAIN more, NEW g \in DOMAIN more
        PROVE  f = g \/ f \in more[g] \/ g \in more[f]
    <3>1. CASE f \in DOMAIN map /\ g \in DOMAIN map
      BY <1>2, <3>1 DEF Panes!Ordered
    <3>2. CASE f = e \/ g = e
      BY <1>2, <2>2, <3>2
    <3> QED  BY <1>2, <2>2, <3>1, <3>2
  <2> QED  BY <2>1, <2>2 DEF Panes!Ordered
<1> QED
  BY <1>2, <1>4, <1>5 DEF more

\* A map is finite, and some entry of a part of it is in front of the others.
LEMMA OldestIsThere ==
  ASSUME NEW map, Panes!IsMap(map), Panes!Ordered(map), NEW some \in SUBSET DOMAIN map, some # {}, MaxFetches \in Nat
  PROVE  (CHOOSE e \in some : map[e] \cap some = {}) \in some
<1> DEFINE before == [e \in some |-> map[e] \cap some]
<1>1. IsFiniteSet(some)
  <2>1. some \in SUBSET (1..MaxFetches)
    BY DEF Panes!IsMap, Panes!Entries
  <2> QED  BY <2>1, FS_Interval, FS_Subset
<1>2. /\ before \in [some -> SUBSET some]
      /\ \A x \in some : before[x] = map[x] \cap some
  OBVIOUS
<1>3. \A x \in some : x \notin before[x] /\ \A y \in before[x] : before[y] \subseteq before[x]
  BY DEF Panes!Ordered
<1>4. \A x, y \in some : x = y \/ x \in before[y] \/ y \in before[x]
  BY DEF Panes!Ordered
<1>5. 1 \in Nat /\ 1 <= Cardinality(some)
  BY <1>1, FS_EmptySet, FS_CardinalityType
<1> HIDE DEF before
<1>6. Cardinality({x \in some : Cardinality(before[x]) < 1}) = 1
  BY <1>1, <1>2, <1>3, <1>4, <1>5, FirstCount
<1>7. {x \in some : Cardinality(before[x]) < 1} # {}
  <2>1. Cardinality({}) # 1
    BY FS_EmptySet
  <2> QED  BY <1>6, <2>1, Zenon
<1>8. PICK x \in some : Cardinality(before[x]) < 1
  BY <1>7
<1>9. before[x] = {}
  <2>1. before[x] \in SUBSET some
    BY <1>2
  <2>2. IsFiniteSet(before[x]) /\ Cardinality(before[x]) \in Nat
    BY <1>1, <2>1, FS_Subset, FS_CardinalityType
  <2> QED  BY <1>8, <2>2, FS_EmptySet
<1> QED
  BY <1>2, <1>9

\* The map stays as it has to be when entries leave it that do not run, or run no more.
LEMMA LessKept ==
  ASSUME Panes!PreparationAssumption,
         NEW map, Panes!IsMap(map), NEW all, NEW n, Panes!Kept(map, all, n), NEW es, NEW new,
         \A e \in DOMAIN map \ es : /\ new[e].scope = all[e].scope /\ ~new[e].aborted
                                    /\ new[e].fetch = IF new[e].ready THEN "done" ELSE "running",
         \A e \in Panes!Entries : /\ new[e].fetch = "running" /\ ~new[e].aborted => e \in DOMAIN map \ es
                                  /\ new[e].ready => new[e].fetch = "done"
                                  /\ e > n => new[e] = Panes!Blank
  PROVE  Panes!IsMap(Panes!Less(map, es)) /\ Panes!Kept(Panes!Less(map, es), new, n)
<1> DEFINE left == Panes!Less(map, es)
<1>1. /\ Panes!Ordered(map) /\ DOMAIN map \subseteq 1..n /\ Cardinality(DOMAIN map) <= Capacity
      /\ \A e, f \in DOMAIN map : all[e].scope = all[f].scope => e = f
  BY PanesCount DEF Panes!Kept
<1>2. Panes!IsMap(left) /\ DOMAIN left = DOMAIN map \ es /\ Panes!Ordered(left)
  BY <1>1, LessOrdered
<1> HIDE DEF left
<1>3. Cardinality(DOMAIN left) <= Capacity
  <2>1. IsFiniteSet(DOMAIN map) /\ DOMAIN map \in SUBSET (1..MaxFetches)
    <3>1. DOMAIN map \in SUBSET (1..MaxFetches) /\ MaxFetches \in Nat
      BY DEF Panes!IsMap, Panes!Entries, Panes!PreparationAssumption
    <3>2. IsFiniteSet(1..MaxFetches)
      <4>1. 1 \in Int /\ MaxFetches \in Int
        BY <3>1
      <4> HIDE DEF left
      <4> QED  BY ONLY <4>1, FS_Interval
    <3> HIDE DEF Panes!IsMap
    <3> QED  BY <3>1, <3>2, FS_Subset
  <2>2. DOMAIN left \in SUBSET DOMAIN map
    BY <1>2
  <2>3. Cardinality(DOMAIN left) <= Cardinality(DOMAIN map) /\ IsFiniteSet(DOMAIN left)
    BY <2>1, <2>2, FS_Subset
  <2> QED
    BY <1>1, <2>1, <2>3, FS_CardinalityType DEF Panes!PreparationAssumption
<1>4. Panes!Kept(left, new, n)
  <2>1. \A e, f \in DOMAIN left : new[e].scope = new[f].scope => e = f
    BY <1>1, <1>2
  <2> QED
    BY <1>1, <1>2, <1>3, <2>1, PanesCount DEF Panes!Kept
<1> QED
  BY <1>2, <1>4 DEF left

\* What joining a preparation changes: that preparation, and the map.
JoinsOne(map, all, n, joined, scope, map_, all_, n_, e) ==
  /\ Panes!IsMap(map_) /\ all_ \in [Panes!Entries -> Panes!Preparations] /\ n_ \in {n, n + 1}
  /\ e \in 1..n_ /\ e \notin joined /\ Panes!Kept(map_, all_, n_)
  /\ all_[e].users = all[e].users + 1 /\ all_[e].scope = scope
  /\ ~all_[e].aborted /\ (all_[e].fetch = "running" \/ all_[e].ready)
  /\ \A f \in Panes!Entries : f # e => all_[f] = all[f]
  /\ e <= n => all_[e].fetch = all[e].fetch /\ all_[e].ready = all[e].ready /\ all_[e].aborted = all[e].aborted

\* Where one that prepares a request stands, and what comes of one more scope.
Standing(map, all, n, joined) ==
  [order |-> map, entry |-> all, fetches |-> n, joined |-> joined, busy |-> FALSE]
JoinsOrNot(map, all, n, joined, scope) ==
  LET next == Panes!Joined(Standing(map, all, n, joined), scope)
  IN  \/ next = [Standing(map, all, n, joined) EXCEPT !.busy = TRUE]
      \/ \E map_, all_, n_, e : /\ JoinsOne(map, all, n, joined, scope, map_, all_, n_, e)
                                /\ next = Standing(map_, all_, n_, joined \cup {e})

\* A scope is joined or started, or there is no room for it.
LEMMA JoinedKept ==
  ASSUME Panes!PreparationAssumption,
         NEW map, Panes!IsMap(map), NEW all \in [Panes!Entries -> Panes!Preparations],
         NEW n \in Nat, n < MaxFetches, NEW joined \in SUBSET (1..n), NEW scope \in Scopes,
         Panes!Kept(map, all, n), \A e \in joined : all[e].scope # scope
  PROVE  JoinsOrNot(map, all, n, joined, scope)
<1>m. PICK m : m = [order |-> map, entry |-> all, fetches |-> n, joined |-> joined, busy |-> FALSE]
  OBVIOUS
<1>n. /\ m = Standing(map, all, n, joined)
      /\ m.order = map /\ m.entry = all /\ m.fetches = n /\ m.joined = joined /\ ~m.busy
  BY <1>m DEF Standing
<1> DEFINE held == {e \in DOMAIN map : all[e].scope = scope}
           idle == {e \in DOMAIN map : all[e].ready}
           full == Cardinality(DOMAIN map) >= Capacity
<1>1. /\ Panes!Ordered(map) /\ DOMAIN map \subseteq 1..n /\ Cardinality(DOMAIN map) <= Capacity
      /\ \A e \in DOMAIN map : ~all[e].aborted /\ all[e].fetch = IF all[e].ready THEN "done" ELSE "running"
      /\ \A e, f \in DOMAIN map : all[e].scope = all[f].scope => e = f
      /\ \A e \in Panes!Entries : /\ all[e].fetch = "running" /\ ~all[e].aborted => e \in DOMAIN map
                                  /\ all[e].ready => all[e].fetch = "done"
                                  /\ e > n => all[e] = Panes!Blank
  BY PanesCount DEF Panes!Kept
<1>2. /\ MaxFetches \in Nat /\ Capacity \in Nat /\ Panes!Entries = 1..MaxFetches
      /\ 1..n \subseteq Panes!Entries /\ n + 1 \in Panes!Entries
  BY DEF Panes!PreparationAssumption, Panes!Entries
<1>3. IsFiniteSet(DOMAIN map) /\ Cardinality(DOMAIN map) \in Nat
  <2>1. IsFiniteSet(1..n) /\ DOMAIN map \in SUBSET (1..n)
    BY <1>1, FS_Interval
  <2> HIDE DEF Panes!IsMap
  <2> QED  BY <2>1, FS_Subset, FS_CardinalityType
<1>4. CASE held # {}
  <2>1. PICK e : e = CHOOSE x \in held : TRUE
    OBVIOUS
  <2>2. e \in held /\ e \in DOMAIN map /\ all[e].scope = scope /\ held = {e} /\ e \in 1..n /\ e \notin joined
    BY <1>1, <1>4, <2>1
  <2>3. PICK left : left = Panes!Less(map, {e})
    OBVIOUS
  <2>4. PICK map_ : map_ = Panes!More(left, e)
    OBVIOUS
  <2>5. Panes!IsMap(left) /\ DOMAIN left = DOMAIN map \ {e} /\ Panes!Ordered(left)
    BY <1>1, <2>3, LessOrdered
  <2>6. Panes!IsMap(map_) /\ DOMAIN map_ = DOMAIN map /\ Panes!Ordered(map_)
    <3>1. e \in Panes!Entries /\ e \notin DOMAIN left
      BY <1>2, <2>2, <2>5
    <3>2. Panes!IsMap(map_) /\ DOMAIN map_ = DOMAIN left \cup {e} /\ Panes!Ordered(map_)
      BY <2>4, <2>5, <3>1, MoreOrdered
    <3> QED  BY <2>2, <2>5, <3>2
  <2>7. PICK all_ : all_ = [all EXCEPT ![e] = [all[e] EXCEPT !.users = @ + 1]]
    OBVIOUS
  <2>8. Panes!Joined(m, scope) = [order |-> map_, entry |-> all_, fetches |-> n,
                                  joined |-> joined \cup {e}, busy |-> FALSE]
    BY <1>4, <1>n, <2>1, <2>2, <2>3, <2>4, <2>7 DEF Panes!Joined
  <2>9. all[e] \in Panes!Preparations
    BY <1>2, <2>2
  <2>10. all_[e] = [scope |-> all[e].scope, users |-> all[e].users + 1, ready |-> all[e].ready,
                    aborted |-> all[e].aborted, fetch |-> all[e].fetch]
    BY <1>2, <2>2, <2>7, <2>9 DEF Panes!Preparations
  <2>11. all_ \in [Panes!Entries -> Panes!Preparations] /\ \A f \in Panes!Entries : f # e => all_[f] = all[f]
    BY <2>7, <2>9, <2>10 DEF Panes!Preparations
  <2>12. \A f \in Panes!Entries : /\ all_[f].scope = all[f].scope /\ all_[f].ready = all[f].ready
                                  /\ all_[f].aborted = all[f].aborted /\ all_[f].fetch = all[f].fetch
    BY <2>10, <2>11
  <2>13. Panes!Kept(map_, all_, n)
    <3>1. \A f \in DOMAIN map_ : ~all_[f].aborted /\ all_[f].fetch = IF all_[f].ready THEN "done" ELSE "running"
      BY <1>1, <1>2, <2>6, <2>12
    <3>2. \A f, g \in DOMAIN map_ : all_[f].scope = all_[g].scope => f = g
      BY <1>1, <1>2, <2>6, <2>12
    <3>3. \A f \in Panes!Entries : /\ all_[f].fetch = "running" /\ ~all_[f].aborted => f \in DOMAIN map_
                                   /\ all_[f].ready => all_[f].fetch = "done"
                                   /\ f > n => all_[f] = Panes!Blank
      <4>1. ~(e > n)
        BY <2>2
      <4> QED  BY <1>1, <2>6, <2>11, <2>12, <4>1
    <3>4. Panes!Cardinality(DOMAIN map_) <= Capacity
      BY <1>1, <2>6, PanesCount
    <3>5. Panes!Ordered(map_) /\ DOMAIN map_ \subseteq 1..n
      BY <1>1, <2>6
    <3> HIDE DEF Panes!IsMap
    <3> QED  BY <3>1, <3>2, <3>3, <3>4, <3>5 DEF Panes!Kept
  <2>14. all_[e].fetch = "running" \/ all_[e].ready
    BY <1>1, <2>2, <2>10
  <2>15. JoinsOne(map, all, n, joined, scope, map_, all_, n, e)
    <3>1. ~all_[e].aborted /\ all_[e].scope = scope /\ all_[e].users = all[e].users + 1
      BY <1>1, <2>2, <2>10
    <3> QED
      BY <1>2, <2>2, <2>6, <2>11, <2>12, <2>13, <2>14, <3>1 DEF JoinsOne
  <2> QED
    BY <1>n, <2>8, <2>15 DEF JoinsOrNot, Standing
<1>5. CASE held = {} /\ full /\ idle = {}
  <2>1. Panes!Joined(m, scope) = [m EXCEPT !.busy = TRUE]
    BY <1>5, <1>n, PanesCount DEF Panes!Joined
  <2> QED  BY <1>n, <2>1 DEF JoinsOrNot
<1>6. CASE held = {} /\ ~(full /\ idle = {})
  <2>1. PICK e : e = n + 1
    OBVIOUS
  <2>2. PICK out : out = IF full THEN {CHOOSE x \in idle : map[x] \cap idle = {}} ELSE {}
    OBVIOUS
  <2>3. PICK left : left = Panes!Less(map, out)
    OBVIOUS
  <2>4. PICK map_ : map_ = Panes!More(left, e)
    OBVIOUS
  <2>5. PICK new : new = [scope |-> scope, users |-> 1, ready |-> FALSE, aborted |-> FALSE, fetch |-> "running"]
    OBVIOUS
  <2>6. PICK all_ : all_ = [all EXCEPT ![e] = new]
    OBVIOUS
  <2>7. Panes!Joined(m, scope) = [order |-> map_, entry |-> all_, fetches |-> e,
                                  joined |-> joined \cup {e}, busy |-> FALSE]
    <3>1. m.order = map /\ m.entry = all /\ m.fetches = n /\ m.joined = joined /\ ~m.busy
      BY <1>n
    <3>2. full => idle # {}
      BY <1>6
    <3>3. out = IF held = {} /\ full THEN {CHOOSE x \in idle : map[x] \cap idle = {}} ELSE held
      BY <1>6, <2>2
    <3>4. Panes!Cardinality(DOMAIN map) = Cardinality(DOMAIN map)
      BY PanesCount
    <3>5. CASE full
      <4>1. PICK oldest : oldest = CHOOSE x \in idle : map[x] \cap idle = {}
        OBVIOUS
      <4>2. out = {oldest} /\ idle # {}
        BY <2>2, <3>2, <3>5, <4>1
      <4>3. Panes!Joined(m, scope) = [order |-> Panes!More(Panes!Less(map, {oldest}), n + 1),
                                      entry |-> [all EXCEPT ![n + 1] = new], fetches |-> n + 1,
                                      joined |-> joined \cup {n + 1}, busy |-> FALSE]
        BY <1>6, <2>5, <3>1, <3>2, <3>4, <3>5, <4>1 DEF Panes!Joined
      <4> QED
        BY <2>1, <2>3, <2>4, <2>6, <4>2, <4>3
    <3>6. CASE ~full
      BY <1>6, <2>1, <2>2, <2>3, <2>4, <2>5, <2>6, <3>1, <3>4, <3>6 DEF Panes!Joined
    <3> QED
      BY <3>5, <3>6
  <2>8. out \subseteq idle /\ (full => out # {})
    <3>1. CASE full
      <4>1. idle \in SUBSET DOMAIN map /\ idle # {}
        BY <1>6, <3>1
      <4> HIDE DEF idle
      <4>2. (CHOOSE x \in idle : map[x] \cap idle = {}) \in idle
        BY <1>1, <1>2, <4>1, OldestIsThere
      <4> QED  BY <2>2, <3>1, <4>2
    <3>2. CASE ~full
      BY <2>2, <3>2
    <3> QED  BY <3>1, <3>2
  <2>9. Panes!IsMap(left) /\ DOMAIN left = DOMAIN map \ out /\ Panes!Ordered(left)
    BY <1>1, <2>3, LessOrdered
  <2>10. e \in Panes!Entries /\ e \notin DOMAIN map /\ e \in Nat /\ e > n
    BY <1>1, <1>2, <2>1
  <2>11. Panes!IsMap(map_) /\ DOMAIN map_ = (DOMAIN map \ out) \cup {e} /\ Panes!Ordered(map_)
    BY <2>4, <2>9, <2>10, MoreOrdered
  <2>12. Cardinality(DOMAIN map_) <= Capacity
    <3>1. IsFiniteSet(DOMAIN left) /\ Cardinality(DOMAIN left) \in Nat /\ e \notin DOMAIN left
          /\ Cardinality(DOMAIN left) <= Cardinality(DOMAIN map)
      <4>1. DOMAIN left \in SUBSET DOMAIN map
        BY <2>9
      <4> QED  BY <1>3, <2>9, <2>10, <4>1, FS_Subset, FS_CardinalityType
    <3>2. Cardinality(DOMAIN map_) = Cardinality(DOMAIN left) + 1
      <4>1. DOMAIN map_ = DOMAIN left \cup {e}
        BY <2>9, <2>11
      <4> QED  BY <3>1, <4>1, FS_AddElement
    <3>3. CASE full
      <4>1. PICK x \in out : x \in DOMAIN map
        BY <2>8, <3>3
      <4>2. DOMAIN left \in SUBSET (DOMAIN map \ {x})
        BY <2>9, <4>1
      <4>3. IsFiniteSet(DOMAIN map \ {x}) /\ Cardinality(DOMAIN map \ {x}) = Cardinality(DOMAIN map) - 1
        BY <1>3, <4>1, FS_RemoveElement
      <4>4. Cardinality(DOMAIN left) <= Cardinality(DOMAIN map) - 1
        BY <4>2, <4>3, FS_Subset
      <4> QED  BY <1>1, <1>2, <1>3, <3>1, <3>2, <4>4
    <3>4. CASE ~full
      BY <1>2, <1>3, <3>1, <3>2, <3>4
    <3> QED  BY <3>3, <3>4
  <2>13. /\ all_ \in [Panes!Entries -> Panes!Preparations] /\ all_[e] = new
         /\ \A f \in Panes!Entries : f # e => all_[f] = all[f]
    BY <2>5, <2>6, <2>10 DEF Panes!Preparations
  <2>14. all[e].users = 0
    BY <1>1, <2>10 DEF Panes!Blank
  <2>15. Panes!Kept(map_, all_, e)
    <3>1. \A f \in DOMAIN map_ : ~all_[f].aborted /\ all_[f].fetch = IF all_[f].ready THEN "done" ELSE "running"
      BY <1>1, <1>2, <2>5, <2>11, <2>13
    <3>2. \A f, g \in DOMAIN map_ : all_[f].scope = all_[g].scope => f = g
      <4>1. \A f \in DOMAIN map : all[f].scope # scope /\ f # e /\ all_[f] = all[f]
        BY <1>1, <1>2, <1>6, <2>10, <2>13
      <4>2. all_[e].scope = scope
        BY <2>5, <2>13
      <4> QED  BY <1>1, <2>11, <4>1, <4>2
    <3>3. \A f \in Panes!Entries : /\ all_[f].fetch = "running" /\ ~all_[f].aborted => f \in DOMAIN map_
                                   /\ all_[f].ready => all_[f].fetch = "done"
                                   /\ f > e => all_[f] = Panes!Blank
      <4>1. ASSUME NEW f \in Panes!Entries, f # e
            PROVE  /\ all_[f].fetch = "running" /\ ~all_[f].aborted => f \in DOMAIN map_
                   /\ all_[f].ready => all_[f].fetch = "done"
                   /\ f > e => all_[f] = Panes!Blank
        <5>1. all_[f] = all[f]
          BY <2>13, <4>1
        <5>2. f \in out => all[f].fetch = "done"
          BY <1>1, <2>8
        <5>3. f > e => f > n
          BY <1>2, <2>1
        <5> QED  BY <1>1, <2>11, <5>1, <5>2, <5>3
      <4>2. all_[e].fetch = "running" /\ ~all_[e].ready /\ ~(e > e) /\ e \in DOMAIN map_
        BY <2>5, <2>10, <2>11, <2>13
      <4> QED  BY <4>1, <4>2
    <3>4. DOMAIN map_ \subseteq 1..e
      BY <1>1, <2>1, <2>11
    <3>5. Panes!Cardinality(DOMAIN map_) <= Capacity /\ Panes!Ordered(map_)
      BY <2>11, <2>12, PanesCount
    <3> QED  BY <3>1, <3>2, <3>3, <3>4, <3>5 DEF Panes!Kept
  <2>16. JoinsOne(map, all, n, joined, scope, map_, all_, e, e)
    <3>1. /\ all_[e].users = all[e].users + 1 /\ all_[e].scope = scope /\ ~all_[e].aborted
          /\ all_[e].fetch = "running"
      BY <2>5, <2>13, <2>14
    <3>2. e \in {n, n + 1} /\ e \in 1..e /\ e \notin joined /\ ~(e <= n)
      BY <2>1
    <3> QED  BY <2>11, <2>13, <2>15, <3>1, <3>2 DEF JoinsOne
  <2> QED
    BY <1>n, <2>7, <2>16 DEF JoinsOrNot, Standing
<1> QED
  BY <1>4, <1>5, <1>6

\* What preparing the scopes of a request changes: those that were joined are used once more,
\* and the map stays as it has to be.
JoinsAll(map, all, n, end) ==
  /\ Panes!IsMap(end.order) /\ end.entry \in [Panes!Entries -> Panes!Preparations]
  /\ end.fetches \in n..MaxFetches /\ end.joined \subseteq 1..end.fetches
  /\ Panes!Kept(end.order, end.entry, end.fetches) /\ (~end.busy => end.joined # {})
  /\ \A e \in end.joined : /\ end.entry[e].users = all[e].users + 1
                           /\ ~end.entry[e].aborted
                           /\ end.entry[e].fetch = "running" \/ end.entry[e].ready
  /\ \A e \in Panes!Entries \ end.joined : end.entry[e] = all[e]
  /\ \A e \in 1..n : /\ end.entry[e].fetch = all[e].fetch /\ end.entry[e].ready = all[e].ready
                     /\ end.entry[e].aborted = all[e].aborted

\* What one scope that is prepared comes to: a server that is busy, or one that was joined.
JoinsOnce(map, all, n, scope, end) ==
  /\ JoinsAll(map, all, n, end)
  /\ \/ end.busy = TRUE /\ end = [Standing(map, all, n, {}) EXCEPT !.busy = TRUE]
     \/ \E map_, all_, n_, e : /\ JoinsOne(map, all, n, {}, scope, map_, all_, n_, e)
                               /\ end = Standing(map_, all_, n_, {e})

\* One scope is prepared.
LEMMA JoinedOnceKept ==
  ASSUME Panes!PreparationAssumption,
         NEW map, Panes!IsMap(map), NEW all \in [Panes!Entries -> Panes!Preparations],
         NEW n \in Nat, n < MaxFetches, NEW scope \in Scopes, Panes!Kept(map, all, n)
  PROVE  JoinsOnce(map, all, n, scope, Panes!Joined(Standing(map, all, n, {}), scope))
<1> DEFINE end == Panes!Joined(Standing(map, all, n, {}), scope)
<1>1. JoinsOrNot(map, all, n, {}, scope)
  <2>1. {} \in SUBSET (1..n) /\ \A e \in {} : all[e].scope # scope
    OBVIOUS
  <2> QED  BY <2>1, JoinedKept
<1>2. \/ end = [Standing(map, all, n, {}) EXCEPT !.busy = TRUE]
      \/ \E map_, all_, n_, e : /\ JoinsOne(map, all, n, {}, scope, map_, all_, n_, e)
                                /\ end = Standing(map_, all_, n_, {} \cup {e})
  BY <1>1 DEF JoinsOrNot
<1>3. MaxFetches \in Nat /\ n \in n..MaxFetches /\ n + 1 \in n..MaxFetches /\ Panes!Entries = 1..MaxFetches
  BY DEF Panes!PreparationAssumption, Panes!Entries
<1> HIDE DEF end
<1>4. CASE end = [Standing(map, all, n, {}) EXCEPT !.busy = TRUE]
  <2>1. end = [order |-> map, entry |-> all, fetches |-> n, joined |-> {}, busy |-> TRUE]
    BY <1>4 DEF Standing
  <2>2. /\ end.order = map /\ end.entry = all /\ end.fetches = n /\ end.joined = {} /\ end.busy = TRUE
    BY <2>1
  <2>3. JoinsAll(map, all, n, end)
    BY <1>3, <2>2 DEF JoinsAll
  <2> QED  BY <1>4, <2>2, <2>3 DEF end, JoinsOnce
<1>5. ASSUME NEW map_, NEW all_, NEW n_, NEW e,
             JoinsOne(map, all, n, {}, scope, map_, all_, n_, e),
             end = Standing(map_, all_, n_, {e})
      PROVE  JoinsAll(map, all, n, end)
  <2>1. /\ Panes!IsMap(map_) /\ all_ \in [Panes!Entries -> Panes!Preparations]
        /\ n_ \in n..MaxFetches /\ e \in 1..n_ /\ Panes!Kept(map_, all_, n_)
    BY <1>3, <1>5 DEF JoinsOne
  <2>2. /\ all_[e].users = all[e].users + 1 /\ all_[e].scope = scope
        /\ ~all_[e].aborted /\ (all_[e].fetch = "running" \/ all_[e].ready)
        /\ \A f \in Panes!Entries : f # e => all_[f] = all[f]
    BY <1>5 DEF JoinsOne
  <2>3. \A f \in 1..n : /\ all_[f].fetch = all[f].fetch /\ all_[f].ready = all[f].ready
                         /\ all_[f].aborted = all[f].aborted
    <3>1. e \in 1..n => /\ all_[e].fetch = all[e].fetch /\ all_[e].ready = all[e].ready
                        /\ all_[e].aborted = all[e].aborted
      BY <1>5 DEF JoinsOne
    <3>2. 1..n \subseteq Panes!Entries
      BY <1>3
    <3> QED  BY <2>2, <3>1, <3>2
  <2> QED
    BY <1>5, <2>1, <2>2, <2>3 DEF JoinsAll, Standing
<1>6. CASE \E map_, all_, n_, e : /\ JoinsOne(map, all, n, {}, scope, map_, all_, n_, e)
                                  /\ end = Standing(map_, all_, n_, {} \cup {e})
  <2>1. PICK map_, all_, n_, e : /\ JoinsOne(map, all, n, {}, scope, map_, all_, n_, e)
                                 /\ end = Standing(map_, all_, n_, {e})
    BY <1>6
  <2>2. JoinsAll(map, all, n, end)
    BY <1>5, <2>1
  <2> QED  BY <2>1, <2>2 DEF end, JoinsOnce
<1> QED
  BY <1>2, <1>4, <1>6

\* Two scopes are prepared: the second one never joins what the first one is.
LEMMA JoinedTwiceKept ==
  ASSUME Panes!PreparationAssumption,
         NEW map, Panes!IsMap(map), NEW all \in [Panes!Entries -> Panes!Preparations],
         NEW n \in Nat, n + 1 < MaxFetches, NEW s \in Scopes, NEW t \in Scopes, s # t,
         Panes!Kept(map, all, n)
  PROVE  JoinsAll(map, all, n, Panes!Joined(Panes!Joined(Standing(map, all, n, {}), s), t))
<1> DEFINE one == Panes!Joined(Standing(map, all, n, {}), s)
           two == Panes!Joined(one, t)
<1>1. /\ JoinsAll(map, all, n, one)
      /\ \/ one.busy = TRUE /\ one = [Standing(map, all, n, {}) EXCEPT !.busy = TRUE]
         \/ \E map_, all_, n_, e : /\ JoinsOne(map, all, n, {}, s, map_, all_, n_, e)
                                   /\ one = Standing(map_, all_, n_, {e})
  <2>1. n < MaxFetches
    BY DEF Panes!PreparationAssumption
  <2>2. JoinsOnce(map, all, n, s, Panes!Joined(Standing(map, all, n, {}), s))
    BY <2>1, JoinedOnceKept
  <2> QED  BY <2>2 DEF JoinsOnce
<1>2. MaxFetches \in Nat /\ Panes!Entries = 1..MaxFetches
  BY DEF Panes!PreparationAssumption, Panes!Entries
<1> HIDE DEF one
<1>3. CASE one.busy = TRUE
  <2>1. two = one
    BY <1>3 DEF Panes!Joined
  <2> QED  BY <1>1, <2>1 DEF one
<1>4. ASSUME NEW map1, NEW all1, NEW n1, NEW e, JoinsOne(map, all, n, {}, s, map1, all1, n1, e),
             one = Standing(map1, all1, n1, {e})
      PROVE  JoinsAll(map, all, n, two)
  <2>1. /\ Panes!IsMap(map1) /\ all1 \in [Panes!Entries -> Panes!Preparations]
        /\ n1 \in n..n + 1 /\ e \in 1..n1 /\ Panes!Kept(map1, all1, n1)
        /\ all1[e].users = all[e].users + 1 /\ all1[e].scope = s
        /\ ~all1[e].aborted /\ (all1[e].fetch = "running" \/ all1[e].ready)
        /\ \A f \in Panes!Entries : f # e => all1[f] = all[f]
    BY <1>4 DEF JoinsOne
  <2>2. e <= n => all1[e].fetch = all[e].fetch /\ all1[e].ready = all[e].ready /\ all1[e].aborted = all[e].aborted
    BY <1>4 DEF JoinsOne
  <2>3. JoinsOrNot(map1, all1, n1, {e}, t)
    <3>1. n1 \in Nat /\ n1 < MaxFetches /\ {e} \in SUBSET (1..n1) /\ \A x \in {e} : all1[x].scope # t
      BY <1>2, <2>1
    <3> QED  BY <2>1, <3>1, JoinedKept
  <2>4. \/ two = [Standing(map1, all1, n1, {e}) EXCEPT !.busy = TRUE]
        \/ \E map_, all_, n_, f : /\ JoinsOne(map1, all1, n1, {e}, t, map_, all_, n_, f)
                                  /\ two = Standing(map_, all_, n_, {e} \cup {f})
    BY <1>4, <2>3 DEF JoinsOrNot
  <2> HIDE DEF two
  <2>5. CASE two = [Standing(map1, all1, n1, {e}) EXCEPT !.busy = TRUE]
    <3>1. /\ two.order = map1 /\ two.entry = all1 /\ two.fetches = n1 /\ two.joined = {e} /\ two.busy = TRUE
      BY <2>5 DEF Standing
    <3>2. \A f \in 1..n : all1[f].fetch = all[f].fetch /\ all1[f].ready = all[f].ready /\ all1[f].aborted = all[f].aborted
      BY <1>2, <2>1, <2>2
    <3>3. n1 \in n..MaxFetches
      BY <1>2, <2>1
    <3> QED  BY <2>1, <3>1, <3>2, <3>3 DEF JoinsAll
  <2>6. ASSUME NEW map2, NEW all2, NEW n2, NEW f, JoinsOne(map1, all1, n1, {e}, t, map2, all2, n2, f),
               two = Standing(map2, all2, n2, {e} \cup {f})
        PROVE  JoinsAll(map, all, n, two)
    <3>1. /\ Panes!IsMap(map2) /\ all2 \in [Panes!Entries -> Panes!Preparations]
          /\ n2 \in n1..n1 + 1 /\ f \in 1..n2 /\ f # e /\ Panes!Kept(map2, all2, n2)
          /\ all2[f].users = all1[f].users + 1
          /\ ~all2[f].aborted /\ (all2[f].fetch = "running" \/ all2[f].ready)
          /\ \A x \in Panes!Entries : x # f => all2[x] = all1[x]
      BY <2>1, <2>6 DEF JoinsOne
    <3>2. f <= n1 => all2[f].fetch = all1[f].fetch /\ all2[f].ready = all1[f].ready /\ all2[f].aborted = all1[f].aborted
      BY <2>6 DEF JoinsOne
    <3>3. /\ two.order = map2 /\ two.entry = all2 /\ two.fetches = n2 /\ two.joined = {e, f} /\ two.busy = FALSE
      BY <2>6 DEF Standing
    <3>4. n2 \in n..MaxFetches /\ 1..n2 \subseteq Panes!Entries /\ e \in 1..n2 /\ e \in Panes!Entries /\ f \in Panes!Entries
      BY <1>2, <2>1, <3>1
    <3>5. all2[e] = all1[e] /\ all1[f] = all[f]
      BY <2>1, <3>1, <3>4
    <3>6. \A x \in {e, f} : /\ all2[x].users = all[x].users + 1 /\ ~all2[x].aborted
                            /\ all2[x].fetch = "running" \/ all2[x].ready
      BY <2>1, <3>1, <3>5
    <3>7. \A x \in Panes!Entries \ {e, f} : all2[x] = all[x]
      BY <2>1, <3>1
    <3>8. \A x \in 1..n : all2[x].fetch = all[x].fetch /\ all2[x].ready = all[x].ready /\ all2[x].aborted = all[x].aborted
      <4>1. e \in 1..n => all2[e].fetch = all[e].fetch /\ all2[e].ready = all[e].ready /\ all2[e].aborted = all[e].aborted
        BY <2>2, <3>5
      <4>2. f \in 1..n => all2[f].fetch = all[f].fetch /\ all2[f].ready = all[f].ready /\ all2[f].aborted = all[f].aborted
        BY <2>1, <3>2, <3>5
      <4>3. 1..n \subseteq Panes!Entries
        BY <1>2
      <4> QED  BY <3>7, <4>1, <4>2, <4>3
    <3>9. {e, f} \subseteq 1..n2 /\ {e, f} # {}
      BY <3>1, <3>4
    <3>10. PICK both : both = {e, f}
      OBVIOUS
    <3>11. /\ two.joined = both /\ both \subseteq 1..n2 /\ both # {}
           /\ \A x \in both : /\ all2[x].users = all[x].users + 1 /\ ~all2[x].aborted
                              /\ all2[x].fetch = "running" \/ all2[x].ready
           /\ \A x \in Panes!Entries \ both : all2[x] = all[x]
      BY <3>3, <3>6, <3>7, <3>9, <3>10
    <3>12. two.order = map2 /\ two.entry = all2 /\ two.fetches = n2 /\ two.busy = FALSE
      BY <3>3
    <3> QED
      BY <3>1, <3>4, <3>8, <3>11, <3>12 DEF JoinsAll
  <2> QED  BY <2>4, <2>5, <2>6
<1>5. CASE \E map_, all_, n_, e : /\ JoinsOne(map, all, n, {}, s, map_, all_, n_, e)
                                  /\ one = Standing(map_, all_, n_, {e})
  <2>1. PICK map_, all_, n_, e : /\ JoinsOne(map, all, n, {}, s, map_, all_, n_, e)
                                 /\ one = Standing(map_, all_, n_, {e})
    BY <1>5
  <2>2. JoinsAll(map, all, n, two)
    BY <1>4, <2>1
  <2> QED  BY <2>2 DEF one
<1> QED
  BY <1>1, <1>3, <1>5

\* All scopes of a request are prepared: there are two of them at most.
LEMMA JoinedAllKept ==
  ASSUME Panes!PreparationAssumption,
         Panes!IsMap(order), entry \in [Panes!Entries -> Panes!Preparations],
         fetches \in Nat, NEW r \in Requests, fetches + Cardinality(Asks[r]) <= MaxFetches,
         NEW s \in Asks[r], Panes!Kept(order, entry, fetches)
  PROVE  JoinsAll(order, entry, fetches, Panes!JoinedAll(r, s))
<1>1. /\ MaxFetches \in Nat /\ Asks[r] \subseteq Scopes /\ s \in Scopes
      /\ \A t, u \in Asks[r] : t = s \/ u = s \/ t = u
  BY DEF Panes!PreparationAssumption
<1>2. CASE Asks[r] = {s}
  <2>1. fetches < MaxFetches
    <3>1. Cardinality(Asks[r]) = 1
      BY <1>2, FS_Singleton
    <3> QED  BY <1>1, <3>1
  <2>2. Panes!JoinedAll(r, s) = Panes!Joined(Standing(order, entry, fetches, {}), s)
    BY <1>2 DEF Panes!JoinedAll, Standing
  <2>3. PICK n \in Nat : n = fetches
    OBVIOUS
  <2>4. JoinsOnce(order, entry, n, s, Panes!Joined(Standing(order, entry, n, {}), s))
    BY <1>1, <2>1, <2>3, JoinedOnceKept
  <2> QED  BY <2>2, <2>3, <2>4 DEF JoinsOnce
<1>3. CASE Asks[r] # {s}
  <2>1. PICK t : t = CHOOSE x \in Asks[r] \ {s} : TRUE
    OBVIOUS
  <2>2. t \in Asks[r] /\ t # s /\ Asks[r] = {s} \cup {t} /\ t \in Scopes
    BY <1>1, <1>3, <2>1
  <2>3. Cardinality(Asks[r]) = 2
    <3>1. IsFiniteSet({s}) /\ Cardinality({s}) = 1
      BY FS_Singleton
    <3>2. Cardinality({s} \cup {t}) = 2
      BY <2>2, <3>1, FS_AddElement
    <3> QED  BY <2>2, <3>2
  <2>4. fetches + 1 < MaxFetches
    BY <1>1, <2>3
  <2>5. Panes!JoinedAll(r, s) = Panes!Joined(Panes!Joined(Standing(order, entry, fetches, {}), s), t)
    BY <1>3, <2>1 DEF Panes!JoinedAll, Standing
  <2> QED  BY <1>1, <2>2, <2>4, <2>5, JoinedTwiceKept
<1> QED
  BY <1>2, <1>3

\* What every step keeps; what is shared while it runs follows from the map.
PanesCore ==
  /\ Panes!TypeOK /\ Panes!MapIsKept /\ Panes!WaitsAreKept /\ Panes!CancelledByOwnSession
  /\ Panes!UsersAreCounted /\ Panes!NothingAbandoned /\ Panes!NobodyForgotten

\* What the steps' proofs need of it.
LEMMA CoreFacts ==
  ASSUME Panes!PreparationAssumption, PanesCore
  PROVE  /\ Panes!IsMap(order) /\ entry \in [Panes!Entries -> Panes!Preparations]
         /\ fetches \in Nat /\ MaxFetches \in Nat /\ Panes!Entries = 1..MaxFetches /\ sweeps \subseteq 1..fetches
         /\ Panes!Kept(order, entry, fetches) /\ waits \in [Requests -> SUBSET Panes!Entries]
         /\ \A r \in Requests : waits[r] \subseteq 1..fetches
<1>1. Panes!TypeOK /\ MaxFetches \in Nat /\ Panes!Entries = 1..MaxFetches
  BY DEF PanesCore, Panes!PreparationAssumption, Panes!Entries
<1>2. Panes!Kept(order, entry, fetches) /\ sweeps \subseteq 1..fetches
  BY DEF PanesCore, Panes!MapIsKept
<1>3. \A r \in Requests : waits[r] \subseteq 1..fetches
  BY DEF PanesCore, Panes!WaitsAreKept
<1>4. /\ Panes!IsMap(order) /\ entry \in [Panes!Entries -> Panes!Preparations]
      /\ fetches \in 0..MaxFetches /\ waits \in [Requests -> SUBSET Panes!Entries]
  BY <1>1 DEF Panes!TypeOK
<1>5. fetches \in Nat
  BY <1>1, <1>4
<1> HIDE DEF Panes!IsMap, Panes!Preparations
<1> QED  BY <1>1, <1>2, <1>3, <1>4, <1>5

\* How many of some requests wait for a preparation.
Gone(rs, e) == Cardinality({r \in rs : e \in waits[r]})

\* The users of a preparation are finitely many of the requests.
LEMMA UsersAreFinite ==
  ASSUME Panes!PreparationAssumption, PanesCore, NEW e \in Panes!Entries, NEW rs \in SUBSET Requests
  PROVE  /\ IsFiniteSet(Panes!Users(e)) /\ Cardinality(Panes!Users(e)) = entry[e].users
         /\ Cardinality(Panes!Users(e) \ rs) = entry[e].users - Gone(rs, e)
         /\ Cardinality(Panes!Users(e) \ rs) \in Nat
         /\ \A r \in Requests : r \in Panes!Users(e) <=> e \in waits[r]
<1>1. \A r \in Requests : r \in Panes!Users(e) <=> e \in waits[r]
  BY DEF PanesCore, Panes!WaitsAreKept, Panes!Users
<1>2. Panes!Users(e) \in SUBSET Requests /\ IsFiniteSet(Requests)
  BY PanesCount DEF Panes!Users, Panes!PreparationAssumption
<1>3. IsFiniteSet(Panes!Users(e))
  BY <1>2, FS_Subset
<1>4. Cardinality(Panes!Users(e)) = entry[e].users
  BY PanesCount DEF PanesCore, Panes!UsersAreCounted
<1>5. {r \in rs : e \in waits[r]} = Panes!Users(e) \cap rs
  BY <1>1, <1>2
<1>6. /\ Cardinality(Panes!Users(e) \ rs) = Cardinality(Panes!Users(e)) - Cardinality(Panes!Users(e) \cap rs)
      /\ Cardinality(Panes!Users(e) \ rs) \in Nat
  BY <1>3, FS_Difference, FS_CardinalityType
<1> QED
  BY <1>1, <1>3, <1>4, <1>5, <1>6 DEF Gone

\* A step in which requests stop to wait, some of their preparations having ended.
Leaves(rs, end, es, ended) ==
  /\ end \in {"failed", "cancelled"} /\ (end = "cancelled" => \A r \in rs : epoch[r] < clears)
  /\ stage' = [r \in Requests |-> IF r \in rs THEN end ELSE stage[r]]
  /\ waits' = [r \in Requests |-> IF r \in rs THEN {} ELSE waits[r]]
  /\ sweeps' = sweeps \cup UNION {waits[r] : r \in rs}
  /\ \A e \in Panes!Entries :
       entry'[e] = [scope |-> entry[e].scope, users |-> entry[e].users - Gone(rs, e),
                    ready |-> entry[e].ready, aborted |-> entry[e].aborted,
                    fetch |-> IF e \in ended THEN "failed" ELSE entry[e].fetch]
  /\ entry' = [e \in Panes!Entries |-> entry'[e]]
  /\ order' = Panes!Less(order, es) /\ ended \subseteq es
  /\ \A e \in ended : entry[e].fetch = "running" /\ Panes!Users(e) \subseteq rs
  /\ \A e \in es \cap DOMAIN order : e \in ended \/ entry[e].ready
  /\ UNCHANGED <<token, session, switches, fetches, sent, epoch, clears>>

\* Those who stay keep what they wait for, and the microtask is queued for the rest.
LEMMA LeavesKeeps ==
  ASSUME Panes!PreparationAssumption, PanesCore, NEW rs \in SUBSET Requests, NEW end, NEW es,
         NEW ended \in SUBSET Panes!Entries, Leaves(rs, end, es, ended)
  PROVE  PanesCore'
<1>1. /\ Panes!IsMap(order) /\ entry \in [Panes!Entries -> Panes!Preparations]
      /\ fetches \in Nat /\ MaxFetches \in Nat /\ Panes!Entries = 1..MaxFetches /\ sweeps \subseteq 1..fetches
      /\ Panes!Kept(order, entry, fetches) /\ waits \in [Requests -> SUBSET Panes!Entries]
      /\ \A r \in Requests : waits[r] \subseteq 1..fetches
  BY CoreFacts
<1>2. \A e \in Panes!Entries : entry[e] \in Panes!Preparations
  BY <1>1
<1>3. /\ \A e \in Panes!Entries : entry'[e].scope = entry[e].scope /\ entry'[e].ready = entry[e].ready
                                  /\ entry'[e].aborted = entry[e].aborted
      /\ \A e \in Panes!Entries \ ended : entry'[e].fetch = entry[e].fetch
      /\ \A e \in ended : entry'[e].fetch = "failed"
  BY DEF Leaves
<1>4. \A e \in Panes!Entries : entry'[e].users = Cardinality(Panes!Users(e) \ rs)
  BY UsersAreFinite DEF Leaves
<1>5. \A e \in Panes!Entries : Panes!Users(e)' = Panes!Users(e) \ rs
  BY DEF Leaves, Panes!Users, Panes!Waiting
<1>6. Panes!UsersAreCounted'
  BY <1>4, <1>5, PanesCount DEF Panes!UsersAreCounted
<1>7. entry' \in [Panes!Entries -> Panes!Preparations]
  <2>1. ASSUME NEW e \in Panes!Entries
        PROVE  entry'[e] \in Panes!Preparations
    <3>1. PICK n \in Nat : n = entry[e].users - Gone(rs, e)
      BY UsersAreFinite
    <3>2. entry'[e] = [scope |-> entry[e].scope, users |-> n, ready |-> entry[e].ready, aborted |-> entry[e].aborted,
                       fetch |-> IF e \in ended THEN "failed" ELSE entry[e].fetch]
      BY <3>1 DEF Leaves
    <3> QED  BY <1>2, <3>2 DEF Panes!Preparations
  <2> QED  BY <2>1 DEF Leaves
<1>8. /\ Panes!IsMap(order') /\ Panes!Kept(order', entry', fetches)
  <2>1. PICK new : new = entry'
    OBVIOUS
  <2>2. ASSUME NEW e \in DOMAIN order \ es
        PROVE  /\ new[e].scope = entry[e].scope /\ ~new[e].aborted
               /\ new[e].fetch = IF new[e].ready THEN "done" ELSE "running"
    <3>1. e \in Panes!Entries /\ e \notin ended
      BY <1>1, <2>2 DEF Leaves, Panes!IsMap
    <3>2. ~entry[e].aborted /\ entry[e].fetch = IF entry[e].ready THEN "done" ELSE "running"
      BY <1>1 DEF Panes!Kept
    <3> QED  BY <1>3, <2>1, <3>1, <3>2
  <2>3. ASSUME NEW e \in Panes!Entries
        PROVE  /\ new[e].fetch = "running" /\ ~new[e].aborted => e \in DOMAIN order \ es
               /\ new[e].ready => new[e].fetch = "done"
               /\ e > fetches => new[e] = Panes!Blank
    <3>1. /\ entry[e].fetch = "running" /\ ~entry[e].aborted => e \in DOMAIN order
          /\ entry[e].ready => entry[e].fetch = "done"
          /\ e > fetches => entry[e] = Panes!Blank
      BY <1>1 DEF Panes!Kept
    <3>2. e \in ended => entry[e].fetch = "running" /\ entry'[e].fetch = "failed"
      BY <1>3 DEF Leaves
    <3>3. e \notin ended => entry'[e].fetch = entry[e].fetch
      BY <1>3
    <3>4. new[e].fetch = "running" /\ ~new[e].aborted => e \in DOMAIN order \ es
      BY <1>3, <2>1, <3>1, <3>2, <3>3 DEF Leaves
    <3>5. new[e].ready => new[e].fetch = "done"
      BY <1>3, <2>1, <3>1, <3>2, <3>3
    <3>6. ASSUME e > fetches PROVE new[e] = Panes!Blank
      <4>1. {r \in rs : e \in waits[r]} = {}
        BY <1>1, <3>6
      <4>2. Gone(rs, e) = 0
        BY <4>1, FS_EmptySet DEF Gone
      <4>3. PICK b : b = entry[e]
        OBVIOUS
      <4>4. b = [scope |-> CHOOSE s \in Scopes : TRUE, users |-> 0, ready |-> FALSE, aborted |-> FALSE, fetch |-> "none"]
        BY <3>1, <3>6, <4>3 DEF Panes!Blank
      <4>5. entry'[e] = [scope |-> b.scope, users |-> b.users - 0, ready |-> b.ready,
                         aborted |-> b.aborted, fetch |-> b.fetch]
        <5>1. b.fetch # "running" /\ b.users = 0
          BY <4>4
        <5>2. e \notin ended
          BY <3>2, <4>3, <5>1
        <5> QED  BY <4>2, <4>3, <5>2 DEF Leaves
      <4> QED  BY <2>1, <4>4, <4>5 DEF Panes!Blank
    <3> QED  BY <3>4, <3>5, <3>6
  <2>4. Panes!IsMap(Panes!Less(order, es)) /\ Panes!Kept(Panes!Less(order, es), new, fetches)
    BY <1>1, <2>2, <2>3, LessKept
  <2> QED  BY <2>1, <2>4 DEF Leaves
<1>9. Panes!MapIsKept'
  <2>1. sweeps' \subseteq 1..fetches
    BY <1>1 DEF Leaves
  <2> QED  BY <1>8, <2>1 DEF Leaves, Panes!MapIsKept
<1>10. Panes!TypeOK'
  <2>1. sweeps' \subseteq Panes!Entries
    <3>1. sweeps \subseteq Panes!Entries /\ \A r \in rs : waits[r] \subseteq Panes!Entries
      BY <1>1 DEF PanesCore, Panes!TypeOK
    <3> QED  BY <3>1 DEF Leaves
  <2>2. stage' \in [Requests -> Panes!Stages] /\ waits' \in [Requests -> SUBSET Panes!Entries]
    <3>1. end \in Panes!Stages /\ stage \in [Requests -> Panes!Stages]
      BY DEF Leaves, PanesCore, Panes!TypeOK, Panes!Stages
    <3>2. stage' \in [Requests -> Panes!Stages]
      BY <3>1 DEF Leaves
    <3>3. waits' \in [Requests -> SUBSET Panes!Entries]
      BY <1>1 DEF Leaves
    <3> QED  BY <3>2, <3>3
  <2> QED  BY <1>7, <1>8, <2>1, <2>2 DEF Leaves, PanesCore, Panes!TypeOK
<1>11. Panes!WaitsAreKept'
  <2>1. \A r \in Requests : ~Panes!Waiting(r)' => waits'[r] = {}
    BY DEF PanesCore, Panes!WaitsAreKept, Panes!Waiting, Leaves
  <2>2. \A r \in Requests : waits'[r] \subseteq waits[r]
    BY DEF Leaves
  <2>3. \A r \in Requests : epoch'[r] <= clears' /\ waits'[r] \subseteq 1..fetches'
    BY <2>2 DEF PanesCore, Panes!WaitsAreKept, Leaves
  <2>4. \A r \in Requests : \A e \in waits'[r] : entry'[e].aborted => epoch'[r] < clears'
    BY <1>1, <1>3, <2>2 DEF PanesCore, Panes!WaitsAreKept, Leaves
  <2> QED  BY <2>1, <2>3, <2>4 DEF Panes!WaitsAreKept
<1>12. Panes!CancelledByOwnSession'
  BY DEF PanesCore, Panes!CancelledByOwnSession, Leaves
<1>13. Panes!NothingAbandoned'
  <2>1. ASSUME NEW e \in Panes!Entries, Panes!Running(e)'
        PROVE  Panes!Users(e)' # {} \/ e \in sweeps'
    <3>1. e \notin ended /\ Panes!Running(e)
      BY <1>3, <2>1 DEF Panes!Running
    <3>2. Panes!Users(e) # {} \/ e \in sweeps
      BY <3>1 DEF PanesCore, Panes!NothingAbandoned
    <3>3. CASE \E r \in Panes!Users(e) : r \in rs
      <4>1. PICK r \in rs : e \in waits[r]
        BY <3>3 DEF Panes!Users
      <4> QED  BY <4>1 DEF Leaves
    <3> QED  BY <1>5, <3>2, <3>3 DEF Leaves
  <2> QED  BY <2>1 DEF Panes!NothingAbandoned
<1>14. Panes!NobodyForgotten'
  <2>1. ASSUME NEW r \in Requests, Panes!Waiting(r)'
        PROVE  waits'[r] # {} /\ \A e \in waits'[r] : entry'[e].fetch = "running" \/ entry'[e].ready
    <3>1. r \notin rs /\ Panes!Waiting(r) /\ waits'[r] = waits[r]
      BY <2>1 DEF Leaves, Panes!Waiting
    <3>2. waits[r] # {} /\ \A e \in waits[r] : entry[e].fetch = "running" \/ entry[e].ready
      BY <3>1 DEF PanesCore, Panes!NobodyForgotten
    <3>3. \A e \in waits[r] : e \in Panes!Entries /\ e \notin ended
      BY <1>1, <3>1 DEF Leaves, Panes!Users
    <3> QED  BY <1>3, <3>1, <3>2, <3>3
  <2> QED  BY <2>1 DEF Panes!NobodyForgotten
<1> QED
  BY <1>6, <1>9, <1>10, <1>11, <1>12, <1>13, <1>14 DEF PanesCore

\* A step in which a preparation is found ready: its requests wait for it no more, and those
\* that wait for nothing else go on.
Finds(e) ==
  /\ stage' = [r \in Requests |-> IF r \in Panes!Users(e) /\ waits[r] = {e} THEN "resume" ELSE stage[r]]
  /\ waits' = [r \in Requests |-> waits[r] \ {e}]
  /\ sweeps \subseteq sweeps' /\ sweeps' \subseteq sweeps \cup {e} /\ (Panes!Users(e) # {} => e \in sweeps')
  /\ entry' = [f \in Panes!Entries |-> entry'[f]]
  /\ entry'[e] = [scope |-> entry[e].scope, users |-> 0, ready |-> TRUE, aborted |-> entry[e].aborted, fetch |-> "done"]
  /\ \A f \in Panes!Entries : f # e => entry'[f] = entry[f]
  /\ entry[e].ready \/ Panes!Running(e)
  /\ UNCHANGED <<order, token, session, switches, fetches, sent, epoch, clears>>

\* Nobody waits for it any more, and nothing else is touched.
LEMMA FindsKeeps ==
  ASSUME Panes!PreparationAssumption, PanesCore, NEW e \in Panes!Entries, Finds(e)
  PROVE  PanesCore'
<1>1. /\ Panes!IsMap(order) /\ entry \in [Panes!Entries -> Panes!Preparations]
      /\ fetches \in Nat /\ MaxFetches \in Nat /\ Panes!Entries = 1..MaxFetches /\ sweeps \subseteq 1..fetches
      /\ Panes!Kept(order, entry, fetches) /\ waits \in [Requests -> SUBSET Panes!Entries]
      /\ \A r \in Requests : waits[r] \subseteq 1..fetches
  BY CoreFacts
<1>2. e \in 1..fetches
  <2>1. CASE e > fetches
    <3>1. entry[e] = Panes!Blank
      BY <1>1, <2>1 DEF Panes!Kept
    <3> QED  BY <3>1 DEF Finds, Panes!Running, Panes!Blank
  <2> QED  BY <1>1, <2>1
<1>3. /\ \A f \in Panes!Entries : entry'[f].scope = entry[f].scope /\ entry'[f].aborted = entry[f].aborted
      /\ entry'[e].fetch = "done" /\ entry'[e].ready /\ entry'[e].users = 0
      /\ \A f \in Panes!Entries : f # e => entry'[f] = entry[f]
  BY DEF Finds
<1>4. \A r \in Requests : \A f \in Panes!Entries : r \in Panes!Users(f) <=> f \in waits[r]
  BY DEF PanesCore, Panes!WaitsAreKept, Panes!Users
<1>5. /\ \A f \in Panes!Entries : f # e => Panes!Users(f)' = Panes!Users(f)
      /\ Panes!Users(e)' = {}
  BY <1>4 DEF Finds, Panes!Users, Panes!Waiting
<1>6. Panes!UsersAreCounted'
  <2>1. \A f \in Panes!Entries : entry[f].users = Cardinality(Panes!Users(f))
    BY PanesCount DEF PanesCore, Panes!UsersAreCounted
  <2>2. \A f \in Panes!Entries : entry'[f].users = Cardinality(Panes!Users(f)')
    BY <1>3, <1>5, <2>1, FS_EmptySet
  <2> QED  BY <2>2, PanesCount DEF Panes!UsersAreCounted
<1>7. entry' \in [Panes!Entries -> Panes!Preparations]
  <2>1. ASSUME NEW f \in Panes!Entries
        PROVE  entry'[f] \in Panes!Preparations
    <3>1. entry[f] \in Panes!Preparations /\ entry[e] \in Panes!Preparations
      BY <1>1
    <3>2. CASE f = e
      <4>1. entry[e].scope \in Scopes /\ entry[e].aborted \in BOOLEAN
        BY <3>1 DEF Panes!Preparations
      <4>2. entry'[e] = [scope |-> entry[e].scope, users |-> 0, ready |-> TRUE, aborted |-> entry[e].aborted,
                         fetch |-> "done"]
        BY DEF Finds
      <4>3. entry'[e] \in Panes!Preparations
        BY <4>1, <4>2 DEF Panes!Preparations
      <4> QED  BY <3>2, <4>3
    <3>3. CASE f # e
      BY <1>3, <3>1, <3>3
    <3> QED  BY <3>2, <3>3
  <2> QED  BY <2>1 DEF Finds
<1>8. Panes!Kept(order, entry', fetches)
  <2>1. PICK new : new = entry'
    OBVIOUS
  <2>2. ASSUME NEW f \in DOMAIN order
        PROVE  ~new[f].aborted /\ new[f].fetch = IF new[f].ready THEN "done" ELSE "running"
    <3>1. f \in Panes!Entries
      BY <1>1, <2>2 DEF Panes!IsMap
    <3>2. ~entry[f].aborted /\ entry[f].fetch = IF entry[f].ready THEN "done" ELSE "running"
      BY <1>1, <2>2 DEF Panes!Kept
    <3> QED  BY <1>3, <2>1, <3>1, <3>2
  <2>3. ASSUME NEW f \in Panes!Entries
        PROVE  /\ new[f].fetch = "running" /\ ~new[f].aborted => f \in DOMAIN order
               /\ new[f].ready => new[f].fetch = "done"
               /\ f > fetches => new[f] = Panes!Blank
    <3>1. /\ entry[f].fetch = "running" /\ ~entry[f].aborted => f \in DOMAIN order
          /\ entry[f].ready => entry[f].fetch = "done"
          /\ f > fetches => entry[f] = Panes!Blank
      BY <1>1 DEF Panes!Kept
    <3>2. CASE f = e
      BY <1>1, <1>2, <1>3, <2>1, <3>2
    <3>3. CASE f # e
      BY <1>3, <2>1, <3>1, <3>3
    <3> QED  BY <3>2, <3>3
  <2>4. \A f, g \in DOMAIN order : new[f].scope = new[g].scope => f = g
    <3>1. DOMAIN order \subseteq Panes!Entries
      BY <1>1 DEF Panes!IsMap
    <3>2. \A f, g \in DOMAIN order : entry[f].scope = entry[g].scope => f = g
      BY <1>1 DEF Panes!Kept
    <3> QED  BY <1>3, <2>1, <3>1, <3>2
  <2>5. Panes!Ordered(order) /\ DOMAIN order \subseteq 1..fetches /\ Panes!Cardinality(DOMAIN order) <= Capacity
    BY <1>1 DEF Panes!Kept
  <2> QED  BY <2>1, <2>2, <2>3, <2>4, <2>5 DEF Panes!Kept
<1>9. Panes!MapIsKept'
  <2>1. sweeps' \subseteq 1..fetches
    BY <1>1, <1>2 DEF Finds
  <2> QED  BY <1>8, <2>1 DEF Finds, Panes!MapIsKept
<1>10. Panes!TypeOK'
  <2>1. sweeps' \subseteq Panes!Entries
    BY DEF Finds, PanesCore, Panes!TypeOK
  <2>2. stage' \in [Requests -> Panes!Stages]
    <3>1. "resume" \in Panes!Stages /\ stage \in [Requests -> Panes!Stages]
      BY DEF PanesCore, Panes!TypeOK, Panes!Stages
    <3> QED  BY <3>1 DEF Finds
  <2>3. waits' \in [Requests -> SUBSET Panes!Entries]
    BY <1>1 DEF Finds
  <2> QED  BY <1>7, <2>1, <2>2, <2>3 DEF Finds, PanesCore, Panes!TypeOK
<1>11. Panes!WaitsAreKept'
  <2>1. \A r \in Requests : ~Panes!Waiting(r)' => waits'[r] = {}
    BY DEF PanesCore, Panes!WaitsAreKept, Panes!Waiting, Finds
  <2>2. \A r \in Requests : waits'[r] \subseteq waits[r]
    BY DEF Finds
  <2>3. \A r \in Requests : epoch'[r] <= clears' /\ waits'[r] \subseteq 1..fetches'
    BY <2>2 DEF PanesCore, Panes!WaitsAreKept, Finds
  <2>4. \A r \in Requests : \A f \in waits'[r] : entry'[f].aborted => epoch'[r] < clears'
    BY <1>1, <1>3, <2>2 DEF PanesCore, Panes!WaitsAreKept, Finds
  <2> QED  BY <2>1, <2>3, <2>4 DEF Panes!WaitsAreKept
<1>12. Panes!CancelledByOwnSession'
  BY DEF PanesCore, Panes!CancelledByOwnSession, Finds
<1>13. Panes!NothingAbandoned'
  <2>1. ASSUME NEW f \in Panes!Entries, Panes!Running(f)'
        PROVE  Panes!Users(f)' # {} \/ f \in sweeps'
    <3>1. f # e /\ Panes!Running(f)
      BY <1>3, <2>1 DEF Panes!Running
    <3> QED  BY <1>5, <3>1 DEF PanesCore, Panes!NothingAbandoned, Finds
  <2> QED  BY <2>1 DEF Panes!NothingAbandoned
<1>14. Panes!NobodyForgotten'
  <2>1. ASSUME NEW r \in Requests, Panes!Waiting(r)'
        PROVE  waits'[r] # {} /\ \A f \in waits'[r] : entry'[f].fetch = "running" \/ entry'[f].ready
    <3>1. Panes!Waiting(r) /\ waits'[r] = waits[r] \ {e} /\ ~(r \in Panes!Users(e) /\ waits[r] = {e})
      BY <2>1 DEF Finds, Panes!Waiting
    <3>2. waits[r] # {} /\ \A f \in waits[r] : entry[f].fetch = "running" \/ entry[f].ready
      BY <3>1 DEF PanesCore, Panes!NobodyForgotten
    <3>3. \A f \in waits'[r] : f \in Panes!Entries /\ f # e
      BY <1>1, <3>1
    <3>4. waits'[r] # {}
      BY <1>4, <3>1, <3>2
    <3> QED  BY <1>3, <3>1, <3>2, <3>3, <3>4
  <2> QED  BY <2>1 DEF Panes!NobodyForgotten
<1> QED
  BY <1>6, <1>9, <1>10, <1>11, <1>12, <1>13, <1>14 DEF PanesCore

\* A step of a request that waits for nothing, which may take what is ready from the map.
Moves(r, end, es) ==
  /\ ~Panes!Waiting(r) /\ end \in Panes!Stages \ {"wait", "cancelled"}
  /\ stage' = [stage EXCEPT ![r] = end]
  /\ order' = Panes!Less(order, es) /\ \A e \in es \cap DOMAIN order : entry[e].ready
  /\ UNCHANGED <<token, session, switches, entry, fetches, sweeps, sent, epoch, clears, waits>>

\* It neither waits nor is waited for.
LEMMA MovesKeeps ==
  ASSUME Panes!PreparationAssumption, PanesCore, NEW r \in Requests, NEW end, NEW es, Moves(r, end, es)
  PROVE  PanesCore'
<1>1. /\ Panes!IsMap(order) /\ entry \in [Panes!Entries -> Panes!Preparations]
      /\ fetches \in Nat /\ MaxFetches \in Nat /\ Panes!Entries = 1..MaxFetches /\ sweeps \subseteq 1..fetches
      /\ Panes!Kept(order, entry, fetches) /\ waits \in [Requests -> SUBSET Panes!Entries]
      /\ \A q \in Requests : waits[q] \subseteq 1..fetches
  BY CoreFacts
<1>2. stage \in [Requests -> Panes!Stages]
  BY DEF PanesCore, Panes!TypeOK
<1>3. \A q \in Requests : Panes!Waiting(q)' <=> Panes!Waiting(q)
  BY <1>2 DEF Moves, Panes!Waiting
<1>4. \A e \in Panes!Entries : Panes!Users(e)' = Panes!Users(e)
  BY <1>3 DEF Moves, Panes!Users
<1>5. Panes!IsMap(order') /\ Panes!Kept(order', entry, fetches)
  <2>1. ASSUME NEW e \in DOMAIN order \ es
        PROVE  ~entry[e].aborted /\ entry[e].fetch = IF entry[e].ready THEN "done" ELSE "running"
    BY <1>1, <2>1 DEF Panes!Kept
  <2>2. ASSUME NEW e \in Panes!Entries
        PROVE  /\ entry[e].fetch = "running" /\ ~entry[e].aborted => e \in DOMAIN order \ es
               /\ entry[e].ready => entry[e].fetch = "done"
               /\ e > fetches => entry[e] = Panes!Blank
    <3>1. /\ entry[e].fetch = "running" /\ ~entry[e].aborted => e \in DOMAIN order
          /\ entry[e].ready => entry[e].fetch = "done"
          /\ e > fetches => entry[e] = Panes!Blank
      BY <1>1 DEF Panes!Kept
    <3> QED  BY <3>1 DEF Moves
  <2>3. PICK all : all = entry
    OBVIOUS
  <2>4. Panes!IsMap(Panes!Less(order, es)) /\ Panes!Kept(Panes!Less(order, es), all, fetches)
    BY <1>1, <2>1, <2>2, <2>3, LessKept
  <2> QED  BY <2>3, <2>4 DEF Moves
<1>6. Panes!TypeOK'
  <2>1. stage' \in [Requests -> Panes!Stages]
    BY <1>2 DEF Moves
  <2> QED  BY <1>5, <2>1 DEF Moves, PanesCore, Panes!TypeOK
<1>7. Panes!MapIsKept'
  BY <1>1, <1>5 DEF Moves, Panes!MapIsKept
<1>8. Panes!WaitsAreKept'
  BY <1>3 DEF Moves, PanesCore, Panes!WaitsAreKept
<1>9. Panes!CancelledByOwnSession'
  BY <1>2 DEF Moves, PanesCore, Panes!CancelledByOwnSession
<1>10. Panes!UsersAreCounted'
  BY <1>4 DEF Moves, PanesCore, Panes!UsersAreCounted
<1>11. Panes!NothingAbandoned'
  BY <1>4 DEF Moves, PanesCore, Panes!NothingAbandoned, Panes!Running
<1>12. Panes!NobodyForgotten'
  BY <1>3 DEF Moves, PanesCore, Panes!NobodyForgotten
<1> QED
  BY <1>6, <1>7, <1>8, <1>9, <1>10, <1>11, <1>12 DEF PanesCore

\* A map without none of its entries is the map.
LEMMA LessOfNone ==
  ASSUME NEW map, Panes!IsMap(map)
  PROVE  Panes!Less(map, {}) = map
BY DEF Panes!Less, Panes!IsMap

\* A request is called, perhaps in another session, which aborts everything.
LEMMA CallKeeps ==
  ASSUME Panes!PreparationAssumption, PanesCore, NEW r \in Requests, Panes!Call(r)
  PROVE  PanesCore'
<1>1. /\ Panes!IsMap(order) /\ entry \in [Panes!Entries -> Panes!Preparations]
      /\ fetches \in Nat /\ MaxFetches \in Nat /\ Panes!Entries = 1..MaxFetches /\ sweeps \subseteq 1..fetches
      /\ Panes!Kept(order, entry, fetches) /\ waits \in [Requests -> SUBSET Panes!Entries]
      /\ \A q \in Requests : waits[q] \subseteq 1..fetches
  BY CoreFacts
<1>2. /\ stage \in [Requests -> Panes!Stages] /\ epoch \in [Requests -> Nat] /\ clears \in Nat
      /\ sent \in [Requests -> Tokens] /\ token \in Tokens
      /\ \A q \in Requests : epoch[q] <= clears
  BY DEF PanesCore, Panes!TypeOK, Panes!WaitsAreKept
<1>3. /\ stage[r] = "idle" /\ stage' = [stage EXCEPT ![r] = "prepare"]
      /\ sent' = [sent EXCEPT ![r] = token] /\ session' = token
      /\ token' = token /\ switches' = switches /\ fetches' = fetches /\ sweeps' = sweeps /\ waits' = waits
  BY DEF Panes!Call, Panes!login
<1>4. \/ /\ entry' = entry /\ order' = order /\ clears' = clears /\ epoch' = [epoch EXCEPT ![r] = clears]
      \/ /\ entry' = [e \in Panes!Entries |-> IF e \in DOMAIN order THEN [entry[e] EXCEPT !.aborted = TRUE] ELSE entry[e]]
         /\ order' = Panes!Less(order, DOMAIN order)
         /\ clears' = clears + 1 /\ epoch' = [epoch EXCEPT ![r] = clears + 1]
  BY DEF Panes!Call, Panes!Mapped, Panes!Without
<1>5. /\ \A q \in Requests : Panes!Waiting(q)' <=> Panes!Waiting(q)
      /\ \A e \in Panes!Entries : Panes!Users(e)' = Panes!Users(e)
      /\ ~Panes!Waiting(r) /\ waits[r] = {}
  <2>1. \A q \in Requests : Panes!Waiting(q)' <=> Panes!Waiting(q)
    BY <1>2, <1>3 DEF Panes!Waiting
  <2>2. ~Panes!Waiting(r) /\ waits[r] = {}
    BY <1>3 DEF Panes!Waiting, PanesCore, Panes!WaitsAreKept
  <2> QED  BY <1>3, <2>1, <2>2 DEF Panes!Users
<1>6. /\ entry' \in [Panes!Entries -> Panes!Preparations]
      /\ \A e \in Panes!Entries : /\ entry'[e].scope = entry[e].scope /\ entry'[e].users = entry[e].users
                                   /\ entry'[e].ready = entry[e].ready /\ entry'[e].fetch = entry[e].fetch
      /\ \A e \in Panes!Entries : entry'[e].aborted => entry[e].aborted \/ clears' = clears + 1
      /\ \A e \in Panes!Entries \ DOMAIN order : entry'[e] = entry[e]
      /\ entry' = entry \/ \A e \in DOMAIN order : entry'[e].aborted
      /\ DOMAIN order \subseteq Panes!Entries
  <2>1. DOMAIN order \subseteq Panes!Entries
    BY <1>1 DEF Panes!IsMap
  <2>2. CASE entry' = entry
    BY <1>1, <2>1, <2>2
  <2>3. CASE /\ entry' = [e \in Panes!Entries |-> IF e \in DOMAIN order THEN [entry[e] EXCEPT !.aborted = TRUE] ELSE entry[e]]
             /\ clears' = clears + 1
    <3>1. \A e \in Panes!Entries : entry[e] \in Panes!Preparations
      BY <1>1
    <3>2. \A e \in DOMAIN order : entry'[e] = [scope |-> entry[e].scope, users |-> entry[e].users,
                                               ready |-> entry[e].ready, aborted |-> TRUE, fetch |-> entry[e].fetch]
      BY <2>1, <2>3, <3>1 DEF Panes!Preparations
    <3>3. \A e \in Panes!Entries \ DOMAIN order : entry'[e] = entry[e]
      BY <2>3
    <3>4. entry' \in [Panes!Entries -> Panes!Preparations]
      <4>1. ASSUME NEW e \in DOMAIN order PROVE entry'[e] \in Panes!Preparations
        <5>1. entry[e] \in Panes!Preparations
          BY <2>1, <3>1
        <5>2. /\ entry[e].scope \in Scopes /\ entry[e].users \in Nat /\ entry[e].ready \in BOOLEAN
              /\ entry[e].fetch \in {"none", "running", "done", "failed"}
          BY <5>1 DEF Panes!Preparations
        <5>3. entry'[e] = [scope |-> entry[e].scope, users |-> entry[e].users, ready |-> entry[e].ready,
                           aborted |-> TRUE, fetch |-> entry[e].fetch]
          BY <3>2
        <5> QED  BY <5>2, <5>3 DEF Panes!Preparations
      <4> QED  BY <2>3, <3>1, <3>3, <4>1
    <3> QED  BY <2>1, <2>3, <3>2, <3>3, <3>4
  <2> QED  BY <1>4, <2>2, <2>3
<1>7. Panes!IsMap(order') /\ Panes!Kept(order', entry', fetches)
  <2>1. CASE entry' = entry /\ order' = order
    BY <1>1, <2>1
  <2>2. CASE /\ order' = Panes!Less(order, DOMAIN order)
             /\ entry' = [e \in Panes!Entries |-> IF e \in DOMAIN order THEN [entry[e] EXCEPT !.aborted = TRUE] ELSE entry[e]]
    <3>1. PICK new : new = entry'
      OBVIOUS
    <3>2. \A e \in DOMAIN order : new[e].aborted
      BY <1>1, <1>6, <2>2, <3>1 DEF Panes!Preparations
    <3>3. ASSUME NEW e \in Panes!Entries
          PROVE  /\ new[e].fetch = "running" /\ ~new[e].aborted => e \in DOMAIN order \ DOMAIN order
                 /\ new[e].ready => new[e].fetch = "done"
                 /\ e > fetches => new[e] = Panes!Blank
      <4>1. /\ entry[e].fetch = "running" /\ ~entry[e].aborted => e \in DOMAIN order
            /\ entry[e].ready => entry[e].fetch = "done"
            /\ e > fetches => entry[e] = Panes!Blank /\ e \notin DOMAIN order
        BY <1>1 DEF Panes!Kept
      <4>2. new[e].fetch = entry[e].fetch /\ new[e].ready = entry[e].ready /\ (e \notin DOMAIN order => new[e] = entry[e])
        BY <1>6, <3>1
      <4> QED  BY <3>2, <4>1, <4>2
    <3>4. Panes!IsMap(Panes!Less(order, DOMAIN order)) /\ Panes!Kept(Panes!Less(order, DOMAIN order), new, fetches)
      <4>1. PICK es : es = DOMAIN order
        OBVIOUS
      <4>2. DOMAIN order \ es = {}
        BY <4>1
      <4> QED  BY <1>1, <3>3, <4>1, <4>2, LessKept
    <3> QED  BY <2>2, <3>1, <3>4
  <2> QED  BY <1>4, <2>1, <2>2
<1>8. /\ clears' \in Nat /\ clears <= clears' /\ epoch' \in [Requests -> Nat] /\ epoch'[r] <= clears'
      /\ \A q \in Requests : q # r => epoch'[q] = epoch[q]
  BY <1>2, <1>4
<1>9. Panes!TypeOK'
  <2>1. /\ stage' \in [Requests -> Panes!Stages] /\ sent' \in [Requests -> Tokens]
        /\ session' \in Tokens \cup {""}
    BY <1>2, <1>3 DEF Panes!Stages
  <2> QED  BY <1>3, <1>6, <1>7, <1>8, <2>1 DEF PanesCore, Panes!TypeOK
<1>10. Panes!MapIsKept'
  BY <1>1, <1>3, <1>7 DEF Panes!MapIsKept
<1>11. Panes!WaitsAreKept'
  <2>1. \A q \in Requests : ~Panes!Waiting(q)' => waits'[q] = {}
    BY <1>3, <1>5 DEF PanesCore, Panes!WaitsAreKept
  <2>2. \A q \in Requests : epoch'[q] <= clears' /\ waits'[q] \subseteq 1..fetches'
    BY <1>1, <1>2, <1>3, <1>8
  <2>3. ASSUME NEW q \in Requests, NEW e \in waits'[q], entry'[e].aborted
        PROVE  epoch'[q] < clears'
    <3>1. q # r /\ e \in waits[q] /\ e \in Panes!Entries
      BY <1>1, <1>3, <1>5, <2>3
    <3>2. entry[e].aborted => epoch[q] < clears
      BY <3>1 DEF PanesCore, Panes!WaitsAreKept
    <3> QED  BY <1>2, <1>6, <1>8, <2>3, <3>1, <3>2
  <2> QED  BY <2>1, <2>2, <2>3 DEF Panes!WaitsAreKept
<1>12. Panes!CancelledByOwnSession'
  <2>1. ASSUME NEW q \in Requests, stage'[q] = "cancelled"
        PROVE  epoch'[q] < clears'
    <3>1. q # r /\ stage[q] = "cancelled"
      BY <1>2, <1>3, <2>1
    <3>2. epoch[q] < clears
      BY <3>1 DEF PanesCore, Panes!CancelledByOwnSession
    <3> QED  BY <1>2, <1>8, <3>1, <3>2
  <2> QED  BY <2>1 DEF Panes!CancelledByOwnSession
<1>13. Panes!UsersAreCounted'
  BY <1>5, <1>6 DEF PanesCore, Panes!UsersAreCounted
<1>14. Panes!NothingAbandoned'
  <2>1. ASSUME NEW e \in Panes!Entries, Panes!Running(e)'
        PROVE  Panes!Users(e)' # {} \/ e \in sweeps'
    <3>1. entry'[e].fetch = "running" /\ ~entry'[e].aborted
      BY <2>1 DEF Panes!Running
    <3>2. Panes!Running(e)
      <4>1. CASE e \in DOMAIN order /\ entry' # entry
        BY <1>6, <3>1, <4>1
      <4>2. CASE e \notin DOMAIN order \/ entry' = entry
        BY <1>6, <3>1, <4>2 DEF Panes!Running
      <4> QED  BY <4>1, <4>2
    <3> QED  BY <1>3, <1>5, <3>2 DEF PanesCore, Panes!NothingAbandoned
  <2> QED  BY <2>1 DEF Panes!NothingAbandoned
<1>15. Panes!NobodyForgotten'
  <2>1. \A q \in Requests : waits[q] \subseteq Panes!Entries
    BY <1>1
  <2> QED
    BY <1>3, <1>5, <1>6, <2>1 DEF PanesCore, Panes!NobodyForgotten
<1> QED
  BY <1>9, <1>10, <1>11, <1>12, <1>13, <1>14, <1>15 DEF PanesCore

\* The microtask aborts what nobody waits for.
LEMMA SweepKeeps ==
  ASSUME Panes!PreparationAssumption, PanesCore, NEW e \in Panes!Entries, Panes!Sweep(e)
  PROVE  PanesCore'
<1>1. /\ Panes!IsMap(order) /\ entry \in [Panes!Entries -> Panes!Preparations]
      /\ fetches \in Nat /\ MaxFetches \in Nat /\ Panes!Entries = 1..MaxFetches /\ sweeps \subseteq 1..fetches
      /\ Panes!Kept(order, entry, fetches) /\ waits \in [Requests -> SUBSET Panes!Entries]
      /\ \A q \in Requests : waits[q] \subseteq 1..fetches
  BY CoreFacts
<1>2. /\ e \in sweeps /\ sweeps' = sweeps \ {e} /\ token' = token /\ switches' = switches
      /\ UNCHANGED <<session, fetches, stage, sent, epoch, clears, waits>>
  BY DEF Panes!Sweep, Panes!login
<1>3. \A f \in Panes!Entries : Panes!Users(f)' = Panes!Users(f)
  BY <1>2 DEF Panes!Users, Panes!Waiting
<1>4. \A q \in Requests : Panes!Waiting(q)' <=> Panes!Waiting(q)
  BY <1>2 DEF Panes!Waiting
<1>5. Panes!Users(e) = {} <=> entry[e].users = 0
  <2>1. IsFiniteSet(Panes!Users(e)) /\ Cardinality(Panes!Users(e)) = entry[e].users
    <3>1. Requests \in SUBSET Requests
      OBVIOUS
    <3> QED  BY <3>1, UsersAreFinite
  <2> QED  BY <2>1, FS_EmptySet
<1>6. CASE entry[e].users = 0 /\ ~entry[e].ready
  <2>1. entry' = [entry EXCEPT ![e].aborted = TRUE] /\ order' = Panes!Less(order, {e})
    BY <1>6 DEF Panes!Sweep, Panes!Without
  <2>2. entry[e] \in Panes!Preparations
    BY <1>1
  <2>3. /\ entry'[e] = [scope |-> entry[e].scope, users |-> entry[e].users, ready |-> entry[e].ready,
                        aborted |-> TRUE, fetch |-> entry[e].fetch]
        /\ \A f \in Panes!Entries : f # e => entry'[f] = entry[f]
        /\ entry' = [f \in Panes!Entries |-> entry'[f]]
    BY <1>1, <2>1, <2>2 DEF Panes!Preparations
  <2>4. /\ \A f \in Panes!Entries : entry'[f].scope = entry[f].scope /\ entry'[f].users = entry[f].users
                                     /\ entry'[f].ready = entry[f].ready /\ entry'[f].fetch = entry[f].fetch
        /\ entry'[e].aborted = TRUE
    BY <2>3
  <2>5. entry' \in [Panes!Entries -> Panes!Preparations]
    <3>1. entry'[e] \in Panes!Preparations
      <4>1. /\ entry[e].scope \in Scopes /\ entry[e].users \in Nat /\ entry[e].ready \in BOOLEAN
            /\ entry[e].fetch \in {"none", "running", "done", "failed"}
        BY <2>2 DEF Panes!Preparations
      <4> QED  BY <2>3, <4>1 DEF Panes!Preparations
    <3> QED  BY <1>1, <2>3, <3>1
  <2>6. Panes!IsMap(order') /\ Panes!Kept(order', entry', fetches)
    <3>1. PICK new : new = entry'
      OBVIOUS
    <3>2. ASSUME NEW f \in DOMAIN order \ {e}
          PROVE  /\ new[f].scope = entry[f].scope /\ ~new[f].aborted
                 /\ new[f].fetch = IF new[f].ready THEN "done" ELSE "running"
      <4>1. f \in Panes!Entries
        BY <1>1, <3>2 DEF Panes!IsMap
      <4>2. ~entry[f].aborted /\ entry[f].fetch = IF entry[f].ready THEN "done" ELSE "running"
        BY <1>1, <3>2 DEF Panes!Kept
      <4> QED  BY <2>3, <3>1, <3>2, <4>1, <4>2
    <3>3. ASSUME NEW f \in Panes!Entries
          PROVE  /\ new[f].fetch = "running" /\ ~new[f].aborted => f \in DOMAIN order \ {e}
                 /\ new[f].ready => new[f].fetch = "done"
                 /\ f > fetches => new[f] = Panes!Blank
      <4>1. /\ entry[f].fetch = "running" /\ ~entry[f].aborted => f \in DOMAIN order
            /\ entry[f].ready => entry[f].fetch = "done"
            /\ f > fetches => entry[f] = Panes!Blank
        BY <1>1 DEF Panes!Kept
      <4>2. CASE f = e
        BY <1>1, <1>2, <2>4, <3>1, <4>1, <4>2
      <4>3. CASE f # e
        BY <2>3, <3>1, <4>1, <4>3
      <4> QED  BY <4>2, <4>3
    <3>4. Panes!IsMap(Panes!Less(order, {e})) /\ Panes!Kept(Panes!Less(order, {e}), new, fetches)
      <4>1. PICK es : es = {e}
        OBVIOUS
      <4> QED  BY <1>1, <3>2, <3>3, <4>1, LessKept
    <3> QED  BY <2>1, <3>1, <3>4
  <2>7. Panes!TypeOK'
    <3>1. sweeps' \subseteq Panes!Entries
      BY <1>2 DEF PanesCore, Panes!TypeOK
    <3> QED  BY <1>2, <2>5, <2>6, <3>1 DEF PanesCore, Panes!TypeOK
  <2>8. Panes!MapIsKept'
    BY <1>1, <1>2, <2>6 DEF Panes!MapIsKept
  <2>9. Panes!WaitsAreKept'
    <3>1. \A q \in Requests : ~Panes!Waiting(q)' => waits'[q] = {}
      BY <1>2, <1>4 DEF PanesCore, Panes!WaitsAreKept
    <3>2. \A q \in Requests : epoch'[q] <= clears' /\ waits'[q] \subseteq 1..fetches'
      BY <1>2 DEF PanesCore, Panes!WaitsAreKept
    <3>3. ASSUME NEW q \in Requests, NEW f \in waits'[q], entry'[f].aborted
          PROVE  epoch'[q] < clears'
      <4>1. f \in Panes!Entries /\ f \in waits[q] /\ f # e
        BY <1>1, <1>2, <1>5, <1>6, <3>3 DEF PanesCore, Panes!WaitsAreKept, Panes!Users
      <4> QED  BY <1>2, <2>3, <3>3, <4>1 DEF PanesCore, Panes!WaitsAreKept
    <3> QED  BY <3>1, <3>2, <3>3 DEF Panes!WaitsAreKept
  <2>10. Panes!CancelledByOwnSession'
    BY <1>2 DEF PanesCore, Panes!CancelledByOwnSession
  <2>11. Panes!UsersAreCounted'
    BY <1>3, <2>4 DEF PanesCore, Panes!UsersAreCounted
  <2>12. Panes!NothingAbandoned'
    <3>1. ASSUME NEW f \in Panes!Entries, Panes!Running(f)'
          PROVE  Panes!Users(f)' # {} \/ f \in sweeps'
      <4>1. f # e /\ Panes!Running(f)
        BY <2>3, <2>4, <3>1 DEF Panes!Running
      <4> QED  BY <1>2, <1>3, <4>1 DEF PanesCore, Panes!NothingAbandoned
    <3> QED  BY <3>1 DEF Panes!NothingAbandoned
  <2>13. Panes!NobodyForgotten'
    <3>1. \A q \in Requests : waits[q] \subseteq Panes!Entries
      BY <1>1
    <3> QED  BY <1>2, <1>4, <2>4, <3>1 DEF PanesCore, Panes!NobodyForgotten
  <2> QED
    BY <2>7, <2>8, <2>9, <2>10, <2>11, <2>12, <2>13 DEF PanesCore
<1>7. CASE ~(entry[e].users = 0 /\ ~entry[e].ready)
  <2>1. entry' = entry /\ order' = order
    BY <1>7 DEF Panes!Sweep
  <2>2. Panes!TypeOK' /\ Panes!MapIsKept'
    BY <1>2, <2>1 DEF PanesCore, Panes!TypeOK, Panes!MapIsKept
  <2>3. Panes!WaitsAreKept' /\ Panes!CancelledByOwnSession' /\ Panes!NobodyForgotten'
    BY <1>2, <1>4, <2>1 DEF PanesCore, Panes!WaitsAreKept, Panes!CancelledByOwnSession, Panes!NobodyForgotten
  <2>4. Panes!UsersAreCounted'
    BY <1>3, <2>1 DEF PanesCore, Panes!UsersAreCounted
  <2>5. Panes!NothingAbandoned'
    <3>1. ASSUME NEW f \in Panes!Entries, Panes!Running(f)'
          PROVE  Panes!Users(f)' # {} \/ f \in sweeps'
      <4>1. Panes!Running(f)
        BY <2>1, <3>1 DEF Panes!Running
      <4>2. f = e => Panes!Users(f) # {}
        <5>1. entry[e].ready => entry[e].fetch = "done"
          BY <1>1 DEF Panes!Kept
        <5> QED  BY <1>5, <1>7, <4>1, <5>1 DEF Panes!Running
      <4> QED  BY <1>2, <1>3, <4>1, <4>2 DEF PanesCore, Panes!NothingAbandoned
    <3> QED  BY <3>1 DEF Panes!NothingAbandoned
  <2> QED
    BY <2>2, <2>3, <2>4, <2>5 DEF PanesCore
<1> QED
  BY <1>6, <1>7

\* Behind the first await all scopes of a request are prepared, or the request fails.
LEMMA PrepareKeeps ==
  ASSUME Panes!PreparationAssumption, PanesCore, NEW r \in Requests, Panes!Prepare(r)
  PROVE  PanesCore'
<1>1. /\ Panes!IsMap(order) /\ entry \in [Panes!Entries -> Panes!Preparations]
      /\ fetches \in Nat /\ MaxFetches \in Nat /\ Panes!Entries = 1..MaxFetches /\ sweeps \subseteq 1..fetches
      /\ Panes!Kept(order, entry, fetches) /\ waits \in [Requests -> SUBSET Panes!Entries]
      /\ \A q \in Requests : waits[q] \subseteq 1..fetches
  BY CoreFacts
<1>2. /\ stage[r] = "prepare" /\ fetches + Cardinality(Asks[r]) <= MaxFetches
      /\ token' = token /\ switches' = switches /\ UNCHANGED <<session, sent, epoch, clears>>
  BY PanesCount DEF Panes!Prepare, Panes!login
<1>3. /\ ~Panes!Waiting(r) /\ waits[r] = {} /\ stage \in [Requests -> Panes!Stages]
  BY <1>2 DEF PanesCore, Panes!WaitsAreKept, Panes!Waiting, Panes!TypeOK
<1>4. \A q \in Requests : \A e \in Panes!Entries : q \in Panes!Users(e) <=> e \in waits[q]
  BY DEF PanesCore, Panes!WaitsAreKept, Panes!Users
<1>5. ASSUME NEW end \in {"failed", "resume"}, stage' = [stage EXCEPT ![r] = end],
             UNCHANGED <<order, entry, fetches, sweeps, waits>>
      PROVE  PanesCore'
  <2>1. Panes!Less(order, {}) = order
    BY <1>1, LessOfNone
  <2>2. Moves(r, end, {})
    BY <1>2, <1>3, <1>5, <2>1 DEF Moves, Panes!Stages
  <2> QED  BY <2>2, MovesKeeps
<1>6. ASSUME NEW s \in Asks[r], NEW end, end = Panes!JoinedAll(r, s),
             ~end.busy, fetches' = end.fetches, stage' = [stage EXCEPT ![r] = "wait"],
             waits' = [waits EXCEPT ![r] = end.joined], entry' = end.entry, order' = end.order, sweeps' = sweeps
      PROVE  PanesCore'
  <2>1. JoinsAll(order, entry, fetches, end)
    BY <1>1, <1>2, <1>6, JoinedAllKept
  <2>2. PICK joined : joined = end.joined
    OBVIOUS
  <2>3. /\ Panes!IsMap(order') /\ entry' \in [Panes!Entries -> Panes!Preparations]
        /\ fetches' \in fetches..MaxFetches /\ joined \subseteq 1..fetches' /\ joined # {}
        /\ Panes!Kept(order', entry', fetches')
    BY <1>6, <2>1, <2>2 DEF JoinsAll
  <2>4. /\ \A e \in joined : /\ entry'[e].users = entry[e].users + 1 /\ ~entry'[e].aborted
                             /\ entry'[e].fetch = "running" \/ entry'[e].ready
        /\ \A e \in Panes!Entries \ joined : entry'[e] = entry[e]
        /\ \A e \in 1..fetches : /\ entry'[e].fetch = entry[e].fetch /\ entry'[e].ready = entry[e].ready
                                 /\ entry'[e].aborted = entry[e].aborted
    BY <1>6, <2>1, <2>2 DEF JoinsAll
  <2>5. /\ fetches' \in Nat /\ fetches <= fetches' /\ 1..fetches' \subseteq Panes!Entries /\ 1..fetches \subseteq 1..fetches'
        /\ joined \subseteq Panes!Entries
    BY <1>1, <2>3
  <2>6. /\ waits'[r] = joined /\ \A q \in Requests : q # r => waits'[q] = waits[q]
        /\ waits' \in [Requests -> SUBSET Panes!Entries]
    BY <1>1, <1>6, <2>2, <2>5
  <2>7. /\ Panes!Waiting(r)' /\ \A q \in Requests : q # r => (Panes!Waiting(q)' <=> Panes!Waiting(q))
    BY <1>3, <1>6 DEF Panes!Waiting
  <2>8. \A e \in Panes!Entries : Panes!Users(e)' = IF e \in joined THEN Panes!Users(e) \cup {r} ELSE Panes!Users(e)
    BY <1>3, <2>6, <2>7 DEF Panes!Users
  <2>9. Panes!UsersAreCounted'
    <3>1. ASSUME NEW e \in Panes!Entries
          PROVE  entry'[e].users = Cardinality(Panes!Users(e)')
      <4>1. IsFiniteSet(Panes!Users(e)) /\ Cardinality(Panes!Users(e)) = entry[e].users
        <5>1. Requests \in SUBSET Requests
          OBVIOUS
        <5> QED  BY <5>1, UsersAreFinite
      <4>2. r \notin Panes!Users(e)
        BY <1>3 DEF Panes!Users
      <4>3. CASE e \in joined
        BY <2>4, <2>8, <4>1, <4>2, <4>3, FS_AddElement
      <4>4. CASE e \notin joined
        BY <2>4, <2>8, <4>1, <4>4
      <4> QED  BY <4>3, <4>4
    <3> QED  BY <3>1, PanesCount DEF Panes!UsersAreCounted
  <2>10. Panes!TypeOK'
    <3>1. stage' \in [Requests -> Panes!Stages]
      BY <1>3, <1>6 DEF Panes!Stages
    <3>2. fetches' \in 0..MaxFetches
      BY <1>1, <2>3
    <3>3. sweeps' \subseteq Panes!Entries
      BY <1>6 DEF PanesCore, Panes!TypeOK
    <3> QED  BY <1>2, <2>3, <2>6, <3>1, <3>2, <3>3 DEF PanesCore, Panes!TypeOK
  <2>11. Panes!MapIsKept'
    <3>1. sweeps' \subseteq 1..fetches'
      BY <1>1, <1>6, <2>5
    <3> QED  BY <2>3, <3>1 DEF Panes!MapIsKept
  <2>12. Panes!WaitsAreKept'
    <3>1. \A q \in Requests : ~Panes!Waiting(q)' => waits'[q] = {}
      BY <2>6, <2>7 DEF PanesCore, Panes!WaitsAreKept
    <3>2. \A q \in Requests : epoch'[q] <= clears' /\ waits'[q] \subseteq 1..fetches'
      <4>1. \A q \in Requests : epoch'[q] <= clears'
        BY <1>2 DEF PanesCore, Panes!WaitsAreKept
      <4>2. \A q \in Requests : waits'[q] \subseteq 1..fetches'
        BY <1>1, <2>3, <2>5, <2>6
      <4> QED  BY <4>1, <4>2
    <3>3. ASSUME NEW q \in Requests, NEW e \in waits'[q], entry'[e].aborted
          PROVE  epoch'[q] < clears'
      <4>1. q # r /\ e \in waits[q] /\ e \in 1..fetches
        BY <1>1, <2>4, <2>6, <3>3
      <4>2. entry[e].aborted
        BY <2>4, <3>3, <4>1
      <4> QED  BY <1>2, <4>1, <4>2 DEF PanesCore, Panes!WaitsAreKept
    <3> QED  BY <3>1, <3>2, <3>3 DEF Panes!WaitsAreKept
  <2>13. Panes!CancelledByOwnSession'
    BY <1>2, <1>3, <1>6 DEF PanesCore, Panes!CancelledByOwnSession
  <2>14. Panes!NothingAbandoned'
    <3>1. ASSUME NEW e \in Panes!Entries, Panes!Running(e)'
          PROVE  Panes!Users(e)' # {} \/ e \in sweeps'
      <4>1. CASE e \in joined
        BY <2>8, <4>1
      <4>2. CASE e \notin joined
        <5>1. Panes!Running(e)
          BY <2>4, <3>1, <4>2 DEF Panes!Running
        <5> QED  BY <1>6, <2>8, <4>2, <5>1 DEF PanesCore, Panes!NothingAbandoned
      <4> QED  BY <4>1, <4>2
    <3> QED  BY <3>1 DEF Panes!NothingAbandoned
  <2>15. Panes!NobodyForgotten'
    <3>1. ASSUME NEW q \in Requests, Panes!Waiting(q)'
          PROVE  waits'[q] # {} /\ \A e \in waits'[q] : entry'[e].fetch = "running" \/ entry'[e].ready
      <4>1. CASE q = r
        BY <2>3, <2>4, <2>6, <4>1
      <4>2. CASE q # r
        <5>1. waits[q] # {} /\ \A e \in waits[q] : entry[e].fetch = "running" \/ entry[e].ready
          BY <2>7, <3>1, <4>2 DEF PanesCore, Panes!NobodyForgotten
        <5> QED  BY <1>1, <2>4, <2>6, <4>2, <5>1
      <4> QED  BY <4>1, <4>2
    <3> QED  BY <3>1 DEF Panes!NobodyForgotten
  <2> QED
    BY <2>9, <2>10, <2>11, <2>12, <2>13, <2>14, <2>15 DEF PanesCore
<1>7. ASSUME NEW s \in Asks[r], NEW end, end = Panes!JoinedAll(r, s),
             fetches' = end.fetches, stage' = [stage EXCEPT ![r] = "failed"], waits' = waits,
             sweeps' = sweeps \cup end.joined,
             entry' = [e \in Panes!Entries |-> IF e \in end.joined THEN [end.entry[e] EXCEPT !.users = @ - 1]
                                               ELSE end.entry[e]],
             NEW es, order' = Panes!Less(end.order, es), \A e \in es : end.entry[e].ready
      PROVE  PanesCore'
  <2>1. JoinsAll(order, entry, fetches, end)
    BY <1>1, <1>2, <1>7, JoinedAllKept
  <2>2. PICK joined, all, map, n : joined = end.joined /\ all = end.entry /\ map = end.order /\ n = end.fetches
    OBVIOUS
  <2>3. /\ Panes!IsMap(map) /\ all \in [Panes!Entries -> Panes!Preparations]
        /\ n \in fetches..MaxFetches /\ joined \subseteq 1..n /\ Panes!Kept(map, all, n)
    BY <2>1, <2>2 DEF JoinsAll
  <2>4. /\ \A e \in joined : all[e].users = entry[e].users + 1
        /\ \A e \in Panes!Entries \ joined : all[e] = entry[e]
        /\ \A e \in 1..fetches : /\ all[e].fetch = entry[e].fetch /\ all[e].ready = entry[e].ready
                                 /\ all[e].aborted = entry[e].aborted
    BY <2>1, <2>2 DEF JoinsAll
  <2>5. /\ n \in Nat /\ fetches <= n /\ 1..n \subseteq Panes!Entries /\ 1..fetches \subseteq 1..n
        /\ joined \subseteq Panes!Entries
    BY <1>1, <2>3
  <2>6. /\ fetches' = n /\ waits' = waits /\ sweeps' = sweeps \cup joined
        /\ entry' = [e \in Panes!Entries |-> IF e \in joined THEN [all[e] EXCEPT !.users = @ - 1] ELSE all[e]]
        /\ order' = Panes!Less(map, es) /\ \A e \in es : all[e].ready
    BY <1>7, <2>2
  <2>7. \A e \in Panes!Entries : entry[e] \in Panes!Preparations /\ all[e] \in Panes!Preparations
    BY <1>1, <2>3
  <2>8. \A e \in joined : entry'[e] = [scope |-> all[e].scope, users |-> entry[e].users, ready |-> all[e].ready,
                                      aborted |-> all[e].aborted, fetch |-> all[e].fetch]
    <3>1. ASSUME NEW e \in joined
          PROVE  entry'[e] = [scope |-> all[e].scope, users |-> entry[e].users, ready |-> all[e].ready,
                              aborted |-> all[e].aborted, fetch |-> all[e].fetch]
      <4>1. entry'[e] = [all[e] EXCEPT !.users = @ - 1] /\ all[e] \in Panes!Preparations
        BY <2>5, <2>6, <2>7, <3>1
      <4>2. entry'[e] = [scope |-> all[e].scope, users |-> all[e].users - 1, ready |-> all[e].ready,
                         aborted |-> all[e].aborted, fetch |-> all[e].fetch]
        BY <4>1 DEF Panes!Preparations
      <4>3. all[e].users - 1 = entry[e].users
        <5>1. entry[e].users \in Nat
          BY <2>5, <2>7 DEF Panes!Preparations
        <5> QED  BY <2>4, <5>1
      <4> QED  BY <4>2, <4>3
    <3> QED  BY <3>1
  <2>9. \A e \in Panes!Entries \ joined : entry'[e] = all[e] /\ all[e] = entry[e]
    BY <2>4, <2>6
  <2>10. \A e \in Panes!Entries : /\ entry'[e].scope = all[e].scope /\ entry'[e].ready = all[e].ready
                                  /\ entry'[e].aborted = all[e].aborted /\ entry'[e].fetch = all[e].fetch
                                  /\ entry'[e].users = entry[e].users
    <3>1. ASSUME NEW e \in joined
          PROVE  /\ entry'[e].scope = all[e].scope /\ entry'[e].ready = all[e].ready
                 /\ entry'[e].aborted = all[e].aborted /\ entry'[e].fetch = all[e].fetch
                 /\ entry'[e].users = entry[e].users
      <4>1. entry'[e] = [scope |-> all[e].scope, users |-> entry[e].users, ready |-> all[e].ready,
                         aborted |-> all[e].aborted, fetch |-> all[e].fetch]
        BY <2>8, <3>1
      <4> QED  BY <4>1
    <3>2. ASSUME NEW e \in Panes!Entries \ joined
          PROVE  /\ entry'[e].scope = all[e].scope /\ entry'[e].ready = all[e].ready
                 /\ entry'[e].aborted = all[e].aborted /\ entry'[e].fetch = all[e].fetch
                 /\ entry'[e].users = entry[e].users
      <4>1. entry'[e] = all[e] /\ all[e] = entry[e]
        BY <2>9, <3>2
      <4> QED  BY <4>1
    <3> QED  BY <3>1, <3>2
  <2>11. entry' \in [Panes!Entries -> Panes!Preparations]
    <3>1. ASSUME NEW e \in joined PROVE entry'[e] \in Panes!Preparations
      <4>1. /\ all[e].scope \in Scopes /\ entry[e].users \in Nat /\ all[e].ready \in BOOLEAN
            /\ all[e].aborted \in BOOLEAN /\ all[e].fetch \in {"none", "running", "done", "failed"}
        BY <2>5, <2>7 DEF Panes!Preparations
      <4>2. entry'[e] = [scope |-> all[e].scope, users |-> entry[e].users, ready |-> all[e].ready,
                         aborted |-> all[e].aborted, fetch |-> all[e].fetch]
        BY <2>8
      <4> QED  BY <4>1, <4>2 DEF Panes!Preparations
    <3>2. \A e \in Panes!Entries : entry'[e] \in Panes!Preparations
      BY <2>7, <2>9, <3>1
    <3> QED  BY <2>6, <3>2
  <2>12. Panes!IsMap(order') /\ Panes!Kept(order', entry', n)
    <3>1. PICK new : new = entry'
      OBVIOUS
    <3>2. ASSUME NEW e \in DOMAIN map \ es
          PROVE  /\ new[e].scope = all[e].scope /\ ~new[e].aborted
                 /\ new[e].fetch = IF new[e].ready THEN "done" ELSE "running"
      <4>1. e \in Panes!Entries
        BY <2>3, <3>2 DEF Panes!IsMap
      <4>2. ~all[e].aborted /\ all[e].fetch = IF all[e].ready THEN "done" ELSE "running"
        BY <2>3, <3>2 DEF Panes!Kept
      <4> QED  BY <2>10, <3>1, <4>1, <4>2
    <3>3. ASSUME NEW e \in Panes!Entries
          PROVE  /\ new[e].fetch = "running" /\ ~new[e].aborted => e \in DOMAIN map \ es
                 /\ new[e].ready => new[e].fetch = "done"
                 /\ e > n => new[e] = Panes!Blank
      <4>1. /\ all[e].fetch = "running" /\ ~all[e].aborted => e \in DOMAIN map
            /\ all[e].ready => all[e].fetch = "done"
            /\ e > n => all[e] = Panes!Blank
        BY <2>3 DEF Panes!Kept
      <4>2. e > n => e \notin joined
        <5>1. joined \subseteq 1..n
          BY <2>3
        <5> QED  BY <2>5, <5>1
      <4>3. e \in es => all[e].ready
        BY <2>6
      <4>4. e \notin joined => new[e] = all[e]
        BY <2>9, <3>1
      <4>5. new[e].fetch = all[e].fetch /\ new[e].ready = all[e].ready /\ new[e].aborted = all[e].aborted
        BY <2>10, <3>1
      <4> QED  BY <4>1, <4>2, <4>3, <4>4, <4>5
    <3>4. Panes!IsMap(Panes!Less(map, es)) /\ Panes!Kept(Panes!Less(map, es), new, n)
      BY <2>3, <3>2, <3>3, LessKept
    <3> QED  BY <2>6, <3>1, <3>4
  <2>13. /\ \A q \in Requests : Panes!Waiting(q)' <=> Panes!Waiting(q)
         /\ \A e \in Panes!Entries : Panes!Users(e)' = Panes!Users(e)
    <3>1. \A q \in Requests : Panes!Waiting(q)' <=> Panes!Waiting(q)
      BY <1>3, <1>7 DEF Panes!Waiting
    <3> QED  BY <2>6, <3>1 DEF Panes!Users
  <2>14. Panes!TypeOK'
    <3>1. stage' \in [Requests -> Panes!Stages]
      BY <1>3, <1>7 DEF Panes!Stages
    <3>2. fetches' \in 0..MaxFetches
      BY <1>1, <2>3, <2>6
    <3>3. sweeps' \subseteq Panes!Entries
      BY <2>5, <2>6 DEF PanesCore, Panes!TypeOK
    <3> QED  BY <1>2, <2>6, <2>11, <2>12, <3>1, <3>2, <3>3 DEF PanesCore, Panes!TypeOK
  <2>15. Panes!MapIsKept'
    <3>1. sweeps' \subseteq 1..n
      BY <1>1, <2>3, <2>5, <2>6
    <3> QED  BY <2>6, <2>12, <3>1 DEF Panes!MapIsKept
  <2>16. Panes!WaitsAreKept'
    <3>1. \A q \in Requests : ~Panes!Waiting(q)' => waits'[q] = {}
      BY <2>6, <2>13 DEF PanesCore, Panes!WaitsAreKept
    <3>2. \A q \in Requests : epoch'[q] <= clears' /\ waits'[q] \subseteq 1..fetches'
      <4>1. \A q \in Requests : epoch'[q] <= clears'
        BY <1>2 DEF PanesCore, Panes!WaitsAreKept
      <4> QED  BY <1>1, <2>5, <2>6, <4>1
    <3>3. ASSUME NEW q \in Requests, NEW e \in waits'[q], entry'[e].aborted
          PROVE  epoch'[q] < clears'
      <4>1. e \in waits[q] /\ e \in 1..fetches /\ e \in Panes!Entries
        BY <1>1, <2>6, <3>3
      <4>2. entry[e].aborted
        BY <2>4, <2>10, <3>3, <4>1
      <4> QED  BY <1>2, <4>1, <4>2 DEF PanesCore, Panes!WaitsAreKept
    <3> QED  BY <3>1, <3>2, <3>3 DEF Panes!WaitsAreKept
  <2>17. Panes!CancelledByOwnSession'
    BY <1>2, <1>3, <1>7 DEF PanesCore, Panes!CancelledByOwnSession
  <2>18. Panes!UsersAreCounted'
    BY <2>10, <2>13 DEF PanesCore, Panes!UsersAreCounted
  <2>19. Panes!NothingAbandoned'
    <3>1. ASSUME NEW e \in Panes!Entries, Panes!Running(e)'
          PROVE  Panes!Users(e)' # {} \/ e \in sweeps'
      <4>1. CASE e \in joined
        BY <2>6, <4>1
      <4>2. CASE e \notin joined
        <5>1. Panes!Running(e)
          BY <2>9, <3>1, <4>2 DEF Panes!Running
        <5> QED  BY <2>6, <2>13, <5>1 DEF PanesCore, Panes!NothingAbandoned
      <4> QED  BY <4>1, <4>2
    <3> QED  BY <3>1 DEF Panes!NothingAbandoned
  <2>20. Panes!NobodyForgotten'
    <3>1. ASSUME NEW q \in Requests, Panes!Waiting(q)'
          PROVE  waits'[q] # {} /\ \A e \in waits'[q] : entry'[e].fetch = "running" \/ entry'[e].ready
      <4>1. waits[q] # {} /\ \A e \in waits[q] : entry[e].fetch = "running" \/ entry[e].ready
        BY <2>13, <3>1 DEF PanesCore, Panes!NobodyForgotten
      <4>2. \A e \in waits[q] : e \in 1..fetches /\ e \in Panes!Entries
        BY <1>1
      <4>3. \A e \in waits[q] : entry'[e].fetch = entry[e].fetch /\ entry'[e].ready = entry[e].ready
        BY <2>4, <2>10, <4>2
      <4> QED  BY <2>6, <4>1, <4>3
    <3> QED  BY <3>1 DEF Panes!NobodyForgotten
  <2> QED
    BY <2>14, <2>15, <2>16, <2>17, <2>18, <2>19, <2>20 DEF PanesCore
<1>8. ASSUME NEW s \in Asks[r], Panes!WaitsFor(r, Panes!JoinedAll(r, s))
      PROVE  PanesCore'
  <2>1. PICK end : end = Panes!JoinedAll(r, s)
    OBVIOUS
  <2> QED  BY <1>6, <1>8, <2>1 DEF Panes!WaitsFor
<1>9. ASSUME NEW s \in Asks[r], Panes!GivesUp(r, Panes!JoinedAll(r, s))
      PROVE  PanesCore'
  <2>1. PICK end : end = Panes!JoinedAll(r, s)
    OBVIOUS
  <2>2. PICK es : es = {e \in DOMAIN end.order : end.entry[e].scope \in Asks[r] /\ end.entry[e].ready}
    OBVIOUS
  <2>3. \A e \in es : end.entry[e].ready
    BY <2>2
  <2>4. /\ fetches' = end.fetches /\ stage' = [stage EXCEPT ![r] = "failed"] /\ waits' = waits
        /\ sweeps' = sweeps \cup end.joined
        /\ entry' = [e \in Panes!Entries |-> IF e \in end.joined THEN [end.entry[e] EXCEPT !.users = @ - 1]
                                             ELSE end.entry[e]]
        /\ order' = Panes!Less(end.order, es)
    BY <1>9, <2>1, <2>2 DEF Panes!GivesUp
  <2> QED  BY <1>7, <2>1, <2>3, <2>4
<1> QED
  BY <1>2, <1>5, <1>8, <1>9 DEF Panes!Prepare

\* The record of a preparation that some of its users leave, and that ends.
LEMMA GoneRecord ==
  ASSUME NEW p \in Panes!Preparations, NEW n, NEW end
  PROVE  /\ [p EXCEPT !.users = @ - n, !.fetch = end]
            = [scope |-> p.scope, users |-> p.users - n, ready |-> p.ready, aborted |-> p.aborted, fetch |-> end]
         /\ [p EXCEPT !.users = @ - n]
            = [scope |-> p.scope, users |-> p.users - n, ready |-> p.ready, aborted |-> p.aborted, fetch |-> p.fetch]
<1>1. PICK m : m = p.users - n
  OBVIOUS
<1>2. PICK q : q = [p EXCEPT !.users = m]
  OBVIOUS
<1>3. q = [scope |-> p.scope, users |-> m, ready |-> p.ready, aborted |-> p.aborted, fetch |-> p.fetch]
  BY <1>2 DEF Panes!Preparations
<1>4. [q EXCEPT !.fetch = end]
        = [scope |-> p.scope, users |-> m, ready |-> p.ready, aborted |-> p.aborted, fetch |-> end]
  BY <1>3
<1>5. [p EXCEPT !.users = m, !.fetch = end] = [q EXCEPT !.fetch = end]
  BY <1>2
<1> QED
  BY <1>1, <1>2, <1>3, <1>4, <1>5

\* A pane that aborts its request, or whose time is over, leaves what it waits for.
LEMMA AbortKeeps ==
  ASSUME Panes!PreparationAssumption, PanesCore, NEW r \in Requests, NEW timeout \in BOOLEAN,
         Panes!Abort(r, timeout)
  PROVE  PanesCore'
<1>1. Panes!IsMap(order) /\ entry \in [Panes!Entries -> Panes!Preparations]
  BY CoreFacts
<1>2. PICK rs : rs = {r}
  OBVIOUS
<1>3. /\ stage' = [q \in Requests |-> IF q \in rs THEN "failed" ELSE stage[q]]
      /\ waits' = [q \in Requests |-> IF q \in rs THEN {} ELSE waits[q]]
      /\ sweeps' = sweeps \cup UNION {waits[q] : q \in rs}
      /\ entry' = [e \in Panes!Entries |-> [entry[e] EXCEPT !.users = @ - Gone(rs, e)]]
  BY <1>2, PanesCount DEF Panes!Abort, Panes!Leave, Gone
<1>4. /\ entry' = [e \in Panes!Entries |-> entry'[e]]
      /\ \A e \in Panes!Entries :
           entry'[e] = [scope |-> entry[e].scope, users |-> entry[e].users - Gone(rs, e),
                        ready |-> entry[e].ready, aborted |-> entry[e].aborted,
                        fetch |-> IF e \in {} THEN "failed" ELSE entry[e].fetch]
  <2>1. entry' = [e \in Panes!Entries |-> entry'[e]]
    BY <1>3
  <2>2. ASSUME NEW e \in Panes!Entries
        PROVE  entry'[e] = [scope |-> entry[e].scope, users |-> entry[e].users - Gone(rs, e),
                            ready |-> entry[e].ready, aborted |-> entry[e].aborted, fetch |-> entry[e].fetch]
    <3>1. PICK p \in Panes!Preparations : p = entry[e]
      BY <1>1
    <3>2. entry'[e] = [p EXCEPT !.users = @ - Gone(rs, e)]
      BY <1>3, <3>1
    <3> QED  BY <3>1, <3>2, GoneRecord
  <2> QED  BY <2>1, <2>2
<1>5. /\ token' = token /\ switches' = switches /\ UNCHANGED <<session, fetches, sent, epoch, clears>>
  BY DEF Panes!Abort, Panes!login
<1>6. PICK es : order' = Panes!Less(order, es) /\ \A e \in es : entry[e].ready
  <2>1. CASE timeout /\ Panes!Waiting(r) /\ session = sent[r]
    BY <2>1 DEF Panes!Abort, Panes!Invalidated, Panes!Without
  <2>2. CASE ~(timeout /\ Panes!Waiting(r) /\ session = sent[r])
    <3>1. order' = order
      BY <2>2 DEF Panes!Abort
    <3>2. order' = Panes!Less(order, {}) /\ \A e \in {} : entry[e].ready
      BY <1>1, <3>1, LessOfNone
    <3> QED  BY <3>2
  <2> QED  BY <2>1, <2>2
<1>7. Leaves(rs, "failed", es, {})
  BY <1>3, <1>4, <1>5, <1>6 DEF Leaves
<1> QED
  BY <1>2, <1>7, LeavesKeeps

\* A step in which a preparation ends without success, with all who wait for it.
Ends(e, end, rs) ==
  /\ rs = Panes!Users(e) /\ entry[e].fetch = "running"
  /\ end = "failed" \/ (end = "cancelled" /\ entry[e].aborted)
  /\ order' = Panes!Without({e} \cup {x \in Panes!Mapped : entry[x].ready
                                  /\ \E r \in rs : session = sent[r] /\ entry[x].scope \in Asks[r]})
  /\ stage' = [r \in Requests |-> IF r \in rs THEN end ELSE stage[r]]
  /\ waits' = [r \in Requests |-> IF r \in rs THEN {} ELSE waits[r]]
  /\ sweeps' = sweeps \cup UNION {waits[r] : r \in rs}
  /\ entry' = [x \in Panes!Entries |->
                 [entry[x] EXCEPT !.users = @ - Gone(rs, x), !.fetch = IF x = e THEN "failed" ELSE @]]
  /\ UNCHANGED <<token, switches, session, fetches, sent, epoch, clears>>

\* It is told to them, and the map forgets it.
LEMMA EndedKeeps ==
  ASSUME Panes!PreparationAssumption, PanesCore, NEW e \in Panes!Entries, NEW end,
         NEW rs \in SUBSET Requests, Ends(e, end, rs)
  PROVE  PanesCore'
<1>1. Panes!IsMap(order) /\ entry \in [Panes!Entries -> Panes!Preparations]
  BY CoreFacts
<1>2. PICK ended : ended = {e}
  OBVIOUS
<1>3. PICK es : es = {e} \cup {x \in Panes!Mapped : entry[x].ready
                                /\ \E r \in rs : session = sent[r] /\ entry[x].scope \in Asks[r]}
  OBVIOUS
<1>4. /\ order' = Panes!Less(order, es) /\ ended \subseteq es
      /\ \A x \in es \cap DOMAIN order : x \in ended \/ entry[x].ready
  BY <1>2, <1>3 DEF Ends, Panes!Without, Panes!Mapped
<1>5. /\ entry' = [x \in Panes!Entries |-> entry'[x]]
      /\ \A x \in Panes!Entries :
           entry'[x] = [scope |-> entry[x].scope, users |-> entry[x].users - Gone(rs, x),
                        ready |-> entry[x].ready, aborted |-> entry[x].aborted,
                        fetch |-> IF x \in ended THEN "failed" ELSE entry[x].fetch]
  <2>1. entry' = [x \in Panes!Entries |-> entry'[x]]
    BY DEF Ends
  <2>2. ASSUME NEW x \in Panes!Entries
        PROVE  entry'[x] = [scope |-> entry[x].scope, users |-> entry[x].users - Gone(rs, x),
                            ready |-> entry[x].ready, aborted |-> entry[x].aborted,
                            fetch |-> IF x \in ended THEN "failed" ELSE entry[x].fetch]
    <3>1. PICK p \in Panes!Preparations : p = entry[x]
      BY <1>1
    <3>2. PICK fetch \in {"none", "running", "done", "failed"} : fetch = IF x = e THEN "failed" ELSE p.fetch
      BY <3>1 DEF Panes!Preparations
    <3>3. entry'[x] = [p EXCEPT !.users = @ - Gone(rs, x), !.fetch = fetch]
      BY <3>1, <3>2 DEF Ends
    <3>4. entry'[x] = [scope |-> p.scope, users |-> p.users - Gone(rs, x), ready |-> p.ready, aborted |-> p.aborted,
                       fetch |-> fetch]
      BY <3>3, GoneRecord
    <3> QED  BY <1>2, <3>1, <3>2, <3>4
  <2> QED  BY <2>1, <2>2
<1>6. end = "cancelled" => \A r \in rs : epoch[r] < clears
  <2>1. \A r \in rs : e \in waits[r]
    BY DEF Ends, Panes!Users
  <2> QED  BY <2>1 DEF Ends, PanesCore, Panes!WaitsAreKept
<1>7. \A x \in ended : entry[x].fetch = "running" /\ Panes!Users(x) \subseteq rs
  BY <1>2 DEF Ends
<1>8. Leaves(rs, end, es, ended)
  BY <1>4, <1>5, <1>6, <1>7 DEF Leaves, Ends
<1> QED
  BY <1>2, <1>8, LeavesKeeps

\* A preparation that was ready when it was joined.
LEMMA FoundKeeps ==
  ASSUME Panes!PreparationAssumption, PanesCore, NEW e \in Panes!Entries, Panes!Found(e)
  PROVE  PanesCore'
<1>1. /\ entry \in [Panes!Entries -> Panes!Preparations] /\ Panes!Kept(order, entry, fetches)
  BY CoreFacts
<1>2. entry[e] \in Panes!Preparations /\ entry[e].ready /\ entry[e].fetch = "done"
  BY <1>1 DEF Panes!Found, Panes!Kept
<1>3. /\ entry' = [f \in Panes!Entries |-> entry'[f]]
      /\ \A f \in Panes!Entries : f # e => entry'[f] = entry[f]
  BY <1>1 DEF Panes!Found
<1>4. entry'[e] = [scope |-> entry[e].scope, users |-> 0, ready |-> TRUE, aborted |-> entry[e].aborted,
                   fetch |-> "done"]
  <2>1. PICK p \in Panes!Preparations : p = entry[e]
    BY <1>1
  <2>2. p.ready = TRUE /\ p.fetch = "done"
    BY <1>2, <2>1 DEF Panes!Preparations
  <2>3. entry'[e] = [p EXCEPT !.users = 0]
    BY <1>1, <2>1 DEF Panes!Found
  <2>4. entry'[e] = [scope |-> p.scope, users |-> 0, ready |-> p.ready, aborted |-> p.aborted, fetch |-> p.fetch]
    BY <2>3 DEF Panes!Preparations
  <2> QED  BY <2>1, <2>2, <2>4
<1>5. Finds(e)
  BY <1>2, <1>3, <1>4 DEF Finds, Panes!Found, Panes!login
<1> QED
  BY <1>5, FindsKeeps

\* The server's answer, or the lack of it.
LEMMA PreparedKeeps ==
  ASSUME Panes!PreparationAssumption, PanesCore, NEW e \in Panes!Entries, NEW ok \in BOOLEAN, Panes!Prepared(e, ok)
  PROVE  PanesCore'
<1>1. /\ entry \in [Panes!Entries -> Panes!Preparations] /\ Panes!Kept(order, entry, fetches)
  BY CoreFacts
<1>2. /\ entry[e].fetch = "running" /\ ~entry[e].aborted
      /\ UNCHANGED <<token, switches, session, fetches, sent, epoch, clears>>
  BY DEF Panes!Prepared, Panes!login
<1>3. CASE ok
  <2>1. /\ entry' = [entry EXCEPT ![e].fetch = "done", ![e].ready = TRUE, ![e].users = 0]
        /\ waits' = [r \in Requests |-> waits[r] \ {e}]
        /\ stage' = [r \in Requests |-> IF r \in Panes!Users(e) /\ waits[r] = {e} THEN "resume" ELSE stage[r]]
        /\ sweeps' = sweeps \cup (IF Panes!Users(e) = {} THEN {} ELSE {e})
        /\ order' = order
    BY <1>3 DEF Panes!Prepared
  <2>2. /\ entry' = [f \in Panes!Entries |-> entry'[f]]
        /\ \A f \in Panes!Entries : f # e => entry'[f] = entry[f]
    BY <1>1, <2>1
  <2>3. entry'[e] = [scope |-> entry[e].scope, users |-> 0, ready |-> TRUE, aborted |-> entry[e].aborted,
                     fetch |-> "done"]
    <3>1. PICK p \in Panes!Preparations : p = entry[e]
      BY <1>1
    <3>2. entry'[e] = [p EXCEPT !.fetch = "done", !.ready = TRUE, !.users = 0]
      BY <1>1, <2>1, <3>1
    <3>3. entry'[e] = [scope |-> p.scope, users |-> 0, ready |-> TRUE, aborted |-> p.aborted, fetch |-> "done"]
      BY <3>2 DEF Panes!Preparations
    <3> QED  BY <3>1, <3>3
  <2>4. Finds(e)
    BY <1>2, <2>1, <2>2, <2>3 DEF Finds, Panes!Running
  <2> QED  BY <2>4, FindsKeeps
<1>4. CASE ~ok
  <2>1. PICK rs \in SUBSET Requests : rs = Panes!Users(e)
    BY DEF Panes!Users
  <2>2. Ends(e, "failed", rs)
    BY <1>2, <1>4, <2>1, PanesCount DEF Panes!Prepared, Gone, Ends
  <2> QED  BY <2>1, <2>2, EndedKeeps
<1> QED
  BY <1>3, <1>4

\* An aborted preparation ends: those who wait for it are of a session that is over.
LEMMA RejectedKeeps ==
  ASSUME Panes!PreparationAssumption, PanesCore, NEW e \in Panes!Entries, Panes!Rejected(e)
  PROVE  PanesCore'
<1>1. PICK rs \in SUBSET Requests : rs = Panes!Users(e)
  BY DEF Panes!Users
<1>2. Ends(e, "cancelled", rs)
  BY <1>1, PanesCount DEF Panes!Rejected, Panes!login, Gone, Ends
<1> QED
  BY <1>1, <1>2, EndedKeeps

\* What comes after the preparations only invalidates what is ready.
LEMMA ResumeKeeps ==
  ASSUME Panes!PreparationAssumption, PanesCore, NEW r \in Requests,
         Panes!Resume(r) \/ Panes!Fetched(r)
  PROVE  PanesCore'
<1>1. Panes!IsMap(order)
  BY CoreFacts
<1>2. /\ stage[r] \in {"resume", "fetch"}
      /\ UNCHANGED <<token, switches, session, entry, fetches, sweeps, sent, epoch, clears, waits>>
      /\ \E end \in {"fetch", "failed", "done"} : stage' = [stage EXCEPT ![r] = end]
      /\ Panes!Invalidated(r) \/ order' = order
  <2>1. CASE Panes!Resume(r)
    BY <2>1 DEF Panes!Resume, Panes!login
  <2>2. CASE Panes!Fetched(r)
    BY <2>2 DEF Panes!Fetched, Panes!login
  <2> QED  BY <2>1, <2>2
<1>3. PICK end \in {"fetch", "failed", "done"} : stage' = [stage EXCEPT ![r] = end]
  BY <1>2
<1>4. PICK es : order' = Panes!Less(order, es) /\ \A e \in es : entry[e].ready
  <2>1. CASE Panes!Invalidated(r)
    BY <2>1 DEF Panes!Invalidated, Panes!Without
  <2>2. CASE order' = order
    <3>1. order' = Panes!Less(order, {}) /\ \A e \in {} : entry[e].ready
      BY <1>1, <2>2, LessOfNone
    <3> QED  BY <3>1
  <2> QED  BY <1>2, <2>1, <2>2
<1>5. Moves(r, end, es)
  BY <1>2, <1>3, <1>4 DEF Moves, Panes!Stages, Panes!Waiting
<1> QED
  BY <1>5, MovesKeeps

\* A switch of the token, or a step of the rest of the client, changes nothing of it.
LEMMA PanesRestKeeps ==
  ASSUME PanesCore, UNCHANGED Panes!vars \/ Panes!SwitchToken
  PROVE  PanesCore'
<1>1. /\ UNCHANGED <<session, order, entry, fetches, sweeps, stage, sent, epoch, clears, waits>>
      /\ token' \in Tokens /\ switches' \in Nat
  <2>1. token \in Tokens /\ switches \in Nat
    BY DEF PanesCore, Panes!TypeOK
  <2>2. CASE UNCHANGED Panes!vars
    BY <2>1, <2>2 DEF Panes!vars
  <2>3. CASE Panes!SwitchToken
    BY <2>1, <2>3 DEF Panes!SwitchToken
  <2> QED  BY <2>2, <2>3
<1>2. Panes!TypeOK' /\ Panes!MapIsKept'
  BY <1>1 DEF PanesCore, Panes!TypeOK, Panes!MapIsKept
<1>3. Panes!WaitsAreKept' /\ Panes!CancelledByOwnSession'
  BY <1>1 DEF PanesCore, Panes!WaitsAreKept, Panes!CancelledByOwnSession, Panes!Waiting
<1>4. \A e \in Panes!Entries : Panes!Users(e)' = Panes!Users(e) /\ Panes!Running(e)' = Panes!Running(e)
  BY <1>1 DEF Panes!Users, Panes!Running, Panes!Waiting
<1>5. Panes!UsersAreCounted' /\ Panes!NothingAbandoned'
  BY <1>1, <1>4 DEF PanesCore, Panes!UsersAreCounted, Panes!NothingAbandoned
<1>6. Panes!NobodyForgotten'
  BY <1>1 DEF PanesCore, Panes!NobodyForgotten, Panes!Waiting
<1> QED
  BY <1>2, <1>3, <1>5, <1>6 DEF PanesCore

\* At first nothing is prepared.
LEMMA PanesStart ==
  ASSUME Panes!PreparationAssumption, Panes!Init
  PROVE  PanesCore
<1>i. /\ token \in Tokens /\ switches = 0 /\ fetches = 0 /\ sweeps = {} /\ clears = 0
      /\ epoch = [r \in Requests |-> 0]
  BY DEF Panes!Init
<1>1. MaxFetches \in Nat /\ Capacity \in Nat /\ Panes!Entries = 1..MaxFetches
  BY DEF Panes!PreparationAssumption, Panes!Entries
<1>2. Panes!Blank \in Panes!Preparations /\ Panes!Blank.users = 0 /\ Panes!Blank.fetch = "none" /\ Panes!Blank.ready = FALSE
  <2>1. (CHOOSE s \in Scopes : TRUE) \in Scopes
    BY DEF Panes!PreparationAssumption
  <2> QED  BY <2>1 DEF Panes!Blank, Panes!Preparations
<1>3. /\ Panes!IsMap(order) /\ DOMAIN order = {}
  <2>1. order \in [{} -> SUBSET {}]
    BY DEF Panes!Init
  <2> QED  BY <2>1 DEF Panes!IsMap
<1>4. Panes!TypeOK
  <2>1. entry \in [Panes!Entries -> Panes!Preparations]
    BY <1>2 DEF Panes!Init
  <2>5. session \in Tokens \cup {""}
    BY Zenon DEF Panes!Init
  <2>2. /\ token \in Tokens /\ switches \in Nat /\ fetches \in 0..MaxFetches
        /\ sweeps \subseteq Panes!Entries /\ clears \in Nat
    BY <1>1, <1>i
  <2>3. stage \in [Requests -> Panes!Stages] /\ waits \in [Requests -> SUBSET Panes!Entries]
    BY DEF Panes!Init, Panes!Stages
  <2>4. sent \in [Requests -> Tokens] /\ epoch \in [Requests -> Nat]
    BY DEF Panes!Init
  <2> QED  BY <1>3, <2>1, <2>2, <2>3, <2>4, <2>5, Zenon DEF Panes!TypeOK
<1>5. Panes!MapIsKept
  <2>1. Panes!Ordered(order)
    BY <1>3 DEF Panes!Ordered
  <2>2. Panes!Cardinality(DOMAIN order) <= Capacity
    BY <1>1, <1>3, PanesCount, FS_EmptySet
  <2>3. \A e \in Panes!Entries : entry[e] = Panes!Blank
    BY DEF Panes!Init
  <2>4. \A e \in Panes!Entries : /\ entry[e].fetch = "running" /\ ~entry[e].aborted => e \in DOMAIN order
                                 /\ entry[e].ready => entry[e].fetch = "done"
                                 /\ e > fetches => entry[e] = Panes!Blank
    BY <1>2, <2>3
  <2>5. Panes!Kept(order, entry, fetches)
    BY <1>3, <2>1, <2>2, <2>4 DEF Panes!Kept
  <2> QED  BY <2>5 DEF Panes!MapIsKept, Panes!Init
<1>6. \A r \in Requests : ~Panes!Waiting(r) /\ waits[r] = {} /\ stage[r] = "idle"
  BY DEF Panes!Init, Panes!Waiting
<1>7. Panes!WaitsAreKept /\ Panes!CancelledByOwnSession /\ Panes!NobodyForgotten
  <2>1. \A r \in Requests : epoch[r] <= clears
    BY <1>i
  <2>2. Panes!WaitsAreKept
    BY <1>6, <2>1 DEF Panes!WaitsAreKept
  <2>3. Panes!CancelledByOwnSession /\ Panes!NobodyForgotten
    BY <1>6 DEF Panes!CancelledByOwnSession, Panes!NobodyForgotten
  <2> QED  BY <2>2, <2>3
<1>8. Panes!UsersAreCounted /\ Panes!NothingAbandoned
  <2>1. \A e \in Panes!Entries : entry[e] = Panes!Blank /\ Panes!Users(e) = {}
    BY <1>6 DEF Panes!Users, Panes!Init
  <2>2. Panes!Cardinality({}) = 0
    BY PanesCount, FS_EmptySet
  <2> QED  BY <1>2, <2>1, <2>2 DEF Panes!UsersAreCounted, Panes!NothingAbandoned, Panes!Running
<1> QED
  BY <1>4, <1>5, <1>7, <1>8 DEF PanesCore

\* Whoever looks a snapshot up in a map as it has to be finds what runs.
LEMMA SharedByTheMap ==
  ASSUME PanesCore
  PROVE  Panes!PreparationInvariant
<1>1. Panes!Kept(order, entry, fetches)
  BY DEF PanesCore, Panes!MapIsKept
<1>2. Panes!SharedWhileItRuns
  <2>1. \A e \in Panes!Entries : Panes!Running(e) => e \in Panes!Mapped
    BY <1>1 DEF Panes!Kept, Panes!Running, Panes!Mapped
  <2>2. \A e \in Panes!Mapped : ~entry[e].aborted /\ entry[e].fetch # "failed"
    BY <1>1 DEF Panes!Kept, Panes!Mapped
  <2>3. \A e, f \in Panes!Mapped : entry[e].scope = entry[f].scope => e = f
    BY <1>1 DEF Panes!Kept, Panes!Mapped
  <2> QED  BY <2>1, <2>2, <2>3 DEF Panes!SharedWhileItRuns
<1> QED
  BY <1>2 DEF PanesCore, Panes!PreparationInvariant

\* Whatever order calls, answers, aborts, sessions and microtasks come in, the preparations
\* are those of the map or on their way to be forgotten (client.ts).
THEOREM PreparationInvariantHolds ==
  Panes!PreparationAssumption => (Panes!Spec => []Panes!PreparationInvariant)
<1> SUFFICES ASSUME Panes!PreparationAssumption
             PROVE  Panes!Spec => []Panes!PreparationInvariant
  OBVIOUS
<1>1. Panes!Init => PanesCore
  BY PanesStart
<1>2. PanesCore /\ [Panes!Next]_(Panes!vars) => PanesCore'
  <2> SUFFICES ASSUME PanesCore, [Panes!Next]_(Panes!vars) PROVE PanesCore'
    OBVIOUS
  <2>1. CASE Panes!SwitchToken \/ UNCHANGED Panes!vars
    BY <2>1, PanesRestKeeps
  <2>2. ASSUME NEW r \in Requests,
               \/ Panes!Call(r) \/ Panes!Prepare(r) \/ Panes!Resume(r) \/ Panes!Fetched(r)
               \/ \E timeout \in BOOLEAN : Panes!Abort(r, timeout)
        PROVE  PanesCore'
    BY <2>2, CallKeeps, PrepareKeeps, ResumeKeeps, AbortKeeps
  <2>3. ASSUME NEW e \in Panes!Entries,
               \/ Panes!Found(e) \/ Panes!Rejected(e) \/ Panes!Sweep(e)
               \/ \E ok \in BOOLEAN : Panes!Prepared(e, ok)
        PROVE  PanesCore'
    BY <2>3, FoundKeeps, RejectedKeeps, SweepKeeps, PreparedKeeps
  <2> QED
    BY <2>1, <2>2, <2>3 DEF Panes!Next
<1>3. PanesCore => Panes!PreparationInvariant
  BY SharedByTheMap
<1> QED
  BY <1>1, <1>2, <1>3, PTL DEF Panes!Spec

\* A preparation counts exactly those who wait for it, however they come and go (the
\* users of prepare).
THEOREM UsersAreCountedHolds ==
  Panes!PreparationAssumption => (Panes!Spec => []Panes!UsersAreCounted)
<1> SUFFICES ASSUME Panes!PreparationAssumption
             PROVE  Panes!Spec => []Panes!UsersAreCounted
  OBVIOUS
<1>1. Panes!PreparationInvariant => Panes!UsersAreCounted
  BY DEF Panes!PreparationInvariant
<1>2. Panes!Spec => []Panes!PreparationInvariant
  BY PreparationInvariantHolds
<1> QED
  BY <1>1, <1>2, PTL

\* A request is cancelled by the end of the session it was called in, never by another
\* pane that stopped waiting for the same snapshot ("A cancelled pane must not cancel
\* another pane's shared verification", client.ts).
THEOREM CancelledByOwnSessionHolds ==
  Panes!PreparationAssumption => (Panes!Spec => []Panes!CancelledByOwnSession)
<1> SUFFICES ASSUME Panes!PreparationAssumption
             PROVE  Panes!Spec => []Panes!CancelledByOwnSession
  OBVIOUS
<1>1. Panes!PreparationInvariant => Panes!CancelledByOwnSession
  BY DEF Panes!PreparationInvariant
<1>2. Panes!Spec => []Panes!PreparationInvariant
  BY PreparationInvariantHolds
<1> QED
  BY <1>1, <1>2, PTL

\* A snapshot is prepared once at a time, and what is ended or aborted is never joined.
THEOREM SharedWhileItRunsHolds ==
  Panes!PreparationAssumption => (Panes!Spec => []Panes!SharedWhileItRuns)
<1> SUFFICES ASSUME Panes!PreparationAssumption
             PROVE  Panes!Spec => []Panes!SharedWhileItRuns
  OBVIOUS
<1>1. Panes!PreparationInvariant => Panes!SharedWhileItRuns
  BY DEF Panes!PreparationInvariant
<1>2. Panes!Spec => []Panes!PreparationInvariant
  BY PreparationInvariantHolds
<1> QED
  BY <1>1, <1>2, PTL

\* What runs and is waited for by nobody has a microtask queued that aborts it.
THEOREM NothingAbandonedHolds ==
  Panes!PreparationAssumption => (Panes!Spec => []Panes!NothingAbandoned)
<1> SUFFICES ASSUME Panes!PreparationAssumption
             PROVE  Panes!Spec => []Panes!NothingAbandoned
  OBVIOUS
<1>1. Panes!PreparationInvariant => Panes!NothingAbandoned
  BY DEF Panes!PreparationInvariant
<1>2. Panes!Spec => []Panes!PreparationInvariant
  BY PreparationInvariantHolds
<1> QED
  BY <1>1, <1>2, PTL

\* Whoever waits does so for something that runs or is ready, never for what has ended.
THEOREM NobodyForgottenHolds ==
  Panes!PreparationAssumption => (Panes!Spec => []Panes!NobodyForgotten)
<1> SUFFICES ASSUME Panes!PreparationAssumption
             PROVE  Panes!Spec => []Panes!NobodyForgotten
  OBVIOUS
<1>1. Panes!PreparationInvariant => Panes!NobodyForgotten
  BY DEF Panes!PreparationInvariant
<1>2. Panes!Spec => []Panes!PreparationInvariant
  BY PreparationInvariantHolds
<1> QED
  BY <1>1, <1>2, PTL

\* The panes of the client share their preparations: what one waits for is neither dropped
\* by another nor kept running for nobody, for any number of requests and scopes.
THEOREM PreparationsAreSharedHolds ==
  Panes!PreparationAssumption => (Panes!Spec => []Panes!PreparationsAreShared)
<1> SUFFICES ASSUME Panes!PreparationAssumption
             PROVE  Panes!Spec => []Panes!PreparationsAreShared
  OBVIOUS
<1>1. Panes!PreparationInvariant => Panes!PreparationsAreShared
  BY DEF Panes!PreparationInvariant, Panes!PreparationsAreShared
<1>2. Panes!Spec => []Panes!PreparationInvariant
  BY PreparationInvariantHolds
<1> QED
  BY <1>1, <1>2, PTL
=============================================================================
