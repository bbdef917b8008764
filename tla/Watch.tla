-------------------------------- MODULE Watch --------------------------------
(***************************************************************************)
(* `atlas watch` (crates/cli/src/watch.rs): a supervisor polls a workspace *)
(* through a warm worker process and publishes what changed.  Supervisor   *)
(* and worker talk over a socket, one numbered request and one answer at a *)
(* time; the facts of a changed workspace go through the file facts.json.  *)
(* Socket and file live in a directory of the session and end with it.     *)
(*                                                                         *)
(* What a workspace contains stands for everything derived from it: its    *)
(* source and context identities, its facts and the snapshot they become.  *)
(***************************************************************************)
EXTENDS Integers, Sequences

CONSTANTS
  Contents,     \* what the workspace may contain
  Broken,       \* contents that cannot be captured or analysed
  None,         \* no content, session, process
  Exited,       \* a worker that ended by itself after its last request
  Unlimited,    \* no limit of iterations
  Iterations,   \* --iterations
  MaxCaptures,  \* requests of one session, 32 in the code
  MaxFailures,  \* consecutive failed requests that end the watch, 3 in the code
  Flaky         \* whether a capture may fail whatever the workspace contains

VARIABLES
  workspace,  \* what the workspace contains
  head,       \* the head of the profile in the store
  phase,      \* where the supervisor's loop is
  expected,   \* expected_head
  session,    \* None or [captures, previous, successes]
  batch,      \* the facts taken from the worker and not yet published
  failures,   \* transport_failures
  iterations,
  cancelled,
  worker,     \* None, Exited or [step, sequence, previous, captured, answer]
  requests,   \* frames to the worker: sequence numbers
  answers,    \* frames to the supervisor
  facts,      \* facts.json
  seen        \* what the workspace contained since the last request was written

supervisor == <<phase, expected, session, batch, failures, iterations>>
wire == <<requests, answers, facts>>
vars == <<workspace, head, supervisor, cancelled, worker, wire, seen>>

OrNone(S) == S \cup {None}
Phases == {"polling", "starting", "waiting", "publishing", "ended"}
WorkerSteps == {"connecting", "reading", "capturing", "analyzing", "answering"}
Answers ==
  [sequence : 1..MaxCaptures, status : {"changed", "unchanged", "failed"},
   content : OrNone(Contents)]
Workers ==
  [step : WorkerSteps, sequence : 1..MaxCaptures, previous : OrNone(Contents),
   captured : OrNone(Contents), answer : OrNone(Answers)]
Sessions ==
  [captures : 0..MaxCaptures, previous : OrNone(Contents), successes : 0..MaxCaptures]

\* None and Exited are no values of their own; a session has room for a request, and
\* the watch survives a failure at all.
WatchAssumption ==
  /\ None \notin Contents /\ None \notin Sessions /\ None \notin Workers /\ None \notin Answers
  /\ Exited \notin Workers /\ Exited # None
  /\ MaxCaptures \in Nat \ {0} /\ MaxFailures \in Nat \ {0}

TypeOK ==
  /\ workspace \in Contents /\ head \in OrNone(Contents)
  /\ phase \in Phases /\ expected \in OrNone(Contents)
  /\ session \in OrNone(Sessions) /\ batch \in OrNone(Contents)
  /\ failures \in 0..MaxFailures /\ iterations \in Nat /\ cancelled \in BOOLEAN
  /\ worker \in Workers \cup {None, Exited}
  /\ requests \in Seq(1..MaxCaptures) /\ answers \in Seq(Answers)
  /\ facts \in OrNone(Contents) /\ seen \subseteq Contents

Running == worker \notin {None, Exited}

Init ==
  /\ workspace \in Contents /\ head \in OrNone(Contents)
  /\ phase = "polling" /\ expected = head /\ session = None /\ batch = None
  /\ failures = 0 /\ iterations = 0 /\ cancelled = FALSE
  /\ worker = None /\ requests = <<>> /\ answers = <<>> /\ facts = None
  /\ seen = {}

-----------------------------------------------------------------------------
(* The session. *)

NewSession == [captures |-> 0, previous |-> None, successes |-> 0]
NewWorker ==
  [step |-> "connecting", sequence |-> 1, previous |-> None, captured |-> None,
   answer |-> None]

\* Dropping a session kills and reaps the worker, then removes its directory.
DropSession ==
  /\ session' = None /\ worker' = None
  /\ requests' = <<>> /\ answers' = <<>> /\ facts' = None

\* The first half of Session::capture.
SendRequest ==
  /\ session' = [session EXCEPT !.captures = @ + 1]
  /\ requests' = Append(requests, session.captures + 1)
  /\ phase' = "waiting" /\ seen' = {workspace}

Counted == iterations' = IF Iterations = Unlimited THEN iterations ELSE iterations + 1

End == phase' = "ended" /\ batch' = None /\ DropSession

-----------------------------------------------------------------------------
(* The supervisor. *)

Done == Iterations # Unlimited /\ iterations >= Iterations
Worn == session # None /\ session.captures >= MaxCaptures

\* The loop is left: all iterations made, a cancellation, a head that somebody
\* else moved, or a store near its quota (always possible).
LeaveLoop ==
  /\ phase = "polling"
  /\ End
  /\ UNCHANGED <<workspace, head, expected, failures, iterations, cancelled, seen>>

MayPoll == phase = "polling" /\ ~Done /\ ~cancelled /\ head = expected

StartSession ==
  /\ MayPoll /\ (session = None \/ Worn)
  /\ phase' = "starting" /\ session' = NewSession /\ worker' = NewWorker
  /\ requests' = <<>> /\ answers' = <<>> /\ facts' = None
  /\ UNCHANGED <<workspace, head, expected, batch, failures, iterations, cancelled, seen>>

\* accept, then the first request.
AcceptWorker ==
  /\ phase = "starting" /\ ~cancelled
  /\ Running => worker.step # "connecting"
  /\ worker # None
  /\ SendRequest
  /\ UNCHANGED <<workspace, head, expected, batch, failures, iterations, cancelled, worker,
                 answers, facts>>

Request ==
  /\ MayPoll /\ session # None /\ ~Worn
  /\ SendRequest
  /\ UNCHANGED <<workspace, head, expected, batch, failures, iterations, cancelled, worker,
                 answers, facts>>

\* mutant: failures in a row are not counted.
FailedUncounted ==
  IF cancelled THEN End /\ UNCHANGED <<failures, iterations>>
  ELSE /\ Counted /\ DropSession /\ batch' = None
       /\ phase' = "polling" /\ UNCHANGED failures

\* The result of a request was an error: the session goes, and the third in a
\* row ends the watch.  A cancellation leaves before anything is counted.
Failed ==
  IF cancelled THEN End /\ UNCHANGED <<failures, iterations>>
  ELSE /\ Counted /\ DropSession /\ batch' = None
       /\ failures' = failures + 1
       /\ phase' = IF failures + 1 >= MaxFailures THEN "ended" ELSE "polling"

\* mutant: only the end of the worker ends the wait for it.
RequestFailsWithWorker ==
  /\ phase \in {"starting", "waiting"} /\ ~Running
  /\ Failed
  /\ UNCHANGED <<workspace, head, expected, cancelled, seen>>

\* The deadline, a cancellation, a worker that cannot be started or is gone, or
\* an answer that is not acceptable.
RequestFails ==
  /\ phase \in {"starting", "waiting"}
  /\ Failed
  /\ UNCHANGED <<workspace, head, expected, cancelled, seen>>

\* Response::validate and the checks of Session::capture.
Acceptable(a) ==
  /\ Len(answers) = 1
  /\ a.sequence = session.captures
  /\ CASE a.status = "changed" -> a.content # None /\ facts = a.content
       [] a.status = "unchanged" ->
            a.content # None /\ a.content = session.previous /\ facts = None
       [] a.status = "failed" -> a.content = None /\ facts = None

\* mutant: facts are published whether or not the head has them.
NeverPublished(c) == FALSE

\* fact_digest of the head's snapshot against that of the batch.
AlreadyPublished(c) == expected = c

ReceiveAnswer ==
  /\ phase = "waiting" /\ answers # <<>> /\ Acceptable(Head(answers))
  /\ LET a == Head(answers) IN
     IF cancelled THEN End /\ UNCHANGED <<failures, iterations>>
     ELSE /\ Counted /\ failures' = 0
          /\ answers' = Tail(answers) /\ facts' = None
          /\ session' = [session EXCEPT
               !.previous = IF a.status = "changed" THEN a.content ELSE @,
               !.successes = IF a.status = "failed" THEN @ ELSE @ + 1]
          /\ IF a.status = "changed" /\ ~AlreadyPublished(a.content)
             THEN phase' = "publishing" /\ batch' = a.content
             ELSE phase' = "polling" /\ batch' = None
          /\ UNCHANGED <<worker, requests>>
  /\ UNCHANGED <<workspace, head, expected, cancelled, seen>>

\* Store::publish compares the head with the expected one once more.
Publish ==
  /\ phase = "publishing" /\ ~cancelled /\ head = expected
  /\ head' = batch /\ expected' = batch
  /\ phase' = "polling" /\ batch' = None
  /\ UNCHANGED <<workspace, session, failures, iterations, cancelled, worker, wire, seen>>

\* A cancellation, a moved head, the quota or an error of the store.
PublishEnds ==
  /\ phase = "publishing"
  /\ End
  /\ UNCHANGED <<workspace, head, expected, failures, iterations, cancelled, seen>>

-----------------------------------------------------------------------------
(* The worker. *)

WorkerConnects ==
  /\ Running /\ worker.step = "connecting"
  /\ worker' = [worker EXCEPT !.step = "reading"]
  /\ UNCHANGED <<workspace, head, supervisor, cancelled, wire, seen>>

\* A request out of sequence or facts nobody took end the worker.
WorkerReads ==
  /\ Running /\ worker.step = "reading" /\ requests # <<>>
  /\ requests' = Tail(requests)
  /\ worker' = IF Head(requests) = worker.sequence /\ facts = None
               THEN [worker EXCEPT !.step = "capturing"] ELSE None
  /\ UNCHANGED <<workspace, head, supervisor, cancelled, answers, facts, seen>>

Answer(status, content) ==
  [sequence |-> worker.sequence, status |-> status, content |-> content]
Answering(answer) ==
  [worker EXCEPT !.step = "answering", !.captured = None, !.answer = answer]

WorkerCaptures ==
  /\ Running /\ worker.step = "capturing"
  /\ worker' = IF workspace = worker.previous
               THEN Answering(Answer("unchanged", workspace))
               ELSE [worker EXCEPT !.step = "analyzing", !.captured = workspace]
  /\ UNCHANGED <<workspace, head, supervisor, cancelled, wire, seen>>

WorkerAnalyzes ==
  /\ Running /\ worker.step = "analyzing" /\ worker.captured \notin Broken
  /\ facts' = worker.captured
  /\ worker' = [Answering(Answer("changed", worker.captured)) EXCEPT !.previous = worker.captured]
  /\ UNCHANGED <<workspace, head, supervisor, cancelled, requests, answers, seen>>

\* Capture or analysis fails: the contents are to blame, or an edit under way.
WorkerFails ==
  /\ Running /\ worker.step \in {"capturing", "analyzing"}
  /\ Flaky \/ worker.captured \in Broken \/ seen # {workspace}
  /\ facts' = None
  /\ worker' = Answering(Answer("failed", None))
  /\ UNCHANGED <<workspace, head, supervisor, cancelled, requests, answers, seen>>

WorkerAnswers ==
  /\ Running /\ worker.step = "answering"
  /\ answers' = Append(answers, worker.answer)
  /\ worker' = IF worker.sequence = MaxCaptures THEN Exited
               ELSE [worker EXCEPT !.step = "reading", !.sequence = @ + 1, !.answer = None]
  /\ UNCHANGED <<workspace, head, supervisor, cancelled, requests, facts, seen>>

\* A memory, processor or file limit, or a crash.
WorkerDies ==
  /\ Running
  /\ worker' = None
  /\ UNCHANGED <<workspace, head, supervisor, cancelled, wire, seen>>

-----------------------------------------------------------------------------
(* The world. *)

Edit ==
  /\ phase # "ended"
  /\ workspace' \in Contents \ {workspace}
  /\ seen' = seen \cup {workspace'}
  /\ UNCHANGED <<head, supervisor, cancelled, worker, wire>>

\* An import or another writer that holds no index.lock.
OtherPublishes ==
  /\ phase # "ended"
  /\ head' \in Contents \ {head}
  /\ UNCHANGED <<workspace, supervisor, cancelled, worker, wire, seen>>

Cancel ==
  /\ ~cancelled /\ cancelled' = TRUE
  /\ UNCHANGED <<workspace, head, supervisor, worker, wire, seen>>

Supervises ==
  \/ LeaveLoop \/ StartSession \/ AcceptWorker \/ Request \/ RequestFails
  \/ ReceiveAnswer \/ Publish \/ PublishEnds
Works ==
  \/ WorkerConnects \/ WorkerReads \/ WorkerCaptures \/ WorkerAnalyzes \/ WorkerFails
  \/ WorkerAnswers
Next == Supervises \/ Works \/ WorkerDies \/ Edit \/ OtherPublishes \/ Cancel

\* The supervisor never waits without a deadline; the worker is a process the
\* system schedules.
Spec == Init /\ [][Next]_vars /\ WF_vars(Supervises) /\ WF_vars(Works)

-----------------------------------------------------------------------------
(* Properties. *)

Between == session # None /\ session.captures > 0 /\ phase \in {"polling", "publishing"}
LastContent == IF batch = None THEN expected ELSE batch

\* The two processes agree.  Between requests nothing is in flight, the worker
\* waits for the very next sequence number and remembers the same capture as the
\* supervisor; it has left by itself only when no request is due.  While the
\* supervisor waits, the request, the work or the answer carries its number, and
\* there is one of them at most.  Without a session there is no worker, no frame
\* and no facts.json.
PeersAgree ==
  /\ Between =>
       /\ requests = <<>> /\ answers = <<>> /\ facts = None
       /\ Running => /\ worker.step = "reading"
                     /\ worker.sequence = session.captures + 1
                     /\ worker.previous = session.previous
       /\ worker = Exited => Worn
  /\ phase = "waiting" =>
       /\ Len(requests) + Len(answers) <= 1
       /\ \A i \in DOMAIN requests : requests[i] = session.captures
       /\ \A i \in DOMAIN answers : Acceptable(answers[i])
       /\ Running /\ answers = <<>> => worker.sequence = session.captures
       /\ worker = Exited => answers # <<>>
  /\ session = None => worker = None /\ requests = <<>> /\ answers = <<>> /\ facts = None
  /\ phase = "ended" => session = None

\* An answer `unchanged` is the truth about the head: between requests the last
\* capture both sides remember is what the watch has published or is about to.
PreviousIsPublished ==
  Between /\ session.previous # None => session.previous = LastContent

Succeeds ==
  \/ phase = "publishing" /\ phase' = "polling"
  \/ phase = "waiting" /\ phase' = "polling" /\ session' # None
     /\ session'.successes > session.successes

\* Every iteration that is reported as published or unchanged leaves the watch's
\* head at something the workspace contained after the request of that iteration
\* was written: no late answer, leftover file or remembered capture of an earlier
\* request is taken for it.
Fresh == Succeeds => expected' \in seen
AnswersAreFresh == [][Fresh]_vars

\* What is published is not what the head already shows: a new worker, which
\* remembers nothing, or an edit that was undone causes no publication.
New == phase = "publishing" /\ phase' = "polling" => batch # head
NoRepublish == [][New]_vars

\* Ctrl-C ends the watch, whatever the worker does (read_frame and accept poll the
\* flag and the deadline).
Cancelled == cancelled
Over == phase = "ended"
CancelEnds == Cancelled ~> Over

\* A workspace that can be analysed and is left alone is what the head shows in the
\* end, unless the watch ends.
Contains(c) == workspace = c
Shows(c) == expected = c
CatchesUp == \A c \in Contents \ Broken : (<>[]Contains(c)) => []<>(Over \/ Shows(c))

\* With --iterations the watch ends, whatever fails.
IterationsEnd == Iterations # Unlimited => <>Over

\* docs/operations/compiler-and-jobs.md: "Worker sessions are reset after 32
\* successful captures".
ResetAfterSuccesses ==
  [][Worn /\ phase = "polling" /\ phase' = "starting" => session.successes = MaxCaptures]_vars

-----------------------------------------------------------------------------
(* The inductive invariant behind PeersAgree, PreviousIsPublished, Fresh    *)
(* and New.                                                                 *)

Quiet == requests = <<>> /\ answers = <<>> /\ facts = None

\* The worker waits for the request after this one, with that memory of captures; one
\* that left by itself has answered its last.
Awaits(previous) ==
  /\ Running => /\ worker.step = "reading" /\ worker.previous = previous
                /\ worker.sequence = session.captures + 1
  /\ worker = Exited => session.captures = MaxCaptures

\* What both sides remember once the answer is received.
After(a) == IF a.status = "changed" THEN a.content ELSE session.previous

\* An answer to the request under way: what it says was seen, and is said against the
\* very capture the supervisor remembers.
Truthful(a) ==
  /\ a.sequence = session.captures
  /\ a.status = "changed" => a.content \in seen /\ facts = a.content
  /\ a.status = "unchanged" => a.content \in seen /\ a.content = session.previous /\ facts = None
  /\ a.status = "failed" => a.content = None /\ facts = None

\* Where the one request is: in the socket, with the worker, or answered.
Requested ==
  /\ requests = <<session.captures>> /\ answers = <<>> /\ facts = None
  /\ Running /\ worker.step = "reading" /\ worker.sequence = session.captures
  /\ worker.previous = session.previous
Working ==
  /\ requests = <<>> /\ answers = <<>> /\ Running /\ worker.sequence = session.captures
  /\ \/ /\ worker.step \in {"capturing", "analyzing"}
        /\ facts = None /\ worker.previous = session.previous
        /\ worker.step = "analyzing" => worker.captured \in seen
     \/ /\ worker.step = "answering" /\ worker.answer # None
        /\ Truthful(worker.answer) /\ worker.previous = After(worker.answer)
Answered ==
  /\ requests = <<>> /\ Len(answers) = 1
  /\ Truthful(answers[1]) /\ Awaits(After(answers[1]))
\* A worker that died leaves the request, or facts without an answer.
Lost == worker = None /\ answers = <<>> /\ requests \in {<<>>, <<session.captures>>}

WatchInvariant ==
  /\ TypeOK
  /\ phase = "publishing" <=> batch # None
  /\ phase = "publishing" => batch \in seen /\ batch # expected
  /\ phase # "ended" => failures < MaxFailures
  /\ phase \in {"starting", "waiting", "publishing"} => session # None
  /\ phase = "ended" => session = None
  /\ session = None => worker = None /\ Quiet
  /\ phase = "starting" =>
       /\ session = NewSession /\ Quiet /\ worker # Exited
       /\ Running => /\ worker.step \in {"connecting", "reading"}
                     /\ worker.sequence = 1 /\ worker.previous = None
  /\ session # None /\ phase \in {"polling", "publishing"} =>
       /\ session.captures > 0 /\ session.successes <= session.captures
       /\ Quiet /\ Awaits(session.previous)
       /\ session.previous # None => session.previous = LastContent
  /\ phase = "waiting" =>
       /\ workspace \in seen
       /\ session.successes < session.captures
       /\ session.previous # None => session.previous = expected
       /\ Requested \/ Working \/ Answered \/ Lost

\* Supervisor and worker agree on what was captured and published; an iteration shows what
\* the workspace contained after its request, and nothing is published twice.
WatchIsConsistent == WatchInvariant /\ PeersAgree /\ PreviousIsPublished
FreshAndNew == Fresh /\ New
WatchPublishesFresh == []WatchIsConsistent /\ [][FreshAndNew]_vars
=============================================================================
