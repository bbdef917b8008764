----------------------------- MODULE WatchProofs -----------------------------
(***************************************************************************)
(* Proofs about `atlas watch` (Watch): for any contents of the workspace,  *)
(* any number of requests in a session and of failures, and any number of  *)
(* iterations.                                                             *)
(*                                                                         *)
(* WatchInvariant says where the one request of a session is and what each *)
(* side remembers meanwhile.  Its types are proved first, then the rest,   *)
(* action by action; the promises of the watch follow from it.             *)
(***************************************************************************)
EXTENDS Watch, SequenceTheorems, TLAPS

\* What a step may use of the types: the records behind worker and session.
LEMMA RecordFacts ==
  ASSUME WatchAssumption, TypeOK
  PROVE  /\ Running => /\ worker \in Workers
                       /\ worker.step \in WorkerSteps /\ worker.sequence \in 1..MaxCaptures
                       /\ worker.previous \in OrNone(Contents)
                       /\ worker.captured \in OrNone(Contents)
                       /\ worker.answer \in OrNone(Answers)
         /\ session # None => /\ session \in Sessions
                              /\ session.captures \in 0..MaxCaptures
                              /\ session.successes \in 0..MaxCaptures
                              /\ session.previous \in OrNone(Contents)
         /\ \A w \in Workers : w # None /\ w # Exited
         /\ \A s \in Sessions : s # None
         /\ MaxCaptures \in Nat \ {0} /\ MaxFailures \in Nat \ {0}
BY DEF WatchAssumption, TypeOK, Running, Workers, Sessions, OrNone

\* A new session and its worker are of their types.
LEMMA NewRecords ==
  ASSUME WatchAssumption
  PROVE  NewSession \in Sessions /\ NewWorker \in Workers
BY DEF WatchAssumption, NewSession, NewWorker, Sessions, Workers, WorkerSteps, OrNone

-----------------------------------------------------------------------------
(* Types. *)

\* Dropping a session leaves nothing of it.
LEMMA DropSessionTypes ==
  ASSUME DropSession
  PROVE  /\ session' = None /\ worker' = None /\ facts' = None
         /\ session' \in OrNone(Sessions) /\ worker' \in Workers \cup {None, Exited}
         /\ requests' \in Seq(1..MaxCaptures) /\ answers' \in Seq(Answers)
         /\ facts' \in OrNone(Contents)
BY DEF DropSession, OrNone

\* The supervisor keeps the types.
LEMMA SupervisorTypes ==
  ASSUME WatchAssumption, WatchInvariant, Supervises
  PROVE  TypeOK'
<1>1. TypeOK
  BY DEF WatchInvariant
<1>2. /\ MaxCaptures \in Nat \ {0} /\ MaxFailures \in Nat \ {0}
      /\ session # None => session \in Sessions /\ session.captures \in 0..MaxCaptures
                           /\ session.successes \in 0..MaxCaptures
                           /\ session.previous \in OrNone(Contents)
  BY <1>1, RecordFacts
<1>3. iterations + 1 \in Nat
  BY <1>1 DEF TypeOK
<1>4. CASE LeaveLoop
  BY <1>1, <1>4, DropSessionTypes DEF LeaveLoop, End, TypeOK, OrNone, Phases
<1>5. CASE StartSession
  BY <1>1, <1>5, NewRecords DEF StartSession, TypeOK, OrNone, Phases
<1>6. ASSUME SendRequest, session # None, session.captures < MaxCaptures,
             UNCHANGED <<workspace, head, expected, batch, failures, iterations, cancelled, worker,
                         answers, facts>>
      PROVE  TypeOK'
  <2>1. session.captures + 1 \in 1..MaxCaptures
    BY <1>2, <1>6
  <2>2. session' \in OrNone(Sessions) /\ requests' \in Seq(1..MaxCaptures)
    <3>1. session' \in Sessions
      BY <1>2, <1>6, <2>1 DEF SendRequest, Sessions
    <3>2. requests' \in Seq(1..MaxCaptures)
      BY <1>1, <1>6, <2>1 DEF SendRequest, TypeOK
    <3> QED  BY <3>1, <3>2 DEF OrNone
  <2> QED
    BY <1>1, <1>6, <2>2 DEF SendRequest, TypeOK, Phases
<1>7. CASE AcceptWorker
  <2>1. session = NewSession
    BY <1>7 DEF AcceptWorker, WatchInvariant
  <2>2. session # None /\ session.captures < MaxCaptures
    BY <1>2, <2>1, <1>7 DEF NewSession, AcceptWorker, WatchInvariant
  <2> QED
    BY <1>6, <1>7, <2>2 DEF AcceptWorker
<1>8. CASE Request
  BY <1>2, <1>6, <1>8 DEF Request, Worn
<1>9. CASE RequestFails
  <2>1. failures < MaxFailures /\ failures \in Nat
    BY <1>1, <1>9 DEF RequestFails, WatchInvariant, TypeOK
  <2>2. failures + 1 \in 0..MaxFailures /\ 0 \in 0..MaxFailures
    BY <1>2, <2>1
  <2> QED
    BY <1>1, <1>3, <1>9, <2>2, DropSessionTypes
       DEF RequestFails, Failed, Counted, End, TypeOK, OrNone, Phases
<1>10. CASE ReceiveAnswer
  <2>1. CASE cancelled
    BY <1>1, <1>10, <2>1, DropSessionTypes DEF ReceiveAnswer, End, TypeOK, OrNone, Phases
  <2>2. CASE ~cancelled
    <3> DEFINE a == Head(answers)
    <3>1. a \in Answers /\ answers' = Tail(answers) /\ answers' \in Seq(Answers)
      BY <1>1, <1>10, <2>2 DEF ReceiveAnswer, TypeOK
    <3>2. a.content \in OrNone(Contents) /\ (a.status = "changed" => a.content # None)
      BY <1>10, <3>1 DEF ReceiveAnswer, Acceptable, Answers
    <3>3. session # None /\ session.successes < MaxCaptures
      <4>1. session # None /\ session.successes < session.captures
        BY <1>10 DEF ReceiveAnswer, WatchInvariant
      <4> QED  BY <1>2, <4>1
    <3> HIDE DEF a
    <3>4. session' = [session EXCEPT
               !.previous = IF a.status = "changed" THEN a.content ELSE @,
               !.successes = IF a.status = "failed" THEN @ ELSE @ + 1]
      BY <1>10, <2>2 DEF ReceiveAnswer, a
    <3>5. session' \in OrNone(Sessions)
      <4> DEFINE previous == IF a.status = "changed" THEN a.content ELSE session.previous
                 successes == IF a.status = "failed" THEN session.successes
                              ELSE session.successes + 1
      <4>1. previous \in OrNone(Contents) /\ successes \in 0..MaxCaptures
        BY <1>2, <3>2, <3>3
      <4>2. session' = [session EXCEPT !.previous = previous, !.successes = successes]
        BY <3>4
      <4> HIDE DEF previous, successes
      <4> QED
        BY <1>2, <3>3, <4>1, <4>2 DEF Sessions, OrNone
    <3>6. /\ phase' \in Phases /\ batch' \in OrNone(Contents) /\ failures' = 0 /\ facts' = None
          /\ iterations' \in Nat /\ UNCHANGED <<worker, requests, workspace, head, expected, cancelled, seen>>
      BY <1>1, <1>3, <1>10, <2>2, <3>2 DEF ReceiveAnswer, Counted, TypeOK, Phases, OrNone, a
    <3> QED
      BY <1>1, <1>2, <3>1, <3>5, <3>6 DEF TypeOK, OrNone
  <2> QED  BY <1>1, <2>1, <2>2 DEF TypeOK
<1>11. CASE Publish
  BY <1>1, <1>11 DEF Publish, TypeOK, wire, Phases, OrNone
<1>12. CASE PublishEnds
  BY <1>1, <1>12, DropSessionTypes DEF PublishEnds, End, TypeOK, OrNone, Phases
<1> QED
  BY <1>4, <1>5, <1>7, <1>8, <1>9, <1>10, <1>11, <1>12 DEF Supervises

\* What the worker makes of its record.
LEMMA WorkerRecords ==
  ASSUME WatchAssumption, TypeOK, Running
  PROVE  /\ \A step \in WorkerSteps : [worker EXCEPT !.step = step] \in Workers
         /\ \A c \in Contents : [worker EXCEPT !.step = "analyzing", !.captured = c] \in Workers
         /\ \A a \in Answers, p \in OrNone(Contents) :
              [Answering(a) EXCEPT !.previous = p] \in Workers
         /\ \A a \in Answers : Answering(a) \in Workers
         /\ worker.sequence # MaxCaptures =>
              [worker EXCEPT !.step = "reading", !.sequence = @ + 1, !.answer = None] \in Workers
         /\ \A c \in Contents : /\ Answer("changed", c) \in Answers
                                /\ Answer("unchanged", c) \in Answers
         /\ Answer("failed", None) \in Answers
<1>1. worker \in Workers /\ worker.sequence \in 1..MaxCaptures /\ MaxCaptures \in Nat \ {0}
  BY RecordFacts
<1>2. worker.sequence # MaxCaptures => worker.sequence + 1 \in 1..MaxCaptures
  BY <1>1
<1>3. \A status \in {"changed", "unchanged", "failed"}, c \in OrNone(Contents) :
        Answer(status, c) \in Answers
  BY <1>1 DEF Answer, Answers
<1>4. worker.sequence # MaxCaptures =>
        [worker EXCEPT !.step = "reading", !.sequence = @ + 1, !.answer = None] \in Workers
  BY <1>1, <1>2 DEF Workers, WorkerSteps, OrNone
<1> QED
  BY <1>1, <1>3, <1>4 DEF Workers, WorkerSteps, Answering, OrNone

\* A worker that does something does it for the one request of the session.
LEMMA BusyWorker ==
  ASSUME WatchInvariant, Running, worker.step \notin {"connecting", "reading"}
  PROVE  phase = "waiting" /\ Working /\ session # None
<1>1. worker # None
  BY DEF Running
<1>2. session # None /\ phase # "starting" /\ phase \notin {"polling", "publishing"}
  BY <1>1 DEF WatchInvariant, Awaits
<1>3. phase = "waiting"
  BY <1>2 DEF WatchInvariant, TypeOK, Phases
<1> QED
  BY <1>1, <1>2, <1>3 DEF WatchInvariant, Requested, Answered, Lost, Awaits

\* The worker keeps the types.
LEMMA WorkerTypes ==
  ASSUME WatchAssumption, WatchInvariant, Works \/ WorkerDies
  PROVE  TypeOK'
<1>1. TypeOK /\ UNCHANGED <<workspace, head, supervisor, cancelled, seen>>
  BY DEF WatchInvariant, Works, WorkerConnects, WorkerReads, WorkerCaptures, WorkerAnalyzes,
         WorkerFails, WorkerAnswers, WorkerDies
<1>2. Running
  BY DEF Works, WorkerConnects, WorkerReads, WorkerCaptures, WorkerAnalyzes, WorkerFails,
         WorkerAnswers, WorkerDies
<1>3. SUFFICES /\ worker' \in Workers \cup {None, Exited}
               /\ requests' \in Seq(1..MaxCaptures) /\ answers' \in Seq(Answers)
               /\ facts' \in OrNone(Contents)
  BY <1>1 DEF TypeOK, supervisor
<1>4. /\ worker \in Workers /\ worker.captured \in OrNone(Contents)
      /\ worker.answer \in OrNone(Answers)
  BY <1>1, <1>2, RecordFacts
<1>5. CASE WorkerConnects
  BY <1>1, <1>2, <1>5, WorkerRecords DEF WorkerConnects, TypeOK, wire, WorkerSteps
<1>6. CASE WorkerReads
  <2>1. worker' \in Workers \cup {None}
    BY <1>1, <1>2, <1>6, WorkerRecords DEF WorkerReads, WorkerSteps
  <2> QED
    BY <1>1, <1>6, <2>1 DEF WorkerReads, TypeOK
<1>7. CASE WorkerCaptures
  BY <1>1, <1>2, <1>7, WorkerRecords DEF WorkerCaptures, TypeOK, wire, WorkerSteps
<1>8. CASE WorkerAnalyzes
  <2>1. worker.captured \in Contents
    BY <1>1, <1>8, BusyWorker DEF WorkerAnalyzes, Working, TypeOK
  <2> QED
    BY <1>1, <1>2, <1>8, <2>1, WorkerRecords DEF WorkerAnalyzes, TypeOK, OrNone
<1>9. CASE WorkerFails
  BY <1>1, <1>2, <1>9, WorkerRecords DEF WorkerFails, TypeOK, OrNone
<1>10. CASE WorkerAnswers
  <2>1. worker.answer \in Answers
    BY <1>4, <1>10, BusyWorker DEF WorkerAnswers, Working, OrNone
  <2>2. worker' \in Workers \cup {Exited}
    BY <1>1, <1>2, <1>10, WorkerRecords DEF WorkerAnswers
  <2> QED
    BY <1>1, <1>10, <2>1, <2>2 DEF WorkerAnswers, TypeOK
<1>11. CASE WorkerDies
  BY <1>1, <1>11 DEF WorkerDies, TypeOK, wire
<1> QED
  BY <1>5, <1>6, <1>7, <1>8, <1>9, <1>10, <1>11 DEF Works

-----------------------------------------------------------------------------
(* The supervisor's steps. *)

\* Without a session nothing is left to be in order.
LEMMA SessionGone ==
  ASSUME TypeOK', DropSession, batch' = None, phase' \in {"polling", "ended"},
         phase' # "ended" => failures' < MaxFailures
  PROVE  WatchInvariant'
BY DEF DropSession, WatchInvariant, Quiet

\* A request is written: it is in the socket and nowhere else, for the worker that
\* waits for that very number.
LEMMA SendKeepsInvariant ==
  ASSUME WatchAssumption, WatchInvariant, TypeOK', SendRequest, session # None, Quiet, batch = None,
         session.captures < MaxCaptures,
         session.successes <= session.captures, Awaits(session.previous),
         session.previous # None => session.previous = expected,
         worker # Exited, failures < MaxFailures,
         UNCHANGED <<workspace, head, expected, batch, failures, iterations, cancelled, worker,
                     answers, facts>>
  PROVE  WatchInvariant'
<1>1. TypeOK /\ session \in Sessions
  BY RecordFacts DEF WatchInvariant
<1>2. session.captures \in Nat /\ session.successes \in Nat
  BY <1>1 DEF Sessions
<1>3. /\ session' # None /\ session'.captures = session.captures + 1
      /\ session'.previous = session.previous /\ session'.successes = session.successes
  <2>1. session.captures + 1 \in 0..MaxCaptures
    BY <1>1, RecordFacts
  <2>2. session' \in Sessions
    BY <1>1, <2>1 DEF SendRequest, Sessions
  <2> QED
    BY <1>1, <2>2 DEF SendRequest, Sessions, WatchAssumption
<1>4. requests' = <<session'.captures>> /\ phase' = "waiting"
  BY <1>3 DEF SendRequest, Quiet
<1>5. session'.successes < session'.captures
  BY <1>2, <1>3
<1>6. (Requested \/ Lost)'
  <2>1. CASE Running
    BY <1>3, <1>4, <2>1 DEF Requested, Quiet, Awaits, Running
  <2>2. CASE ~Running
    BY <1>3, <1>4, <2>2 DEF Lost, Quiet, Running
  <2> QED  BY <2>1, <2>2
<1>7. workspace' \in seen'
  BY DEF SendRequest
<1> QED
  BY <1>3, <1>4, <1>5, <1>6, <1>7 DEF WatchInvariant

\* What the supervisor takes from an answer: the one request was answered truthfully,
\* nothing is in flight, and both sides remember the same.
LEMMA AnswerReceived ==
  ASSUME WatchAssumption, WatchInvariant, ReceiveAnswer, ~cancelled
  PROVE  \E a \in Answers :
           /\ Truthful(a) /\ Awaits(After(a)) /\ requests = <<>>
           /\ answers' = <<>> /\ facts' = None /\ UNCHANGED <<worker, requests, expected, seen>>
           /\ a.status \in {"changed", "unchanged", "failed"}
           /\ a.status = "changed" => a.content # None
           /\ session' # None /\ session'.captures = session.captures
           /\ session'.previous = After(a)
           /\ session'.successes = IF a.status = "failed" THEN session.successes
                                   ELSE session.successes + 1
           /\ failures' = 0
           /\ IF a.status = "changed" /\ ~AlreadyPublished(a.content)
              THEN phase' = "publishing" /\ batch' = a.content
              ELSE phase' = "polling" /\ batch' = None
<1>1. TypeOK /\ session # None /\ session.successes < session.captures
  BY DEF ReceiveAnswer, WatchInvariant
<1>2. /\ session \in Sessions /\ session.captures \in 0..MaxCaptures /\ MaxCaptures \in Nat
      /\ session.successes \in 0..MaxCaptures /\ session.previous \in OrNone(Contents)
  BY <1>1, RecordFacts
<1>3. Answered /\ answers # <<>> /\ answers \in Seq(Answers)
  BY <1>1 DEF ReceiveAnswer, WatchInvariant, Requested, Working, Lost, TypeOK
<1>4. PICK a \in Answers : a = Head(answers) /\ a = answers[1]
  BY <1>3 DEF Answered
<1>5. Truthful(a) /\ Awaits(After(a)) /\ requests = <<>>
  BY <1>3, <1>4 DEF Answered
<1>6. answers' = <<>> /\ facts' = None /\ UNCHANGED <<worker, requests, expected, seen>>
  BY <1>3 DEF ReceiveAnswer, Answered
<1>7. /\ a.status \in {"changed", "unchanged", "failed"} /\ a.content \in OrNone(Contents)
      /\ a.status = "changed" => a.content # None
  BY <1>4 DEF Answers, Acceptable, ReceiveAnswer
<1>8. /\ session' # None /\ session'.captures = session.captures
      /\ session'.previous = After(a)
      /\ session'.successes = IF a.status = "failed" THEN session.successes
                              ELSE session.successes + 1
  <2> DEFINE previous == IF a.status = "changed" THEN a.content ELSE session.previous
             successes == IF a.status = "failed" THEN session.successes
                          ELSE session.successes + 1
  <2>1. previous \in OrNone(Contents) /\ successes \in 0..MaxCaptures
    BY <1>1, <1>2, <1>7
  <2>2. session' = [session EXCEPT !.previous = previous, !.successes = successes]
    BY <1>4 DEF ReceiveAnswer
  <2> HIDE DEF previous, successes
  <2>3. session' \in Sessions /\ session'.captures = session.captures
        /\ session'.previous = previous /\ session'.successes = successes
    BY <1>2, <2>1, <2>2 DEF Sessions
  <2> QED
    BY <2>3 DEF WatchAssumption, After, previous, successes
<1>9. /\ failures' = 0
      /\ IF a.status = "changed" /\ ~AlreadyPublished(a.content)
         THEN phase' = "publishing" /\ batch' = a.content
         ELSE phase' = "polling" /\ batch' = None
  BY <1>4 DEF ReceiveAnswer
<1> QED
  BY <1>5, <1>6, <1>7, <1>8, <1>9

\* The supervisor keeps the invariant: it sends a request only when none is open, and reads an
\* answer only to the one that is.
LEMMA SupervisorKeepsInvariant ==
  ASSUME WatchAssumption, WatchInvariant, Supervises
  PROVE  WatchInvariant'
<1>1. TypeOK /\ TypeOK'
  BY SupervisorTypes DEF WatchInvariant
<1>2. /\ session # None => session \in Sessions /\ session.captures \in 0..MaxCaptures
                           /\ session.successes \in 0..MaxCaptures
      /\ MaxCaptures \in Nat \ {0}
  BY <1>1, RecordFacts
<1>3. CASE LeaveLoop
  BY <1>1, <1>3, SessionGone DEF LeaveLoop, End
<1>4. CASE StartSession
  <2>1. /\ session' = NewSession /\ session' # None /\ worker' = NewWorker
        /\ worker' # Exited /\ phase' = "starting"
        /\ Quiet' /\ UNCHANGED <<batch, failures>> /\ phase = "polling"
    BY <1>4, NewRecords DEF StartSession, MayPoll, Quiet, WatchAssumption
  <2>2. batch = None /\ failures < MaxFailures
    BY <2>1 DEF WatchInvariant
  <2> QED
    BY <1>1, <2>1, <2>2 DEF WatchInvariant, NewWorker
<1>5. CASE AcceptWorker
  <2>1. /\ session = NewSession /\ session # None /\ Quiet /\ worker # Exited
        /\ (Running => worker.step = "reading" /\ worker.sequence = 1 /\ worker.previous = None)
        /\ failures < MaxFailures /\ batch = None
    BY <1>5 DEF AcceptWorker, WatchInvariant
  <2>2. /\ Awaits(session.previous) /\ session.successes <= session.captures
        /\ session.previous = None /\ session.captures < MaxCaptures
    BY <1>2, <2>1 DEF Awaits, NewSession
  <2> QED
    BY <1>1, <1>5, <2>1, <2>2, SendKeepsInvariant DEF AcceptWorker
<1>6. CASE Request
  <2>1. /\ session # None /\ session.captures < MaxCaptures /\ phase = "polling" /\ batch = None
        /\ failures < MaxFailures
    BY <1>2, <1>6 DEF Request, MayPoll, Worn, WatchInvariant
  <2>2. /\ Quiet /\ session.successes <= session.captures /\ Awaits(session.previous)
        /\ (session.previous # None => session.previous = expected)
    BY <2>1 DEF WatchInvariant, LastContent
  <2>3. worker # Exited
    BY <1>2, <2>1, <2>2 DEF Awaits
  <2> QED
    BY <1>1, <1>6, <2>1, <2>2, <2>3, SendKeepsInvariant DEF Request
<1>7. CASE RequestFails
  <2>1. CASE cancelled
    BY <1>1, <1>7, <2>1, SessionGone DEF RequestFails, Failed, End
  <2>2. CASE ~cancelled
    <3>1. failures \in Nat /\ MaxFailures \in Nat
      BY <1>1, RecordFacts DEF TypeOK
    <3>2. /\ DropSession /\ batch' = None /\ failures' = failures + 1
          /\ phase' = IF failures + 1 >= MaxFailures THEN "ended" ELSE "polling"
      BY <1>7, <2>2 DEF RequestFails, Failed
    <3> QED
      BY <1>1, <3>1, <3>2, SessionGone
  <2> QED  BY <2>1, <2>2
<1>8. CASE ReceiveAnswer
  <2>1. CASE cancelled
    BY <1>1, <1>8, <2>1, SessionGone DEF ReceiveAnswer, End
  <2>2. CASE ~cancelled
    <3>1. session # None /\ session.successes < session.captures
          /\ (session.previous # None => session.previous = expected)
      BY <1>8 DEF ReceiveAnswer, WatchInvariant
    <3>2. PICK a \in Answers :
            /\ Truthful(a) /\ Awaits(After(a)) /\ requests = <<>>
            /\ answers' = <<>> /\ facts' = None /\ UNCHANGED <<worker, requests, expected, seen>>
            /\ a.status \in {"changed", "unchanged", "failed"}
            /\ a.status = "changed" => a.content # None
            /\ session' # None /\ session'.captures = session.captures
            /\ session'.previous = After(a)
            /\ session'.successes = IF a.status = "failed" THEN session.successes
                                    ELSE session.successes + 1
            /\ failures' = 0
            /\ IF a.status = "changed" /\ ~AlreadyPublished(a.content)
               THEN phase' = "publishing" /\ batch' = a.content
               ELSE phase' = "polling" /\ batch' = None
      BY <1>8, <2>2, AnswerReceived
    <3>3. session'.captures > 0 /\ session'.successes <= session'.captures
      BY <1>2, <3>1, <3>2
    <3>4. Quiet' /\ Awaits(session.previous)'
      BY <3>2 DEF Quiet, Awaits, Running
    <3>5. session'.previous # None => session'.previous = LastContent'
      BY <3>1, <3>2 DEF After, Truthful, LastContent, AlreadyPublished
    <3>6. phase' = "publishing" => batch' \in seen' /\ batch' # expected' /\ batch' # None
      BY <3>2 DEF Truthful, AlreadyPublished
    <3>7. phase' \in {"polling", "publishing"} /\ (phase' = "publishing" <=> batch' # None)
      BY <3>2
    <3>8. failures' < MaxFailures
      BY <1>1, <3>2, RecordFacts
    <3> QED
      BY <1>1, <3>2, <3>3, <3>4, <3>5, <3>6, <3>7, <3>8 DEF WatchInvariant
  <2> QED  BY <1>1, <2>1, <2>2 DEF TypeOK
<1>9. CASE Publish
  <2>1. /\ expected' = batch /\ phase' = "polling" /\ batch' = None /\ batch # None
        /\ UNCHANGED <<session, failures, worker, requests, answers, facts, seen>>
        /\ session # None /\ failures < MaxFailures
    BY <1>9 DEF Publish, wire, WatchInvariant
  <2>2. /\ session.captures > 0 /\ session.successes <= session.captures
        /\ Quiet /\ Awaits(session.previous)
        /\ session.previous # None => session.previous = batch
    BY <1>9, <2>1 DEF Publish, WatchInvariant, LastContent
  <2>3. Quiet' /\ Awaits(session.previous)'
    BY <2>1, <2>2 DEF Quiet, Awaits, Running
  <2> QED
    BY <1>1, <2>1, <2>2, <2>3 DEF WatchInvariant, LastContent
<1>10. CASE PublishEnds
  BY <1>1, <1>10, SessionGone DEF PublishEnds, End
<1> QED
  BY <1>3, <1>4, <1>5, <1>6, <1>7, <1>8, <1>9, <1>10 DEF Supervises

-----------------------------------------------------------------------------
(* The worker's steps, and the world's. *)

\* While the supervisor waits, it is enough to say where the request is now.
LEMMA ExchangeKeepsInvariant ==
  ASSUME WatchInvariant, TypeOK', phase = "waiting",
         UNCHANGED <<workspace, phase, expected, session, batch, failures, seen>>,
         (Requested \/ Working \/ Answered \/ Lost)'
  PROVE  WatchInvariant'
BY DEF WatchInvariant

\* The fields of the worker's next record, and of its answers.
LEMMA StepFields ==
  ASSUME WatchAssumption, TypeOK, Running, NEW step \in WorkerSteps,
         worker' = [worker EXCEPT !.step = step]
  PROVE  /\ worker' \in Workers /\ worker'.step = step /\ worker'.sequence = worker.sequence
         /\ worker'.previous = worker.previous /\ worker'.captured = worker.captured
<1>1. worker \in Workers
  BY RecordFacts
<1> QED
  BY <1>1 DEF Workers

\* What is in the record of a worker that has its answer.
LEMMA AnswerFields ==
  ASSUME WatchAssumption, TypeOK, Running, NEW a \in Answers, NEW p \in OrNone(Contents)
  PROVE  /\ LET w == [Answering(a) EXCEPT !.previous = p]
            IN /\ w \in Workers /\ w.step = "answering" /\ w.answer = a
               /\ w.sequence = worker.sequence /\ w.previous = p
         /\ LET w == Answering(a)
            IN /\ w \in Workers /\ w.step = "answering" /\ w.answer = a
               /\ w.sequence = worker.sequence /\ w.previous = worker.previous
<1>1. worker \in Workers
  BY RecordFacts
<1> QED
  BY <1>1 DEF Workers, WorkerSteps, Answering, OrNone

\* The worker keeps the invariant: it answers the request it read, once.
LEMMA WorkerKeepsInvariant ==
  ASSUME WatchAssumption, WatchInvariant, Works
  PROVE  WatchInvariant'
<1>1. TypeOK /\ TypeOK' /\ Running /\ worker \in Workers
  <2>1. Running
    BY DEF Works, WorkerConnects, WorkerReads, WorkerCaptures, WorkerAnalyzes, WorkerFails,
           WorkerAnswers
  <2> QED
    BY <2>1, WorkerTypes, RecordFacts DEF WatchInvariant
<1>2. UNCHANGED <<phase, expected, session, batch, failures, seen, head, workspace>>
  BY DEF Works, WorkerConnects, WorkerReads, WorkerCaptures, WorkerAnalyzes, WorkerFails,
         WorkerAnswers, supervisor
<1>3. worker # None /\ worker # Exited /\ \A w \in Workers : w # None /\ w # Exited
  BY <1>1, RecordFacts DEF Running
<1>4. session # None => session.captures \in 0..MaxCaptures /\ MaxCaptures \in Nat
  BY <1>1, RecordFacts
<1>5. CASE WorkerConnects
  <2>1. /\ worker' = [worker EXCEPT !.step = "reading"] /\ worker.step = "connecting"
        /\ UNCHANGED <<requests, answers, facts>>
    BY <1>5 DEF WorkerConnects, wire
  <2>2. phase = "starting"
    BY <1>1, <1>3, <2>1 DEF WatchInvariant, Awaits, Requested, Working, Answered, Lost, TypeOK, Phases
  <2>3. /\ worker' \in Workers /\ worker'.step = "reading" /\ worker'.sequence = worker.sequence
        /\ worker'.previous = worker.previous
    BY <1>1, <2>1, StepFields DEF WorkerSteps
  <2> QED
    BY <1>1, <1>2, <1>3, <2>1, <2>2, <2>3 DEF WatchInvariant, Quiet
<1>6. CASE WorkerReads
  <2>1. requests # <<>> /\ worker.step = "reading" /\ requests' = Tail(requests)
        /\ UNCHANGED <<answers, facts>>
    BY <1>6 DEF WorkerReads
  <2>2. phase = "waiting" /\ Requested
    BY <1>1, <1>3, <2>1 DEF WatchInvariant, Quiet, Requested, Working, Answered, Lost, TypeOK, Phases
  <2>3. Head(requests) = session.captures /\ requests' = <<>>
    BY <2>1, <2>2 DEF Requested
  <2>4. worker' = [worker EXCEPT !.step = "capturing"]
    BY <1>6, <2>2, <2>3 DEF WorkerReads, Requested
  <2>5. /\ worker' \in Workers /\ worker'.step = "capturing" /\ worker'.sequence = worker.sequence
        /\ worker'.previous = worker.previous
    BY <1>1, <2>4, StepFields DEF WorkerSteps
  <2>6. Working'
    BY <1>2, <1>3, <2>1, <2>2, <2>3, <2>5 DEF Requested, Working, Running
  <2> QED
    BY <1>1, <1>2, <2>2, <2>6, ExchangeKeepsInvariant
<1>7. ASSUME worker.step \in {"capturing", "analyzing"},
             NEW a \in Answers, Truthful(a)',
             worker' \in Workers, worker'.step = "answering", worker'.answer = a,
             worker'.sequence = worker.sequence, worker'.previous = After(a),
             UNCHANGED <<requests, answers>>
      PROVE  WatchInvariant'
  <2>1. phase = "waiting" /\ Working
    BY <1>1, <1>7, BusyWorker
  <2>2. Working'
    BY <1>2, <1>3, <1>7, <2>1 DEF Working, Running, After, WatchAssumption
  <2> QED
    BY <1>1, <1>2, <2>1, <2>2, ExchangeKeepsInvariant
<1>8. CASE WorkerCaptures
  <2>1. /\ phase = "waiting" /\ Working /\ session # None /\ worker.step = "capturing"
        /\ UNCHANGED <<requests, answers, facts>>
    BY <1>1, <1>8, BusyWorker DEF WorkerCaptures, wire
  <2>2. /\ worker.sequence = session.captures /\ worker.previous = session.previous /\ facts = None
        /\ workspace \in seen /\ workspace \in Contents /\ requests = <<>> /\ answers = <<>>
    BY <1>1, <2>1 DEF Working, WatchInvariant, TypeOK
  <2>3. CASE workspace = worker.previous
    <3>1. PICK a \in Answers :
            /\ a = Answer("unchanged", workspace) /\ a.sequence = session.captures
            /\ a.status = "unchanged" /\ a.content = workspace
      BY <1>1, <2>2, WorkerRecords DEF Answer
    <3>2. worker' = Answering(a)
      BY <1>8, <2>3, <3>1 DEF WorkerCaptures
    <3>3. Truthful(a)' /\ After(a) = session.previous
      BY <1>2, <2>1, <2>2, <2>3, <3>1 DEF Truthful, After
    <3>4. /\ worker' \in Workers /\ worker'.step = "answering" /\ worker'.answer = a
          /\ worker'.sequence = worker.sequence /\ worker'.previous = worker.previous
      BY <1>1, <3>2, AnswerFields DEF OrNone
    <3> QED
      BY <1>7, <2>1, <2>2, <3>3, <3>4
  <2>4. CASE workspace # worker.previous
    <3>1. worker' = [worker EXCEPT !.step = "analyzing", !.captured = workspace]
      BY <1>8, <2>4 DEF WorkerCaptures
    <3>2. /\ worker' \in Workers /\ worker'.step = "analyzing" /\ worker'.captured = workspace
          /\ worker'.sequence = worker.sequence /\ worker'.previous = worker.previous
      BY <1>1, <2>2, <3>1 DEF Workers, WorkerSteps, OrNone
    <3>3. Working'
      BY <1>2, <1>3, <2>1, <2>2, <3>2 DEF Working, Running
    <3> QED
      BY <1>1, <1>2, <2>1, <3>3, ExchangeKeepsInvariant
  <2> QED  BY <2>3, <2>4
<1>9. CASE WorkerAnalyzes
  <2>1. /\ phase = "waiting" /\ Working /\ session # None /\ worker.step = "analyzing"
        /\ UNCHANGED <<requests, answers>> /\ facts' = worker.captured
    BY <1>1, <1>9, BusyWorker DEF WorkerAnalyzes
  <2>2. worker.sequence = session.captures /\ worker.captured \in seen /\ worker.captured \in Contents
    BY <1>1, <2>1 DEF Working, TypeOK
  <2>3. PICK a \in Answers :
          /\ a = Answer("changed", worker.captured) /\ a.sequence = session.captures
          /\ a.status = "changed" /\ a.content = worker.captured
    BY <1>1, <2>2, WorkerRecords DEF Answer
  <2>4. worker' = [Answering(a) EXCEPT !.previous = worker.captured]
    BY <1>9, <2>3 DEF WorkerAnalyzes
  <2>5. Truthful(a)' /\ After(a) = worker.captured
    BY <1>2, <2>1, <2>2, <2>3 DEF Truthful, After
  <2>6. /\ worker' \in Workers /\ worker'.step = "answering" /\ worker'.answer = a
        /\ worker'.sequence = worker.sequence /\ worker'.previous = worker.captured
    BY <1>1, <2>2, <2>4, AnswerFields DEF OrNone
  <2> QED
    BY <1>7, <2>1, <2>2, <2>5, <2>6
<1>10. CASE WorkerFails
  <2>1. /\ phase = "waiting" /\ Working /\ session # None /\ worker.step \in {"capturing", "analyzing"}
        /\ UNCHANGED <<requests, answers>> /\ facts' = None
    BY <1>1, <1>10, BusyWorker DEF WorkerFails
  <2>2. worker.sequence = session.captures /\ worker.previous = session.previous
    BY <2>1 DEF Working
  <2>3. PICK a \in Answers :
          /\ a = Answer("failed", None) /\ a.sequence = session.captures
          /\ a.status = "failed" /\ a.content = None
    BY <1>1, <2>2, WorkerRecords DEF Answer
  <2>4. worker' = Answering(a)
    BY <1>10, <2>3 DEF WorkerFails
  <2>5. Truthful(a)' /\ After(a) = session.previous
    BY <1>2, <2>1, <2>3 DEF Truthful, After
  <2>6. /\ worker' \in Workers /\ worker'.step = "answering" /\ worker'.answer = a
        /\ worker'.sequence = worker.sequence /\ worker'.previous = worker.previous
    BY <1>1, <2>2, <2>4, AnswerFields DEF OrNone
  <2> QED
    BY <1>7, <2>1, <2>2, <2>5, <2>6
<1>11. CASE WorkerAnswers
  <2>1. /\ phase = "waiting" /\ Working /\ session # None /\ worker.step = "answering"
        /\ UNCHANGED <<requests, facts>> /\ answers' = Append(answers, worker.answer)
    BY <1>1, <1>11, BusyWorker DEF WorkerAnswers
  <2>6. PICK a \in Answers : a = worker.answer
    BY <1>1, <2>1, RecordFacts DEF Working, OrNone
  <2>2. /\ worker.sequence = session.captures /\ Truthful(a) /\ worker.previous = After(a)
        /\ requests = <<>> /\ answers = <<>>
    BY <2>1, <2>6 DEF Working
  <2>3. answers' = <<a>>
    BY <2>1, <2>2, <2>6
  <2>4. Awaits(After(a))'
    <3>1. CASE worker.sequence = MaxCaptures
      BY <1>2, <1>11, <2>2, <3>1 DEF WorkerAnswers, Awaits, Running
    <3>2. CASE worker.sequence # MaxCaptures
      <4>1. worker' = [worker EXCEPT !.step = "reading", !.sequence = worker.sequence + 1,
                                     !.answer = None]
        BY <1>11, <3>2 DEF WorkerAnswers
      <4>2. worker'.step = "reading" /\ worker'.sequence = worker.sequence + 1
            /\ worker'.previous = worker.previous /\ worker' \in Workers
        BY <1>1, <3>2, <4>1, WorkerRecords DEF Workers
      <4> QED
        BY <1>2, <1>3, <2>2, <4>2 DEF Awaits, After
    <3> QED  BY <3>1, <3>2
  <2>5. Answered'
    BY <1>2, <2>1, <2>2, <2>3, <2>4 DEF Answered, Truthful, After
  <2> QED
    BY <1>1, <1>2, <2>1, <2>5, ExchangeKeepsInvariant
<1> QED
  BY <1>5, <1>6, <1>8, <1>9, <1>10, <1>11 DEF Works

\* The worker may die, the workspace and the head may change and the watch may be
\* cancelled at any moment.
LEMMA WorldKeepsInvariant ==
  ASSUME WatchAssumption, WatchInvariant, WorkerDies \/ Edit \/ OtherPublishes \/ Cancel
  PROVE  WatchInvariant'
<1>1. TypeOK
  BY DEF WatchInvariant
<1>2. CASE WorkerDies
  <2>1. TypeOK' /\ worker' = None
    BY <1>2, WorkerTypes DEF WorkerDies
  <2>2. UNCHANGED <<workspace, head, expected, phase, session, batch, failures, requests, answers,
                    facts, seen>>
    BY <1>2 DEF WorkerDies, supervisor, wire
  <2>3. phase = "waiting" => (Answered \/ Lost)'
    <3>1. ASSUME phase = "waiting", Answered PROVE Answered'
      BY <2>1, <2>2, <3>1 DEF Answered, Truthful, After, Awaits, Running, WatchAssumption
    <3>2. ASSUME phase = "waiting", ~Answered PROVE Lost'
      BY <2>1, <2>2, <3>2 DEF WatchInvariant, Requested, Working, Lost
    <3> QED  BY <3>1, <3>2
  <2>4. session # None /\ phase \in {"polling", "publishing"} => Awaits(session.previous)'
    BY <2>1, <2>2 DEF Awaits, Running, WatchAssumption
  <2>5. worker' # Exited /\ ~Running'
    BY <2>1 DEF Running, WatchAssumption
  <2>6. phase = "starting" => (session = NewSession /\ Quiet /\ worker # Exited)'
    BY <2>2, <2>5 DEF WatchInvariant, Quiet, NewSession
  <2> QED
    BY <2>1, <2>2, <2>3, <2>4, <2>5, <2>6 DEF WatchInvariant, Quiet, LastContent
<1>3. CASE Edit
  <2>1. /\ workspace' \in Contents /\ seen' = seen \cup {workspace'}
        /\ UNCHANGED <<head, supervisor, cancelled, worker, wire>>
    BY <1>3 DEF Edit
  <2>2. TypeOK'
    BY <1>1, <2>1 DEF TypeOK, supervisor, wire
  <2>3. UNCHANGED <<phase, expected, session, batch, failures, worker, requests, answers, facts>>
    BY <2>1 DEF supervisor, wire
  <2>4. \A a : Truthful(a) => (a.sequence = session'.captures
                              /\ (a.status = "changed" => a.content \in seen' /\ facts' = a.content)
                              /\ (a.status = "unchanged" => a.content \in seen' /\ a.content = session'.previous
                                                             /\ facts' = None)
                              /\ (a.status = "failed" => a.content = None /\ facts' = None))
    BY <2>1, <2>3 DEF Truthful
  <2>5. /\ Requested => Requested'
        /\ Working => Working'
        /\ Answered => Answered'
        /\ Lost => Lost'
    BY <2>1, <2>3, <2>4 DEF Requested, Working, Answered, Lost, Awaits, Running, After, Truthful
  <2> QED
    BY <2>1, <2>2, <2>3, <2>5 DEF WatchInvariant, Quiet, Awaits, Running, LastContent
<1>4. CASE OtherPublishes \/ Cancel
  <2>1. /\ UNCHANGED <<workspace, seen, supervisor, worker, wire>>
        /\ head' \in OrNone(Contents) /\ cancelled' \in BOOLEAN
    BY <1>1, <1>4 DEF OtherPublishes, Cancel, OrNone, TypeOK
  <2>2. TypeOK'
    BY <1>1, <2>1 DEF TypeOK, supervisor, wire
  <2> QED
    BY <2>1, <2>2 DEF WatchInvariant, Requested, Working, Answered, Lost, Quiet, Awaits, Running,
                      After, Truthful, LastContent, supervisor, wire
<1> QED
  BY <1>2, <1>3, <1>4

-----------------------------------------------------------------------------
(* The theorems. *)

\* No session yet.
LEMMA WatchInvariantInit == WatchAssumption /\ Init => WatchInvariant
<1> SUFFICES ASSUME WatchAssumption, Init
             PROVE  WatchInvariant
  OBVIOUS
<1>1. 0 \in 0..MaxFailures /\ 0 < MaxFailures
  BY DEF WatchAssumption
<1>2. requests \in Seq(1..MaxCaptures) /\ answers \in Seq(Answers)
  BY DEF Init
<1>3. TypeOK
  BY <1>1, <1>2 DEF Init, TypeOK, OrNone, Phases
<1> QED
  BY <1>1, <1>3 DEF Init, WatchInvariant, Quiet

\* Every step keeps the invariant.
LEMMA WatchInvariantStep == WatchAssumption /\ WatchInvariant /\ [Next]_vars => WatchInvariant'
<1> SUFFICES ASSUME WatchAssumption, WatchInvariant, [Next]_vars
             PROVE  WatchInvariant'
  OBVIOUS
<1>1. CASE UNCHANGED vars
  BY <1>1 DEF vars, supervisor, wire, WatchInvariant, TypeOK, Requested, Working, Answered, Lost,
              Quiet, Awaits, Running, After, Truthful, LastContent
<1> QED
  BY <1>1, SupervisorKeepsInvariant, WorkerKeepsInvariant, WorldKeepsInvariant DEF Next

\* The invariant, with the types of the model: where the one request is and what each
\* side remembers, in every state.
THEOREM WatchInvariantHolds ==
  ASSUME WatchAssumption
  PROVE  Spec => []WatchInvariant
<1>1. Init => WatchInvariant
  BY WatchInvariantInit
<1>2. WatchInvariant /\ [Next]_vars => WatchInvariant'
  BY WatchInvariantStep
<1> QED
  BY <1>1, <1>2, PTL DEF Spec

\* Session::capture and the worker's loop: the two processes never disagree on whose
\* turn it is, on the number of the request and on the capture they compare with.
THEOREM PeersAgreeHolds ==
  ASSUME WatchAssumption
  PROVE  Spec => []PeersAgree
<1>1. WatchInvariant => PeersAgree
  <2> SUFFICES ASSUME WatchInvariant PROVE PeersAgree
    OBVIOUS
  <2>0. TypeOK
    BY DEF WatchInvariant
  <2>1. Between => /\ Quiet /\ Awaits(session.previous)
    BY DEF Between, WatchInvariant
  <2>2. worker = Exited => ~Running
    BY DEF Running
  <2>3. ASSUME phase = "waiting"
        PROVE  /\ Len(requests) + Len(answers) <= 1
               /\ \A i \in DOMAIN requests : requests[i] = session.captures
               /\ \A i \in DOMAIN answers : Acceptable(answers[i])
               /\ Running /\ answers = <<>> => worker.sequence = session.captures
               /\ worker = Exited => answers # <<>>
    <3>1. CASE Requested
      BY <3>1, <2>2 DEF Requested
    <3>2. CASE Working
      BY <3>2, <2>2 DEF Working
    <3>3. CASE Lost
      <4>1. worker = None /\ answers = <<>> /\ worker # Exited /\ ~Running
        BY <3>3 DEF Lost, Running, WatchAssumption
      <4>2. CASE requests = <<>>
        BY <4>1, <4>2
      <4>3. CASE requests = <<session.captures>>
        BY <4>1, <4>3
      <4> QED  BY <3>3, <4>2, <4>3 DEF Lost
    <3>4. CASE Answered
      <4>1. /\ answers \in Seq(Answers) /\ Len(answers) = 1 /\ answers[1] \in Answers
            /\ requests = <<>> /\ DOMAIN answers = {1} /\ answers # <<>>
        <5>1. answers \in Seq(Answers) /\ Len(answers) = 1 /\ requests = <<>>
          BY <2>0, <3>4 DEF Answered, TypeOK
        <5>2. 1 \in 1..Len(answers) /\ DOMAIN answers = 1..1 /\ 1..1 = {1}
          BY <5>1, LenProperties
        <5>3. answers[1] \in Answers
          BY <5>1, <5>2, ElementOfSeq
        <5>4. answers # <<>>
          BY <5>1, EmptySeq
        <5> QED  BY <5>1, <5>2, <5>3, <5>4
      <4>2. Acceptable(answers[1])
        BY <2>0, <3>4, <4>1 DEF Answered, Truthful, Acceptable, TypeOK, Answers, WatchAssumption
      <4> QED
        BY <4>1, <4>2
    <3> QED
      BY <2>3, <3>1, <3>2, <3>3, <3>4 DEF WatchInvariant
  <2>4. Between /\ worker = Exited => Worn
    <3>1. session # None => session.captures \in Nat
      BY <2>0, RecordFacts
    <3> QED  BY <2>1, <3>1 DEF Awaits, Worn, Between, WatchAssumption
  <2>5. /\ session = None => worker = None /\ Quiet
        /\ phase = "ended" => session = None
    BY DEF WatchInvariant
  <2> QED
    BY <2>1, <2>3, <2>4, <2>5 DEF PeersAgree, Quiet, Awaits
<1> QED
  BY <1>1, WatchInvariantHolds, PTL

\* An answer `unchanged` may be trusted: the capture it is about is the head's, or the
\* batch's that is about to be.
THEOREM PreviousIsPublishedHolds ==
  ASSUME WatchAssumption
  PROVE  Spec => []PreviousIsPublished
<1>1. WatchInvariant => PreviousIsPublished
  BY DEF WatchInvariant, PreviousIsPublished, Between
<1> QED
  BY <1>1, WatchInvariantHolds, PTL

\* Only a publication leads from publishing back to polling.
LEMMA OnlyPublish == [Next]_vars /\ phase = "publishing" /\ phase' = "polling" => Publish
BY DEF Next, Supervises, LeaveLoop, StartSession, AcceptWorker, Request, RequestFails,
       ReceiveAnswer, PublishEnds, End, SendRequest, MayPoll, Works, WorkerConnects,
       WorkerReads, WorkerCaptures, WorkerAnalyzes, WorkerFails, WorkerAnswers, WorkerDies,
       Edit, OtherPublishes, Cancel, supervisor, vars

\* Every success leaves the watch's head at something the workspace contained after
\* the request of that iteration was written.
THEOREM AnswersAreFreshHolds ==
  ASSUME WatchAssumption
  PROVE  Spec => AnswersAreFresh
<1>1. WatchInvariant /\ [Next]_vars => [Fresh]_vars
  <2> SUFFICES ASSUME WatchInvariant, [Next]_vars, Succeeds
               PROVE  expected' \in seen
    BY DEF Fresh
  <2>1. CASE phase = "publishing" /\ phase' = "polling"
    <3>1. batch \in seen
      BY <2>1 DEF WatchInvariant
    <3>2. Publish
      BY <2>1, OnlyPublish
    <3> QED
      BY <3>1, <3>2 DEF Publish
  <2>2. CASE /\ phase = "waiting" /\ phase' = "polling" /\ session' # None
             /\ session'.successes > session.successes
    <3>1. ReceiveAnswer /\ ~cancelled
      BY <2>2 DEF Next, Supervises, LeaveLoop, StartSession, AcceptWorker, Request, RequestFails,
           Failed, DropSession, Publish, ReceiveAnswer, PublishEnds, End, SendRequest, MayPoll,
           Works, WorkerConnects, WorkerReads, WorkerCaptures, WorkerAnalyzes, WorkerFails,
           WorkerAnswers, WorkerDies, Edit, OtherPublishes, Cancel, supervisor, vars
    <3>2. PICK a \in Answers :
            /\ Truthful(a) /\ expected' = expected
            /\ a.status \in {"changed", "unchanged", "failed"}
            /\ a.status = "changed" => a.content # None
            /\ session'.successes = IF a.status = "failed" THEN session.successes
                                    ELSE session.successes + 1
            /\ a.status = "changed" => AlreadyPublished(a.content)
      BY <2>2, <3>1, AnswerReceived
    <3>3. session.successes \in Nat
      BY <2>2, RecordFacts DEF WatchInvariant
    <3>4. a.status # "failed"
      BY <2>2, <3>2, <3>3
    <3>5. a.content \in Contents /\ (session.previous # None => session.previous = expected)
      BY <2>2, <3>2, <3>4 DEF WatchInvariant, Truthful, TypeOK
    <3> QED
      BY <3>2, <3>4, <3>5 DEF Truthful, AlreadyPublished, WatchAssumption
  <2> QED  BY <2>1, <2>2 DEF Succeeds
<1> QED
  BY <1>1, WatchInvariantHolds, PTL DEF Spec, AnswersAreFresh

\* AlreadyPublished: nothing is published that the head already shows, whatever
\* others publish meanwhile.
THEOREM NoRepublishHolds ==
  ASSUME WatchAssumption
  PROVE  Spec => NoRepublish
<1>1. WatchInvariant /\ [Next]_vars => [New]_vars
  <2> SUFFICES ASSUME WatchInvariant, [Next]_vars, phase = "publishing", phase' = "polling"
               PROVE  batch # head
    BY DEF New
  <2>1. batch # expected
    BY DEF WatchInvariant
  <2>2. Publish
    BY OnlyPublish
  <2> QED
    BY <2>1, <2>2 DEF Publish
<1> QED
  BY <1>1, WatchInvariantHolds, PTL DEF Spec, NoRepublish

\* All of it: both processes agree on what was captured and published, an iteration shows what
\* the workspace contained after its request, and nothing is published twice.
THEOREM WatchPublishesFreshHolds ==
  ASSUME WatchAssumption
  PROVE  Spec => WatchPublishesFresh
<1>1. WatchInvariant /\ PeersAgree /\ PreviousIsPublished => WatchIsConsistent
  BY DEF WatchIsConsistent
<1>2. [Fresh]_vars /\ [New]_vars => [FreshAndNew]_vars
  BY DEF FreshAndNew
<1> QED
  BY <1>1, <1>2, WatchInvariantHolds, PeersAgreeHolds, PreviousIsPublishedHolds, AnswersAreFreshHolds,
     NoRepublishHolds, PTL DEF WatchPublishesFresh, AnswersAreFresh, NoRepublish
=============================================================================
