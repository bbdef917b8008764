----------------------------- MODULE MCProgress ------------------------------
(***************************************************************************)
(* What must eventually happen in the components that wait for others, for *)
(* TLC: one behaviour runs one component (see MCComponents).               *)
(***************************************************************************)
EXTENDS Naturals, Sequences, RequestHandlers

CONSTANTS None, Exited, Unlimited   \* model values: no value, and two of Watch

VARIABLES component,
          r1, r2, r3, r4, r5, r6, r7, r8, r9, r10, r11, r12, r13, r14

vars == <<component,
          r1, r2, r3, r4, r5, r6, r7, r8, r9, r10, r11, r12, r13, r14>>

\* Registers that a component has no use for.
Spare10 == <<r11, r12, r13, r14>>
Spare9 == <<r10, Spare10>>
Spare4 == <<r5, r6, r7, r8, r9, Spare9>>
Idle10 == r11 = None /\ r12 = None /\ r13 = None /\ r14 = None
Idle9 == r10 = None /\ Idle10
Idle4 == r5 = None /\ r6 = None /\ r7 = None /\ r8 = None /\ r9 = None /\ Idle9

-----------------------------------------------------------------------------
(* What the components are given. *)

Clients == {"c", "d"}
Requests == {"a", "b"}

\* Handlers whose steps are cut or fail when they are stopped, and one that no
\* control stops.
SlowHandlers == [route \in {"graph_analysis", "compiler_flow", "snapshot"} |-> AllHandlers[route]]

ThreeCandidates == {[name |-> 1, id |-> 3, size |-> 2], [name |-> 2, id |-> 1, size |-> 2],
                    [name |-> 3, id |-> 4, size |-> 5]}
NamePrefixes == {{1, 2, 3}, {1, 2}}

-----------------------------------------------------------------------------
(* The components. *)

Watching == INSTANCE Watch WITH
  Contents <- {"a", "b", "x"}, Broken <- {"x"}, None <- None, Exited <- Exited,
  Unlimited <- Unlimited, Iterations <- Unlimited, MaxCaptures <- 2, MaxFailures <- 2,
  Flaky <- FALSE, workspace <- r1, head <- r2, phase <- r3, expected <- r4, session <-
  r5, batch <- r6, failures <- r7, iterations <- r8, cancelled <- r9, worker <- r10,
  requests <- r11, answers <- r12, facts <- r13, seen <- r14

Counting == INSTANCE Watch WITH
  Contents <- {"a", "x"}, Broken <- {"x"}, None <- None, Exited <- Exited, Unlimited <-
  Unlimited, Iterations <- 2, MaxCaptures <- 2, MaxFailures <- 2, Flaky <- TRUE,
  workspace <- r1, head <- r2, phase <- r3, expected <- r4, session <- r5, batch <- r6,
  failures <- r7, iterations <- r8, cancelled <- r9, worker <- r10, requests <- r11,
  answers <- r12, facts <- r13, seen <- r14

Events == INSTANCE JobEvents WITH
  Clients <- Clients, None <- None, MaxEvents <- 2, MaxStreams <- 1, MaxEmitted <- 4,
  MaxFaults <- 1, job <- r1, journal <- r2, pending <- r3, stop <- r4, thread <- r5, permits <- r6,
  after <- r7, received <- r8, emitted <- r9, faults <- r10

Serving == INSTANCE Server WITH
  Requests <- Requests, MaxQueries <- 1, Handlers <- SlowHandlers, Defects <- {},
  request <- r1, handler <- r2, answer <- r3, task <- r4, live <- r5, permits <- r6,
  pinned <- r7, reviewed <- r8, released <- r9

Walking == INSTANCE SearchPages WITH
  Candidates <- ThreeCandidates, Queries <- NamePrefixes, MaxLimit <- 2, ReadBudget <-
  6, ResponseBudget <- 4, Lifetime <- 2, MaxTime <- 1, MaxEpoch <- 1, data <- r1, epoch
  <- r2, now <- r3, walk <- r4

-----------------------------------------------------------------------------
Init ==
  \/ component = "watch" /\ Watching!Init
  \/ component = "counted" /\ Counting!Init
  \/ component = "events" /\ Events!Init /\ Idle10
  \/ component = "requests" /\ Serving!Init /\ Idle9
  \/ component = "walk" /\ Walking!Init /\ Idle4

StepWatching == component = "watch" /\ Watching!Next /\ UNCHANGED component
StepCounting == component = "counted" /\ Counting!Next /\ UNCHANGED component
StepEvents == component = "events" /\ Events!Next /\ UNCHANGED <<component, Spare10>>
StepServing == component = "requests" /\ Serving!Next /\ UNCHANGED <<component, Spare9>>
StepWalking == component = "walk" /\ Walking!Next /\ UNCHANGED <<component, Spare4>>

Next ==
  \/ StepWatching \/ StepCounting \/ StepEvents \/ StepServing \/ StepWalking

Is(c) == component = c
Rest14 == UNCHANGED component
Rest10 == UNCHANGED <<component, Spare10>>
Rest9 == UNCHANGED <<component, Spare9>>
Rest4 == UNCHANGED <<component, Spare4>>

\* The fairness of each component's own specification; the conjuncts of the other
\* components are disabled for ever.
WatchFairness ==
  /\ WF_vars(Is("watch") /\ Watching!Supervises /\ Rest14)
  /\ WF_vars(Is("watch") /\ Watching!Works /\ Rest14)
  /\ WF_vars(Is("counted") /\ Counting!Supervises /\ Rest14)
  /\ WF_vars(Is("counted") /\ Counting!Works /\ Rest14)
EventFairness ==
  /\ WF_vars(Is("events") /\ Events!RenameJournal /\ Rest10)
  /\ WF_vars(Is("events") /\ Events!Show /\ Rest10)
  /\ WF_vars(Is("events") /\ (Events!Begin \/ Events!LoseJob) /\ Rest10)
  /\ WF_vars(Is("events") /\ Events!Progress /\ Rest10)
  /\ WF_vars(Is("events") /\ Events!Finish /\ Rest10)
  /\ WF_vars(Is("events") /\ Events!Exit /\ Rest10)
  /\ WF_vars(Is("events") /\ Events!Restart /\ Rest10)
  /\ \A c \in Clients :
       WF_vars(Is("events") /\ (Events!Connect(c) \/ Events!Deliver(c) \/ Events!EndStream(c)) /\ Rest10)
ServerFairness ==
  \A r \in Requests :
    /\ WF_vars(Is("requests") /\ Serving!Expire(r) /\ Rest9)
    /\ WF_vars(Is("requests") /\ Serving!Timeout(r) /\ Rest9)
    /\ WF_vars(Is("requests") /\ Serving!Receive(r) /\ Rest9)
    /\ WF_vars(Is("requests") /\ (Serving!Cut(r) \/ Serving!StopStep(r)) /\ Rest9)
WalkFairness ==
  WF_vars(Is("walk") /\ (Walking!Search \/ Walking!SearchRefused) /\ Rest4)

Spec ==
  Init /\ [][Next]_vars /\ WatchFairness /\ EventFairness /\ ServerFairness /\ WalkFairness

-----------------------------------------------------------------------------
(* Properties. *)

\* watch: a cancellation ends the watch whatever the worker does, and --iterations
\* does whatever fails.
WatchEnds ==
  /\ (Is("watch") /\ Watching!Cancelled) ~> (Is("watch") => Watching!Over)
  /\ Is("counted") ~> (Is("counted") => Counting!Over)

\* watch: a workspace that can be analysed and is left alone is what the head shows
\* in the end, unless the watch ends.
WatchCatchesUp ==
  \A c \in {"a", "b"} :
    (<>[](Is("watch") => Watching!Contains(c)))
      => []<>(Is("watch") => Watching!Over \/ Watching!Shows(c))

\* scheduler and server, job events: a job that is executed ends, also when an update of
\* its progress fails, and who follows it learns the end, unless the job leaves the history
\* first.  Only a failed update of next_job leaves a job without an end.
EventsReachTheEnd ==
  /\ \A c \in Clients :
       (Is("events") /\ Events!HasEnded) ~> (Is("events") => Events!KnowsOrGone(c))
  /\ (Is("events") /\ Events!WorkIsOn) ~> (Is("events") => Events!WorkHasEnded)

\* server, perform: every request is answered, and the permit of a task whose steps
\* a control stops comes back, though nobody waits for it any more.
RequestsEnd ==
  \A r \in Requests :
    /\ (Is("requests") /\ Serving!Waiting(r)) ~> (Is("requests") => ~Serving!Waiting(r))
    /\ (Is("requests") /\ Serving!Alive(r) /\ Serving!Stoppable(r))
         ~> (Is("requests") => ~Serving!Alive(r))

\* query, search: a walk along the cursors comes to an end, unless the client turns
\* elsewhere for ever.
WalksEnd ==
  \/ []<><<Is("walk") /\ Walking!Turn>>_vars
  \/ []<>(Is("walk") => ~Walking!Open)
=============================================================================
