------------------------------ MODULE JobEvents ------------------------------
(***************************************************************************)
(* The events of a job and the streams that replay them: the log a job     *)
(* keeps (crates/scheduler/src/lib.rs, `event`, `update`, `persist` and    *)
(* recovery) and GET /jobs/{id}/events (crates/server/src/lib.rs,          *)
(* `job_events`).  A client that loses its stream comes back with the      *)
(* Last-Event-ID header, perhaps to a service that was restarted.          *)
(*                                                                         *)
(* One job, from its submission.  A change of the job is staged on a copy, *)
(* renamed into the journal and shown, under the mutex that every reader   *)
(* takes; what a failed write means depends on who makes the change.       *)
(* Changes of the other jobs of the service write this one's record again. *)
(* An event carries its sequence, the status and a timestamp that is       *)
(* different for every event; the stage is left out.                       *)
(***************************************************************************)
EXTENDS Integers, Sequences, SequencesExt, FiniteSets

CONSTANTS
  Clients,
  None,
  MaxEvents,   \* events a job keeps, 32 in the code
  MaxStreams,  \* streams at a time, 8 in the code
  MaxEmitted,  \* bound: changes until which jobs are begun, reported on and withdrawn
  MaxFaults    \* bound: crashes, shutdowns, failed writes, timed-out reads, lost streams

VARIABLES
  job,       \* the record in memory; None while the service is down
  journal,   \* the record in jobs/journal.json
  pending,   \* the change being made: None or [record, renamed, by]
  stop,      \* Inner::stop: "no", or set after an "error" or for a "shutdown"
  thread,    \* the scheduler's thread, as far as this job occupies it
  permits,   \* event_streams
  after,     \* client -> None or the sequence its stream has reached
  received,  \* client -> the events it has got
  emitted, faults

vars == <<job, journal, pending, stop, thread, permits, after, received, emitted, faults>>

Active == {"queued", "running", "cancelling"}
Terminal == {"succeeded", "failed", "cancelled"}
Event(sequence, status, at) == [sequence |-> sequence, status |-> status, at |-> at]
Events == [sequence : Nat \ {0}, status : Active \cup Terminal, at : Nat]
Records == [status : Active \cup Terminal \cup {"gone"}, events : Seq(Events)]
Gone == [status |-> "gone", events |-> <<>>]
\* A change is made by submit or cancel (or by the thread for another job's progress), by
\* `update` in next_job before and after it executes a job, or by `update` in execute.
Makers == {"call", "start", "progress", "finish"}
Changes == [record : Records, renamed : BOOLEAN, by : Makers]
\* "failed": execute has returned the error of a progress update.
AtWork == {"executing", "reporting", "failed"}

\* A log of one event would forget the last sequence number with its only event.
EventsAssumption ==
  /\ IsFiniteSet(Clients) /\ MaxStreams \in Nat /\ MaxEvents \in Nat \ {0, 1}
  /\ None \notin Nat /\ None \notin Records /\ None \notin Changes

TypeOK ==
  /\ job \in Records \cup {None} /\ journal \in Records
  /\ pending \in Changes \cup {None}
  /\ stop \in {"no", "error", "shutdown"}
  /\ thread \in {"idle", "picked", "ended", "off"} \cup AtWork
  /\ permits \in 0..MaxStreams
  /\ after \in [Clients -> Nat \cup {None}] /\ received \in [Clients -> Seq(Events)]
  /\ emitted \in Nat /\ faults \in Nat

\* mutant: numbered by the length of the log.
LengthSequence(events) == Len(events) + 1

NextSequence(events) == IF events = <<>> THEN 1 ELSE Last(events).sequence + 1

\* `event`: the oldest event goes when the log is full.
WithEvent(r, status) ==
  LET kept == IF Len(r.events) = MaxEvents THEN Tail(r.events) ELSE r.events
  IN [status |-> status,
      events |-> Append(kept, Event(NextSequence(kept), status, emitted + 1))]

Init ==
  /\ job = [status |-> "queued", events |-> <<Event(1, "queued", 1)>>]
  /\ journal = job /\ pending = None /\ stop = "no" /\ thread = "idle"
  /\ permits = MaxStreams
  /\ after = [c \in Clients |-> None] /\ received = [c \in Clients |-> <<>>]
  /\ emitted = 1 /\ faults = 0

-----------------------------------------------------------------------------
(* Changes of the job. *)

Up == job # None
Unlocked == Up /\ pending = None
\* A Scheduler handle is left: calls and readers come.
Serving == Up /\ stop # "shutdown"
More == emitted < MaxEmitted

Stage(record, by) ==
  /\ Unlocked
  /\ pending' = [record |-> record, renamed |-> FALSE, by |-> by]
  /\ UNCHANGED <<job, journal, stop, thread, permits, after, received, faults>>
Emit(status, by) ==
  /\ emitted' = emitted + 1
  /\ Stage(WithEvent(job, status), by)

\* The thread reads the queue, and takes the mutex again to change the job.
Pick ==
  /\ Unlocked /\ More /\ thread = "idle" /\ stop = "no" /\ job.status = "queued"
  /\ thread' = "picked"
  /\ UNCHANGED <<job, journal, pending, stop, permits, after, received, emitted, faults>>
\* A job that was withdrawn in between is written as it is.
Begin ==
  /\ Up /\ thread = "picked"
  /\ \/ job.status = "queued" /\ Emit("running", "start")
     \/ job.status \in Terminal /\ Stage(job, "start") /\ UNCHANGED emitted
Ends ==
  /\ thread' = "ended"
  /\ stop' = IF stop = "no" THEN "error" ELSE stop
\* A job that has left the history since is unknown to `update`.
LoseJob ==
  /\ Unlocked /\ thread = "picked" /\ job = Gone
  /\ Ends
  /\ UNCHANGED <<job, journal, pending, permits, after, received, emitted, faults>>

\* The poll finds the job neither cancelled nor the service stopping, and a new stage in
\* the progress file; the job may be cancelled before the update.
Poll ==
  /\ Unlocked /\ More /\ thread = "executing" /\ job.status = "running" /\ stop = "no"
  /\ thread' = "reporting"
  /\ UNCHANGED <<job, journal, pending, stop, permits, after, received, emitted, faults>>
Progress == Up /\ thread = "reporting" /\ job # Gone /\ Emit(job.status, "progress")

\* What becomes of the job when execute returns, by its result and the state by then.
Outcomes ==
  (IF thread = "failed" THEN {} ELSE {"succeeded"})
  \cup {IF job.status = "cancelling" \/ stop # "no" THEN "cancelled" ELSE "failed"}
Finish ==
  /\ Up /\ thread \in {"executing", "failed"} /\ job # Gone
  /\ \E s \in Outcomes : Emit(s, "finish")

Withdrawn == IF job.status = "queued" THEN "cancelled" ELSE "cancelling"
Cancel ==
  Serving /\ More /\ job.status \in {"queued", "running"} /\ Emit(Withdrawn, "call")
\* A newer submission for the profile withdraws also a job that is being cancelled.  It
\* reads `stop` before it waits for the locks, so it may come after the thread's end.
Supersede ==
  Serving /\ More /\ job.status \in Active /\ Emit(Withdrawn, "call")
\* A submission drops the oldest terminal job of a full history.
Evict ==
  /\ Serving /\ job.status \in Terminal
  /\ Stage(Gone, "call") /\ UNCHANGED emitted
\* A call about another job, or the thread that works on one, writes all records.
ChangeOther ==
  /\ Up /\ More /\ job # Gone
  /\ \/ Serving /\ Stage(job, "call")
     \/ thread = "idle" /\ \E by \in {"call", "start", "finish"} : Stage(job, by)
  /\ emitted' = emitted + 1

RenameJournal ==
  /\ Up /\ pending # None /\ ~pending.renamed
  /\ journal' = pending.record /\ pending' = [pending EXCEPT !.renamed = TRUE]
  /\ UNCHANGED <<job, stop, thread, permits, after, received, emitted, faults>>
\* Where a change of this job leaves the thread.
ThreadAfter(change) ==
  IF change.by = "call" \/ thread = "idle" THEN thread
  ELSE IF change.by # "finish" /\ change.record.status \in {"running", "cancelling"}
       THEN "executing" ELSE "idle"
Show ==
  /\ Up /\ pending # None /\ pending.renamed
  /\ job' = pending.record /\ pending' = None
  /\ thread' = ThreadAfter(pending)
  /\ UNCHANGED <<journal, stop, permits, after, received, emitted, faults>>

Fault == faults < MaxFaults /\ faults' = faults + 1

\* An error of next_job ends the thread; that of a progress update is the result of
\* execute, and next_job goes on to finish the job.
FailedUpdate ==
  \/ pending.by = "call" /\ UNCHANGED <<stop, thread>>
  \/ pending.by = "progress" /\ thread' = "failed" /\ UNCHANGED stop
  \/ pending.by \in {"start", "finish"} /\ Ends

\* The write fails before its rename, or the sync of the directory after it.
PersistFails ==
  /\ Fault /\ Up /\ pending # None
  /\ pending' = None /\ FailedUpdate
  /\ UNCHANGED <<job, journal, permits, after, received, emitted>>

Crash ==
  /\ Fault /\ Up
  /\ job' = None /\ pending' = None /\ thread' = "off"
  /\ after' = [c \in Clients |-> None] /\ permits' = MaxStreams
  /\ UNCHANGED <<journal, stop, received, emitted>>

\* The last handle is dropped, after the streams that hold one: the thread is told to stop,
\* which is execute's reason to give up, and is waited for.
Shutdown ==
  /\ Fault /\ Serving /\ pending = None /\ \A c \in Clients : after[c] = None
  /\ stop' = "shutdown"
  /\ UNCHANGED <<job, journal, pending, thread, permits, after, received, emitted>>
Exit ==
  /\ Unlocked /\ stop = "shutdown" /\ thread \in {"idle", "ended"}
  /\ job' = None /\ thread' = "off"
  /\ UNCHANGED <<journal, pending, stop, permits, after, received, emitted, faults>>

\* An unfinished job failed with the service; the new log is persisted before
\* anything can read it.
Recovered ==
  IF journal.status \in Active THEN WithEvent(journal, "failed") ELSE journal
Restart ==
  /\ ~Up
  /\ job' = Recovered /\ journal' = Recovered
  /\ emitted' = emitted + 1 /\ stop' = "no" /\ thread' = "idle"
  /\ UNCHANGED <<pending, permits, after, received, faults>>
\* The journal is renamed, then the start fails.
RestartFails ==
  /\ ~Up /\ Fault
  /\ journal' = Recovered /\ emitted' = emitted + 1
  /\ UNCHANGED <<job, pending, stop, thread, permits, after, received>>

-----------------------------------------------------------------------------
(* Streams. *)

\* A reader waits for the mutex, and sees the record in memory.
Readable == Serving /\ pending = None

LastEventId(c) == IF received[c] = <<>> THEN 0 ELSE Last(received[c]).sequence
SawEnd(c) == received[c] # <<>> /\ Last(received[c]).status \in Terminal
Unseen(c) == {i \in DOMAIN job.events : job.events[i].sequence > after[c]}

\* The slot comes before the job: an unknown job gives it back.
Connect(c) ==
  /\ Readable /\ after[c] = None /\ ~SawEnd(c) /\ permits > 0
  /\ job # Gone
  /\ permits' = permits - 1 /\ after' = [after EXCEPT ![c] = LastEventId(c)]
  /\ UNCHANGED <<job, journal, pending, stop, thread, received, emitted, faults>>

Deliver(c) ==
  /\ Readable /\ after[c] # None /\ Unseen(c) # {}
  /\ LET e == job.events[CHOOSE i \in Unseen(c) : \A j \in Unseen(c) : i <= j] IN
     /\ received' = [received EXCEPT ![c] = Append(@, e)]
     /\ after' = [after EXCEPT ![c] = e.sequence]
  /\ UNCHANGED <<job, journal, pending, stop, thread, permits, emitted, faults>>

Ended(c) == Unseen(c) = {} /\ job.status \in Terminal

\* mutant: the slot of a stream that ended is not given back.
CloseKeepsSlot(c) ==
  /\ after[c] # None
  /\ after' = [after EXCEPT ![c] = None]
  /\ UNCHANGED <<job, journal, pending, stop, thread, permits, received, emitted>>

Close(c) ==
  /\ after[c] # None
  /\ after' = [after EXCEPT ![c] = None] /\ permits' = permits + 1
  /\ UNCHANGED <<job, journal, pending, stop, thread, received, emitted>>

\* The stream ends: the job has, or is gone.
EndStream(c) ==
  /\ Readable /\ after[c] # None
  /\ job = Gone \/ Ended(c)
  /\ Close(c) /\ UNCHANGED faults
\* The connection is lost, or the read of the job takes three seconds.
LoseStream(c) == Fault /\ Close(c)

Next ==
  \/ Pick \/ Begin \/ LoseJob \/ Poll \/ Progress \/ Finish
  \/ Cancel \/ Supersede \/ Evict \/ ChangeOther
  \/ RenameJournal \/ Show \/ PersistFails
  \/ Crash \/ Shutdown \/ Exit \/ Restart \/ RestartFails
  \/ \E c \in Clients : Connect(c) \/ Deliver(c) \/ EndStream(c) \/ LoseStream(c)

\* The mutex is released, the thread goes on with the job it has picked, execute returns at
\* its deadline at the latest, a service that went down comes back, and a client reconnects
\* until it has seen the end of the job.
Spec ==
  /\ Init /\ [][Next]_vars
  /\ WF_vars(RenameJournal) /\ WF_vars(Show) /\ WF_vars(Begin \/ LoseJob)
  /\ WF_vars(Progress) /\ WF_vars(Finish) /\ WF_vars(Exit) /\ WF_vars(Restart)
  /\ \A c \in Clients : WF_vars(Connect(c) \/ Deliver(c) \/ EndStream(c))

-----------------------------------------------------------------------------
(* Properties. *)

Delivered == UNION {ToSet(received[c]) : c \in Clients}

\* A sequence number means one event for ever, for all clients: through full logs,
\* failed writes, crashes between the journal and the memory, and restarts.
OneEventPerSequence ==
  \A e \in Delivered, f \in Delivered \cup (IF Up THEN ToSet(job.events) ELSE {}) :
    e.sequence = f.sequence => e = f

\* What was delivered is in the log of a record, or dropped there as the oldest.
Holds(r) ==
  r # Gone =>
    \A e \in Delivered : e \in ToSet(r.events) \/ e.sequence < r.events[1].sequence

\* What a client has seen is in the journal, or was dropped there.
DeliveredIsDurable == Holds(journal)

\* What clients have got is in order and without gaps if a log has dropped nothing.
InOrder(r) ==
  r # Gone /\ Last(r.events).sequence <= MaxEvents =>
    \A c \in Clients : \A i \in DOMAIN received[c] : received[c][i].sequence = i

\* Of the delivered events no two have one number.
NumbersDiffer == \A e, f \in Delivered : e.sequence = f.sequence => e = f

\* A client gets every event once and in order, however often it reconnects, as
\* long as the log has not dropped any.
NothingMissed == Up => InOrder(job)

\* Slots are neither lost nor made: each stream holds one.
SlotsAreHeld ==
  permits + Cardinality({c \in Clients : after[c] # None}) = MaxStreams

\* The inductive invariant.  A log has room, is numbered without gaps, and has dropped
\* nothing unless it is full.
WellNumbered(r) ==
  r = Gone \/
  /\ r.status # "gone" /\ Len(r.events) \in 1..MaxEvents
  /\ \A i \in DOMAIN r.events : r.events[i].sequence = r.events[1].sequence + i - 1
  /\ Len(r.events) = MaxEvents \/ r.events[1].sequence = 1

\* One more change of the record, which may have made the log drop its oldest event.
IsNext(r, next) ==
  \/ next = Gone /\ r.status \in Terminal
  \/ /\ r # Gone /\ next # Gone
     /\ LET e == Last(next.events)
            kept == IF Len(r.events) = MaxEvents THEN Tail(r.events) ELSE r.events
        IN next.events = Append(kept, e) /\ e.sequence = Last(r.events).sequence + 1

\* The journal is the record in memory or the change that was being made when it was
\* last written, also when that change failed and memory kept the older one.
EventInvariant ==
  /\ TypeOK /\ SlotsAreHeld /\ NumbersDiffer
  /\ WellNumbered(journal) /\ Holds(journal) /\ InOrder(journal)
  /\ Up => /\ WellNumbered(job) /\ Holds(job) /\ InOrder(job)
           /\ journal = job \/ IsNext(job, journal)
  /\ ~Up => pending = None
  /\ pending # None => /\ WellNumbered(pending.record)
                       /\ pending.record = job \/ IsNext(job, pending.record)
                       /\ pending.renamed => journal = pending.record
  /\ \A c \in Clients : after[c] # None => after[c] = LastEventId(c)

\* A sequence number means one durable event, no client misses one that is kept, and slots
\* are held by streams.
EventsAreReplayed ==
  EventInvariant /\ OneEventPerSequence /\ DeliveredIsDurable /\ NothingMissed /\ SlotsAreHeld

\* Whoever follows a job learns its end, although the log drops events and streams
\* and services go down, unless the job leaves the history first.
HasEnded == Up /\ job.status \in Terminal
KnowsOrGone(c) == SawEnd(c) \/ journal = Gone
EndIsSeen == \A c \in Clients : HasEnded ~> KnowsOrGone(c)

\* A job that is executed ends, also when an update of its progress fails; only a failed
\* update of next_job leaves it without an end, and the service without its thread.
WorkIsOn == thread \in AtWork
WorkHasEnded == HasEnded \/ thread = "ended"
WorkEnds == WorkIsOn ~> WorkHasEnded
=============================================================================
