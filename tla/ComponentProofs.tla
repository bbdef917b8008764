--------------------------- MODULE ComponentProofs ---------------------------
(***************************************************************************)
(* Proofs about smaller components, each for all values of its constants.  *)
(* An INSTANCE takes the constants and variables of the same names from    *)
(* here; a theorem is about one of the components, so that it does not     *)
(* matter which names two of them share.                                   *)
(***************************************************************************)
EXTENDS Integers, Sequences, FiniteSets, FiniteSetTheorems, SequenceTheorems, Ranking, TLAPS

CONSTANTS None, MaxFaults,
          Clients, MaxEvents, MaxStreams, MaxEmitted,
          Exporters, Observations, Foreign, MaxCopies,
          Entries, Contents, Unreadable, Missing, MaxFiles, MaxEntries, MaxEdits,
          Nodes, Relations, MaxNodes, MaxEdges, Depths, RowBudget, ByteBudget,
          MaxBytes, Chunk, SourceBytes, MaxLines, MaxWrites,
          Keys, Versions, Callers, MaxSide, MaxChanges, MaxRows, MaxCallers

VARIABLES faults,
          job, journal, pending, stop, thread, permits, after, received, emitted, stopped,
          stored, locked, stage, seen, bundles, staging, archive, settled, promised, copies,
          importer, want, got, published, restored, answered,
          content, root, edits, state, pass, todo, reading, entries, first, moments, returned,
          source, target, request, nodes, edges, queue, visited, rows, depth, bytes, truncated,
          archived, file, version, opened, text, position, window,
          old, new, calls, groups, changes, impact

Events == INSTANCE JobEvents
Archive == INSTANCE Portable
Walk == INSTANCE Capture
Near == INSTANCE Neighborhood
Lines == INSTANCE SourceWindow
Diff == INSTANCE SnapshotDiff

-----------------------------------------------------------------------------
(* The events of a job. *)

\* What is in a log that is one change later: the log before it, without its oldest
\* event if that was full, and one event with the next number.
LEMMA NextLog ==
  ASSUME Events!EventsAssumption, NEW r \in Events!Records, NEW n \in Events!Records,
         Events!WellNumbered(r), Events!IsNext(r, n), n # Events!Gone
  PROVE  \E k \in {0, 1}, l \in Nat \ {0} :
           /\ r # Events!Gone
           /\ l = Len(r.events) /\ Len(n.events) = l + 1 - k /\ l + 1 - k <= MaxEvents
           /\ l - k >= 1
           /\ k = 1 <=> l = MaxEvents
           /\ \A i \in 1..(l - k) : n.events[i] = r.events[i + k]
           /\ n.events[l + 1 - k].sequence = r.events[1].sequence + l
           /\ r.events[1].sequence \in Nat \ {0}
<1> DEFINE l == Len(r.events)
           k == IF l = MaxEvents THEN 1 ELSE 0
           e == Events!Last(n.events)
           kept == IF l = MaxEvents THEN Tail(r.events) ELSE r.events
<1>1. /\ r # Events!Gone /\ r.events \in Seq(Events!Events) /\ n.events \in Seq(Events!Events)
      /\ l \in 1..MaxEvents /\ MaxEvents \in Nat \ {0, 1}
      /\ \A i \in 1..l : r.events[i].sequence = r.events[1].sequence + i - 1
  BY DEF Events!EventsAssumption, Events!Records, Events!WellNumbered, Events!IsNext,
         Events!Terminal, Events!Gone
<1>2. n.events = Append(kept, e) /\ e.sequence = Events!Last(r.events).sequence + 1
  BY DEF Events!IsNext
<1> HIDE DEF e
<1>3. kept \in Seq(Events!Events) /\ Len(kept) = l - k /\ \A i \in 1..(l - k) : kept[i] = r.events[i + k]
  <2>1. CASE l = MaxEvents
    <3>1. r.events # <<>>
      BY <1>1, EmptySeq
    <3>2. /\ Tail(r.events) \in Seq(Events!Events) /\ Len(Tail(r.events)) = l - 1
          /\ \A i \in 1..Len(Tail(r.events)) : Tail(r.events)[i] = r.events[i + 1]
      BY <1>1, <3>1, HeadTailProperties
    <3> QED  BY <2>1, <3>2
  <2>2. CASE l # MaxEvents
    BY <1>1, <2>2
  <2> QED  BY <2>1, <2>2
<1> HIDE DEF kept
<1>4. /\ Len(n.events) = l - k + 1
      /\ \A i \in 1..(l - k) : n.events[i] = kept[i]
      /\ n.events[l - k + 1] = e
  <2>1. e \in Events!Events \cup {e} /\ kept \in Seq(Events!Events \cup {e})
    BY <1>3, SeqMonotonic
  <2>2. l - k \in Nat
    BY <1>1
  <2>3. /\ Len(Append(kept, e)) = Len(kept) + 1
        /\ \A i \in 1..Len(kept) : Append(kept, e)[i] = kept[i]
        /\ Append(kept, e)[Len(kept) + 1] = e
    BY <2>1, AppendProperties
  <2> HIDE DEF k, l
  <2> QED
    BY <1>2, <1>3, <2>2, <2>3
<1>5. Events!Last(r.events) = r.events[l] /\ r.events[1] \in Events!Events
  BY <1>1, ElementOfSeq DEF Events!Last
<1>6. r.events[1].sequence \in Nat \ {0}
  BY <1>5 DEF Events!Events
<1>7. n.events[l - k + 1].sequence = r.events[1].sequence + l
  <2>1. r.events[l].sequence = r.events[1].sequence + l - 1 /\ l \in Nat
    BY <1>1
  <2>2. n.events[l - k + 1].sequence = r.events[l].sequence + 1
    BY <1>2, <1>4, <1>5
  <2> HIDE DEF l, k
  <2>3. \A x, f \in Nat : f + x - 1 + 1 = f + x
    OBVIOUS
  <2> QED  BY <1>6, <2>1, <2>2, <2>3
<1>8. k \in {0, 1} /\ l \in Nat \ {0} /\ l - k >= 1 /\ l + 1 - k <= MaxEvents /\ l - k + 1 = l + 1 - k
  BY <1>1
<1>9. k = 1 <=> l = MaxEvents
  OBVIOUS
<1> HIDE DEF k, l
<1> QED
  BY <1>1, <1>3, <1>4, <1>6, <1>7, <1>8, <1>9 DEF l

\* A record with one more event is the next one, and its log is numbered as the first.
LEMMA WithEventIsNext ==
  ASSUME Events!EventsAssumption, NEW r \in Events!Records, r # Events!Gone,
         Events!WellNumbered(r), emitted \in Nat,
         NEW status \in Events!Active \cup Events!Terminal
  PROVE  LET n == Events!WithEvent(r, status) IN
         /\ n \in Events!Records /\ n # Events!Gone
         /\ Events!IsNext(r, n) /\ Events!WellNumbered(n)
<1> DEFINE n == Events!WithEvent(r, status)
           l == Len(r.events)
           kept == IF l = MaxEvents THEN Tail(r.events) ELSE r.events
           e == Events!Event(Events!NextSequence(kept), status, emitted + 1)
<1>1. /\ r.events \in Seq(Events!Events) /\ l \in 1..MaxEvents /\ MaxEvents \in Nat \ {0, 1}
      /\ l \in 1..l /\ r.events[l] \in Events!Events
  <2>1. /\ r.events \in Seq(Events!Events) /\ l \in 1..MaxEvents /\ MaxEvents \in Nat \ {0, 1}
    BY DEF Events!EventsAssumption, Events!Records, Events!WellNumbered
  <2> QED  BY <2>1, ElementOfSeq
<1>2. n = [status |-> status, events |-> Append(kept, e)]
  BY DEF Events!WithEvent
<1>3. /\ kept \in Seq(Events!Events) /\ kept # <<>> /\ Len(kept) \in 1..(MaxEvents - 1)
      /\ kept[Len(kept)] = r.events[l]
  <2>1. CASE l = MaxEvents
    <3>1. r.events # <<>>
      BY <1>1, EmptySeq
    <3>2. /\ Tail(r.events) \in Seq(Events!Events) /\ Len(Tail(r.events)) = l - 1
          /\ \A i \in 1..Len(Tail(r.events)) : Tail(r.events)[i] = r.events[i + 1]
      BY <1>1, <3>1, HeadTailProperties
    <3>3. l - 1 \in 1..(l - 1) /\ l - 1 + 1 = l
      BY <1>1, <2>1
    <3> HIDE DEF l
    <3>4. Tail(r.events) # <<>>
      BY <3>2, <3>3, EmptySeq
    <3> QED  BY <2>1, <3>2, <3>3, <3>4
  <2>2. CASE l # MaxEvents
    BY <1>1, <2>2, EmptySeq
  <2> QED  BY <2>1, <2>2
<1> HIDE DEF kept
<1>4. e \in Events!Events /\ e.sequence = r.events[l].sequence + 1
  <2>1. Events!NextSequence(kept) = r.events[l].sequence + 1
    BY <1>3 DEF Events!NextSequence, Events!Last
  <2>2. r.events[l].sequence \in Nat \ {0}
    BY <1>1 DEF Events!Events
  <2> QED  BY <2>1, <2>2 DEF Events!Events, Events!Event
<1> HIDE DEF e, n, l
<1>5. /\ Append(kept, e) \in Seq(Events!Events) /\ Len(Append(kept, e)) = Len(kept) + 1
      /\ Append(kept, e)[Len(kept) + 1] = e /\ Append(kept, e) # <<>>
  BY <1>3, <1>4, AppendProperties
<1>6. n \in Events!Records /\ n # Events!Gone
  BY <1>2, <1>5 DEF Events!Records, Events!Gone
<1>7. Events!IsNext(r, n)
  <2>1. Events!Last(n.events) = e
    BY <1>2, <1>5 DEF Events!Last
  <2>2. e.sequence = Events!Last(r.events).sequence + 1
    BY <1>4 DEF Events!Last, l
  <2>3. n.events = Append(IF Len(r.events) = MaxEvents THEN Tail(r.events) ELSE r.events, e)
    BY <1>2 DEF kept, l
  <2> QED  BY <1>6, <2>1, <2>2, <2>3 DEF Events!IsNext
<1>8. Events!WellNumbered(n)
  <2>1. PICK k \in {0, 1}, m \in Nat \ {0} :
           /\ m = Len(r.events) /\ Len(n.events) = m + 1 - k /\ m + 1 - k <= MaxEvents
           /\ m - k >= 1
           /\ k = 1 <=> m = MaxEvents
           /\ \A i \in 1..(m - k) : n.events[i] = r.events[i + k]
           /\ n.events[m + 1 - k].sequence = r.events[1].sequence + m
           /\ r.events[1].sequence \in Nat \ {0}
    BY <1>6, <1>7, NextLog
  <2>2. PICK f \in Nat \ {0} : f = r.events[1].sequence
    BY <2>1
  <2>3. \A i \in 1..m : r.events[i].sequence = f + i - 1
    <3>1. \A i \in DOMAIN r.events : r.events[i].sequence = r.events[1].sequence + i - 1
      BY <1>1 DEF Events!WellNumbered
    <3>2. DOMAIN r.events = 1..m
      BY <1>1, <2>1
    <3> QED  BY <2>2, <3>1, <3>2
  <2>4. n.events[1].sequence = f + k
    <3>0. 1 + k \in 1..m /\ 1 \in 1..(m - k)
      BY <2>1
    <3>1. n.events[1] = r.events[1 + k] /\ 1 + k \in 1..m
      BY <2>1, <3>0
    <3> QED  BY <2>3, <3>1
  <2>5. ASSUME NEW i \in 1..(m + 1 - k)
        PROVE  n.events[i].sequence = f + k + i - 1
    <3>0. f \in Nat /\ k \in Nat /\ m \in Nat /\ i \in Nat
      BY <2>1, <2>2
    <3>1. CASE i \in 1..(m - k)
      <4>1. n.events[i] = r.events[i + k]
        BY <2>1, <3>1
      <4>2. i + k \in 1..m /\ f + (i + k) - 1 = f + k + i - 1
        BY <3>0, <3>1
      <4> QED  BY <2>3, <4>1, <4>2
    <3>2. CASE i = m + 1 - k
      <4>1. n.events[i].sequence = f + m
        BY <2>1, <2>2, <3>2
      <4> QED  BY <3>0, <3>2, <4>1
    <3> QED  BY <3>0, <3>1, <3>2
  <2>6. DOMAIN n.events = 1..(m + 1 - k) /\ n.status # "gone"
    BY <1>2, <1>5, <2>1, LenProperties DEF Events!Active, Events!Terminal
  <2>7. m + 1 - k = MaxEvents \/ n.events[1].sequence = 1
    <3>1. m = MaxEvents \/ f = 1
      BY <2>1, <2>2 DEF Events!WellNumbered
    <3> QED  BY <1>1, <2>1, <2>4, <3>1
  <2>8. Len(n.events) \in 1..MaxEvents
    BY <1>1, <2>1
  <2> QED
    BY <2>1, <2>4, <2>5, <2>6, <2>7, <2>8 DEF Events!WellNumbered
<1> QED
  BY <1>6, <1>7, <1>8 DEF n

\* What a log holds, or has dropped, is held or dropped when it is one change later; and
\* a log that has dropped nothing had not before.
LEMMA NextCovers ==
  ASSUME Events!EventsAssumption, NEW r \in Events!Records, NEW n \in Events!Records,
         Events!WellNumbered(r), Events!IsNext(r, n), n # Events!Gone
  PROVE  /\ r # Events!Gone
         /\ \A e \in Events!Events :
              e \in Events!ToSet(r.events) \/ e.sequence < r.events[1].sequence =>
                e \in Events!ToSet(n.events) \/ e.sequence < n.events[1].sequence
         /\ Events!Last(n.events).sequence <= MaxEvents =>
              Events!Last(r.events).sequence <= MaxEvents
<1>1. PICK k \in {0, 1}, m \in Nat \ {0} :
         /\ r # Events!Gone
         /\ m = Len(r.events) /\ Len(n.events) = m + 1 - k /\ m + 1 - k <= MaxEvents
         /\ m - k >= 1
         /\ k = 1 <=> m = MaxEvents
         /\ \A i \in 1..(m - k) : n.events[i] = r.events[i + k]
         /\ n.events[m + 1 - k].sequence = r.events[1].sequence + m
         /\ r.events[1].sequence \in Nat \ {0}
  BY NextLog
<1>2. PICK f \in Nat \ {0} : f = r.events[1].sequence
  BY <1>1
<1>3. \A i \in 1..m : r.events[i].sequence = f + i - 1
  <2>1. \A i \in DOMAIN r.events : r.events[i].sequence = r.events[1].sequence + i - 1
    BY <1>1 DEF Events!WellNumbered
  <2>2. DOMAIN r.events = 1..m
    BY <1>1 DEF Events!Records, Events!Gone
  <2> QED  BY <1>2, <2>1, <2>2
<1>4. n.events[1].sequence = f + k
  <2>0. 1 + k \in 1..m /\ 1 \in 1..(m - k)
    BY <1>1
  <2>1. n.events[1] = r.events[1 + k] /\ 1 + k \in 1..m
    BY <1>1, <2>0
  <2> QED  BY <1>3, <2>1
<1>5. DOMAIN n.events = 1..(m + 1 - k) /\ DOMAIN r.events = 1..m
  BY <1>1, LenProperties DEF Events!Records
<1>6. ASSUME NEW e \in Events!Events,
             e \in Events!ToSet(r.events) \/ e.sequence < r.events[1].sequence
      PROVE  e \in Events!ToSet(n.events) \/ e.sequence < n.events[1].sequence
  <2>1. e.sequence \in Nat
    BY DEF Events!Events
  <2>2. CASE e.sequence < f
    BY <1>1, <1>2, <1>4, <2>1, <2>2
  <2>3. CASE ~(e.sequence < f)
    <3>1. PICK i \in 1..m : e = r.events[i]
      BY <1>1, <1>2, <1>5, <1>6, <2>3 DEF Events!ToSet
    <3>2. CASE i <= k
      <4>1. i = 1 /\ k = 1
        BY <1>1, <3>2
      <4> QED  BY <1>2, <1>4, <3>1, <4>1
    <3>3. CASE ~(i <= k)
      <4>1. i - k \in 1..(m - k) /\ i - k \in 1..(m + 1 - k) /\ i - k + k = i
        BY <1>1, <3>3
      <4>2. n.events[i - k] = e
        BY <1>1, <3>1, <4>1
      <4> QED  BY <1>5, <4>1, <4>2 DEF Events!ToSet
    <3> QED  BY <3>2, <3>3
  <2> QED  BY <2>2, <2>3
<1>7. Events!Last(n.events).sequence <= MaxEvents => Events!Last(r.events).sequence <= MaxEvents
  <2>1. Events!Last(n.events).sequence = f + m
    BY <1>1, <1>2 DEF Events!Last
  <2>2. Events!Last(r.events).sequence = f + m - 1
    <3>1. m \in 1..m /\ Events!Last(r.events) = r.events[m]
      BY <1>1 DEF Events!Last
    <3> QED  BY <1>3, <3>1
  <2>3. MaxEvents \in Nat
    BY DEF Events!EventsAssumption
  <2> QED  BY <2>1, <2>2, <2>3
<1> QED
  BY <1>1, <1>6, <1>7

\* What a log holds of the delivered events, and that they are in order, is still so
\* when it is one change later.
LEMMA NextKeeps ==
  ASSUME Events!EventsAssumption, NEW r \in Events!Records, NEW n \in Events!Records,
         Events!WellNumbered(r), Events!IsNext(r, n), Events!Delivered \subseteq Events!Events
  PROVE  /\ Events!Holds(r) => Events!Holds(n)
         /\ Events!InOrder(r) => Events!InOrder(n)
<1>1. CASE n = Events!Gone
  BY <1>1 DEF Events!Holds, Events!InOrder
<1>2. CASE n # Events!Gone
  BY <1>2, NextCovers DEF Events!Holds, Events!InOrder
<1> QED
  BY <1>1, <1>2

\* FiniteSets is instantiated with JobEvents: the two mean the same.
LEMMA EventsCardinality ==
  ASSUME NEW S
  PROVE  Events!Cardinality(S) = Cardinality(S) /\ Events!IsFiniteSet(S) = IsFiniteSet(S)
<1>1. Events!Cardinality(S) = Cardinality(S)
  BY DEF Events!Cardinality, Cardinality
<1>2. Events!IsFiniteSet(S) = IsFiniteSet(S)
  BY DEF Events!IsFiniteSet, IsFiniteSet
<1> QED
  BY <1>1, <1>2

\* What is delivered is a set of events.
LEMMA DeliveredAreEvents ==
  ASSUME Events!TypeOK
  PROVE  Events!Delivered \subseteq Events!Events
<1>1. ASSUME NEW c \in Clients
      PROVE  Events!ToSet(received[c]) \subseteq Events!Events
  <2>1. received[c] \in Seq(Events!Events)
    BY DEF Events!TypeOK
  <2> QED
    BY <2>1, ElementOfSeq, LenProperties DEF Events!ToSet
<1> QED
  BY <1>1 DEF Events!Delivered

\* A change is made on a copy, which follows the record in memory.
LEMMA StageStep ==
  ASSUME Events!EventsAssumption, Events!EventInvariant, emitted' \in Nat,
         NEW record \in Events!Records, NEW by \in Events!Makers,
         Events!WellNumbered(record), record = job \/ Events!IsNext(job, record),
         Events!Stage(record, by)
  PROVE  Events!EventInvariant'
<1>1. pending' \in Events!Changes /\ pending'.record = record /\ pending'.renamed = FALSE
  BY DEF Events!Stage, Events!Changes
<1>2. /\ Events!Up' /\ Events!Delivered' = Events!Delivered
      /\ UNCHANGED <<job, journal, stop, thread, permits, after, received, faults>>
  BY DEF Events!Stage, Events!Up, Events!Unlocked, Events!Delivered
<1>3. Events!TypeOK' /\ Events!SlotsAreHeld' /\ Events!NumbersDiffer'
  BY <1>1, <1>2 DEF Events!EventInvariant, Events!TypeOK, Events!SlotsAreHeld,
                    Events!NumbersDiffer
<1>4. /\ Events!WellNumbered(record)' /\ (record = job \/ Events!IsNext(job, record))'
      /\ Events!WellNumbered(journal)' /\ Events!Holds(journal)' /\ Events!InOrder(journal)'
  BY <1>2 DEF Events!EventInvariant, Events!WellNumbered, Events!IsNext, Events!Holds,
              Events!InOrder
<1>5. /\ Events!WellNumbered(job)' /\ Events!Holds(job)' /\ Events!InOrder(job)'
      /\ (journal = job \/ Events!IsNext(job, journal))'
  BY <1>2 DEF Events!EventInvariant, Events!WellNumbered, Events!IsNext, Events!Holds,
              Events!InOrder, Events!Stage, Events!Unlocked
<1>6. \A c \in Clients : (after[c] # None => after[c] = Events!LastEventId(c))'
  BY <1>2 DEF Events!EventInvariant, Events!LastEventId
<1> QED
  BY <1>1, <1>2, <1>3, <1>4, <1>5, <1>6
     DEF Events!EventInvariant, Events!WellNumbered, Events!IsNext

\* A change that is one more event follows the record in memory.
LEMMA EmitStep ==
  ASSUME Events!EventsAssumption, Events!EventInvariant, Events!Up, job # Events!Gone,
         NEW status \in Events!Active \cup Events!Terminal, NEW by \in Events!Makers,
         Events!Emit(status, by)
  PROVE  Events!EventInvariant'
<1>1. job \in Events!Records /\ Events!WellNumbered(job) /\ emitted \in Nat /\ emitted' \in Nat
  BY DEF Events!EventInvariant, Events!TypeOK, Events!Up, Events!Emit
<1> DEFINE n == Events!WithEvent(job, status)
<1>2. n \in Events!Records /\ Events!IsNext(job, n) /\ Events!WellNumbered(n)
  BY <1>1, WithEventIsNext
<1>3. Events!Stage(n, by)
  BY DEF Events!Emit
<1> HIDE DEF n
<1> QED
  BY <1>1, <1>2, <1>3, StageStep

\* A change that leaves this job's record as it is.
LEMMA SameStep ==
  ASSUME Events!EventsAssumption, Events!EventInvariant, Events!Up, emitted' \in Nat,
         NEW by \in Events!Makers, Events!Stage(job, by)
  PROVE  Events!EventInvariant'
<1>1. job \in Events!Records /\ Events!WellNumbered(job)
  BY DEF Events!EventInvariant, Events!TypeOK, Events!Up
<1> QED
  BY <1>1, StageStep

\* A step that changes no record and no stream.
LEMMA QuietEvents ==
  ASSUME Events!EventsAssumption, Events!EventInvariant,
         UNCHANGED <<job, journal, pending, permits, after, received, emitted>>,
         stop' \in {"no", "error", "shutdown"},
         thread' \in {"idle", "picked", "ended", "off"} \cup Events!AtWork, faults' \in Nat
  PROVE  Events!EventInvariant'
<1>1. Events!TypeOK'
  BY DEF Events!EventInvariant, Events!TypeOK
<1>2. Events!SlotsAreHeld' /\ Events!NumbersDiffer' /\ Events!Up' = Events!Up
  BY DEF Events!EventInvariant, Events!SlotsAreHeld, Events!NumbersDiffer,
         Events!Delivered, Events!Up
<1>3. /\ Events!WellNumbered(journal)' /\ Events!Holds(journal)' /\ Events!InOrder(journal)'
      /\ Events!Up => /\ Events!WellNumbered(job)' /\ Events!Holds(job)' /\ Events!InOrder(job)'
                      /\ (journal = job \/ Events!IsNext(job, journal))'
  BY DEF Events!EventInvariant, Events!WellNumbered, Events!Holds, Events!InOrder,
         Events!Delivered, Events!IsNext
<1>4. (pending # None => /\ Events!WellNumbered(pending.record)
                         /\ pending.record = job \/ Events!IsNext(job, pending.record)
                         /\ pending.renamed => journal = pending.record)'
  BY DEF Events!EventInvariant, Events!WellNumbered, Events!IsNext
<1>5. \A d \in Clients : (after[d] # None => after[d] = Events!LastEventId(d))'
  BY DEF Events!EventInvariant, Events!LastEventId
<1>6. (~Events!Up => pending = None)'
  BY <1>2 DEF Events!EventInvariant
<1> QED
  BY <1>1, <1>2, <1>3, <1>4, <1>5, <1>6 DEF Events!EventInvariant

\* Every change of the job keeps the invariant, also its removal from the history, and so
\* does one of another job.
LEMMA ChangeStep ==
  ASSUME Events!EventsAssumption, Events!EventInvariant,
         \/ Events!Begin \/ Events!Progress \/ Events!Finish
         \/ Events!Cancel \/ Events!Supersede \/ Events!Evict \/ Events!ChangeOther
  PROVE  Events!EventInvariant'
<1>1. Events!Up
  BY DEF Events!Begin, Events!Progress, Events!Finish, Events!Cancel, Events!Supersede,
         Events!Evict, Events!ChangeOther, Events!Serving
<1>2. job \in Events!Records /\ emitted \in Nat
  BY <1>1 DEF Events!EventInvariant, Events!TypeOK, Events!Up
<1>3. job.status # "gone" => job # Events!Gone
  BY DEF Events!Gone
<1>4. {"call", "start", "progress", "finish"} = Events!Makers
  BY DEF Events!Makers
<1>5. CASE Events!Begin
  <2>1. CASE job.status = "queued" /\ Events!Emit("running", "start")
    BY <1>1, <1>3, <1>4, <2>1, EmitStep DEF Events!Active
  <2>2. CASE Events!Stage(job, "start") /\ UNCHANGED emitted
    BY <1>1, <1>2, <1>4, <2>2, SameStep
  <2> QED  BY <1>5, <2>1, <2>2 DEF Events!Begin
<1>6. CASE Events!Progress
  <2>1. job.status \in Events!Active \cup Events!Terminal
    BY <1>2, <1>6 DEF Events!Progress, Events!EventInvariant, Events!WellNumbered, Events!Records, Events!Up
  <2> QED  BY <1>1, <1>4, <1>6, <2>1, EmitStep DEF Events!Progress
<1>7. CASE Events!Finish
  <2>1. PICK status \in Events!Outcomes : Events!Emit(status, "finish")
    BY <1>7 DEF Events!Finish
  <2>2. status \in Events!Terminal /\ job # Events!Gone
    BY <1>7 DEF Events!Outcomes, Events!Terminal, Events!Finish
  <2> QED  BY <1>1, <1>4, <2>1, <2>2, EmitStep
<1>8. CASE Events!Cancel \/ Events!Supersede
  <2>1. Events!Emit(Events!Withdrawn, "call") /\ job # Events!Gone
    BY <1>3, <1>8 DEF Events!Cancel, Events!Supersede, Events!Active
  <2>2. Events!Withdrawn \in Events!Active \cup Events!Terminal
    BY DEF Events!Withdrawn, Events!Active, Events!Terminal
  <2> QED  BY <1>1, <1>4, <2>1, <2>2, EmitStep
<1>9. CASE Events!Evict
  <2>1. Events!Gone \in Events!Records
    BY EmptySeq DEF Events!Gone, Events!Records
  <2>2. Events!WellNumbered(Events!Gone) /\ Events!IsNext(job, Events!Gone)
    BY <1>9 DEF Events!WellNumbered, Events!IsNext, Events!Evict
  <2>3. emitted' \in Nat /\ Events!Stage(Events!Gone, "call")
    BY <1>2, <1>9 DEF Events!Evict
  <2> QED
    BY <1>4, <2>1, <2>2, <2>3, StageStep
<1>10. CASE Events!ChangeOther
  <2>1. PICK by \in Events!Makers : Events!Stage(job, by)
    BY <1>4, <1>10 DEF Events!ChangeOther
  <2>2. emitted' \in Nat
    BY <1>2, <1>10 DEF Events!ChangeOther
  <2> QED  BY <1>1, <2>1, <2>2, SameStep
<1> QED
  BY <1>5, <1>6, <1>7, <1>8, <1>9, <1>10

\* Steps of the thread, and a shutdown that begins, which change no record and no stream.
LEMMA ThreadStep ==
  ASSUME Events!EventsAssumption, Events!EventInvariant,
         Events!Pick \/ Events!LoseJob \/ Events!Poll \/ Events!Shutdown
  PROVE  Events!EventInvariant'
<1>1. /\ UNCHANGED <<job, journal, pending, permits, after, received, emitted>>
      /\ stop' \in {"no", "error", "shutdown"}
      /\ thread' \in {"idle", "picked", "ended", "off"} \cup Events!AtWork /\ faults' \in Nat
  BY DEF Events!Pick, Events!LoseJob, Events!Ends, Events!Poll, Events!Shutdown, Events!Fault,
         Events!EventInvariant, Events!TypeOK, Events!AtWork
<1> QED
  BY <1>1, QuietEvents

\* The rename puts the change into the journal, where every delivered event is still
\* held or dropped.
LEMMA RenameStep ==
  ASSUME Events!EventsAssumption, Events!EventInvariant, Events!RenameJournal
  PROVE  Events!EventInvariant'
<1>1. /\ pending \in Events!Changes /\ job \in Events!Records /\ Events!Up
      /\ pending.record \in Events!Records
      /\ Events!WellNumbered(pending.record)
      /\ pending.record = job \/ Events!IsNext(job, pending.record)
      /\ Events!WellNumbered(job) /\ Events!Holds(job) /\ Events!InOrder(job)
  BY DEF Events!RenameJournal, Events!EventInvariant, Events!TypeOK, Events!Changes, Events!Up
<1>2. Events!Delivered \subseteq Events!Events
  BY DeliveredAreEvents DEF Events!EventInvariant
<1>3. Events!Holds(pending.record) /\ Events!InOrder(pending.record)
  BY <1>1, <1>2, NextKeeps
<1>4. /\ journal' = pending.record /\ pending' \in Events!Changes
      /\ pending'.record = pending.record
      /\ UNCHANGED <<job, stop, thread, permits, after, received, emitted, faults>>
      /\ Events!Up'
  BY <1>1 DEF Events!RenameJournal, Events!Up, Events!Changes
<1>5. Events!TypeOK' /\ Events!SlotsAreHeld' /\ Events!NumbersDiffer'
  BY <1>1, <1>4 DEF Events!EventInvariant, Events!TypeOK, Events!SlotsAreHeld,
                    Events!NumbersDiffer, Events!Delivered
<1>6. /\ Events!WellNumbered(journal)' /\ Events!Holds(journal)' /\ Events!InOrder(journal)'
  BY <1>1, <1>3, <1>4 DEF Events!WellNumbered, Events!Holds, Events!InOrder, Events!Delivered
<1>7. /\ Events!WellNumbered(job)' /\ Events!Holds(job)' /\ Events!InOrder(job)'
      /\ (journal = job \/ Events!IsNext(job, journal))'
  BY <1>1, <1>4 DEF Events!WellNumbered, Events!Holds, Events!InOrder, Events!IsNext,
                    Events!Delivered
<1>8. /\ Events!WellNumbered(pending.record)'
      /\ (pending.record = job \/ Events!IsNext(job, pending.record))'
      /\ (pending.renamed => journal = pending.record)'
  BY <1>1, <1>4 DEF Events!WellNumbered, Events!IsNext
<1>9. \A c \in Clients : (after[c] # None => after[c] = Events!LastEventId(c))'
  BY <1>4 DEF Events!EventInvariant, Events!LastEventId
<1> QED
  BY <1>4, <1>5, <1>6, <1>7, <1>8, <1>9 DEF Events!EventInvariant

\* What is shown is what the journal holds.
LEMMA ShowStep ==
  ASSUME Events!EventsAssumption, Events!EventInvariant, Events!Show
  PROVE  Events!EventInvariant'
<1>1. /\ journal = pending.record /\ journal \in Events!Records
      /\ Events!WellNumbered(journal) /\ Events!Holds(journal) /\ Events!InOrder(journal)
  BY DEF Events!Show, Events!EventInvariant, Events!TypeOK
<1>2. /\ job' = journal /\ pending' = None
      /\ thread' \in {"idle", "picked", "ended", "off"} \cup Events!AtWork
      /\ UNCHANGED <<journal, stop, permits, after, received, emitted, faults>>
  BY <1>1 DEF Events!Show, Events!ThreadAfter, Events!AtWork, Events!EventInvariant, Events!TypeOK
<1>3. Events!Up'
  BY <1>1, <1>2 DEF Events!Up, Events!EventsAssumption
<1>4. Events!TypeOK' /\ Events!SlotsAreHeld' /\ Events!NumbersDiffer'
  BY <1>1, <1>2 DEF Events!EventInvariant, Events!TypeOK, Events!SlotsAreHeld,
                    Events!NumbersDiffer, Events!Delivered
<1>5. /\ Events!WellNumbered(journal)' /\ Events!Holds(journal)' /\ Events!InOrder(journal)'
      /\ Events!WellNumbered(job)' /\ Events!Holds(job)' /\ Events!InOrder(job)'
  BY <1>1, <1>2 DEF Events!WellNumbered, Events!Holds, Events!InOrder, Events!Delivered
<1>6. \A c \in Clients : (after[c] # None => after[c] = Events!LastEventId(c))'
  BY <1>2 DEF Events!EventInvariant, Events!LastEventId
<1> QED
  BY <1>2, <1>3, <1>4, <1>5, <1>6 DEF Events!EventInvariant

\* A write that fails leaves the change out of the memory; it may be in the journal.
LEMMA FailStep ==
  ASSUME Events!EventsAssumption, Events!EventInvariant, Events!PersistFails
  PROVE  Events!EventInvariant'
<1>1. /\ pending' = None /\ faults' \in Nat /\ Events!Up'
      /\ stop' \in {"no", "error", "shutdown"}
      /\ thread' \in {"idle", "picked", "ended", "off"} \cup Events!AtWork
      /\ UNCHANGED <<job, journal, permits, after, received, emitted>>
  BY DEF Events!PersistFails, Events!FailedUpdate, Events!Ends, Events!AtWork, Events!Fault,
         Events!Up, Events!EventInvariant, Events!TypeOK
<1>2. Events!TypeOK' /\ Events!SlotsAreHeld' /\ Events!NumbersDiffer'
  BY <1>1 DEF Events!EventInvariant, Events!TypeOK, Events!SlotsAreHeld,
              Events!NumbersDiffer, Events!Delivered
<1>3. /\ Events!WellNumbered(journal)' /\ Events!Holds(journal)' /\ Events!InOrder(journal)'
  BY <1>1 DEF Events!EventInvariant, Events!WellNumbered, Events!Holds, Events!InOrder,
              Events!Delivered
<1>4. /\ Events!WellNumbered(job)' /\ Events!Holds(job)' /\ Events!InOrder(job)'
      /\ (journal = job \/ Events!IsNext(job, journal))'
  BY <1>1 DEF Events!EventInvariant, Events!WellNumbered, Events!Holds, Events!InOrder,
              Events!Delivered, Events!IsNext, Events!PersistFails, Events!Up
<1>5. \A c \in Clients : (after[c] # None => after[c] = Events!LastEventId(c))'
  BY <1>1 DEF Events!EventInvariant, Events!LastEventId
<1> QED
  BY <1>1, <1>2, <1>3, <1>4, <1>5 DEF Events!EventInvariant

\* A crash leaves the journal, and frees the slots with their streams; a service that exits
\* has none.
LEMMA CrashStep ==
  ASSUME Events!EventsAssumption, Events!EventInvariant, Events!Crash \/ Events!Exit
  PROVE  Events!EventInvariant'
<1>1. /\ ~Events!Up' /\ pending' = None /\ faults' \in Nat /\ thread' = "off"
      /\ \/ permits' = MaxStreams /\ after' = [c \in Clients |-> None]
         \/ UNCHANGED <<permits, after>>
      /\ MaxStreams \in Nat /\ UNCHANGED <<journal, stop, received, emitted>>
  BY DEF Events!Crash, Events!Exit, Events!Unlocked, Events!Fault, Events!Up,
         Events!EventInvariant, Events!TypeOK, Events!EventsAssumption
<1>2. Events!TypeOK' /\ Events!NumbersDiffer'
  <2>1. job' = None /\ pending' = None
    BY <1>1 DEF Events!Up
  <2>2. permits' \in 0..MaxStreams /\ after' \in [Clients -> Nat \cup {None}]
    BY <1>1 DEF Events!EventInvariant, Events!TypeOK
  <2>3. Events!TypeOK'
    BY <1>1, <2>1, <2>2 DEF Events!EventInvariant, Events!TypeOK
  <2>4. Events!NumbersDiffer'
    BY <1>1 DEF Events!EventInvariant, Events!NumbersDiffer, Events!Delivered
  <2> QED  BY <2>3, <2>4
<1>3. Events!SlotsAreHeld'
  <2>1. CASE permits' = MaxStreams /\ after' = [c \in Clients |-> None]
    <3>1. {c \in Clients : after'[c] # None} = {}
      BY <2>1
    <3> QED
      BY <1>1, <2>1, <3>1, FS_EmptySet, EventsCardinality DEF Events!SlotsAreHeld
  <2>2. CASE UNCHANGED <<permits, after>>
    BY <2>2 DEF Events!EventInvariant, Events!SlotsAreHeld
  <2> QED  BY <1>1, <2>1, <2>2
<1>4. /\ Events!WellNumbered(journal)' /\ Events!Holds(journal)' /\ Events!InOrder(journal)'
  BY <1>1 DEF Events!EventInvariant, Events!WellNumbered, Events!Holds, Events!InOrder,
              Events!Delivered
<1>5. \A c \in Clients : (after[c] # None => after[c] = Events!LastEventId(c))'
  BY <1>1 DEF Events!EventInvariant, Events!LastEventId
<1> QED
  BY <1>1, <1>2, <1>3, <1>4, <1>5 DEF Events!EventInvariant

\* Recovery numbers on from the journal.
LEMMA RecoveryKeeps ==
  ASSUME Events!EventsAssumption, Events!EventInvariant
  PROVE  /\ Events!Recovered \in Events!Records /\ Events!WellNumbered(Events!Recovered)
         /\ Events!Holds(Events!Recovered) /\ Events!InOrder(Events!Recovered)
<1> DEFINE r == Events!Recovered
<1>1. /\ journal \in Events!Records /\ emitted \in Nat
      /\ Events!WellNumbered(journal) /\ Events!Holds(journal) /\ Events!InOrder(journal)
  BY DEF Events!EventInvariant, Events!TypeOK
<1>2. CASE journal.status \in Events!Active
  <2>1. journal # Events!Gone
    BY <1>2 DEF Events!Gone, Events!Active
  <2>2. r = Events!WithEvent(journal, "failed") /\ "failed" \in Events!Active \cup Events!Terminal
    BY <1>2 DEF Events!Recovered, Events!Terminal
  <2> HIDE DEF r
  <2>3. r \in Events!Records /\ Events!IsNext(journal, r) /\ Events!WellNumbered(r)
    BY <1>1, <2>1, <2>2, WithEventIsNext
  <2>4. Events!Delivered \subseteq Events!Events
    BY DeliveredAreEvents DEF Events!EventInvariant
  <2>5. Events!Holds(r) /\ Events!InOrder(r)
    BY <1>1, <2>3, <2>4, NextKeeps
  <2> QED  BY <2>3, <2>5 DEF r
<1>3. CASE journal.status \notin Events!Active
  BY <1>1, <1>3 DEF Events!Recovered
<1> QED
  BY <1>2, <1>3

\* A restart shows what it has recovered; one that fails has it in the journal at most.
LEMMA RestartStep ==
  ASSUME Events!EventsAssumption, Events!EventInvariant, Events!Restart \/ Events!RestartFails
  PROVE  Events!EventInvariant'
<1>1. PICK r \in Events!Records :
        r = Events!Recovered /\ Events!WellNumbered(r) /\ Events!Holds(r) /\ Events!InOrder(r)
  BY RecoveryKeeps
<1>2. /\ pending = None /\ pending' = None /\ journal' = r /\ emitted' \in Nat /\ faults' \in Nat
      /\ stop' \in {"no", "error", "shutdown"}
      /\ thread' \in {"idle", "picked", "ended", "off"} \cup Events!AtWork
      /\ UNCHANGED <<permits, after, received>>
      /\ job' = r \/ job' = None
  BY <1>1 DEF Events!Restart, Events!RestartFails, Events!Fault, Events!EventInvariant,
              Events!TypeOK, Events!Up
<1>3. Events!TypeOK'
  BY <1>2 DEF Events!EventInvariant, Events!TypeOK
<1>4. Events!SlotsAreHeld' /\ Events!NumbersDiffer'
  BY <1>2 DEF Events!EventInvariant, Events!SlotsAreHeld, Events!NumbersDiffer, Events!Delivered
<1>5. Events!WellNumbered(journal)' /\ Events!Holds(journal)' /\ Events!InOrder(journal)'
  BY <1>1, <1>2 DEF Events!WellNumbered, Events!Holds, Events!InOrder, Events!Delivered
<1>6. \A c \in Clients : (after[c] # None => after[c] = Events!LastEventId(c))'
  BY <1>2 DEF Events!EventInvariant, Events!LastEventId
<1>7. CASE job' = None
  <2>1. ~Events!Up'
    BY <1>7 DEF Events!Up
  <2> QED  BY <1>2, <1>3, <1>4, <1>5, <1>6, <2>1 DEF Events!EventInvariant
<1>8. CASE job' = r
  <2>1. Events!WellNumbered(job)' /\ Events!Holds(job)' /\ Events!InOrder(job)'
    BY <1>1, <1>2, <1>8 DEF Events!WellNumbered, Events!Holds, Events!InOrder, Events!Delivered
  <2>2. Events!Up'
    BY <1>8 DEF Events!Up, Events!EventsAssumption
  <2> QED  BY <1>2, <1>3, <1>4, <1>5, <1>6, <1>8, <2>1, <2>2 DEF Events!EventInvariant
<1> QED
  BY <1>2, <1>7, <1>8

\* A stream that is opened takes a slot, and goes on behind what its client has.
LEMMA ConnectStep ==
  ASSUME Events!EventsAssumption, Events!EventInvariant, NEW c \in Clients, Events!Connect(c)
  PROVE  Events!EventInvariant'
<1> DEFINE open == {d \in Clients : after[d] # None}
<1>1. /\ after[c] = None /\ permits > 0 /\ permits' = permits - 1 /\ permits \in 0..MaxStreams
      /\ MaxStreams \in Nat /\ after' = [after EXCEPT ![c] = Events!LastEventId(c)]
      /\ after \in [Clients -> Nat \cup {None}] /\ received \in [Clients -> Seq(Events!Events)]
      /\ UNCHANGED <<job, journal, pending, stop, thread, received, emitted, faults>>
  BY DEF Events!Connect, Events!EventInvariant, Events!TypeOK, Events!EventsAssumption
<1>2. Events!LastEventId(c) \in Nat /\ Events!LastEventId(c) # None
  <2>1. Events!LastEventId(c) \in Nat
    <3>1. CASE received[c] = <<>>
      BY <3>1 DEF Events!LastEventId
    <3>2. CASE received[c] # <<>>
      <4>1. Len(received[c]) \in 1..Len(received[c])
        BY <1>1, <3>2, EmptySeq, LenProperties
      <4>2. received[c][Len(received[c])] \in Events!Events
        BY <1>1, <4>1, ElementOfSeq
      <4> QED
        BY <3>2, <4>2 DEF Events!LastEventId, Events!Last, Events!Events
    <3> QED  BY <3>1, <3>2
  <2> QED
    BY <2>1 DEF Events!EventsAssumption
<1>3. permits' \in 0..MaxStreams /\ after' \in [Clients -> Nat \cup {None}]
  BY <1>1, <1>2
<1>4. Events!TypeOK' /\ Events!NumbersDiffer'
  BY <1>1, <1>3 DEF Events!EventInvariant, Events!TypeOK, Events!NumbersDiffer,
                    Events!Delivered
<1>5. Events!SlotsAreHeld'
  <2>1. {d \in Clients : after'[d] # None} = open \cup {c}
    BY <1>1, <1>2
  <2>2. c \notin open /\ IsFiniteSet(open)
    <3>1. IsFiniteSet(Clients) /\ open \in SUBSET Clients
      BY EventsCardinality DEF Events!EventsAssumption
    <3> QED  BY <1>1, <3>1, FS_Subset
  <2>3. Cardinality(open \cup {c}) = Cardinality(open) + 1 /\ Cardinality(open) \in Nat
    BY <2>2, FS_AddElement, FS_CardinalityType
  <2>4. permits + Cardinality(open) = MaxStreams
    BY EventsCardinality DEF Events!EventInvariant, Events!SlotsAreHeld
  <2> HIDE DEF open
  <2>5. permits' + Cardinality(open \cup {c}) = MaxStreams
    BY <1>1, <2>3, <2>4
  <2>6. UNCHANGED MaxStreams
    OBVIOUS
  <2> QED
    BY <2>1, <2>5, EventsCardinality DEF Events!SlotsAreHeld
<1>6. /\ Events!WellNumbered(journal)' /\ Events!Holds(journal)' /\ Events!InOrder(journal)'
      /\ Events!Up' = Events!Up
      /\ Events!Up => /\ Events!WellNumbered(job)' /\ Events!Holds(job)' /\ Events!InOrder(job)'
                      /\ (journal = job \/ Events!IsNext(job, journal))'
  BY <1>1 DEF Events!EventInvariant, Events!WellNumbered, Events!Holds, Events!InOrder,
              Events!Delivered, Events!IsNext, Events!Up
<1>7. (pending # None => /\ Events!WellNumbered(pending.record)
                         /\ pending.record = job \/ Events!IsNext(job, pending.record)
                         /\ pending.renamed => journal = pending.record)'
  BY <1>1 DEF Events!EventInvariant, Events!WellNumbered, Events!IsNext
<1>8. \A d \in Clients : (after[d] # None => after[d] = Events!LastEventId(d))'
  BY <1>1 DEF Events!EventInvariant, Events!LastEventId
<1>9. (~Events!Up => pending = None)'
  BY <1>1, <1>6 DEF Events!EventInvariant
<1> QED
  BY <1>4, <1>5, <1>6, <1>7, <1>8, <1>9 DEF Events!EventInvariant

\* A stream that ends or is lost gives its slot back, once.
LEMMA CloseStep ==
  ASSUME Events!EventsAssumption, Events!EventInvariant, NEW c \in Clients, Events!Close(c),
         faults' \in Nat
  PROVE  Events!EventInvariant'
<1> DEFINE open == {d \in Clients : after[d] # None}
<1>1. /\ after[c] # None /\ permits' = permits + 1 /\ permits \in 0..MaxStreams
      /\ MaxStreams \in Nat /\ after' = [after EXCEPT ![c] = None]
      /\ after \in [Clients -> Nat \cup {None}]
      /\ UNCHANGED <<job, journal, pending, stop, thread, received, emitted>>
  BY DEF Events!Close, Events!EventInvariant, Events!TypeOK, Events!EventsAssumption
<1>2. /\ {d \in Clients : after'[d] # None} = open \ {c}
      /\ Cardinality(open \ {c}) = Cardinality(open) - 1 /\ Cardinality(open) \in Nat
      /\ Cardinality(open \ {c}) \in Nat
  <2>1. {d \in Clients : after'[d] # None} = open \ {c}
    BY <1>1
  <2>2. c \in open /\ IsFiniteSet(open)
    <3>1. IsFiniteSet(Clients) /\ open \in SUBSET Clients
      BY EventsCardinality DEF Events!EventsAssumption
    <3> QED  BY <1>1, <3>1, FS_Subset
  <2> HIDE DEF open
  <2>3. IsFiniteSet(open \ {c}) /\ Cardinality(open \ {c}) = Cardinality(open) - 1
    BY <2>2, FS_RemoveElement
  <2> QED  BY <2>1, <2>2, <2>3, FS_CardinalityType
<1>3. permits + Cardinality(open) = MaxStreams
  BY EventsCardinality DEF Events!EventInvariant, Events!SlotsAreHeld
<1>4. /\ permits' \in 0..MaxStreams /\ after' \in [Clients -> Nat \cup {None}]
      /\ permits' + Cardinality(open \ {c}) = MaxStreams
  <2> HIDE DEF open
  <2> QED  BY <1>1, <1>2, <1>3
<1>5. Events!SlotsAreHeld'
  BY <1>2, <1>4, EventsCardinality DEF Events!SlotsAreHeld
<1>6. Events!TypeOK' /\ Events!NumbersDiffer'
  <2>1. Events!TypeOK'
    BY <1>1, <1>4 DEF Events!EventInvariant, Events!TypeOK
  <2>2. Events!NumbersDiffer'
    BY <1>1 DEF Events!EventInvariant, Events!NumbersDiffer, Events!Delivered
  <2> QED  BY <2>1, <2>2
<1>7. /\ Events!WellNumbered(journal)' /\ Events!Holds(journal)' /\ Events!InOrder(journal)'
      /\ Events!Up' = Events!Up
      /\ Events!Up => /\ Events!WellNumbered(job)' /\ Events!Holds(job)' /\ Events!InOrder(job)'
                      /\ (journal = job \/ Events!IsNext(job, journal))'
  BY <1>1 DEF Events!EventInvariant, Events!WellNumbered, Events!Holds, Events!InOrder,
              Events!Delivered, Events!IsNext, Events!Up
<1>8. (pending # None => /\ Events!WellNumbered(pending.record)
                         /\ pending.record = job \/ Events!IsNext(job, pending.record)
                         /\ pending.renamed => journal = pending.record)'
  BY <1>1 DEF Events!EventInvariant, Events!WellNumbered, Events!IsNext
<1>9. \A d \in Clients : (after[d] # None => after[d] = Events!LastEventId(d))'
  BY <1>1 DEF Events!EventInvariant, Events!LastEventId
<1>10. (~Events!Up => pending = None)'
  BY <1>1, <1>7 DEF Events!EventInvariant
<1> QED
  BY <1>5, <1>6, <1>7, <1>8, <1>9, <1>10 DEF Events!EventInvariant

\* The event that is sent is the first behind what the client has: without gaps, the next.
LEMMA SentEvent ==
  ASSUME Events!EventsAssumption, Events!EventInvariant, NEW c \in Clients, Events!Deliver(c)
  PROVE  \E e \in Events!Events :
           /\ e \in Events!ToSet(job.events)
           /\ received' = [received EXCEPT ![c] = Append(@, e)]
           /\ after' = [after EXCEPT ![c] = e.sequence]
           /\ Events!Last(job.events).sequence <= MaxEvents =>
                e.sequence = Len(received[c]) + 1
<1> DEFINE unseen == Events!Unseen(c)
           k == CHOOSE i \in unseen : \A j \in unseen : i <= j
           e == job.events[k]
           l == Len(job.events)
           n == Len(received[c])
<1>1. /\ job \in Events!Records /\ unseen # {} /\ after[c] \in Nat /\ job # Events!Gone
      /\ Events!WellNumbered(job) /\ Events!InOrder(job) /\ after[c] = Events!LastEventId(c)
      /\ received[c] \in Seq(Events!Events) /\ MaxEvents \in Nat
      /\ job.events \in Seq(Events!Events)
  <2>1. /\ job \in Events!Records /\ unseen # {} /\ after[c] \in Nat
        /\ Events!WellNumbered(job) /\ Events!InOrder(job) /\ after[c] = Events!LastEventId(c)
        /\ received[c] \in Seq(Events!Events) /\ MaxEvents \in Nat
    BY DEF Events!Deliver, Events!Readable, Events!Serving, Events!Up, Events!EventInvariant,
           Events!TypeOK, Events!EventsAssumption
  <2>2. CASE job = Events!Gone
    <3>1. DOMAIN job.events = {}
      BY <2>2 DEF Events!Gone
    <3> QED  BY <2>1, <3>1 DEF Events!Unseen
  <2> QED  BY <2>1, <2>2 DEF Events!Records
<1>2. /\ l \in 1..MaxEvents /\ DOMAIN job.events = 1..l
      /\ l = MaxEvents \/ job.events[1].sequence = 1
      /\ \A i \in 1..l : job.events[i].sequence = job.events[1].sequence + i - 1
      /\ \A i \in 1..l : job.events[i] \in Events!Events
  <2>1. DOMAIN job.events = 1..l
    BY <1>1, LenProperties
  <2>2. \A i \in 1..l : job.events[i] \in Events!Events
    BY <1>1, ElementOfSeq
  <2> QED  BY <1>1, <2>1, <2>2 DEF Events!WellNumbered
<1>3. unseen = {i \in 1..l : job.events[i].sequence > after[c]}
  BY <1>2 DEF Events!Unseen
<1>4. k \in unseen /\ \A j \in unseen : k <= j
  <2>1. unseen \subseteq Nat
    BY <1>3
  <2> HIDE DEF unseen
  <2>2. \E i \in unseen : \A j \in unseen : i <= j
    BY <1>1, <2>1, HasLeast
  <2> QED  BY <2>2
<1> HIDE DEF unseen, k
<1>5. k \in 1..l /\ e \in Events!Events /\ e \in Events!ToSet(job.events)
  <2>1. k \in 1..l
    BY <1>3, <1>4
  <2> QED  BY <1>2, <2>1 DEF Events!ToSet
<1>6. received' = [received EXCEPT ![c] = Append(@, e)] /\ after' = [after EXCEPT ![c] = e.sequence]
  BY DEF Events!Deliver, k, unseen
<1>7. ASSUME Events!Last(job.events).sequence <= MaxEvents
      PROVE  e.sequence = n + 1
  <2>1. PICK f \in Nat \ {0} : f = job.events[1].sequence
    <3>1. 1 \in 1..l
      BY <1>2
    <3> QED  BY <1>2, <3>1 DEF Events!Events
  <2>2. f = 1
    <3>1. Events!Last(job.events).sequence = f + l - 1
      BY <1>2, <2>1 DEF Events!Last
    <3>2. f + l - 1 <= MaxEvents
      BY <1>7, <3>1
    <3>3. l \in Nat /\ (l = MaxEvents \/ f = 1)
      BY <1>2, <2>1
    <3> HIDE DEF l
    <3> QED  BY <1>1, <3>2, <3>3
  <2>3. \A i \in 1..l : job.events[i].sequence = i
    <3>1. \A i \in 1..l : job.events[i].sequence = 1 + i - 1
      BY <1>2, <2>1, <2>2
    <3>2. \A i \in 1..l : 1 + i - 1 = i
      OBVIOUS
    <3> QED  BY <3>1, <3>2
  <2>4. after[c] = n
    <3>1. n \in Nat /\ DOMAIN received[c] = 1..n
      BY <1>1, LenProperties
    <3>2. CASE received[c] = <<>>
      BY <1>1, <3>2 DEF Events!LastEventId
    <3>3. CASE received[c] # <<>>
      <4>1. n \in 1..n
        BY <1>1, <3>1, <3>3, EmptySeq
      <4>2. received[c][n].sequence = n
        BY <1>1, <1>7, <3>1, <4>1 DEF Events!InOrder
      <4> QED  BY <1>1, <3>3, <4>2 DEF Events!LastEventId, Events!Last
    <3> QED  BY <3>2, <3>3
  <2>5. unseen = {i \in 1..l : i > n}
    BY <1>3, <2>3, <2>4
  <2>6. n \in Nat /\ l \in Nat
    BY <1>1, <1>2
  <2> HIDE DEF n, l
  <2>7. n + 1 \in unseen
    BY <1>4, <1>5, <2>5, <2>6
  <2>8. k = n + 1
    BY <1>4, <1>5, <2>5, <2>6, <2>7
  <2> QED  BY <1>5, <2>3, <2>8
<1> QED
  BY <1>5, <1>6, <1>7

\* What is sent is in the record in memory and so held or dropped by the journal.
LEMMA DeliverStep ==
  ASSUME Events!EventsAssumption, Events!EventInvariant, NEW c \in Clients, Events!Deliver(c)
  PROVE  Events!EventInvariant'
<1>1. PICK e \in Events!Events :
         /\ e \in Events!ToSet(job.events)
         /\ received' = [received EXCEPT ![c] = Append(@, e)]
         /\ after' = [after EXCEPT ![c] = e.sequence]
         /\ Events!Last(job.events).sequence <= MaxEvents => e.sequence = Len(received[c]) + 1
  BY SentEvent
<1>2. /\ Events!Up /\ pending = None /\ job \in Events!Records /\ journal \in Events!Records
      /\ after[c] # None /\ after \in [Clients -> Nat \cup {None}]
      /\ received \in [Clients -> Seq(Events!Events)]
      /\ Events!WellNumbered(job) /\ Events!Holds(job) /\ Events!InOrder(job)
      /\ Events!WellNumbered(journal) /\ Events!Holds(journal) /\ Events!InOrder(journal)
      /\ journal = job \/ Events!IsNext(job, journal)
      /\ UNCHANGED <<job, journal, pending, stop, thread, permits, emitted, faults>>
  BY DEF Events!Deliver, Events!Readable, Events!Serving, Events!Up, Events!EventInvariant,
         Events!TypeOK
<1>3. /\ Append(received[c], e) \in Seq(Events!Events)
      /\ Len(Append(received[c], e)) = Len(received[c]) + 1
      /\ \A i \in 1..Len(received[c]) : Append(received[c], e)[i] = received[c][i]
      /\ Append(received[c], e)[Len(received[c]) + 1] = e
      /\ Append(received[c], e) # <<>> /\ Len(received[c]) \in Nat
  <2>1. received[c] \in Seq(Events!Events)
    BY <1>2
  <2> QED  BY <2>1, AppendProperties, LenProperties
<1>4. e.sequence \in Nat /\ e.sequence # None
  BY DEF Events!Events, Events!EventsAssumption
<1>5. /\ received' \in [Clients -> Seq(Events!Events)]
      /\ after' \in [Clients -> Nat \cup {None}]
      /\ received'[c] = Append(received[c], e)
      /\ \A d \in Clients \ {c} : received'[d] = received[d] /\ after'[d] = after[d]
      /\ after'[c] = e.sequence
  BY <1>1, <1>2, <1>3, <1>4
<1>6. Events!TypeOK'
  BY <1>2, <1>5 DEF Events!EventInvariant, Events!TypeOK
<1>7. Events!SlotsAreHeld'
  <2>1. {d \in Clients : after'[d] # None} = {d \in Clients : after[d] # None}
    BY <1>2, <1>4, <1>5
  <2> QED  BY <1>2, <2>1 DEF Events!EventInvariant, Events!SlotsAreHeld
<1>8. Events!Delivered' \subseteq Events!Delivered \cup {e} /\ Events!Delivered \subseteq Events!Events
  <2>1. Events!ToSet(received'[c]) = Events!ToSet(received[c]) \cup {e}
    <3>1. DOMAIN received'[c] = 1..(Len(received[c]) + 1) /\ DOMAIN received[c] = 1..Len(received[c])
      BY <1>2, <1>3, <1>5, LenProperties
    <3>2. \A i \in 1..(Len(received[c]) + 1) : i \in 1..Len(received[c]) \/ i = Len(received[c]) + 1
      BY <1>3
    <3> QED  BY <1>3, <1>5, <3>1, <3>2 DEF Events!ToSet
  <2>2. \A d \in Clients : Events!ToSet(received'[d]) \subseteq Events!Delivered \cup {e}
    BY <1>5, <2>1 DEF Events!Delivered
  <2>3. Events!Delivered' = UNION {Events!ToSet(received'[d]) : d \in Clients}
    BY DEF Events!Delivered, Events!ToSet
  <2>4. Events!Delivered \subseteq Events!Events
    BY DeliveredAreEvents DEF Events!EventInvariant
  <2> QED  BY <2>2, <2>3, <2>4
<1>9. job # Events!Gone /\ \E i \in 1..Len(job.events) : e = job.events[i]
  <2>1. job.events \in Seq(Events!Events) /\ \E i \in DOMAIN job.events : e = job.events[i]
    BY <1>1, <1>2 DEF Events!ToSet, Events!Records
  <2>2. job # Events!Gone
    BY <2>1 DEF Events!Gone
  <2> QED  BY <2>1, <2>2, LenProperties
<1>10. \A d \in Events!Delivered : d.sequence = e.sequence => d = e
  <2> SUFFICES ASSUME NEW d \in Events!Delivered, d.sequence = e.sequence
               PROVE  d = e
    OBVIOUS
  <2>1. /\ \A i \in 1..Len(job.events) :
             job.events[i].sequence = job.events[1].sequence + i - 1
        /\ job.events[1].sequence \in Nat /\ DOMAIN job.events = 1..Len(job.events)
    <3>1. /\ job.events \in Seq(Events!Events)
          /\ Len(job.events) \in 1..MaxEvents /\ DOMAIN job.events = 1..Len(job.events)
          /\ \A i \in DOMAIN job.events :
               job.events[i].sequence = job.events[1].sequence + i - 1
      BY <1>2, <1>9, LenProperties DEF Events!Records, Events!WellNumbered
    <3>2. job.events[1] \in Events!Events
      <4>1. 1 \in 1..Len(job.events)
        BY <3>1, <1>9
      <4> QED  BY <3>1, <4>1, ElementOfSeq
    <3> QED  BY <3>1, <3>2 DEF Events!Events
  <2>2. PICK f \in Nat : f = job.events[1].sequence
    BY <2>1
  <2>3. PICK i \in 1..Len(job.events) : e = job.events[i]
    BY <1>9
  <2>4. e.sequence = f + i - 1
    BY <2>1, <2>2, <2>3
  <2>5. ~(d.sequence < f)
    BY <2>2, <2>3, <2>4
  <2>6. PICK j \in 1..Len(job.events) : d = job.events[j]
    BY <1>2, <1>9, <2>1, <2>2, <2>5 DEF Events!Holds, Events!ToSet
  <2>7. d.sequence = f + j - 1
    BY <2>1, <2>2, <2>6
  <2>8. i = j
    BY <2>4, <2>7
  <2> QED  BY <2>3, <2>6, <2>8
<1>11. Events!NumbersDiffer'
  BY <1>8, <1>10 DEF Events!EventInvariant, Events!NumbersDiffer
<1>12. Events!Holds(job)' /\ Events!WellNumbered(job)'
  <2>1. \A d \in Events!Delivered' :
          d \in Events!ToSet(job.events) \/ d.sequence < job.events[1].sequence
    BY <1>1, <1>2, <1>8, <1>9 DEF Events!Holds
  <2> QED  BY <1>2, <2>1 DEF Events!Holds, Events!WellNumbered, Events!ToSet
<1>13. Events!InOrder(job)'
  <2> SUFFICES ASSUME Events!Last(job.events).sequence <= MaxEvents,
                      NEW d \in Clients, NEW i \in DOMAIN received'[d]
               PROVE  received'[d][i].sequence = i
    BY <1>2 DEF Events!InOrder, Events!Last
  <2>1. \A b \in Clients : \A j \in DOMAIN received[b] : received[b][j].sequence = j
    BY <1>2, <1>9 DEF Events!InOrder
  <2>2. CASE d # c
    BY <1>5, <2>1, <2>2
  <2>3. CASE d = c
    <3>1. DOMAIN received'[c] = 1..(Len(received[c]) + 1) /\ DOMAIN received[c] = 1..Len(received[c])
      BY <1>2, <1>3, <1>5, LenProperties
    <3>2. CASE i \in 1..Len(received[c])
      BY <1>3, <1>5, <2>1, <2>3, <3>1, <3>2
    <3>3. CASE i = Len(received[c]) + 1
      BY <1>1, <1>3, <1>5, <2>3, <3>3
    <3>4. i \in 1..Len(received[c]) \/ i = Len(received[c]) + 1
      BY <1>3, <2>3, <3>1
    <3> QED  BY <3>2, <3>3, <3>4
  <2> QED  BY <2>2, <2>3
<1>14. Events!Holds(journal)' /\ Events!InOrder(journal)' /\ Events!WellNumbered(journal)'
  <2>1. CASE journal = job
    BY <1>2, <1>12, <1>13, <2>1 DEF Events!Holds, Events!InOrder, Events!WellNumbered
  <2>2. CASE journal = Events!Gone
    BY <1>2, <2>2 DEF Events!Holds, Events!InOrder, Events!WellNumbered, Events!Gone
  <2>3. CASE journal # Events!Gone /\ Events!IsNext(job, journal)
    <3>1. /\ \A d \in Events!Events :
               d \in Events!ToSet(job.events) \/ d.sequence < job.events[1].sequence =>
                 d \in Events!ToSet(journal.events) \/ d.sequence < journal.events[1].sequence
          /\ Events!Last(journal.events).sequence <= MaxEvents =>
               Events!Last(job.events).sequence <= MaxEvents
      BY <1>2, <2>3, NextCovers
    <3>2. \A d \in Events!Delivered' : d \in Events!Events
      BY <1>8
    <3>3. \A d \in Events!Delivered' :
            d \in Events!ToSet(job.events) \/ d.sequence < job.events[1].sequence
      BY <1>1, <1>2, <1>8, <1>9 DEF Events!Holds
    <3>4. Events!Holds(journal)'
      BY <1>2, <3>1, <3>2, <3>3 DEF Events!Holds, Events!ToSet
    <3>5. Events!InOrder(journal)'
      BY <1>2, <1>9, <1>13, <3>1 DEF Events!InOrder, Events!Last
    <3> QED  BY <1>2, <3>4, <3>5 DEF Events!WellNumbered
  <2> QED  BY <1>2, <2>1, <2>2, <2>3
<1>15. \A d \in Clients : (after[d] # None => after[d] = Events!LastEventId(d))'
  <2>1. Events!LastEventId(c)' = e.sequence
    BY <1>3, <1>5 DEF Events!LastEventId, Events!Last
  <2>2. \A d \in Clients \ {c} : after'[d] # None => after'[d] = Events!LastEventId(d)'
    BY <1>5 DEF Events!EventInvariant, Events!LastEventId, Events!Last
  <2> QED  BY <1>5, <2>1, <2>2
<1>16. (journal = job \/ Events!IsNext(job, journal))' /\ Events!Up' /\ pending' = None
  BY <1>2 DEF Events!IsNext, Events!Up
<1> QED
  BY <1>6, <1>7, <1>11, <1>12, <1>13, <1>14, <1>15, <1>16 DEF Events!EventInvariant

\* A job that was just submitted has one event and no streams.
LEMMA EventsInit ==
  ASSUME Events!EventsAssumption, Events!Init
  PROVE  Events!EventInvariant
<1> DEFINE e == Events!Event(1, "queued", 1)
<1>1. /\ job = [status |-> "queued", events |-> <<e>>] /\ journal = job
      /\ pending = None /\ stop = "no" /\ thread = "idle" /\ permits = MaxStreams /\ MaxStreams \in Nat
      /\ after = [c \in Clients |-> None] /\ received = [c \in Clients |-> <<>>]
      /\ emitted = 1 /\ faults = 0 /\ MaxEvents \in Nat \ {0, 1}
  BY DEF Events!Init, Events!EventsAssumption
<1>2. e \in Events!Events /\ e.sequence = 1
  BY DEF Events!Event, Events!Events, Events!Active
<1> HIDE DEF e
<1>3. <<e>> \in Seq(Events!Events) /\ Len(<<e>>) = 1 /\ <<e>>[1] = e /\ DOMAIN <<e>> = 1..1
  BY <1>2
<1>4. job \in Events!Records /\ Events!Up /\ job # Events!Gone
  <2>1. job \in Events!Records
    BY <1>1, <1>3 DEF Events!Records, Events!Active
  <2>2. job.status # Events!Gone.status
    BY <1>1 DEF Events!Gone
  <2> QED  BY <2>1, <2>2 DEF Events!Up, Events!EventsAssumption
<1>5. Events!Delivered = {}
  BY <1>1 DEF Events!Delivered, Events!ToSet
<1>6. Events!TypeOK
  <2>1. received \in [Clients -> Seq(Events!Events)]
    BY <1>1, EmptySeq
  <2>2. after \in [Clients -> Nat \cup {None}] /\ permits \in 0..MaxStreams
    BY <1>1
  <2>3. journal \in Events!Records /\ emitted \in Nat /\ faults \in Nat
    BY <1>1, <1>4
  <2> QED  BY <1>1, <1>4, <2>1, <2>2, <2>3 DEF Events!TypeOK
<1>7. Events!SlotsAreHeld
  <2>1. {c \in Clients : after[c] # None} = {}
    BY <1>1
  <2>2. Events!Cardinality({}) = 0
    BY FS_EmptySet, EventsCardinality
  <2>3. permits = MaxStreams /\ MaxStreams \in Nat
    BY <1>1
  <2>4. Events!Cardinality({c \in Clients : after[c] # None}) = 0
    BY <2>1, <2>2, Zenon
  <2>5. PICK n : n = Events!Cardinality({c \in Clients : after[c] # None})
    OBVIOUS
  <2>6. permits + n = MaxStreams
    BY <2>3, <2>4, <2>5
  <2> QED  BY <2>5, <2>6 DEF Events!SlotsAreHeld
<1>8. Events!WellNumbered(job)
  <2>1. Len(job.events) = 1 /\ DOMAIN job.events = 1..1 /\ job.events[1].sequence = 1
        /\ job.status = "queued"
    BY <1>1, <1>2, <1>3
  <2>2. \A i \in DOMAIN job.events : job.events[i].sequence = job.events[1].sequence + i - 1
    BY <2>1
  <2>3. 1 \in 1..MaxEvents
    BY <1>1
  <2> QED  BY <2>1, <2>2, <2>3 DEF Events!WellNumbered
<1>9. Events!Holds(job) /\ Events!InOrder(job) /\ Events!NumbersDiffer
  <2>1. \A c \in Clients : DOMAIN received[c] = {}
    BY <1>1
  <2> QED  BY <1>5, <2>1 DEF Events!Holds, Events!InOrder, Events!NumbersDiffer
<1> QED
  BY <1>1, <1>4, <1>6, <1>7, <1>8, <1>9 DEF Events!EventInvariant

\* Every step keeps the invariant.
LEMMA EventsStep ==
  ASSUME Events!EventsAssumption, Events!EventInvariant, [Events!Next]_Events!vars
  PROVE  Events!EventInvariant'
<1>1. CASE \/ Events!Begin \/ Events!Progress \/ Events!Finish
           \/ Events!Cancel \/ Events!Supersede \/ Events!Evict \/ Events!ChangeOther
  BY <1>1, ChangeStep
<1>2. CASE Events!Pick \/ Events!LoseJob \/ Events!Poll \/ Events!Shutdown
  BY <1>2, ThreadStep
<1>3. CASE Events!RenameJournal
  BY <1>3, RenameStep
<1>4. CASE Events!Show
  BY <1>4, ShowStep
<1>5. CASE Events!PersistFails
  BY <1>5, FailStep
<1>6. CASE Events!Crash \/ Events!Exit
  BY <1>6, CrashStep
<1>7. CASE Events!Restart \/ Events!RestartFails
  BY <1>7, RestartStep
<1>8. ASSUME NEW c \in Clients, Events!Connect(c)
      PROVE  Events!EventInvariant'
  BY <1>8, ConnectStep
<1>9. ASSUME NEW c \in Clients, Events!Deliver(c)
      PROVE  Events!EventInvariant'
  BY <1>9, DeliverStep
<1>10. ASSUME NEW c \in Clients, Events!EndStream(c) \/ Events!LoseStream(c)
       PROVE  Events!EventInvariant'
  <2>1. Events!Close(c) /\ faults' \in Nat
    BY <1>10 DEF Events!EndStream, Events!LoseStream, Events!Fault, Events!EventInvariant,
                 Events!TypeOK
  <2> QED  BY <2>1, CloseStep
<1>11. CASE UNCHANGED Events!vars
  <2>1. /\ UNCHANGED <<job, journal, pending, permits, after, received, emitted>>
        /\ stop' \in {"no", "error", "shutdown"} /\ faults' \in Nat
        /\ thread' \in {"idle", "picked", "ended", "off"} \cup Events!AtWork
    BY <1>11 DEF Events!vars, Events!EventInvariant, Events!TypeOK
  <2> QED  BY <2>1, QuietEvents
<1> QED
  BY <1>1, <1>2, <1>3, <1>4, <1>5, <1>6, <1>7, <1>8, <1>9, <1>10, <1>11 DEF Events!Next

\* Types, and what the log, the journal and the streams keep of each other, always hold.
THEOREM EventInvariantHolds ==
  ASSUME Events!EventsAssumption
  PROVE  Events!Spec => []Events!EventInvariant
<1>1. Events!Init => Events!EventInvariant
  BY EventsInit
<1>2. Events!EventInvariant /\ [Events!Next]_Events!vars => Events!EventInvariant'
  BY EventsStep
<1> QED
  BY <1>1, <1>2, PTL DEF Events!Spec

\* The journal holds or has dropped every event that a client was sent: no restart
\* tells a client another history of the job.
THEOREM DeliveredIsDurableHolds ==
  ASSUME Events!EventsAssumption
  PROVE  Events!Spec => []Events!DeliveredIsDurable
<1>1. Events!EventInvariant => Events!DeliveredIsDurable
  BY DEF Events!EventInvariant, Events!DeliveredIsDurable
<1> QED
  BY <1>1, EventInvariantHolds, PTL

\* A number is one event for ever: among all clients' events and those of the record.
THEOREM OneEventPerSequenceHolds ==
  ASSUME Events!EventsAssumption
  PROVE  Events!Spec => []Events!OneEventPerSequence
<1>1. ASSUME Events!EventInvariant
      PROVE  Events!OneEventPerSequence
  <2> SUFFICES ASSUME NEW d \in Events!Delivered, Events!Up, NEW e \in Events!ToSet(job.events),
                      d.sequence = e.sequence
               PROVE  d = e
    BY <1>1 DEF Events!OneEventPerSequence, Events!EventInvariant, Events!NumbersDiffer
  <2>1. job \in Events!Records /\ Events!WellNumbered(job) /\ Events!Holds(job)
    BY <1>1 DEF Events!EventInvariant, Events!TypeOK, Events!Up
  <2>2. job # Events!Gone /\ job.events \in Seq(Events!Events)
        /\ \E i \in DOMAIN job.events : e = job.events[i]
    BY <2>1 DEF Events!Gone, Events!ToSet, Events!Records
  <2>3. PICK l \in Nat : l = Len(job.events) /\ DOMAIN job.events = 1..l
    BY <2>2, LenProperties
  <2>4. PICK i \in 1..l : e = job.events[i]
    BY <2>2, <2>3
  <2>5. job.events[1].sequence \in Nat
    <3>1. 1 \in 1..l
      BY <2>4
    <3>2. job.events[1] \in Events!Events
      BY <2>2, <2>3, <3>1, ElementOfSeq
    <3> QED  BY <3>2 DEF Events!Events
  <2>6. PICK f \in Nat : f = job.events[1].sequence
    BY <2>5
  <2>7. \A j \in 1..l : job.events[j].sequence = f + j - 1
    BY <2>1, <2>2, <2>3, <2>6 DEF Events!WellNumbered
  <2>8. ~(d.sequence < f)
    BY <2>4, <2>7
  <2>9. PICK j \in 1..l : d = job.events[j]
    BY <2>1, <2>2, <2>3, <2>6, <2>8 DEF Events!Holds, Events!ToSet
  <2>10. f + i - 1 = f + j - 1
    BY <2>4, <2>7, <2>9
  <2>11. i = j
    BY <2>10
  <2> QED  BY <2>4, <2>9, <2>11
<1> QED
  BY <1>1, EventInvariantHolds, PTL

\* While the log has dropped nothing every client has the events 1, 2, 3... in order,
\* however often its stream and the service went down.
THEOREM NothingMissedHolds ==
  ASSUME Events!EventsAssumption
  PROVE  Events!Spec => []Events!NothingMissed
<1>1. Events!EventInvariant => Events!NothingMissed
  BY DEF Events!EventInvariant, Events!NothingMissed
<1> QED
  BY <1>1, EventInvariantHolds, PTL

\* The permits left and the open streams are all the permits there are.
THEOREM SlotsAreHeldHolds ==
  ASSUME Events!EventsAssumption
  PROVE  Events!Spec => []Events!SlotsAreHeld
<1>1. Events!EventInvariant => Events!SlotsAreHeld
  BY DEF Events!EventInvariant
<1> QED
  BY <1>1, EventInvariantHolds, PTL

\* All of it: a sequence number means one durable event, no client misses one that is kept, and
\* slots are held by streams.
THEOREM EventsAreReplayedHolds ==
  ASSUME Events!EventsAssumption
  PROVE  Events!Spec => []Events!EventsAreReplayed
<1>1. Events!EventInvariant /\ Events!OneEventPerSequence /\ Events!DeliveredIsDurable /\ Events!NothingMissed /\ Events!SlotsAreHeld => Events!EventsAreReplayed
  BY DEF Events!EventsAreReplayed
<1> QED
  BY <1>1, EventInvariantHolds, OneEventPerSequenceHolds, DeliveredIsDurableHolds, NothingMissedHolds,
     SlotsAreHeldHolds, PTL

-----------------------------------------------------------------------------
(* Portable archives. *)

\* A complete export is a directory whose observations name their snapshot.
LEMMA CompleteIsDirectory ==
  ASSUME Archive!PortableAssumption, NEW S \in SUBSET Observations
  PROVE  /\ Archive!Complete(S) \in Archive!Directories
         /\ Archive!NamesOwner(Archive!Complete(S))
         /\ Archive!Manifest("s", Archive!Complete(S)) \in Archive!Manifests
<1> DEFINE D == {"snapshot", "facts"} \cup S
<1>1. D \in SUBSET Archive!Files
  BY DEF Archive!Files
<1>2. Archive!Complete(S) \in [D -> Archive!Contents]
  BY DEF Archive!Complete, Archive!Contents, Archive!Owner
<1>3. Archive!Complete(S) \in Archive!Directories
  BY <1>1, <1>2 DEF Archive!Directories
<1>4. Archive!NamesOwner(Archive!Complete(S))
  BY DEF Archive!Complete, Archive!NamesOwner
<1>5. Archive!Manifest("s", Archive!Complete(S)) \in Archive!Manifests
  BY <1>3 DEF Archive!Manifest, Archive!Manifests
<1> QED
  BY <1>3, <1>4, <1>5

\* A directory is a function on some of the files.
LEMMA DirectoryIsFunction ==
  ASSUME NEW d \in Archive!Directories
  PROVE  /\ d \in [DOMAIN d -> Archive!Contents] /\ DOMAIN d \subseteq Archive!Files
BY DEF Archive!Directories

\* Any function of files to contents is a directory.
LEMMA FunctionIsDirectory ==
  ASSUME NEW S \in SUBSET Archive!Files, NEW d \in [S -> Archive!Contents]
  PROVE  d \in Archive!Directories
BY DEF Archive!Directories

\* A file that is added or replaced, and files that are taken away, leave a directory.
LEMMA ChangedDirectory ==
  ASSUME NEW d \in Archive!Directories, NEW f \in Archive!Files, NEW v \in Archive!Contents,
         NEW S
  PROVE  /\ Archive!With(d, f, v) \in Archive!Directories
         /\ Archive!Only(d, S) \in Archive!Directories
<1>1. d \in [DOMAIN d -> Archive!Contents] /\ DOMAIN d \subseteq Archive!Files
  BY DirectoryIsFunction
<1>2. Archive!With(d, f, v) \in [DOMAIN d \cup {f} -> Archive!Contents]
  BY <1>1 DEF Archive!With
<1>3. Archive!Only(d, S) \in [DOMAIN d \cap S -> Archive!Contents]
  BY <1>1 DEF Archive!Only
<1>4. DOMAIN d \cup {f} \in SUBSET Archive!Files /\ DOMAIN d \cap S \in SUBSET Archive!Files
  BY <1>1
<1> QED
  BY <1>2, <1>3, <1>4, FunctionIsDirectory

\* What the store held at a moment is a set of observations; the last moment is now.
LEMMA MomentsAreHeld ==
  ASSUME stored \in Seq(Observations)
  PROVE  /\ Archive!Moments \subseteq SUBSET Observations
         /\ Archive!ToSet(stored) \in Archive!Moments
         /\ Archive!ToSet(stored) \subseteq Observations
         /\ {} \in Archive!Moments
<1>1. ASSUME NEW n \in 0..Len(stored)
      PROVE  Archive!ToSet(SubSeq(stored, 1, n)) \subseteq Observations
  <2>1. SubSeq(stored, 1, n) \in Seq(Observations)
    <3>1. \A i \in 1..n : i \in 1..Len(stored)
      BY LenProperties
    <3>2. \A i \in 1..n : stored[i] \in Observations
      BY <3>1, ElementOfSeq
    <3> QED  BY <3>2, SubSeqProperties, LenProperties
  <2> QED
    BY <2>1, ElementOfSeq, LenProperties DEF Archive!ToSet
<1>2. Len(stored) \in Nat /\ SubSeq(stored, 1, Len(stored)) = stored
  BY LenProperties, SubSeqFull
<1>3. Archive!ToSet(stored) \in Archive!Moments
  <2>1. Len(stored) \in 0..Len(stored)
    BY <1>2
  <2> QED  BY <1>2, <2>1 DEF Archive!Moments
<1>4. {} \in Archive!Moments
  <2>1. 0 \in 0..Len(stored)
    BY <1>2
  <2>2. SubSeq(stored, 1, 0) = <<>>
    BY SubSeqEmpty
  <2>3. Archive!ToSet(<<>>) = {}
    BY DEF Archive!ToSet
  <2> QED  BY <2>1, <2>2, <2>3 DEF Archive!Moments
<1> QED
  BY <1>1, <1>3, <1>4 DEF Archive!Moments

\* A store that holds one observation more has held what it held.
LEMMA MomentsGrow ==
  ASSUME stored \in Seq(Observations), NEW o \in Observations, stored' = Append(stored, o)
  PROVE  Archive!Moments \subseteq Archive!Moments'
<1>1. Len(stored) \in Nat /\ Len(stored') = Len(stored) + 1 /\ stored' \in Seq(Observations)
      /\ \A i \in 1..Len(stored) : stored'[i] = stored[i]
  BY AppendProperties, LenProperties
<1> SUFFICES ASSUME NEW n \in 0..Len(stored)
             PROVE  Archive!ToSet(SubSeq(stored, 1, n)) \in Archive!Moments'
  BY DEF Archive!Moments
<1>2. n \in 0..Len(stored')
  BY <1>1
<1>3. SubSeq(stored', 1, n) = SubSeq(stored, 1, n)
  BY <1>1
<1>4. Archive!Moments' = {Archive!ToSet(SubSeq(stored', 1, m)) : m \in 0..Len(stored')}
  BY DEF Archive!Moments, Archive!ToSet
<1> QED
  BY <1>2, <1>3, <1>4

\* Steps of an export that touch nothing but the export.
LEMMA ExportFrame ==
  ASSUME Archive!PortableInvariant, Archive!TypeOK',
         \A e \in Exporters : Archive!ExportKeeps(e)',
         UNCHANGED <<stored, Archive!destination, Archive!bounds, Archive!importing>>
  PROVE  Archive!PortableInvariant'
<1>1. UNCHANGED <<stored, archive, settled, promised, copies, faults, importer, want, got,
                  published, restored, answered>>
  BY DEF Archive!destination, Archive!bounds, Archive!importing
<1>2. Archive!DestinationKeeps' /\ Archive!AnsweredExportStays' /\ Archive!ArchiveIsWhole'
  BY <1>1 DEF Archive!PortableInvariant, Archive!DestinationKeeps, Archive!NamesOwner,
              Archive!AnsweredExportStays, Archive!ArchiveIsWhole, Archive!Exported, Archive!Moments
<1>3. Archive!ImportKeeps' /\ Archive!ImportsBelongTogether' /\ Archive!ImportIsWhole'
  BY <1>1 DEF Archive!PortableInvariant, Archive!ImportKeeps, Archive!NamesOwner,
              Archive!Verified, Archive!ImportsBelongTogether, Archive!ImportIsWhole,
              Archive!Exported, Archive!Moments
<1> QED
  BY <1>2, <1>3 DEF Archive!PortableInvariant

\* Steps of an import that touch nothing but the import.
LEMMA ImportFrame ==
  ASSUME Archive!PortableInvariant, Archive!TypeOK', Archive!ImportKeeps',
         Archive!ImportsBelongTogether', Archive!ImportIsWhole',
         UNCHANGED <<stored, Archive!exporting, Archive!destination, Archive!bounds>>
  PROVE  Archive!PortableInvariant'
<1>1. UNCHANGED <<stored, locked, stage, seen, bundles, staging, archive, settled, promised,
                  copies, faults>>
  BY DEF Archive!destination, Archive!bounds, Archive!exporting
<1>2. Archive!DestinationKeeps' /\ Archive!AnsweredExportStays' /\ Archive!ArchiveIsWhole'
  BY <1>1 DEF Archive!PortableInvariant, Archive!DestinationKeeps, Archive!NamesOwner,
              Archive!AnsweredExportStays, Archive!ArchiveIsWhole, Archive!Exported, Archive!Moments
<1>3. \A e \in Exporters : Archive!ExportKeeps(e)'
  BY <1>1 DEF Archive!PortableInvariant, Archive!ExportKeeps, Archive!Exported, Archive!Moments
<1> QED
  BY <1>2, <1>3 DEF Archive!PortableInvariant

\* An export that ends keeps nothing; the others go on.
LEMMA EndsKeeps ==
  ASSUME Archive!PortableInvariant, NEW e \in Exporters, Archive!Ends(e), UNCHANGED stored,
         archive # None => archive' # None
  PROVE  /\ \A x \in Exporters : Archive!ExportKeeps(x)'
         /\ locked' \subseteq Exporters
         /\ stage' \in [Exporters -> {"idle", "lock", "collect", "write", "sync", "rename", "parent"}]
         /\ seen' \in [Exporters -> SUBSET Observations]
         /\ bundles' \in [Exporters -> SUBSET Observations]
         /\ staging' \in [Exporters -> Archive!Archives \cup {None}]
<1>1. Archive!TypeOK
  BY DEF Archive!PortableInvariant
<1>2. /\ stage' = [stage EXCEPT ![e] = "idle"] /\ locked' = locked \ {e}
      /\ seen' = [seen EXCEPT ![e] = {}] /\ bundles' = [bundles EXCEPT ![e] = {}]
      /\ staging' = [staging EXCEPT ![e] = None]
  BY DEF Archive!Ends, Archive!Goto
<1>3. ASSUME NEW x \in Exporters
      PROVE  Archive!ExportKeeps(x)'
  <2>1. CASE x = e
    BY <1>1, <1>2, <2>1 DEF Archive!TypeOK, Archive!ExportKeeps
  <2>2. CASE x # e
    <3>1. /\ stage'[x] = stage[x] /\ seen'[x] = seen[x] /\ bundles'[x] = bundles[x]
          /\ staging'[x] = staging[x] /\ (x \in locked => x \in locked')
      BY <1>1, <1>2, <2>2 DEF Archive!TypeOK
    <3>2. Archive!ExportKeeps(x)
      BY DEF Archive!PortableInvariant
    <3> QED
      BY <3>1, <3>2 DEF Archive!ExportKeeps, Archive!Exported, Archive!Moments
  <2> QED  BY <2>1, <2>2
<1> QED
  BY <1>1, <1>2, <1>3 DEF Archive!TypeOK

\* What one export does leaves the others as they are.
LEMMA OthersKeep ==
  ASSUME Archive!PortableInvariant, NEW e \in Exporters, NEW x \in Exporters, x # e,
         stage'[x] = stage[x], seen'[x] = seen[x], bundles'[x] = bundles[x],
         staging'[x] = staging[x], x \in locked => x \in locked',
         UNCHANGED stored, archive # None => archive' # None
  PROVE  Archive!ExportKeeps(x)'
<1>1. Archive!ExportKeeps(x)
  BY DEF Archive!PortableInvariant
<1> QED
  BY <1>1 DEF Archive!ExportKeeps, Archive!Exported, Archive!Moments

\* An export collects, under the lock, what the store holds, and writes that.
LEMMA ExportStep ==
  ASSUME Archive!PortableAssumption, Archive!PortableInvariant, NEW e \in Exporters,
         \/ Archive!Begin(e) \/ Archive!LockShared(e) \/ Archive!Collect(e)
         \/ Archive!Collected(e) \/ Archive!WriteArtifacts(e) \/ Archive!SyncStaging(e)
         \/ Archive!ExportFails(e)
  PROVE  Archive!PortableInvariant'
<1>1. /\ UNCHANGED <<stored, Archive!destination, Archive!bounds, Archive!importing>>
      /\ Archive!TypeOK /\ Archive!ExportKeeps(e) /\ UNCHANGED archive
  BY DEF Archive!PortableInvariant, Archive!Begin, Archive!LockShared, Archive!Collect,
         Archive!Collected, Archive!WriteArtifacts, Archive!SyncStaging, Archive!ExportFails,
         Archive!destination
<1>2. /\ Archive!Moments \subseteq SUBSET Observations
      /\ Archive!ToSet(stored) \in Archive!Moments /\ {} \in Archive!Moments
      /\ Archive!ToSet(stored) \subseteq Observations
  BY <1>1, MomentsAreHeld DEF Archive!TypeOK
<1>3. Archive!Moments' = Archive!Moments /\ Archive!ToSet(stored)' = Archive!ToSet(stored)
  BY <1>1 DEF Archive!Moments, Archive!ToSet
<1> DEFINE Typed == /\ locked' \subseteq Exporters
                    /\ stage' \in [Exporters -> {"idle", "lock", "collect", "write", "sync",
                                                 "rename", "parent"}]
                    /\ seen' \in [Exporters -> SUBSET Observations]
                    /\ bundles' \in [Exporters -> SUBSET Observations]
                    /\ staging' \in [Exporters -> Archive!Archives \cup {None}]
<1>4. ASSUME Typed, \A x \in Exporters : Archive!ExportKeeps(x)'
      PROVE  Archive!PortableInvariant'
  <2>1. Archive!TypeOK'
    BY <1>1, <1>4 DEF Archive!TypeOK, Archive!destination, Archive!bounds, Archive!importing
  <2> QED
    BY <1>1, <1>4, <2>1, ExportFrame
<1>5. ASSUME Typed, Archive!ExportKeeps(e)',
             \A x \in Exporters \ {e} :
               /\ stage'[x] = stage[x] /\ seen'[x] = seen[x] /\ bundles'[x] = bundles[x]
               /\ staging'[x] = staging[x] /\ (x \in locked => x \in locked')
      PROVE  Archive!PortableInvariant'
  <2>1. \A x \in Exporters : x # e => Archive!ExportKeeps(x)'
    BY <1>1, <1>5, OthersKeep
  <2> QED
    BY <1>4, <1>5, <2>1
<1>6. CASE Archive!Begin(e)
  <2>1. \E next \in {"write", "lock"} :
          /\ stage' = [stage EXCEPT ![e] = next] /\ stage[e] = "idle"
          /\ next = "write" => stored = <<>>
          /\ UNCHANGED <<locked, seen, bundles, staging>>
    BY <1>6 DEF Archive!Begin, Archive!Goto
  <2>2. seen[e] = {} /\ bundles[e] = {}
    BY <1>1, <2>1 DEF Archive!ExportKeeps
  <2>3. Archive!ExportKeeps(e)'
    BY <1>1, <1>2, <1>3, <2>1, <2>2 DEF Archive!ExportKeeps, Archive!TypeOK
  <2>4. Typed
    BY <1>1, <2>1 DEF Archive!TypeOK
  <2> QED
    BY <1>1, <1>5, <2>1, <2>3, <2>4 DEF Archive!TypeOK
<1>7. CASE Archive!LockShared(e)
  <2>1. /\ stage' = [stage EXCEPT ![e] = "collect"] /\ stage[e] = "lock"
        /\ locked' = locked \cup {e} /\ UNCHANGED <<seen, bundles, staging>>
    BY <1>7 DEF Archive!LockShared, Archive!Goto
  <2>2. seen[e] = {} /\ bundles[e] = {}
    BY <1>1, <2>1 DEF Archive!ExportKeeps
  <2>3. Archive!ExportKeeps(e)'
    BY <1>1, <2>1, <2>2 DEF Archive!ExportKeeps, Archive!TypeOK
  <2>4. Typed
    BY <1>1, <2>1 DEF Archive!TypeOK
  <2> QED
    BY <1>1, <1>5, <2>1, <2>3, <2>4 DEF Archive!TypeOK
<1>8. CASE Archive!Collect(e)
  <2>1. PICK o \in Observations :
          /\ stage[e] = "collect" /\ seen' = [seen EXCEPT ![e] = @ \cup {o}]
          /\ bundles' = [bundles EXCEPT ![e] = @ \cup ({o} \cap Archive!ToSet(stored))]
          /\ UNCHANGED <<stage, locked, staging>>
    BY <1>8 DEF Archive!Collect
  <2>2. e \in locked /\ bundles[e] = seen[e] \cap Archive!ToSet(stored)
    BY <1>1, <2>1 DEF Archive!ExportKeeps
  <2>3. bundles'[e] = seen'[e] \cap Archive!ToSet(stored)
    BY <1>1, <2>1, <2>2 DEF Archive!TypeOK
  <2>4. Archive!ExportKeeps(e)'
    BY <1>1, <1>3, <2>1, <2>2, <2>3 DEF Archive!ExportKeeps, Archive!TypeOK
  <2>5. Typed
    BY <1>1, <1>2, <2>1 DEF Archive!TypeOK
  <2> QED
    BY <1>1, <1>5, <2>1, <2>4, <2>5 DEF Archive!TypeOK
<1>9. CASE Archive!Collected(e)
  <2>1. /\ stage[e] = "collect" /\ seen[e] = Observations
        /\ locked' = locked \ {e} /\ stage' = [stage EXCEPT ![e] = "write"]
        /\ UNCHANGED <<seen, bundles, staging>>
    BY <1>9 DEF Archive!Collected, Archive!Goto
  <2>2. bundles[e] = Archive!ToSet(stored)
    BY <1>1, <1>2, <2>1 DEF Archive!ExportKeeps
  <2>3. Archive!ExportKeeps(e)'
    BY <1>1, <1>2, <1>3, <2>1, <2>2 DEF Archive!ExportKeeps, Archive!TypeOK
  <2>4. Typed
    BY <1>1, <2>1 DEF Archive!TypeOK
  <2> QED
    BY <1>1, <1>5, <2>1, <2>3, <2>4 DEF Archive!TypeOK
<1>10. CASE Archive!WriteArtifacts(e)
  <2> DEFINE files == Archive!Complete(bundles[e])
             made == [files |-> files, manifest |-> Archive!Manifest("s", files), synced |-> FALSE]
  <2>1. /\ stage[e] = "write" /\ stage' = [stage EXCEPT ![e] = "sync"]
        /\ staging' = [staging EXCEPT ![e] = made]
        /\ UNCHANGED <<locked, seen, bundles>>
    BY <1>10 DEF Archive!WriteArtifacts, Archive!Goto
  <2>2. bundles[e] \in Archive!Moments /\ bundles[e] \in SUBSET Observations
    BY <1>1, <1>2, <2>1 DEF Archive!ExportKeeps
  <2>3. files \in Archive!Directories /\ Archive!Manifest("s", files) \in Archive!Manifests
        /\ \E S \in Archive!Moments' : files = Archive!Complete(S)
    BY <1>3, <2>2, CompleteIsDirectory
  <2> HIDE DEF files
  <2>4. made \in Archive!Archives /\ made # None /\ made.files = files
        /\ made.manifest = Archive!Manifest("s", files)
    <3>1. made \in Archive!Archives
      BY <2>3 DEF Archive!Archives
    <3> QED  BY <3>1 DEF Archive!PortableAssumption
  <2> HIDE DEF made
  <2>5. Archive!ExportKeeps(e)'
    <3>1. staging'[e] = made /\ stage'[e] = "sync"
      BY <1>1, <2>1 DEF Archive!TypeOK
    <3> QED
      BY <2>3, <2>4, <3>1 DEF Archive!ExportKeeps, Archive!Exported
  <2>6. Typed
    BY <1>1, <2>1, <2>4 DEF Archive!TypeOK
  <2> QED
    BY <1>1, <1>5, <2>1, <2>5, <2>6 DEF Archive!TypeOK
<1>11. CASE Archive!SyncStaging(e)
  <2>1. /\ stage[e] = "sync" /\ stage' = [stage EXCEPT ![e] = "rename"]
        /\ staging' = [staging EXCEPT ![e].synced = TRUE]
        /\ UNCHANGED <<locked, seen, bundles>>
    BY <1>11 DEF Archive!SyncStaging, Archive!Goto
  <2>2. /\ staging[e] \in Archive!Archives /\ Archive!Exported(staging[e].files)
        /\ staging[e].manifest = Archive!Manifest("s", staging[e].files)
    BY <1>1, <2>1 DEF Archive!ExportKeeps, Archive!TypeOK
  <2>3. /\ staging'[e] \in Archive!Archives /\ staging'[e].files = staging[e].files
        /\ staging'[e].manifest = staging[e].manifest /\ staging'[e].synced
    BY <1>1, <2>1, <2>2 DEF Archive!Archives, Archive!TypeOK
  <2>4. Archive!ExportKeeps(e)'
    <3>1. stage'[e] = "rename" /\ staging'[e] # None
      BY <1>1, <2>1, <2>3 DEF Archive!TypeOK, Archive!PortableAssumption
    <3>2. Archive!Exported(staging[e].files)'
      BY <1>3, <2>2, <2>3 DEF Archive!Exported
    <3> QED
      BY <2>2, <2>3, <3>1, <3>2 DEF Archive!ExportKeeps, Archive!Manifest
  <2>5. Typed
    BY <1>1, <2>1, <2>3 DEF Archive!TypeOK
  <2> QED
    BY <1>1, <1>5, <2>1, <2>4, <2>5 DEF Archive!TypeOK
<1>12. CASE Archive!ExportFails(e)
  <2>1. Archive!Ends(e)
    BY <1>12 DEF Archive!ExportFails
  <2> QED
    BY <1>1, <1>4, <2>1, EndsKeeps
<1> QED
  BY <1>6, <1>7, <1>8, <1>9, <1>10, <1>11, <1>12

\* What imports have brought stays when the archive changes or goes.
LEMMA BroughtStays ==
  ASSUME Archive!PortableInvariant, copies' = 0 => copies = 0,
         UNCHANGED <<stored, published, restored, answered>>
  PROVE  Archive!ImportsBelongTogether' /\ Archive!ImportIsWhole'
BY DEF Archive!PortableInvariant, Archive!ImportsBelongTogether, Archive!ImportIsWhole,
       Archive!Exported, Archive!Moments

\* An import goes on with what it has read; its archive is the same, or has been changed.
LEMMA ImportGoesOn ==
  ASSUME Archive!PortableInvariant, copies' = 0 => copies = 0,
         copies' = 0 /\ importer # "idle" => archive' = archive,
         archive # None => archive' # None,
         UNCHANGED Archive!importing
  PROVE  Archive!ImportKeeps'
<1>1. UNCHANGED <<importer, want, got, published, restored, answered>>
  BY DEF Archive!importing
<1> QED
  BY <1>1 DEF Archive!PortableInvariant, Archive!ImportKeeps, Archive!NamesOwner, Archive!Verified

\* The rename puts a complete, synced archive where nothing was.
LEMMA ArchiveRename ==
  ASSUME Archive!PortableAssumption, Archive!PortableInvariant, NEW e \in Exporters,
         Archive!Rename(e)
  PROVE  Archive!PortableInvariant'
<1>1. /\ Archive!TypeOK /\ Archive!ExportKeeps(e) /\ stage[e] = "rename"
      /\ UNCHANGED <<stored, settled, promised, Archive!bounds, Archive!importing>>
      /\ UNCHANGED <<copies, faults, importer, want, got, published, restored, answered>>
  BY DEF Archive!PortableInvariant, Archive!Rename, Archive!bounds, Archive!importing
<1>2. Archive!Moments' = Archive!Moments
  BY <1>1 DEF Archive!Moments, Archive!ToSet
<1>3. Archive!ImportsBelongTogether' /\ Archive!ImportIsWhole'
  BY <1>1, BroughtStays
<1>4. CASE archive # None
  <2>1. Archive!Ends(e) /\ UNCHANGED archive
    BY <1>4 DEF Archive!Rename
  <2>2. Archive!TypeOK' /\ \A x \in Exporters : Archive!ExportKeeps(x)'
    BY <1>1, <2>1, EndsKeeps DEF Archive!TypeOK
  <2>3. UNCHANGED Archive!destination
    BY <1>1, <2>1 DEF Archive!destination
  <2> QED
    BY <1>1, <2>2, <2>3, ExportFrame
<1>5. CASE archive = None
  <2>1. /\ archive' = staging[e] /\ stage' = [stage EXCEPT ![e] = "parent"]
        /\ staging' = [staging EXCEPT ![e] = None] /\ UNCHANGED <<locked, seen, bundles>>
    BY <1>5 DEF Archive!Rename, Archive!Goto
  <2>2. /\ staging[e] \in Archive!Archives /\ staging[e].synced
        /\ staging[e].manifest = Archive!Manifest("s", staging[e].files)
        /\ \E S \in Archive!Moments : staging[e].files = Archive!Complete(S)
    BY <1>1 DEF Archive!ExportKeeps, Archive!Exported, Archive!TypeOK
  <2>3. archive' # None
    BY <2>1, <2>2 DEF Archive!PortableAssumption
  <2>4. Archive!TypeOK'
    BY <1>1, <2>1, <2>2 DEF Archive!TypeOK
  <2>5. ASSUME NEW x \in Exporters
        PROVE  Archive!ExportKeeps(x)'
    <3>1. CASE x = e
      BY <1>1, <2>1, <2>3, <3>1 DEF Archive!ExportKeeps, Archive!TypeOK
    <3>2. CASE x # e
      BY <1>1, <2>1, <2>3, <3>2, OthersKeep DEF Archive!TypeOK
    <3> QED  BY <3>1, <3>2
  <2>6. Archive!DestinationKeeps'
    <3>1. ~settled /\ ~promised
      BY <1>5 DEF Archive!PortableInvariant, Archive!DestinationKeeps
    <3>2. Archive!NamesOwner(staging[e].files)
      BY <1>1, <2>2, CompleteIsDirectory, MomentsAreHeld DEF Archive!TypeOK
    <3> QED
      BY <1>1, <2>1, <2>2, <3>1, <3>2 DEF Archive!DestinationKeeps, Archive!NamesOwner
  <2>7. Archive!ArchiveIsWhole' /\ Archive!AnsweredExportStays'
    <3>1. Archive!Exported(archive.files)'
      BY <1>2, <2>1, <2>2 DEF Archive!Exported
    <3>2. (archive.manifest = Archive!Manifest("s", archive.files))'
      BY <2>1, <2>2 DEF Archive!Manifest
    <3> QED
      BY <2>3, <3>1, <3>2 DEF Archive!ArchiveIsWhole, Archive!AnsweredExportStays
  <2>8. Archive!ImportKeeps'
    <3>1. importer = "idle"
      BY <1>5 DEF Archive!PortableInvariant, Archive!ImportKeeps
    <3> QED
      BY <1>1, <1>5, <3>1, ImportGoesOn
  <2> QED
    BY <1>3, <2>4, <2>5, <2>6, <2>7, <2>8 DEF Archive!PortableInvariant
<1> QED
  BY <1>4, <1>5

\* An export is answered when its archive is there and its name synced.
LEMMA ArchiveSyncParent ==
  ASSUME Archive!PortableAssumption, Archive!PortableInvariant, NEW e \in Exporters,
         Archive!SyncParent(e)
  PROVE  Archive!PortableInvariant'
<1>1. /\ Archive!TypeOK /\ archive # None /\ settled' = TRUE /\ promised' = TRUE
      /\ Archive!Ends(e) /\ UNCHANGED <<stored, archive, Archive!bounds, Archive!importing>>
      /\ UNCHANGED <<copies, faults, importer, want, got, published, restored, answered>>
  BY DEF Archive!PortableInvariant, Archive!SyncParent, Archive!ExportKeeps, Archive!bounds,
         Archive!importing
<1>2. Archive!TypeOK' /\ \A x \in Exporters : Archive!ExportKeeps(x)'
  BY <1>1, EndsKeeps DEF Archive!TypeOK
<1>3. Archive!ImportsBelongTogether' /\ Archive!ImportIsWhole' /\ Archive!ImportKeeps'
  BY <1>1, BroughtStays, ImportGoesOn
<1>4. Archive!DestinationKeeps' /\ Archive!AnsweredExportStays' /\ Archive!ArchiveIsWhole'
  BY <1>1 DEF Archive!PortableInvariant, Archive!DestinationKeeps, Archive!NamesOwner,
              Archive!AnsweredExportStays, Archive!ArchiveIsWhole, Archive!Exported, Archive!Moments
<1> QED
  BY <1>2, <1>3, <1>4 DEF Archive!PortableInvariant

\* An observation is added while no export collects, and what was exported stays so.
LEMMA ArchiveObservation ==
  ASSUME Archive!PortableInvariant, Archive!StoreObservation
  PROVE  Archive!PortableInvariant'
<1>1. PICK o \in Observations : stored' = Append(stored, o)
  BY DEF Archive!StoreObservation
<1>2. /\ Archive!TypeOK /\ locked = {}
      /\ UNCHANGED <<Archive!exporting, Archive!destination, Archive!bounds, Archive!importing>>
      /\ UNCHANGED <<locked, stage, seen, bundles, staging, archive, settled, promised, copies,
                     faults, importer, want, got, published, restored, answered>>
  BY DEF Archive!PortableInvariant, Archive!StoreObservation, Archive!exporting,
         Archive!destination, Archive!bounds, Archive!importing
<1>3. stored' \in Seq(Observations) /\ Archive!Moments \subseteq Archive!Moments'
  BY <1>1, <1>2, MomentsGrow, AppendProperties DEF Archive!TypeOK
<1>4. Archive!TypeOK'
  BY <1>2, <1>3 DEF Archive!TypeOK
<1>5. ASSUME NEW e \in Exporters
      PROVE  Archive!ExportKeeps(e)'
  <2>1. Archive!ExportKeeps(e) /\ stage[e] # "collect"
    BY <1>2 DEF Archive!PortableInvariant, Archive!ExportKeeps
  <2> QED
    BY <1>2, <1>3, <2>1 DEF Archive!ExportKeeps, Archive!Exported
<1>6. Archive!ImportKeeps' /\ Archive!DestinationKeeps' /\ Archive!AnsweredExportStays'
      /\ Archive!ImportsBelongTogether'
  BY <1>2 DEF Archive!PortableInvariant, Archive!DestinationKeeps, Archive!NamesOwner,
              Archive!AnsweredExportStays, Archive!ImportKeeps, Archive!Verified,
              Archive!ImportsBelongTogether
<1>7. Archive!ArchiveIsWhole' /\ Archive!ImportIsWhole'
  BY <1>2, <1>3 DEF Archive!PortableInvariant, Archive!ArchiveIsWhole, Archive!ImportIsWhole,
                    Archive!Exported
<1> QED
  BY <1>4, <1>5, <1>6, <1>7 DEF Archive!PortableInvariant

\* Who changes the archive leaves an observation with its own snapshot, or torn.
LEMMA ArchiveCopied ==
  ASSUME Archive!PortableAssumption, Archive!PortableInvariant,
         Archive!CopyFile \/ Archive!CopyManifest
  PROVE  Archive!PortableInvariant'
<1>1. /\ Archive!TypeOK /\ archive \in Archive!Archives /\ copies' = copies + 1
      /\ Archive!NamesOwner(archive.files) /\ archive.synced
      /\ UNCHANGED <<stored, Archive!exporting, settled, promised, faults, Archive!importing>>
      /\ UNCHANGED <<locked, stage, seen, bundles, staging, importer, want, got, published,
                     restored, answered>>
  BY DEF Archive!PortableInvariant, Archive!CopyFile, Archive!CopyManifest, Archive!exporting,
         Archive!importing, Archive!TypeOK, Archive!DestinationKeeps
<1>2. archive' \in Archive!Archives /\ Archive!NamesOwner(archive'.files) /\ archive'.synced
  <2>1. CASE Archive!CopyFile
    <3>1. PICK f \in Archive!Files :
            \/ f \notin Observations /\ \E v \in {"t", "torn"} :
                 archive' = [archive EXCEPT !.files = Archive!With(@, f, v)]
            \/ archive' = [archive EXCEPT !.files = Archive!Only(@, Archive!Files \ {f})]
      BY <2>1 DEF Archive!CopyFile
    <3>2. PICK files \in Archive!Directories :
            archive' = [archive EXCEPT !.files = files] /\ Archive!NamesOwner(files)
      <4>1. CASE archive' = [archive EXCEPT !.files = Archive!Only(@, Archive!Files \ {f})]
        <5> DEFINE files == Archive!Only(archive.files, Archive!Files \ {f})
        <5>1. files \in Archive!Directories
          BY <1>1, ChangedDirectory DEF Archive!Archives, Archive!Contents
        <5>2. Archive!NamesOwner(files)
          BY <1>1 DEF Archive!NamesOwner, Archive!Only
        <5> QED  BY <4>1, <5>1, <5>2
      <4>2. ASSUME f \notin Observations, NEW v \in {"t", "torn"},
                   archive' = [archive EXCEPT !.files = Archive!With(@, f, v)]
            PROVE  \E files \in Archive!Directories :
                     archive' = [archive EXCEPT !.files = files] /\ Archive!NamesOwner(files)
        <5> DEFINE files == Archive!With(archive.files, f, v)
        <5>1. files \in Archive!Directories
          BY <1>1, ChangedDirectory DEF Archive!Archives, Archive!Contents
        <5>2. f \in Archive!Bundles => Archive!Owner(f) = "t"
          BY <4>2 DEF Archive!Bundles, Archive!Owner
        <5>3. Archive!NamesOwner(files)
          BY <1>1, <5>2 DEF Archive!NamesOwner, Archive!With
        <5> QED  BY <4>2, <5>1, <5>3
      <4> QED  BY <3>1, <4>1, <4>2
    <3> QED
      BY <1>1, <3>2 DEF Archive!Archives
  <2>2. CASE Archive!CopyManifest
    <3>1. archive.files \in Archive!Directories
      BY <1>1 DEF Archive!Archives
    <3>2. [f \in {"snapshot", "facts", Foreign} |-> "t"] \in Archive!Directories
      <4>1. {"snapshot", "facts", Foreign} \in SUBSET Archive!Files
        BY DEF Archive!Files
      <4>2. [f \in {"snapshot", "facts", Foreign} |-> "t"] \in
              [{"snapshot", "facts", Foreign} -> Archive!Contents]
        BY DEF Archive!Contents
      <4> QED  BY <4>1, <4>2, FunctionIsDirectory
    <3>3. PICK manifest \in Archive!Manifests \cup {None} :
            archive' = [archive EXCEPT !.manifest = manifest]
      BY <2>2, <3>1, <3>2 DEF Archive!CopyManifest, Archive!Manifests, Archive!Manifest
    <3> QED
      BY <1>1, <3>3 DEF Archive!Archives
  <2> QED  BY <2>1, <2>2
<1>3. archive # None /\ archive' # None /\ copies' # 0 /\ copies' \in Nat
  BY <1>1, <1>2 DEF Archive!PortableAssumption, Archive!TypeOK
<1>4. Archive!TypeOK'
  BY <1>1, <1>2, <1>3 DEF Archive!TypeOK
<1>5. \A e \in Exporters : Archive!ExportKeeps(e)'
  BY <1>1, <1>3 DEF Archive!PortableInvariant, Archive!ExportKeeps, Archive!Exported, Archive!Moments
<1>6. Archive!ImportsBelongTogether' /\ Archive!ImportIsWhole' /\ Archive!ImportKeeps'
  BY <1>1, <1>3, BroughtStays, ImportGoesOn
<1>7. Archive!DestinationKeeps' /\ Archive!AnsweredExportStays' /\ Archive!ArchiveIsWhole'
  BY <1>1, <1>2, <1>3 DEF Archive!PortableInvariant, Archive!DestinationKeeps,
        Archive!NamesOwner, Archive!AnsweredExportStays, Archive!ArchiveIsWhole
<1> QED
  BY <1>4, <1>5, <1>6, <1>7 DEF Archive!PortableInvariant

\* A loss of power takes an archive only that nobody was promised, and then all of it.
LEMMA ArchivePowerLoss ==
  ASSUME Archive!PortableAssumption, Archive!PortableInvariant, Archive!PowerLoss
  PROVE  Archive!PortableInvariant'
<1>1. /\ Archive!TypeOK
      /\ settled' = (archive' # None) /\ faults' = faults + 1
      /\ locked' = {} /\ stage' = [e \in Exporters |-> "idle"]
      /\ seen' = [e \in Exporters |-> {}] /\ bundles' = [e \in Exporters |-> {}]
      /\ staging' = [e \in Exporters |-> None]
      /\ importer' = "idle" /\ want' = None /\ got' = None
      /\ UNCHANGED <<stored, promised, copies, published, restored, answered>>
  BY DEF Archive!PortableInvariant, Archive!PowerLoss
<1>2. archive' = archive \/ (~settled /\ archive' = None)
  BY DEF Archive!PortableInvariant, Archive!PowerLoss, Archive!DestinationKeeps
<1>3. Archive!TypeOK'
  BY <1>1, <1>2 DEF Archive!TypeOK
<1>4. \A e \in Exporters : Archive!ExportKeeps(e)'
  BY <1>1 DEF Archive!ExportKeeps
<1>5. Archive!ImportsBelongTogether' /\ Archive!ImportIsWhole' /\ Archive!ImportKeeps'
  BY <1>1, BroughtStays DEF Archive!ImportKeeps
<1>6. Archive!DestinationKeeps' /\ Archive!AnsweredExportStays'
  BY <1>1, <1>2 DEF Archive!PortableInvariant, Archive!DestinationKeeps, Archive!NamesOwner,
        Archive!AnsweredExportStays
<1>7. Archive!ArchiveIsWhole'
  BY <1>1, <1>2 DEF Archive!PortableInvariant, Archive!ArchiveIsWhole, Archive!Exported,
        Archive!Moments
<1> QED
  BY <1>3, <1>4, <1>5, <1>6, <1>7 DEF Archive!PortableInvariant

\* An import reads only what the manifest says, and brings what belongs together.
LEMMA ImportStep ==
  ASSUME Archive!PortableAssumption, Archive!PortableInvariant,
         \/ Archive!OpenArchive \/ Archive!ReadFile \/ Archive!Publish \/ Archive!Restore
         \/ Archive!AnswerImport \/ Archive!ImportFails
  PROVE  Archive!PortableInvariant'
<1>1. /\ Archive!TypeOK /\ Archive!ImportKeeps /\ Archive!ImportIsWhole
      /\ Archive!ImportsBelongTogether /\ Archive!ArchiveIsWhole /\ Archive!DestinationKeeps
  BY DEF Archive!PortableInvariant
<1>2. /\ UNCHANGED <<stored, Archive!exporting, Archive!destination, Archive!bounds>>
      /\ UNCHANGED <<stored, locked, stage, seen, bundles, staging, archive, settled, promised,
                     copies, faults>>
  BY DEF Archive!OpenArchive, Archive!ReadFile, Archive!Publish, Archive!Restore,
         Archive!AnswerImport, Archive!ImportFails, Archive!exporting, Archive!destination,
         Archive!bounds
<1> DEFINE Typed == /\ importer' \in {"idle", "read", "restore"}
                    /\ want' \in Archive!Manifests \cup {None}
                    /\ got' \in Archive!Directories \cup {None}
                    /\ answered' \in Archive!Directories \cup {None}
                    /\ restored' \subseteq Archive!Bundles
                    /\ published' \subseteq [snapshot : {"s", "t"}, facts : Archive!Contents]
<1>3. ASSUME Typed, Archive!ImportKeeps', Archive!ImportsBelongTogether', Archive!ImportIsWhole'
      PROVE  Archive!PortableInvariant'
  <2>1. Archive!TypeOK'
    BY <1>1, <1>2, <1>3 DEF Archive!TypeOK
  <2> QED
    BY <1>2, <1>3, <2>1, ImportFrame
<1>4. UNCHANGED <<published, restored, answered>> =>
        Archive!ImportsBelongTogether' /\ Archive!ImportIsWhole'
  BY <1>2, BroughtStays
<1>5. CASE Archive!OpenArchive
  <2>1. /\ archive \in Archive!Archives /\ archive.manifest # None /\ want' = archive.manifest
        /\ importer' = "read" /\ got' = <<>> /\ UNCHANGED <<published, restored, answered>>
        /\ archive # None
    BY <1>1, <1>5 DEF Archive!OpenArchive, Archive!TypeOK
  <2>2. DOMAIN got' = {} /\ got' \in Archive!Directories
    <3>1. <<>> \in [1..0 -> Archive!Contents] /\ 1..0 = {}
      BY EmptySeq, LenProperties
    <3>2. <<>> \in [{} -> Archive!Contents]
      BY <3>1
    <3> QED
      BY <2>1, <3>2, FunctionIsDirectory
  <2>3. Typed
    BY <1>1, <2>1, <2>2 DEF Archive!TypeOK, Archive!Archives
  <2>4. Archive!ImportKeeps'
    <3>1. want' # None /\ got' # None
      BY <2>1, <2>2 DEF Archive!PortableAssumption
    <3> QED
      BY <1>2, <2>1, <2>2, <3>1 DEF Archive!ImportKeeps, Archive!NamesOwner
  <2> QED
    BY <1>3, <1>4, <2>1, <2>3, <2>4
<1>6. CASE Archive!ReadFile
  <2>1. PICK f \in DOMAIN want.digests \ DOMAIN got :
          /\ importer = "read" /\ f \in DOMAIN archive.files
          /\ archive.files[f] = want.digests[f]
          /\ got' = Archive!With(got, f, archive.files[f])
          /\ UNCHANGED <<importer, want, published, restored, answered>>
    BY <1>6 DEF Archive!ReadFile, Archive!Matches
  <2>2. /\ archive \in Archive!Archives /\ got \in Archive!Directories
        /\ Archive!NamesOwner(archive.files) /\ Archive!NamesOwner(got)
        /\ archive.files \in Archive!Directories
    BY <1>1, <2>1 DEF Archive!ImportKeeps, Archive!DestinationKeeps, Archive!TypeOK,
                      Archive!Archives
  <2>3. got' \in Archive!Directories
    <3>1. f \in Archive!Files /\ archive.files[f] \in Archive!Contents
      BY <2>1, <2>2, DirectoryIsFunction
    <3> QED
      BY <2>1, <2>2, <3>1, ChangedDirectory
  <2>4. Typed
    BY <1>1, <2>1, <2>3 DEF Archive!TypeOK
  <2>5. Archive!ImportKeeps'
    <3>1. got' # None
      BY <2>3 DEF Archive!PortableAssumption
    <3>2. Archive!NamesOwner(got')
      BY <2>1, <2>2 DEF Archive!NamesOwner, Archive!With
    <3>3. \A g \in DOMAIN got' : g \in DOMAIN want.digests /\ got'[g] = want.digests[g]
      BY <1>1, <2>1 DEF Archive!ImportKeeps, Archive!With
    <3> QED
      BY <1>1, <1>2, <2>1, <3>1, <3>2, <3>3 DEF Archive!ImportKeeps, Archive!NamesOwner
  <2> QED
    BY <1>3, <1>4, <2>1, <2>4, <2>5
<1>7. CASE Archive!Publish
  <2> DEFINE p == [snapshot |-> got["snapshot"], facts |-> got["facts"]]
  <2>1. /\ importer = "read" /\ Archive!Verified /\ importer' = "restore"
        /\ published' = published \cup {p} /\ UNCHANGED <<want, got, restored, answered>>
    BY <1>7 DEF Archive!Publish
  <2>2. /\ want \in Archive!Manifests /\ want.id \in {"s", "t"}
        /\ p.snapshot \in {"s", "t"} /\ p.facts = p.snapshot
    BY <1>1, <2>1 DEF Archive!TypeOK, Archive!ImportKeeps, Archive!Verified, Archive!Manifests
  <2>3. Typed
    BY <1>1, <2>1, <2>2 DEF Archive!TypeOK, Archive!Contents
  <2>4. Archive!ImportKeeps'
    BY <1>1, <1>2, <2>1 DEF Archive!ImportKeeps, Archive!Verified, Archive!NamesOwner
  <2>5. Archive!ImportsBelongTogether' /\ Archive!ImportIsWhole'
    BY <1>1, <1>2, <2>1, <2>2 DEF Archive!ImportsBelongTogether, Archive!ImportIsWhole,
                                  Archive!Exported, Archive!Moments
  <2> QED
    BY <1>3, <2>3, <2>4, <2>5
<1>8. CASE Archive!Restore
  <2>1. PICK o \in Archive!Bundles \cap DOMAIN got :
          /\ importer = "restore" /\ restored' = restored \cup {o}
          /\ UNCHANGED <<importer, want, got, published, answered>>
    BY <1>8 DEF Archive!Restore
  <2>2. Typed
    BY <1>1, <2>1 DEF Archive!TypeOK
  <2>3. Archive!ImportKeeps'
    BY <1>1, <1>2, <2>1 DEF Archive!ImportKeeps, Archive!Verified, Archive!NamesOwner
  <2>4. \E p \in published : p.snapshot = Archive!Owner(o)
    <3>1. /\ got[o] = got["snapshot"] /\ got["snapshot"] = want.id /\ want \in Archive!Manifests
          /\ got[o] \in {Archive!Owner(o), "torn"}
          /\ [snapshot |-> got["snapshot"], facts |-> got["facts"]] \in published
      BY <1>1, <2>1 DEF Archive!ImportKeeps, Archive!Verified, Archive!NamesOwner, Archive!TypeOK
    <3>2. got["snapshot"] = Archive!Owner(o)
      BY <3>1 DEF Archive!Manifests
    <3> QED  BY <3>1, <3>2
  <2>5. Archive!ImportsBelongTogether' /\ Archive!ImportIsWhole'
    BY <1>1, <1>2, <2>1, <2>4 DEF Archive!ImportsBelongTogether, Archive!ImportIsWhole,
                                  Archive!Exported, Archive!Moments
  <2> QED
    BY <1>3, <2>2, <2>3, <2>5
<1>9. CASE Archive!AnswerImport
  <2>1. /\ importer = "restore" /\ Archive!Bundles \cap DOMAIN got \subseteq restored
        /\ importer' = "idle" /\ want' = None /\ got' = None /\ answered' = got
        /\ UNCHANGED <<published, restored>>
    BY <1>9 DEF Archive!AnswerImport
  <2>2. Typed
    BY <1>1, <2>1 DEF Archive!TypeOK
  <2>3. Archive!ImportKeeps' /\ Archive!ImportsBelongTogether'
    BY <1>1, <2>1 DEF Archive!ImportKeeps, Archive!ImportsBelongTogether
  <2>4. \E p \in published : p.snapshot = got["snapshot"]
    BY <1>1, <2>1 DEF Archive!ImportKeeps
  <2>5. ASSUME copies = 0
        PROVE  Archive!Exported(got)
    <3>1. /\ archive # None /\ want = Archive!Manifest("s", archive.files)
          /\ Archive!Exported(archive.files)
          /\ archive.files \in Archive!Directories /\ got \in Archive!Directories
      BY <1>1, <2>1, <2>5 DEF Archive!ImportKeeps, Archive!ArchiveIsWhole, Archive!TypeOK,
                              Archive!Archives
    <3>2. want.digests = archive.files
      BY <3>1 DEF Archive!Manifest
    <3>3. DOMAIN got = DOMAIN archive.files /\ \A f \in DOMAIN got : got[f] = archive.files[f]
      BY <1>1, <2>1, <3>2 DEF Archive!ImportKeeps, Archive!Verified
    <3>4. got = archive.files
      <4>1. /\ got \in [DOMAIN got -> Archive!Contents]
            /\ archive.files \in [DOMAIN archive.files -> Archive!Contents]
        BY <3>1, DirectoryIsFunction
      <4> QED  BY <3>3, <4>1
    <3> QED  BY <3>1, <3>4
  <2>6. Archive!ImportIsWhole'
    BY <1>2, <2>1, <2>4, <2>5 DEF Archive!ImportIsWhole, Archive!Exported, Archive!Moments
  <2> QED
    BY <1>3, <2>2, <2>3, <2>6
<1>10. CASE Archive!ImportFails
  <2>1. /\ importer' = "idle" /\ want' = None /\ got' = None
        /\ UNCHANGED <<published, restored, answered>>
    BY <1>10 DEF Archive!ImportFails
  <2>2. Typed /\ Archive!ImportKeeps'
    BY <1>1, <2>1 DEF Archive!TypeOK, Archive!ImportKeeps
  <2> QED
    BY <1>3, <1>4, <2>1, <2>2
<1> QED
  BY <1>5, <1>6, <1>7, <1>8, <1>9, <1>10

\* Types, and what exports, the archive and imports keep of each other, always hold.
THEOREM PortableInvariantHolds ==
  ASSUME Archive!PortableAssumption
  PROVE  Archive!Spec => []Archive!PortableInvariant
<1>1. Archive!Init => Archive!PortableInvariant
  <2> SUFFICES ASSUME Archive!Init
               PROVE  Archive!PortableInvariant
    OBVIOUS
  <2>1. Archive!TypeOK
    BY EmptySeq DEF Archive!Init, Archive!TypeOK
  <2>2. \A e \in Exporters : Archive!ExportKeeps(e)
    BY DEF Archive!Init, Archive!ExportKeeps
  <2> QED
    BY <2>1, <2>2 DEF Archive!Init, Archive!PortableInvariant, Archive!DestinationKeeps,
        Archive!ImportKeeps, Archive!ArchiveIsWhole, Archive!AnsweredExportStays,
        Archive!ImportsBelongTogether, Archive!ImportIsWhole
<1>2. Archive!PortableInvariant /\ [Archive!Next]_Archive!vars => Archive!PortableInvariant'
  <2> SUFFICES ASSUME Archive!PortableInvariant, [Archive!Next]_Archive!vars
               PROVE  Archive!PortableInvariant'
    OBVIOUS
  <2>1. ASSUME NEW e \in Exporters,
               \/ Archive!Begin(e) \/ Archive!LockShared(e) \/ Archive!Collect(e)
               \/ Archive!Collected(e) \/ Archive!WriteArtifacts(e) \/ Archive!SyncStaging(e)
               \/ Archive!ExportFails(e)
        PROVE  Archive!PortableInvariant'
    BY <2>1, ExportStep
  <2>2. ASSUME NEW e \in Exporters, Archive!Rename(e)
        PROVE  Archive!PortableInvariant'
    BY <2>2, ArchiveRename
  <2>3. ASSUME NEW e \in Exporters, Archive!SyncParent(e)
        PROVE  Archive!PortableInvariant'
    BY <2>3, ArchiveSyncParent
  <2>4. CASE \/ Archive!OpenArchive \/ Archive!ReadFile \/ Archive!Publish \/ Archive!Restore
             \/ Archive!AnswerImport \/ Archive!ImportFails
    BY <2>4, ImportStep
  <2>5. CASE Archive!StoreObservation
    BY <2>5, ArchiveObservation
  <2>6. CASE Archive!CopyFile \/ Archive!CopyManifest
    BY <2>6, ArchiveCopied
  <2>7. CASE Archive!PowerLoss
    BY <2>7, ArchivePowerLoss
  <2>8. CASE UNCHANGED Archive!vars
    <3>1. UNCHANGED <<stored, locked, stage, seen, bundles, staging, archive, settled, promised,
                      copies, faults, importer, want, got, published, restored, answered>>
      BY <2>8 DEF Archive!vars
    <3>2. UNCHANGED <<stored, Archive!destination, Archive!bounds, Archive!importing>>
      BY <3>1 DEF Archive!destination, Archive!bounds, Archive!importing
    <3>3. Archive!TypeOK'
      BY <3>1 DEF Archive!PortableInvariant, Archive!TypeOK
    <3>4. \A e \in Exporters : Archive!ExportKeeps(e)'
      BY <3>1 DEF Archive!PortableInvariant, Archive!ExportKeeps, Archive!Exported, Archive!Moments
    <3> QED  BY <3>2, <3>3, <3>4, ExportFrame
  <2> QED
    BY <2>1, <2>2, <2>3, <2>4, <2>5, <2>6, <2>7, <2>8 DEF Archive!Next
<1> QED
  BY <1>1, <1>2, PTL DEF Archive!Spec

\* Until somebody changes it the archive is one complete export, with observations that
\* the store held at one moment, whichever exports race, fail or lose power.
THEOREM ArchiveIsWholeHolds ==
  ASSUME Archive!PortableAssumption
  PROVE  Archive!Spec => []Archive!ArchiveIsWhole
<1>1. Archive!PortableInvariant => Archive!ArchiveIsWhole
  BY DEF Archive!PortableInvariant
<1> QED
  BY <1>1, PortableInvariantHolds, PTL

\* The archive of an export that was answered is there after every loss of power.
THEOREM AnsweredExportStaysHolds ==
  ASSUME Archive!PortableAssumption
  PROVE  Archive!Spec => []Archive!AnsweredExportStays
<1>1. Archive!PortableInvariant => Archive!AnsweredExportStays
  BY DEF Archive!PortableInvariant
<1> QED
  BY <1>1, PortableInvariantHolds, PTL

\* An import publishes a snapshot with its own facts and restores only its observations,
\* although others change the archive between the reads.
THEOREM ImportsBelongTogetherHolds ==
  ASSUME Archive!PortableAssumption
  PROVE  Archive!Spec => []Archive!ImportsBelongTogether
<1>1. Archive!PortableInvariant => Archive!ImportsBelongTogether
  BY DEF Archive!PortableInvariant
<1> QED
  BY <1>1, PortableInvariantHolds, PTL

\* What an answered import has brought is everything that was in the archive.
THEOREM ImportIsWholeHolds ==
  ASSUME Archive!PortableAssumption
  PROVE  Archive!Spec => []Archive!ImportIsWhole
<1>1. Archive!PortableInvariant => Archive!ImportIsWhole
  BY DEF Archive!PortableInvariant
<1> QED
  BY <1>1, PortableInvariantHolds, PTL

\* All of it: an archive is whole whichever exports are killed or race, and an import of one that
\* is changed under it mixes no snapshots.
THEOREM ArchivesAreWholeHolds ==
  ASSUME Archive!PortableAssumption
  PROVE  Archive!Spec => []Archive!ArchivesAreWhole
<1>1. Archive!PortableInvariant /\ Archive!ArchiveIsWhole /\ Archive!AnsweredExportStays /\ Archive!ImportsBelongTogether /\ Archive!ImportIsWhole => Archive!ArchivesAreWhole
  BY DEF Archive!ArchivesAreWhole
<1> QED
  BY <1>1, PortableInvariantHolds, ArchiveIsWholeHolds, AnsweredExportStaysHolds,
     ImportsBelongTogetherHolds, ImportIsWholeHolds, PTL

-----------------------------------------------------------------------------
(* Captures of a workspace. *)

\* The next entry is one of those that are left.
LEMMA EntryIsLeft ==
  ASSUME Walk!CaptureAssumption, todo \subseteq Walk!Names, todo # {}
  PROVE  Walk!Entry \in todo
<1>1. todo \subseteq Nat
  BY DEF Walk!CaptureAssumption
<1> QED
  BY <1>1, HasLeast DEF Walk!Entry, Walk!Min

\* What a moment shows of a file is how its content appears, and links give warnings.
LEMMA SightShows ==
  ASSUME NEW files \in Walk!Files
  PROVE  /\ \A n \in Walk!Editable : Walk!Shows(Walk!Sight(files), n) = Walk!Appears(files[n])
         /\ \A n \in Walk!Links : n \in DOMAIN Walk!Sight(files) /\ Walk!Sight(files)[n] = "warning"
         /\ DOMAIN Walk!Sight(files) \subseteq Walk!Editable \cup Walk!Links
         /\ Walk!Sight(files) = [n \in DOMAIN Walk!Sight(files) |-> Walk!Sight(files)[n]]
<1>1. \A n \in Walk!Editable : n \notin Walk!Links
  BY DEF Walk!Editable, Walk!Links, Walk!Captured
<1> QED
  BY <1>1 DEF Walk!Shows, Walk!Sight, Walk!Appears

\* A walk that shows every file as a moment does, and all links, is that moment.
LEMMA WalkIsMoment ==
  ASSUME Walk!CaptureAssumption, NEW w \in Walk!Walks, NEW t \in Walk!Sights,
         \A n \in Walk!Editable : Walk!Shows(w, n) = Walk!Shows(t, n),
         \A n \in Walk!Links : n \in DOMAIN w /\ w[n] = "warning"
  PROVE  w = t
<1>1. PICK files \in Walk!Files : t = Walk!Sight(files)
  BY DEF Walk!Sights
<1>2. /\ \A n \in Walk!Links : n \in DOMAIN t /\ t[n] = "warning"
      /\ DOMAIN t \subseteq Walk!Editable \cup Walk!Links
      /\ t = [n \in DOMAIN t |-> t[n]]
      /\ \A n \in Walk!Editable : Walk!Shows(t, n) = Walk!Appears(files[n])
  BY <1>1, SightShows
<1>3. /\ DOMAIN w \subseteq Walk!Editable \cup Walk!Links
      /\ \A n \in DOMAIN w : w[n] # Missing
      /\ w = [n \in DOMAIN w |-> w[n]]
  BY DEF Walk!Walks, Walk!CaptureAssumption
<1>4. \A n \in DOMAIN t : t[n] # Missing
  BY <1>1 DEF Walk!Sight, Walk!Look, Walk!Files, Walk!CaptureAssumption
<1>5. ASSUME NEW n \in Walk!Editable
      PROVE  (n \in DOMAIN w <=> n \in DOMAIN t) /\ (n \in DOMAIN w => w[n] = t[n])
  BY <1>3, <1>4 DEF Walk!Shows
<1>6. DOMAIN w = DOMAIN t
  BY <1>2, <1>3, <1>5
<1>7. \A n \in DOMAIN w : w[n] = t[n]
  BY <1>2, <1>3, <1>5
<1> QED
  BY <1>2, <1>3, <1>6, <1>7

\* A walk with nothing left has decided everything: what it had not would have a least
\* name, whose directory it has.
LEMMA AllDecided ==
  ASSUME Walk!CaptureAssumption, NEW D \in SUBSET Walk!Names, Walk!Decided(D), todo = {}
  PROVE  D = Walk!Names
<1> SUFFICES ASSUME Walk!Names \ D # {}
             PROVE  FALSE
  OBVIOUS
<1>1. Walk!Names \ D \subseteq Nat
  BY DEF Walk!CaptureAssumption
<1>2. PICK n \in Walk!Names \ D : \A m \in Walk!Names \ D : n <= m
  BY <1>1, HasLeast
<1>3. Entries[n].parent \notin D \cup {0}
  BY <1>2 DEF Walk!Decided
<1>4. Entries[n].parent \in Walk!Names \ D /\ Entries[n].parent < n
  BY <1>2, <1>3 DEF Walk!CaptureAssumption
<1> QED
  BY <1>1, <1>2, <1>4

\* An entry that is decided, with the files that are not there when it is listed.
LEMMA EntryDecided ==
  ASSUME Walk!CaptureAssumption, Walk!TypeOK, Walk!Sight(content) \in moments,
         NEW D \in SUBSET Walk!Names, Walk!Decided(D), todo # {},
         NEW below, below = {n \in Walk!Names : Entries[n].parent = Walk!Entry},
         NEW absent \in SUBSET (below \cap Walk!Editable),
         todo' = (below \ absent) \cup (todo \ {Walk!Entry}),
         UNCHANGED <<content, moments, first>>,
         DOMAIN seen' \subseteq DOMAIN seen \cup {Walk!Entry}, DOMAIN seen \subseteq DOMAIN seen',
         \A n \in DOMAIN seen : seen'[n] = seen[n],
         Walk!Entry \in Walk!Links => Walk!Entry \in DOMAIN seen',
         Walk!Entry \in Walk!Editable =>
           /\ reading # <<>> /\ Walk!Was(Walk!Entry, Walk!Look(reading.held))
           /\ Walk!Shows(seen', Walk!Entry) = Walk!Look(reading.held),
         reading' = <<>>,
         \A n \in absent : content[n] = Missing
  PROVE  \E E \in SUBSET Walk!Names :
           Walk!Decided(E)' /\ \A t \in moments : Walk!Between(t, D) => Walk!Between(t, E)'
<1>a. PICK e : e = Walk!Entry
  OBVIOUS
<1>b. PICK E : E = D \cup {e} \cup absent
  OBVIOUS
<1>1. /\ e \in todo /\ e \in Walk!Names /\ e \notin D /\ e \notin below /\ e # 0
      /\ \A n \in Walk!Names : n \in D \cup todo <=> Entries[n].parent \in D \cup {0}
      /\ DOMAIN seen \subseteq D /\ D \cap todo = {}
      /\ content \in Walk!Files
  <2>1. e \in todo /\ e \in Walk!Names /\ e # 0
    BY <1>a, EntryIsLeft DEF Walk!TypeOK, Walk!CaptureAssumption
  <2>2. e \notin below
    <3>1. Entries[e].parent # e
      BY <2>1 DEF Walk!CaptureAssumption
    <3> QED  BY <1>a, <3>1
  <2> QED
    BY <2>1, <2>2 DEF Walk!TypeOK, Walk!Decided
<1>2. \A n \in below : n \notin D \cup todo
  BY <1>a, <1>1
<1>3. E \in SUBSET Walk!Names /\ E \cap todo' = {} /\ DOMAIN seen' \subseteq E
  BY <1>1, <1>2, <1>a, <1>b
<1>4. ASSUME NEW n \in Walk!Names
      PROVE  n \in E \cup todo' <=> Entries[n].parent \in E \cup {0}
  <2>1. E \cup todo' = (D \cup todo) \cup below
    BY <1>1, <1>a, <1>b
  <2>2. Entries[n].parent \notin absent
    <3>1. Entries[n].parent = 0 \/ Walk!Kind(Entries[n].parent) = "directory"
      BY DEF Walk!CaptureAssumption
    <3>2. 0 \notin Walk!Names
      BY DEF Walk!CaptureAssumption
    <3> QED  BY <3>1, <3>2 DEF Walk!Editable, Walk!Captured
  <2>3. n \in below <=> Entries[n].parent = e
    BY <1>a
  <2> QED
    BY <1>b, <1>1, <2>1, <2>2, <2>3
<1>5. \A n \in E \cap Walk!Links : n \in DOMAIN seen'
  <2>1. \A n \in Walk!Links : n \notin absent
    BY DEF Walk!Editable, Walk!Links, Walk!Captured
  <2> QED  BY <1>a, <1>b, <2>1 DEF Walk!Decided
<1>6. /\ \A n \in D : Walk!Shows(seen', n) = Walk!Shows(seen, n)
      /\ \A n \in absent : Walk!Shows(seen', n) = Missing /\ Walk!Appears(content[n]) = Missing
  <2>1. \A n \in D : n \in DOMAIN seen' <=> n \in DOMAIN seen
    BY <1>1, <1>a, <1>b
  <2>2. \A n \in absent : n \notin DOMAIN seen'
    BY <1>1, <1>2, <1>a, <1>b
  <2> QED  BY <2>1, <2>2 DEF Walk!Shows, Walk!Appears
<1>7. ASSUME NEW n \in E \cap Walk!Editable
      PROVE  \E m \in moments : Walk!Shows(m, n) = Walk!Shows(seen', n)
  <2>1. CASE n \in D
    BY <1>6, <2>1 DEF Walk!Decided, Walk!Was
  <2>2. CASE n = e
    BY <1>a, <2>2 DEF Walk!Was
  <2>3. CASE n \in absent
    BY <1>1, <1>6, <2>3, SightShows
  <2> QED  BY <1>b, <2>1, <2>2, <2>3
<1>8. Walk!Decided(E)'
  BY <1>3, <1>4, <1>5, <1>7 DEF Walk!Decided, Walk!Was, Walk!Shows
<1>9. ASSUME NEW t \in moments, Walk!Between(t, D)
      PROVE  Walk!Between(t, E)'
  <2> SUFFICES ASSUME NEW n \in Walk!Editable, Walk!Shows(first, n) # Walk!Shows(t, n)
               PROVE  /\ \E m \in moments : Walk!Shows(m, n) = Walk!Shows(first, n)
                      /\ Walk!Appears(content[n]) # Walk!Shows(first, n)
                      /\ n \in E => Walk!Shows(seen', n) # Walk!Shows(first, n)
    BY DEF Walk!Between, Walk!Was, Walk!Shows
  <2>1. /\ \E m \in moments : Walk!Shows(m, n) = Walk!Shows(first, n)
        /\ Walk!Appears(content[n]) # Walk!Shows(first, n)
        /\ n \in D => Walk!Shows(seen, n) # Walk!Shows(first, n)
        /\ reading # <<>> /\ n = e => Walk!Look(reading.held) # Walk!Shows(first, n)
    BY <1>a, <1>9 DEF Walk!Between, Walk!Was
  <2>2. CASE n \in D
    BY <1>6, <2>1, <2>2
  <2>3. CASE n = e
    BY <1>a, <2>1, <2>3
  <2>4. CASE n \in absent
    BY <1>6, <2>1, <2>4
  <2> QED  BY <1>b, <2>1, <2>2, <2>3, <2>4
<1> QED
  BY <1>3, <1>8, <1>9

\* What a walk has seen is still a walk with one more file or link.
LEMMA WalkGrows ==
  ASSUME NEW n \in Walk!Editable \cup Walk!Links, seen \in Walk!Walks,
         NEW sight \in Contents \cup {"warning", "torn"}
  PROVE  [m \in DOMAIN seen \cup {n} |-> IF m = n THEN sight ELSE seen[m]] \in Walk!Walks
<1>1. DOMAIN seen \cup {n} \in SUBSET (Walk!Editable \cup Walk!Links)
  BY DEF Walk!Walks
<1>2. [m \in DOMAIN seen \cup {n} |-> IF m = n THEN sight ELSE seen[m]]
        \in [DOMAIN seen \cup {n} -> Contents \cup {"warning", "torn"}]
  BY DEF Walk!Walks
<1> QED
  BY <1>1, <1>2 DEF Walk!Walks

\* A walk that has seen nothing yet.
LEMMA NothingSeen ==
  /\ <<>> \in Walk!Walks /\ DOMAIN <<>> = {}
  /\ \A n : Walk!Shows(<<>>, n) = Missing
<1>1. <<>> \in [1..0 -> Contents \cup {"warning", "torn"}] /\ 1..0 = {}
  BY EmptySeq, LenProperties
<1>2. <<>> \in [{} -> Contents \cup {"warning", "torn"}]
  BY <1>1
<1> QED
  BY <1>2 DEF Walk!Walks, Walk!Shows

\* Nothing but a directory has entries.
LEMMA NothingBelow ==
  ASSUME Walk!CaptureAssumption, todo \subseteq Walk!Names, todo # {},
         Walk!Kind(Walk!Entry) # "directory"
  PROVE  {n \in Walk!Names : Entries[n].parent = Walk!Entry} = {}
<1>1. Walk!Entry \in Walk!Names /\ Walk!Entry # 0
  BY EntryIsLeft DEF Walk!CaptureAssumption
<1> QED
  BY <1>1 DEF Walk!CaptureAssumption

\* A step of a walk that decides an entry keeps the invariant.
LEMMA WalkOn ==
  ASSUME Walk!CaptureAssumption, Walk!CaptureInvariant, state = "walking", todo # {},
         UNCHANGED <<Walk!tree, state, pass, first>>, reading' = <<>>,
         entries' \in 0..MaxEntries,
         NEW below, below = {n \in Walk!Names : Entries[n].parent = Walk!Entry},
         NEW absent \in SUBSET (below \cap Walk!Editable),
         \A n \in absent : content[n] = Missing,
         todo' = (below \ absent) \cup (todo \ {Walk!Entry}),
         seen' \in Walk!Walks,
         DOMAIN seen' \subseteq DOMAIN seen \cup {Walk!Entry}, DOMAIN seen \subseteq DOMAIN seen',
         \A n \in DOMAIN seen : seen'[n] = seen[n],
         Walk!Entry \in Walk!Links => Walk!Entry \in DOMAIN seen' /\ seen'[Walk!Entry] = "warning",
         Walk!Entry \in Walk!Editable =>
           /\ reading # <<>> /\ Walk!Was(Walk!Entry, Walk!Look(reading.held))
           /\ Walk!Shows(seen', Walk!Entry) = Walk!Look(reading.held)
  PROVE  Walk!CaptureInvariant'
<1>1. /\ Walk!TypeOK /\ Walk!Sight(content) \in moments
      /\ UNCHANGED <<content, root, edits, moments, returned, state, pass, first>>
      /\ \A n \in Walk!Links : n \in DOMAIN seen => seen[n] = "warning"
  BY DEF Walk!CaptureInvariant, Walk!tree
<1>2. Walk!TypeOK'
  BY <1>1 DEF Walk!TypeOK
<1>3. PICK D \in SUBSET Walk!Names :
        /\ Walk!Decided(D)
        /\ pass = 2 /\ ~returned => \E t \in moments : Walk!Between(t, D)
  BY DEF Walk!CaptureInvariant
<1>4. \E E \in SUBSET Walk!Names :
        Walk!Decided(E)' /\ \A t \in moments : Walk!Between(t, D) => Walk!Between(t, E)'
  BY <1>1, <1>3, EntryDecided
<1>5. \E E \in SUBSET Walk!Names :
        Walk!Decided(E)' /\ (pass = 2 /\ ~returned => \E t \in moments : Walk!Between(t, E))'
  BY <1>1, <1>3, <1>4
<1>6. \A n \in Walk!Links : n \in DOMAIN seen' => seen'[n] = "warning"
  BY <1>1
<1>7. Walk!Sight(content)' \in moments' /\ Walk!CaptureIsOneMoment' /\ Walk!FilesAreReal'
  BY <1>1 DEF Walk!CaptureIsOneMoment, Walk!FilesAreReal, Walk!Sight
<1> QED
  BY <1>1, <1>2, <1>5, <1>6, <1>7 DEF Walk!CaptureInvariant

\* Names that are left out, links and directories.
LEMMA WalkEntry ==
  ASSUME Walk!CaptureAssumption, Walk!CaptureInvariant, Walk!Skip \/ Walk!Warn \/ Walk!Enter
  PROVE  Walk!CaptureInvariant'
<1> DEFINE below == {n \in Walk!Names : Entries[n].parent = Walk!Entry}
           absent == {n \in below \cap Walk!Editable : content[n] = Missing}
<1>1. /\ Walk!TypeOK /\ state = "walking" /\ todo # {} /\ reading = <<>> /\ reading' = <<>>
      /\ UNCHANGED <<Walk!tree, state, pass, first>>
      /\ entries' \in 0..MaxEntries /\ Walk!Entry \in Walk!Names
  <2>1. Walk!TypeOK /\ MaxEntries \in Nat
    BY DEF Walk!CaptureInvariant, Walk!CaptureAssumption
  <2>2. /\ state = "walking" /\ todo # {} /\ reading = <<>> /\ reading' = <<>>
        /\ UNCHANGED <<Walk!tree, state, pass, first>>
        /\ entries' = entries + 1 /\ entries < MaxEntries
    BY DEF Walk!Skip, Walk!Warn, Walk!Enter, Walk!AtEntry, Walk!Counted
  <2>3. entries' \in 0..MaxEntries
    BY <2>1, <2>2 DEF Walk!TypeOK
  <2>4. Walk!Entry \in Walk!Names
    BY <2>1, <2>2, EntryIsLeft DEF Walk!TypeOK
  <2> QED  BY <2>1, <2>2, <2>3, <2>4
<1>2. \/ Walk!Kind(Walk!Entry) \in {"other", "directory"} /\ seen' = seen
      \/ Walk!Kind(Walk!Entry) = "symlink" /\ Walk!See("warning")
  BY DEF Walk!Skip, Walk!Warn, Walk!Enter
<1>3. /\ todo' = (below \ absent) \cup (todo \ {Walk!Entry})
  <2>1. CASE Walk!Skip \/ Walk!Warn
    <3>1. todo' = todo \ {Walk!Entry} /\ Walk!Kind(Walk!Entry) # "directory"
      BY <2>1 DEF Walk!Skip, Walk!Warn, Walk!Past
    <3>2. below = {}
      BY <1>1, <3>1, NothingBelow DEF Walk!TypeOK
    <3> QED  BY <3>1, <3>2
  <2>2. CASE Walk!Enter
    <3>1. todo' = Walk!Listing(Walk!Entry) \cup (todo \ {Walk!Entry})
      BY <2>2 DEF Walk!Enter
    <3>2. Walk!Listing(Walk!Entry) = below \ absent
      BY DEF Walk!Listing, Walk!Present
    <3> QED  BY <3>1, <3>2
  <2> QED  BY <2>1, <2>2
<1>4. Walk!Entry \notin Walk!Editable /\ (Walk!Entry \in Walk!Links <=> Walk!Kind(Walk!Entry) = "symlink")
  BY <1>1, <1>2 DEF Walk!Editable, Walk!Captured, Walk!Links
<1>5. /\ seen' \in Walk!Walks
      /\ DOMAIN seen' \subseteq DOMAIN seen \cup {Walk!Entry} /\ DOMAIN seen \subseteq DOMAIN seen'
      /\ \A n \in DOMAIN seen : seen'[n] = seen[n]
      /\ Walk!Entry \in Walk!Links => Walk!Entry \in DOMAIN seen' /\ seen'[Walk!Entry] = "warning"
  <2>1. CASE seen' = seen /\ Walk!Entry \notin Walk!Links
    BY <1>1, <2>1 DEF Walk!TypeOK
  <2>2. CASE Walk!Entry \in Walk!Links /\ Walk!See("warning")
    <3>1. seen' = [n \in DOMAIN seen \cup {Walk!Entry} |-> IF n = Walk!Entry THEN "warning" ELSE seen[n]]
      BY <2>2 DEF Walk!See
    <3>2. seen' \in Walk!Walks
      BY <1>1, <2>2, <3>1, WalkGrows DEF Walk!TypeOK
    <3>3. \A n \in DOMAIN seen : n \in Walk!Links => seen[n] = "warning"
      BY DEF Walk!CaptureInvariant
    <3> QED  BY <2>2, <3>1, <3>2, <3>3
  <2> QED  BY <1>2, <1>4, <2>1, <2>2
<1>6. absent \in SUBSET (below \cap Walk!Editable) /\ \A n \in absent : content[n] = Missing
  OBVIOUS
<1> HIDE DEF below, absent
<1> QED
  BY <1>1, <1>3, <1>4, <1>5, <1>6, WalkOn DEF below

\* A file that was read to its end as it was at the beginning.
LEMMA WalkFile ==
  ASSUME Walk!CaptureAssumption, Walk!CaptureInvariant, Walk!ReadRest
  PROVE  Walk!CaptureInvariant'
<1> DEFINE below == {n \in Walk!Names : Entries[n].parent = Walk!Entry}
<1>1. /\ Walk!TypeOK /\ state = "walking" /\ reading # <<>> /\ reading \in Walk!Readings
      /\ reading.part # Missing /\ ~reading.changed /\ Walk!ReadingKeeps
      /\ reading' = <<>> /\ todo' = todo \ {Walk!Entry} /\ entries' \in 0..MaxEntries
      /\ UNCHANGED <<Walk!tree, state, pass, first>>
  BY DEF Walk!CaptureInvariant, Walk!ReadRest, Walk!TypeOK, Walk!Past
<1>2. /\ todo # {} /\ Walk!Entry \in Walk!Editable /\ reading.part = reading.held
      /\ Walk!Was(Walk!Entry, Walk!Look(reading.held))
      /\ Walk!Entry \notin Walk!Links /\ Walk!Kind(Walk!Entry) # "directory"
  BY <1>1 DEF Walk!ReadingKeeps, Walk!Editable, Walk!Links, Walk!Captured
<1>3. seen' = [n \in DOMAIN seen \cup {Walk!Entry} |->
                 IF n = Walk!Entry THEN Walk!Look(reading.held) ELSE seen[n]]
  BY <1>2 DEF Walk!ReadRest, Walk!See
<1>4. Walk!Look(reading.held) \in Contents \cup {"warning", "torn"}
  BY <1>1 DEF Walk!Look, Walk!Readings
<1>5. seen' \in Walk!Walks
  BY <1>1, <1>2, <1>3, <1>4, WalkGrows DEF Walk!TypeOK
<1>6. below = {}
  BY <1>1, <1>2, NothingBelow DEF Walk!TypeOK
<1>7. Walk!Entry \notin DOMAIN seen
  <2>1. PICK D \in SUBSET Walk!Names : Walk!Decided(D)
    BY <1>1 DEF Walk!CaptureInvariant
  <2> QED
    BY <1>1, <1>2, <2>1, EntryIsLeft DEF Walk!Decided, Walk!TypeOK
<1>8. /\ DOMAIN seen' \subseteq DOMAIN seen \cup {Walk!Entry} /\ DOMAIN seen \subseteq DOMAIN seen'
      /\ \A n \in DOMAIN seen : seen'[n] = seen[n]
      /\ Walk!Shows(seen', Walk!Entry) = Walk!Look(reading.held)
  BY <1>3, <1>7 DEF Walk!Shows
<1>9. todo' = (below \ {}) \cup (todo \ {Walk!Entry}) /\ {} \in SUBSET (below \cap Walk!Editable)
  BY <1>1, <1>6
<1> HIDE DEF below
<1> QED
  BY <1>1, <1>2, <1>5, <1>8, <1>9, WalkOn DEF below

\* A file that is opened is what there is now.
LEMMA WalkOpen ==
  ASSUME Walk!CaptureAssumption, Walk!CaptureInvariant, Walk!Open
  PROVE  Walk!CaptureInvariant'
<1>1. /\ Walk!TypeOK /\ Walk!Sight(content) \in moments
      /\ state = "walking" /\ todo # {} /\ Walk!Entry \in Walk!Names
      /\ UNCHANGED <<content, root, edits, moments, returned, state, pass, todo, seen, first>>
      /\ UNCHANGED Walk!Entry /\ entries' \in 0..MaxEntries
      /\ \A n \in Walk!Links : n \in DOMAIN seen => seen[n] = "warning"
  <2>1. Walk!TypeOK /\ MaxEntries \in Nat /\ Walk!Sight(content) \in moments
        /\ \A n \in Walk!Links : n \in DOMAIN seen => seen[n] = "warning"
    BY DEF Walk!CaptureInvariant, Walk!CaptureAssumption
  <2>2. /\ state = "walking" /\ todo # {}
        /\ UNCHANGED <<content, root, edits, moments, returned, state, pass, todo, seen, first>>
        /\ entries' = entries + 1 /\ entries < MaxEntries
    BY DEF Walk!Open, Walk!AtEntry, Walk!Counted, Walk!tree
  <2>3. Walk!Entry \in Walk!Names
    BY <2>1, <2>2, EntryIsLeft DEF Walk!TypeOK
  <2>4. UNCHANGED Walk!Entry
    BY <2>2 DEF Walk!Entry, Walk!Min
  <2>5. entries' \in 0..MaxEntries
    BY <2>1, <2>2 DEF Walk!TypeOK
  <2> QED  BY <2>1, <2>2, <2>3, <2>4, <2>5
<1>2. PICK r \in Walk!Readings :
        /\ reading' = r /\ r.held = content[Walk!Entry] /\ r.part = Missing
        /\ Walk!Entry \in Walk!Editable /\ content[Walk!Entry] # Missing
  <2>1. Walk!Entry \in Walk!Editable
    BY <1>1 DEF Walk!Open, Walk!Editable
  <2>2. content[Walk!Entry] \in Contents
    BY <1>1, <2>1 DEF Walk!Open, Walk!Present, Walk!TypeOK, Walk!Files
  <2>3. content[Walk!Entry] # Missing
    BY <2>2 DEF Walk!CaptureAssumption
  <2> QED
    <3>1. reading' = [held |-> content[Walk!Entry], part |-> Missing, changed |-> FALSE,
                      linked |-> TRUE]
      BY DEF Walk!Open
    <3>2. reading' \in Walk!Readings
      BY <2>2, <3>1 DEF Walk!Readings
    <3> QED  BY <2>1, <2>3, <3>1, <3>2
<1>3. Walk!TypeOK'
  BY <1>1, <1>2 DEF Walk!TypeOK
<1>4. Walk!Appears(content[Walk!Entry]) = Walk!Look(r.held)
  BY <1>2 DEF Walk!Appears
<1>5. Walk!ReadingKeeps'
  <2>1. Walk!Shows(Walk!Sight(content), Walk!Entry) = Walk!Look(r.held)
    BY <1>1, <1>2, <1>4, SightShows DEF Walk!TypeOK
  <2> QED
    BY <1>1, <1>2, <2>1 DEF Walk!ReadingKeeps, Walk!Was, Walk!Shows
<1>6. PICK D \in SUBSET Walk!Names :
        /\ Walk!Decided(D)
        /\ pass = 2 /\ ~returned => \E t \in moments : Walk!Between(t, D)
  BY <1>1 DEF Walk!CaptureInvariant
<1>7. Walk!Decided(D)'
  BY <1>1, <1>6 DEF Walk!Decided, Walk!Was, Walk!Shows
<1>8. ASSUME NEW t \in moments, Walk!Between(t, D)
      PROVE  Walk!Between(t, D)'
  BY <1>1, <1>2, <1>4, <1>8 DEF Walk!Between, Walk!Was, Walk!Shows
<1>9. Walk!Sight(content)' \in moments' /\ Walk!CaptureIsOneMoment' /\ Walk!FilesAreReal'
  BY <1>1 DEF Walk!CaptureIsOneMoment, Walk!FilesAreReal, Walk!Sight
<1> QED
  BY <1>1, <1>3, <1>5, <1>6, <1>7, <1>8, <1>9 DEF Walk!CaptureInvariant

\* What is read first is what the file holds.
LEMMA WalkPart ==
  ASSUME Walk!CaptureAssumption, Walk!CaptureInvariant, Walk!ReadPart
  PROVE  Walk!CaptureInvariant'
<1>1. /\ Walk!TypeOK /\ Walk!Sight(content) \in moments /\ state = "walking"
      /\ reading \in Walk!Readings /\ reading # <<>> /\ Walk!ReadingKeeps
      /\ reading' = [reading EXCEPT !.part = reading.held]
      /\ UNCHANGED <<content, root, edits, moments, returned, state, pass, todo, seen, entries, first>>
      /\ \A n \in Walk!Links : n \in DOMAIN seen => seen[n] = "warning"
  BY DEF Walk!CaptureInvariant, Walk!ReadPart, Walk!TypeOK, Walk!tree
<1>2. UNCHANGED Walk!Entry
  BY <1>1 DEF Walk!Entry, Walk!Min
<1>3. PICK r \in Walk!Readings : reading' = r /\ r.held = reading.held /\ r.part = r.held
  BY <1>1 DEF Walk!Readings
<1>4. Walk!TypeOK'
  BY <1>1, <1>3 DEF Walk!TypeOK
<1>5. Walk!ReadingKeeps'
  BY <1>1, <1>2, <1>3 DEF Walk!ReadingKeeps, Walk!Was, Walk!Shows
<1>6. PICK D \in SUBSET Walk!Names :
        /\ Walk!Decided(D)
        /\ pass = 2 /\ ~returned => \E t \in moments : Walk!Between(t, D)
  BY <1>1 DEF Walk!CaptureInvariant
<1>7. Walk!Decided(D)'
  BY <1>1, <1>6 DEF Walk!Decided, Walk!Was, Walk!Shows
<1>8. ASSUME NEW t \in moments, Walk!Between(t, D)
      PROVE  Walk!Between(t, D)'
  BY <1>1, <1>2, <1>3, <1>8 DEF Walk!Between, Walk!Was, Walk!Shows
<1>9. Walk!Sight(content)' \in moments' /\ Walk!CaptureIsOneMoment' /\ Walk!FilesAreReal'
  BY <1>1 DEF Walk!CaptureIsOneMoment, Walk!FilesAreReal, Walk!Sight
<1> QED
  BY <1>1, <1>4, <1>5, <1>6, <1>7, <1>8, <1>9 DEF Walk!CaptureInvariant

\* When a walk begins, the files that are not in the root are decided.
LEMMA WalkBegins ==
  ASSUME Walk!CaptureAssumption, content \in Walk!Files, Walk!Sight(content) \in moments
  PROVE  \E D \in SUBSET Walk!Names :
           /\ D \cap Walk!Listing(0) = {}
           /\ \A n \in Walk!Names : n \in D \cup Walk!Listing(0) <=> Entries[n].parent \in D \cup {0}
           /\ \A n \in D : n \in Walk!Editable /\ content[n] = Missing
<1> DEFINE D == {n \in Walk!Editable : Entries[n].parent = 0 /\ content[n] = Missing}
<1>1. D \in SUBSET Walk!Names /\ D \cap Walk!Listing(0) = {}
  BY DEF Walk!Editable, Walk!Listing, Walk!Present
<1>2. ASSUME NEW n \in Walk!Names
      PROVE  n \in D \cup Walk!Listing(0) <=> Entries[n].parent \in D \cup {0}
  <2>1. n \in D \cup Walk!Listing(0) <=> Entries[n].parent = 0
    BY DEF Walk!Listing, Walk!Present
  <2>2. Entries[n].parent = 0 \/ Walk!Kind(Entries[n].parent) = "directory"
    BY DEF Walk!CaptureAssumption
  <2>3. \A m \in D : Walk!Kind(m) # "directory"
    BY DEF Walk!Editable, Walk!Captured
  <2> HIDE DEF D
  <2> QED  BY <2>1, <2>2, <2>3
<1> QED
  BY <1>1, <1>2

\* The moment at which the second walk begins is the one between the walks.
LEMMA WalkTwice ==
  ASSUME Walk!CaptureAssumption, Walk!CaptureInvariant, Walk!WalkAgain
  PROVE  Walk!CaptureInvariant'
<1>1. /\ Walk!TypeOK /\ Walk!Sight(content) \in moments /\ state = "walking" /\ todo = {}
      /\ pass' = 2 /\ todo' = Walk!Listing(0) /\ first' = seen /\ seen' = <<>> /\ entries' = 0
      /\ UNCHANGED <<content, root, edits, moments, returned, state, reading>>
      /\ MaxEntries \in Nat /\ content \in Walk!Files
  BY DEF Walk!CaptureInvariant, Walk!WalkAgain, Walk!AtEnd, Walk!tree, Walk!CaptureAssumption,
         Walk!TypeOK
<1>2. reading = <<>>
  BY <1>1 DEF Walk!CaptureInvariant, Walk!ReadingKeeps
<1>3. Walk!TypeOK'
  BY <1>1, NothingSeen DEF Walk!TypeOK, Walk!Listing
<1>4. PICK D \in SUBSET Walk!Names :
        /\ D \cap Walk!Listing(0) = {}
        /\ \A n \in Walk!Names : n \in D \cup Walk!Listing(0) <=> Entries[n].parent \in D \cup {0}
        /\ \A n \in D : n \in Walk!Editable /\ content[n] = Missing
  BY <1>1, WalkBegins
<1>5. \A n \in D : Walk!Appears(content[n]) = Missing /\ Walk!Shows(Walk!Sight(content), n) = Missing
  BY <1>1, <1>4, SightShows DEF Walk!Appears
<1>6. Walk!Decided(D)'
  <2>1. \A n \in D : n \notin Walk!Links
    BY <1>4 DEF Walk!Editable, Walk!Links, Walk!Captured
  <2>2. \A n \in D : \E m \in moments : Walk!Shows(m, n) = Walk!Shows(<<>>, n)
    BY <1>1, <1>5, NothingSeen
  <2> QED
    BY <1>1, <1>4, <2>1, <2>2, NothingSeen DEF Walk!Decided, Walk!Was, Walk!Shows
<1>7. \E t \in moments : Walk!Between(t, D)'
  <2>1. PICK t \in moments : t = Walk!Sight(content)
    BY <1>1
  <2>2. PICK E \in SUBSET Walk!Names : Walk!Decided(E)
    BY <1>1 DEF Walk!CaptureInvariant
  <2>3. \A n \in Walk!Editable : \E m \in moments : Walk!Shows(m, n) = Walk!Shows(seen, n)
    <3>1. E = Walk!Names
      BY <1>1, <2>2, AllDecided
    <3> QED
      BY <2>2, <3>1 DEF Walk!Decided, Walk!Was, Walk!Editable
  <2>4. \A n \in Walk!Editable : Walk!Appears(content[n]) = Walk!Shows(t, n)
    BY <1>1, <2>1, SightShows
  <2>5. \A n \in D : Walk!Shows(<<>>, n) = Walk!Shows(t, n)
    BY <1>5, <2>1, NothingSeen
  <2>6. ASSUME NEW n \in Walk!Editable, Walk!Shows(seen, n) # Walk!Shows(t, n)
        PROVE  /\ \E m \in moments : Walk!Shows(m, n) = Walk!Shows(seen, n)
               /\ Walk!Appears(content[n]) # Walk!Shows(seen, n)
               /\ n \in D => Walk!Shows(<<>>, n) # Walk!Shows(seen, n)
    BY <2>3, <2>4, <2>5, <2>6
  <2>7. Walk!Between(t, D)'
    BY <1>1, <1>2, <2>6 DEF Walk!Between, Walk!Was, Walk!Shows
  <2> QED  BY <2>7
<1>8. /\ Walk!Sight(content)' \in moments' /\ Walk!CaptureIsOneMoment' /\ Walk!FilesAreReal'
      /\ \A n \in Walk!Links : n \in DOMAIN seen' => seen'[n] = "warning"
  BY <1>1, NothingSeen DEF Walk!CaptureIsOneMoment, Walk!FilesAreReal, Walk!Sight
<1> QED
  BY <1>1, <1>2, <1>3, <1>4, <1>6, <1>7, <1>8 DEF Walk!CaptureInvariant

\* Two walks that saw the same saw the moment between them, unless a file came back.
LEMMA WalkAccepted ==
  ASSUME Walk!CaptureAssumption, Walk!CaptureInvariant, Walk!Accept
  PROVE  Walk!CaptureInvariant'
<1>1. /\ Walk!TypeOK /\ Walk!Sight(content) \in moments /\ state = "walking" /\ todo = {}
      /\ pass = 2 /\ first = seen /\ root /\ state' = "done"
      /\ UNCHANGED <<content, root, edits, moments, returned, pass, todo, reading, seen, entries, first>>
      /\ \A n \in Walk!Links : n \in DOMAIN seen => seen[n] = "warning"
      /\ seen \in Walk!Walks /\ moments \subseteq Walk!Sights
  BY DEF Walk!CaptureInvariant, Walk!Accept, Walk!Accepted, Walk!AtEnd, Walk!tree, Walk!walk,
         Walk!TypeOK
<1>2. PICK D \in SUBSET Walk!Names :
        /\ Walk!Decided(D)
        /\ pass = 2 /\ ~returned => \E t \in moments : Walk!Between(t, D)
  BY <1>1 DEF Walk!CaptureInvariant
<1>3. D = Walk!Names
  BY <1>1, <1>2, AllDecided
<1>4. \A n \in Walk!Links : n \in DOMAIN seen /\ seen[n] = "warning"
  BY <1>1, <1>2, <1>3 DEF Walk!Decided, Walk!Links
<1>5. ASSUME ~returned
      PROVE  seen \in moments
  <2>1. PICK t \in moments : Walk!Between(t, D)
    BY <1>1, <1>2, <1>5
  <2>2. \A n \in Walk!Editable : Walk!Shows(seen, n) = Walk!Shows(t, n)
    BY <1>1, <1>3, <2>1 DEF Walk!Between, Walk!Editable
  <2>3. seen = t
    BY <1>1, <1>4, <2>2, WalkIsMoment
  <2> QED  BY <2>3
<1>6. ASSUME NEW n \in DOMAIN seen
      PROVE  \E m \in moments : n \in DOMAIN m /\ m[n] = seen[n]
  <2>1. n \in Walk!Editable \cup Walk!Links /\ seen[n] # Missing
    BY <1>1 DEF Walk!Walks, Walk!CaptureAssumption
  <2>2. CASE n \in Walk!Editable
    <3>1. PICK m \in moments : Walk!Shows(m, n) = Walk!Shows(seen, n)
      BY <1>2, <1>3, <2>2 DEF Walk!Decided, Walk!Was, Walk!Editable
    <3> QED
      BY <2>1, <3>1 DEF Walk!Shows
  <2>3. CASE n \in Walk!Links
    BY <1>1, <2>3, SightShows DEF Walk!TypeOK
  <2> QED  BY <2>1, <2>2, <2>3
<1>7. Walk!CaptureIsOneMoment' /\ Walk!FilesAreReal'
  BY <1>1, <1>5, <1>6 DEF Walk!CaptureIsOneMoment, Walk!FilesAreReal
<1>8. Walk!TypeOK' /\ Walk!Sight(content)' \in moments'
  BY <1>1 DEF Walk!TypeOK, Walk!Sight
<1> QED
  BY <1>1, <1>7, <1>8 DEF Walk!CaptureInvariant

\* A step that ends the walk without a capture, or moves the root, tells nothing.
LEMMA WalkElse ==
  ASSUME Walk!CaptureAssumption, Walk!CaptureInvariant, Walk!Fail \/ Walk!MoveRoot
  PROVE  Walk!CaptureInvariant'
<1>1. Walk!TypeOK /\ Walk!Sight(content) \in moments /\ state = "walking" /\ MaxEntries \in Nat
      /\ \A n \in Walk!Links : n \in DOMAIN seen => seen[n] = "warning"
  BY DEF Walk!CaptureInvariant, Walk!Fail, Walk!MoveRoot, Walk!CaptureAssumption
<1>2. CASE Walk!Fail
  <2>1. /\ state' = "failed" /\ pass' = 1 /\ todo' = {} /\ reading' = <<>> /\ seen' = <<>>
        /\ entries' = 0 /\ first' = <<>>
        /\ UNCHANGED <<content, root, edits, moments, returned>>
    BY <1>2 DEF Walk!Fail, Walk!tree
  <2>2. Walk!TypeOK' /\ Walk!Sight(content)' \in moments'
    BY <1>1, <2>1, NothingSeen DEF Walk!TypeOK, Walk!Sight
  <2> QED
    BY <2>1, <2>2, NothingSeen DEF Walk!CaptureInvariant, Walk!CaptureIsOneMoment,
        Walk!FilesAreReal
<1>3. CASE Walk!MoveRoot
  <2>1. /\ root' \in BOOLEAN /\ edits' \in Nat
        /\ UNCHANGED <<content, moments, returned, state, pass, todo, reading, seen, entries, first>>
    BY <1>1, <1>3 DEF Walk!MoveRoot, Walk!walk, Walk!TypeOK
  <2>2. Walk!TypeOK' /\ Walk!Sight(content)' \in moments'
    BY <1>1, <2>1 DEF Walk!TypeOK, Walk!Sight
  <2>3. (reading # <<>> => Walk!ReadingKeeps)'
    BY <1>1, <2>1 DEF Walk!CaptureInvariant, Walk!ReadingKeeps, Walk!Was, Walk!Entry, Walk!Min,
        Walk!Shows
  <2>4. PICK D \in SUBSET Walk!Names :
          /\ Walk!Decided(D)
          /\ pass = 2 /\ ~returned => \E t \in moments : Walk!Between(t, D)
    BY <1>1 DEF Walk!CaptureInvariant
  <2>5. Walk!Decided(D)'
    BY <2>1, <2>4 DEF Walk!Decided, Walk!Was, Walk!Shows
  <2>6. ASSUME NEW t \in moments, Walk!Between(t, D)
        PROVE  Walk!Between(t, D)'
    BY <2>1, <2>6 DEF Walk!Between, Walk!Was, Walk!Shows, Walk!Entry, Walk!Min
  <2>7. Walk!CaptureIsOneMoment' /\ Walk!FilesAreReal'
    BY <1>1, <2>1 DEF Walk!CaptureIsOneMoment, Walk!FilesAreReal
  <2> QED
    BY <1>1, <2>1, <2>2, <2>3, <2>4, <2>5, <2>6, <2>7 DEF Walk!CaptureInvariant
<1> QED
  BY <1>2, <1>3

\* A file that is edited does not come to look as it did at an earlier moment, or it is
\* one that has returned.
LEMMA WalkEdit ==
  ASSUME Walk!CaptureAssumption, Walk!CaptureInvariant, Walk!Edit
  PROVE  Walk!CaptureInvariant'
<1>1. PICK n \in Walk!Editable, c \in Contents \cup {Missing}, in_place \in BOOLEAN :
        /\ in_place => c # Missing
        /\ content' = [content EXCEPT ![n] = c]
        /\ returned' = (returned \/ \E m \in moments : Walk!Shows(m, n) = Walk!Appears(c))
        /\ reading' = IF reading = <<>> \/ n # Walk!Entry \/ ~reading.linked THEN reading
                      ELSE IF in_place THEN [reading EXCEPT !.held = c, !.changed = TRUE]
                      ELSE [reading EXCEPT !.linked = FALSE]
  BY DEF Walk!Edit
<1>2. /\ Walk!TypeOK /\ state = "walking" /\ Walk!Sight(content) \in moments
      /\ edits' = edits + 1 /\ moments' = moments \cup {Walk!Sight(content')}
      /\ UNCHANGED <<root, state, pass, todo, seen, entries, first>>
      /\ content' \in Walk!Files /\ UNCHANGED Walk!Entry
      /\ \A l \in Walk!Links : l \in DOMAIN seen => seen[l] = "warning"
  <2>1. /\ Walk!TypeOK /\ state = "walking" /\ Walk!Sight(content) \in moments
        /\ edits' = edits + 1 /\ moments' = moments \cup {Walk!Sight(content')}
        /\ UNCHANGED <<root, state, pass, todo, seen, entries, first>>
        /\ \A l \in Walk!Links : l \in DOMAIN seen => seen[l] = "warning"
    BY DEF Walk!Edit, Walk!CaptureInvariant
  <2>2. content' \in Walk!Files
    BY <1>1, <2>1 DEF Walk!TypeOK, Walk!Files
  <2>3. UNCHANGED Walk!Entry
    BY <2>1 DEF Walk!Entry, Walk!Min
  <2> QED  BY <2>1, <2>2, <2>3
<1>3. reading' = <<>> <=> reading = <<>>
  <2>1. CASE reading = <<>>
    BY <1>1, <2>1
  <2>2. CASE reading # <<>>
    <3>1. reading \in Walk!Readings
      BY <1>2, <2>2 DEF Walk!TypeOK
    <3>2. DOMAIN reading' = {"held", "part", "changed", "linked"}
      BY <1>1, <3>1 DEF Walk!Readings
    <3>3. DOMAIN <<>> = {}
      OBVIOUS
    <3> QED  BY <2>2, <3>2, <3>3
  <2> QED  BY <2>1, <2>2
<1>4. ASSUME reading # <<>>
      PROVE  /\ reading \in Walk!Readings /\ reading' \in Walk!Readings
             /\ \/ reading'.held = reading.held
                \/ n = Walk!Entry /\ c # Missing /\ reading'.held = c
             /\ reading'.part # Missing /\ ~reading'.changed => reading'.part = reading'.held
             /\ Walk!ReadingKeeps
  <2>1. reading \in Walk!Readings /\ Walk!ReadingKeeps
    BY <1>2, <1>4 DEF Walk!TypeOK, Walk!CaptureInvariant
  <2>2. reading.part # Missing /\ ~reading.changed => reading.part = reading.held
    BY <2>1 DEF Walk!ReadingKeeps
  <2>3. CASE n # Walk!Entry \/ ~reading.linked
    BY <1>1, <2>1, <2>2, <2>3
  <2>4. CASE n = Walk!Entry /\ reading.linked /\ in_place
    <3>1. reading' = [reading EXCEPT !.held = c, !.changed = TRUE] /\ c \in Contents
      BY <1>1, <1>4, <2>4
    <3> QED  BY <1>1, <2>1, <2>4, <3>1 DEF Walk!Readings
  <2>5. CASE n = Walk!Entry /\ reading.linked /\ ~in_place
    <3>1. reading' = [reading EXCEPT !.linked = FALSE]
      BY <1>1, <1>4, <2>5
    <3> QED  BY <2>1, <2>2, <3>1 DEF Walk!Readings
  <2> QED  BY <2>3, <2>4, <2>5
<1>5. Walk!TypeOK' /\ Walk!Sight(content)' \in moments'
  <2>1. reading' \in Walk!Readings \cup {<<>>}
    BY <1>3, <1>4
  <2>2. moments' \subseteq Walk!Sights /\ Walk!Sight(content)' = Walk!Sight(content')
    BY <1>2 DEF Walk!TypeOK, Walk!Sights, Walk!Sight
  <2>3. edits' \in Nat /\ returned' \in BOOLEAN
    BY <1>1, <1>2 DEF Walk!TypeOK
  <2> QED
    BY <1>2, <2>1, <2>2, <2>3 DEF Walk!TypeOK
<1>6. /\ \A l \in Walk!Editable : Walk!Shows(Walk!Sight(content'), l) = Walk!Appears(content'[l])
      /\ content'[n] = c /\ \A l \in Walk!Editable \ {n} : content'[l] = content[l]
      /\ c # Missing => Walk!Appears(c) = Walk!Look(c)
  BY <1>1, <1>2, SightShows DEF Walk!TypeOK, Walk!Files, Walk!Appears
<1>7. (reading # <<>> => Walk!ReadingKeeps)'
  <2> SUFFICES ASSUME reading # <<>>
               PROVE  Walk!ReadingKeeps'
    BY <1>3
  <2>1. /\ todo # {} /\ Walk!Entry \in Walk!Editable
        /\ \E m \in moments : Walk!Shows(m, Walk!Entry) = Walk!Look(reading.held)
    BY <1>4 DEF Walk!ReadingKeeps, Walk!Was
  <2>2. \E m \in moments' : Walk!Shows(m, Walk!Entry) = Walk!Look(reading'.held)
    <3>1. CASE reading'.held = reading.held
      BY <1>2, <2>1, <3>1
    <3>2. CASE n = Walk!Entry /\ c # Missing /\ reading'.held = c
      <4>1. Walk!Shows(Walk!Sight(content'), Walk!Entry) = Walk!Look(reading'.held)
        BY <1>6, <2>1, <3>2
      <4> QED  BY <1>2, <4>1
    <3> QED  BY <1>4, <3>1, <3>2
  <2> QED
    BY <1>2, <1>4, <2>1, <2>2 DEF Walk!ReadingKeeps, Walk!Was, Walk!Shows
<1>8. PICK D \in SUBSET Walk!Names :
        /\ Walk!Decided(D)
        /\ pass = 2 /\ ~returned => \E t \in moments : Walk!Between(t, D)
  BY <1>2 DEF Walk!CaptureInvariant
<1>9. Walk!Decided(D)'
  BY <1>2, <1>8 DEF Walk!Decided, Walk!Was, Walk!Shows
<1>10. ASSUME NEW t \in moments, Walk!Between(t, D), ~returned'
       PROVE  Walk!Between(t, D)'
  <2> SUFFICES ASSUME NEW l \in Walk!Editable, Walk!Shows(first, l) # Walk!Shows(t, l)
               PROVE  /\ \E m \in moments' : Walk!Shows(m, l) = Walk!Shows(first, l)
                      /\ Walk!Appears(content'[l]) # Walk!Shows(first, l)
                      /\ l \in D => Walk!Shows(seen, l) # Walk!Shows(first, l)
                      /\ reading' # <<>> /\ l = Walk!Entry =>
                           Walk!Look(reading'.held) # Walk!Shows(first, l)
    BY <1>2 DEF Walk!Between, Walk!Was, Walk!Shows
  <2>1. /\ \E m \in moments : Walk!Shows(m, l) = Walk!Shows(first, l)
        /\ Walk!Appears(content[l]) # Walk!Shows(first, l)
        /\ l \in D => Walk!Shows(seen, l) # Walk!Shows(first, l)
        /\ reading # <<>> /\ l = Walk!Entry => Walk!Look(reading.held) # Walk!Shows(first, l)
    BY <1>10 DEF Walk!Between, Walk!Was
  <2>2. l = n => Walk!Appears(c) # Walk!Shows(first, l)
    BY <1>1, <1>10, <2>1
  <2>3. Walk!Appears(content'[l]) # Walk!Shows(first, l)
    BY <1>6, <2>1, <2>2
  <2>4. reading' # <<>> /\ l = Walk!Entry => Walk!Look(reading'.held) # Walk!Shows(first, l)
    BY <1>3, <1>4, <1>6, <2>1, <2>2
  <2> QED
    BY <1>2, <2>1, <2>3, <2>4
<1>11. (pass = 2 /\ ~returned => \E t \in moments : Walk!Between(t, D))'
  BY <1>1, <1>2, <1>8, <1>10
<1>12. Walk!CaptureIsOneMoment' /\ Walk!FilesAreReal'
  BY <1>2 DEF Walk!CaptureIsOneMoment, Walk!FilesAreReal
<1> QED
  BY <1>2, <1>5, <1>7, <1>9, <1>11, <1>12 DEF Walk!CaptureInvariant

\* Types, what a walk has decided and what was there between two walks, always hold.
THEOREM CaptureInvariantHolds ==
  ASSUME Walk!CaptureAssumption
  PROVE  Walk!Spec => []Walk!CaptureInvariant
<1>1. ASSUME Walk!Init
      PROVE  Walk!CaptureInvariant
  <2>1. /\ content \in Walk!Files /\ state = "walking" /\ pass = 1 /\ todo = Walk!Listing(0)
        /\ reading = <<>> /\ seen = <<>> /\ moments = {Walk!Sight(content)}
    BY <1>1 DEF Walk!Init
  <2>2. Walk!TypeOK
    <3>1. /\ root \in BOOLEAN /\ returned \in BOOLEAN /\ edits \in Nat /\ pass \in 1..2
          /\ entries \in 0..MaxEntries
      <4>1. root = TRUE /\ returned = FALSE /\ edits = 0 /\ entries = 0
        BY <1>1 DEF Walk!Init
      <4>2. MaxEntries \in Nat
        BY DEF Walk!CaptureAssumption
      <4>3. root \in BOOLEAN /\ returned \in BOOLEAN
        BY <4>1, Zenon
      <4>4. edits \in Nat /\ pass \in 1..2 /\ entries \in 0..MaxEntries
        BY <2>1, <4>1, <4>2, SMT
      <4> QED
        BY <4>3, <4>4
    <3>2. seen \in Walk!Walks /\ first \in Walk!Walks
      BY <1>1, NothingSeen DEF Walk!Init
    <3>3. moments \subseteq Walk!Sights
      BY <2>1 DEF Walk!Sights
    <3>4. todo \subseteq Walk!Names
      BY <2>1 DEF Walk!Listing
    <3> QED
      BY <2>1, <3>1, <3>2, <3>3, <3>4 DEF Walk!TypeOK
  <2>3. PICK D \in SUBSET Walk!Names :
          /\ D \cap Walk!Listing(0) = {}
          /\ \A n \in Walk!Names : n \in D \cup Walk!Listing(0) <=> Entries[n].parent \in D \cup {0}
          /\ \A n \in D : n \in Walk!Editable /\ content[n] = Missing
    BY <2>1, WalkBegins
  <2>4. Walk!Decided(D)
    <3>1. \A n \in D : n \notin Walk!Links
      BY <2>3 DEF Walk!Editable, Walk!Links, Walk!Captured
    <3>2. \A n \in D : Walk!Shows(Walk!Sight(content), n) = Walk!Shows(<<>>, n)
      BY <2>1, <2>3, NothingSeen, SightShows DEF Walk!Appears
    <3> QED
      BY <2>1, <2>3, <3>1, <3>2, NothingSeen DEF Walk!Decided, Walk!Was
  <2> QED
    BY <2>1, <2>2, <2>4, NothingSeen DEF Walk!CaptureInvariant, Walk!CaptureIsOneMoment,
        Walk!FilesAreReal
<1>2. ASSUME Walk!CaptureInvariant, [Walk!Next]_Walk!vars
      PROVE  Walk!CaptureInvariant'
  <2>1. CASE Walk!Next
    BY <1>2, <2>1, WalkEntry, WalkFile, WalkOpen, WalkPart, WalkTwice, WalkAccepted, WalkElse,
       WalkEdit DEF Walk!Next
  <2>2. CASE UNCHANGED Walk!vars
    <3>1. UNCHANGED <<content, root, edits, state, pass, todo, reading, seen, entries, first,
                      moments, returned>>
      BY <2>2 DEF Walk!vars
    <3>2. Walk!TypeOK' /\ Walk!Sight(content)' \in moments'
      BY <1>2, <3>1 DEF Walk!CaptureInvariant, Walk!TypeOK, Walk!Sight
    <3>3. Walk!CaptureIsOneMoment' /\ Walk!FilesAreReal'
          /\ (\A n \in Walk!Links : n \in DOMAIN seen => seen[n] = "warning")'
      BY <1>2, <3>1 DEF Walk!CaptureInvariant, Walk!CaptureIsOneMoment, Walk!FilesAreReal
    <3>4. ASSUME state = "walking"
          PROVE  (/\ reading # <<>> => Walk!ReadingKeeps
                  /\ \E D \in SUBSET Walk!Names :
                       /\ Walk!Decided(D)
                       /\ pass = 2 /\ ~returned => \E t \in moments : Walk!Between(t, D))'
      <4>1. PICK D \in SUBSET Walk!Names :
              /\ Walk!Decided(D)
              /\ pass = 2 /\ ~returned => \E t \in moments : Walk!Between(t, D)
        BY <1>2, <3>4 DEF Walk!CaptureInvariant
      <4>2. Walk!Decided(D)'
        BY <3>1, <4>1 DEF Walk!Decided, Walk!Was, Walk!Shows
      <4>3. ASSUME NEW t \in moments, Walk!Between(t, D)
            PROVE  Walk!Between(t, D)'
        BY <3>1, <4>3 DEF Walk!Between, Walk!Was, Walk!Shows, Walk!Entry, Walk!Min
      <4>4. (reading # <<>> => Walk!ReadingKeeps)'
        BY <1>2, <3>1, <3>4 DEF Walk!CaptureInvariant, Walk!ReadingKeeps, Walk!Was, Walk!Entry,
            Walk!Min, Walk!Shows
      <4> QED  BY <3>1, <4>1, <4>2, <4>3, <4>4
    <3> QED
      BY <3>1, <3>2, <3>3, <3>4 DEF Walk!CaptureInvariant
  <2> QED  BY <1>2, <2>1, <2>2
<1> QED
  BY <1>1, <1>2, PTL DEF Walk!Spec

\* A capture is what the workspace contained at one moment, unless a file was changed to
\* what it had been before: for every tree of files, links and directories.
THEOREM CaptureIsOneMomentHolds ==
  ASSUME Walk!CaptureAssumption
  PROVE  Walk!Spec => []Walk!CaptureIsOneMoment
<1>1. Walk!CaptureInvariant => Walk!CaptureIsOneMoment
  BY DEF Walk!CaptureInvariant
<1> QED
  BY <1>1, CaptureInvariantHolds, PTL

\* Every file of a capture, torn by no edit, was there at some moment under the root that
\* is still the workspace.
THEOREM FilesAreRealHolds ==
  ASSUME Walk!CaptureAssumption
  PROVE  Walk!Spec => []Walk!FilesAreReal
<1>1. Walk!CaptureInvariant => Walk!FilesAreReal
  BY DEF Walk!CaptureInvariant
<1> QED
  BY <1>1, CaptureInvariantHolds, PTL

\* All of it: what is captured of a workspace that is edited meanwhile is what it contained at one
\* moment, as far as two walks can tell.
THEOREM CapturesAreRealHolds ==
  ASSUME Walk!CaptureAssumption
  PROVE  Walk!Spec => []Walk!CapturesAreReal
<1>1. Walk!CaptureInvariant /\ Walk!CaptureIsOneMoment /\ Walk!FilesAreReal => Walk!CapturesAreReal
  BY DEF Walk!CapturesAreReal
<1> QED
  BY <1>1, CaptureInvariantHolds, CaptureIsOneMomentHolds, FilesAreRealHolds, PTL

-----------------------------------------------------------------------------
(* The neighborhood of a definition. *)

\* An instance counts as this module does.
LEMMA SameCounts ==
  /\ \A S : Near!IsFiniteSet(S) <=> IsFiniteSet(S)
  /\ \A S : Near!Cardinality(S) = Cardinality(S)
<1>1. \A S : Near!IsFiniteSet(S) <=> IsFiniteSet(S)
  BY DEF Near!IsFiniteSet, IsFiniteSet
<1>2. \A S : Near!Cardinality(S) = Cardinality(S)
  BY DEF Near!Cardinality, Cardinality
<1> QED
  BY <1>1, <1>2

\* The walk starts at a definition.
LEMMA RootIsNode ==
  ASSUME Near!NeighborhoodAssumption
  PROVE  Near!Root \in Nodes
<1>1. Nodes \subseteq Nat /\ Nodes # {}
  BY DEF Near!NeighborhoodAssumption
<1> QED
  BY <1>1, HasLeast DEF Near!Root

\* What a client may ask for.
LEMMA RequestLimits ==
  ASSUME Near!NeighborhoodAssumption, Near!TypeOK
  PROVE  /\ request.max_nodes \in Nat \ {0} /\ request.max_edges \in Nat \ {0}
         /\ request.depth \in 0..4 /\ request.direction \in {"incoming", "outgoing", "both"}
<1>1. request \in Near!Requests
  BY DEF Near!TypeOK
<1>2. /\ request.max_nodes \in MaxNodes /\ request.max_edges \in MaxEdges
      /\ request.depth \in Depths /\ request.direction \in {"incoming", "outgoing", "both"}
  BY <1>1 DEF Near!Requests
<1>3. MaxNodes \subseteq Nat \ {0} /\ MaxEdges \subseteq Nat \ {0} /\ Depths \subseteq 0..4
  BY DEF Near!NeighborhoodAssumption
<1> QED
  BY <1>2, <1>3

\* The store orders the relations of a definition, and the first n are n.
LEMMA FirstRows ==
  ASSUME Near!NeighborhoodAssumption, Near!TypeOK, NEW all \in SUBSET Relations, NEW n \in Nat
  PROVE  LET some == Near!First(all, request.direction, n)
         IN  some \subseteq all /\ IsFiniteSet(some) /\ (some = all \/ Cardinality(some) = n)
<1> DEFINE D == request.direction
           ahead == [r \in all |-> {s \in all : Near!RowBefore(s, r, D)}]
           some == Near!First(all, D, n)
<1>1. IsFiniteSet(all) /\ Cardinality(all) \in Nat
  BY FS_Subset, FS_CardinalityType, SameCounts DEF Near!NeighborhoodAssumption
<1>2. \A r \in all : r \in Nat /\ Near!Key(r, D) \in Nat
  BY DEF Near!NeighborhoodAssumption, Near!TypeOK, Near!Key, Near!Unknown
<1>3. /\ ahead \in [all -> SUBSET all]
      /\ \A r, s \in all : s \in ahead[r] <=> Near!RowBefore(s, r, D)
  OBVIOUS
<1>4. some = {r \in all : Cardinality(ahead[r]) < n}
  BY SameCounts DEF Near!First
<1>5. some \subseteq all
  BY <1>4
<1> HIDE DEF ahead, some
<1>6. CASE n <= Cardinality(all)
  <2>1. \A x \in all : x \notin ahead[x] /\ \A y \in ahead[x] : ahead[y] \subseteq ahead[x]
    <3>1. ASSUME NEW x \in all, NEW y \in ahead[x], NEW z \in ahead[y]
          PROVE  z \in ahead[x]
      <4>1. /\ x \in Nat /\ y \in Nat /\ z \in Nat /\ y \in all /\ z \in all
            /\ Near!Key(x, D) \in Nat /\ Near!Key(y, D) \in Nat /\ Near!Key(z, D) \in Nat
        BY <1>2, <1>3
      <4>2. Near!RowBefore(y, x, D) /\ Near!RowBefore(z, y, D)
        BY <1>3, <4>1
      <4>3. Near!RowBefore(z, x, D)
        BY <4>1, <4>2 DEF Near!RowBefore
      <4> QED  BY <1>3, <4>1, <4>3
    <3>2. ASSUME NEW x \in all
          PROVE  x \notin ahead[x]
      BY <1>2, <1>3 DEF Near!RowBefore
    <3> QED  BY <3>1, <3>2
  <2>2. \A x, y \in all : x = y \/ x \in ahead[y] \/ y \in ahead[x]
    <3> SUFFICES ASSUME NEW x \in all, NEW y \in all
                 PROVE  x = y \/ Near!RowBefore(x, y, D) \/ Near!RowBefore(y, x, D)
      BY <1>3
    <3>1. /\ x \in Nat /\ y \in Nat /\ Near!Key(x, D) \in Nat /\ Near!Key(y, D) \in Nat
      BY <1>2
    <3> QED
      BY <3>1 DEF Near!RowBefore
  <2> HIDE DEF D
  <2>3. Cardinality(some) = n
    BY <1>1, <1>3, <1>4, <1>6, <2>1, <2>2, FirstCount
  <2> QED
    BY <1>1, <1>5, <2>3, FS_Subset DEF some, D
<1>7. CASE ~(n <= Cardinality(all))
  <2>1. ASSUME NEW r \in all
        PROVE  Cardinality(ahead[r]) < n
    <3>1. ahead[r] \in SUBSET all
      BY <1>3
    <3>2. Cardinality(ahead[r]) <= Cardinality(all) /\ Cardinality(ahead[r]) \in Nat
      BY <1>1, <3>1, FS_Subset, FS_CardinalityType
    <3> QED  BY <1>1, <1>7, <3>2
  <2> QED
    BY <1>1, <1>4, <2>1 DEF some, D
<1> QED
  BY <1>6, <1>7

\* The next relation is one of those that are left: the order of the store has a first.
LEMMA RowIsLeft ==
  ASSUME Near!NeighborhoodAssumption, Near!TypeOK, rows # {}
  PROVE  Near!Row \in rows
<1> DEFINE D == request.direction
           some == Near!First(rows, D, 1)
<1>1. rows \in SUBSET Relations /\ IsFiniteSet(rows)
  BY FS_Subset, SameCounts DEF Near!TypeOK, Near!NeighborhoodAssumption
<1>2. some \subseteq rows /\ IsFiniteSet(some) /\ (some = rows \/ Cardinality(some) = 1)
  BY <1>1, FirstRows
<1>3. some # {}
  BY <1>2, FS_EmptySet
<1>4. PICK r \in some : TRUE
  BY <1>3
<1>5. r \in rows /\ Cardinality({s \in rows : Near!RowBefore(s, r, D)}) < 1
  BY <1>4, SameCounts DEF Near!First
<1>6. \A s \in rows : ~Near!RowBefore(s, r, D)
  <2> DEFINE T == {s \in rows : Near!RowBefore(s, r, D)}
  <2>1. T \in SUBSET rows
    OBVIOUS
  <2> HIDE DEF T
  <2>2. IsFiniteSet(T) /\ Cardinality(T) \in Nat
    BY <1>1, <2>1, FS_Subset, FS_CardinalityType
  <2>3. Cardinality(T) < 1
    BY <1>5 DEF T
  <2>4. T = {}
    BY <2>2, <2>3, FS_EmptySet
  <2> QED  BY <2>4 DEF T
<1> QED
  BY <1>5, <1>6 DEF Near!Row

\* What a relation puts into the queue: what it leads to, at the depth behind it.
LEMMA OnwardItems ==
  ASSUME Near!NeighborhoodAssumption, Near!TypeOK, NEW r \in Relations
  PROVE  /\ Near!Onward(r) \in Seq([id : Nodes, depth : Nat])
         /\ \A i \in DOMAIN Near!Onward(r) : Near!Onward(r)[i].depth = depth
         /\ Near!Ahead(r) = {Near!Onward(r)[i].id : i \in DOMAIN Near!Onward(r)}
<1> DEFINE Item == [id : Nodes, depth : Nat]
           S == [id |-> source[r], depth |-> depth]
           T == [id |-> target[r], depth |-> depth]
<1>1. source[r] \in Nodes /\ (target[r] \in Nodes \/ target[r] = Near!Unknown)
      /\ depth \in Nat /\ request.direction \in {"incoming", "outgoing", "both"}
      /\ source[r] # Near!Unknown
  BY DEF Near!TypeOK, Near!Requests, Near!NeighborhoodAssumption
<1>2. S \in Item /\ (target[r] # Near!Unknown => T \in Item)
  BY <1>1
<1>3. CASE request.direction = "incoming"
  <2>1. Near!Ahead(r) = {source[r]} /\ Near!Onward(r) = <<S>> \o <<>>
    BY <1>1, <1>3 DEF Near!Ahead, Near!Onward
  <2>2. Near!Onward(r) = <<S>>
    BY <1>2, <2>1, ConcatEmptySeq
  <2> QED  BY <1>2, <2>1, <2>2
<1>4. CASE request.direction = "outgoing"
  <2>1. CASE target[r] = Near!Unknown
    <3>1. Near!Ahead(r) = {} /\ Near!Onward(r) = <<>> \o <<>>
      BY <1>4, <2>1 DEF Near!Ahead, Near!Onward
    <3> QED  BY <3>1
  <2>2. CASE target[r] # Near!Unknown
    <3>1. Near!Ahead(r) = {target[r]} /\ Near!Onward(r) = <<>> \o <<T>>
      BY <1>4, <2>2 DEF Near!Ahead, Near!Onward
    <3> QED  BY <1>2, <2>2, <3>1
  <2> QED  BY <2>1, <2>2
<1>5. CASE request.direction = "both"
  <2>1. CASE target[r] = Near!Unknown
    <3>1. Near!Ahead(r) = {source[r]} /\ Near!Onward(r) = <<S>> \o <<>>
      BY <1>5, <2>1 DEF Near!Ahead, Near!Onward
    <3> QED  BY <1>2, <3>1
  <2>2. CASE target[r] # Near!Unknown
    <3>1. Near!Ahead(r) = {target[r], source[r]} /\ Near!Onward(r) = <<S>> \o <<T>>
      BY <1>5, <2>2 DEF Near!Ahead, Near!Onward
    <3> QED  BY <1>2, <2>2, <3>1
  <2> QED  BY <2>1, <2>2
<1> QED
  BY <1>1, <1>3, <1>4, <1>5

\* The definitions by their distance: there is such a function, as there are five levels.
LEMMA WithinUnfolds ==
  /\ Near!Within[0] = {Near!Root}
  /\ \A d \in 0..3 : Near!Within[d + 1] = Near!Within[d] \cup Near!Step(Near!Within[d])
<1> DEFINE On(S) == S \cup Near!Step(S)
           P(f) == f = [d \in 0..4 |-> IF d = 0 THEN {Near!Root} ELSE f[d - 1] \cup Near!Step(f[d - 1])]
           one == On({Near!Root})   two == On(one)   three == On(two)   four == On(three)
           g == [d \in 0..4 |-> IF d = 0 THEN {Near!Root} ELSE IF d = 1 THEN one
                                ELSE IF d = 2 THEN two ELSE IF d = 3 THEN three ELSE four]
<1>1. /\ g[0] = {Near!Root} /\ g[1] = one /\ g[2] = two /\ g[3] = three /\ g[4] = four
      /\ g = [d \in 0..4 |-> g[d]]
  OBVIOUS
<1>2. /\ one = g[0] \cup Near!Step(g[0]) /\ two = g[1] \cup Near!Step(g[1])
      /\ three = g[2] \cup Near!Step(g[2]) /\ four = g[3] \cup Near!Step(g[3])
  BY <1>1
<1> HIDE DEF g, one, two, three, four
<1>3. \A d \in 0..4 : g[d] = IF d = 0 THEN {Near!Root} ELSE g[d - 1] \cup Near!Step(g[d - 1])
  <2>1. \A d \in 0..4 : d = 0 \/ d = 1 \/ d = 2 \/ d = 3 \/ d = 4
    OBVIOUS
  <2> QED
    <3>1. g[0] = {Near!Root}
      BY <1>1
    <3>2. \A d \in {1, 2, 3, 4} : g[d] = g[d - 1] \cup Near!Step(g[d - 1])
      BY <1>1, <1>2
    <3> QED
      BY <2>1, <3>1, <3>2
<1>4. P(g)
  BY <1>1, <1>3
<1>5. Near!Within = CHOOSE f : P(f)
  BY DEF Near!Within
<1>6. P(Near!Within)
  BY <1>4, <1>5
<1> QED
  BY <1>6

\* The neighborhood is that of the snapshot and the request, which the walk does not change.
LEMMA GraphStays ==
  ASSUME source' = source, target' = target, request' = request
  PROVE  /\ Near!Within' = Near!Within
         /\ \A r : Near!Ahead(r)' = Near!Ahead(r) /\ Near!Ends(r)' = Near!Ends(r)
         /\ \A n, d : Near!Incident(n, d)' = Near!Incident(n, d)
         /\ Near!ExpectedEdges' = Near!ExpectedEdges
         /\ Near!ExpectedNodes' = Near!ExpectedNodes
         /\ \A S : Near!Step(S)' = Near!Step(S)
<1>1. \A r : Near!Ahead(r)' = Near!Ahead(r) /\ Near!Ends(r)' = Near!Ends(r)
  BY DEF Near!Ahead, Near!Ends
<1>2. \A n, d : Near!Incident(n, d)' = Near!Incident(n, d)
  BY DEF Near!Incident
<1>3. \A S : Near!Step(S)' = Near!Step(S)
  BY DEF Near!Step, Near!Ahead, Near!Incident
<1>4. Near!Within' = Near!Within
  BY DEF Near!Within, Near!Step, Near!Ahead, Near!Incident
<1>5. Near!ExpectedEdges' = Near!ExpectedEdges
  BY <1>2, <1>4 DEF Near!ExpectedEdges, Near!Incident
<1>6. Near!ExpectedNodes' = Near!ExpectedNodes
  BY <1>1, <1>5 DEF Near!ExpectedNodes, Near!Ends
<1> QED
  BY <1>1, <1>2, <1>3, <1>4, <1>5, <1>6

\* A definition within some distance is within any larger one.
LEMMA WithinGrows ==
  ASSUME NEW d \in 0..4, NEW e \in 0..d
  PROVE  Near!Within[e] \subseteq Near!Within[d] /\ Near!Root \in Near!Within[d]
<1>1. /\ Near!Within[0] \subseteq Near!Within[1] /\ Near!Within[1] \subseteq Near!Within[2]
      /\ Near!Within[2] \subseteq Near!Within[3] /\ Near!Within[3] \subseteq Near!Within[4]
      /\ Near!Root \in Near!Within[0]
  BY WithinUnfolds
<1>2. d \in {0, 1, 2, 3, 4} /\ e \in {0, 1, 2, 3, 4} /\ e <= d
  OBVIOUS
<1> HIDE DEF Near!Within
<1> QED
  BY <1>1, <1>2

\* A relation of a definition at some distance leads one further.
LEMMA AheadIsNear ==
  ASSUME NEW d \in 1..4, NEW n \in Near!Within[d - 1],
         NEW r \in Near!Incident(n, request.direction)
  PROVE  Near!Ahead(r) \subseteq Near!Within[d]
<1>1. Near!Ahead(r) \subseteq Near!Step(Near!Within[d - 1])
  BY DEF Near!Step
<1>2. d - 1 \in 0..3 /\ (d - 1) + 1 = d
  OBVIOUS
<1> QED
  BY <1>1, <1>2, WithinUnfolds

\* The front of a queue, and what is behind it.
LEMMA QueueFront ==
  ASSUME Near!TypeOK, queue # <<>>
  PROVE  /\ Len(queue) \in Nat \ {0} /\ DOMAIN queue = 1..Len(queue)
         /\ Head(queue) = queue[1] /\ queue[1].id \in Nodes /\ queue[1].depth \in Nat
         /\ Tail(queue) \in Seq([id : Nodes, depth : Nat]) /\ Len(Tail(queue)) = Len(queue) - 1
         /\ DOMAIN Tail(queue) = 1..(Len(queue) - 1)
         /\ \A i \in DOMAIN Tail(queue) : i + 1 \in DOMAIN queue /\ Tail(queue)[i] = queue[i + 1]
<1>1. queue \in Seq([id : Nodes, depth : Nat])
  BY DEF Near!TypeOK
<1>2. Len(queue) \in Nat \ {0} /\ DOMAIN queue = 1..Len(queue)
  BY <1>1, EmptySeq, LenProperties
<1>3. queue[1] \in [id : Nodes, depth : Nat]
  <2>1. 1 \in 1..Len(queue)
    BY <1>2
  <2> QED  BY <1>1, <2>1, ElementOfSeq
<1>4. /\ Head(queue) = queue[1] /\ Tail(queue) \in Seq([id : Nodes, depth : Nat])
      /\ Len(Tail(queue)) = Len(queue) - 1 /\ \A i \in 1..Len(Tail(queue)) : Tail(queue)[i] = queue[i + 1]
  BY <1>1, HeadTailProperties
<1>5. DOMAIN Tail(queue) = 1..(Len(queue) - 1)
  BY <1>4, LenProperties
<1> QED
  BY <1>2, <1>3, <1>4, <1>5

\* A relation has few ends, and what it leads to is among them.
LEMMA EndsAreFew ==
  ASSUME Near!NeighborhoodAssumption, Near!TypeOK, NEW r \in Relations
  PROVE  Near!Ends(r) \subseteq Nodes /\ IsFiniteSet(Near!Ends(r)) /\ Near!Ahead(r) \subseteq Near!Ends(r)
<1>1. Near!Ends(r) \subseteq Nodes
  BY DEF Near!TypeOK, Near!Ends
<1>2. IsFiniteSet({source[r]}) /\ IsFiniteSet({source[r]} \cup {target[r]})
  BY FS_Singleton, FS_AddElement
<1>3. Near!Ends(r) \in SUBSET ({source[r]} \cup {target[r]})
  BY DEF Near!Ends
<1>4. IsFiniteSet(Near!Ends(r))
  BY <1>2, <1>3, FS_Subset
<1>5. Near!Ahead(r) \subseteq Near!Ends(r)
  BY DEF Near!Ahead, Near!Ends, Near!TypeOK, Near!NeighborhoodAssumption
<1> QED
  BY <1>1, <1>4, <1>5

\* Every step keeps the types.
LEMMA NearTypes ==
  ASSUME Near!NeighborhoodAssumption, Near!TypeOK, Near!Next
  PROVE  Near!TypeOK'
<1>1. /\ source \in [Relations -> Nodes] /\ target \in [Relations -> Nodes \cup {Near!Unknown}]
      /\ request \in Near!Requests
      /\ nodes \subseteq Nodes /\ edges \subseteq Relations /\ visited \subseteq Nodes
      /\ queue \in Seq([id : Nodes, depth : Nat]) /\ rows \subseteq Relations /\ depth \in Nat
      /\ bytes \in 0..ByteBudget /\ truncated \in BOOLEAN /\ stopped \in BOOLEAN
      /\ state \in {"start", "walk", "done"}
  BY DEF Near!TypeOK
<1>2. <<>> \in Seq([id : Nodes, depth : Nat])
  BY EmptySeq
<1>3. CASE Near!Stop \/ Near!GiveUp \/ Near!RefuseRoot
  BY <1>1, <1>3 DEF Near!Stop, Near!GiveUp, Near!RefuseRoot, Near!graph, Near!TypeOK, Near!Requests
<1>4. CASE Near!Begin
  <2>1. <<[id |-> Near!Root, depth |-> 0]>> \in Seq([id : Nodes, depth : Nat])
    BY RootIsNode
  <2>2. 1 \in 0..ByteBudget
    BY DEF Near!NeighborhoodAssumption
  <2> QED
    BY <1>1, <1>4, <2>1, <2>2, RootIsNode DEF Near!Begin, Near!graph, Near!TypeOK, Near!Requests
<1>5. CASE Near!Skip
  <2>1. Tail(queue) \in Seq([id : Nodes, depth : Nat])
    BY <1>5, QueueFront DEF Near!Skip, Near!AtNext
  <2> QED
    BY <1>1, <1>5, <2>1 DEF Near!Skip, Near!graph, Near!TypeOK, Near!Requests
<1>6. CASE Near!Expand
  <2>1. /\ Tail(queue) \in Seq([id : Nodes, depth : Nat])
        /\ Head(queue).id \in Nodes /\ Head(queue).depth + 1 \in Nat
    BY <1>6, QueueFront DEF Near!Expand, Near!AtNext
  <2>2. Near!adjacency(Head(queue).id, request.direction, request.max_edges + 1) \subseteq Relations
    BY DEF Near!adjacency, Near!First, Near!Incident
  <2>3. /\ source' = source /\ target' = target /\ request' = request /\ nodes' = nodes
        /\ edges' = edges /\ bytes' = bytes /\ stopped' = stopped /\ state' = state
        /\ visited' = visited \cup {Head(queue).id}
    BY <1>6 DEF Near!Expand, Near!graph
  <2>4. queue' \in {<<>>, Tail(queue)} /\ rows' \subseteq Relations /\ depth' \in Nat
        /\ truncated' \in BOOLEAN
    BY <1>1, <1>6, <2>1, <2>2 DEF Near!Expand, Near!BreakWalk
  <2> QED
    BY <1>1, <1>2, <2>1, <2>3, <2>4 DEF Near!TypeOK, Near!Requests
<1>7. CASE Near!PassRow
  <2>1. /\ queue' \in {<<>>, queue} /\ rows' \subseteq Relations /\ truncated' \in BOOLEAN
    BY <1>1, <1>7 DEF Near!PassRow, Near!BreakWalk
  <2>2. /\ source' = source /\ target' = target /\ request' = request /\ nodes' = nodes
        /\ edges' = edges /\ bytes' = bytes /\ stopped' = stopped /\ state' = state
        /\ visited' = visited /\ depth' = depth
    BY <1>7 DEF Near!PassRow, Near!graph
  <2> QED
    BY <1>1, <1>2, <2>1, <2>2 DEF Near!TypeOK, Near!Requests
<1>8. CASE Near!AddRow
  <2>1. Near!Row \in Relations
    BY <1>1, <1>8, RowIsLeft DEF Near!AddRow, Near!AtRow
  <2>2. queue \o Near!Onward(Near!Row) \in Seq([id : Nodes, depth : Nat])
    BY <1>1, <2>1, OnwardItems, ConcatProperties
  <2>3. Near!Required \subseteq Nodes /\ Cardinality(Near!Required) \in Nat
    <3>1. Near!Required \in SUBSET Near!Ends(Near!Row)
      BY DEF Near!Required
    <3> QED  BY <2>1, <3>1, EndsAreFew, FS_Subset, FS_CardinalityType
  <2>4. Near!Size \in 0..ByteBudget
    BY <1>1, <1>8, <2>3, SameCounts DEF Near!AddRow, Near!Size, Near!NeighborhoodAssumption
  <2>5. /\ source' = source /\ target' = target /\ request' = request /\ stopped' = stopped
        /\ state' = state /\ visited' = visited /\ depth' = depth /\ truncated' = truncated
        /\ nodes' = nodes \cup Near!Required /\ edges' = edges \cup {Near!Row}
        /\ bytes' = Near!Size /\ queue' = queue \o Near!Onward(Near!Row)
        /\ rows' = rows \ {Near!Row}
    BY <1>8 DEF Near!AddRow, Near!graph
  <2> QED
    BY <1>1, <2>1, <2>2, <2>3, <2>4, <2>5 DEF Near!TypeOK, Near!Requests
<1>9. CASE Near!Finish
  BY <1>1, <1>2, <1>9 DEF Near!Finish, Near!graph, Near!TypeOK, Near!Requests
<1> QED
  BY <1>3, <1>4, <1>5, <1>6, <1>7, <1>8, <1>9 DEF Near!Next

\* What only looks at the response leaves it inside of the neighborhood.
LEMMA InsideStays ==
  ASSUME Near!TypeOK, Near!WalkIsInside, UNCHANGED <<Near!graph, nodes, edges, visited, depth>>,
         rows' \subseteq rows, \A i \in DOMAIN queue' : \E j \in DOMAIN queue : queue'[i] = queue[j],
         state' = "start" => state = "start" /\ queue' = <<>> /\ rows' = {},
         state' = "walk" => state = "walk"
  PROVE  Near!WalkIsInside'
<1>1. source' = source /\ target' = target /\ request' = request /\ nodes' = nodes
      /\ edges' = edges /\ visited' = visited /\ depth' = depth
  BY DEF Near!graph
<1>2. Near!ResponseIsClosed'
  <2>1. Near!ResponseIsClosed
    BY DEF Near!WalkIsInside
  <2>2. /\ Cardinality(nodes) <= request.max_nodes /\ Cardinality(edges) <= request.max_edges
        /\ UNION {Near!Ends(r) : r \in edges} \subseteq nodes
        /\ nodes \subseteq Near!ExpectedNodes /\ edges \subseteq Near!ExpectedEdges
    BY <2>1, SameCounts DEF Near!ResponseIsClosed
  <2> QED
    BY <1>1, <2>2, SameCounts, GraphStays DEF Near!ResponseIsClosed, Near!Ends
<1>3. \A i \in DOMAIN queue' : /\ queue'[i].depth <= request.depth
                              /\ queue'[i].id \in Near!Within[queue'[i].depth]
  BY DEF Near!WalkIsInside
<1>4. \A r \in rows' : /\ depth \in 1..request.depth
                      /\ \E n \in Near!Within[depth - 1] : r \in Near!Incident(n, request.direction)
  BY DEF Near!WalkIsInside
<1>5. /\ state' = "start" => nodes = {} /\ edges = {} /\ visited = {}
      /\ state' = "walk" => Near!Root \in nodes
      /\ IsFiniteSet(nodes) /\ nodes \subseteq {Near!Root} \cup UNION {Near!Ends(r) : r \in edges}
      /\ visited # {} => request.depth > 0 /\ visited \subseteq Near!Within[request.depth - 1]
  BY SameCounts DEF Near!WalkIsInside
<1>6. (IsFiniteSet(nodes) <=> Near!IsFiniteSet(nodes)')
  BY <1>1, SameCounts
<1>7. /\ Near!Within' = Near!Within
      /\ \A r : Near!Ends(r)' = Near!Ends(r)
      /\ \A n, d : Near!Incident(n, d)' = Near!Incident(n, d)
  BY <1>1, GraphStays
<1> QED
  BY <1>1, <1>2, <1>3, <1>4, <1>5, <1>6, <1>7 DEF Near!WalkIsInside, Near!Ends, Near!Incident

\* The root alone is inside.
LEMMA InsideBegins ==
  ASSUME Near!NeighborhoodAssumption, Near!TypeOK, Near!WalkIsInside, Near!Begin
  PROVE  Near!WalkIsInside'
<1>1. /\ source' = source /\ target' = target /\ request' = request /\ nodes' = {Near!Root}
      /\ edges' = {} /\ visited' = {} /\ rows' = {} /\ state' = "walk"
      /\ queue' = <<[id |-> Near!Root, depth |-> 0]>>
  BY DEF Near!Begin, Near!graph, Near!WalkIsInside
<1>2. /\ DOMAIN queue' = {1} /\ queue'[1].depth = 0 /\ queue'[1].id = Near!Root
  BY <1>1
<1>3. request.max_nodes \in Nat \ {0} /\ request.max_edges \in Nat /\ request.depth \in Nat
  BY RequestLimits
<1>4. /\ IsFiniteSet({Near!Root}) /\ Cardinality({Near!Root}) = 1 /\ Cardinality({}) = 0
  BY FS_Singleton, FS_EmptySet
<1>5. Near!Root \in Near!Within[0] /\ Near!Root \in Near!ExpectedNodes
  BY WithinUnfolds DEF Near!ExpectedNodes
<1>6. /\ Near!Within' = Near!Within /\ Near!ExpectedNodes' = Near!ExpectedNodes
      /\ Near!Root' = Near!Root
  BY <1>1, GraphStays DEF Near!Root
<1>7. Near!ResponseIsClosed'
  <2>1. /\ Near!Cardinality(nodes)' <= request.max_nodes /\ Near!Cardinality(edges)' <= request.max_edges
    BY <1>1, <1>3, <1>4, SameCounts
  <2> QED
    BY <1>1, <1>5, <1>6, <2>1 DEF Near!ResponseIsClosed
<1>8. Near!IsFiniteSet(nodes)'
  BY <1>1, <1>4, SameCounts
<1> QED
  BY <1>1, <1>2, <1>3, <1>5, <1>6, <1>7, <1>8 DEF Near!WalkIsInside

\* The rows of a definition that is near enough are relations of the neighborhood.
LEMMA InsideExpands ==
  ASSUME Near!NeighborhoodAssumption, Near!TypeOK, Near!WalkIsInside, Near!Expand
  PROVE  Near!WalkIsInside'
<1> DEFINE n == Head(queue).id
           all == Near!adjacency(n, request.direction, request.max_edges + 1)
<1>1. /\ source' = source /\ target' = target /\ request' = request /\ nodes' = nodes
      /\ edges' = edges /\ visited' = visited \cup {n} /\ state' = "walk" /\ state = "walk"
      /\ queue # <<>> /\ Head(queue).depth < request.depth
  BY DEF Near!Expand, Near!graph, Near!AtNext
<1>2. \/ queue' = <<>> /\ rows' = {}
      \/ queue' = Tail(queue) /\ rows' = all /\ depth' = Head(queue).depth + 1
  BY DEF Near!Expand, Near!BreakWalk
<1>3. /\ Head(queue) = queue[1] /\ 1 \in DOMAIN queue /\ queue[1].depth \in Nat
      /\ request.depth \in 0..4
      /\ \A i \in DOMAIN Tail(queue) : i + 1 \in DOMAIN queue /\ Tail(queue)[i] = queue[i + 1]
  BY <1>1, QueueFront, RequestLimits
<1>4. n \in Near!Within[Head(queue).depth] /\ Head(queue).depth \in 0..(request.depth - 1)
  BY <1>1, <1>3 DEF Near!WalkIsInside
<1>5. n \in Near!Within[request.depth - 1] /\ request.depth > 0
  BY <1>1, <1>3, <1>4, WithinGrows
<1>6. \A i \in DOMAIN queue' : /\ queue'[i].depth <= request.depth
                              /\ queue'[i].id \in Near!Within[queue'[i].depth]
  BY <1>2, <1>3 DEF Near!WalkIsInside
<1>7. \A r \in rows' : /\ depth' \in 1..request.depth
                      /\ \E m \in Near!Within[depth' - 1] : r \in Near!Incident(m, request.direction)
  <2>1. CASE rows' = {}
    BY <2>1
  <2>2. CASE rows' = all /\ depth' = Head(queue).depth + 1
    <3>1. depth' \in 1..request.depth /\ depth' - 1 = Head(queue).depth
      BY <1>3, <1>4, <2>2
    <3>2. all \subseteq Near!Incident(n, request.direction)
      BY DEF Near!adjacency, Near!First
    <3> QED  BY <1>4, <2>2, <3>1, <3>2
  <2> QED  BY <1>2, <2>1, <2>2
<1>8. Near!ResponseIsClosed'
  <2>1. /\ Cardinality(nodes) <= request.max_nodes /\ Cardinality(edges) <= request.max_edges
        /\ UNION {Near!Ends(r) : r \in edges} \subseteq nodes
        /\ nodes \subseteq Near!ExpectedNodes /\ edges \subseteq Near!ExpectedEdges
    BY SameCounts DEF Near!ResponseIsClosed, Near!WalkIsInside
  <2> QED
    BY <1>1, <2>1, SameCounts, GraphStays DEF Near!ResponseIsClosed, Near!Ends
<1>9. /\ Near!Root \in nodes /\ Near!IsFiniteSet(nodes)'
      /\ nodes \subseteq {Near!Root} \cup UNION {Near!Ends(r) : r \in edges}
      /\ visited \cup {n} \subseteq Near!Within[request.depth - 1]
  BY <1>1, <1>5, SameCounts DEF Near!WalkIsInside
<1>10. /\ Near!Within' = Near!Within
      /\ \A r : Near!Ends(r)' = Near!Ends(r)
      /\ \A m, d : Near!Incident(m, d)' = Near!Incident(m, d)
  BY <1>1, GraphStays
<1> HIDE DEF all, n
<1> QED
  BY <1>1, <1>5, <1>6, <1>7, <1>8, <1>9, <1>10 DEF Near!WalkIsInside, Near!Ends, Near!Incident

\* A relation that is added is one of the neighborhood, and comes with its ends.
LEMMA InsideAdds ==
  ASSUME Near!NeighborhoodAssumption, Near!TypeOK, Near!WalkIsInside, Near!AddRow
  PROVE  Near!WalkIsInside'
<1> DEFINE onward == Near!Onward(Near!Row)
<1>1. PICK r : r = Near!Row
  OBVIOUS
<1>2. /\ source' = source /\ target' = target /\ request' = request /\ visited' = visited
      /\ depth' = depth /\ state' = "walk" /\ state = "walk"
      /\ nodes' = nodes \cup Near!Required /\ edges' = edges \cup {r}
      /\ queue' = queue \o onward /\ rows' = rows \ {r} /\ rows # {} /\ r \notin edges
      /\ Cardinality(edges) < request.max_edges /\ Cardinality(nodes \cup Near!Required) <= request.max_nodes
  BY <1>1, SameCounts DEF Near!AddRow, Near!graph, Near!AtRow, Near!FitsNodes
<1>3. r \in rows /\ r \in Relations /\ rows \subseteq Relations
  BY <1>1, <1>2, RowIsLeft DEF Near!TypeOK
<1>4. /\ depth \in 1..request.depth /\ request.depth \in 0..4
      /\ \E n \in Near!Within[depth - 1] : r \in Near!Incident(n, request.direction)
  BY <1>3, RequestLimits DEF Near!WalkIsInside
<1>5. PICK n \in Near!Within[depth - 1] : r \in Near!Incident(n, request.direction)
  BY <1>4
<1>6. r \in Near!ExpectedEdges
  <2>1. depth - 1 \in 0..(request.depth - 1) /\ request.depth - 1 \in 0..4 /\ request.depth # 0
    BY <1>4
  <2>2. n \in Near!Within[request.depth - 1]
    BY <1>5, <2>1, WithinGrows
  <2> QED
    BY <1>5, <2>1, <2>2 DEF Near!ExpectedEdges
<1>7. Near!Ahead(r) \subseteq Near!Within[depth]
  BY <1>4, <1>5, AheadIsNear
<1>8. \A i \in DOMAIN queue' : /\ queue'[i].depth <= request.depth
                              /\ queue'[i].id \in Near!Within[queue'[i].depth]
  <2>1. /\ onward \in Seq([id : Nodes, depth : Nat]) /\ queue \in Seq([id : Nodes, depth : Nat])
        /\ \A i \in DOMAIN onward : onward[i].depth = depth /\ onward[i].id \in Near!Ahead(r)
    BY <1>1, <1>3, OnwardItems DEF Near!TypeOK
  <2> HIDE DEF onward
  <2>2. \A i \in DOMAIN queue' : \/ i \in DOMAIN queue /\ queue'[i] = queue[i]
                                 \/ \E j \in DOMAIN onward : queue'[i] = onward[j]
    BY <1>2, <2>1, ConcatProperties, LenProperties
  <2>3. \A i \in DOMAIN queue : /\ queue[i].depth <= request.depth
                                /\ queue[i].id \in Near!Within[queue[i].depth]
    BY DEF Near!WalkIsInside
  <2>4. depth <= request.depth
    BY <1>4
  <2> QED
    BY <1>7, <2>1, <2>2, <2>3, <2>4
<1>9. \A s \in rows' : /\ depth \in 1..request.depth
                      /\ \E m \in Near!Within[depth - 1] : s \in Near!Incident(m, request.direction)
  BY <1>2 DEF Near!WalkIsInside
<1>10. /\ IsFiniteSet(nodes \cup Near!Required) /\ IsFiniteSet(edges)
       /\ Cardinality(edges \cup {r}) = Cardinality(edges) + 1 /\ Cardinality(edges) \in Nat
  <2>1. IsFiniteSet(edges) /\ edges \in SUBSET Relations
    BY FS_Subset, SameCounts DEF Near!TypeOK, Near!NeighborhoodAssumption
  <2>2. Near!Required \in SUBSET Near!Ends(r)
    BY <1>1 DEF Near!Required
  <2>3. IsFiniteSet(Near!Required) /\ IsFiniteSet(nodes)
    BY <1>3, <2>2, EndsAreFew, FS_Subset, SameCounts DEF Near!WalkIsInside
  <2> QED
    BY <1>2, <2>1, <2>3, FS_Union, FS_AddElement, FS_CardinalityType
<1>11. request.max_edges \in Nat
  BY RequestLimits
<1>12. /\ nodes' \subseteq {Near!Root} \cup UNION {Near!Ends(s) : s \in edges'}
       /\ UNION {Near!Ends(s) : s \in edges'} \subseteq nodes'
       /\ edges' \subseteq Near!ExpectedEdges
  <2>1. Near!Required = Near!Ends(r) \ nodes
    BY <1>1 DEF Near!Required
  <2> QED
    BY <1>2, <1>6, <2>1 DEF Near!WalkIsInside, Near!ResponseIsClosed
<1>13. nodes' \subseteq Near!ExpectedNodes
  BY <1>12 DEF Near!ExpectedNodes
<1>14. /\ Near!Within' = Near!Within /\ Near!ExpectedNodes' = Near!ExpectedNodes
       /\ Near!ExpectedEdges' = Near!ExpectedEdges /\ Near!Root' = Near!Root
       /\ \A s : Near!Ends(s)' = Near!Ends(s)
       /\ \A m, d : Near!Incident(m, d)' = Near!Incident(m, d)
  BY <1>2, GraphStays DEF Near!Root
<1>15. Near!ResponseIsClosed'
  <2>1. Near!Cardinality(nodes)' <= request.max_nodes /\ Near!Cardinality(edges)' <= request.max_edges
    BY <1>2, <1>10, <1>11, SameCounts
  <2> QED
    BY <1>2, <1>12, <1>13, <1>14, <2>1 DEF Near!ResponseIsClosed, Near!Ends
<1>16. /\ Near!Root \in nodes' /\ Near!IsFiniteSet(nodes)'
       /\ visited # {} => request.depth > 0 /\ visited \subseteq Near!Within[request.depth - 1]
  BY <1>2, <1>10, SameCounts DEF Near!WalkIsInside
<1> HIDE DEF onward
<1>17. (\A i \in DOMAIN queue : /\ queue[i].depth <= request.depth
                               /\ queue[i].id \in Near!Within[queue[i].depth])'
  BY <1>2, <1>8, <1>14
<1>18. (\A s \in rows : /\ depth \in 1..request.depth
                       /\ \E m \in Near!Within[depth - 1] : s \in Near!Incident(m, request.direction))'
  BY <1>2, <1>9, <1>14 DEF Near!Incident
<1>19. (nodes \subseteq {Near!Root} \cup UNION {Near!Ends(s) : s \in edges})'
  BY <1>2, <1>12, <1>14 DEF Near!Ends
<1>20. (visited # {} => request.depth > 0 /\ visited \subseteq Near!Within[request.depth - 1])'
  BY <1>2, <1>14, <1>16
<1> QED
  <2>1. state' = "walk" /\ (state = "walk" => Near!Root \in nodes)' /\ Near!IsFiniteSet(nodes)'
    BY <1>2, <1>14, <1>16
  <2> QED  BY <1>15, <1>17, <1>18, <1>19, <1>20, <2>1 DEF Near!WalkIsInside

\* With no rows left, an answer that was not cut has all relations of what was expanded.
LEMMA ExpandedIsWhole ==
  ASSUME Near!NeighborhoodAssumption, Near!TypeOK, Near!WalkIsInside, rows = {},
         NEW level, NEW k, Near!ByLevel(level, k)
  PROVE  \A n \in visited : Near!Incident(n, request.direction) \subseteq edges
<1>1. Cardinality(edges) <= request.max_edges
  BY SameCounts DEF Near!WalkIsInside, Near!ResponseIsClosed
<1>2. IsFiniteSet(edges) /\ Cardinality(edges) \in Nat
  BY FS_Subset, FS_CardinalityType, SameCounts DEF Near!TypeOK, Near!NeighborhoodAssumption
<1>3. ~(Near!Cardinality(edges \cup rows) > request.max_edges)
  <2>1. edges \cup rows = edges
    OBVIOUS
  <2> QED  BY <1>1, <1>2, <2>1, RequestLimits, SameCounts
<1> QED
  BY <1>3 DEF Near!ByLevel

\* When a level is done and definitions are queued, the next level is complete.
LEMMA NextLevel ==
  ASSUME Near!NeighborhoodAssumption, Near!TypeOK, Near!WalkIsInside, rows = {}, queue # <<>>,
         NEW level \in 0..request.depth, Near!ByLevel(level, 0)
  PROVE  level + 1 \in 0..request.depth /\ Near!ByLevel(level + 1, Len(queue))
<1>1. /\ Len(queue) \in Nat \ {0} /\ DOMAIN queue = 1..Len(queue) /\ request.depth \in 0..4
      /\ level \in Nat
  BY QueueFront, RequestLimits
<1>2. \A i \in DOMAIN queue : queue[i].depth = level + 1
  BY <1>1 DEF Near!ByLevel
<1>3. level + 1 <= request.depth
  <2>1. 1 \in DOMAIN queue
    BY <1>1
  <2> QED  BY <1>2, <2>1 DEF Near!WalkIsInside
<1>4. level + 1 \in 0..request.depth /\ level < request.depth /\ level \in 0..3
  BY <1>1, <1>3
<1>5. Near!Within[level] \subseteq visited /\ \A r \in edges : Near!Ahead(r) \subseteq visited \cup Near!Queued
  <2>1. {queue[i].id : i \in 1..0} = {}
    OBVIOUS
  <2> QED  BY <1>4, <2>1 DEF Near!ByLevel
<1>6. Near!Within[level + 1] \subseteq visited \cup Near!Queued
  <2>1. ASSUME NEW x \in Near!Step(Near!Within[level])
        PROVE  x \in visited \cup Near!Queued
    <3>1. PICK n \in Near!Within[level] :
            \E r \in Near!Incident(n, request.direction) : x \in Near!Ahead(r)
      BY <2>1 DEF Near!Step
    <3>2. PICK r \in Near!Incident(n, request.direction) : x \in Near!Ahead(r)
      BY <3>1
    <3>3. r \in edges
      BY <1>5, <3>2, ExpandedIsWhole
    <3> QED  BY <1>5, <3>2, <3>3
  <2>2. Near!Within[level + 1] = Near!Within[level] \cup Near!Step(Near!Within[level])
    BY <1>4, WithinUnfolds
  <2> QED  BY <1>5, <2>1, <2>2
<1>7. {queue[i].id : i \in 1..Len(queue)} = Near!Queued
  BY <1>1 DEF Near!Queued
<1>8. (level + 1) - 1 = level
  BY <1>1
<1>9. \/ Near!Cardinality(edges \cup rows) > request.max_edges
      \/ \A n \in visited : Near!Incident(n, request.direction) \subseteq edges \cup rows
  BY DEF Near!ByLevel
<1>10. \A i \in DOMAIN queue : queue[i].depth = IF i <= Len(queue) THEN level + 1 ELSE level + 1 + 1
  BY <1>1, <1>2
<1> HIDE DEF Near!Queued
<1> QED
  BY <1>4, <1>5, <1>6, <1>7, <1>8, <1>9, <1>10 DEF Near!ByLevel

\* So the definition that is next lies at the level the walk is at.
LEMMA FrontLevel ==
  ASSUME Near!NeighborhoodAssumption, Near!TypeOK, Near!WalkIsInside, Near!WalkIsComplete,
         state = "walk", ~truncated, rows = {}, queue # <<>>
  PROVE  /\ queue[1].depth \in 0..request.depth
         /\ \E k \in 1..Len(queue) : Near!ByLevel(queue[1].depth, k)
<1>1. PICK level \in 0..request.depth, k \in 0..Len(queue) : Near!ByLevel(level, k)
  BY DEF Near!WalkIsComplete
<1>2. Len(queue) \in Nat \ {0} /\ DOMAIN queue = 1..Len(queue)
  BY QueueFront
<1>3. PICK l \in 0..request.depth, m \in 1..Len(queue) : Near!ByLevel(l, m)
  <2>1. CASE k = 0
    BY <1>1, <1>2, <2>1, NextLevel
  <2>2. CASE k # 0
    BY <1>1, <1>2, <2>2
  <2> QED  BY <2>1, <2>2
<1>4. queue[1].depth = l
  BY <1>2, <1>3 DEF Near!ByLevel
<1> QED
  BY <1>3, <1>4

\* At first the root is all of its level.
LEMMA CompleteBegins ==
  ASSUME Near!NeighborhoodAssumption, Near!TypeOK, Near!WalkIsInside, Near!Begin
  PROVE  Near!WalkIsComplete'
<1>1. /\ source' = source /\ target' = target /\ request' = request
      /\ edges' = {} /\ visited' = {} /\ rows' = {}
      /\ queue' = <<[id |-> Near!Root, depth |-> 0]>>
  BY DEF Near!Begin, Near!graph, Near!WalkIsInside
<1>2. /\ DOMAIN queue' = {1} /\ queue'[1].depth = 0 /\ queue'[1].id = Near!Root /\ Len(queue') = 1
  BY <1>1
<1>3. 0 \in 0..request.depth /\ 1 \in 0..1
  BY RequestLimits
<1>4. Near!Within'[0] = {Near!Root}
  BY <1>1, GraphStays, WithinUnfolds
<1>5. {queue'[i].id : i \in 1..1} = {Near!Root}
  BY <1>2
<1>6. Near!ByLevel(0, 1)'
  BY <1>1, <1>2, <1>4, <1>5 DEF Near!ByLevel
<1> QED
  BY <1>1, <1>2, <1>3, <1>6 DEF Near!WalkIsComplete

\* What is skipped was expanded or lies at the last level.
LEMMA CompleteSkips ==
  ASSUME Near!NeighborhoodAssumption, Near!TypeOK, Near!WalkIsInside, Near!WalkIsComplete, Near!Skip
  PROVE  Near!WalkIsComplete'
<1>1. /\ source' = source /\ target' = target /\ request' = request
      /\ edges' = edges /\ visited' = visited /\ rows' = rows /\ depth' = depth
      /\ queue' = Tail(queue) /\ rows = {} /\ queue # <<>> /\ state = "walk" /\ truncated' = truncated
      /\ Head(queue).depth >= request.depth \/ Head(queue).id \in visited
  BY DEF Near!Skip, Near!AtNext, Near!graph
<1> SUFFICES ASSUME ~truncated
             PROVE  \E level \in 0..request.depth : \E k \in 0..Len(queue') : Near!ByLevel(level, k)'
  BY <1>1 DEF Near!WalkIsComplete
<1>2. PICK level, k : level = queue[1].depth /\ level \in 0..request.depth
                      /\ k \in 1..Len(queue) /\ Near!ByLevel(level, k)
  BY <1>1, FrontLevel
<1>3. /\ Len(queue) \in Nat \ {0} /\ DOMAIN queue = 1..Len(queue) /\ Head(queue) = queue[1]
      /\ DOMAIN queue' = 1..(Len(queue) - 1) /\ Len(queue') = Len(queue) - 1
      /\ \A i \in DOMAIN queue' : i + 1 \in DOMAIN queue /\ queue'[i] = queue[i + 1]
      /\ request.depth \in 0..4
  BY <1>1, QueueFront, RequestLimits
<1>4. k - 1 \in 0..Len(queue') /\ k \in Nat \ {0}
  BY <1>2, <1>3
<1>5. \A i \in DOMAIN queue' : queue'[i].depth = IF i <= k - 1 THEN level ELSE level + 1
  <2>1. ASSUME NEW i \in DOMAIN queue'
        PROVE  queue'[i].depth = IF i <= k - 1 THEN level ELSE level + 1
    <3>1. i \in Nat /\ (i + 1 <= k <=> i <= k - 1)
      BY <1>3, <1>4
    <3>2. queue[i + 1].depth = IF i + 1 <= k THEN level ELSE level + 1
      BY <1>2, <1>3 DEF Near!ByLevel
    <3> QED  BY <1>3, <3>1, <3>2
  <2> QED  BY <2>1
<1>6. ASSUME level < request.depth
      PROVE  /\ Near!Within[level] \subseteq visited \cup {queue'[i].id : i \in 1..(k - 1)}
             /\ \A r \in edges : Near!Ahead(r) \subseteq visited \cup {queue'[i].id : i \in DOMAIN queue'}
  <2>1. queue[1].id \in visited
    BY <1>1, <1>2, <1>3, <1>6
  <2>2. /\ Near!Within[level] \subseteq visited \cup {queue[i].id : i \in 1..k}
        /\ \A r \in edges : Near!Ahead(r) \subseteq visited \cup {queue[i].id : i \in DOMAIN queue}
    BY <1>2, <1>6 DEF Near!ByLevel, Near!Queued
  <2>3. \A i \in DOMAIN queue : i = 1 \/ (i - 1 \in DOMAIN queue' /\ queue[i] = queue'[i - 1])
    BY <1>3
  <2>4. \A i \in 1..k : i = 1 \/ (i - 1 \in 1..(k - 1) /\ queue[i] = queue'[i - 1])
    <3>1. \A i \in 1..k : i \in DOMAIN queue /\ (i = 1 \/ i - 1 \in 1..(k - 1))
      BY <1>2, <1>3, <1>4
    <3> QED  BY <2>3, <3>1
  <2> QED
    BY <2>1, <2>2, <2>3, <2>4
<1>7. /\ level > 0 => Near!Within[level - 1] \subseteq visited
      /\ \/ Near!Cardinality(edges \cup rows) > request.max_edges
         \/ \A n \in visited : Near!Incident(n, request.direction) \subseteq edges \cup rows
  BY <1>2 DEF Near!ByLevel
<1>8. /\ Near!Within' = Near!Within /\ \A r : Near!Ahead(r)' = Near!Ahead(r)
      /\ \A n, d : Near!Incident(n, d)' = Near!Incident(n, d)
      /\ Near!Cardinality(edges \cup rows)' = Near!Cardinality(edges \cup rows)
  BY <1>1, GraphStays
<1>9. Near!ByLevel(level, k - 1)'
  BY <1>1, <1>5, <1>6, <1>7, <1>8 DEF Near!ByLevel, Near!Queued, Near!Incident, Near!Ahead
<1> QED
  BY <1>2, <1>4, <1>9

\* All rows of the definition are left to do, or more than an answer may have.
LEMMA CompleteExpands ==
  ASSUME Near!NeighborhoodAssumption, Near!TypeOK, Near!WalkIsInside, Near!WalkIsComplete, Near!Expand
  PROVE  Near!WalkIsComplete'
<1> DEFINE all == Near!adjacency(Head(queue).id, request.direction, request.max_edges + 1)
           more == Near!Incident(Head(queue).id, request.direction)
<1>1. /\ source' = source /\ target' = target /\ request' = request
      /\ edges' = edges /\ visited' = visited \cup {Head(queue).id} /\ rows = {}
      /\ queue # <<>> /\ state = "walk" /\ Head(queue).depth < request.depth
  BY DEF Near!Expand, Near!AtNext, Near!graph
<1> SUFFICES ASSUME ~truncated'
             PROVE  \E level \in 0..request.depth : \E k \in 0..Len(queue') : Near!ByLevel(level, k)'
  BY <1>1 DEF Near!WalkIsComplete
<1>2. rows' = all /\ depth' = Head(queue).depth + 1 /\ queue' = Tail(queue) /\ truncated' = truncated
  BY DEF Near!Expand, Near!BreakWalk
<1>3. PICK level, k : level = queue[1].depth /\ level \in 0..request.depth
                      /\ k \in 1..Len(queue) /\ Near!ByLevel(level, k)
  BY <1>1, <1>2, FrontLevel
<1>4. /\ Len(queue) \in Nat \ {0} /\ DOMAIN queue = 1..Len(queue) /\ Head(queue) = queue[1]
      /\ DOMAIN queue' = 1..(Len(queue) - 1) /\ Len(queue') = Len(queue) - 1
      /\ \A i \in DOMAIN queue' : i + 1 \in DOMAIN queue /\ queue'[i] = queue[i + 1]
      /\ request.depth \in 0..4 /\ request.max_edges \in Nat /\ queue[1].depth \in Nat
  BY <1>1, <1>2, QueueFront, RequestLimits
<1>5. k - 1 \in 0..Len(queue') /\ k \in Nat \ {0} /\ level < request.depth /\ depth' = level + 1
  BY <1>1, <1>2, <1>3, <1>4
<1>6. \A i \in DOMAIN queue' : queue'[i].depth = IF i <= k - 1 THEN level ELSE level + 1
  <2>1. ASSUME NEW i \in DOMAIN queue'
        PROVE  queue'[i].depth = IF i <= k - 1 THEN level ELSE level + 1
    <3>1. i \in Nat /\ (i + 1 <= k <=> i <= k - 1)
      BY <1>4, <1>5
    <3>2. queue[i + 1].depth = IF i + 1 <= k THEN level ELSE level + 1
      BY <1>3, <1>4 DEF Near!ByLevel
    <3> QED  BY <1>4, <3>1, <3>2
  <2> QED  BY <2>1
<1>7. /\ Near!Within[level] \subseteq visited' \cup {queue'[i].id : i \in 1..(k - 1)}
      /\ \A r \in edges : Near!Ahead(r) \subseteq visited' \cup {queue'[i].id : i \in DOMAIN queue'}
  <2>1. queue[1].id \in visited' /\ visited \subseteq visited'
    BY <1>1, <1>4
  <2>2. /\ Near!Within[level] \subseteq visited \cup {queue[i].id : i \in 1..k}
        /\ \A r \in edges : Near!Ahead(r) \subseteq visited \cup {queue[i].id : i \in DOMAIN queue}
    BY <1>3, <1>5 DEF Near!ByLevel, Near!Queued
  <2>3. \A i \in DOMAIN queue : i = 1 \/ (i - 1 \in DOMAIN queue' /\ queue[i] = queue'[i - 1])
    BY <1>4
  <2>4. \A i \in 1..k : i = 1 \/ (i - 1 \in 1..(k - 1) /\ queue[i] = queue'[i - 1])
    <3>1. \A i \in 1..k : i \in DOMAIN queue /\ (i = 1 \/ i - 1 \in 1..(k - 1))
      BY <1>3, <1>4, <1>5
    <3> QED  BY <2>3, <3>1
  <2> QED
    BY <2>1, <2>2, <2>3, <2>4
<1>8. level > 0 => Near!Within[level - 1] \subseteq visited'
  BY <1>1, <1>3 DEF Near!ByLevel
<1>9. \/ Cardinality(edges \cup all) > request.max_edges
      \/ \A n \in visited' : Near!Incident(n, request.direction) \subseteq edges \cup all
  <2>1. more \in SUBSET Relations /\ edges \in SUBSET Relations
    BY DEF Near!Incident, Near!TypeOK
  <2>2. all \subseteq more /\ IsFiniteSet(all) /\ (all = more \/ Cardinality(all) = request.max_edges + 1)
    <3>1. PICK n \in Nat : n = request.max_edges + 1
      BY <1>4
    <3>2. all = Near!First(more, request.direction, n)
      BY <3>1 DEF Near!adjacency
    <3>3. more \in SUBSET Relations
      BY <2>1
    <3> HIDE DEF all, more
    <3>4. LET some == Near!First(more, request.direction, n)
          IN  some \subseteq more /\ IsFiniteSet(some) /\ (some = more \/ Cardinality(some) = n)
      BY <3>3, FirstRows
    <3> QED  BY <3>1, <3>2, <3>4
  <2>3. \A n \in visited : Near!Incident(n, request.direction) \subseteq edges
    BY <1>1, <1>3, ExpandedIsWhole
  <2>4. CASE all = more
    BY <1>1, <2>3, <2>4
  <2>5. CASE Cardinality(all) = request.max_edges + 1
    <3>1. edges \cup all \in SUBSET Relations /\ all \in SUBSET (edges \cup all)
      BY <2>1, <2>2
    <3>2. IsFiniteSet(edges \cup all) /\ Cardinality(edges \cup all) \in Nat
      BY <3>1, FS_Subset, FS_CardinalityType, SameCounts DEF Near!NeighborhoodAssumption
    <3>3. Cardinality(all) <= Cardinality(edges \cup all)
      BY <3>1, <3>2, FS_Subset
    <3> QED  BY <1>4, <2>5, <3>2, <3>3
  <2> QED  BY <2>2, <2>4, <2>5
<1>10. /\ Near!Within' = Near!Within /\ \A r : Near!Ahead(r)' = Near!Ahead(r)
      /\ \A n, d : Near!Incident(n, d)' = Near!Incident(n, d)
      /\ Near!Cardinality(edges \cup rows)' = Cardinality(edges \cup all)
  BY <1>1, <1>2, GraphStays, SameCounts
<1> HIDE DEF all, more
<1>11. Near!ByLevel(level, k - 1)'
  BY <1>1, <1>2, <1>5, <1>6, <1>7, <1>8, <1>9, <1>10
     DEF Near!ByLevel, Near!Queued, Near!Incident, Near!Ahead
<1> QED
  BY <1>3, <1>5, <1>11

\* Only a row that the answer has already is passed without a cut.
LEMMA CompletePasses ==
  ASSUME Near!NeighborhoodAssumption, Near!TypeOK, Near!WalkIsInside, Near!WalkIsComplete, Near!PassRow
  PROVE  Near!WalkIsComplete'
<1>1. /\ source' = source /\ target' = target /\ request' = request /\ edges' = edges
      /\ visited' = visited /\ depth' = depth /\ rows # {} /\ state = "walk"
  BY DEF Near!PassRow, Near!AtRow, Near!graph
<1> SUFFICES ASSUME ~truncated'
             PROVE  \E level \in 0..request.depth : \E k \in 0..Len(queue') : Near!ByLevel(level, k)'
  BY <1>1 DEF Near!WalkIsComplete
<1>2. Near!Row \in edges /\ rows' = rows \ {Near!Row} /\ queue' = queue /\ truncated' = truncated
  BY DEF Near!PassRow, Near!BreakWalk
<1>3. edges' \cup rows' = edges \cup rows
  BY <1>1, <1>2
<1>4. PICK level \in 0..request.depth, k \in 0..Len(queue) : Near!ByLevel(level, k)
  BY <1>1, <1>2 DEF Near!WalkIsComplete
<1>5. /\ Near!Within' = Near!Within /\ \A r : Near!Ahead(r)' = Near!Ahead(r)
      /\ \A n, d : Near!Incident(n, d)' = Near!Incident(n, d)
      /\ Near!Cardinality(edges \cup rows)' = Near!Cardinality(edges \cup rows)
      /\ Near!Queued' = Near!Queued
  BY <1>1, <1>2, <1>3, GraphStays, SameCounts DEF Near!Queued
<1>6. rows' # {} => rows # {}
  BY <1>2
<1>7. Near!ByLevel(level, k)'
  BY <1>1, <1>2, <1>3, <1>4, <1>5, <1>6 DEF Near!ByLevel, Near!Incident, Near!Ahead
<1> QED
  BY <1>2, <1>4, <1>7

\* What a relation leads to is queued behind the level.
LEMMA CompleteAdds ==
  ASSUME Near!NeighborhoodAssumption, Near!TypeOK, Near!WalkIsInside, Near!WalkIsComplete, Near!AddRow
  PROVE  Near!WalkIsComplete'
<1> DEFINE onward == Near!Onward(Near!Row)
<1>1. PICK r : r = Near!Row
  OBVIOUS
<1>2. /\ source' = source /\ target' = target /\ request' = request /\ visited' = visited
      /\ depth' = depth /\ state = "walk" /\ truncated' = truncated /\ rows # {}
      /\ edges' = edges \cup {r} /\ queue' = queue \o onward /\ rows' = rows \ {r}
  BY <1>1 DEF Near!AddRow, Near!graph, Near!AtRow
<1> SUFFICES ASSUME ~truncated
             PROVE  \E level \in 0..request.depth : \E k \in 0..Len(queue') : Near!ByLevel(level, k)'
  BY <1>2 DEF Near!WalkIsComplete
<1>3. r \in rows /\ r \in Relations
  BY <1>1, <1>2, RowIsLeft DEF Near!TypeOK
<1>4. edges' \cup rows' = edges \cup rows
  BY <1>2, <1>3
<1>5. PICK level \in 0..request.depth, k \in 0..Len(queue) : Near!ByLevel(level, k)
  BY <1>2 DEF Near!WalkIsComplete
<1>6. /\ onward \in Seq([id : Nodes, depth : Nat]) /\ queue \in Seq([id : Nodes, depth : Nat])
      /\ \A i \in DOMAIN onward : onward[i].depth = depth
      /\ Near!Ahead(r) = {onward[i].id : i \in DOMAIN onward}
  BY <1>1, <1>3, OnwardItems DEF Near!TypeOK
<1> HIDE DEF onward
<1>7. /\ Len(queue) \in Nat /\ DOMAIN queue = 1..Len(queue)
      /\ Len(onward) \in Nat /\ DOMAIN onward = 1..Len(onward)
      /\ Len(queue') = Len(queue) + Len(onward) /\ DOMAIN queue' = 1..(Len(queue) + Len(onward))
      /\ \A i \in 1..Len(queue) : queue'[i] = queue[i]
      /\ \A i \in DOMAIN queue' : i > Len(queue) =>
           i - Len(queue) \in DOMAIN onward /\ queue'[i] = onward[i - Len(queue)]
      /\ \A j \in DOMAIN onward : Len(queue) + j \in DOMAIN queue' /\ queue'[Len(queue) + j] = onward[j]
  <2>1. /\ Len(queue) \in Nat /\ DOMAIN queue = 1..Len(queue)
        /\ Len(onward) \in Nat /\ DOMAIN onward = 1..Len(onward)
    BY <1>6, LenProperties
  <2>2. /\ queue' \in Seq([id : Nodes, depth : Nat])
        /\ Len(queue') = Len(queue) + Len(onward)
        /\ \A i \in 1..(Len(queue) + Len(onward)) :
             queue'[i] = IF i <= Len(queue) THEN queue[i] ELSE onward[i - Len(queue)]
    BY <1>2, <1>6, ConcatProperties
  <2>3. DOMAIN queue' = 1..(Len(queue) + Len(onward))
    BY <2>2, LenProperties
  <2>4. PICK l, m : l = Len(queue) /\ m = Len(onward) /\ l \in Nat /\ m \in Nat
    BY <2>1
  <2>5. \A i \in 1..l : queue'[i] = queue[i]
    BY <2>2, <2>4
  <2>6. \A i \in 1..(l + m) : i > l => i - l \in 1..m /\ queue'[i] = onward[i - l]
    BY <2>2, <2>4
  <2>7. \A j \in 1..m : l + j \in 1..(l + m) /\ queue'[l + j] = onward[j]
    <3>1. ASSUME NEW j \in 1..m
          PROVE  l + j \in 1..(l + m) /\ queue'[l + j] = onward[j]
      <4>1. l + j \in 1..(l + m) /\ ~(l + j <= l) /\ (l + j) - l = j
        BY <2>4
      <4> QED  BY <2>2, <2>4, <4>1
    <3> QED  BY <3>1
  <2> QED
    BY <2>1, <2>2, <2>3, <2>4, <2>5, <2>6, <2>7
<1>8. depth = level + 1 /\ level \in Nat /\ k \in Nat /\ k <= Len(queue) /\ level < request.depth
  BY <1>2, <1>5, <1>7, RequestLimits DEF Near!ByLevel
<1>9. \A i \in DOMAIN queue' : queue'[i].depth = IF i <= k THEN level ELSE level + 1
  <2>1. ASSUME NEW i \in DOMAIN queue'
        PROVE  queue'[i].depth = IF i <= k THEN level ELSE level + 1
    <3>1. CASE i <= Len(queue)
      <4>1. i \in DOMAIN queue /\ queue'[i] = queue[i]
        BY <1>7, <3>1
      <4> QED  BY <1>5, <4>1 DEF Near!ByLevel
    <3>2. CASE i > Len(queue)
      <4>1. queue'[i].depth = depth
        BY <1>6, <1>7, <3>2
      <4>2. ~(i <= k)
        BY <1>7, <1>8, <3>2
      <4> QED  BY <1>8, <4>1, <4>2
    <3> QED  BY <1>7, <3>1, <3>2
  <2> QED  BY <2>1
<1>10. /\ Near!Within[level] \subseteq visited \cup {queue'[i].id : i \in 1..k}
       /\ \A s \in edges' : Near!Ahead(s) \subseteq visited \cup {queue'[i].id : i \in DOMAIN queue'}
  <2>1. /\ Near!Within[level] \subseteq visited \cup {queue[i].id : i \in 1..k}
        /\ \A s \in edges : Near!Ahead(s) \subseteq visited \cup {queue[i].id : i \in DOMAIN queue}
    BY <1>5, <1>8 DEF Near!ByLevel, Near!Queued
  <2>2. \A i \in 1..k : queue'[i] = queue[i]
    BY <1>7, <1>8
  <2>3. \A i \in DOMAIN queue : i \in DOMAIN queue' /\ queue'[i] = queue[i]
    BY <1>7
  <2>4. Near!Ahead(r) \subseteq {queue'[i].id : i \in DOMAIN queue'}
    BY <1>6, <1>7
  <2> QED
    BY <1>2, <2>1, <2>2, <2>3, <2>4
<1>11. /\ level > 0 => Near!Within[level - 1] \subseteq visited
       /\ \/ Near!Cardinality(edges \cup rows) > request.max_edges
          \/ \A n \in visited : Near!Incident(n, request.direction) \subseteq edges \cup rows
  BY <1>5 DEF Near!ByLevel
<1>12. /\ Near!Within' = Near!Within /\ \A s : Near!Ahead(s)' = Near!Ahead(s)
       /\ \A n, d : Near!Incident(n, d)' = Near!Incident(n, d)
       /\ Near!Cardinality(edges \cup rows)' = Near!Cardinality(edges \cup rows)
  BY <1>2, <1>4, GraphStays, SameCounts
<1>13. Near!ByLevel(level, k)'
  BY <1>2, <1>4, <1>8, <1>9, <1>10, <1>11, <1>12 DEF Near!ByLevel, Near!Queued, Near!Incident, Near!Ahead
<1>14. k \in 0..Len(queue')
  BY <1>7, <1>8
<1> QED
  BY <1>5, <1>13, <1>14

\* A walk that ends without a cut has expanded every definition nearer than the depth:
\* the nearest that it had not would be behind a relation of one that it had.
LEMMA FinishIsWhole ==
  ASSUME Near!NeighborhoodAssumption, Near!TypeOK, Near!WalkIsInside, Near!WalkIsComplete, Near!Finish
  PROVE  Near!CompleteUnlessTruncated'
<1>1. /\ source' = source /\ target' = target /\ request' = request /\ nodes' = nodes
      /\ edges' = edges /\ truncated' = (truncated \/ stopped) /\ state = "walk"
      /\ stopped \/ (queue = <<>> /\ rows = {})
  BY DEF Near!Finish, Near!graph
<1>2. /\ Near!ExpectedEdges' = Near!ExpectedEdges /\ Near!ExpectedNodes' = Near!ExpectedNodes
  BY <1>1, GraphStays
<1> SUFFICES ASSUME ~truncated, ~stopped
             PROVE  edges = Near!ExpectedEdges /\ nodes = Near!ExpectedNodes
  BY <1>1, <1>2 DEF Near!CompleteUnlessTruncated
<1>3. queue = <<>> /\ rows = {} /\ Len(queue) = 0 /\ DOMAIN queue = {}
  BY <1>1
<1>4. PICK level \in 0..request.depth, k \in 0..0 : Near!ByLevel(level, k)
  BY <1>1, <1>3 DEF Near!WalkIsComplete
<1>5. \A n \in visited : Near!Incident(n, request.direction) \subseteq edges
  BY <1>3, <1>4, ExpandedIsWhole
<1>6. request.depth \in 0..4 /\ level \in Nat /\ level <= request.depth
  BY <1>4, RequestLimits
<1>7. level < request.depth =>
        Near!Within[level] \subseteq visited /\ \A r \in edges : Near!Ahead(r) \subseteq visited
  <2>1. {queue[i].id : i \in 1..k} = {} /\ Near!Queued = {}
    BY <1>3, <1>4 DEF Near!Queued
  <2> QED  BY <1>4, <2>1 DEF Near!ByLevel
<1>8. request.depth > 0 => Near!Within[request.depth - 1] \subseteq visited
  <2>1. CASE level = request.depth
    BY <1>4, <2>1 DEF Near!ByLevel
  <2>2. CASE level < request.depth
    <3> DEFINE Missed == {j \in level..(request.depth - 1) : ~(Near!Within[j] \subseteq visited)}
    <3>1. SUFFICES ASSUME Missed # {}
                   PROVE  FALSE
      <4>1. request.depth - 1 \in level..(request.depth - 1)
        BY <1>6, <2>2
      <4> QED  BY <3>1, <4>1
    <3>2. Missed \in SUBSET Nat
      BY <1>6
    <3> HIDE DEF Missed
    <3>3. PICK j \in Missed : \A i \in Missed : j <= i
      BY <3>1, <3>2, HasLeast
    <3> USE DEF Missed
    <3>4. j \in level..(request.depth - 1) /\ ~(Near!Within[j] \subseteq visited)
      BY <3>3
    <3>5. j # level
      BY <1>7, <2>2, <3>4
    <3>6. j - 1 \in level..(request.depth - 1) /\ j - 1 \in 0..3 /\ (j - 1) + 1 = j /\ ~(j <= j - 1)
      BY <1>6, <3>4, <3>5
    <3>7. Near!Within[j - 1] \subseteq visited
      BY <3>3, <3>6
    <3>8. ASSUME NEW x \in Near!Step(Near!Within[j - 1])
          PROVE  x \in visited
      <4>1. PICK n \in Near!Within[j - 1] :
              \E r \in Near!Incident(n, request.direction) : x \in Near!Ahead(r)
        BY <3>8 DEF Near!Step
      <4>2. PICK r \in Near!Incident(n, request.direction) : x \in Near!Ahead(r)
        BY <4>1
      <4>3. r \in edges
        BY <1>5, <3>7, <4>2
      <4> QED  BY <1>7, <2>2, <4>2, <4>3
    <3>9. Near!Within[j] = Near!Within[j - 1] \cup Near!Step(Near!Within[j - 1])
      BY <3>6, WithinUnfolds
    <3> QED  BY <3>4, <3>7, <3>8, <3>9
  <2> QED  BY <1>6, <2>1, <2>2
<1>9. /\ Near!Root \in nodes /\ nodes \subseteq Near!ExpectedNodes /\ edges \subseteq Near!ExpectedEdges
      /\ UNION {Near!Ends(r) : r \in edges} \subseteq nodes
  BY <1>1 DEF Near!WalkIsInside, Near!ResponseIsClosed
<1>10. Near!ExpectedEdges \subseteq edges
  <2>1. CASE request.depth = 0
    BY <2>1 DEF Near!ExpectedEdges
  <2>2. CASE request.depth # 0
    <3>1. \A n \in Near!Within[request.depth - 1] : Near!Incident(n, request.direction) \subseteq edges
      BY <1>5, <1>6, <1>8, <2>2
    <3> QED  BY <2>2, <3>1 DEF Near!ExpectedEdges
  <2> QED  BY <2>1, <2>2
<1>11. edges = Near!ExpectedEdges
  BY <1>9, <1>10
<1> QED
  BY <1>9, <1>11 DEF Near!ExpectedNodes

\* The invariant holds of a request that has just arrived,
LEMMA NearStarts ==
  ASSUME Near!NeighborhoodAssumption, Near!Init
  PROVE  Near!NeighborhoodInvariant
<1>1. Near!TypeOK
  <2>1. <<>> \in Seq([id : Nodes, depth : Nat]) /\ 0 \in 0..ByteBudget
    BY EmptySeq DEF Near!NeighborhoodAssumption
  <2> QED  BY <2>1 DEF Near!Init, Near!TypeOK
<1>2. Near!WalkIsInside
  <2>1. /\ nodes = {} /\ edges = {} /\ queue = <<>> /\ visited = {} /\ rows = {} /\ state = "start"
    BY DEF Near!Init
  <2>2. Near!IsFiniteSet(nodes) /\ Near!Cardinality(nodes) = 0 /\ Near!Cardinality(edges) = 0
    BY <2>1, SameCounts, FS_EmptySet
  <2>3. Near!ResponseIsClosed
    BY <1>1, <2>1, <2>2, RequestLimits DEF Near!ResponseIsClosed
  <2> QED  BY <2>1, <2>2, <2>3 DEF Near!WalkIsInside
<1>3. Near!WalkIsComplete /\ Near!CompleteUnlessTruncated
  BY DEF Near!Init, Near!WalkIsComplete, Near!CompleteUnlessTruncated
<1> QED
  BY <1>1, <1>2, <1>3 DEF Near!NeighborhoodInvariant

\* and every step keeps it.
LEMMA NearSteps ==
  ASSUME Near!NeighborhoodAssumption, Near!NeighborhoodInvariant, Near!Next
  PROVE  Near!NeighborhoodInvariant'
<1>1. Near!TypeOK /\ Near!WalkIsInside /\ Near!WalkIsComplete
  BY DEF Near!NeighborhoodInvariant
<1>2. Near!TypeOK'
  BY <1>1, NearTypes
<1>3. CASE Near!Stop
  <2>1. /\ UNCHANGED <<Near!graph, nodes, edges, visited, depth>> /\ rows' = rows /\ queue' = queue
        /\ state' = state /\ truncated' = truncated /\ state # "done"
    BY <1>3 DEF Near!Stop
  <2>2. Near!WalkIsInside'
    <3>1. state' = "start" => state = "start" /\ queue' = <<>> /\ rows' = {}
      BY <1>1, <2>1 DEF Near!WalkIsInside
    <3> QED  BY <1>1, <2>1, <3>1, InsideStays
  <2>3. Near!WalkIsComplete'
    <3>1. /\ source' = source /\ target' = target /\ request' = request /\ edges' = edges
          /\ visited' = visited /\ depth' = depth
      BY <2>1 DEF Near!graph
    <3>2. /\ Near!Within' = Near!Within /\ \A r : Near!Ahead(r)' = Near!Ahead(r)
          /\ \A n, d : Near!Incident(n, d)' = Near!Incident(n, d)
          /\ Near!Cardinality(edges \cup rows)' = Near!Cardinality(edges \cup rows)
          /\ Near!Queued' = Near!Queued
      BY <2>1, <3>1, GraphStays, SameCounts DEF Near!Queued
    <3>3. SUFFICES ASSUME state = "walk", ~truncated
                   PROVE  \E level \in 0..request.depth : \E k \in 0..Len(queue) : Near!ByLevel(level, k)'
      BY <2>1, <3>1 DEF Near!WalkIsComplete
    <3>4. PICK level \in 0..request.depth, k \in 0..Len(queue) : Near!ByLevel(level, k)
      BY <1>1, <3>3 DEF Near!WalkIsComplete
    <3>5. Near!ByLevel(level, k)'
      BY <2>1, <3>1, <3>2, <3>4 DEF Near!ByLevel, Near!Incident, Near!Ahead
    <3> QED  BY <3>4, <3>5
  <2>4. Near!CompleteUnlessTruncated'
    BY <2>1 DEF Near!CompleteUnlessTruncated
  <2> QED  BY <1>2, <2>2, <2>3, <2>4 DEF Near!NeighborhoodInvariant
<1>4. CASE Near!GiveUp \/ Near!RefuseRoot
  <2>1. /\ UNCHANGED <<Near!graph, nodes, edges, visited, depth>> /\ rows' = rows /\ queue' = queue
        /\ state' = "done" /\ truncated' = TRUE
    BY <1>4 DEF Near!GiveUp, Near!RefuseRoot
  <2>2. Near!WalkIsInside'
    BY <1>1, <2>1, InsideStays
  <2> QED
    BY <1>2, <2>1, <2>2 DEF Near!NeighborhoodInvariant, Near!WalkIsComplete, Near!CompleteUnlessTruncated
<1>5. CASE Near!Begin
  <2>1. state' = "walk"
    BY <1>5 DEF Near!Begin
  <2> QED
    BY <1>1, <1>2, <1>5, <2>1, InsideBegins, CompleteBegins
       DEF Near!NeighborhoodInvariant, Near!CompleteUnlessTruncated
<1>6. CASE Near!Skip
  <2>1. /\ UNCHANGED <<Near!graph, nodes, edges, visited, depth>> /\ rows' = rows
        /\ queue' = Tail(queue) /\ queue # <<>> /\ state' = "walk" /\ state = "walk"
    BY <1>6 DEF Near!Skip, Near!AtNext
  <2>2. \A i \in DOMAIN queue' : \E j \in DOMAIN queue : queue'[i] = queue[j]
    BY <1>1, <2>1, QueueFront
  <2>3. Near!WalkIsInside'
    BY <1>1, <2>1, <2>2, InsideStays
  <2> QED
    BY <1>1, <1>2, <1>6, <2>1, <2>3, CompleteSkips
       DEF Near!NeighborhoodInvariant, Near!CompleteUnlessTruncated
<1>7. CASE Near!Expand
  <2>1. state' = "walk"
    BY <1>7 DEF Near!Expand, Near!AtNext
  <2> QED
    BY <1>1, <1>2, <1>7, <2>1, InsideExpands, CompleteExpands
       DEF Near!NeighborhoodInvariant, Near!CompleteUnlessTruncated
<1>8. CASE Near!PassRow
  <2>1. /\ UNCHANGED <<Near!graph, nodes, edges, visited, depth>> /\ rows' \subseteq rows
        /\ queue' = queue \/ queue' = <<>>
        /\ state' = "walk" /\ state = "walk"
    BY <1>8 DEF Near!PassRow, Near!AtRow, Near!BreakWalk
  <2>2. \A i \in DOMAIN queue' : \E j \in DOMAIN queue : queue'[i] = queue[j]
    BY <2>1
  <2>3. Near!WalkIsInside'
    BY <1>1, <2>1, <2>2, InsideStays
  <2> QED
    BY <1>1, <1>2, <1>8, <2>1, <2>3, CompletePasses
       DEF Near!NeighborhoodInvariant, Near!CompleteUnlessTruncated
<1>9. CASE Near!AddRow
  <2>1. state' = "walk"
    BY <1>9 DEF Near!AddRow, Near!AtRow
  <2> QED
    BY <1>1, <1>2, <1>9, <2>1, InsideAdds, CompleteAdds
       DEF Near!NeighborhoodInvariant, Near!CompleteUnlessTruncated
<1>10. CASE Near!Finish
  <2>1. /\ UNCHANGED <<Near!graph, nodes, edges, visited, depth>> /\ rows' = {} /\ queue' = <<>>
        /\ state' = "done"
    BY <1>10 DEF Near!Finish
  <2>2. Near!WalkIsInside'
    BY <1>1, <2>1, InsideStays
  <2>3. Near!WalkIsComplete'
    BY <2>1 DEF Near!WalkIsComplete
  <2> QED
    BY <1>1, <1>2, <1>10, <2>2, <2>3, FinishIsWhole DEF Near!NeighborhoodInvariant
<1> QED
  BY <1>3, <1>4, <1>5, <1>6, <1>7, <1>8, <1>9, <1>10 DEF Near!Next

\* What an answer is about stays as it is while nothing happens.
LEMMA NearRests ==
  ASSUME Near!NeighborhoodInvariant, UNCHANGED Near!vars
  PROVE  Near!NeighborhoodInvariant'
<1>1. /\ source' = source /\ target' = target /\ request' = request /\ nodes' = nodes
      /\ edges' = edges /\ queue' = queue /\ visited' = visited /\ rows' = rows /\ depth' = depth
      /\ bytes' = bytes /\ truncated' = truncated /\ stopped' = stopped /\ state' = state
  BY DEF Near!vars
<1>2. Near!TypeOK /\ Near!WalkIsInside /\ Near!WalkIsComplete /\ Near!CompleteUnlessTruncated
  BY DEF Near!NeighborhoodInvariant
<1>3. Near!TypeOK'
  BY <1>1, <1>2 DEF Near!TypeOK, Near!Requests
<1>4. Near!WalkIsInside'
  <2>1. state' = "start" => state = "start" /\ queue' = <<>> /\ rows' = {}
    BY <1>1, <1>2 DEF Near!WalkIsInside
  <2> QED  BY <1>1, <1>2, <2>1, InsideStays DEF Near!graph
<1>5. Near!WalkIsComplete' /\ Near!CompleteUnlessTruncated'
  <2>1. /\ Near!Within' = Near!Within /\ \A r : Near!Ahead(r)' = Near!Ahead(r)
        /\ \A n, d : Near!Incident(n, d)' = Near!Incident(n, d)
        /\ Near!Cardinality(edges \cup rows)' = Near!Cardinality(edges \cup rows)
        /\ Near!Queued' = Near!Queued
        /\ Near!ExpectedEdges' = Near!ExpectedEdges /\ Near!ExpectedNodes' = Near!ExpectedNodes
    BY <1>1, GraphStays, SameCounts DEF Near!Queued
  <2>2. \A level, k : Near!ByLevel(level, k)' <=> Near!ByLevel(level, k)
    BY <1>1, <2>1 DEF Near!ByLevel, Near!Incident, Near!Ahead
  <2> QED
    BY <1>1, <1>2, <2>1, <2>2 DEF Near!WalkIsComplete, Near!CompleteUnlessTruncated
<1> QED
  BY <1>3, <1>4, <1>5 DEF Near!NeighborhoodInvariant

\* However the walk is cut, interleaved with a stop or refused a row, its queue goes by
\* distance and what it has stays inside of the neighborhood.
THEOREM NeighborhoodInvariantHolds ==
  Near!NeighborhoodAssumption => (Near!Spec => []Near!NeighborhoodInvariant)
<1> SUFFICES ASSUME Near!NeighborhoodAssumption
             PROVE  Near!Spec => []Near!NeighborhoodInvariant
  OBVIOUS
<1>1. Near!Init => Near!NeighborhoodInvariant
  BY NearStarts
<1>2. Near!NeighborhoodInvariant /\ [Near!Next]_(Near!vars) => Near!NeighborhoodInvariant'
  BY NearSteps, NearRests
<1> QED
  BY <1>1, <1>2, PTL DEF Near!Spec

\* A response never has more definitions or relations than were asked for, every
\* definition that one of its relations names is in it, and nothing from outside of the
\* neighborhood (neighborhood_with_control).
THEOREM ResponseIsClosedHolds ==
  Near!NeighborhoodAssumption => (Near!Spec => []Near!ResponseIsClosed)
<1> SUFFICES ASSUME Near!NeighborhoodAssumption
             PROVE  Near!Spec => []Near!ResponseIsClosed
  OBVIOUS
<1>1. Near!NeighborhoodInvariant => Near!ResponseIsClosed
  BY DEF Near!NeighborhoodInvariant, Near!WalkIsInside
<1>2. Near!Spec => []Near!NeighborhoodInvariant
  BY NeighborhoodInvariantHolds
<1> QED
  BY <1>1, <1>2, PTL

\* A response that is not marked as truncated is the whole neighborhood, whatever the
\* limits were and whenever the control was stopped.
THEOREM CompleteUnlessTruncatedHolds ==
  Near!NeighborhoodAssumption => (Near!Spec => []Near!CompleteUnlessTruncated)
<1> SUFFICES ASSUME Near!NeighborhoodAssumption
             PROVE  Near!Spec => []Near!CompleteUnlessTruncated
  OBVIOUS
<1>1. Near!NeighborhoodInvariant => Near!CompleteUnlessTruncated
  BY DEF Near!NeighborhoodInvariant
<1>2. Near!Spec => []Near!NeighborhoodInvariant
  BY NeighborhoodInvariantHolds
<1> QED
  BY <1>1, <1>2, PTL

\* All of it: a response is closed and inside of the neighborhood, and one that says nothing of a
\* cut has all of it.
THEOREM NeighborhoodIsWholeHolds ==
  Near!NeighborhoodAssumption => (Near!Spec => []Near!NeighborhoodIsWhole)
<1> SUFFICES ASSUME Near!NeighborhoodAssumption
             PROVE  Near!Spec => []Near!NeighborhoodIsWhole
  OBVIOUS
<1>1. Near!NeighborhoodInvariant /\ Near!ResponseIsClosed /\ Near!CompleteUnlessTruncated
        => Near!NeighborhoodIsWhole
  BY DEF Near!NeighborhoodIsWhole
<1>2. /\ Near!Spec => []Near!NeighborhoodInvariant
      /\ Near!Spec => []Near!ResponseIsClosed
      /\ Near!Spec => []Near!CompleteUnlessTruncated
  BY NeighborhoodInvariantHolds, ResponseIsClosedHolds, CompleteUnlessTruncatedHolds
<1> QED
  BY <1>1, <1>2, PTL

-----------------------------------------------------------------------------
(* The lines of a source.                                                  *)

\* Of the instance's operators of finite sets, as above.
LEMMA LinesCounts ==
  /\ \A S : Lines!IsFiniteSet(S) <=> IsFiniteSet(S)
  /\ \A S : Lines!Cardinality(S) = Cardinality(S)
<1>1. \A S : Lines!IsFiniteSet(S) <=> IsFiniteSet(S)
  BY DEF Lines!IsFiniteSet, IsFiniteSet
<1>2. \A S : Lines!Cardinality(S) = Cardinality(S)
  BY DEF Lines!Cardinality, Cardinality
<1> QED
  BY <1>1, <1>2

\* The newlines up to a byte are finitely many, more behind each of them.
LEMMA NewlinesGrow ==
  ASSUME text \in Seq(Lines!Byte), NEW n \in 0..Len(text)
  PROVE  /\ Lines!Newlines(n) \subseteq Nat /\ IsFiniteSet(Lines!Newlines(n))
         /\ Cardinality(Lines!Newlines(n)) \in Nat
         /\ \A m \in 0..n : /\ Lines!Newlines(m) = {i \in Lines!Newlines(n) : i <= m}
                            /\ Cardinality(Lines!Newlines(m)) \in Nat
                            /\ Cardinality(Lines!Newlines(m)) <= Cardinality(Lines!Newlines(n))
                            /\ m < n /\ n \in Lines!Newlines(n) =>
                                 Cardinality(Lines!Newlines(m)) < Cardinality(Lines!Newlines(n))
<1>1. Len(text) \in Nat
  BY LenProperties
<1>2. \A m \in 0..Len(text) : /\ Lines!Newlines(m) \subseteq 1..m /\ IsFiniteSet(Lines!Newlines(m))
                              /\ Cardinality(Lines!Newlines(m)) \in Nat
  <2> TAKE m \in 0..Len(text)
  <2>1. 1 \in Int /\ m \in Int
    BY <1>1
  <2>2. IsFiniteSet(1..m)
    BY ONLY <2>1, FS_Interval
  <2>3. Lines!Newlines(m) \subseteq 1..m
    BY DEF Lines!Newlines
  <2> QED  BY <2>2, <2>3, FS_Subset, FS_CardinalityType
<1>3. ASSUME NEW m \in 0..n
      PROVE  /\ Lines!Newlines(m) = {i \in Lines!Newlines(n) : i <= m}
             /\ Cardinality(Lines!Newlines(m)) \in Nat
             /\ Cardinality(Lines!Newlines(m)) <= Cardinality(Lines!Newlines(n))
             /\ m < n /\ n \in Lines!Newlines(n) =>
                  Cardinality(Lines!Newlines(m)) < Cardinality(Lines!Newlines(n))
  <2>1. m \in 0..Len(text)
    BY <1>1
  <2>2. Lines!Newlines(m) = {i \in Lines!Newlines(n) : i <= m}
    BY <1>1 DEF Lines!Newlines
  <2>3. Cardinality(Lines!Newlines(m)) <= Cardinality(Lines!Newlines(n))
    BY <1>2, <2>2, FS_Subset
  <2>4. ASSUME m < n, n \in Lines!Newlines(n)
        PROVE  Cardinality(Lines!Newlines(m)) < Cardinality(Lines!Newlines(n))
    <3>1. n \notin Lines!Newlines(m)
      BY <2>2, <2>4
    <3>2. Lines!Newlines(m) \subseteq Lines!Newlines(n)
      BY <2>2
    <3>3. Lines!Newlines(m) # Lines!Newlines(n)
      BY <2>4, <3>1
    <3> QED  BY <1>2, <3>2, <3>3, <2>1, <2>3, FS_Subset
  <2> QED  BY <1>2, <2>1, <2>2, <2>3, <2>4
<1>4. Lines!Newlines(n) \subseteq Nat
  BY <1>1 DEF Lines!Newlines
<1> QED
  BY <1>2, <1>3, <1>4

\* There is a byte that ends the k-th line, if so many are ended.
LEMMA LineEnds ==
  ASSUME text \in Seq(Lines!Byte), NEW k \in Nat, 1 <= k, k <= Cardinality(Lines!Newlines(Len(text)))
  PROVE  \E i \in Lines!Newlines(Len(text)) : Cardinality(Lines!Newlines(i)) = k
<1>1. Len(text) \in 0..Len(text) /\ Len(text) \in Nat
  BY LenProperties
<1> DEFINE N == Lines!Newlines(Len(text))
<1>2. /\ N \subseteq Nat /\ IsFiniteSet(N)
      /\ \A m \in 0..Len(text) : Lines!Newlines(m) = {i \in N : i <= m}
  BY <1>1, NewlinesGrow
<1>3. N \subseteq 0..Len(text)
  BY <1>1 DEF Lines!Newlines
<1> HIDE DEF N
<1>4. PICK i \in N : Cardinality({m \in N : m <= i}) = k
  BY <1>2, HasNth DEF N
<1> QED
  BY <1>2, <1>3, <1>4 DEF N

\* A line starts behind the end of the line before it.
LEMMA StartIsThere ==
  ASSUME text \in Seq(Lines!Byte), NEW line \in Nat, 1 <= line,
         line <= 1 + Cardinality(Lines!Newlines(Len(text)))
  PROVE  /\ Lines!StartOf(line) \in 0..Len(text)
         /\ Cardinality(Lines!Newlines(Lines!StartOf(line))) = line - 1
         /\ Lines!StartOf(line) = 0 \/ text[Lines!StartOf(line)] = "newline"
<1>1. Len(text) \in 0..Len(text) /\ Len(text) \in Nat /\ Cardinality(Lines!Newlines(Len(text))) \in Nat
  BY LenProperties, NewlinesGrow
<1>2. CASE line = 1
  <2>1. Lines!Newlines(0) = {}
    BY DEF Lines!Newlines
  <2>2. Lines!StartOf(line) = 0 /\ line - 1 = 0
    BY <1>2 DEF Lines!StartOf
  <2>3. Cardinality(Lines!Newlines(0)) = 0
    BY <2>1, FS_EmptySet
  <2> QED  BY <1>1, <2>2, <2>3
<1>3. CASE line # 1
  <2>1. line - 1 \in Nat /\ 1 <= line - 1 /\ line - 1 <= Cardinality(Lines!Newlines(Len(text)))
    BY <1>1, <1>3
  <2>2. \E i \in Lines!Newlines(Len(text)) : Cardinality(Lines!Newlines(i)) = line - 1
    BY <2>1, LineEnds
  <2>3. /\ Lines!StartOf(line) \in Lines!Newlines(Len(text))
        /\ Cardinality(Lines!Newlines(Lines!StartOf(line))) = line - 1
    BY <1>3, <2>2, LinesCounts DEF Lines!StartOf
  <2>4. \A i \in Lines!Newlines(Len(text)) : i \in 0..Len(text) /\ text[i] = "newline"
    BY <1>1 DEF Lines!Newlines
  <2> QED  BY <2>3, <2>4
<1> QED
  BY <1>2, <1>3

\* A line ends with its newline, and the last one with the text.
LEMMA EndIsThere ==
  ASSUME text \in Seq(Lines!Byte), NEW line \in Nat, 1 <= line
  PROVE  /\ Lines!EndOf(line) \in 0..Len(text)
         /\ Cardinality(Lines!Newlines(Lines!EndOf(line))) \in 0..line
         /\ \/ Lines!EndOf(line) = Len(text)
            \/ /\ Cardinality(Lines!Newlines(Lines!EndOf(line))) = line
               /\ Lines!EndOf(line) \in 1..Len(text) /\ text[Lines!EndOf(line)] = "newline"
<1>1. Len(text) \in 0..Len(text) /\ Len(text) \in Nat /\ Cardinality(Lines!Newlines(Len(text))) \in Nat
  BY LenProperties, NewlinesGrow
<1>2. CASE line > Cardinality(Lines!Newlines(Len(text)))
  <2>1. Lines!EndOf(line) = Len(text)
    BY <1>2, LinesCounts DEF Lines!EndOf
  <2> QED  BY <1>1, <1>2, <2>1
<1>3. CASE ~(line > Cardinality(Lines!Newlines(Len(text))))
  <2>1. \E i \in Lines!Newlines(Len(text)) : Cardinality(Lines!Newlines(i)) = line
    BY <1>1, <1>3, LineEnds
  <2>2. /\ Lines!EndOf(line) \in Lines!Newlines(Len(text))
        /\ Cardinality(Lines!Newlines(Lines!EndOf(line))) = line
    BY <1>3, <2>1, LinesCounts DEF Lines!EndOf
  <2>3. \A i \in Lines!Newlines(Len(text)) : i \in 0..Len(text) /\ i \in 1..Len(text) /\ text[i] = "newline"
    BY <1>1 DEF Lines!Newlines
  <2> QED  BY <2>2, <2>3
<1> QED
  BY <1>2, <1>3

\* Text may be cut at its ends and behind newlines, and else a byte earlier at most.
LEMMA BoundedFits ==
  ASSUME text \in Seq(Lines!Byte), Lines!WellEncoded(text), NEW n \in 0..Len(text)
  PROVE  /\ Lines!Bounded(n) \in 0..n /\ n <= Lines!Bounded(n) + 1
         /\ Lines!CharBoundary(Lines!Bounded(n))
         /\ n = 0 \/ n = Len(text) \/ text[n] = "newline" => Lines!Bounded(n) = n
<1>1. Len(text) \in Nat /\ n \in Nat /\ Lines!WellFormed(text)
  BY LenProperties DEF Lines!WellEncoded
<1>2. CASE Lines!CharBoundary(n)
  BY <1>1, <1>2 DEF Lines!Bounded
<1>3. CASE ~Lines!CharBoundary(n)
  <2>1. n # Len(text) /\ text[n + 1] = "cont" /\ Lines!Bounded(n) = n - 1
    BY <1>3 DEF Lines!CharBoundary, Lines!Bounded
  <2>2. n # 0
    <3>1. text # <<>> => text[1] # "cont"
      BY DEF Lines!WellEncoded
    <3>2. n = 0 => text[1] = "cont" /\ text # <<>>
      BY <1>1, <2>1, EmptySeq
    <3> QED  BY <3>1, <3>2
  <2>3. n \in 1..Len(text) /\ n < Len(text)
    BY <1>1, <2>1, <2>2
  <2>4. text[n] = "lead"
    BY <1>1, <2>1, <2>3 DEF Lines!WellFormed
  <2>5. n - 1 # Len(text) /\ n - 1 + 1 = n /\ n - 1 \in 0..n /\ n <= n - 1 + 1
    BY <1>1, <2>3
  <2>6. Lines!CharBoundary(n - 1)
    BY <2>4, <2>5 DEF Lines!CharBoundary
  <2> QED  BY <2>1, <2>2, <2>4, <2>5, <2>6
<1> QED
  BY <1>2, <1>3

\* A part of a text is text if it starts with a line and ends with a character.
LEMMA PartIsText ==
  ASSUME text \in Seq(Lines!Byte), Lines!WellEncoded(text), NEW a \in 0..Len(text), NEW b \in 0..Len(text),
         a = 0 \/ text[a] = "newline", Lines!CharBoundary(b)
  PROVE  Lines!WellEncoded(SubSeq(text, a + 1, b))
<1> DEFINE s == SubSeq(text, a + 1, b)
<1>1. Len(text) \in Nat /\ Lines!WellFormed(text) /\ (text # <<>> => text[1] # "cont")
  BY LenProperties DEF Lines!WellEncoded
<1>2. CASE b <= a
  <2>1. s = <<>>
    BY <1>1, <1>2, SubSeqEmpty
  <2> QED  BY <2>1 DEF Lines!WellEncoded, Lines!WellFormed
<1>3. CASE ~(b <= a)
  <2>1. s \in Seq(Lines!Byte) /\ Len(s) = b - a /\ \A i \in 1..(b - a) : s[i] = text[a + i]
    <3>1. /\ SubSeq(text, a + 1, b) \in Seq(Lines!Byte)
          /\ Len(SubSeq(text, a + 1, b)) = IF a + 1 <= b THEN b - (a + 1) + 1 ELSE 0
          /\ \A i \in 1..(b - (a + 1) + 1) : SubSeq(text, a + 1, b)[i] = text[a + 1 + i - 1]
      <4>1. a + 1 \in 1..(Len(text) + 1) /\ b \in (a + 1 - 1)..Len(text)
        BY <1>1, <1>3
      <4> QED  BY <4>1, SubSeqProperties
    <3>2. a + 1 <= b /\ b - (a + 1) + 1 = b - a /\ \A i \in 1..(b - a) : a + 1 + i - 1 = a + i
      BY <1>1, <1>3
    <3> QED  BY <3>1, <3>2
  <2> HIDE DEF s
  <2>2. ASSUME NEW i \in 1..Len(s)
        PROVE  (s[i] = "lead") <=> (i < Len(s) /\ s[i + 1] = "cont")
    <3>1. /\ a + i \in 1..Len(text) /\ a + i <= b /\ b - a \in Nat /\ i \in 1..(b - a)
          /\ s[i] = text[a + i] /\ (i < Len(s) <=> a + i < b)
      BY <1>1, <1>3, <2>1
    <3>2. (text[a + i] = "lead") <=> (a + i < Len(text) /\ text[a + i + 1] = "cont")
      BY <1>1, <3>1 DEF Lines!WellFormed
    <3>3. CASE i < Len(s)
      <4>1. i + 1 \in 1..(b - a) /\ a + (i + 1) = a + i + 1 /\ a + i < Len(text)
        BY <1>1, <2>1, <3>1, <3>3
      <4>2. s[i + 1] = text[a + i + 1]
        BY <2>1, <4>1
      <4> QED  BY <3>1, <3>2, <3>3, <4>1, <4>2
    <3>4. CASE ~(i < Len(s))
      <4>1. a + i = b
        BY <1>1, <2>1, <3>1, <3>4
      <4>2. b = Len(text) \/ text[b + 1] # "cont"
        BY DEF Lines!CharBoundary
      <4>3. text[b] # "lead"
        BY <1>1, <3>2, <4>1, <4>2
      <4> QED  BY <3>1, <3>4, <4>1, <4>3
    <3> QED  BY <3>3, <3>4
  <2>3. s[1] # "cont"
    <3>1. 1 \in 1..(b - a) /\ a + 1 \in 1..Len(text)
      BY <1>1, <1>3
    <3>2. s[1] = text[a + 1]
      BY <2>1, <3>1
    <3>3. CASE a = 0
      <4>1. text # <<>> /\ a + 1 = 1
        BY <3>1, <3>3, EmptySeq
      <4> QED  BY <1>1, <3>2, <4>1
    <3>4. CASE a # 0
      <4>1. a \in 1..Len(text) /\ a < Len(text) /\ text[a] # "lead"
        BY <1>1, <1>3, <3>4
      <4> QED  BY <1>1, <3>2, <4>1 DEF Lines!WellFormed
    <3> QED  BY <3>3, <3>4
  <2> QED  BY <2>2, <2>3 DEF Lines!WellEncoded, Lines!WellFormed, s
<1> QED
  BY <1>2, <1>3

\* What is cut is what was asked for: the window starts with its line and has no more lines
\* than asked for, in whole characters; and the byte asked for is in it unless it is too long.
LEMMA CutIsRight ==
  ASSUME Lines!SourceAssumption, Lines!SourceInvariant, Lines!Cut, state' = "done"
  PROVE  Lines!WindowIsOfTheSnapshot' /\ Lines!WindowIsWhereAsked'
<1> DEFINE line == Lines!LineAsked
           begin == Lines!StartOf(line)
           last == line + request.lines - 1
           whole == Lines!EndOf(last)
           end == Lines!Bounded(Lines!Smaller(whole, begin + SourceBytes))
           C(n) == Cardinality(Lines!Newlines(n))
<1>1. /\ text \in Seq(Lines!Byte) /\ Lines!WellEncoded(text) /\ text = archived /\ SourceBytes \in Nat
      /\ request.at \in Nat /\ request.lines \in Nat /\ request.by \in {"line", "byte"}
      /\ request.lines # 0 /\ (request.by = "line" => request.at # 0)
  BY DEF Lines!SourceAssumption, Lines!SourceInvariant, Lines!TypeOK, Lines!Cut, Lines!ValidLines
<1>2. /\ ~Lines!InvalidByte /\ ~(line > 1 + Lines!Cardinality(Lines!Newlines(Len(text))))
      /\ window' = [first |-> begin + 1, last |-> end, start_line |-> line,
                    truncated |-> begin > 0 \/ end < Len(text)]
      /\ text' = text /\ archived' = archived /\ request' = request
  BY DEF Lines!Cut, Lines!disk
<1> DEFINE L == Len(text)
<1>3. L \in Nat /\ L \in 0..L /\ C(L) \in Nat
  BY <1>1, LenProperties, NewlinesGrow
<1>4. line \in Nat /\ 1 <= line /\ line <= 1 + C(L)
  <2>1. CASE request.by = "line"
    BY <1>1, <1>2, <1>3, <2>1, LinesCounts DEF Lines!LineAsked
  <2>2. CASE request.by = "byte"
    <3>1. request.at \in 0..L
      BY <1>1, <1>2, <1>3, <2>2 DEF Lines!InvalidByte
    <3>2. line = 1 + C(request.at)
      BY <2>2, LinesCounts DEF Lines!LineAsked, Lines!LineAt
    <3>3. C(request.at) \in Nat /\ C(request.at) <= C(L)
      BY <1>1, <1>3, <3>1, NewlinesGrow
    <3> HIDE DEF C, line
    <3> QED  BY <1>3, <3>2, <3>3
  <2> QED  BY <1>1, <2>1, <2>2
<1> HIDE DEF line
<1>5. /\ begin \in 0..L /\ C(begin) = line - 1 /\ (begin = 0 \/ text[begin] = "newline")
  BY <1>1, <1>4, StartIsThere
<1>6. last \in Nat /\ line <= last
  BY <1>1, <1>4
<1>7. /\ whole \in 0..L /\ C(whole) \in 0..last
      /\ \/ whole = L
         \/ C(whole) = last /\ whole \in 1..L /\ text[whole] = "newline"
  <2> HIDE DEF last
  <2> QED  BY <1>1, <1>4, <1>6, EndIsThere
<1> HIDE DEF begin, whole
<1>8. begin <= whole
  <2>1. CASE whole = L
    BY <1>3, <1>5, <2>1
  <2>2. CASE C(whole) = last
    <3> SUFFICES ASSUME whole < begin
                 PROVE  FALSE
      BY <1>3, <1>5, <1>7
    <3>1. whole \in 0..begin
      BY <1>3, <1>5, <1>7
    <3>2. C(whole) <= C(begin)
      BY <1>1, <1>5, <3>1, NewlinesGrow
    <3> HIDE DEF C, last
    <3> QED  BY <1>4, <1>5, <1>6, <2>2, <3>2
  <2> QED  BY <1>7, <2>1, <2>2
<1> DEFINE m == Lines!Smaller(whole, begin + SourceBytes)
<1>9. /\ m \in 0..L /\ begin <= m /\ m <= whole /\ m <= begin + SourceBytes
      /\ m = whole \/ m = begin + SourceBytes
  BY <1>1, <1>3, <1>5, <1>7, <1>8 DEF Lines!Smaller
<1>10. /\ end \in 0..m /\ m <= end + 1 /\ Lines!CharBoundary(end)
       /\ m = 0 \/ m = L \/ text[m] = "newline" => end = m
  <2> HIDE DEF m
  <2> QED  BY <1>1, <1>9, BoundedFits DEF m
<1> HIDE DEF end, m
<1>11. end \in 0..L /\ end <= whole /\ end <= begin + SourceBytes
  BY <1>1, <1>3, <1>5, <1>7, <1>9, <1>10
<1>12. window'.first = begin + 1 /\ window'.last = end /\ window'.start_line = line
  BY <1>2
<1>13. Cardinality({i \in (begin + 1)..end : text[i] = "newline"}) <= request.lines
  <2> DEFINE inside == {i \in (begin + 1)..end : text[i] = "newline"}
             sofar == Lines!Newlines(begin)
             up == Lines!Newlines(whole)
  <2>1. inside \cap sofar = {} /\ inside \cup sofar \subseteq up
    BY <1>3, <1>5, <1>7, <1>8, <1>11 DEF Lines!Newlines
  <2>2. IsFiniteSet(sofar) /\ IsFiniteSet(up) /\ Cardinality(up) \in Nat /\ Cardinality(sofar) \in Nat
    BY <1>1, <1>5, <1>7, NewlinesGrow
  <2>3. Cardinality(sofar) = line - 1 /\ Cardinality(up) <= last
    BY <1>5, <1>6, <1>7
  <2> HIDE DEF inside, sofar, up
  <2>4. IsFiniteSet(inside) /\ inside \cup sofar \in SUBSET up
    BY <2>1, <2>2, FS_Subset
  <2>5. Cardinality(inside \cup sofar) = Cardinality(inside) + Cardinality(sofar) /\ Cardinality(inside) \in Nat
    <3>1. Cardinality(inside \cap sofar) = 0
      BY <2>1, FS_EmptySet
    <3>2. Cardinality(inside \cup sofar) =
            Cardinality(inside) + Cardinality(sofar) - Cardinality(inside \cap sofar)
      BY <2>2, <2>4, FS_Union
    <3>3. Cardinality(inside) \in Nat
      BY <2>4, FS_CardinalityType
    <3> QED  BY <2>2, <3>1, <3>2, <3>3
  <2>6. Cardinality(inside \cup sofar) <= Cardinality(up)
    BY <2>2, <2>4, FS_Subset
  <2>7. Cardinality(inside) <= request.lines
    BY <1>1, <1>4, <2>2, <2>3, <2>5, <2>6
  <2> QED  BY <2>7 DEF inside
<1>14. Lines!WindowIsOfTheSnapshot'
  <2>1. Lines!WellEncoded(SubSeq(text, begin + 1, end))
    BY <1>1, <1>5, <1>10, <1>11, PartIsText
  <2>2. begin + 1 = 1 \/ text[begin + 1 - 1] = "newline"
    BY <1>3, <1>5
  <2>3. end - (begin + 1) + 1 <= SourceBytes
    BY <1>1, <1>3, <1>5, <1>11
  <2>4. /\ text' = archived' /\ request'.lines = request.lines
        /\ archived' = text /\ window'.first = begin + 1 /\ window'.last = end
    BY <1>1, <1>2, <1>12
  <2>5. Lines!WellEncoded(SubSeq(archived, window.first, window.last))'
    BY <2>1, <2>4 DEF Lines!WellEncoded, Lines!WellFormed
  <2>6. Lines!Cardinality({i \in window'.first..window'.last : archived'[i] = "newline"}) <= request'.lines
    BY <1>13, <2>4, LinesCounts
  <2>7. (text = archived /\ (window.first = 1 \/ archived[window.first - 1] = "newline"))'
    <3>1. begin \in Nat /\ window'.first - 1 = begin + 1 - 1
      BY <1>3, <1>5, <2>4
    <3> QED  BY <2>2, <2>4, <3>1
  <2>8. (window.last - window.first + 1 <= SourceBytes)'
    BY <2>3, <2>4
  <2>9. (Lines!Cardinality({i \in window.first..window.last : archived[i] = "newline"}) <= request.lines)'
    BY <2>6
  <2> QED
    BY <2>5, <2>7, <2>8, <2>9, Zenon DEF Lines!WindowIsOfTheSnapshot
<1>15. Cardinality({i \in 1..begin : text[i] = "newline"}) = line - 1
  BY <1>5 DEF Lines!Newlines
<1>16. ASSUME request.by = "byte", request.at < L
       PROVE  /\ begin <= request.at
              /\ end <= request.at => end - begin >= SourceBytes - 1
  <2>1. request.at \in 0..L /\ line = 1 + C(request.at) /\ C(request.at) \in Nat
    BY <1>1, <1>3, <1>16, LinesCounts, NewlinesGrow DEF Lines!LineAsked, Lines!LineAt, line
  <2>2. begin <= request.at
    <3> SUFFICES ASSUME request.at < begin
                 PROVE  FALSE
      BY <1>1, <1>3, <1>5
    <3>1. begin # 0 /\ request.at \in 0..begin
      BY <1>1, <1>3, <1>5
    <3>2. begin \in Lines!Newlines(begin)
      BY <1>3, <1>5, <3>1 DEF Lines!Newlines
    <3>3. C(request.at) < C(begin)
      BY <1>1, <1>5, <3>1, <3>2, NewlinesGrow
    <3> HIDE DEF C
    <3> QED  BY <1>4, <1>5, <2>1, <3>3
  <2>3. request.at < whole
    <3>1. CASE whole = L
      BY <1>16, <3>1
    <3>2. CASE C(whole) = last
      <4> SUFFICES ASSUME ~(request.at < whole)
                   PROVE  FALSE
        OBVIOUS
      <4>1. whole \in 0..request.at
        BY <1>1, <1>3, <1>7
      <4>2. C(whole) <= C(request.at)
        BY <1>1, <2>1, <4>1, NewlinesGrow
      <4> HIDE DEF C, last
      <4> QED  BY <1>4, <1>6, <2>1, <3>2, <4>2
    <3> QED  BY <1>7, <3>1, <3>2
  <2>4. ASSUME end <= request.at
        PROVE  end - begin >= SourceBytes - 1
    <3>1. m # whole
      <4>1. whole = L \/ text[whole] = "newline"
        BY <1>7
      <4> QED  BY <1>1, <1>3, <1>7, <1>10, <2>3, <2>4, <4>1
    <3> QED  BY <1>1, <1>3, <1>5, <1>9, <1>10, <3>1
  <2> QED  BY <2>2, <2>4
<1>17. Lines!WindowIsWhereAsked'
  <2>1. begin + 1 - 1 = begin /\ end - (begin + 1) + 1 = end - begin
    BY <1>3, <1>5, <1>11
  <2>2. Cardinality({i \in 1..(begin + 1 - 1) : text[i] = "newline"}) = line - 1
    BY <1>15, <2>1
  <2>3. request.by = "line" => line = request.at
    BY DEF Lines!LineAsked, line
  <2>4. request.by = "byte" /\ request.at < Len(text) =>
          /\ begin + 1 <= request.at + 1
          /\ end <= request.at => end - (begin + 1) + 1 >= SourceBytes - 1
    BY <1>1, <1>3, <1>5, <1>16, <2>1
  <2>5. /\ request' = request /\ archived' = text /\ window'.first = begin + 1 /\ window'.last = end
        /\ window'.start_line = line
    BY <1>1, <1>2, <1>12
  <2>6. Lines!Cardinality({i \in 1..(window'.first - 1) : archived'[i] = "newline"}) = window'.start_line - 1
    <3>1. begin \in Nat /\ window'.first - 1 = begin
      BY <1>3, <1>5, <2>5
    <3>2. {i \in 1..(window'.first - 1) : archived'[i] = "newline"} = {i \in 1..begin : text[i] = "newline"}
      BY <2>5, <3>1
    <3> QED  BY <1>15, <2>5, <3>2, LinesCounts
  <2> QED
    BY <2>3, <2>4, <2>5, <2>6 DEF Lines!WindowIsWhereAsked
<1> QED
  BY <1>14, <1>17

\* A file is a sequence of bytes, also when one of them is written.
LEMMA FileIsBytes ==
  ASSUME Lines!SourceAssumption, NEW s \in Lines!Contents
  PROVE  /\ s \in Seq(Lines!Byte) /\ Len(s) \in 0..MaxBytes
         /\ \A i \in 1..Len(s), b \in Lines!Byte : /\ [s EXCEPT ![i] = b] \in Lines!Contents
                                                /\ Len([s EXCEPT ![i] = b]) = Len(s)
<1>1. PICK n \in 0..MaxBytes : s \in [1..n -> Lines!Byte]
  BY DEF Lines!Contents
<1>2. s \in Seq(Lines!Byte) /\ Len(s) = n
  BY <1>1, SeqDef, LenProperties DEF Lines!SourceAssumption
<1>3. ASSUME NEW i \in 1..Len(s), NEW b \in Lines!Byte
      PROVE  [s EXCEPT ![i] = b] \in Lines!Contents /\ Len([s EXCEPT ![i] = b]) = Len(s)
  <2>1. [s EXCEPT ![i] = b] \in [1..n -> Lines!Byte]
    BY <1>1, <1>2
  <2> QED  BY <1>2, <2>1 DEF Lines!Contents
<1> QED
  BY <1>2, <1>3

\* What is decoded behind whole characters, in whole characters, is text.
LEMMA JoinedIsText ==
  ASSUME NEW s \in Seq(Lines!Byte), NEW t \in Seq(Lines!Byte), Lines!WellEncoded(s), Lines!WellEncoded(t)
  PROVE  s \o t \in Seq(Lines!Byte) /\ Len(s \o t) = Len(s) + Len(t) /\ Lines!WellEncoded(s \o t)
<1> DEFINE u == s \o t
<1>1. /\ u \in Seq(Lines!Byte) /\ Len(u) = Len(s) + Len(t) /\ Len(s) \in Nat /\ Len(t) \in Nat
      /\ \A i \in 1..Len(s) : u[i] = s[i]
      /\ \A i \in 1..Len(t) : u[Len(s) + i] = t[i]
  <2>1. /\ u \in Seq(Lines!Byte) /\ Len(u) = Len(s) + Len(t)
        /\ \A i \in 1..(Len(s) + Len(t)) : u[i] = IF i <= Len(s) THEN s[i] ELSE t[i - Len(s)]
    BY ConcatProperties
  <2>2. Len(s) \in Nat /\ Len(t) \in Nat
    BY LenProperties
  <2>3. ASSUME NEW i \in 1..Len(t)
        PROVE  u[Len(s) + i] = t[i]
    <3>1. Len(s) + i \in 1..(Len(s) + Len(t)) /\ ~(Len(s) + i <= Len(s)) /\ Len(s) + i - Len(s) = i
      BY <2>2
    <3> QED  BY <2>1, <3>1
  <2> QED  BY <2>1, <2>2, <2>3
<1>2. /\ \A i \in 1..Len(s) : (s[i] = "lead") <=> (i < Len(s) /\ s[i + 1] = "cont")
      /\ \A i \in 1..Len(t) : (t[i] = "lead") <=> (i < Len(t) /\ t[i + 1] = "cont")
      /\ s # <<>> => s[1] # "cont"
      /\ t # <<>> => t[1] # "cont"
  BY DEF Lines!WellEncoded, Lines!WellFormed
<1> HIDE DEF u
<1>3. ASSUME NEW i \in 1..Len(u)
      PROVE  (u[i] = "lead") <=> (i < Len(u) /\ u[i + 1] = "cont")
  <2>1. CASE i < Len(s)
    <3>1. i \in 1..Len(s) /\ i + 1 \in 1..Len(s) /\ i < Len(u)
      BY <1>1, <2>1
    <3> QED  BY <1>1, <1>2, <2>1, <3>1
  <2>2. CASE i = Len(s)
    <3>1. i \in 1..Len(s) /\ ~(i < Len(s)) /\ u[i] = s[i]
      BY <1>1, <2>2
    <3>2. s[i] # "lead"
      BY <1>2, <3>1
    <3>3. CASE i < Len(u)
      <4>1. 1 \in 1..Len(t) /\ i + 1 = Len(s) + 1 /\ t # <<>>
        BY <1>1, <2>2, <3>3, EmptySeq
      <4> QED  BY <1>1, <1>2, <3>1, <3>2, <4>1
    <3> QED  BY <3>1, <3>2, <3>3
  <2>3. CASE i > Len(s)
    <3>1. PICK j \in 1..Len(t) : i = Len(s) + j
      <4>1. i - Len(s) \in 1..Len(t) /\ i = Len(s) + (i - Len(s))
        BY <1>1, <2>3
      <4> QED  BY <4>1
    <3>2. u[i] = t[j] /\ (i < Len(u) <=> j < Len(t))
      BY <1>1, <3>1
    <3>3. CASE j < Len(t)
      <4>1. j + 1 \in 1..Len(t) /\ i + 1 = Len(s) + (j + 1)
        BY <1>1, <3>1, <3>3
      <4>2. u[i + 1] = t[j + 1]
        BY <1>1, <4>1
      <4> QED  BY <1>2, <3>2, <3>3, <4>2
    <3> QED  BY <1>2, <3>2, <3>3
  <2> QED  BY <1>1, <2>1, <2>2, <2>3
<1>4. u # <<>> => u[1] # "cont"
  <2>1. CASE s = <<>>
    <3>1. Len(s) = 0 /\ Len(s) + 1 = 1
      BY <2>1, EmptySeq
    <3>2. u # <<>> => 1 \in 1..Len(t) /\ t # <<>>
      BY <1>1, <3>1, EmptySeq
    <3> QED  BY <1>1, <1>2, <3>1, <3>2
  <2>2. CASE s # <<>>
    <3>1. 1 \in 1..Len(s)
      BY <1>1, <2>2, EmptySeq
    <3> QED  BY <1>1, <1>2, <2>2, <3>1
  <2> QED  BY <2>1, <2>2
<1> QED
  BY <1>1, <1>3, <1>4 DEF Lines!WellEncoded, Lines!WellFormed, u

\* The n elements behind the first p of a sequence.
LEMMA PartIsSequence ==
  ASSUME NEW S, NEW s \in Seq(S), NEW p \in Nat, NEW n \in Nat, p + n <= Len(s)
  PROVE  SubSeq(s, p + 1, p + n) \in Seq(S) /\ Len(SubSeq(s, p + 1, p + n)) = n
<1> DEFINE a == p + 1
           b == p + n
<1>1. /\ a \in 1..(Len(s) + 1) /\ b \in (a - 1)..Len(s)
      /\ (IF a <= b THEN b - a + 1 ELSE 0) = n
  BY LenProperties
<1> HIDE DEF a, b
<1>2. SubSeq(s, a, b) \in Seq(S) /\ Len(SubSeq(s, a, b)) = n
  BY <1>1, SubSeqProperties
<1> QED
  BY <1>2 DEF a, b

\* What a read decodes is text, and what it leaves is the lead of a character at most.
LEMMA ReadDecodes ==
  ASSUME Lines!SourceAssumption, Lines!TypeOK, Lines!Read
  PROVE  Lines!TypeOK'
<1>1. PICK n, taken, decoded :
         /\ n = Lines!Smaller(Chunk, Len(file) - position)
         /\ taken = pending \o SubSeq(file, position + 1, position + n)
         /\ decoded = Lines!Decoded(taken, n > 0)
         /\ \/ text' = text /\ pending' = pending /\ position' = position
            \/ /\ decoded.ok /\ text' = text \o SubSeq(taken, 1, decoded.length)
               /\ pending' = SubSeq(taken, decoded.length + 1, Len(taken))
               /\ position' = position + n
  BY DEF Lines!Read
<1>2. /\ archived' = archived /\ file' = file /\ version' = version /\ request' = request
      /\ opened' = opened /\ state' \in {"failed", "verify", "read"}
  BY DEF Lines!Read, Lines!disk
<1>3. /\ text \in Seq(Lines!Byte) /\ Lines!WellEncoded(text) /\ pending \in Seq(Lines!Byte) /\ Len(pending) <= 1
      /\ position = Len(text) + Len(pending) /\ position <= Len(file) /\ file \in Lines!Contents /\ Chunk \in Nat
  BY DEF Lines!TypeOK, Lines!SourceAssumption
<1>4. CASE text' = text /\ pending' = pending /\ position' = position
  BY <1>2, <1>4 DEF Lines!TypeOK, Lines!Contents, Lines!Byte, Lines!WellEncoded, Lines!WellFormed
<1>5. CASE /\ decoded.ok /\ text' = text \o SubSeq(taken, 1, decoded.length)
           /\ pending' = SubSeq(taken, decoded.length + 1, Len(taken))
           /\ position' = position + n
  <2>1. /\ file \in Seq(Lines!Byte) /\ Len(file) \in Nat /\ Len(text) \in Nat /\ Len(pending) \in Nat
    BY <1>3, FileIsBytes, LenProperties
  <2>2. PICK F \in Nat, P \in Nat : F = Len(file) /\ P = position /\ P <= F
    BY <1>3, <2>1
  <2>3. n \in Nat /\ P + n <= F
    <3>1. n = IF Chunk < F - P THEN Chunk ELSE F - P
      BY <1>1, <2>2 DEF Lines!Smaller
    <3>2. Chunk \in Nat /\ F - P \in Nat /\ P + (F - P) = F
      BY <1>3, <2>2
    <3>3. n \in Nat /\ n <= F - P
      BY <3>1, <3>2
    <3> QED  BY <2>2, <3>3
  <2>4. SubSeq(file, P + 1, P + n) \in Seq(Lines!Byte) /\ Len(SubSeq(file, P + 1, P + n)) = n
    BY <2>1, <2>2, <2>3, PartIsSequence
  <2>5. taken \in Seq(Lines!Byte) /\ Len(taken) = Len(pending) + n
    <3>1. taken = pending \o SubSeq(file, P + 1, P + n)
      BY <1>1, <2>2
    <3> QED  BY <1>3, <2>4, <3>1, ConcatProperties
  <2>6. PICK B \in Nat : B = Len(taken) /\ B = Len(pending) + n
    BY <2>1, <2>3, <2>5
  <2>7. PICK l \in 0..B : /\ l = decoded.length /\ B <= l + 1
                          /\ Lines!WellEncoded(SubSeq(taken, 1, l))
    <3> DEFINE k == IF n > 0 /\ taken # <<>> /\ taken[Len(taken)] = "lead" THEN Len(taken) - 1 ELSE Len(taken)
    <3>1. k \in 0..B /\ B <= k + 1
      <4>1. taken # <<>> => B # 0
        BY <2>5, <2>6, EmptySeq
      <4> QED  BY <2>6, <4>1
    <3>2. decoded = IF Lines!WellEncoded(SubSeq(taken, 1, k)) THEN [ok |-> TRUE, length |-> k]
                    ELSE [ok |-> FALSE, length |-> 0]
      BY <1>1 DEF Lines!Decoded
    <3> HIDE DEF k
    <3>3. Lines!WellEncoded(SubSeq(taken, 1, k)) /\ decoded.length = k
      BY <1>5, <3>2
    <3> QED  BY <3>1, <3>3
  <2>8. SubSeq(taken, 1, l) \in Seq(Lines!Byte) /\ Len(SubSeq(taken, 1, l)) = l
    <3>1. 1 \in 1..(B + 1) /\ l \in (1 - 1)..B /\ (IF 1 <= l THEN l - 1 + 1 ELSE 0) = l
      OBVIOUS
    <3>2. 1 \in 1..(Len(taken) + 1) /\ l \in (1 - 1)..Len(taken)
      BY <2>6, <3>1
    <3> QED  BY <2>5, <3>1, <3>2, SubSeqProperties
  <2>9. SubSeq(taken, l + 1, B) \in Seq(Lines!Byte) /\ Len(SubSeq(taken, l + 1, B)) = B - l
    <3>1. /\ l + 1 \in 1..(B + 1) /\ B \in (l + 1 - 1)..B
          /\ (IF l + 1 <= B THEN B - (l + 1) + 1 ELSE 0) = B - l
      OBVIOUS
    <3>2. l + 1 \in 1..(Len(taken) + 1) /\ B \in (l + 1 - 1)..Len(taken)
      BY <2>6, <3>1
    <3> QED  BY <2>5, <3>1, <3>2, SubSeqProperties
  <2>10. text' = text \o SubSeq(taken, 1, l) /\ pending' = SubSeq(taken, l + 1, B)
    BY <1>5, <2>6, <2>7
  <2>11. text' \in Seq(Lines!Byte) /\ Len(text') = Len(text) + l
    <3> DEFINE more == SubSeq(taken, 1, l)
    <3>1. /\ text \in Seq(Lines!Byte) /\ Lines!WellEncoded(text) /\ more \in Seq(Lines!Byte)
          /\ Lines!WellEncoded(more) /\ Len(more) = l /\ text' = text \o more
      BY <1>3, <2>7, <2>8, <2>10
    <3> HIDE DEF more
    <3> QED  BY <3>1, JoinedIsText
  <2>12. Lines!WellEncoded(text)'
    <3>1. Lines!WellEncoded(text \o SubSeq(taken, 1, l))
      BY <1>3, <2>7, <2>8, JoinedIsText
    <3> QED  BY <2>10, <3>1 DEF Lines!WellEncoded, Lines!WellFormed
  <2>13. pending' \in Seq(Lines!Byte) /\ Len(pending') = B - l /\ Len(pending') <= 1
    <3>1. pending' \in Seq(Lines!Byte) /\ Len(pending') = B - l
      BY <2>9, <2>10
    <3>2. B - l <= 1
      BY <2>7
    <3> QED  BY <3>1, <3>2
  <2>14. position' = Len(text') + Len(pending') /\ position' <= Len(file)
    <3>1. position' = P + n /\ P = Len(text) + Len(pending)
      BY <1>3, <1>5, <2>2
    <3> QED  BY <2>1, <2>2, <2>3, <2>6, <2>11, <2>13, <3>1
  <2>15. Lines!WellEncoded(archived)'
    BY <1>2 DEF Lines!TypeOK, Lines!WellEncoded, Lines!WellFormed
  <2>16. (archived \in Lines!Contents /\ file \in Lines!Contents)'
    BY <1>2 DEF Lines!TypeOK, Lines!Contents, Lines!Byte
  <2>17. (text \in Seq(Lines!Byte) /\ pending \in Seq(Lines!Byte))'
    BY <2>11, <2>13 DEF Lines!Byte
  <2> QED
    BY <1>2, <2>12, <2>13, <2>14, <2>15, <2>16, <2>17 DEF Lines!TypeOK
<1> QED
  BY <1>1, <1>4, <1>5

\* Bytes are checked before lines are cut from them, for a valid request, and nothing that is
\* written to the file afterwards changes what was read.
THEOREM SourceInvariantHolds ==
  Lines!SourceAssumption => (Lines!Spec => []Lines!SourceInvariant)
<1> SUFFICES ASSUME Lines!SourceAssumption
             PROVE  Lines!Spec => []Lines!SourceInvariant
  OBVIOUS
<1>1. Lines!Init => Lines!SourceInvariant
  <2> SUFFICES ASSUME Lines!Init
               PROVE  Lines!SourceInvariant
    OBVIOUS
  <2>1. /\ archived \in Lines!Contents /\ Lines!WellEncoded(archived) /\ file = archived /\ version = 0 /\ opened = 0
        /\ request \in [by : {"line", "byte"}, at : 0..MaxBytes, lines : 0..MaxLines]
        /\ text = <<>> /\ pending = <<>> /\ position = 0 /\ state = "open"
    BY DEF Lines!Init
  <2>2. text \in Seq(Lines!Byte) /\ pending \in Seq(Lines!Byte) /\ Len(text) = 0 /\ Len(pending) = 0
    BY <2>1, EmptySeq
  <2>3. Lines!WellEncoded(text)
    BY <2>1, <2>2 DEF Lines!WellEncoded, Lines!WellFormed
  <2>4. Len(file) \in Nat
    BY <2>1, FileIsBytes
  <2>5. Lines!TypeOK
    BY <2>1, <2>2, <2>3, <2>4 DEF Lines!TypeOK, Lines!SourceAssumption
  <2> QED
    BY <2>1, <2>5 DEF Lines!SourceInvariant, Lines!WindowIsOfTheSnapshot, Lines!WindowIsWhereAsked
<1>2. Lines!SourceInvariant /\ [Lines!Next]_(Lines!vars) => Lines!SourceInvariant'
  <2> SUFFICES ASSUME Lines!SourceInvariant, [Lines!Next]_(Lines!vars)
               PROVE  Lines!SourceInvariant'
    OBVIOUS
  <2>1. Lines!TypeOK
    BY DEF Lines!SourceInvariant
  <2>2. CASE Lines!Write
    <3>1. /\ archived' = archived /\ request' = request /\ opened' = opened /\ text' = text
          /\ pending' = pending /\ position' = position /\ window' = window /\ state' = state
          /\ state \in {"open", "read", "verify"} /\ version' = version + 1 /\ version < MaxWrites
      BY <2>2 DEF Lines!Write
    <3>2. file' \in Lines!Contents /\ Len(file') = Len(file)
      <4>1. PICK i \in 1..Len(file), b \in Lines!Byte : file' = [file EXCEPT ![i] = b]
        BY <2>2 DEF Lines!Write
      <4> QED  BY <2>1, <4>1, FileIsBytes DEF Lines!TypeOK
    <3>3. Lines!TypeOK'
      <4>1. /\ archived \in Lines!Contents /\ Lines!WellEncoded(archived)
            /\ version \in 0..MaxWrites /\ opened \in 0..MaxWrites
            /\ request \in [by : {"line", "byte"}, at : 0..MaxBytes, lines : 0..MaxLines]
            /\ text \in Seq(Lines!Byte) /\ Lines!WellEncoded(text)
            /\ pending \in Seq(Lines!Byte) /\ Len(pending) <= 1
            /\ position = Len(text) + Len(pending) /\ position <= Len(file)
        BY <2>1 DEF Lines!TypeOK
      <4>2. version' \in 0..MaxWrites
        BY <3>1, <4>1 DEF Lines!SourceAssumption
      <4>3. (archived \in Lines!Contents /\ file \in Lines!Contents)'
        BY <3>1, <3>2, <4>1 DEF Lines!Contents, Lines!Byte
      <4>4. (text \in Seq(Lines!Byte) /\ pending \in Seq(Lines!Byte))'
        BY <3>1, <4>1 DEF Lines!Byte
      <4>5. Lines!WellEncoded(archived)' /\ Lines!WellEncoded(text)'
        BY <3>1, <4>1 DEF Lines!WellEncoded, Lines!WellFormed
      <4>6. /\ opened' \in 0..MaxWrites /\ Len(pending') <= 1
            /\ request' \in [by : {"line", "byte"}, at : 0..MaxBytes, lines : 0..MaxLines]
            /\ position' = Len(text') + Len(pending') /\ position' <= Len(file')
            /\ state' \in {"open", "read", "verify", "cut", "done", "failed"}
        BY <3>1, <3>2, <4>1
      <4> QED
        BY <4>2, <4>3, <4>4, <4>5, <4>6 DEF Lines!TypeOK
    <3> QED
      BY <3>1, <3>3 DEF Lines!SourceInvariant, Lines!ValidLines, Lines!WindowIsOfTheSnapshot,
          Lines!WindowIsWhereAsked
  <2>3. CASE Lines!GiveUp \/ Lines!Open \/ Lines!Verify
    <3>1. /\ archived' = archived /\ file' = file /\ version' = version /\ request' = request
          /\ text' = text /\ pending' = pending /\ position' = position
          /\ opened' \in {opened, version} /\ state' \in {"failed", "read", "cut"}
          /\ state' = "read" => Lines!ValidLines
          /\ state' = "cut" => state = "verify" /\ text = archived
      BY <2>3 DEF Lines!GiveUp, Lines!Open, Lines!Verify, Lines!Verified, Lines!disk
    <3>2. Lines!TypeOK'
      BY <2>1, <3>1 DEF Lines!TypeOK, Lines!Contents, Lines!Byte, Lines!WellEncoded, Lines!WellFormed
    <3> QED
      BY <3>1, <3>2 DEF Lines!SourceInvariant, Lines!ValidLines, Lines!WindowIsOfTheSnapshot,
          Lines!WindowIsWhereAsked
  <2>4. CASE Lines!Read
    <3>1. Lines!TypeOK'
      BY <2>1, <2>4, ReadDecodes
    <3>2. state = "read" /\ state' \in {"failed", "verify", "read"} /\ request' = request
      BY <2>4 DEF Lines!Read, Lines!disk
    <3> QED
      BY <3>1, <3>2 DEF Lines!SourceInvariant, Lines!ValidLines, Lines!WindowIsOfTheSnapshot,
          Lines!WindowIsWhereAsked
  <2>5. CASE Lines!Cut
    <3>1. /\ archived' = archived /\ file' = file /\ version' = version /\ request' = request
          /\ opened' = opened /\ text' = text /\ pending' = pending /\ position' = position
          /\ state = "cut" /\ state' \in {"failed", "done"}
      BY <2>5 DEF Lines!Cut, Lines!disk
    <3>2. Lines!TypeOK'
      BY <2>1, <3>1 DEF Lines!TypeOK, Lines!Contents, Lines!Byte, Lines!WellEncoded, Lines!WellFormed
    <3>3. Lines!WindowIsOfTheSnapshot' /\ Lines!WindowIsWhereAsked'
      BY <2>5, <3>1, CutIsRight DEF Lines!WindowIsOfTheSnapshot, Lines!WindowIsWhereAsked
    <3>4. (state \notin {"open", "failed"} => Lines!ValidLines)' /\ (state \in {"cut", "done"} => text = archived)'
      BY <3>1 DEF Lines!SourceInvariant, Lines!ValidLines
    <3> QED
      BY <3>2, <3>3, <3>4, Zenon DEF Lines!SourceInvariant
  <2>6. CASE UNCHANGED Lines!vars
    <3>1. /\ archived' = archived /\ file' = file /\ version' = version /\ request' = request
          /\ opened' = opened /\ text' = text /\ pending' = pending /\ position' = position
          /\ window' = window /\ state' = state
      BY <2>6 DEF Lines!vars
    <3>2. Lines!TypeOK'
      BY <2>1, <3>1 DEF Lines!TypeOK, Lines!Contents, Lines!Byte, Lines!WellEncoded, Lines!WellFormed
    <3>3. Lines!WindowIsOfTheSnapshot /\ Lines!WindowIsWhereAsked
      BY DEF Lines!SourceInvariant
    <3>4. Lines!WindowIsOfTheSnapshot' /\ Lines!WindowIsWhereAsked'
      BY <3>1, <3>3, LinesCounts DEF Lines!WindowIsOfTheSnapshot, Lines!WindowIsWhereAsked,
          Lines!WellEncoded, Lines!WellFormed
    <3> QED
      BY <3>1, <3>2, <3>4 DEF Lines!SourceInvariant, Lines!ValidLines
  <2> QED
    BY <2>2, <2>3, <2>4, <2>5, <2>6 DEF Lines!Next
<1> QED
  BY <1>1, <1>2, PTL DEF Lines!Spec

\* A window is text of the snapshot, in whole characters, that starts with a line and has no
\* more lines and bytes than it may (source_window), whatever is written to the file.
THEOREM WindowIsOfTheSnapshotHolds ==
  Lines!SourceAssumption => (Lines!Spec => []Lines!WindowIsOfTheSnapshot)
<1>1. Lines!SourceInvariant => Lines!WindowIsOfTheSnapshot
  BY DEF Lines!SourceInvariant
<1> QED
  BY <1>1, SourceInvariantHolds, PTL

\* A window is at the line asked for, or at the line of the byte asked for, which it holds
\* unless it is too long for that (source_at_byte, source_line_at).
THEOREM WindowIsWhereAskedHolds ==
  Lines!SourceAssumption => (Lines!Spec => []Lines!WindowIsWhereAsked)
<1>1. Lines!SourceInvariant => Lines!WindowIsWhereAsked
  BY DEF Lines!SourceInvariant
<1> QED
  BY <1>1, SourceInvariantHolds, PTL

\* All of it: a window is text of the snapshot, at the place that was asked for.
THEOREM WindowIsTrueHolds ==
  Lines!SourceAssumption => (Lines!Spec => []Lines!WindowIsTrue)
<1>1. Lines!SourceInvariant /\ Lines!WindowIsOfTheSnapshot /\ Lines!WindowIsWhereAsked => Lines!WindowIsTrue
  BY DEF Lines!WindowIsTrue
<1> QED
  BY <1>1, SourceInvariantHolds, WindowIsOfTheSnapshotHolds, WindowIsWhereAskedHolds, PTL

-----------------------------------------------------------------------------
(* The comparison of two snapshots.                                        *)

\* An instance counts as this module does.
LEMMA DiffCounts ==
  /\ \A S : Diff!IsFiniteSet(S) <=> IsFiniteSet(S)
  /\ \A S : Diff!Cardinality(S) = Cardinality(S)
<1>1. \A S : Diff!IsFiniteSet(S) <=> IsFiniteSet(S)
  BY DEF Diff!IsFiniteSet, IsFiniteSet
<1>2. \A S : Diff!Cardinality(S) = Cardinality(S)
  BY DEF Diff!Cardinality, Cardinality
<1> QED
  BY <1>1, <1>2

\* The definitions of a side are finitely many, and so are those of a key.
LEMMA SideIsFinite ==
  ASSUME NEW side \in Diff!Sides
  PROVE  /\ side \subseteq Diff!Definitions /\ IsFiniteSet(side)
         /\ \A k : IsFiniteSet(Diff!Of(side, k))
<1>1. side \subseteq Diff!Definitions /\ IsFiniteSet(side)
  BY DiffCounts DEF Diff!Sides
<1> QED
  BY <1>1, FS_Subset DEF Diff!Of

\* A change of a group is a modification of the one by the other, or it removes an old or adds
\* a new definition of that key.
LEMMA ChangeOfGroup ==
  ASSUME NEW k, NEW c \in Diff!ChangesOf(k), old \in Diff!Sides, new \in Diff!Sides
  PROVE  \/ /\ c.kind = "modified" /\ c.before = Diff!Of(old, k) /\ c.after = Diff!Of(new, k)
            /\ Cardinality(Diff!Of(old, k)) = 1 /\ Cardinality(Diff!Of(new, k)) = 1
         \/ /\ c.kind = "removed" /\ c.after = {}
            /\ \E d \in Diff!Of(old, k) : c.before = {d}
         \/ /\ c.kind = "added" /\ c.before = {}
            /\ \E d \in Diff!Of(new, k) : c.after = {d}
<1>1. CASE Diff!Cardinality(Diff!Of(old, k)) = 1 /\ Diff!Cardinality(Diff!Of(new, k)) = 1
  <2>1. c = Diff!Change("modified", Diff!Of(old, k), Diff!Of(new, k))
    BY <1>1 DEF Diff!ChangesOf
  <2> QED
    BY <1>1, <2>1, DiffCounts DEF Diff!Change
<1>2. CASE ~(Diff!Cardinality(Diff!Of(old, k)) = 1 /\ Diff!Cardinality(Diff!Of(new, k)) = 1)
  <2>1. c \in Diff!RemovedAndAdded(k)
    BY <1>2 DEF Diff!ChangesOf
  <2>2. \/ \E d \in Diff!Of(old, k) : c = [kind |-> "removed", before |-> {d}, after |-> {}]
        \/ \E d \in Diff!Of(new, k) : c = [kind |-> "added", before |-> {}, after |-> {d}]
    BY <2>1 DEF Diff!RemovedAndAdded, Diff!Change
  <2>3. CASE \E d \in Diff!Of(old, k) : c = [kind |-> "removed", before |-> {d}, after |-> {}]
    BY <2>3
  <2>4. CASE \E d \in Diff!Of(new, k) : c = [kind |-> "added", before |-> {}, after |-> {d}]
    BY <2>4
  <2> QED
    BY <2>2, <2>3, <2>4
<1> QED
  BY <1>1, <1>2

\* So what it names has that key and is where it says.
LEMMA ChangeIsThere ==
  ASSUME NEW k, NEW c \in Diff!ChangesOf(k), old \in Diff!Sides, new \in Diff!Sides
  PROVE  c.before \subseteq Diff!Of(old, k) /\ c.after \subseteq Diff!Of(new, k)
BY ChangeOfGroup

\* A group has finitely many changes.
LEMMA GroupIsFinite ==
  ASSUME NEW k, old \in Diff!Sides, new \in Diff!Sides
  PROVE  IsFiniteSet(Diff!ChangesOf(k))
<1> DEFINE removed == {Diff!Change("removed", {d}, {}) : d \in Diff!Of(old, k)}
           added == {Diff!Change("added", {}, {d}) : d \in Diff!Of(new, k)}
<1>1. IsFiniteSet(Diff!Of(old, k)) /\ IsFiniteSet(Diff!Of(new, k))
  BY SideIsFinite
<1>2. IsFiniteSet(removed) /\ IsFiniteSet(added)
  <2> DEFINE f == [d \in Diff!Of(old, k) |-> Diff!Change("removed", {d}, {})]
             g == [d \in Diff!Of(new, k) |-> Diff!Change("added", {}, {d})]
  <2>1. /\ \A c \in removed : \E d \in Diff!Of(old, k) : c = f[d]
        /\ \A c \in added : \E d \in Diff!Of(new, k) : c = g[d]
    OBVIOUS
  <2> HIDE DEF removed, added, f, g
  <2> QED  BY <1>1, <2>1, ValuesAreFinite
<1>3. IsFiniteSet(removed \cup added)
  BY <1>2, FS_Union
<1>4. Diff!RemovedAndAdded(k) = removed \cup added
  BY DEF Diff!RemovedAndAdded
<1>5. IsFiniteSet({}) /\ IsFiniteSet({Diff!Change("modified", Diff!Of(old, k), Diff!Of(new, k))})
  BY FS_EmptySet, FS_Singleton
<1> QED
  BY <1>3, <1>4, <1>5 DEF Diff!ChangesOf

\* Applied to the old snapshot, the changes of all keys give the new one.
LEMMA ChangesGiveTheNew ==
  ASSUME old \in Diff!Sides, new \in Diff!Sides, NEW all, all = {d.key : d \in old \cup new},
         changes \subseteq UNION {Diff!ChangesOf(k) : k \in all},
         \A k \in all : Diff!ChangesOf(k) \subseteq changes
  PROVE  (old \ Diff!Removed) \cup Diff!ChangedAfter = new
<1> DEFINE paired(k) == Diff!Cardinality(Diff!Of(old, k)) = 1 /\ Diff!Cardinality(Diff!Of(new, k)) = 1
<1>1. \A c \in changes : \E k \in all : c \in Diff!ChangesOf(k)
  OBVIOUS
<1>2. \A k, d : d \in Diff!Of(old, k) <=> d \in old /\ d.key = k
  BY DEF Diff!Of
<1>3. \A k, d : d \in Diff!Of(new, k) <=> d \in new /\ d.key = k
  BY DEF Diff!Of
<1>4. ASSUME NEW d \in new
      PROVE  d \in (old \ Diff!Removed) \cup Diff!ChangedAfter
  <2> DEFINE k == d.key
  <2>1. k \in all /\ d \in Diff!Of(new, k)
    BY <1>3
  <2>2. CASE paired(k) /\ Diff!Of(old, k) = Diff!Of(new, k)
    <3>1. d \in old /\ Diff!ChangesOf(k) = {}
      BY <1>2, <2>1, <2>2 DEF Diff!ChangesOf
    <3>2. ASSUME NEW c \in changes, d \in c.before
          PROVE  FALSE
      <4>1. PICK l \in all : c \in Diff!ChangesOf(l)
        BY <1>1
      <4>2. d \in Diff!Of(old, l)
        BY <3>2, <4>1, ChangeIsThere
      <4>3. l = k
        BY <1>2, <4>2
      <4> QED
        BY <3>1, <4>1, <4>3
    <3> QED
      BY <3>1, <3>2 DEF Diff!Removed
  <2>3. CASE paired(k) /\ Diff!Of(old, k) # Diff!Of(new, k)
    <3>1. Diff!Change("modified", Diff!Of(old, k), Diff!Of(new, k)) \in changes
      BY <2>1, <2>3 DEF Diff!ChangesOf
    <3> QED
      BY <2>1, <3>1 DEF Diff!ChangedAfter, Diff!Change
  <2>4. CASE ~paired(k)
    <3>1. Diff!Change("added", {}, {d}) \in Diff!ChangesOf(k)
      BY <2>1, <2>4 DEF Diff!ChangesOf, Diff!RemovedAndAdded
    <3> QED
      BY <2>1, <3>1 DEF Diff!ChangedAfter, Diff!Change
  <2> QED
    BY <2>2, <2>3, <2>4
<1>5. ASSUME NEW d \in old, d \notin Diff!Removed
      PROVE  d \in new
  <2> DEFINE k == d.key
  <2>1. k \in all /\ d \in Diff!Of(old, k)
    BY <1>2
  <2>2. CASE paired(k) /\ Diff!Of(old, k) = Diff!Of(new, k)
    BY <1>3, <2>1, <2>2
  <2>3. CASE paired(k) /\ Diff!Of(old, k) # Diff!Of(new, k)
    <3>1. Diff!Change("modified", Diff!Of(old, k), Diff!Of(new, k)) \in changes
      BY <2>1, <2>3 DEF Diff!ChangesOf
    <3>2. d \in Diff!Removed
      BY <2>1, <3>1 DEF Diff!Removed, Diff!Change
    <3> QED  BY <1>5, <3>2
  <2>4. CASE ~paired(k)
    <3>1. Diff!Change("removed", {d}, {}) \in Diff!ChangesOf(k)
      BY <2>1, <2>4 DEF Diff!ChangesOf, Diff!RemovedAndAdded
    <3>2. d \in Diff!Removed
      BY <2>1, <3>1 DEF Diff!Removed, Diff!Change
    <3> QED  BY <1>5, <3>2
  <2> QED
    BY <2>2, <2>3, <2>4
<1>6. ASSUME NEW d \in Diff!ChangedAfter
      PROVE  d \in new
  <2>1. PICK c \in changes : d \in c.after
    BY DEF Diff!ChangedAfter
  <2>2. PICK k \in all : c \in Diff!ChangesOf(k)
    BY <1>1
  <2> QED
    BY <1>3, <2>1, <2>2, ChangeIsThere
<1> QED
  BY <1>4, <1>5, <1>6

\* Fewer rows than were asked for are all rows.
LEMMA RowsAreAll ==
  ASSUME Diff!DiffAssumption, Diff!DiffInvariant, NEW d, ~Diff!Cuts(Diff!Incoming(d))
  PROVE  Diff!Incoming(d) = Diff!Rows(d)
<1> DEFINE R == Diff!Rows(d)
           ahead == [r \in R |-> {x \in R : Diff!Ahead(x, r)}]
<1>1. /\ R \subseteq calls /\ IsFiniteSet(R) /\ MaxRows \in Nat
      /\ \A c \in R : c.site \in Nat /\ c.caller \in Nat
      /\ \A c, e \in R : c.site = e.site => c = e
  <2>1. /\ IsFiniteSet(calls) /\ calls \subseteq Diff!Sites /\ MaxRows \in Nat /\ Callers \subseteq Nat
        /\ \A c, e \in calls : c.site = e.site => c = e
    BY DiffCounts DEF Diff!DiffInvariant, Diff!DiffAssumption
  <2>2. R \subseteq calls
    BY DEF Diff!Rows
  <2>3. IsFiniteSet(R)
    BY <2>1, <2>2, FS_Subset
  <2> QED
    BY <2>1, <2>2, <2>3 DEF Diff!Sites
<1> HIDE DEF R
<1>2. Diff!Incoming(d) = {r \in R : Cardinality(ahead[r]) < MaxRows}
  BY DiffCounts DEF Diff!Incoming, R
<1>3. ahead \in [R -> SUBSET R]
  OBVIOUS
<1>4. \A x \in R : x \notin ahead[x] /\ \A y \in ahead[x] : ahead[y] \subseteq ahead[x]
  <2> TAKE x \in R
  <2>1. ~Diff!Ahead(x, x)
    BY <1>1 DEF Diff!Ahead
  <2>2. \A y, z \in R : Diff!Ahead(y, x) /\ Diff!Ahead(z, y) => Diff!Ahead(z, x)
    BY <1>1 DEF Diff!Ahead
  <2> QED  BY <2>1, <2>2
<1>5. \A x, y \in R : x = y \/ x \in ahead[y] \/ y \in ahead[x]
  <2> TAKE x, y \in R
  <2>1. x = y \/ Diff!Ahead(x, y) \/ Diff!Ahead(y, x)
    BY <1>1 DEF Diff!Ahead
  <2> QED  BY <2>1
<1> HIDE DEF ahead
<1>6. Cardinality(R) < MaxRows
  <2> SUFFICES ASSUME ~(Cardinality(R) < MaxRows)
               PROVE  FALSE
    OBVIOUS
  <2>1. Cardinality(R) \in Nat /\ MaxRows <= Cardinality(R)
    BY <1>1, FS_CardinalityType
  <2>2. Cardinality({r \in R : Cardinality(ahead[r]) < MaxRows}) = MaxRows
    BY <1>1, <1>3, <1>4, <1>5, <2>1, FirstCount
  <2> QED
    BY <1>2, <2>2, DiffCounts DEF Diff!Cuts
<1>7. ASSUME NEW r \in R
      PROVE  Cardinality(ahead[r]) < MaxRows
  <2>1. ahead[r] \in SUBSET R
    BY <1>3
  <2>2. Cardinality(ahead[r]) <= Cardinality(R) /\ IsFiniteSet(ahead[r])
    BY <1>1, <2>1, FS_Subset
  <2>3. Cardinality(ahead[r]) \in Nat /\ Cardinality(R) \in Nat
    BY <1>1, <2>2, FS_CardinalityType
  <2> QED
    BY <1>1, <1>6, <2>2, <2>3
<1> QED
  BY <1>2, <1>7 DEF R

\* Nothing is compared at the start.
LEMMA DiffStarts ==
  ASSUME Diff!DiffAssumption, Diff!Init
  PROVE  Diff!TypeOK /\ Diff!DiffInvariant /\ Diff!ImpactComplete
<1>1. /\ old \in Diff!Sides /\ new \in Diff!Sides /\ groups = {d.key : d \in old \cup new}
      /\ changes = {} /\ impact = {} /\ truncated = FALSE /\ state = "groups"
  BY DEF Diff!Init
<1>2a. PICK n \in {0, MaxRows + 1} : \E f \in [1..n -> [caller : Callers, callee : new]] :
         calls = {[site |-> i, caller |-> f[i].caller, callee |-> f[i].callee] : i \in 1..n}
  BY Zenon DEF Diff!Init
<1>2. PICK f \in [1..n -> [caller : Callers, callee : new]] :
        calls = {[site |-> i, caller |-> f[i].caller, callee |-> f[i].callee] : i \in 1..n}
  BY <1>2a
<1>3. n \in Nat
  BY <1>2a DEF Diff!DiffAssumption
<1>4. IsFiniteSet(calls)
  <2> DEFINE g == [i \in 1..n |-> [site |-> i, caller |-> f[i].caller, callee |-> f[i].callee]]
  <2>1. IsFiniteSet(1..n)
    <3>1. 1 \in Int /\ n \in Int
      BY ONLY <1>3
    <3> QED  BY ONLY <3>1, FS_Interval
  <2>2. \A c \in calls : \E i \in 1..n : c = g[i]
    BY <1>2
  <2> HIDE DEF g
  <2> QED
    BY <2>1, <2>2, ValuesAreFinite
<1>5. calls \subseteq Diff!Sites /\ \A c, d \in calls : c.site = d.site => c = d
  BY <1>2, <1>3 DEF Diff!Sites
<1>6. IsFiniteSet({}) /\ Cardinality({}) = 0
  BY FS_EmptySet
<1>7. Diff!TypeOK
  <2>1. 0 <= MaxChanges /\ 0 <= MaxCallers
    BY DEF Diff!DiffAssumption
  <2>2. old \subseteq Diff!Definitions /\ new \subseteq Diff!Definitions
    BY <1>1 DEF Diff!Sides
  <2>3. Diff!Cardinality({}) = 0
    BY <1>6, DiffCounts
  <2> QED
    BY <1>1, <2>1, <2>2, <2>3 DEF Diff!TypeOK
<1>8. Diff!DiffInvariant
  BY <1>1, <1>4, <1>5, <1>6, DiffCounts DEF Diff!DiffInvariant, Diff!ChangesAreOfGroups
<1> QED
  BY <1>1, <1>7, <1>8 DEF Diff!ImpactComplete

\* The changes of the next group are listed, as far as the budgets go.
LEMMA DiffCompares ==
  ASSUME Diff!DiffAssumption, Diff!TypeOK, Diff!DiffInvariant, Diff!Compare
  PROVE  Diff!TypeOK' /\ Diff!DiffInvariant' /\ Diff!ImpactComplete'
<1>1. /\ old' = old /\ new' = new /\ calls' = calls /\ impact' = impact /\ state' = state
      /\ state = "groups" /\ groups # {}
  BY DEF Diff!Compare
<1>2. PICK key, listed :
        /\ key = CHOOSE k \in groups : \A l \in groups : k <= l
        /\ listed \in SUBSET Diff!ChangesOf(key)
        /\ Cardinality(changes) + Cardinality(listed) <= MaxChanges
        /\ changes' = changes \cup listed
        /\ truncated' = (listed # Diff!ChangesOf(key))
        /\ groups' = IF listed = Diff!ChangesOf(key) THEN groups \ {key} ELSE {}
  BY DiffCounts DEF Diff!Compare
<1>3. /\ old \in Diff!Sides /\ new \in Diff!Sides /\ IsFiniteSet(changes) /\ IsFiniteSet(calls)
      /\ calls \subseteq Diff!Sites /\ \A c, d \in calls : c.site = d.site => c = d
      /\ groups \subseteq {d.key : d \in old \cup new} /\ ~truncated
      /\ changes \subseteq UNION {Diff!ChangesOf(k) : k \in {d.key : d \in old \cup new}}
      /\ \A k \in {d.key : d \in old \cup new} \ groups : Diff!ChangesOf(k) \subseteq changes
  BY <1>1, DiffCounts DEF Diff!DiffInvariant, Diff!ChangesAreOfGroups
<1>4. key \in groups
  <2>1. groups \subseteq Nat
    BY <1>3, SideIsFinite DEF Diff!Definitions, Diff!DiffAssumption
  <2>2. PICK k \in groups : \A l \in groups : k <= l
    BY <1>1, <2>1, HasLeast
  <2> QED
    BY <1>2, <2>2
<1>5. IsFiniteSet(listed) /\ IsFiniteSet(changes') /\ Cardinality(changes') <= MaxChanges
  <2>1. IsFiniteSet(Diff!ChangesOf(key))
    BY <1>3, GroupIsFinite
  <2>2. IsFiniteSet(listed)
    BY <1>2, <2>1, FS_Subset
  <2>3. IsFiniteSet(changes \cup listed) /\ IsFiniteSet(changes \cap listed)
        /\ Cardinality(changes \cup listed) = Cardinality(changes) + Cardinality(listed) - Cardinality(changes \cap listed)
    BY <1>3, <2>2, FS_Union, FS_Intersection
  <2>4. /\ Cardinality(changes) \in Nat /\ Cardinality(listed) \in Nat /\ Cardinality(changes \cap listed) \in Nat
        /\ Cardinality(changes \cup listed) \in Nat /\ MaxChanges \in Nat
    BY <1>3, <2>2, <2>3, FS_CardinalityType DEF Diff!DiffAssumption
  <2> QED
    BY <1>2, <2>2, <2>3, <2>4
<1>6. \A k : (Diff!ChangesOf(k))' = Diff!ChangesOf(k)
  BY <1>1 DEF Diff!ChangesOf, Diff!RemovedAndAdded, Diff!Of
<1>7. Diff!ChangesAreOfGroups'
  <2> DEFINE all == {d.key : d \in old \cup new}
  <2>1. all' = all
    BY <1>1
  <2>2. groups' \subseteq all /\ changes' \subseteq UNION {Diff!ChangesOf(k) : k \in all}
    BY <1>2, <1>3, <1>4
  <2>3. ~truncated' => \A k \in all \ groups' : Diff!ChangesOf(k) \subseteq changes'
    <3> HAVE ~truncated'
    <3>1. listed = Diff!ChangesOf(key) /\ groups' = groups \ {key}
      BY <1>2
    <3> QED
      BY <1>2, <1>3, <3>1
  <2>4. truncated' => groups' = {}
    BY <1>2
  <2> QED
    BY <1>1, <1>6, <2>1, <2>2, <2>3, <2>4 DEF Diff!ChangesAreOfGroups
<1>8. Diff!TypeOK'
  <2>1. \A c \in listed : c.kind \in {"added", "removed", "modified"}
    BY <1>2, <1>3, ChangeOfGroup
  <2> QED
    BY <1>1, <1>2, <1>5, <2>1, DiffCounts DEF Diff!TypeOK
<1>9. Diff!DiffInvariant'
  BY <1>1, <1>3, <1>5, <1>7, DiffCounts DEF Diff!DiffInvariant, Diff!Sites
<1> QED
  BY <1>1, <1>8, <1>9 DEF Diff!ImpactComplete

\* The callers of what changed are listed, or the answer says that some are missing.
LEMMA DiffListsCallers ==
  ASSUME Diff!DiffAssumption, Diff!TypeOK, Diff!DiffInvariant, Diff!ListImpact
  PROVE  Diff!TypeOK' /\ Diff!DiffInvariant' /\ Diff!ImpactComplete'
<1>1. /\ old' = old /\ new' = new /\ calls' = calls /\ groups' = groups /\ changes' = changes
      /\ state = "impact" /\ state' = "done"
  BY DEF Diff!ListImpact
<1> DEFINE all == UNION {{r.caller : r \in Diff!Incoming(d)} : d \in Diff!ChangedAfter}
<1>2. PICK listed \in SUBSET all, late \in BOOLEAN :
        /\ Cardinality(listed) <= MaxCallers /\ impact' = listed
        /\ truncated' = (\/ truncated \/ late \/ listed # all
                         \/ \E d \in Diff!ChangedAfter : Diff!Cuts(Diff!Incoming(d)))
  BY DiffCounts DEF Diff!ListImpact
<1>3. calls \subseteq Diff!Sites
  BY DEF Diff!DiffInvariant
<1>4. \A d : Diff!Incoming(d) \subseteq Diff!Rows(d) /\ Diff!Rows(d) \subseteq calls
  BY DEF Diff!Incoming, Diff!Rows
<1>5. all \subseteq Callers
  BY <1>3, <1>4 DEF Diff!Sites
<1>6. Diff!TypeOK'
  <2>1. truncated' \in BOOLEAN /\ listed \subseteq Callers
    BY <1>2, <1>5
  <2> QED
    BY <1>1, <1>2, <2>1, DiffCounts DEF Diff!TypeOK
<1>7. \A k : (Diff!ChangesOf(k))' = Diff!ChangesOf(k)
  BY <1>1 DEF Diff!ChangesOf, Diff!RemovedAndAdded, Diff!Of
<1>8. ~truncated' => ~truncated /\ listed = all /\ \A d \in Diff!ChangedAfter : ~Diff!Cuts(Diff!Incoming(d))
  BY <1>2, Zenon
<1>9. Diff!DiffInvariant'
  <2>1. groups = {}
    BY <1>1 DEF Diff!DiffInvariant, Diff!ChangesAreOfGroups
  <2> QED
    BY <1>1, <1>7, <1>8, <2>1 DEF Diff!DiffInvariant, Diff!ChangesAreOfGroups, Diff!Sites
<1>10. Diff!ImpactComplete'
  <2> SUFFICES ASSUME ~truncated'
               PROVE  listed = {c.caller : c \in {x \in calls : x.callee \in Diff!ChangedAfter}}
    BY <1>1, <1>2 DEF Diff!ImpactComplete, Diff!ChangedAfter
  <2>1. listed = all /\ \A d \in Diff!ChangedAfter : Diff!Incoming(d) = Diff!Rows(d)
    BY <1>8, RowsAreAll
  <2>2. \A d \in Diff!ChangedAfter : Diff!Incoming(d) = {c \in calls : c.callee = d}
    BY <2>1 DEF Diff!Rows
  <2> QED
    BY <2>1, <2>2
<1> QED
  BY <1>6, <1>9, <1>10

\* What follows of a whole answer, and of any modification.
LEMMA DiffIsOfSides ==
  ASSUME Diff!DiffInvariant
  PROVE  Diff!ChangesReconstruct /\ Diff!OnlyUniqueIsModified
<1> DEFINE all == {d.key : d \in old \cup new}
<1>1. /\ old \in Diff!Sides /\ new \in Diff!Sides
      /\ changes \subseteq UNION {Diff!ChangesOf(k) : k \in all}
  BY DEF Diff!DiffInvariant, Diff!ChangesAreOfGroups
<1>2. Diff!ChangesReconstruct
  <2> SUFFICES ASSUME state = "done", ~truncated
               PROVE  (old \ Diff!Removed) \cup Diff!ChangedAfter = new
    BY DEF Diff!ChangesReconstruct
  <2>1. groups = {} /\ \A k \in all \ groups : Diff!ChangesOf(k) \subseteq changes
    BY DEF Diff!DiffInvariant, Diff!ChangesAreOfGroups
  <2>2. \A k \in all : Diff!ChangesOf(k) \subseteq changes
    BY <2>1
  <2> QED
    BY <1>1, <2>2, ChangesGiveTheNew
<1>3. Diff!OnlyUniqueIsModified
  <2> SUFFICES ASSUME NEW c \in changes, c.kind = "modified", NEW d \in c.before \cup c.after
               PROVE  Diff!Cardinality(Diff!Of(old, d.key)) = 1 /\ Diff!Cardinality(Diff!Of(new, d.key)) = 1
    BY DEF Diff!OnlyUniqueIsModified
  <2>1. PICK k \in all : c \in Diff!ChangesOf(k)
    BY <1>1
  <2>2. /\ Cardinality(Diff!Of(old, k)) = 1 /\ Cardinality(Diff!Of(new, k)) = 1
        /\ c.before = Diff!Of(old, k) /\ c.after = Diff!Of(new, k)
    BY <1>1, <2>1, ChangeOfGroup
  <2>3. d.key = k
    BY <2>2 DEF Diff!Of
  <2> QED
    BY <2>2, <2>3, DiffCounts
<1> QED
  BY <1>2, <1>3

\* The changes of an untruncated answer turn the old snapshot into the new one, only what is
\* unique on both sides is called modified, and no direct caller of what changed is missing
\* (QueryEngine::diff), for any snapshots and limits.
THEOREM DiffIsExactHolds ==
  Diff!DiffAssumption => (Diff!Spec => []Diff!DiffIsExact)
<1> SUFFICES ASSUME Diff!DiffAssumption
             PROVE  Diff!Spec => []Diff!DiffIsExact
  OBVIOUS
<1> DEFINE I == Diff!TypeOK /\ Diff!DiffInvariant /\ Diff!ImpactComplete
<1>1. Diff!Init => I
  BY DiffStarts
<1>2. I /\ [Diff!Next]_(Diff!vars) => I'
  <2> SUFFICES ASSUME I, [Diff!Next]_(Diff!vars)
               PROVE  I'
    OBVIOUS
  <2>1. CASE Diff!StopComparing \/ Diff!Compared \/ UNCHANGED Diff!vars
    <3>1. /\ old' = old /\ new' = new /\ calls' = calls /\ changes' = changes /\ impact' = impact
          /\ groups' \in {groups, {}} /\ state' \in {state, "impact"}
          /\ state' # "groups" \/ truncated' => groups' = {}
          /\ groups' = {} => truncated' \/ groups = {}
          /\ truncated' \in BOOLEAN /\ (~truncated' => ~truncated)
          /\ state' = "done" => truncated' = truncated /\ state = "done"
      <4>1. /\ truncated \in BOOLEAN
            /\ state # "groups" \/ truncated => groups = {}
        BY DEF Diff!TypeOK, Diff!DiffInvariant, Diff!ChangesAreOfGroups
      <4>2. CASE Diff!StopComparing
        BY <4>1, <4>2 DEF Diff!StopComparing
      <4>3. CASE Diff!Compared
        BY <4>1, <4>3 DEF Diff!Compared
      <4>4. CASE UNCHANGED Diff!vars
        BY <4>1, <4>4 DEF Diff!vars
      <4> QED
        BY <2>1, <4>2, <4>3, <4>4
    <3>2. \A k : (Diff!ChangesOf(k))' = Diff!ChangesOf(k)
      BY <3>1 DEF Diff!ChangesOf, Diff!RemovedAndAdded, Diff!Of
    <3>3. Diff!ChangesAreOfGroups'
      BY <3>1, <3>2 DEF Diff!DiffInvariant, Diff!ChangesAreOfGroups
    <3>4. Diff!TypeOK' /\ Diff!ImpactComplete'
      BY <3>1 DEF Diff!TypeOK, Diff!ImpactComplete, Diff!ChangedAfter
    <3> QED
      BY <3>1, <3>3, <3>4 DEF Diff!DiffInvariant, Diff!Sites
  <2> QED
    BY <2>1, DiffCompares, DiffListsCallers DEF Diff!Next
<1>3. I => Diff!DiffIsExact
  BY DiffIsOfSides DEF Diff!DiffIsExact
<1> QED
  BY <1>1, <1>2, <1>3, PTL DEF Diff!Spec

=============================================================================
