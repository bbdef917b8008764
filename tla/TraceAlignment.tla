--------------------------- MODULE TraceAlignment ---------------------------
(***************************************************************************)
(* Comparing a window of one recorded event stream with a window of        *)
(* another.  Source: src/crates/analysis/src/trace.rs.                     *)
(*                                                                         *)
(* The windows are aligned at the first correlation identifier that occurs *)
(* exactly once in each; from there events are compared pairwise until the *)
(* first difference.  The control may stop the comparison at any event.    *)
(* An event is its kind, its correlation identifier, a time and a loss.    *)
(***************************************************************************)
EXTENDS Integers, FiniteSets, Sequences

CONSTANTS BeforeStreams, AfterStreams,   \* the streams a client may select
          Offsets,                       \* offsets a client may ask for
          MaxEvents, MaxAnchors,         \* limits a client may ask for (1..2000)
          Absent,                        \* no correlation identifier
          Blank                          \* the empty correlation identifier

VARIABLES before, after,                 \* the windows, once they are cut
          request,                       \* streams, offsets and limits
          before_map, after_map,         \* identifier -> positions, as far as indexed
          start,                         \* where the windows are aligned, or <<>>
          compared, matching,            \* events compared, and equal ones
          divergence,                    \* the first difference, or "none"
          interval,                      \* elapsed times of the prefix, or Unavailable
          truncated, stopped, state

vars == <<before, after, request, before_map, after_map, start, compared, matching,
          divergence, interval, truncated, stopped, state>>

Events == UNION {{s[i] : i \in DOMAIN s} : s \in BeforeStreams \cup AfterStreams}

TraceAssumption ==
  /\ BeforeStreams \cup AfterStreams \subseteq Seq(Events)
  /\ \A e \in Events : e.time \in Nat
  /\ Offsets \subseteq Nat /\ MaxEvents \cup MaxAnchors \subseteq Nat \ {0}

Requests ==
  [before : BeforeStreams, after : AfterStreams, before_offset : Offsets,
   after_offset : Offsets, max_events : MaxEvents, max_anchors : MaxAnchors]

Unavailable == -1
Smaller(a, b) == IF a < b THEN a ELSE b

-----------------------------------------------------------------------------
TypeOK ==
  /\ state \in {"start", "index", "align", "compare", "done", "invalid"}
  /\ matching <= compared /\ compared <= matching + 1
  /\ (divergence # "none" <=> compared = matching + 1)
  /\ start = <<>> => compared = 0
  /\ matching <= Smaller(Len(before), Len(after))

Init ==
  /\ request \in Requests
  /\ before = <<>> /\ after = <<>> /\ before_map = <<>> /\ after_map = <<>>
  /\ start = <<>> /\ compared = 0 /\ matching = 0 /\ divergence = "none" /\ interval = <<Unavailable, Unavailable>>
  /\ truncated = FALSE /\ stopped = FALSE /\ state = "start"

\* The deadline passes or the handler of the request is dropped.
Stop ==
  /\ state \in {"start", "align", "compare"} /\ ~stopped
  /\ stopped' = TRUE
  /\ UNCHANGED <<before, after, request, before_map, after_map, start, compared, matching,
                 divergence, interval, truncated, state>>

window(stream, offset) == SubSeq(stream, offset + 1, Smaller(Len(stream), offset + request.max_events))

\* The windows are cut; one that leaves events out marks the answer.
Select ==
  /\ state = "start"
  /\ IF request.before_offset > Len(request.before) \/ request.after_offset > Len(request.after)
     THEN state' = "invalid" /\ UNCHANGED <<before, after, truncated>>
     ELSE /\ before' = window(request.before, request.before_offset)
          /\ after' = window(request.after, request.after_offset)
          /\ truncated' = (before' # request.before \/ after' # request.after)
          /\ state' = "index"
  /\ UNCHANGED <<request, before_map, after_map, start, compared, matching, divergence, interval, stopped>>

\* The positions of the identifiers among the first n events.
anchors(events, n) ==
  [k \in {events[i].anchor : i \in 1..n} \ {Absent, Blank} |-> {i \in 1..n : events[i].anchor = k}]

\* Both windows are indexed; a stop leaves the indexes as far as they came.
Index ==
  /\ state = "index"
  /\ \E n \in 0..Len(before), m \in 0..Len(after) :
       /\ stopped => n = 0 /\ m = 0
       /\ n < Len(before) => m = 0
       /\ before_map' = anchors(before, n) /\ after_map' = anchors(after, m)
       /\ stopped' = (stopped \/ n < Len(before) \/ m < Len(after))
  /\ state' = "align"
  /\ UNCHANGED <<before, after, request, start, compared, matching, divergence, interval, truncated>>

\* Identifiers that occur exactly once in each window, with their positions.
Only(positions) == CHOOSE i \in positions : TRUE
Unique ==
  {[before |-> Only(before_map[k]), after |-> Only(after_map[k])] :
     k \in {x \in DOMAIN before_map \cap DOMAIN after_map :
              Cardinality(before_map[x]) = 1 /\ Cardinality(after_map[x]) = 1}}

OverAnchorBudget ==
  Cardinality(DOMAIN before_map) > request.max_anchors \/ Cardinality(DOMAIN after_map) > request.max_anchors

\* Faulty: what was indexed before the stop is used.
UsableInspiteOfStop == IF OverAnchorBudget THEN {} ELSE Unique
Usable == IF OverAnchorBudget \/ stopped THEN {} ELSE Unique

Align ==
  /\ state = "align"
  /\ truncated' = (truncated \/ OverAnchorBudget \/ stopped)
  /\ IF Usable = {} THEN state' = "done" /\ UNCHANGED start
     ELSE /\ state' = "compare"
          /\ start' = CHOOSE u \in Usable : \A v \in Usable : u.before <= v.before
  /\ UNCHANGED <<before, after, request, before_map, after_map, compared, matching, divergence, interval, stopped>>

Left == SubSeq(before, start.before, Len(before))
Right == SubSeq(after, start.after, Len(after))

Reason(i) ==
  CASE i > Len(Left) \/ i > Len(Right) -> "selected_window_event_count"
    [] Left[i].kind # Right[i].kind -> "event_kind"
    [] Left[i].anchor # Right[i].anchor -> "semantic_anchor"
    [] OTHER -> "none"

More == compared < Len(Left) \/ compared < Len(Right)

Compare ==
  /\ state = "compare" /\ ~stopped /\ More /\ divergence = "none"
  /\ compared' = compared + 1
  /\ divergence' = Reason(compared + 1)
  /\ matching' = IF divergence' = "none" THEN matching + 1 ELSE matching
  /\ UNCHANGED <<before, after, request, before_map, after_map, start, interval, truncated, stopped, state>>

\* No interval when the clock went backwards.
Elapsed(events) ==
  IF \E i \in 1..Len(events) - 1 : events[i + 1].time < events[i].time THEN Unavailable
  ELSE events[Len(events)].time - events[1].time

\* The comparison is over, or stopped in front of an event; intervals are of
\* what matched.
Finish ==
  /\ state = "compare" /\ (stopped \/ ~More \/ divergence # "none")
  /\ truncated' = (truncated \/ (stopped /\ More /\ divergence = "none"))
  /\ interval' = IF matching = 0 THEN <<Unavailable, Unavailable>>
                 ELSE <<Elapsed(SubSeq(Left, 1, matching)), Elapsed(SubSeq(Right, 1, matching))>>
  /\ state' = "done"
  /\ UNCHANGED <<before, after, request, before_map, after_map, start, compared, matching, divergence, stopped>>

Next == Stop \/ Select \/ Index \/ Align \/ Compare \/ Finish

Spec == Init /\ [][Next]_vars

-----------------------------------------------------------------------------
(* Properties. *)

Occurrences(events, k) == {i \in 1..Len(events) : events[i].anchor = k}
Once(k) == /\ k \notin {Absent, Blank}
           /\ Cardinality(Occurrences(before, k)) = 1 /\ Cardinality(Occurrences(after, k)) = 1

\* Windows are aligned at one event that stands for the same thing in both: its
\* identifier occurs once in the whole of each window, also when the control
\* stopped the indexing half way, and no earlier event would have served.
AlignmentIsUnambiguous ==
  start # <<>> =>
    /\ before[start.before].anchor = after[start.after].anchor
    /\ Once(before[start.before].anchor)
    /\ \A i \in 1..start.before - 1 : ~Once(before[i].anchor)

\* The divergence is the first: every pair in front of it is equal in kind and
\* identifier.  An aligned answer that names none and is not cut by a stop has
\* compared both windows to their ends.
DivergenceIsFirst ==
  state = "done" /\ start # <<>> =>
    /\ \A i \in 1..matching : Left[i].kind = Right[i].kind /\ Left[i].anchor = Right[i].anchor
    /\ divergence # "none" =>
         ~(/\ matching < Len(Left) /\ matching < Len(Right)
           /\ Left[matching + 1].kind = Right[matching + 1].kind
           /\ Left[matching + 1].anchor = Right[matching + 1].anchor)
    /\ divergence = "none" /\ ~stopped => matching = Len(Left) /\ matching = Len(Right)

\* An elapsed time is never negative and never longer than any part of the
\* prefix took: a clock that went backwards yields none.
IntervalsAreElapsed ==
  state = "done" =>
    \A side \in {1, 2} : interval[side] # Unavailable =>
      \A i, j \in 1..matching : i <= j =>
        LET events == IF side = 1 THEN Left ELSE Right
        IN events[j].time - events[i].time \in 0..interval[side]

-----------------------------------------------------------------------------
(* The inductive invariant. *)

\* The indexes hold the identifiers up to where the control stopped.
IndexesArePrefixes ==
  state = "align" =>
    \E n \in 0..Len(before), m \in 0..Len(after) :
      /\ before_map = anchors(before, n) /\ after_map = anchors(after, m)
      /\ ~stopped => n = Len(before) /\ m = Len(after)

\* What was compared is equal, up to the last pair if it is the divergence.
ComparedIsEqual ==
  IF start = <<>> THEN compared = 0
  ELSE /\ start \in [before : DOMAIN before, after : DOMAIN after]
       /\ \A i \in 1..matching : Reason(i) = "none"
       /\ divergence # "none" => divergence = Reason(compared)

TraceInvariant ==
  /\ request \in Requests
  /\ before \in Seq(Events) /\ after \in Seq(Events)
  /\ matching \in Nat /\ compared \in Nat
  /\ state = "compare" => start # <<>>
  /\ state \notin {"compare", "done"} => start = <<>>
  /\ state # "done" => interval = <<Unavailable, Unavailable>>
  /\ IndexesArePrefixes /\ ComparedIsEqual

\* All that is said of a comparison.
AlignmentIsRight ==
  TypeOK /\ TraceInvariant /\ AlignmentIsUnambiguous /\ DivergenceIsFirst /\ IntervalsAreElapsed
=============================================================================
