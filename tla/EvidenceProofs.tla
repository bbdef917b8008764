---------------------------- MODULE EvidenceProofs ----------------------------
(***************************************************************************)
(* Proofs about the evidence directories (Evidence): for any number of     *)
(* importers and objects, any limits, and any number of killed processes   *)
(* and losses of power.                                                    *)
(*                                                                         *)
(* Only the holder of the file lock changes the directory.  What it saw in *)
(* its listing, that the object is not there and that there is room for    *)
(* one, is therefore still true when it renames, and what it synced is     *)
(* still synced when it answers.                                           *)
(*                                                                         *)
(* Then proofs about what is made of evidence and facts: the comparison of *)
(* two traces (TraceAlignment), the measure of a compiler body             *)
(* (CompilerComplexity), paths and counts of calls (CallGraph) and the     *)
(* assignments that reach a use (ReachingDefinitions), each for any input, *)
(* any limits, and any moment at which the control stops it.  An INSTANCE  *)
(* takes the constants and variables of the same names from here; a        *)
(* theorem is about one of the analyses.                                   *)
(***************************************************************************)
EXTENDS Evidence, Integers, Sequences, FiniteSetTheorems, SequenceTheorems, Ranking, TLAPS

CONSTANTS BeforeStreams, AfterStreams, Offsets, MaxEvents, MaxAnchors, Absent, Blank,
          Terminators, BlockLimits, EdgeLimits, NoValue, NoUnwind,
          Definitions, Calls, Selections, Starts, Goals, NodeLimits, VisitLimits, DepthLimits,
          InputCuts, Modes,
          Blocks, Locals, Arguments, Bodies, FactLimits, MaxIterations

VARIABLES before, after, request, before_map, after_map, start, compared, matching,
          divergence, interval, truncated, stopped, state,
          term, max_blocks, max_edges, graph, stack, reached, counted, runtime_edges, excluded,
          exit_sites, metrics,
          source, target, selection, nodes, edges, sites, frontier, partial, queue, visited, distance,
          previous, outgoing, incoming, outcome, path, relations,
          body, max_facts, entries, worklist, iterations, at, flow, output_facts, result

Traces == INSTANCE TraceAlignment
Body == INSTANCE CompilerComplexity
Graph == INSTANCE CallGraph
Flows == INSTANCE ReachingDefinitions

-----------------------------------------------------------------------------
(* The directories. *)

Outside == {"idle", "open", "wait"}

\* Two importers are not past the lock at once.
LEMMA OneInside ==
  ASSUME TypeOK, NEW p \in Importers, NEW q \in Importers,
         stage[p] \notin Outside, stage[q] \notin Outside
  PROVE  p = q
BY DEF TypeOK, Outside

\* Only the importer that holds the lock has a temporary file.
LEMMA OneTemporary ==
  ASSUME EvidenceInvariant
  PROVE  IsFiniteSet(Temporaries) /\ Cardinality(Temporaries) \in {0, 1}
<1>1. \A p \in Temporaries : p = holder
  BY DEF EvidenceInvariant, TypeOK, KnowsTheDirectory, Temporaries
<1>2. Temporaries \subseteq {holder}
  BY <1>1
<1>3. IsFiniteSet({holder}) /\ Cardinality({holder}) = 1
  BY FS_Singleton
<1>4. IsFiniteSet(Temporaries) /\ Cardinality(Temporaries) <= 1
  BY <1>2, <1>3, FS_Subset
<1>5. Cardinality(Temporaries) \in Nat
  BY <1>4, FS_CardinalityType
<1> QED
  BY <1>4, <1>5

\* Sums of counters that only grow.
LEMMA Sums ==
  /\ \A a, b \in Nat : a + b \in Nat
  /\ \A a, b, c, d \in Nat : a <= c /\ b <= d => a + b <= c + d
  /\ \A m, n, c, d \in Nat : m + 2 + c > n /\ c <= d => m + 2 + d > n
OBVIOUS

\* A listing that failed for too many entries stays explained: interruptions are never
\* taken back.
LEMMA StillTooMany ==
  ASSUME EvidenceAssumption, EvidenceInvariant, listing' = listing,
         kills' \in Nat, losses' \in Nat, kills <= kills', losses <= losses'
  PROVE  listing' = "too many" => MaxObjects + 2 + Interruptions' > MaxEntries
<1>1. /\ MaxObjects \in Nat /\ MaxEntries \in Nat /\ kills \in Nat /\ losses \in Nat
      /\ listing = "too many" => MaxObjects + 2 + Interruptions > MaxEntries
  BY DEF EvidenceInvariant, EvidenceAssumption
<1>2. Interruptions \in Nat /\ Interruptions' \in Nat
  BY <1>1, Sums DEF Interruptions
<1>3. Interruptions <= Interruptions'
  BY <1>1, Sums DEF Interruptions
<1> QED
  BY <1>1, <1>2, <1>3, Sums

\* A step of one importer that leaves the directory as it is disturbs nobody.
LEMMA ImporterStep ==
  ASSUME EvidenceAssumption, EvidenceInvariant, NEW p \in Importers,
         UNCHANGED <<kind, directory, losses, listing>>,
         lockfile' \in BOOLEAN, holder' \in Importers \cup {None},
         stage' \in [Importers -> Stages], object' \in [Importers -> Objects \cup {None}],
         temporary' \in [Importers -> {"none", "empty", "written", "synced"}],
         \A q \in Importers \ {p} :
           /\ stage'[q] = stage[q] /\ object'[q] = object[q] /\ temporary'[q] = temporary[q]
           /\ holder' = q <=> holder = q,
         holder' = p <=> stage'[p] \notin Outside, KnowsTheDirectory(p)',
         leaked' \in Nat, kills' \in Nat, kills <= kills', leaked' <= kills' + losses,
         promised' \subseteq Objects, \A o \in promised' : content[o] = "whole" /\ o \notin volatile
  PROVE  EvidenceInvariant'
<1>1. Names' = Names /\ content' = content /\ volatile' = volatile /\ (HasRoom' <=> HasRoom)
  BY DEF directory, Names, HasRoom
<1>2. TypeOK'
  BY <1>1 DEF EvidenceInvariant, TypeOK, Outside, Interruptions
<1>3. ASSUME NEW q \in Importers \ {p}
      PROVE  KnowsTheDirectory(q)'
  <2>1. /\ KnowsTheDirectory(q)
        /\ stage'[q] = stage[q] /\ object'[q] = object[q] /\ temporary'[q] = temporary[q]
        /\ holder' = q <=> holder = q
    BY DEF EvidenceInvariant
  <2> QED
    BY <1>1, <2>1 DEF KnowsTheDirectory
<1>4. losses' \in Nat /\ losses <= losses'
  <2>1. losses' = losses /\ losses \in Nat
    BY DEF EvidenceInvariant
  <2> QED  BY <2>1
<1>5. listing' = "too many" => MaxObjects + 2 + Interruptions' > MaxEntries
  BY <1>4, StillTooMany
<1> QED
  BY <1>1, <1>2, <1>3, <1>4, <1>5 DEF EvidenceInvariant, LimitIsHeld, PromisedIsDurable

\* Whoever leaves has nothing and holds nothing.
LEMMA Leaving ==
  ASSUME EvidenceAssumption, EvidenceInvariant, NEW p \in Importers, Leave(p)
  PROVE  /\ holder' \in Importers \cup {None}
         /\ stage' \in [Importers -> Stages] /\ object' \in [Importers -> Objects \cup {None}]
         /\ temporary' \in [Importers -> {"none", "empty", "written", "synced"}]
         /\ \A q \in Importers \ {p} :
              /\ stage'[q] = stage[q] /\ object'[q] = object[q] /\ temporary'[q] = temporary[q]
              /\ holder' = q <=> holder = q
         /\ holder' = p <=> stage'[p] \notin Outside
         /\ KnowsTheDirectory(p)'
<1>1. /\ stage' \in [Importers -> Stages] /\ object' \in [Importers -> Objects \cup {None}]
      /\ temporary' \in [Importers -> {"none", "empty", "written", "synced"}]
      /\ stage'[p] = "idle" /\ temporary'[p] = "none"
      /\ \A q \in Importers \ {p} :
           stage'[q] = stage[q] /\ object'[q] = object[q] /\ temporary'[q] = temporary[q]
  BY DEF EvidenceInvariant, TypeOK, Leave, Goto, Stages
<1>2. /\ holder' \in Importers \cup {None} /\ holder' # p
      /\ \A q \in Importers \ {p} : holder' = q <=> holder = q
  BY DEF EvidenceInvariant, EvidenceAssumption, Leave
<1> QED
  BY <1>1, <1>2 DEF KnowsTheDirectory, Outside

\* An importer that goes on, with what it must know at its next stage.
LEMMA GoingOn ==
  ASSUME EvidenceInvariant, NEW p \in Importers, NEW next \in Stages, Goto(p, next)
  PROVE  /\ stage' \in [Importers -> Stages] /\ stage'[p] = next
         /\ \A q \in Importers \ {p} : stage'[q] = stage[q]
BY DEF EvidenceInvariant, TypeOK, Goto

\* Until it renames, an importer changes nothing that others read: it learns, fails, is killed,
\* or writes its temporary file.
LEMMA QuietStep ==
  ASSUME EvidenceAssumption, EvidenceInvariant, NEW p \in Importers,
         \/ Begin(p) \/ OpenLock(p) \/ Acquire(p) \/ DeadlineExceeded(p) \/ List(p)
         \/ CreateTemporary(p) \/ WriteTemporary(p) \/ SyncTemporary(p) \/ Fail(p) \/ Kill(p)
  PROVE  EvidenceInvariant'
<1>1. /\ TypeOK /\ KnowsTheDirectory(p) /\ leaked \in Nat /\ kills \in Nat /\ losses \in Nat
      /\ leaked <= kills + losses /\ lockfile \in BOOLEAN /\ holder \in Importers \cup {None}
      /\ promised \subseteq Objects /\ \A o \in promised : content[o] = "whole" /\ o \notin volatile
  BY DEF EvidenceInvariant, TypeOK, PromisedIsDurable, Interruptions
<1>2. /\ UNCHANGED <<kind, directory, losses, listing, promised>> /\ lockfile' \in BOOLEAN
      /\ leaked' \in Nat /\ kills' \in Nat /\ kills <= kills' /\ leaked' <= kills' + losses
  <2>1. /\ UNCHANGED <<kind, directory, losses, listing, promised>> /\ lockfile' \in BOOLEAN
        /\ \/ UNCHANGED <<kills, leaked>>
           \/ kills' = kills + 1 /\ leaked' \in {leaked, leaked + 1}
    BY <1>1 DEF Begin, OpenLock, Acquire, DeadlineExceeded, List, CreateTemporary, WriteTemporary,
                SyncTemporary, Fail, Kill, ghosts
  <2> QED  BY <1>1, <2>1
<1>3. Names' = Names /\ (HasRoom' <=> HasRoom)
  BY <1>2 DEF directory, Names, HasRoom
<1>4. CASE Leave(p)
  BY <1>1, <1>2, <1>4, Leaving, ImporterStep
<1>5. ASSUME NEW next \in Stages, Goto(p, next),
             object' \in [Importers -> Objects \cup {None}],
             temporary' \in [Importers -> {"none", "empty", "written", "synced"}],
             holder' \in Importers \cup {None},
             \A q \in Importers \ {p} :
               /\ object'[q] = object[q] /\ temporary'[q] = temporary[q]
               /\ holder' = q <=> holder = q,
             holder' = p <=> next \notin Outside, KnowsTheDirectory(p)'
      PROVE  EvidenceInvariant'
  <2>1. /\ stage' \in [Importers -> Stages] /\ stage'[p] = next
        /\ \A q \in Importers \ {p} : stage'[q] = stage[q]
    BY <1>5, GoingOn
  <2>2. holder' = p <=> stage'[p] \notin Outside
    BY <1>5, <2>1
  <2>3. \A q \in Importers \ {p} :
          /\ stage'[q] = stage[q] /\ object'[q] = object[q] /\ temporary'[q] = temporary[q]
          /\ holder' = q <=> holder = q
    BY <1>5, <2>1
  <2> QED  BY <1>1, <1>2, <1>5, <2>1, <2>2, <2>3, ImporterStep
<1>6. CASE Begin(p)
  <2>1. Goto(p, "open") /\ "open" \in Stages /\ UNCHANGED <<temporary, holder>> /\ stage[p] = "idle"
    BY <1>6 DEF Begin, Stages
  <2>2. PICK o \in Objects : object' = [object EXCEPT ![p] = o]
    BY <1>6 DEF Begin
  <2>3. stage'[p] = "open" /\ object'[p] = o /\ object' \in [Importers -> Objects \cup {None}]
    BY <1>1, <2>1, <2>2, GoingOn DEF TypeOK
  <2>4. KnowsTheDirectory(p)'
    BY <1>1, <2>1, <2>3 DEF KnowsTheDirectory
  <2> QED
    BY <1>1, <1>5, <2>1, <2>2, <2>3, <2>4 DEF TypeOK, Outside
<1>7. CASE OpenLock(p)
  <2>1. /\ Goto(p, "wait") /\ "wait" \in Stages /\ UNCHANGED <<temporary, holder, object>>
        /\ stage[p] = "open"
    BY <1>7 DEF OpenLock, Stages
  <2>2. stage'[p] = "wait"
    BY <2>1, GoingOn
  <2>3. KnowsTheDirectory(p)'
    BY <1>1, <2>1, <2>2 DEF KnowsTheDirectory
  <2> QED
    BY <1>1, <1>5, <2>1, <2>3 DEF TypeOK, Outside
<1>8. CASE Acquire(p)
  <2>1. /\ Goto(p, "list") /\ "list" \in Stages /\ UNCHANGED <<temporary, object>>
        /\ holder = None /\ holder' = p /\ stage[p] = "wait"
    BY <1>8 DEF Acquire, Stages
  <2>2. stage'[p] = "list"
    BY <2>1, GoingOn
  <2>3. KnowsTheDirectory(p)'
    BY <1>1, <2>1, <2>2 DEF KnowsTheDirectory
  <2> QED
    BY <1>1, <1>5, <2>1, <2>3 DEF TypeOK, Outside, EvidenceAssumption
<1>9. CASE List(p) /\ ~Leave(p)
  <2>1. /\ Goto(p, "create") /\ "create" \in Stages /\ UNCHANGED <<temporary, object, holder>>
        /\ stage[p] = "list" /\ object[p] \notin Names /\ HasRoom
    BY <1>9 DEF List, Stages
  <2>2. stage'[p] = "create"
    BY <2>1, GoingOn
  <2>3. KnowsTheDirectory(p)'
    BY <1>1, <1>3, <2>1, <2>2 DEF KnowsTheDirectory
  <2> QED
    BY <1>1, <1>5, <2>1, <2>3 DEF TypeOK, Outside
<1>10. ASSUME NEW next \in {"write", "sync", "rename"}, Goto(p, next),
              stage[p] \in {"create", "write", "sync"}, UNCHANGED <<object, holder>>,
              temporary' = [temporary EXCEPT ![p] = CASE next = "write" -> "empty"
                                                      [] next = "sync" -> "written"
                                                      [] next = "rename" -> "synced"]
       PROVE  EvidenceInvariant'
  <2>1. next \in Stages
    BY DEF Stages
  <2>2. stage'[p] = next /\ temporary'[p] = CASE next = "write" -> "empty"
                                               [] next = "sync" -> "written"
                                               [] next = "rename" -> "synced"
    BY <1>1, <1>10, <2>1, GoingOn DEF TypeOK
  <2>3. KnowsTheDirectory(p)'
    BY <1>1, <1>3, <1>10, <2>2 DEF KnowsTheDirectory
  <2>4. /\ temporary' \in [Importers -> {"none", "empty", "written", "synced"}]
        /\ \A q \in Importers \ {p} : temporary'[q] = temporary[q]
    BY <1>1, <1>10 DEF TypeOK
  <2> QED
    BY <1>1, <1>5, <1>10, <2>1, <2>3, <2>4 DEF TypeOK, Outside
<1>11. CASE CreateTemporary(p) \/ WriteTemporary(p) \/ SyncTemporary(p)
  BY <1>10, <1>11 DEF CreateTemporary, WriteTemporary, SyncTemporary
<1> QED
  BY <1>4, <1>6, <1>7, <1>8, <1>9, <1>11 DEF DeadlineExceeded, Fail, Kill

\* While one importer is past the lock, what the others know does not depend on the
\* directory.
LEMMA OthersWait ==
  ASSUME EvidenceInvariant, NEW p \in Importers, stage[p] \notin Outside,
         \A q \in Importers \ {p} :
           stage'[q] = stage[q] /\ object'[q] = object[q] /\ temporary'[q] = temporary[q]
  PROVE  \A q \in Importers \ {p} : KnowsTheDirectory(q)'
<1> SUFFICES ASSUME NEW q \in Importers \ {p}  PROVE KnowsTheDirectory(q)'
  OBVIOUS
<1>1. stage[q] \in Outside
  BY OneInside DEF EvidenceInvariant
<1>2. KnowsTheDirectory(q)
  BY DEF EvidenceInvariant
<1> QED
  BY <1>1, <1>2 DEF KnowsTheDirectory, Outside

\* The renamed object is a name more, for which there still is room.
LEMMA RenameStep ==
  ASSUME EvidenceAssumption, EvidenceInvariant, NEW p \in Importers, Rename(p)
  PROVE  EvidenceInvariant'
<1>1. /\ stage[p] = "rename" /\ object[p] \in Objects /\ object[p] \notin Names /\ HasRoom
      /\ temporary[p] = "synced"
  BY DEF Rename, EvidenceInvariant, KnowsTheDirectory
<1>2. PICK o : o = object[p]
  OBVIOUS
<1>3. /\ content' = [content EXCEPT ![o] = "whole"] /\ volatile' = volatile \cup {o}
      /\ Goto(p, "directory") /\ temporary' = [temporary EXCEPT ![p] = "none"]
      /\ UNCHANGED <<kind, lockfile, object, holder, ghosts>>
  BY <1>1, <1>2 DEF Rename
<1>4. Names' = Names \cup {o} /\ o \notin Names /\ o \in Objects
  <2>1. /\ o \notin Names /\ o \in Objects
        /\ \A q \in Objects : content'[q] = IF q = o THEN "whole" ELSE content[q]
    BY <1>1, <1>2, <1>3 DEF EvidenceInvariant, TypeOK
  <2> QED
    BY <2>1 DEF Names
<1>5. IsFiniteSet(Names') /\ LimitIsHeld'
  <2>1. IsFiniteSet(Names) /\ Cardinality(Names) \in Nat /\ Cardinality(Names) < MaxObjects
    BY <1>1, FS_CardinalityType DEF EvidenceInvariant, HasRoom
  <2>2. IsFiniteSet(Names') /\ Cardinality(Names') = Cardinality(Names) + 1
    BY <1>4, <2>1, FS_AddElement
  <2> QED
    BY <2>1, <2>2 DEF LimitIsHeld, EvidenceAssumption
<1>6. "directory" \in Stages /\ "rename" \notin Outside /\ "directory" \notin Outside
  BY DEF Stages, Outside
<1>7. /\ stage' \in [Importers -> Stages] /\ stage'[p] = "directory"
      /\ \A q \in Importers \ {p} : stage'[q] = stage[q]
  BY <1>3, <1>6, GoingOn
<1>8. /\ temporary' \in [Importers -> {"none", "empty", "written", "synced"}]
      /\ temporary'[p] = "none" /\ \A q \in Importers \ {p} : temporary'[q] = temporary[q]
  BY <1>3 DEF EvidenceInvariant, TypeOK
<1>9. TypeOK'
  <2>1. content' \in [Objects -> {"absent", "whole", "unsynced", "torn"}] /\ volatile' \subseteq Names'
    BY <1>3, <1>4 DEF EvidenceInvariant, TypeOK
  <2>2. \A q \in Importers : holder' = q <=> stage'[q] \notin Outside
    BY <1>1, <1>3, <1>6, <1>7 DEF EvidenceInvariant, TypeOK, Outside
  <2>3. leaked' <= Interruptions'
    BY <1>3 DEF EvidenceInvariant, TypeOK, ghosts, Interruptions
  <2> QED
    BY <1>3, <1>7, <1>8, <2>1, <2>2, <2>3 DEF EvidenceInvariant, TypeOK, Outside
<1>10. \A q \in Importers : KnowsTheDirectory(q)'
  <2>1. KnowsTheDirectory(p)'
    BY <1>1, <1>3, <1>7, <1>8 DEF KnowsTheDirectory
  <2>2. \A q \in Importers \ {p} : KnowsTheDirectory(q)'
    BY <1>1, <1>3, <1>6, <1>7, <1>8, OthersWait
  <2> QED  BY <2>1, <2>2
<1>11. \A n \in Names' : content'[n] = "whole"
  BY <1>3, <1>4 DEF EvidenceInvariant, TypeOK, Names
<1>12. PromisedIsDurable'
  <2>1. \A n \in promised : n \in Names
    BY DEF EvidenceInvariant, PromisedIsDurable, Names
  <2> QED
    BY <1>3, <1>4, <2>1 DEF EvidenceInvariant, TypeOK, PromisedIsDurable, ghosts
<1>13. listing' = "too many" => MaxObjects + 2 + Interruptions' > MaxEntries
  BY <1>3 DEF EvidenceInvariant, ghosts, Interruptions
<1> QED
  BY <1>3, <1>5, <1>9, <1>10, <1>11, <1>12, <1>13 DEF EvidenceInvariant, ghosts

\* Whatever was renamed is durable once the directory is synced.
LEMMA SyncDirectoryStep ==
  ASSUME EvidenceAssumption, EvidenceInvariant, NEW p \in Importers, SyncDirectory(p)
  PROVE  EvidenceInvariant'
<1>1. /\ stage[p] = "directory" /\ Goto(p, "answer") /\ volatile' = {}
      /\ UNCHANGED <<kind, content, lockfile, object, temporary, holder, ghosts>>
  BY DEF SyncDirectory
<1>2. "answer" \in Stages /\ "directory" \notin Outside /\ "answer" \notin Outside
  BY DEF Stages, Outside
<1>3. /\ stage' \in [Importers -> Stages] /\ stage'[p] = "answer"
      /\ \A q \in Importers \ {p} : stage'[q] = stage[q]
  BY <1>1, <1>2, GoingOn
<1>4. Names' = Names
  BY <1>1 DEF Names
<1>5. TypeOK'
  <2>1. \A q \in Importers : holder' = q <=> stage'[q] \notin Outside
    BY <1>1, <1>2, <1>3 DEF EvidenceInvariant, TypeOK, Outside
  <2>2. leaked' <= Interruptions'
    BY <1>1 DEF EvidenceInvariant, TypeOK, ghosts, Interruptions
  <2> QED
    BY <1>1, <1>3, <1>4, <2>1, <2>2 DEF EvidenceInvariant, TypeOK, Outside
<1>6. \A q \in Importers : KnowsTheDirectory(q)'
  <2>1. KnowsTheDirectory(p)'
    BY <1>1, <1>3 DEF KnowsTheDirectory, EvidenceInvariant
  <2>2. \A q \in Importers \ {p} : KnowsTheDirectory(q)'
    BY <1>1, <1>2, <1>3, OthersWait
  <2> QED  BY <2>1, <2>2
<1>7. listing' = "too many" => MaxObjects + 2 + Interruptions' > MaxEntries
  BY <1>1 DEF EvidenceInvariant, ghosts, Interruptions
<1> QED
  BY <1>1, <1>4, <1>5, <1>6, <1>7 DEF EvidenceInvariant, ghosts, LimitIsHeld, PromisedIsDurable

\* At the answer nothing is volatile, so what is promised is durable.
LEMMA AnswerStep ==
  ASSUME EvidenceAssumption, EvidenceInvariant, NEW p \in Importers, Answer(p)
  PROVE  EvidenceInvariant'
<1>1. /\ stage[p] = "answer" /\ volatile = {} /\ object[p] \in Objects
  BY DEF Answer, EvidenceInvariant, KnowsTheDirectory
<1>2. promised' \subseteq Objects /\ \A o \in promised' : content[o] = "whole" /\ o \notin volatile
  <2>1. promised \subseteq Objects /\ \A o \in promised : content[o] = "whole"
    BY DEF EvidenceInvariant, PromisedIsDurable
  <2>2. promised' \in {promised, promised \cup {object[p]}}
        /\ (promised' # promised => Readable(object[p]))
    BY DEF Answer
  <2>3. Readable(object[p]) => content[object[p]] = "whole"
    BY <1>1 DEF EvidenceInvariant, Readable, Names
  <2> QED  BY <1>1, <2>1, <2>2, <2>3
<1>3. Leave(p) /\ UNCHANGED <<kind, directory, lockfile, leaked, kills, losses, listing>>
  BY DEF Answer
<1>4. /\ leaked' \in Nat /\ kills' \in Nat /\ kills <= kills' /\ leaked' <= kills' + losses
      /\ lockfile' \in BOOLEAN
  <2>1. leaked \in Nat /\ kills \in Nat /\ losses \in Nat /\ leaked <= kills + losses /\ lockfile \in BOOLEAN
    BY DEF EvidenceInvariant, TypeOK, Interruptions
  <2> QED  BY <1>3, <2>1
<1> QED
  BY <1>2, <1>3, <1>4, Leaving, ImporterStep

\* What power takes back was promised to nobody, and one temporary file at most is left.
LEMMA PowerLossStep ==
  ASSUME EvidenceAssumption, EvidenceInvariant, PowerLoss
  PROVE  EvidenceInvariant'
<1>1. PICK lost \in SUBSET volatile :
        content' = [o \in Objects |-> IF o \in lost THEN "absent"
                                      ELSE IF content[o] = "unsynced" THEN "torn" ELSE content[o]]
  BY DEF PowerLoss
<1>2. /\ losses' = losses + 1 /\ kills' = kills /\ volatile' = {} /\ holder' = None
      /\ stage' = [p \in Importers |-> "idle"] /\ object' = [p \in Importers |-> None]
      /\ temporary' = [p \in Importers |-> "none"]
      /\ leaked' = leaked + Cardinality(Temporaries)
      /\ UNCHANGED <<kind, lockfile, promised, listing>>
  BY DEF PowerLoss
<1>3. Names' \subseteq Names /\ \A o \in Names' : content'[o] = "whole"
  BY <1>1 DEF Names, EvidenceInvariant
<1>4. IsFiniteSet(Names') /\ LimitIsHeld'
  <2>1. IsFiniteSet(Names) /\ Cardinality(Names) \in Nat /\ Cardinality(Names) <= MaxObjects
    BY FS_CardinalityType DEF EvidenceInvariant, LimitIsHeld
  <2>2. IsFiniteSet(Names') /\ Cardinality(Names') <= Cardinality(Names)
    BY <1>3, <2>1, FS_Subset
  <2>3. Cardinality(Names') \in Nat
    BY <2>2, FS_CardinalityType
  <2> QED
    BY <2>1, <2>2, <2>3 DEF LimitIsHeld, EvidenceAssumption
<1>5. /\ leaked' \in Nat /\ losses' \in Nat /\ kills' \in Nat /\ leaked' <= Interruptions'
      /\ kills <= kills' /\ losses <= losses'
  <2>1. leaked \in Nat /\ kills \in Nat /\ losses \in Nat /\ leaked <= kills + losses
    BY DEF EvidenceInvariant, TypeOK, Interruptions
  <2>2. Cardinality(Temporaries) \in {0, 1}
    BY OneTemporary
  <2>3. PICK n \in {0, 1} : leaked' = leaked + n
    BY <1>2, <2>2
  <2> QED
    BY <1>2, <2>1, <2>3 DEF Interruptions
<1>6. content' \in [Objects -> {"absent", "whole", "unsynced", "torn"}]
  BY <1>1 DEF EvidenceInvariant, TypeOK
<1>7. TypeOK'
  BY <1>2, <1>5, <1>6 DEF EvidenceInvariant, EvidenceAssumption, TypeOK, Stages
<1>8. \A p \in Importers : KnowsTheDirectory(p)'
  BY <1>2 DEF KnowsTheDirectory
<1>9. PromisedIsDurable'
  BY <1>1, <1>2 DEF EvidenceInvariant, PromisedIsDurable
<1>10. listing' = "too many" => MaxObjects + 2 + Interruptions' > MaxEntries
  BY <1>2, <1>5, StillTooMany
<1> QED
  BY <1>2, <1>3, <1>4, <1>5, <1>7, <1>8, <1>9, <1>10 DEF EvidenceInvariant

\* Every entry is an object, a temporary file, one that was left, or the lock file.
LEMMA EntriesAreCounted ==
  ASSUME EvidenceInvariant
  PROVE  /\ Entries \in Nat /\ Cardinality(Names) \in Nat
         /\ Entries <= Cardinality(Names) + 2 + Interruptions
<1>1. PICK n : n = Cardinality(Names)
  OBVIOUS
<1>2. PICK t : t = Cardinality(Temporaries)
  OBVIOUS
<1>3. PICK l : l = IF lockfile THEN 1 ELSE 0
  OBVIOUS
<1>4. n \in Nat /\ t \in {0, 1} /\ l \in {0, 1}
  BY <1>1, <1>2, <1>3, OneTemporary, FS_CardinalityType DEF EvidenceInvariant
<1>5. Entries = n + t + leaked + l
  BY <1>1, <1>2, <1>3 DEF Entries
<1>6. leaked \in Nat /\ kills \in Nat /\ losses \in Nat /\ leaked <= kills + losses
  BY DEF EvidenceInvariant, TypeOK, Interruptions
<1> QED
  BY <1>1, <1>4, <1>5, <1>6 DEF Interruptions

\* A listing finds whole objects only, and too many entries only after interruptions.
LEMMA ReadAllStep ==
  ASSUME EvidenceAssumption, EvidenceInvariant, ReadAll
  PROVE  EvidenceInvariant'
<1>1. UNCHANGED <<kind, directory, lockfile, processes, leaked, kills, losses, promised>>
  BY DEF ReadAll
<1>2. listing' \in {"too many", "objects"} /\ (listing' = "too many" => ~ListingFits)
  BY DEF ReadAll, EvidenceInvariant, Readable
<1>3. ListingFits \/ MaxObjects + 2 + Interruptions > MaxEntries
  <2>1. Cardinality(Names) <= MaxObjects /\ MaxObjects \in Nat /\ MaxEntries \in Nat
        /\ kills \in Nat /\ losses \in Nat
    BY DEF EvidenceInvariant, EvidenceAssumption, LimitIsHeld
  <2>2. Interruptions \in Nat
    BY <2>1 DEF Interruptions
  <2> QED
    BY <2>1, <2>2, EntriesAreCounted DEF ListingFits
<1>4. Names' = Names /\ Interruptions' = Interruptions
  BY <1>1 DEF Names, Interruptions, directory
<1>5. TypeOK' /\ LimitIsHeld' /\ PromisedIsDurable' /\ \A p \in Importers : KnowsTheDirectory(p)'
  BY <1>1, <1>4 DEF EvidenceInvariant, TypeOK, LimitIsHeld, PromisedIsDurable, KnowsTheDirectory,
                    HasRoom, directory, processes
<1> QED
  BY <1>1, <1>2, <1>3, <1>4, <1>5 DEF EvidenceInvariant, directory, processes

\* Nothing changes.
LEMMA Stutter == ASSUME EvidenceInvariant, UNCHANGED vars PROVE EvidenceInvariant'
<1>1. Names' = Names /\ Interruptions' = Interruptions /\ UNCHANGED vars
  BY DEF vars, Names, Interruptions
<1>2. TypeOK' /\ LimitIsHeld' /\ PromisedIsDurable' /\ \A p \in Importers : KnowsTheDirectory(p)'
  BY <1>1 DEF EvidenceInvariant, TypeOK, LimitIsHeld, PromisedIsDurable, KnowsTheDirectory,
              HasRoom, vars
<1> QED
  BY <1>1, <1>2 DEF EvidenceInvariant, vars

\* An empty directory and no importer.
LEMMA InvariantInit == ASSUME EvidenceAssumption, Init PROVE EvidenceInvariant
<1>1. Names = {}
  BY DEF Init, Names
<1>2. IsFiniteSet({}) /\ Cardinality({}) = 0
  BY FS_EmptySet
<1>3. TypeOK /\ \A p \in Importers : KnowsTheDirectory(p)
  BY DEF Init, TypeOK, Stages, KnowsTheDirectory, Interruptions, EvidenceAssumption
<1>4. IsFiniteSet(Names) /\ LimitIsHeld
  BY <1>1, <1>2 DEF LimitIsHeld, EvidenceAssumption
<1> QED
  BY <1>1, <1>3, <1>4 DEF Init, EvidenceInvariant, PromisedIsDurable

\* Every step keeps the invariant.
LEMMA InvariantStep == ASSUME EvidenceAssumption, EvidenceInvariant, [Next]_vars PROVE EvidenceInvariant'
BY QuietStep, RenameStep, SyncDirectoryStep, AnswerStep, PowerLossStep, ReadAllStep, Stutter DEF Next

\* The inductive invariant: what the holder of the lock knows is true, and every object
\* there is whole.
THEOREM EvidenceInvariantHolds == ASSUME EvidenceAssumption PROVE Spec => []EvidenceInvariant
<1>1. Init => EvidenceInvariant
  BY InvariantInit
<1>2. EvidenceInvariant /\ [Next]_vars => EvidenceInvariant'
  BY InvariantStep
<1> QED
  BY <1>1, <1>2, PTL DEF Spec

\* persist_bundle: however many processes import at once, no directory ever
\* holds more objects than its limit.
THEOREM LimitIsHeldHolds == ASSUME EvidenceAssumption PROVE Spec => []LimitIsHeld
<1>1. EvidenceInvariant => LimitIsHeld
  BY DEF EvidenceInvariant
<1> QED
  BY <1>1, EvidenceInvariantHolds, PTL

\* publish_with_stop: an object whose publisher answered survives every loss of
\* power, whole.
THEOREM PromisedIsDurableHolds == ASSUME EvidenceAssumption PROVE Spec => []PromisedIsDurable
<1>1. EvidenceInvariant => PromisedIsDurable
  BY DEF EvidenceInvariant
<1> QED
  BY <1>1, EvidenceInvariantHolds, PTL

\* json_names and the readers: no interruption of an import makes a listing find an
\* object that cannot be read.
THEOREM ObjectsAreWholeHolds == ASSUME EvidenceAssumption PROVE Spec => []ObjectsAreWhole
<1>1. EvidenceInvariant => ObjectsAreWhole
  BY DEF EvidenceInvariant, ObjectsAreWhole, Readable
<1> QED
  BY <1>1, EvidenceInvariantHolds, PTL

\* json_names: an interrupted process leaves one entry at most, so a listing is refused
\* only when interruptions used up the room the limits leave.
THEOREM InterruptionsAreCountedHolds ==
  ASSUME EvidenceAssumption PROVE Spec => []InterruptionsAreCounted
<1>1. EvidenceInvariant => InterruptionsAreCounted
  BY EntriesAreCounted DEF EvidenceInvariant, InterruptionsAreCounted
<1> QED
  BY <1>1, EvidenceInvariantHolds, PTL

\* All of it: concurrent and interrupted imports keep the limit, the files whole, the promises
\* durable and the leftovers bounded.
THEOREM ImportsAreKeptHolds ==
  ASSUME EvidenceAssumption
  PROVE  Spec => []ImportsAreKept
<1>1. EvidenceInvariant /\ LimitIsHeld /\ PromisedIsDurable /\ ObjectsAreWhole /\ InterruptionsAreCounted => ImportsAreKept
  BY DEF ImportsAreKept
<1> QED
  BY <1>1, EvidenceInvariantHolds, LimitIsHeldHolds, PromisedIsDurableHolds, ObjectsAreWholeHolds,
     InterruptionsAreCountedHolds, PTL

-----------------------------------------------------------------------------
(* The comparison of two windows of events.                                *)

\* The instance counts as this module does, and an identifier that occurs once has one
\* position.
LEMMA OnePosition ==
  ASSUME NEW S, IsFiniteSet(S), Traces!Cardinality(S) = 1
  PROVE  S = {Traces!Only(S)}
<1>1. Cardinality(S) = 1
  BY DEF Traces!Cardinality, Cardinality
<1>2. PICK x : S = {x}
  BY <1>1, FS_Singleton
<1> QED
  BY <1>2 DEF Traces!Only

\* A window is a sequence of events.
LEMMA WindowIsEvents ==
  ASSUME Traces!TraceAssumption, NEW s \in BeforeStreams \cup AfterStreams, NEW offset \in Nat,
         offset <= Len(s), request.max_events \in Nat
  PROVE  Traces!window(s, offset) \in Seq(Traces!Events)
<1>1. s \in Seq(Traces!Events) /\ Len(s) \in Nat
  BY DEF Traces!TraceAssumption
<1>2. PICK n \in Nat : n = Traces!Smaller(Len(s), offset + request.max_events)
  BY <1>1 DEF Traces!Smaller
<1>3. offset + 1 \in 1..Len(s) + 1 /\ n \in (offset + 1) - 1..Len(s)
  BY <1>1, <1>2 DEF Traces!Smaller
<1> QED
  BY <1>1, <1>2, <1>3, SubSeqProperties DEF Traces!window

\* What is compared: the windows from where they are aligned.
LEMMA SidesOfTheStart ==
  ASSUME before \in Seq(Traces!Events), after \in Seq(Traces!Events),
         start \in [before : DOMAIN before, after : DOMAIN after]
  PROVE  /\ Traces!Left \in Seq(Traces!Events) /\ Traces!Right \in Seq(Traces!Events)
         /\ start.before \in 1..Len(before) /\ start.after \in 1..Len(after)
         /\ Len(Traces!Left) = Len(before) - start.before + 1
         /\ Len(Traces!Right) = Len(after) - start.after + 1
         /\ Len(Traces!Left) \in 1..Len(before) /\ Len(Traces!Right) \in 1..Len(after)
<1>1. /\ start.before \in 1..Len(before) /\ start.after \in 1..Len(after)
      /\ Len(before) \in Nat /\ Len(after) \in Nat
  OBVIOUS
<1>2. PICK b \in 1..Len(before), a \in 1..Len(after) : b = start.before /\ a = start.after
  BY <1>1
<1>3. Traces!Left = SubSeq(before, b, Len(before)) /\ Traces!Right = SubSeq(after, a, Len(after))
  BY <1>2 DEF Traces!Left, Traces!Right
<1>4. /\ SubSeq(before, b, Len(before)) \in Seq(Traces!Events)
      /\ Len(SubSeq(before, b, Len(before))) = Len(before) - b + 1
  BY <1>1, SubSeqProperties
<1>5. /\ SubSeq(after, a, Len(after)) \in Seq(Traces!Events)
      /\ Len(SubSeq(after, a, Len(after))) = Len(after) - a + 1
  BY <1>1, SubSeqProperties
<1> QED
  BY <1>1, <1>2, <1>3, <1>4, <1>5

\* Where a record says the windows are aligned, they are.
LEMMA StartIsSome ==
  ASSUME NEW D, NEW E, NEW r \in [before : D, after : E]
  PROVE  r # <<>>
<1>1. DOMAIN r = {"before", "after"} /\ DOMAIN <<>> = {}
  OBVIOUS
<1> QED
  BY <1>1

\* Times that never go backwards from one event to the next never go backwards.
LEMMA TimesGrow ==
  ASSUME NEW n \in Nat, NEW time \in [1..n -> Nat], \A i \in 1..(n - 1) : time[i] <= time[i + 1]
  PROVE  \A i, j \in 1..n : i <= j => time[i] <= time[j]
<1> SUFFICES ASSUME NEW i \in 1..n, NEW j \in 1..n, i <= j, ~(time[i] <= time[j])
             PROVE  FALSE
  OBVIOUS
<1> DEFINE S == {k \in 1..n : i <= k /\ ~(time[i] <= time[k])}
<1>1. PICK k \in S : \A m \in S : k <= m
  <2>1. S \subseteq Nat /\ j \in S
    OBVIOUS
  <2> HIDE DEF S
  <2> QED  BY <2>1, HasLeast
<1>2. k \in 1..n /\ i <= k /\ ~(time[i] <= time[k]) /\ k # i
  OBVIOUS
<1>3. k - 1 \in 1..(n - 1) /\ i <= k - 1 /\ k - 1 \notin S
  BY <1>1, <1>2
<1>4. time[i] <= time[k - 1] /\ time[k - 1] <= time[(k - 1) + 1] /\ (k - 1) + 1 = k
  BY <1>2, <1>3
<1> QED
  BY <1>2, <1>3, <1>4

\* An elapsed time is that of the first to the last event.
LEMMA ElapsedIsWhole ==
  ASSUME Traces!TraceAssumption, NEW s \in Seq(Traces!Events), NEW n \in 1..Len(s),
         Traces!Elapsed(SubSeq(s, 1, n)) # Traces!Unavailable
  PROVE  \A i, j \in 1..n : i <= j =>
           s[j].time - s[i].time \in 0..Traces!Elapsed(SubSeq(s, 1, n))
<1> DEFINE events == SubSeq(s, 1, n)
           time == [i \in 1..n |-> s[i].time]
<1>1. Len(s) \in Nat /\ \A i \in 1..Len(s) : s[i] \in Traces!Events /\ s[i].time \in Nat
  BY DEF Traces!TraceAssumption
<1>2. Len(events) = n /\ \A i \in 1..n : events[i] = s[i]
  BY <1>1, SubSeqProperties
<1> HIDE DEF events
<1>3. /\ ~\E i \in 1..n - 1 : events[i + 1].time < events[i].time
      /\ Traces!Elapsed(events) = events[n].time - events[1].time
  BY <1>2 DEF Traces!Elapsed, Traces!Unavailable, events
<1>4. time \in [1..n -> Nat] /\ n \in Nat
  BY <1>1
<1>5. \A i \in 1..(n - 1) : time[i] <= time[i + 1]
  <2> TAKE i \in 1..(n - 1)
  <2>1. i \in 1..n /\ i + 1 \in 1..n /\ i \in 1..n - 1
    OBVIOUS
  <2>2. s[i].time \in Nat /\ s[i + 1].time \in Nat /\ ~(s[i + 1].time < s[i].time)
    BY <1>1, <1>2, <1>3, <2>1
  <2> QED  BY <2>1, <2>2
<1>6. \A i, j \in 1..n : i <= j => time[i] <= time[j]
  <2> HIDE DEF time
  <2> QED  BY <1>4, <1>5, TimesGrow
<1> SUFFICES ASSUME NEW i \in 1..n, NEW j \in 1..n, i <= j
             PROVE  s[j].time - s[i].time \in 0..Traces!Elapsed(SubSeq(s, 1, n))
  OBVIOUS
<1>7. s[1].time <= s[i].time /\ s[i].time <= s[j].time /\ s[j].time <= s[n].time
  BY <1>6
<1>8. s[1].time \in Nat /\ s[i].time \in Nat /\ s[j].time \in Nat /\ s[n].time \in Nat
  BY <1>1
<1>9. Traces!Elapsed(SubSeq(s, 1, n)) = s[n].time - s[1].time
  BY <1>2, <1>3 DEF events
<1>10. PICK a \in Nat, b \in Nat, c \in Nat, d \in Nat :
         a = s[1].time /\ b = s[i].time /\ c = s[j].time /\ d = s[n].time
  BY <1>8
<1>11. a <= b /\ b <= c /\ c <= d
  BY ONLY <1>7, <1>10
<1>12. c - b \in 0..d - a
  <2>1. c - b \in Int /\ d - a \in Int /\ 0 <= c - b /\ c - b <= d - a
    BY ONLY <1>11
  <2> QED  BY ONLY <2>1
<1> QED
  BY ONLY <1>9, <1>10, <1>12

-----------------------------------------------------------------------------
\* The first identifier that is usable is the one to align at.
LEMMA AlignedOnce ==
  ASSUME Traces!TraceInvariant, state = "align", ~stopped, Traces!Unique # {},
         NEW u, u = CHOOSE w \in Traces!Unique : \A v \in Traces!Unique : w.before <= v.before
  PROVE  /\ u \in [before : DOMAIN before, after : DOMAIN after]
         /\ before[u.before].anchor = after[u.after].anchor
         /\ Traces!Once(before[u.before].anchor)
         /\ \A i \in 1..u.before - 1 : ~Traces!Once(before[i].anchor)
<1> DEFINE ids == {x \in DOMAIN before_map \cap DOMAIN after_map :
                     Traces!Cardinality(before_map[x]) = 1 /\ Traces!Cardinality(after_map[x]) = 1}
           pair(k) == [before |-> Traces!Only(before_map[k]), after |-> Traces!Only(after_map[k])]
<1>1. Len(before) \in Nat /\ Len(after) \in Nat
  BY DEF Traces!TraceInvariant
<1>2. /\ before_map = Traces!anchors(before, Len(before))
      /\ after_map = Traces!anchors(after, Len(after))
  BY DEF Traces!TraceInvariant, Traces!IndexesArePrefixes
<1>3. /\ \A k \in DOMAIN before_map : before_map[k] = Traces!Occurrences(before, k)
      /\ \A k \in DOMAIN after_map : after_map[k] = Traces!Occurrences(after, k)
  BY <1>2 DEF Traces!anchors, Traces!Occurrences
<1>4. /\ DOMAIN before_map = {before[i].anchor : i \in 1..Len(before)} \ {Absent, Blank}
      /\ DOMAIN after_map = {after[i].anchor : i \in 1..Len(after)} \ {Absent, Blank}
  BY <1>2 DEF Traces!anchors
<1>5. \A k : IsFiniteSet(Traces!Occurrences(before, k)) /\ IsFiniteSet(Traces!Occurrences(after, k))
  <2> TAKE k
  <2>1. IsFiniteSet(1..Len(before)) /\ IsFiniteSet(1..Len(after))
    BY <1>1, FS_Interval
  <2> QED  BY <2>1, FS_Subset DEF Traces!Occurrences
<1>6. \A k \in ids : /\ Traces!Once(k)
                     /\ pair(k).before \in 1..Len(before) /\ before[pair(k).before].anchor = k
                     /\ pair(k).after \in 1..Len(after) /\ after[pair(k).after].anchor = k
  <2> TAKE k \in ids
  <2>1. Traces!Once(k)
    BY <1>3, <1>4 DEF Traces!Once
  <2>2. /\ before_map[k] = Traces!Occurrences(before, k) /\ after_map[k] = Traces!Occurrences(after, k)
        /\ Traces!Cardinality(before_map[k]) = 1 /\ Traces!Cardinality(after_map[k]) = 1
    BY <1>3
  <2>3. pair(k).before \in before_map[k] /\ pair(k).after \in after_map[k]
    <3>1. before_map[k] = {Traces!Only(before_map[k])} /\ after_map[k] = {Traces!Only(after_map[k])}
      BY <1>5, <2>2, OnePosition
    <3> QED  BY <3>1
  <2> QED
    BY <2>1, <2>2, <2>3 DEF Traces!Occurrences
<1>7. Traces!Unique = {pair(k) : k \in ids}
  BY DEF Traces!Unique
<1>8. \A v \in Traces!Unique : v.before \in Nat
  BY <1>1, <1>6, <1>7
<1>9. u \in Traces!Unique /\ \A v \in Traces!Unique : u.before <= v.before
  <2> DEFINE places == {v.before : v \in Traces!Unique}
  <2>1. places \subseteq Nat /\ places # {}
    BY <1>8
  <2>2. PICK n \in places : \A m \in places : n <= m
    <3> HIDE DEF places
    <3> QED  BY <2>1, HasLeast
  <2> QED
    BY <2>2
<1>10. PICK k \in ids : u = pair(k)
  BY <1>7, <1>9
<1>11. /\ u.before = pair(k).before /\ u.after = pair(k).after
       /\ u \in [before : DOMAIN before, after : DOMAIN after]
  <2>1. DOMAIN before = 1..Len(before) /\ DOMAIN after = 1..Len(after)
    BY DEF Traces!TraceInvariant
  <2> QED
    BY <1>6, <1>10, <2>1
<1>12. ASSUME NEW i \in 1..u.before - 1
       PROVE  ~Traces!Once(before[i].anchor)
  <2> SUFFICES ASSUME Traces!Once(before[i].anchor)
               PROVE  FALSE
    OBVIOUS
  <2>1. u.before \in 1..Len(before) /\ i \in 1..Len(before) /\ i < u.before
    BY <1>1, <1>6, <1>11
  <2> DEFINE id == before[i].anchor
  <2>2. id \in DOMAIN before_map
    BY <1>4, <2>1 DEF Traces!Once
  <2>3. id \in DOMAIN after_map
    <3>1. Traces!Cardinality(Traces!Occurrences(after, id)) = 1
      BY DEF Traces!Once
    <3>2. Traces!Occurrences(after, id) = {Traces!Only(Traces!Occurrences(after, id))}
      BY <1>5, <3>1, OnePosition
    <3>3. PICK j \in 1..Len(after) : after[j].anchor = id
      BY <3>2 DEF Traces!Occurrences
    <3> QED  BY <1>4, <3>3 DEF Traces!Once
  <2>4. id \in ids
    BY <1>3, <2>2, <2>3 DEF Traces!Once
  <2>5. pair(id).before \in Traces!Occurrences(before, id) /\ i \in Traces!Occurrences(before, id)
    BY <1>6, <2>1, <2>4 DEF Traces!Occurrences
  <2>6. Traces!Occurrences(before, id) = {Traces!Only(Traces!Occurrences(before, id))}
    BY <1>5, OnePosition DEF Traces!Once
  <2>7. pair(id).before = i
    BY <2>5, <2>6
  <2>8. pair(id) \in Traces!Unique
    BY <1>7, <2>4
  <2> QED
    BY <1>9, <2>1, <2>7, <2>8
<1> QED
  BY <1>6, <1>10, <1>11, <1>12

\* Nothing is cut or compared at the start.
LEMMA TraceStarts ==
  Traces!Init => Traces!AlignmentIsRight
<1> SUFFICES ASSUME Traces!Init
             PROVE  Traces!AlignmentIsRight
  OBVIOUS
<1>1. /\ request \in Traces!Requests /\ before = <<>> /\ after = <<>> /\ start = <<>>
      /\ compared = 0 /\ matching = 0 /\ divergence = "none" /\ state = "start"
      /\ interval = <<Traces!Unavailable, Traces!Unavailable>>
  BY DEF Traces!Init
<1>2. /\ before \in Seq(Traces!Events) /\ after \in Seq(Traces!Events)
      /\ Len(before) = 0 /\ Len(after) = 0
  BY <1>1, EmptySeq
<1>3. Traces!TypeOK
  BY <1>1, <1>2 DEF Traces!TypeOK, Traces!Smaller
<1>4. Traces!TraceInvariant
  BY <1>1, <1>2 DEF Traces!TraceInvariant, Traces!IndexesArePrefixes, Traces!ComparedIsEqual
<1>5. Traces!AlignmentIsUnambiguous /\ Traces!DivergenceIsFirst /\ Traces!IntervalsAreElapsed
  BY <1>1 DEF Traces!AlignmentIsUnambiguous, Traces!DivergenceIsFirst, Traces!IntervalsAreElapsed
<1> QED
  BY <1>3, <1>4, <1>5 DEF Traces!AlignmentIsRight

\* The streams are cut to windows and indexed; nothing is aligned yet.
LEMMA TraceBegins ==
  ASSUME Traces!TraceAssumption, Traces!AlignmentIsRight, Traces!Select \/ Traces!Index
  PROVE  Traces!AlignmentIsRight'
<1>1. /\ request' = request /\ start' = start /\ compared' = compared /\ matching' = matching
      /\ divergence' = divergence /\ interval' = interval
      /\ state \in {"start", "index"} /\ state' \in {"index", "align", "invalid"}
  BY DEF Traces!Select, Traces!Index
<1>2. /\ request \in Traces!Requests /\ start = <<>> /\ compared = 0 /\ matching = 0 /\ divergence = "none"
      /\ interval = <<Traces!Unavailable, Traces!Unavailable>>
  <2>1. Traces!TypeOK /\ Traces!TraceInvariant
    BY DEF Traces!AlignmentIsRight
  <2>2. request \in Traces!Requests /\ start = <<>> /\ compared = 0 /\ matching \in Nat
    BY <1>1, <2>1 DEF Traces!TypeOK, Traces!TraceInvariant, Traces!ComparedIsEqual
  <2> QED
    BY <1>1, <2>1, <2>2 DEF Traces!TypeOK, Traces!TraceInvariant
<1>3. before' \in Seq(Traces!Events) /\ after' \in Seq(Traces!Events)
  <2>1. before \in Seq(Traces!Events) /\ after \in Seq(Traces!Events)
    BY DEF Traces!AlignmentIsRight, Traces!TraceInvariant
  <2>2. CASE before' = before /\ after' = after
    BY <2>1, <2>2
  <2>3. CASE ~(before' = before /\ after' = after)
    <3>1. /\ before' = Traces!window(request.before, request.before_offset)
          /\ after' = Traces!window(request.after, request.after_offset)
          /\ ~(request.before_offset > Len(request.before) \/ request.after_offset > Len(request.after))
      BY <2>3 DEF Traces!Select, Traces!Index
    <3>2. /\ request.before \in BeforeStreams /\ request.after \in AfterStreams
          /\ request.before_offset \in Nat /\ request.after_offset \in Nat /\ request.max_events \in Nat
      BY <1>2 DEF Traces!Requests, Traces!TraceAssumption
    <3>3. Len(request.before) \in Nat /\ Len(request.after) \in Nat
      BY <3>2 DEF Traces!TraceAssumption
    <3>4. request.before_offset <= Len(request.before) /\ request.after_offset <= Len(request.after)
      BY <3>1, <3>2, <3>3
    <3>5. Traces!window(request.before, request.before_offset) \in Seq(Traces!Events)
      BY <3>2, <3>4, WindowIsEvents
    <3>6. Traces!window(request.after, request.after_offset) \in Seq(Traces!Events)
      BY <3>2, <3>4, WindowIsEvents
    <3> QED
      BY <3>1, <3>5, <3>6
  <2> QED
    BY <2>2, <2>3
<1>4. Traces!IndexesArePrefixes'
  <2>1. CASE Traces!Select
    BY <2>1 DEF Traces!Select, Traces!IndexesArePrefixes
  <2>2. CASE Traces!Index
    <3>1. PICK n \in 0..Len(before), m \in 0..Len(after) :
            /\ before_map' = Traces!anchors(before, n) /\ after_map' = Traces!anchors(after, m)
            /\ stopped' = (stopped \/ n < Len(before) \/ m < Len(after))
      BY <2>2 DEF Traces!Index
    <3>2. before' = before /\ after' = after
      BY <2>2 DEF Traces!Index
    <3>3. Len(before) \in Nat /\ Len(after) \in Nat
      BY <1>3, <3>2
    <3>4. ~stopped' => ~(n < Len(before)) /\ ~(m < Len(after))
      BY <3>1, Zenon
    <3>5. ~stopped' => n = Len(before) /\ m = Len(after)
      BY <3>3, <3>4
    <3> QED
      BY <3>1, <3>2, <3>5 DEF Traces!IndexesArePrefixes, Traces!anchors
  <2> QED
    BY <2>1, <2>2
<1>5. Traces!TypeOK'
  BY <1>1, <1>2, <1>3 DEF Traces!TypeOK, Traces!Smaller
<1>6. Traces!ComparedIsEqual'
  BY <1>1, <1>2 DEF Traces!ComparedIsEqual
<1>7. Traces!TraceInvariant'
  BY <1>1, <1>2, <1>3, <1>4, <1>6 DEF Traces!TraceInvariant, Traces!Requests, Traces!Unavailable
<1>8. Traces!AlignmentIsUnambiguous' /\ Traces!DivergenceIsFirst' /\ Traces!IntervalsAreElapsed'
  BY <1>1, <1>2 DEF Traces!AlignmentIsUnambiguous, Traces!DivergenceIsFirst, Traces!IntervalsAreElapsed
<1> QED
  BY <1>5, <1>7, <1>8 DEF Traces!AlignmentIsRight

\* Windows are aligned, or nothing can be compared.
LEMMA TraceAligns ==
  ASSUME Traces!AlignmentIsRight, Traces!Align
  PROVE  Traces!AlignmentIsRight'
<1>1. /\ Traces!TypeOK /\ Traces!TraceInvariant /\ state = "align" /\ start = <<>> /\ compared = 0
      /\ before \in Seq(Traces!Events) /\ after \in Seq(Traces!Events)
  <2>1. Traces!TypeOK /\ Traces!TraceInvariant
    BY DEF Traces!AlignmentIsRight
  <2> QED
    BY <2>1 DEF Traces!Align, Traces!TraceInvariant, Traces!ComparedIsEqual
<1>2. matching = 0 /\ divergence = "none" /\ interval = <<Traces!Unavailable, Traces!Unavailable>>
  BY <1>1 DEF Traces!TypeOK, Traces!TraceInvariant
<1>3. /\ before' = before /\ after' = after /\ request' = request /\ compared' = compared
      /\ matching' = matching /\ divergence' = divergence /\ interval' = interval
      /\ state' \in {"compare", "done"}
  BY DEF Traces!Align
<1>4. IF state' = "done" THEN start' = <<>>
      ELSE /\ start' \in [before : DOMAIN before, after : DOMAIN after]
           /\ before[start'.before].anchor = after[start'.after].anchor
           /\ Traces!Once(before[start'.before].anchor)
           /\ \A i \in 1..start'.before - 1 : ~Traces!Once(before[i].anchor)
  <2>1. CASE Traces!Usable = {}
    BY <1>1, <2>1 DEF Traces!Align
  <2>2. CASE Traces!Usable # {}
    <3>1. /\ state' = "compare" /\ start' = CHOOSE u \in Traces!Usable : \A v \in Traces!Usable : u.before <= v.before
      BY <2>2 DEF Traces!Align
    <3>2. Traces!Usable = Traces!Unique /\ ~stopped
      BY <2>2 DEF Traces!Usable
    <3> QED
      BY <1>1, <2>2, <3>1, <3>2, AlignedOnce
  <2> QED
    BY <2>1, <2>2
<1>5. state' = "compare" => start' # <<>>
  BY <1>4, StartIsSome
<1>6. Traces!TypeOK'
  BY <1>1, <1>2, <1>3 DEF Traces!TypeOK
<1>7. Traces!ComparedIsEqual'
  BY <1>1, <1>2, <1>3, <1>4 DEF Traces!ComparedIsEqual
<1>8. Traces!TraceInvariant'
  BY <1>1, <1>2, <1>3, <1>5, <1>7 DEF Traces!TraceInvariant, Traces!Requests, Traces!Unavailable,
      Traces!IndexesArePrefixes
<1>9. Traces!AlignmentIsUnambiguous'
  BY <1>3, <1>4 DEF Traces!AlignmentIsUnambiguous, Traces!Once, Traces!Occurrences
<1>10. Traces!DivergenceIsFirst' /\ Traces!IntervalsAreElapsed'
  BY <1>1, <1>2, <1>3, <1>4 DEF Traces!DivergenceIsFirst, Traces!IntervalsAreElapsed
<1> QED
  BY <1>6, <1>8, <1>9, <1>10 DEF Traces!AlignmentIsRight

\* One pair more is compared.
LEMMA TraceCompares ==
  ASSUME Traces!AlignmentIsRight, Traces!Compare
  PROVE  Traces!AlignmentIsRight'
<1>1. /\ before' = before /\ after' = after /\ request' = request /\ start' = start /\ interval' = interval
      /\ state' = "compare" /\ state = "compare" /\ divergence = "none"
      /\ compared' = compared + 1 /\ divergence' = Traces!Reason(compared + 1)
      /\ matching' = IF divergence' = "none" THEN matching + 1 ELSE matching
  BY DEF Traces!Compare
<1>2. /\ Traces!TypeOK /\ Traces!TraceInvariant /\ Traces!AlignmentIsUnambiguous
      /\ before \in Seq(Traces!Events) /\ after \in Seq(Traces!Events) /\ start # <<>>
      /\ start \in [before : DOMAIN before, after : DOMAIN after]
      /\ matching \in Nat /\ compared \in Nat
  BY <1>1 DEF Traces!AlignmentIsRight, Traces!TraceInvariant, Traces!ComparedIsEqual
<1>3. compared = matching
  BY <1>1, <1>2 DEF Traces!TypeOK
<1>4. Traces!Left' = Traces!Left /\ Traces!Right' = Traces!Right
  BY <1>1 DEF Traces!Left, Traces!Right
<1>5. \A i : (Traces!Reason(i))' = Traces!Reason(i)
  BY <1>4 DEF Traces!Reason
<1>6. CASE divergence' = "none"
  <2>1. matching' = matching + 1 /\ compared' = matching + 1 /\ Traces!Reason(matching + 1) = "none"
    BY <1>1, <1>3, <1>6
  <2>2. matching + 1 <= Len(Traces!Left) /\ matching + 1 <= Len(Traces!Right)
    <3>1. Len(Traces!Left) \in Nat /\ Len(Traces!Right) \in Nat
      BY <1>2, SidesOfTheStart
    <3>2. ~(matching + 1 > Len(Traces!Left) \/ matching + 1 > Len(Traces!Right))
      BY <2>1 DEF Traces!Reason
    <3> QED  BY <1>2, <3>1, <3>2
  <2>3. matching + 1 <= Len(before) /\ matching + 1 <= Len(after)
    <3>1. PICK l \in Nat, r \in Nat : l = Len(Traces!Left) /\ r = Len(Traces!Right)
      BY <1>2, SidesOfTheStart
    <3>2. PICK b \in Nat, a \in Nat : b = Len(before) /\ a = Len(after) /\ l <= b /\ r <= a
      BY <1>2, <3>1, SidesOfTheStart
    <3> QED  BY <1>2, <2>2, <3>1, <3>2
  <2>4. Traces!TypeOK'
    BY <1>1, <1>2, <1>6, <2>1, <2>3 DEF Traces!TypeOK, Traces!Smaller
  <2>5. \A i \in 1..matching + 1 : Traces!Reason(i) = "none"
    <3>1. \A i \in 1..matching : Traces!Reason(i) = "none"
      BY <1>2 DEF Traces!TraceInvariant, Traces!ComparedIsEqual
    <3>2. \A i \in 1..matching + 1 : i \in 1..matching \/ i = matching + 1
      BY <1>2
    <3> QED  BY <2>1, <3>1, <3>2
  <2>6. Traces!ComparedIsEqual'
    BY <1>1, <1>2, <1>5, <1>6, <2>1, <2>5 DEF Traces!ComparedIsEqual
  <2> QED
    BY <1>1, <1>2, <2>1, <2>4, <2>6 DEF Traces!AlignmentIsRight, Traces!TraceInvariant, Traces!Requests,
        Traces!Unavailable, Traces!IndexesArePrefixes, Traces!AlignmentIsUnambiguous, Traces!Once,
        Traces!Occurrences, Traces!DivergenceIsFirst, Traces!IntervalsAreElapsed
<1>7. CASE divergence' # "none"
  <2>1. matching' = matching /\ compared' = matching + 1
    BY <1>1, <1>3, <1>7
  <2>2. Traces!TypeOK'
    BY <1>1, <1>2, <1>7, <2>1 DEF Traces!TypeOK
  <2>3. Traces!ComparedIsEqual'
    BY <1>1, <1>2, <1>5, <2>1 DEF Traces!ComparedIsEqual, Traces!TraceInvariant
  <2> QED
    BY <1>1, <1>2, <2>1, <2>2, <2>3 DEF Traces!AlignmentIsRight, Traces!TraceInvariant, Traces!Requests,
        Traces!Unavailable, Traces!IndexesArePrefixes, Traces!AlignmentIsUnambiguous, Traces!Once,
        Traces!Occurrences, Traces!DivergenceIsFirst, Traces!IntervalsAreElapsed
<1> QED
  BY <1>6, <1>7

\* The comparison ends at the divergence, at the end of both windows or where the control
\* stopped it; elapsed times are those of what matched.
LEMMA TraceEnds ==
  ASSUME Traces!TraceAssumption, Traces!AlignmentIsRight, Traces!Finish
  PROVE  Traces!AlignmentIsRight'
<1>1. /\ before' = before /\ after' = after /\ request' = request /\ start' = start /\ compared' = compared
      /\ matching' = matching /\ divergence' = divergence /\ stopped' = stopped
      /\ state = "compare" /\ state' = "done"
      /\ stopped \/ ~Traces!More \/ divergence # "none"
      /\ interval' = IF matching = 0 THEN <<Traces!Unavailable, Traces!Unavailable>>
                     ELSE <<Traces!Elapsed(SubSeq(Traces!Left, 1, matching)),
                            Traces!Elapsed(SubSeq(Traces!Right, 1, matching))>>
  BY DEF Traces!Finish
<1>2. /\ Traces!TypeOK /\ Traces!TraceInvariant /\ Traces!AlignmentIsUnambiguous
      /\ before \in Seq(Traces!Events) /\ after \in Seq(Traces!Events) /\ start # <<>>
      /\ start \in [before : DOMAIN before, after : DOMAIN after]
      /\ \A i \in 1..matching : Traces!Reason(i) = "none"
      /\ divergence # "none" => divergence = Traces!Reason(compared)
      /\ matching \in Nat /\ compared \in Nat
  BY <1>1 DEF Traces!AlignmentIsRight, Traces!TraceInvariant, Traces!ComparedIsEqual
<1>3. Traces!Left' = Traces!Left /\ Traces!Right' = Traces!Right
  BY <1>1 DEF Traces!Left, Traces!Right
<1>4. /\ Traces!Left \in Seq(Traces!Events) /\ Traces!Right \in Seq(Traces!Events)
      /\ Len(Traces!Left) \in Nat /\ Len(Traces!Right) \in Nat
  BY <1>2, SidesOfTheStart
<1>5. \A i \in Nat : Traces!Reason(i) = "none" <=>
        i <= Len(Traces!Left) /\ i <= Len(Traces!Right)
        /\ Traces!Left[i].kind = Traces!Right[i].kind /\ Traces!Left[i].anchor = Traces!Right[i].anchor
  BY <1>4 DEF Traces!Reason
<1>6. Traces!TypeOK' /\ Traces!TraceInvariant'
  <2>1. Traces!TypeOK'
    BY <1>1, <1>2 DEF Traces!TypeOK
  <2>2. Traces!ComparedIsEqual'
    BY <1>1, <1>2, <1>3 DEF Traces!ComparedIsEqual, Traces!Reason
  <2> QED
    BY <1>1, <1>2, <2>1, <2>2 DEF Traces!TraceInvariant, Traces!Requests, Traces!IndexesArePrefixes
<1>7. Traces!AlignmentIsUnambiguous'
  BY <1>1, <1>2 DEF Traces!AlignmentIsUnambiguous, Traces!Once, Traces!Occurrences
<1>8. matching <= Len(Traces!Left) /\ matching <= Len(Traces!Right)
  <2>1. CASE matching = 0
    BY <1>4, <2>1
  <2>2. CASE matching # 0
    <3>1. matching \in 1..matching /\ matching \in Nat
      BY <1>2, <2>2
    <3> QED  BY <1>2, <1>5, <3>1
  <2> QED
    BY <2>1, <2>2
<1>9. Traces!DivergenceIsFirst'
  <2>1. \A i \in 1..matching : Traces!Left[i].kind = Traces!Right[i].kind
                             /\ Traces!Left[i].anchor = Traces!Right[i].anchor
    <3>1. \A i \in 1..matching : i \in Nat
      OBVIOUS
    <3> QED  BY <1>2, <1>5, <3>1
  <2>2. divergence # "none" =>
          ~(/\ matching < Len(Traces!Left) /\ matching < Len(Traces!Right)
            /\ Traces!Left[matching + 1].kind = Traces!Right[matching + 1].kind
            /\ Traces!Left[matching + 1].anchor = Traces!Right[matching + 1].anchor)
    <3> HAVE divergence # "none"
    <3>1. compared = matching + 1 /\ Traces!Reason(matching + 1) # "none" /\ matching + 1 \in Nat
      BY <1>2 DEF Traces!TypeOK
    <3>2. ~(/\ matching + 1 <= Len(Traces!Left) /\ matching + 1 <= Len(Traces!Right)
            /\ Traces!Left[matching + 1].kind = Traces!Right[matching + 1].kind
            /\ Traces!Left[matching + 1].anchor = Traces!Right[matching + 1].anchor)
      BY <1>5, <3>1
    <3>3. matching < Len(Traces!Left) /\ matching < Len(Traces!Right) =>
            matching + 1 <= Len(Traces!Left) /\ matching + 1 <= Len(Traces!Right)
      BY <1>2, <1>4
    <3> QED
      BY <3>2, <3>3
  <2>3. divergence = "none" /\ ~stopped => matching = Len(Traces!Left) /\ matching = Len(Traces!Right)
    <3> HAVE divergence = "none" /\ ~stopped
    <3>1. ~Traces!More /\ compared = matching
      BY <1>1, <1>2 DEF Traces!TypeOK
    <3> QED  BY <1>2, <1>4, <1>8, <3>1 DEF Traces!More
  <2> QED
    BY <1>1, <1>3, <2>1, <2>2, <2>3 DEF Traces!DivergenceIsFirst
<1>10. Traces!IntervalsAreElapsed'
  <2> SUFFICES ASSUME NEW side \in {1, 2}, interval'[side] # Traces!Unavailable,
                      NEW i \in 1..matching, NEW j \in 1..matching, i <= j,
                      NEW events, events = IF side = 1 THEN Traces!Left ELSE Traces!Right
               PROVE  events[j].time - events[i].time \in 0..interval'[side]
    BY <1>1, <1>3 DEF Traces!IntervalsAreElapsed, Traces!Unavailable
  <2>1. matching # 0 /\ matching \in 1..Len(Traces!Left) /\ matching \in 1..Len(Traces!Right)
    BY <1>2, <1>4, <1>8
  <2>2. interval'[side] = Traces!Elapsed(SubSeq(events, 1, matching)) /\ events \in Seq(Traces!Events)
    BY <1>1, <1>4, <2>1
  <2>3. matching \in 1..Len(events)
    BY <2>1
  <2> QED
    BY <2>2, <2>3, ElapsedIsWhole
<1> QED
  BY <1>6, <1>7, <1>9, <1>10 DEF Traces!AlignmentIsRight

\* Streams are aligned where nothing else could be meant, the divergence is the first, and
\* intervals are elapsed times (compare_trace_windows), whenever the control stops it.
THEOREM AlignmentIsRightHolds ==
  Traces!TraceAssumption => (Traces!Spec => []Traces!AlignmentIsRight)
<1> SUFFICES ASSUME Traces!TraceAssumption
             PROVE  Traces!Spec => []Traces!AlignmentIsRight
  OBVIOUS
<1>1. Traces!AlignmentIsRight /\ [Traces!Next]_(Traces!vars) => Traces!AlignmentIsRight'
  <2> SUFFICES ASSUME Traces!AlignmentIsRight, [Traces!Next]_(Traces!vars)
               PROVE  Traces!AlignmentIsRight'
    OBVIOUS
  <2>1. CASE Traces!Stop \/ UNCHANGED Traces!vars
    <3>1. /\ before' = before /\ after' = after /\ request' = request /\ start' = start
          /\ compared' = compared /\ matching' = matching /\ divergence' = divergence
          /\ interval' = interval /\ before_map' = before_map /\ after_map' = after_map
          /\ state' = state
          /\ state = "done" \/ ~stopped' => stopped' = stopped
      BY <2>1 DEF Traces!Stop, Traces!vars
    <3>2. Traces!Left' = Traces!Left /\ Traces!Right' = Traces!Right
      BY <3>1 DEF Traces!Left, Traces!Right
    <3>3. Traces!TypeOK'
      BY <3>1 DEF Traces!AlignmentIsRight, Traces!TypeOK
    <3>4. Traces!IndexesArePrefixes'
      <4> SUFFICES ASSUME state = "align"
                   PROVE  Traces!IndexesArePrefixes'
        BY <3>1 DEF Traces!IndexesArePrefixes
      <4>1. PICK n \in 0..Len(before), m \in 0..Len(after) :
              /\ before_map = Traces!anchors(before, n) /\ after_map = Traces!anchors(after, m)
              /\ ~stopped => n = Len(before) /\ m = Len(after)
        BY DEF Traces!AlignmentIsRight, Traces!TraceInvariant, Traces!IndexesArePrefixes
      <4>2. ~stopped' => ~stopped
        BY <3>1
      <4> QED
        BY <3>1, <4>1, <4>2, Zenon DEF Traces!IndexesArePrefixes, Traces!anchors
    <3>5. Traces!ComparedIsEqual'
      BY <3>1, <3>2 DEF Traces!AlignmentIsRight, Traces!TraceInvariant, Traces!ComparedIsEqual, Traces!Reason
    <3>6. Traces!TraceInvariant'
      BY <3>1, <3>4, <3>5 DEF Traces!AlignmentIsRight, Traces!TraceInvariant, Traces!Requests,
          Traces!Unavailable
    <3>7. Traces!AlignmentIsUnambiguous'
      BY <3>1 DEF Traces!AlignmentIsRight, Traces!AlignmentIsUnambiguous, Traces!Once, Traces!Occurrences
    <3>8. Traces!DivergenceIsFirst'
      BY <3>1, <3>2 DEF Traces!AlignmentIsRight, Traces!DivergenceIsFirst
    <3>9. Traces!IntervalsAreElapsed'
      BY <3>1, <3>2 DEF Traces!AlignmentIsRight, Traces!IntervalsAreElapsed, Traces!Unavailable
    <3> QED
      BY <3>3, <3>6, <3>7, <3>8, <3>9 DEF Traces!AlignmentIsRight
  <2> QED
    BY <2>1, TraceBegins, TraceAligns, TraceCompares, TraceEnds DEF Traces!Next
<1> QED
  BY <1>1, TraceStarts, PTL DEF Traces!Spec

-----------------------------------------------------------------------------
(* The complexity of a body.                                               *)

\* An instance counts as this module does.
LEMMA BodyCounts ==
  /\ \A S : Body!IsFiniteSet(S) <=> IsFiniteSet(S)
  /\ \A S : Body!Cardinality(S) = Cardinality(S)
<1>1. \A S : Body!IsFiniteSet(S) <=> IsFiniteSet(S)
  BY DEF Body!IsFiniteSet, IsFiniteSet
<1>2. \A S : Body!Cardinality(S) = Cardinality(S)
  BY DEF Body!Cardinality, Cardinality
<1> QED
  BY <1>1, <1>2

\* Every terminator is one of those considered.
LEMMA BlocksOfBody ==
  ASSUME Body!ComplexityAssumption, term \in Body!Bodies
  PROVE  /\ IsFiniteSet(Body!Blocks) /\ Body!Blocks \subseteq Nat
         /\ \A b \in Body!Blocks :
              /\ IsFiniteSet(DOMAIN term[b].edges) /\ IsFiniteSet(Body!RuntimeEdges(b))
              /\ term[b].unwind = NoUnwind \/ term[b].unwind.kind \in {"continue", "unreachable", "terminate", "cleanup"}
<1>1. IsFiniteSet(Body!Blocks) /\ Body!Blocks \subseteq Nat
  BY BodyCounts DEF Body!ComplexityAssumption
<1>2. ASSUME NEW b \in Body!Blocks
      PROVE  /\ IsFiniteSet(DOMAIN term[b].edges) /\ IsFiniteSet(Body!RuntimeEdges(b))
             /\ term[b].unwind = NoUnwind \/ term[b].unwind.kind \in {"continue", "unreachable", "terminate", "cleanup"}
  <2>1. term[b] \in Terminators[b]
    BY DEF Body!Bodies
  <2>2. /\ IsFiniteSet(DOMAIN term[b].edges)
        /\ term[b].unwind = NoUnwind \/ term[b].unwind.kind \in {"continue", "unreachable", "terminate", "cleanup"}
    BY <2>1, BodyCounts DEF Body!ComplexityAssumption
  <2>3. Body!RuntimeEdges(b) \subseteq DOMAIN term[b].edges
    BY DEF Body!RuntimeEdges
  <2> QED
    BY <2>2, <2>3, FS_Subset
<1> QED
  BY <1>1, <1>2

\* The ways to go on are the edges that can run, and one more where the function is left.
LEMMA WaysAreCounted ==
  ASSUME Body!ComplexityAssumption, term \in Body!Bodies, NEW b \in Body!Blocks
  PROVE  /\ Body!SuccessorsOf(b) = Cardinality(Body!RuntimeEdges(b)) /\ Body!SuccessorsOf(b) \in Nat
         /\ Body!WaysOn(b) = Body!SuccessorsOf(b) + (IF Body!Exits(b) THEN 1 ELSE 0)
         /\ Body!WaysOn(b) \in Nat \ {0}
<1>1. /\ IsFiniteSet(Body!RuntimeEdges(b))
      /\ term[b].unwind = NoUnwind \/ term[b].unwind.kind \in {"continue", "unreachable", "terminate", "cleanup"}
  BY BlocksOfBody
<1>2. /\ Body!SuccessorsOf(b) = Cardinality(Body!RuntimeEdges(b)) /\ Body!SuccessorsOf(b) \in Nat
  BY <1>1, FS_CardinalityType, BodyCounts DEF Body!SuccessorsOf
<1> DEFINE left == Body!RuntimeEdges(b) = {} \/ (/\ term[b].unwind # NoUnwind /\ term[b].kind # "false_unwind"
                              /\ term[b].unwind.kind \notin {"cleanup", "unreachable"})
<1>3. Body!Exits(b) <=> left
  <2>1. term[b].unwind # NoUnwind =>
          (term[b].unwind.kind \in {"continue", "terminate"} <=> term[b].unwind.kind \notin {"cleanup", "unreachable"})
    BY <1>1
  <2> QED
    BY <2>1, Zenon DEF Body!Exits
<1>4. Body!WaysOn(b) = Body!SuccessorsOf(b) + (IF left THEN 1 ELSE 0)
  BY <1>2, BodyCounts DEF Body!WaysOn
<1>5. left \/ Body!SuccessorsOf(b) # 0
  BY <1>1, <1>2, FS_EmptySet
<1> HIDE DEF left
<1> QED
  BY <1>2, <1>3, <1>4, <1>5

\* The choices of a block: one for each way beyond the first.
LEMMA OwnChoices ==
  ASSUME Body!ComplexityAssumption, term \in Body!Bodies, NEW b \in Body!Blocks
  PROVE  /\ IsFiniteSet({b} \X (2..Body!WaysOn(b)))
         /\ Cardinality({b} \X (2..Body!WaysOn(b))) = Body!WaysOn(b) - 1
<1> DEFINE n == Body!WaysOn(b)
<1>1. n \in Nat \ {0}
  BY WaysAreCounted
<1> HIDE DEF n
<1>2. IsFiniteSet(2..n) /\ Cardinality(2..n) = n - 1
  <2>1. 2 \in Int /\ n \in Int
    BY ONLY <1>1
  <2>2. /\ IsFiniteSet(2..n)
        /\ Cardinality(2..n) = IF 2 > n THEN 0 ELSE n - 2 + 1
    BY ONLY <2>1, FS_Interval
  <2> QED  BY <1>1, <2>2
<1>3. IsFiniteSet({b}) /\ Cardinality({b}) = 1
  BY FS_Singleton
<1>4. IsFiniteSet({b} \X (2..n)) /\ Cardinality({b} \X (2..n)) = 1 * (n - 1)
  <2>1. PICK own, ways : own = {b} /\ ways = 2..n
    OBVIOUS
  <2>2. IsFiniteSet(own) /\ Cardinality(own) = 1 /\ IsFiniteSet(ways) /\ Cardinality(ways) = n - 1
    BY <1>2, <1>3, <2>1
  <2>3. IsFiniteSet(own \X ways) /\ Cardinality(own \X ways) = Cardinality(own) * Cardinality(ways)
    BY ONLY <2>2, FS_Product
  <2> QED  BY <2>1, <2>2, <2>3
<1> QED
  BY <1>1, <1>4 DEF n

\* The choices of some blocks are finitely many.
LEMMA ChoicesAreFinite ==
  ASSUME Body!ComplexityAssumption, term \in Body!Bodies, NEW S \in SUBSET Body!Blocks
  PROVE  IsFiniteSet(Body!ChoicesOf(S)) /\ Cardinality(Body!ChoicesOf(S)) \in Nat
<1> DEFINE own(x) == {x} \X (2..Body!WaysOn(x))
           all == {own(x) : x \in S}
           f == [x \in S |-> own(x)]
<1>1. \A T \in all : \E x \in S : T = f[x]
  OBVIOUS
<1>2. IsFiniteSet(S)
  BY BlocksOfBody, FS_Subset
<1>3. \A T \in all : IsFiniteSet(T)
  BY OwnChoices
<1>4. Body!ChoicesOf(S) = UNION all
  BY DEF Body!ChoicesOf
<1> HIDE DEF all, f
<1>5. IsFiniteSet(all)
  BY <1>1, <1>2, ValuesAreFinite
<1>6. IsFiniteSet(UNION all)
  BY <1>3, <1>5, FS_UNION
<1> QED
  BY <1>4, <1>6, FS_CardinalityType

\* The choices of one block more are as many more as it has ways beyond the first.
LEMMA ChoicesAdd ==
  ASSUME Body!ComplexityAssumption, term \in Body!Bodies,
         NEW S \in SUBSET Body!Blocks, NEW b \in Body!Blocks \ S
  PROVE  /\ Cardinality(Body!ChoicesOf(S)) \in Nat
         /\ Cardinality(Body!ChoicesOf(S \cup {b})) = Cardinality(Body!ChoicesOf(S)) + Body!WaysOn(b) - 1
<1> DEFINE own == {b} \X (2..Body!WaysOn(b))
           U == Body!ChoicesOf(S)
<1>1. Body!ChoicesOf(S \cup {b}) = U \cup own
  BY DEF Body!ChoicesOf
<1>2. U \cap own = {}
  BY DEF Body!ChoicesOf
<1>3. IsFiniteSet(own) /\ Cardinality(own) = Body!WaysOn(b) - 1 /\ Body!WaysOn(b) \in Nat
  BY OwnChoices, WaysAreCounted
<1>4. IsFiniteSet(U) /\ Cardinality(U) \in Nat
  BY ChoicesAreFinite
<1> HIDE DEF U, own
<1>5. Cardinality(U \cup own) = Cardinality(U) + Cardinality(own) - Cardinality(U \cap own)
  BY <1>3, <1>4, FS_Union
<1>6. Cardinality(U \cap own) = 0
  BY <1>2, FS_EmptySet
<1>7. Cardinality(U \cup own) = Cardinality(U) + Body!WaysOn(b) - 1
  BY <1>3, <1>4, <1>5, <1>6
<1> QED
  BY <1>1, <1>4, <1>7 DEF U

\* What is said of a body depends on its terminators only, which no step changes.
LEMMA BodyStays ==
  ASSUME term' = term
  PROVE  /\ Body!AllRunnable' = Body!AllRunnable /\ Body!Graph' = Body!Graph /\ Body!Closed' = Body!Closed
         /\ \A b : /\ (Body!Successors(b))' = Body!Successors(b) /\ (Body!Exits(b))' = Body!Exits(b)
                  /\ (Body!WaysOn(b))' = Body!WaysOn(b) /\ (Body!RuntimeEdges(b))' = Body!RuntimeEdges(b)
         /\ \A S : (Body!ChoicesOf(S))' = Body!ChoicesOf(S)
<1>1. \A b : (Body!RuntimeEdges(b))' = Body!RuntimeEdges(b)
  BY DEF Body!RuntimeEdges
<1>2. \A b : (Body!Successors(b))' = Body!Successors(b)
  BY <1>1 DEF Body!Successors
<1>3. \A b : (Body!Exits(b))' = Body!Exits(b)
  BY <1>1 DEF Body!Exits
<1>4. \A b : (Body!WaysOn(b))' = Body!WaysOn(b)
  BY <1>1 DEF Body!WaysOn
<1>5. \A S : (Body!ChoicesOf(S))' = Body!ChoicesOf(S)
  BY <1>4 DEF Body!ChoicesOf
<1>6. Body!AllRunnable' = Body!AllRunnable
  BY <1>2 DEF Body!AllRunnable, Body!Blocks
<1>7. Body!Graph' = Body!Graph
  BY <1>1 DEF Body!Graph, Body!Blocks
<1>8. Body!Closed' = Body!Closed
  BY DEF Body!Closed, Body!Blocks
<1> QED
  BY <1>1, <1>2, <1>3, <1>4, <1>5, <1>6, <1>7, <1>8

\* What runs leads to what runs.
LEMMA RunnableGoesOn ==
  ASSUME NEW b \in Body!AllRunnable, NEW t \in Body!Successors(b), t \in Body!Blocks
  PROVE  t \in Body!AllRunnable
BY DEF Body!AllRunnable

\* A search that is over has reached what runs, and nothing else.
LEMMA SearchFinds ==
  ASSUME Body!TypeOK, Body!SearchIsOfTheBody, state = "count"
  PROVE  reached = Body!AllRunnable
<1>1. /\ 0 \in reached /\ reached \subseteq Body!AllRunnable /\ reached \in SUBSET Body!Blocks
      /\ \A b \in reached : Body!Successors(b) \subseteq reached
  BY DEF Body!TypeOK, Body!SearchIsOfTheBody
<1>2. \A b \in Body!AllRunnable : b \in reached
  BY <1>1 DEF Body!AllRunnable
<1> QED
  BY <1>1, <1>2

\* One block of the search.
LEMMA BodySearches ==
  ASSUME Body!TypeOK, Body!ComplexityInvariant, Body!Search
  PROVE  Body!TypeOK' /\ Body!ComplexityInvariant' /\ metrics' = <<>>
<1>1. /\ term' = term /\ max_edges' = max_edges /\ graph' = graph /\ counted' = counted
      /\ runtime_edges' = runtime_edges /\ exit_sites' = exit_sites /\ metrics' = metrics
      /\ state' = state /\ state = "search"
  BY DEF Body!Search, Body!input, Body!counts
<1>2. PICK b \in stack :
        /\ reached' = reached \cup {b}
        /\ stack' = (stack \cup {e[3] : e \in {x \in graph : x[1] = b}}) \ reached'
  BY DEF Body!Search
<1>3. /\ 0 \in reached \cup stack /\ Body!Closed /\ graph = Body!Graph
      /\ reached \cup stack \subseteq Body!AllRunnable
      /\ \A c \in reached : Body!Successors(c) \subseteq reached \cup stack
      /\ b \in Body!Blocks /\ metrics = <<>>
  BY <1>1, <1>2 DEF Body!TypeOK, Body!ComplexityInvariant, Body!SearchIsOfTheBody
<1>4. {e[3] : e \in {x \in graph : x[1] = b}} = Body!Successors(b)
  <2>1. \A x : x \in graph <=> \E c \in Body!Blocks : \E i \in Body!RuntimeEdges(c) : x = <<c, i, term[c].edges[i].target>>
    BY <1>3 DEF Body!Graph
  <2>2. \A x \in graph : x[1] = b => \E i \in Body!RuntimeEdges(b) : x[3] = term[b].edges[i].target
    BY <2>1
  <2>3. \A i \in Body!RuntimeEdges(b) : \E x \in graph : x[1] = b /\ x[3] = term[b].edges[i].target
    <3> TAKE i \in Body!RuntimeEdges(b)
    <3>1. <<b, i, term[b].edges[i].target>> \in graph
      BY <1>3, <2>1
    <3> QED  BY <3>1
  <2> QED
    BY <2>2, <2>3 DEF Body!Successors
<1>5. Body!Successors(b) \subseteq Body!Blocks
  BY <1>3 DEF Body!Closed, Body!Successors, Body!RuntimeEdges
<1>6. Body!Successors(b) \subseteq Body!AllRunnable
  BY <1>2, <1>3, <1>5, RunnableGoesOn
<1>7. stack' = (stack \cup Body!Successors(b)) \ reached'
  BY <1>2, <1>4
<1>8. Body!TypeOK'
  BY <1>1, <1>2, <1>3, <1>5, <1>7 DEF Body!TypeOK, Body!Blocks
<1>9. Body!SearchIsOfTheBody'
  <2>1. reached' \cup stack' = reached \cup stack \cup Body!Successors(b)
    BY <1>2, <1>7
  <2>2. \A c \in reached' : Body!Successors(c) \subseteq reached' \cup stack'
    BY <1>2, <1>3, <2>1
  <2> QED
    BY <1>1, <1>3, <1>6, <2>1, <2>2, BodyStays DEF Body!SearchIsOfTheBody
<1>10. Body!CountsAreOfBlocks'
  BY <1>1, BodyStays DEF Body!ComplexityInvariant, Body!CountsAreOfBlocks
<1> QED
  BY <1>1, <1>3, <1>8, <1>9, <1>10 DEF Body!ComplexityInvariant, Body!Bodies, Body!Blocks

\* One block is counted.
LEMMA BodyCountsBlock ==
  ASSUME Body!ComplexityAssumption, Body!TypeOK, Body!ComplexityInvariant, Body!CountBlock
  PROVE  Body!TypeOK' /\ Body!ComplexityInvariant' /\ metrics' = <<>>
<1>1. /\ term' = term /\ max_edges' = max_edges /\ graph' = graph /\ reached' = reached
      /\ stack' = stack /\ metrics' = metrics /\ state' = state /\ state = "count" /\ counted # reached
  BY DEF Body!CountBlock, Body!input
<1>2. PICK b : /\ b = CHOOSE x \in reached \ counted : \A y \in reached \ counted : x <= y
               /\ counted' = counted \cup {b}
               /\ runtime_edges' = runtime_edges + Body!SuccessorsOf(b)
               /\ exit_sites' = IF Body!Exits(b) THEN exit_sites \cup {b} ELSE exit_sites
  BY DEF Body!CountBlock
<1>3. /\ term \in Body!Bodies /\ reached \subseteq Body!Blocks /\ counted \subseteq reached
      /\ exit_sites = {c \in counted : Body!Exits(c)} /\ runtime_edges \in Nat /\ metrics = <<>>
      /\ runtime_edges + Cardinality(exit_sites) = Cardinality(counted) + Cardinality(Body!ChoicesOf(counted))
  BY <1>1, BodyCounts DEF Body!TypeOK, Body!ComplexityInvariant, Body!CountsAreOfBlocks
<1>4. b \in reached \ counted
  <2>1. reached \ counted # {} /\ reached \ counted \subseteq Nat
    BY <1>1, <1>3, BlocksOfBody
  <2> QED
    BY <1>2, <2>1, HasLeast
<1>5. IsFiniteSet(counted) /\ IsFiniteSet(exit_sites)
  <2>1. IsFiniteSet(Body!Blocks) /\ counted \subseteq Body!Blocks /\ exit_sites \subseteq Body!Blocks
    BY <1>3, BlocksOfBody
  <2> QED  BY <2>1, FS_Subset
<1>6. exit_sites' = {c \in counted' : Body!Exits(c)}
  BY <1>2, <1>3, <1>4
<1>7. /\ Cardinality(exit_sites') = Cardinality(exit_sites) + (IF Body!Exits(b) THEN 1 ELSE 0)
      /\ Cardinality(counted') = Cardinality(counted) + 1
      /\ Cardinality(exit_sites) \in Nat /\ Cardinality(counted) \in Nat
  <2>1. Cardinality(exit_sites) \in Nat /\ Cardinality(counted) \in Nat
    BY <1>5, FS_CardinalityType
  <2>2. Cardinality(counted \cup {b}) = Cardinality(counted) + 1
    BY <1>4, <1>5, FS_AddElement
  <2>3. Cardinality(exit_sites \cup {b}) = Cardinality(exit_sites) + 1
    BY <1>3, <1>4, <1>5, FS_AddElement
  <2> QED
    BY <1>2, <2>1, <2>2, <2>3
<1>8. /\ Cardinality(Body!ChoicesOf(counted)) \in Nat
      /\ Cardinality(Body!ChoicesOf(counted')) = Cardinality(Body!ChoicesOf(counted)) + Body!WaysOn(b) - 1
  <2>1. counted \in SUBSET Body!Blocks /\ b \in Body!Blocks \ counted
    BY <1>3, <1>4
  <2> QED
    BY <1>2, <1>3, <2>1, ChoicesAdd
<1>9. /\ Body!WaysOn(b) = Body!SuccessorsOf(b) + (IF Body!Exits(b) THEN 1 ELSE 0)
      /\ Body!SuccessorsOf(b) \in Nat /\ Body!WaysOn(b) \in Nat
  BY <1>3, <1>4, WaysAreCounted
<1>10. /\ runtime_edges' \in Nat
       /\ runtime_edges' + Cardinality(exit_sites') = Cardinality(counted') + Cardinality(Body!ChoicesOf(counted'))
  <2> DEFINE one == IF Body!Exits(b) THEN 1 ELSE 0
  <2>1. one \in Nat
    OBVIOUS
  <2> HIDE DEF one
  <2>2. /\ Cardinality(exit_sites') = Cardinality(exit_sites) + one
        /\ Body!WaysOn(b) = Body!SuccessorsOf(b) + one
    BY <1>7, <1>9 DEF one
  <2>3. PICK r, e, c, h, k, w \in Nat :
          /\ r = runtime_edges /\ e = Cardinality(exit_sites) /\ c = Cardinality(counted)
          /\ h = Cardinality(Body!ChoicesOf(counted)) /\ k = Body!SuccessorsOf(b) /\ w = Body!WaysOn(b)
    BY <1>3, <1>7, <1>8, <1>9
  <2>4. r + e = c + h /\ w = k + one
    BY <1>3, <2>2, <2>3
  <2>5. r + k \in Nat /\ (r + k) + (e + one) = (c + 1) + (h + w - 1)
    BY <2>1, <2>3, <2>4
  <2> QED
    BY <1>2, <1>7, <1>8, <2>2, <2>3, <2>5
<1>11. Body!CountsAreOfBlocks'
  <2>1. (Body!ChoicesOf(counted))' = Body!ChoicesOf(counted')
    BY <1>1, BodyStays DEF Body!ChoicesOf, Body!WaysOn, Body!RuntimeEdges
  <2>2. exit_sites' = {c \in counted' : (Body!Exits(c))'}
    BY <1>1, <1>6, BodyStays
  <2> QED
    BY <1>10, <2>1, <2>2, BodyCounts DEF Body!CountsAreOfBlocks
<1>12. Body!TypeOK'
  BY <1>1, <1>2, <1>3, <1>4, <1>6 DEF Body!TypeOK, Body!Blocks
<1>13. Body!SearchIsOfTheBody'
  BY <1>1, BodyStays DEF Body!ComplexityInvariant, Body!SearchIsOfTheBody
<1> QED
  BY <1>1, <1>3, <1>11, <1>12, <1>13 DEF Body!ComplexityInvariant, Body!Bodies, Body!Blocks

\* Nothing is counted at first.
LEMMA BodyStarts ==
  ASSUME Body!Init
  PROVE  Body!TypeOK /\ Body!ComplexityInvariant /\ metrics = <<>>
<1>1. /\ term \in Body!Bodies /\ max_edges \in EdgeLimits /\ stack = {} /\ reached = {} /\ counted = {}
      /\ runtime_edges = 0 /\ exit_sites = {} /\ metrics = <<>> /\ state = "start"
  BY DEF Body!Init
<1>2. Body!ChoicesOf(counted) = {} /\ {b \in counted : Body!Exits(b)} = {}
  BY <1>1 DEF Body!ChoicesOf
<1>3. Cardinality({}) = 0
  BY FS_EmptySet
<1>4. Body!CountsAreOfBlocks
  <2>1. Cardinality(exit_sites) = 0 /\ Cardinality(counted) = 0 /\ Cardinality(Body!ChoicesOf(counted)) = 0
    BY <1>1, <1>2, <1>3
  <2>2. runtime_edges \in Nat /\ runtime_edges + 0 = 0 + 0
    BY <1>1
  <2> QED
    BY <1>1, <1>2, <2>1, <2>2, BodyCounts DEF Body!CountsAreOfBlocks
<1>5. Body!TypeOK
  BY <1>1 DEF Body!TypeOK
<1> QED
  BY <1>1, <1>4, <1>5 DEF Body!ComplexityInvariant, Body!SearchIsOfTheBody

\* The search starts at the entry of a closed body.
LEMMA BodyValidates ==
  ASSUME Body!TypeOK, Body!ComplexityInvariant, Body!Validate
  PROVE  Body!TypeOK' /\ Body!ComplexityInvariant' /\ metrics' = <<>>
<1>1. /\ term' = term /\ max_edges' = max_edges /\ reached' = reached /\ counted' = counted
      /\ runtime_edges' = runtime_edges /\ exit_sites' = exit_sites /\ metrics' = metrics /\ state = "start"
  BY DEF Body!Validate, Body!input, Body!counts
<1>2. /\ metrics = <<>> /\ term \in Body!Bodies /\ max_edges \in EdgeLimits /\ Body!CountsAreOfBlocks
  BY <1>1 DEF Body!ComplexityInvariant
<1>3. Body!CountsAreOfBlocks'
  BY <1>1, <1>2, BodyStays DEF Body!CountsAreOfBlocks
<1>4. \/ stack' = stack /\ state' \in {"done", "invalid"}
      \/ /\ 0 \in Body!Blocks /\ Body!Closed /\ graph' = Body!Graph /\ stack' = {0} /\ state' = "search"
  BY DEF Body!Validate
<1>5. Body!TypeOK'
  BY <1>1, <1>2, <1>4 DEF Body!TypeOK, Body!Blocks
<1>6. Body!SearchIsOfTheBody'
  <2>1. CASE state' = "search"
    <3>1. 0 \in Body!Blocks /\ Body!Closed /\ graph' = Body!Graph /\ stack' = {0}
      BY <1>4, <2>1
    <3>2. 0 \in Body!AllRunnable
      BY <3>1 DEF Body!AllRunnable
    <3>3. reached = {}
      BY <1>1 DEF Body!ComplexityInvariant
    <3> QED
      BY <1>1, <2>1, <3>1, <3>2, <3>3, BodyStays DEF Body!SearchIsOfTheBody
  <2>2. CASE state' \in {"done", "invalid"}
    BY <2>2 DEF Body!SearchIsOfTheBody
  <2> QED
    BY <1>4, <2>1, <2>2
<1> QED
  BY <1>1, <1>2, <1>3, <1>5, <1>6 DEF Body!ComplexityInvariant, Body!Bodies, Body!Blocks

\* A value that is published is that of the whole body.
LEMMA BodyIsPublished ==
  ASSUME Body!ComplexityAssumption, Body!TypeOK, Body!ComplexityInvariant, Body!Publish
  PROVE  /\ Body!TypeOK' /\ Body!ComplexityInvariant'
         /\ Body!ValueCountsChoices' /\ Body!ValueIsOfTheWholeBody'
<1>1. /\ term' = term /\ max_edges' = max_edges /\ reached' = reached /\ counted' = counted
      /\ graph' = graph /\ stack' = stack /\ stopped' = stopped /\ ~stopped
      /\ runtime_edges' = runtime_edges /\ exit_sites' = exit_sites
      /\ state = "count" /\ state' = "done" /\ counted = reached
  BY DEF Body!Publish, Body!input, Body!counts
<1>2. /\ term \in Body!Bodies /\ max_edges \in EdgeLimits /\ metrics = <<>> /\ EdgeLimits \subseteq Nat
      /\ reached \subseteq Body!Blocks
      /\ exit_sites = {c \in reached : Body!Exits(c)} /\ runtime_edges \in Nat
      /\ runtime_edges + Cardinality(exit_sites) = Cardinality(reached) + Cardinality(Body!ChoicesOf(reached))
  BY <1>1, BodyCounts
  DEF Body!TypeOK, Body!ComplexityInvariant, Body!CountsAreOfBlocks, Body!ComplexityAssumption
<1>3. reached = Body!AllRunnable
  BY <1>1, SearchFinds DEF Body!ComplexityInvariant
<1>4. Cardinality(reached) \in Nat /\ Cardinality(exit_sites) \in Nat
  <2>1. IsFiniteSet(Body!Blocks) /\ exit_sites \subseteq Body!Blocks
    BY <1>2, BlocksOfBody
  <2>2. IsFiniteSet(reached) /\ IsFiniteSet(exit_sites)
    BY <1>2, <2>1, FS_Subset
  <2> QED  BY <2>2, FS_CardinalityType
<1>5. Body!TypeOK'
  BY <1>1 DEF Body!TypeOK, Body!Blocks
<1>6. Body!ComplexityInvariant'
  <2>1. Body!CountsAreOfBlocks'
    BY <1>1, BodyStays DEF Body!ComplexityInvariant, Body!CountsAreOfBlocks
  <2> QED
    BY <1>1, <1>2, <2>1 DEF Body!ComplexityInvariant, Body!SearchIsOfTheBody, Body!Bodies, Body!Blocks
<1> DEFINE n == Cardinality(reached) + 1
           e == runtime_edges + Cardinality(exit_sites)
<1>7. \/ metrics' = <<>>
      \/ /\ exit_sites # {} /\ ~(e > max_edges)
         /\ metrics' = <<n, e, e + 2 - n>>
  BY <1>2, BodyCounts DEF Body!Publish
<1>8. CASE metrics' = <<>>
  BY <1>5, <1>6, <1>8 DEF Body!ValueCountsChoices, Body!ValueIsOfTheWholeBody
<1>9. CASE /\ exit_sites # {} /\ ~(e > max_edges)
           /\ metrics' = <<n, e, e + 2 - n>>
  <2>1. metrics'[1] = n /\ metrics'[2] = e /\ metrics'[3] = e + 2 - n
    BY <1>9
  <2>2. e + 2 - n = 1 + Cardinality(Body!ChoicesOf(reached))
    <3>1. Cardinality(Body!ChoicesOf(reached)) \in Nat
      <4>1. IsFiniteSet(Body!ChoicesOf(reached))
        BY <1>2, ChoicesAreFinite
      <4> QED  BY <4>1, FS_CardinalityType
    <3> QED
      BY <1>2, <1>4, <3>1
  <2>3. max_edges \in Nat /\ e \in Nat
    BY <1>2, <1>4
  <2>4. e <= max_edges
    BY <1>9, <2>3
  <2>5. exit_sites = {b \in Body!AllRunnable : Body!WaysOn(b) > Cardinality(Body!RuntimeEdges(b))}
    <3>1. \A b \in reached : Body!Exits(b) <=> Body!WaysOn(b) > Cardinality(Body!RuntimeEdges(b))
      <4> TAKE b \in reached
      <4> DEFINE k == Cardinality(Body!RuntimeEdges(b))
                 w == Body!WaysOn(b)
      <4>1. k \in Nat /\ w = k + (IF Body!Exits(b) THEN 1 ELSE 0)
        BY <1>2, WaysAreCounted
      <4> HIDE DEF k, w
      <4>2. Body!Exits(b) <=> w > k
        BY <4>1
      <4> QED  BY <4>2 DEF k, w
    <3> QED  BY <1>2, <1>3, <3>1
  <2>6. Body!ValueCountsChoices'
    <3>1. metrics'[3] = 1 + Cardinality(Body!ChoicesOf(Body!AllRunnable))
      BY <1>3, <2>1, <2>2
    <3>2. (Body!ChoicesOf(Body!AllRunnable))' = Body!ChoicesOf(Body!AllRunnable)
      BY <1>1, BodyStays DEF Body!ChoicesOf
    <3> QED
      BY <3>1, <3>2, BodyCounts DEF Body!ValueCountsChoices
  <2>7. Body!ValueIsOfTheWholeBody'
    <3>1. /\ reached' = Body!AllRunnable' /\ metrics'[1] = Cardinality(Body!AllRunnable') + 1
          /\ exit_sites' # {} /\ metrics'[2] <= max_edges' /\ ~stopped'
      BY <1>1, <1>3, <1>9, <2>1, <2>4, BodyStays
    <3>2. exit_sites' = {b \in Body!AllRunnable' : (Body!WaysOn(b))' > Cardinality((Body!RuntimeEdges(b))')}
      BY <1>1, <2>5, BodyStays
    <3> QED
      BY <3>1, <3>2, BodyCounts DEF Body!ValueIsOfTheWholeBody
  <2> QED
    BY <1>5, <1>6, <2>6, <2>7
<1> QED
  BY <1>7, <1>8, <1>9

\* What a step of the analysis keeps.
LEMMA BodyKeeps ==
  ASSUME Body!ComplexityAssumption, Body!TypeOK, Body!ComplexityInvariant, Body!Next
  PROVE  /\ Body!TypeOK' /\ Body!ComplexityInvariant'
         /\ Body!ValueCountsChoices' /\ Body!ValueIsOfTheWholeBody'
<1>1. ASSUME metrics' = <<>>  PROVE  Body!ValueCountsChoices' /\ Body!ValueIsOfTheWholeBody'
  BY <1>1 DEF Body!ValueCountsChoices, Body!ValueIsOfTheWholeBody
<1>2. CASE Body!Stop \/ Body!Give \/ Body!Searched
  <2>1. /\ term' = term /\ max_edges' = max_edges /\ reached' = reached /\ counted' = counted
        /\ graph' = graph /\ stack' = stack
        /\ runtime_edges' = runtime_edges /\ exit_sites' = exit_sites
        /\ metrics' = metrics /\ state \in {"start", "search", "count"}
    BY <1>2 DEF Body!Stop, Body!Give, Body!Searched, Body!input, Body!counts
  <2>2. \/ state' = state \/ state' = "done"
        \/ state = "search" /\ state' = "count" /\ stack = {}
    BY <1>2 DEF Body!Stop, Body!Give, Body!Searched
  <2>3. metrics = <<>>
    BY <2>1 DEF Body!ComplexityInvariant
  <2>4. Body!TypeOK'
    BY <2>1, <2>2, <2>3 DEF Body!TypeOK, Body!Blocks
  <2>5. Body!CountsAreOfBlocks'
    BY <2>1, BodyStays DEF Body!ComplexityInvariant, Body!CountsAreOfBlocks
  <2>6. Body!SearchIsOfTheBody'
    <3>1. CASE state' = "done"
      BY <3>1 DEF Body!SearchIsOfTheBody
    <3>2. CASE state' # "done"
      BY <2>1, <2>2, <3>2, BodyStays DEF Body!ComplexityInvariant, Body!SearchIsOfTheBody
    <3> QED  BY <3>1, <3>2
  <2> QED
    BY <1>1, <2>1, <2>2, <2>3, <2>4, <2>5, <2>6 DEF Body!ComplexityInvariant, Body!Bodies, Body!Blocks
<1>3. CASE Body!Validate
  BY <1>1, <1>3, BodyValidates
<1>4. CASE Body!Search
  BY <1>1, <1>4, BodySearches
<1>5. CASE Body!CountBlock
  BY <1>1, <1>5, BodyCountsBlock
<1>6. CASE Body!Publish
  BY <1>6, BodyIsPublished
<1> QED
  BY <1>2, <1>3, <1>4, <1>5, <1>6 DEF Body!Next

\* A cyclomatic value that is published is one more than the choices, beyond the
\* first way on, of the blocks an execution may come to, and is given only when
\* every one of them is counted, a way out exists and the limits hold.
THEOREM ComplexityIsOfTheBodyHolds ==
  Body!ComplexityAssumption => (Body!Spec => []Body!ComplexityIsOfTheBody)
<1> SUFFICES ASSUME Body!ComplexityAssumption  PROVE Body!Spec => []Body!ComplexityIsOfTheBody
  OBVIOUS
<1>1. Body!Init => Body!ComplexityIsOfTheBody
  BY BodyStarts
  DEF Body!ComplexityIsOfTheBody, Body!ValueCountsChoices, Body!ValueIsOfTheWholeBody
<1>2. ASSUME Body!ComplexityIsOfTheBody, [Body!Next]_Body!vars
      PROVE  Body!ComplexityIsOfTheBody'
  <2>1. CASE Body!Next
    BY <1>2, <2>1, BodyKeeps DEF Body!ComplexityIsOfTheBody
  <2>2. CASE UNCHANGED Body!vars
    <3>1. /\ term' = term /\ max_edges' = max_edges /\ reached' = reached /\ counted' = counted
          /\ graph' = graph /\ stack' = stack /\ stopped' = stopped
          /\ runtime_edges' = runtime_edges /\ exit_sites' = exit_sites
          /\ metrics' = metrics /\ state' = state
      BY <2>2 DEF Body!vars
    <3>2. Body!TypeOK' /\ Body!ComplexityInvariant'
      BY <1>2, <3>1, BodyStays
      DEF Body!ComplexityIsOfTheBody, Body!TypeOK, Body!ComplexityInvariant, Body!SearchIsOfTheBody,
          Body!CountsAreOfBlocks, Body!Bodies, Body!Blocks
    <3>3. (Body!ChoicesOf(Body!AllRunnable))' = Body!ChoicesOf(Body!AllRunnable)
      BY <3>1, BodyStays DEF Body!ChoicesOf
    <3>4. Body!ValueCountsChoices' /\ Body!ValueIsOfTheWholeBody'
      BY <1>2, <3>1, <3>3, BodyStays
      DEF Body!ComplexityIsOfTheBody, Body!ValueCountsChoices, Body!ValueIsOfTheWholeBody
    <3> QED
      BY <3>2, <3>4 DEF Body!ComplexityIsOfTheBody
  <2> QED
    BY <1>2, <2>1, <2>2
<1> QED
  BY <1>1, <1>2, PTL DEF Body!Spec

-----------------------------------------------------------------------------
(* The call graph.                                                         *)

\* An instance counts as this module does.
LEMMA GraphCounts ==
  /\ \A S : Graph!IsFiniteSet(S) <=> IsFiniteSet(S)
  /\ \A S : Graph!Cardinality(S) = Cardinality(S)
<1>1. \A S : Graph!IsFiniteSet(S) <=> IsFiniteSet(S)
  BY DEF Graph!IsFiniteSet, IsFiniteSet
<1>2. \A S : Graph!Cardinality(S) = Cardinality(S)
  BY DEF Graph!Cardinality, Cardinality
<1> QED
  BY <1>1, <1>2

\* A limit that is not below the number of what is there leaves it all.
LEMMA LimitLeavesAll ==
  ASSUME NEW S, IsFiniteSet(S), NEW n \in Nat, Cardinality(S) <= n,
         NEW lower, \A x \in S : lower[x] \subseteq S /\ x \notin lower[x]
  PROVE  \A x \in S : Cardinality(lower[x]) < n
<1> SUFFICES ASSUME NEW x \in S  PROVE Cardinality(lower[x]) < n
  OBVIOUS
<1>1. IsFiniteSet(S \ {x}) /\ Cardinality(S \ {x}) = Cardinality(S) - 1
  BY FS_RemoveElement
<1>2. lower[x] \in SUBSET (S \ {x})
  OBVIOUS
<1>3. IsFiniteSet(lower[x]) /\ Cardinality(lower[x]) <= Cardinality(S \ {x})
  BY <1>1, <1>2, FS_Subset
<1>4. Cardinality(lower[x]) \in Nat /\ Cardinality(S) \in Nat
  BY <1>3, FS_CardinalityType
<1> QED
  BY <1>1, <1>3, <1>4

\* So with the first of a set of numbers.
LEMMA FirstAreAll ==
  ASSUME NEW S, IsFiniteSet(S), S \subseteq Nat, NEW n \in Nat, Cardinality(S) <= n
  PROVE  Graph!First(S, n) = S
<1> DEFINE lower == [x \in S |-> {y \in S : y < x}]
<1>1. \A x \in S : lower[x] = {y \in S : y < x}
  OBVIOUS
<1>2. \A x \in S : lower[x] \subseteq S /\ x \notin lower[x]
  BY <1>1
<1> HIDE DEF lower
<1>3. \A x \in S : Cardinality(lower[x]) < n
  BY <1>2, LimitLeavesAll
<1>4. \A x \in S : Cardinality({y \in S : y < x}) < n
  BY <1>1, <1>3
<1> QED
  BY <1>4, GraphCounts DEF Graph!First

\* So with the first calls in the order in which the graph is built.
LEMMA BuiltAreAll ==
  ASSUME NEW S, IsFiniteSet(S), S \subseteq Nat, \A c \in S : target[c] \in Nat,
         NEW n \in Nat, Cardinality(S) <= n
  PROVE  Graph!FirstBuilt(S, n) = S
<1> DEFINE lower == [x \in S |-> {y \in S : Graph!BuiltBefore(y, x)}]
<1>1. \A x \in S : lower[x] = {y \in S : Graph!BuiltBefore(y, x)}
  OBVIOUS
<1>2. \A x \in S : ~Graph!BuiltBefore(x, x)
  BY DEF Graph!BuiltBefore
<1>3. \A x \in S : lower[x] \subseteq S /\ x \notin lower[x]
  BY <1>1, <1>2
<1> HIDE DEF lower
<1>4. \A x \in S : Cardinality(lower[x]) < n
  BY <1>3, LimitLeavesAll
<1>5. \A x \in S : Cardinality({y \in S : Graph!BuiltBefore(y, x)}) < n
  BY <1>1, <1>4
<1> QED
  BY <1>5, GraphCounts DEF Graph!FirstBuilt

\* Numbers in ascending order: each of them once, and nothing else.
LEMMA AscendingHasAll ==
  ASSUME NEW S, IsFiniteSet(S), S \subseteq Nat
  PROVE  /\ Graph!Ascending(S) \in Seq(S)
         /\ \A d \in S : \E i \in 1..Len(Graph!Ascending(S)) : Graph!Ascending(S)[i] = d
<1> DEFINE N == Cardinality(S)
           rank(d) == Cardinality({e \in S : e < d})
           A == Graph!Ascending(S)
<1>1. N \in Nat
  BY FS_CardinalityType
<1>2. \A d \in S : IsFiniteSet({e \in S : e < d}) /\ rank(d) \in Nat /\ rank(d) < N
  <2> TAKE d \in S
  <2>1. {e \in S : e < d} \in SUBSET (S \ {d})
    OBVIOUS
  <2>2. IsFiniteSet(S \ {d}) /\ Cardinality(S \ {d}) = N - 1
    BY FS_RemoveElement
  <2>3. IsFiniteSet({e \in S : e < d}) /\ rank(d) <= N - 1
    BY <2>1, <2>2, FS_Subset
  <2>4. rank(d) \in Nat
    BY <2>3, FS_CardinalityType
  <2> QED  BY <1>1, <2>3, <2>4
<1>3. \A d, e \in S : d < e => rank(d) < rank(e)
  <2> SUFFICES ASSUME NEW d \in S, NEW e \in S, d < e  PROVE rank(d) < rank(e)
    OBVIOUS
  <2>1. {x \in S : x < d} \cup {d} \in SUBSET {x \in S : x < e} /\ d \notin {x \in S : x < d}
    <3>1. d \in Nat /\ e \in Nat /\ d < e /\ ~(d < d) /\ \A x \in Nat : x < d => x < e
      OBVIOUS
    <3>2. \A x \in S : x < d => x < e
      BY <3>1
    <3> QED  BY <3>1, <3>2
  <2>2. Cardinality({x \in S : x < d} \cup {d}) = rank(d) + 1
    BY <1>2, <2>1, FS_AddElement
  <2>3. Cardinality({x \in S : x < d} \cup {d}) <= rank(e)
    BY <1>2, <2>1, FS_Subset
  <2>4. rank(d) \in Nat /\ rank(e) \in Nat
    BY <1>2
  <2> HIDE DEF rank
  <2> QED  BY <2>2, <2>3, <2>4
<1>4. \A i \in 1..N : \E d \in S : rank(d) = i - 1
  <2> TAKE i \in 1..N
  <2>1. PICK d \in S : Cardinality({m \in S : m <= d}) = i
    <3>1. i \in Nat /\ 1 <= i /\ i <= Cardinality(S)
      BY <1>1
    <3> QED  BY <3>1, HasNth
  <2>2. {m \in S : m <= d} = {m \in S : m < d} \cup {d} /\ d \notin {m \in S : m < d}
    <3>1. d \in Nat /\ ~(d < d) /\ \A m \in Nat : m <= d <=> m < d \/ m = d
      OBVIOUS
    <3>2. \A m \in S : m <= d <=> m < d \/ m = d
      BY <3>1
    <3> QED  BY <3>1, <3>2
  <2>3. i = rank(d) + 1
    BY <1>2, <2>1, <2>2, FS_AddElement
  <2>4. rank(d) \in Nat /\ i \in Int
    BY <1>2
  <2> HIDE DEF rank
  <2> QED  BY <2>3, <2>4
<1>5. A = [i \in 1..N |-> CHOOSE d \in S : rank(d) = i - 1]
  <2>1. Graph!Cardinality(S) = N /\ \A d : Graph!Cardinality({e \in S : e < d}) = rank(d)
    BY GraphCounts
  <2> HIDE DEF rank, N
  <2> QED  BY <2>1 DEF Graph!Ascending
<1> HIDE DEF rank, A, N
<1>6. \A i \in 1..N : A[i] \in S /\ rank(A[i]) = i - 1
  BY <1>4, <1>5
<1>7. A \in [1..N -> S]
  BY <1>5, <1>6
<1>8. A \in Seq(S) /\ Len(A) = N
  BY <1>1, <1>7
<1>9. \A d \in S : \E i \in 1..N : A[i] = d
  <2> TAKE d \in S
  <2>1. rank(d) \in Nat /\ rank(d) < N
    BY <1>2
  <2>2. rank(d) + 1 \in 1..N
    BY <1>1, <2>1
  <2>3. A[rank(d) + 1] \in S /\ rank(A[rank(d) + 1]) = rank(d)
    BY <1>6, <2>1, <2>2
  <2>4. ~(rank(d) < rank(d))
    BY <2>1
  <2>5. ~(A[rank(d) + 1] < d) /\ ~(d < A[rank(d) + 1])
    BY <1>3, <2>3, <2>4
  <2>6. A[rank(d) + 1] = d
    <3>1. A[rank(d) + 1] \in Nat /\ d \in Nat
      BY <2>3
    <3> QED  BY <2>5, <3>1
  <2> QED  BY <2>2, <2>6
<1> QED
  BY <1>8, <1>9 DEF A

\* What is said of the graph depends on what was asked and prepared only.
LEMMA GraphStays ==
  ASSUME source' = source, target' = target, selection' = selection, request' = request
  PROVE  /\ \A c : (Graph!InSelection(c))' = Graph!InSelection(c)
         /\ Graph!Reachable' = Graph!Reachable
         /\ nodes' = nodes /\ edges' = edges => \A n : (Graph!Leads(n))' = Graph!Leads(n)
<1>1. \A c : (Graph!InSelection(c))' = Graph!InSelection(c)
  BY DEF Graph!InSelection
<1>2. Graph!Reachable' = Graph!Reachable
  BY <1>1 DEF Graph!Reachable
<1>3. ASSUME nodes' = nodes, edges' = edges, NEW n
      PROVE  (Graph!Leads(n))' = Graph!Leads(n)
  BY <1>3 DEF Graph!Leads
<1> QED
  BY <1>1, <1>2, <1>3

\* What the assumptions say of a request and of the ends of calls.
LEMMA GraphTypes ==
  ASSUME Graph!CallGraphAssumption, Graph!TypeOK
  PROVE  /\ IsFiniteSet(Calls) /\ Calls \subseteq Nat /\ IsFiniteSet(Definitions) /\ Definitions \subseteq Nat
         /\ 0 \notin Definitions /\ selection \subseteq Definitions /\ IsFiniteSet(selection)
         /\ nodes \subseteq selection /\ IsFiniteSet(nodes)
         /\ sites \subseteq Calls /\ edges \subseteq sites /\ IsFiniteSet(edges)
         /\ \A c \in Calls : source[c] \in Definitions /\ target[c] \in Nat
         /\ \A c \in sites : source[c] \in nodes
         /\ \A c \in edges : source[c] \in nodes /\ target[c] \in nodes
         /\ request.max_nodes \in Nat /\ request.max_edges \in Nat /\ request.start \in Definitions
         /\ request.goal \in Definitions \cup {0} /\ request.mode \in {"path", "metrics"}
<1>1. /\ IsFiniteSet(Calls) /\ Calls \subseteq Nat /\ IsFiniteSet(Definitions) /\ Definitions \subseteq Nat \ {0}
      /\ Selections \subseteq SUBSET Definitions /\ Starts \subseteq Definitions
      /\ Goals \subseteq Definitions \cup {0} /\ Modes \subseteq {"path", "metrics"}
      /\ NodeLimits \subseteq Nat /\ EdgeLimits \subseteq Nat
  BY GraphCounts DEF Graph!CallGraphAssumption, Graph!Unresolved
<1>2. /\ source \in [Calls -> Definitions] /\ target \in [Calls -> Definitions \cup {0}]
      /\ selection \in Selections /\ request \in Graph!Requests
      /\ nodes \subseteq selection /\ sites \subseteq {c \in Calls : source[c] \in nodes}
      /\ edges = {c \in sites : target[c] \in nodes}
  BY DEF Graph!TypeOK, Graph!Inner, Graph!Unresolved
<1>3. /\ request.max_nodes \in NodeLimits /\ request.max_edges \in EdgeLimits
      /\ request.start \in Starts /\ request.goal \in Goals /\ request.mode \in Modes
  BY <1>2 DEF Graph!Requests
<1>4. selection \in SUBSET Definitions /\ IsFiniteSet(selection)
  BY <1>1, <1>2, FS_Subset
<1>5. IsFiniteSet(nodes)
  BY <1>2, <1>4, FS_Subset
<1>6. edges \subseteq Calls /\ IsFiniteSet(edges)
  BY <1>1, <1>2, FS_Subset
<1>7. \A c \in Calls : source[c] \in Definitions /\ target[c] \in Nat
  <2>1. \A c \in Calls : source[c] \in Definitions /\ target[c] \in Definitions \cup {0}
    BY <1>2
  <2>2. \A x \in Definitions \cup {0} : x \in Nat
    BY <1>1
  <2> QED  BY <2>1, <2>2
<1> QED
  BY <1>1, <1>2, <1>3, <1>4, <1>5, <1>6, <1>7

\* A definition that no more than i calls lead to was found, and is no further away
\* than that, if all that waits is further away than those that lead to it.
LEMMA WalksAreFound ==
  ASSUME Graph!FoundByCalls, Graph!ByLevel, queue # <<>>,
         NEW n \in Nat, n <= distance[Head(queue)],
         NEW walk, walk[0] = request.start,
         \A i \in 1..n : \E c \in edges : source[c] = walk[i - 1] /\ target[c] = walk[i]
  PROVE  walk[n] \in DOMAIN distance /\ distance[walk[n]] <= n
<1> DEFINE Far == {i \in Nat : i <= n => walk[i] \in DOMAIN distance /\ distance[walk[i]] <= i}
<1>1. /\ queue \in Seq(DOMAIN distance) /\ distance \in [DOMAIN distance -> Nat]
      /\ request.start \in DOMAIN distance /\ distance[request.start] = 0
  BY DEF Graph!FoundByCalls
<1>2. Len(queue) \in Nat \ {0} /\ Head(queue) = queue[1] /\ queue[1] \in DOMAIN distance
  BY <1>1
<1>3. 0 \in Far
  BY <1>1
<1>4. \A i \in Far : i + 1 \in Far
  <2> SUFFICES ASSUME NEW i \in Far, i + 1 <= n
               PROVE  walk[i + 1] \in DOMAIN distance /\ distance[walk[i + 1]] <= i + 1
    OBVIOUS
  <2>1. i \in Nat /\ i <= n /\ i < n /\ i + 1 \in 1..n /\ (i + 1) - 1 = i
    OBVIOUS
  <2>2. walk[i] \in DOMAIN distance /\ distance[walk[i]] <= i /\ distance[walk[i]] \in Nat
    BY <1>1, <2>1
  <2>3. distance[queue[1]] \in Nat
    BY <1>1, <1>2
  <2>4. distance[walk[i]] < distance[queue[1]]
    BY <1>2, <2>1, <2>2, <2>3
  <2>5. walk[i] \in visited
    <3>1. \A j \in 1..Len(queue) : distance[queue[1]] <= distance[queue[j]]
      BY <1>2 DEF Graph!ByLevel
    <3>2. \A j \in 1..Len(queue) : walk[i] # queue[j]
      BY <2>2, <2>3, <2>4, <3>1
    <3> QED  BY <2>2, <3>2 DEF Graph!ByLevel
  <2>6. PICK c \in edges : source[c] = walk[i] /\ target[c] = walk[i + 1]
    BY <2>1
  <2>7. target[c] \in DOMAIN distance /\ distance[target[c]] <= distance[walk[i]] + 1
    BY <2>5, <2>6 DEF Graph!ByLevel
  <2>8. distance[target[c]] \in Nat
    BY <1>1, <2>7
  <2> QED
    BY <2>1, <2>2, <2>6, <2>7, <2>8
<1> HIDE DEF Far
<1>5. Far = Nat
  <2>1. Far \subseteq Nat
    BY DEF Far
  <2> QED  BY <1>3, <1>4, <2>1, SetInduction
<1> QED
  BY <1>5 DEF Far

\* Whoever is visited next is at its distance, and no fewer calls lead to it.
LEMMA HeadIsNearest ==
  ASSUME Graph!FoundByCalls, Graph!ByLevel, queue # <<>>, Head(queue) = request.goal
  PROVE  /\ request.goal \in DOMAIN distance
         /\ \A n \in 0..distance[request.goal] - 1 : ~Graph!Leads(n)
<1>1. queue \in Seq(DOMAIN distance) /\ distance \in [DOMAIN distance -> Nat]
  BY DEF Graph!FoundByCalls
<1>2. request.goal \in DOMAIN distance /\ distance[request.goal] \in Nat
  BY <1>1
<1>3. ASSUME NEW n \in 0..distance[request.goal] - 1, Graph!Leads(n)
      PROVE  FALSE
  <2>1. PICK walk \in [0..n -> nodes] :
          /\ walk[0] = request.start /\ walk[n] = request.goal
          /\ \A i \in 1..n : \E c \in edges : source[c] = walk[i - 1] /\ target[c] = walk[i]
    BY <1>3 DEF Graph!Leads
  <2>2. n \in Nat /\ n < distance[request.goal] /\ n <= distance[Head(queue)]
    BY <1>2
  <2>3. walk[n] \in DOMAIN distance /\ distance[walk[n]] <= n
    BY <2>1, <2>2, WalksAreFound
  <2> QED
    BY <1>2, <2>1, <2>2, <2>3
<1> QED
  BY <1>2, <1>3

\* Whoever is found has a nearest call that leads to it.
LEMMA FirstCallLeads ==
  ASSUME Graph!CallGraphAssumption, Graph!TypeOK, NEW n, NEW d \in Graph!Found(n)
  PROVE  /\ Graph!FirstCall(n, d) \in edges
         /\ source[Graph!FirstCall(n, d)] = n /\ target[Graph!FirstCall(n, d)] = d
<1>1. PICK c \in edges : source[c] = n /\ target[c] = d
  BY DEF Graph!Found
<1>2. c \in Graph!CallsTo(n, d) /\ Graph!CallsTo(n, d) \subseteq Nat
  BY <1>1, GraphTypes DEF Graph!CallsTo
<1>3. \E x \in Graph!CallsTo(n, d) : \A y \in Graph!CallsTo(n, d) : x <= y
  BY <1>2, HasLeast
<1>4. Graph!FirstCall(n, d) \in Graph!CallsTo(n, d)
  BY <1>3 DEF Graph!FirstCall
<1> QED
  BY <1>4 DEF Graph!CallsTo

\* One definition of the search whose callees are found.
LEMMA CalleesAreFound ==
  ASSUME Graph!CallGraphAssumption, Graph!TypeOK, Graph!FoundByCalls, Graph!ByLevel,
         queue # <<>>, NEW n, n = Head(queue), NEW fresh, fresh = Graph!Found(n),
         edges' = edges, nodes' = nodes, source' = source, target' = target, request' = request,
         visited' = visited \cup {n}, queue' = Tail(queue) \o Graph!Ascending(fresh),
         distance' = [d \in DOMAIN distance \cup fresh |->
                        IF d \in fresh THEN distance[n] + 1 ELSE distance[d]],
         previous' = [d \in DOMAIN previous \cup fresh |->
                        IF d \in fresh THEN Graph!FirstCall(n, d) ELSE previous[d]]
  PROVE  Graph!FoundByCalls' /\ Graph!ByLevel'
<1> DEFINE q == Tail(queue)
           A == Graph!Ascending(fresh)
           D == distance[n]
<1>0. edges' = edges /\ nodes' = nodes /\ source' = source /\ target' = target /\ request' = request
  OBVIOUS
<1>1. /\ request.start \in nodes \cap DOMAIN distance /\ distance \in [DOMAIN distance -> Nat]
      /\ distance[request.start] = 0
      /\ DOMAIN distance \subseteq nodes /\ DOMAIN previous = DOMAIN distance \ {request.start}
      /\ \A d \in DOMAIN previous :
           /\ previous[d] \in edges /\ target[previous[d]] = d /\ source[previous[d]] \in DOMAIN distance
           /\ distance[d] = distance[source[previous[d]]] + 1
      /\ visited \subseteq DOMAIN distance /\ queue \in Seq(DOMAIN distance)
  BY DEF Graph!FoundByCalls
<1>2. fresh \subseteq nodes /\ fresh \cap DOMAIN distance = {}
      /\ \A c \in edges : source[c] = n => target[c] \in fresh \cup DOMAIN distance
  BY GraphTypes DEF Graph!Found
<1>3. IsFiniteSet(fresh) /\ fresh \subseteq Nat
  BY <1>2, GraphTypes, FS_Subset
<1>4. A \in Seq(fresh) /\ \A d \in fresh : \E i \in 1..Len(A) : A[i] = d
  BY <1>3, AscendingHasAll
<1>5. /\ Len(queue) \in Nat \ {0} /\ n = queue[1] /\ n \in DOMAIN distance /\ D \in Nat
      /\ q \in Seq(DOMAIN distance) /\ Len(q) = Len(queue) - 1
      /\ \A i \in 1..Len(q) : q[i] = queue[i + 1] /\ i + 1 \in 1..Len(queue)
  BY <1>1
<1>6. /\ DOMAIN distance' = DOMAIN distance \cup fresh
      /\ \A d \in DOMAIN distance : distance'[d] = distance[d]
      /\ \A d \in fresh : distance'[d] = D + 1
  BY <1>2
<1>7. /\ DOMAIN previous' = DOMAIN previous \cup fresh
      /\ \A d \in DOMAIN previous : previous'[d] = previous[d]
      /\ \A d \in fresh : previous'[d] = Graph!FirstCall(n, d)
  BY <1>1, <1>2
<1> HIDE DEF q, A, D
<1>8. /\ queue' \in Seq(DOMAIN distance \cup fresh) /\ Len(queue') = Len(q) + Len(A)
      /\ \A i \in 1..Len(queue') : queue'[i] = IF i <= Len(q) THEN q[i] ELSE A[i - Len(q)]
  <2>1. queue' = q \o A
    BY DEF q, A
  <2>2. q \in Seq(DOMAIN distance \cup fresh) /\ A \in Seq(DOMAIN distance \cup fresh)
    BY <1>4, <1>5
  <2>3. /\ q \o A \in Seq(DOMAIN distance \cup fresh) /\ Len(q \o A) = Len(q) + Len(A)
        /\ \A i \in 1..Len(q) + Len(A) : (q \o A)[i] = IF i <= Len(q) THEN q[i] ELSE A[i - Len(q)]
    BY <2>2, ConcatProperties
  <2> QED
    BY <2>1, <2>3
<1>9. \A i \in 1..Len(queue') :
        \/ \E j \in 1..Len(q) : j = i /\ queue'[i] = q[j] /\ q[j] \in DOMAIN distance
        \/ i > Len(q) /\ queue'[i] \in fresh
  <2> TAKE i \in 1..Len(queue')
  <2>1. Len(q) \in Nat /\ Len(A) \in Nat
    BY <1>4, <1>5
  <2>2. CASE i <= Len(q)
    BY <1>5, <1>8, <2>1, <2>2
  <2>3. CASE i > Len(q)
    <3>0. i \in Int /\ i <= Len(q) + Len(A) /\ ~(i <= Len(q))
      BY <1>8, <2>1, <2>3
    <3>1. i - Len(q) \in 1..Len(A) /\ queue'[i] = A[i - Len(q)]
      BY <1>8, <2>1, <2>3, <3>0
    <3> QED  BY <1>4, <2>3, <3>1
  <2> QED  BY <2>1, <2>2, <2>3
<1>10. Graph!FoundByCalls'
  <2>1. distance' \in [DOMAIN distance' -> Nat]
    <3>1. \A d \in DOMAIN distance' : distance'[d] \in Nat
      BY <1>1, <1>5, <1>6
    <3> QED  BY <1>6, <3>1
  <2>2. DOMAIN previous' = DOMAIN distance' \ {request.start}
    BY <1>1, <1>2, <1>6, <1>7
  <2>3. ASSUME NEW d \in DOMAIN previous'
        PROVE  /\ previous'[d] \in edges /\ target[previous'[d]] = d
               /\ source[previous'[d]] \in DOMAIN distance'
               /\ distance'[d] = distance'[source[previous'[d]]] + 1
    <3>1. CASE d \in fresh
      <4>1. previous'[d] \in edges /\ source[previous'[d]] = n /\ target[previous'[d]] = d
        BY <1>7, <3>1, FirstCallLeads
      <4> QED  BY <1>5, <1>6, <3>1, <4>1 DEF D
    <3>2. CASE d \in DOMAIN previous
      <4>1. previous'[d] = previous[d] /\ d \in DOMAIN distance
        BY <1>1, <1>7, <3>2
      <4>2. /\ previous[d] \in edges /\ target[previous[d]] = d /\ source[previous[d]] \in DOMAIN distance
            /\ distance[d] = distance[source[previous[d]]] + 1
        BY <1>1, <3>2
      <4> QED  BY <1>6, <4>1, <4>2
    <3> QED  BY <1>7, <3>1, <3>2
  <2>4. request.start \in nodes \cap DOMAIN distance' /\ distance'[request.start] = 0
        /\ DOMAIN distance' \subseteq nodes /\ visited' \subseteq DOMAIN distance'
        /\ queue' \in Seq(DOMAIN distance')
    BY <1>1, <1>2, <1>5, <1>6, <1>8
  <2>5. \A d \in DOMAIN previous' :
          /\ previous'[d] \in edges' /\ target'[previous'[d]] = d /\ source'[previous'[d]] \in DOMAIN distance'
          /\ distance'[d] = distance'[source'[previous'[d]]] + 1
    BY ONLY <1>0, <2>3
  <2>6. request'.start \in nodes' \cap DOMAIN distance' /\ distance'[request'.start] = 0
        /\ DOMAIN distance' \subseteq nodes' /\ DOMAIN previous' = DOMAIN distance' \ {request'.start}
    BY <2>2, <2>4
  <2> QED
    BY ONLY <2>1, <2>4, <2>5, <2>6 DEF Graph!FoundByCalls
<1>11. /\ \A d \in DOMAIN distance : distance[d] \in Nat
       /\ \A d \in visited : distance[d] <= D
       /\ \A i \in 1..Len(q) : distance[q[i]] \in Nat /\ D <= distance[q[i]] /\ distance[q[i]] <= D + 1
       /\ \A d \in DOMAIN distance : distance[d] <= D + 1
  <2>1. \A d \in DOMAIN distance : distance[d] \in Nat
    BY <1>1
  <2>2. \A d \in visited : distance[d] <= D
    BY <1>5 DEF Graph!ByLevel, D
  <2>3. \A i \in 1..Len(queue) : D <= distance[queue[i]] /\ distance[queue[i]] <= D + 1
    BY <1>5 DEF Graph!ByLevel, D
  <2>4. \A d \in DOMAIN distance : d \in visited \/ \E i \in 1..Len(queue) : d = queue[i]
    BY DEF Graph!ByLevel
  <2>5. \A d \in DOMAIN distance : distance[d] <= D + 1
    <3> TAKE d \in DOMAIN distance
    <3>1. CASE d \in visited
      BY <1>5, <2>1, <2>2, <3>1
    <3>2. CASE \E i \in 1..Len(queue) : d = queue[i]
      BY <2>3, <3>2
    <3> QED  BY <2>4, <3>1, <3>2
  <2>6. \A i \in 1..Len(q) : q[i] \in DOMAIN distance
    BY <1>5
  <2>7. \A i \in 1..Len(q) : D <= distance[q[i]] /\ distance[q[i]] <= D + 1
    <3> TAKE i \in 1..Len(q)
    <3>1. q[i] = queue[i + 1] /\ i + 1 \in 1..Len(queue)
      BY <1>5
    <3> QED  BY <2>3, <3>1
  <2> QED
    BY <2>1, <2>2, <2>5, <2>6, <2>7
<1>12. Graph!ByLevel'
  <2>1. DOMAIN distance' \subseteq visited' \cup {queue'[i] : i \in 1..Len(queue')}
    <3> SUFFICES ASSUME NEW d \in DOMAIN distance', d \notin visited'
                 PROVE  \E i \in 1..Len(queue') : queue'[i] = d
      OBVIOUS
    <3>0. Len(q) \in Nat /\ Len(A) \in Nat
      BY <1>4, <1>5
    <3>1. CASE d \in DOMAIN distance
      <4>1. PICK i \in 1..Len(queue) : d = queue[i]
        BY <3>1 DEF Graph!ByLevel
      <4>2. i # 1
        BY <1>5, <4>1
      <4>3. i - 1 \in 1..Len(q) /\ q[i - 1] = d
        BY <1>5, <4>1, <4>2
      <4>4. i - 1 \in 1..Len(queue') /\ queue'[i - 1] = d
        BY <1>8, <3>0, <4>3
      <4> QED  BY <4>4
    <3>2. CASE d \in fresh
      <4>1. PICK i \in 1..Len(A) : A[i] = d
        BY <1>4, <3>2
      <4>2. i + Len(q) \in 1..Len(queue') /\ ~(i + Len(q) <= Len(q)) /\ i + Len(q) - Len(q) = i
        BY <1>8, <3>0
      <4>3. queue'[i + Len(q)] = d
        BY <1>8, <4>1, <4>2
      <4> QED  BY <4>2, <4>3
    <3> QED  BY <1>6, <3>1, <3>2
  <2>2. ASSUME NEW c \in edges, source[c] \in visited'
        PROVE  target[c] \in DOMAIN distance' /\ distance'[target[c]] <= distance'[source[c]] + 1
    <3>1. CASE source[c] \in visited
      BY <1>1, <1>6, <3>1 DEF Graph!ByLevel
    <3>2. CASE source[c] = n
      <4>1. distance'[n] = D
        BY <1>5, <1>6 DEF D
      <4>2. target[c] \in fresh \cup DOMAIN distance
        BY <1>2, <3>2
      <4> QED  BY <1>5, <1>6, <1>11, <3>2, <4>1, <4>2
    <3> QED  BY <2>2, <3>1, <3>2
  <2>3. \A i \in 1..Len(queue') :
          /\ distance'[queue'[i]] \in Nat /\ D <= distance'[queue'[i]] /\ distance'[queue'[i]] <= D + 1
          /\ i > Len(q) => distance'[queue'[i]] = D + 1
          /\ i <= Len(q) => queue'[i] = q[i] /\ distance'[queue'[i]] = distance[q[i]]
    <3> TAKE i \in 1..Len(queue')
    <3>1. CASE \E j \in 1..Len(q) : j = i /\ queue'[i] = q[j] /\ q[j] \in DOMAIN distance
      <4>1. i \in 1..Len(q) /\ queue'[i] = q[i] /\ q[i] \in DOMAIN distance /\ ~(i > Len(q))
        BY <1>5, <3>1
      <4>2. distance'[queue'[i]] = distance[q[i]]
        BY <1>6, <4>1
      <4>3. distance[q[i]] \in Nat /\ D <= distance[q[i]] /\ distance[q[i]] <= D + 1
        BY <1>11, <4>1
      <4> QED  BY <4>1, <4>2, <4>3
    <3>2. CASE i > Len(q) /\ queue'[i] \in fresh
      BY <1>5, <1>6, <3>2
    <3> QED  BY <1>9, <3>1, <3>2
  <2>4. ASSUME NEW i \in 1..Len(queue'), NEW j \in 1..Len(queue'), i <= j
        PROVE  /\ distance'[queue'[i]] <= distance'[queue'[j]]
               /\ distance'[queue'[j]] <= distance'[queue'[i]] + 1
    <3>0. Len(q) \in Nat
      BY <1>5
    <3>1. CASE j > Len(q)
      <4>1. distance'[queue'[j]] = D + 1 /\ distance'[queue'[i]] \in Nat
            /\ D <= distance'[queue'[i]] /\ distance'[queue'[i]] <= D + 1
        BY <2>3, <3>1
      <4>2. PICK x \in Nat : x = distance'[queue'[i]]
        BY <4>1
      <4>3. D \in Nat
        BY <1>5
      <4> QED  BY ONLY <4>1, <4>2, <4>3
    <3>2. CASE j <= Len(q)
      <4>1. i <= Len(q) /\ i \in 1..Len(q) /\ j \in 1..Len(q)
        BY <2>4, <3>0, <3>2
      <4>2. i + 1 \in 1..Len(queue) /\ j + 1 \in 1..Len(queue) /\ i + 1 <= j + 1
            /\ q[i] = queue[i + 1] /\ q[j] = queue[j + 1]
        <5>1. PICK l \in Nat : l = Len(q) /\ Len(queue) = l + 1
          BY <1>5, <3>0
        <5>2. i \in 1..l /\ j \in 1..l
          BY <4>1, <5>1
        <5>3. i + 1 \in 1..l + 1 /\ j + 1 \in 1..l + 1 /\ i + 1 <= j + 1
          BY <2>4, <5>1, <5>2
        <5> QED  BY <1>5, <4>1, <5>1, <5>3
      <4>3. distance[q[i]] <= distance[q[j]] /\ distance[q[j]] <= distance[q[i]] + 1
        BY <4>2 DEF Graph!ByLevel
      <4> QED  BY <2>3, <3>2, <4>1, <4>3
    <3>3. j > Len(q) \/ j <= Len(q)
      BY <3>0
    <3> QED  BY <3>1, <3>2, <3>3
  <2>5. ASSUME NEW d \in visited', NEW i \in 1..Len(queue')
        PROVE  distance'[d] <= distance'[queue'[i]]
    <3>1. d \in DOMAIN distance /\ distance[d] <= D /\ distance[d] \in Nat
      BY <1>1, <1>5, <1>11 DEF D
    <3>2. distance'[d] = distance[d]
      BY <1>6, <3>1
    <3>3. D <= distance'[queue'[i]] /\ distance'[queue'[i]] \in Nat
      BY <2>3
    <3> QED  BY <1>5, <3>1, <3>2, <3>3
  <2> QED
    BY <2>1, <2>2, <2>4, <2>5 DEF Graph!ByLevel
<1> QED
  BY <1>10, <1>12

\* What was prepared stays, and an answer is made partial at most.
LEMMA PreparedStays ==
  ASSUME Graph!PreparedIsWhole, state \notin {"start", "invalid"},
         source' = source, target' = target, selection' = selection, request' = request,
         nodes' = nodes, edges' = edges, sites' = sites, frontier' = frontier,
         ~truncated' => ~truncated, ~partial' => ~partial /\ ~truncated'
  PROVE  Graph!PreparedIsWhole'
<1>1. \A c : (Graph!InSelection(c))' = Graph!InSelection(c)
  BY GraphStays
<1>2. /\ ~truncated => /\ ~request.input_truncated
                       /\ nodes = selection /\ sites = {c \in Calls : source[c] \in selection}
                       /\ edges = {c \in Calls : Graph!InSelection(c)}
                       /\ frontier = {c \in Calls : ~Graph!InSelection(c)}
      /\ ~partial => ~truncated /\ frontier = {}
  BY DEF Graph!PreparedIsWhole
<1>3. ASSUME ~truncated'
      PROVE  /\ ~request'.input_truncated /\ nodes' = selection'
             /\ sites' = {c \in Calls : source'[c] \in selection'}
             /\ edges' = {c \in Calls : (Graph!InSelection(c))'}
             /\ frontier' = {c \in Calls : ~(Graph!InSelection(c))'}
  BY <1>1, <1>2, <1>3
<1>4. ~partial' => ~truncated' /\ frontier' = {}
  BY <1>2
<1> QED
  BY <1>3, <1>4 DEF Graph!PreparedIsWhole

\* A step that leaves alone what was prepared keeps the types.
LEMMA TypesStay ==
  ASSUME Graph!TypeOK,
         source' = source, target' = target, selection' = selection, request' = request,
         nodes' = nodes, edges' = edges, sites' = sites,
         outcome' \in {"unknown", "found", "not_found_in_selection", "reachability_complete"},
         state' \in {"start", "search", "back", "count", "done", "invalid"}
  PROVE  Graph!TypeOK'
BY DEF Graph!TypeOK, Graph!Inner, Graph!Requests

\* Nothing is said of an analysis that is not done.
LEMMA NotDone ==
  ASSUME state' # "done"
  PROVE  Graph!PathIsShortest' /\ Graph!NegativeIsCertain' /\ Graph!CountsAreWhole'
BY DEF Graph!PathIsShortest, Graph!NegativeIsCertain, Graph!CountsAreWhole

\* One definition of the search.
LEMMA VisitKeeps ==
  ASSUME Graph!CallGraphAssumption, Graph!TypeOK, Graph!CallGraphInvariant, Graph!Visit
  PROVE  Graph!TypeOK' /\ Graph!CallGraphInvariant' /\ state' # "done"
<1>1. /\ source' = source /\ target' = target /\ selection' = selection /\ request' = request
      /\ nodes' = nodes /\ edges' = edges /\ sites' = sites /\ frontier' = frontier
      /\ partial' = partial /\ truncated' = truncated /\ relations' = relations
      /\ state' = "search" /\ state = "search" /\ queue # <<>> /\ outcome = "unknown"
  BY DEF Graph!Visit, Graph!input, Graph!prepared
<1>2. PICK n : n = Head(queue)
  OBVIOUS
<1>3. PICK fresh : fresh = Graph!Found(n)
  OBVIOUS
<1>4. /\ visited' = visited \cup {n}
      /\ \/ n = request.goal /\ outcome' = "found" /\ queue' = queue /\ distance' = distance /\ previous' = previous
         \/ /\ n # request.goal /\ outcome' = outcome
            /\ queue' = Tail(queue) \o Graph!Ascending(fresh)
            /\ distance' = [d \in DOMAIN distance \cup fresh |->
                              IF d \in fresh THEN distance[n] + 1 ELSE distance[d]]
            /\ previous' = [d \in DOMAIN previous \cup fresh |->
                              IF d \in fresh THEN Graph!FirstCall(n, d) ELSE previous[d]]
  BY <1>2, <1>3 DEF Graph!Visit
<1>5. Graph!FoundByCalls /\ Graph!ByLevel /\ request.goal \notin visited /\ request.mode = "path"
      /\ relations = <<>> /\ Graph!PreparedIsWhole
  BY <1>1 DEF Graph!CallGraphInvariant, Graph!SearchInvariant
<1>6. Graph!TypeOK'
  BY <1>1, <1>4, TypesStay
<1>7. Graph!PreparedIsWhole'
  <2>1. ~partial => ~truncated
    BY <1>1, <1>5 DEF Graph!PreparedIsWhole
  <2> QED  BY <1>1, <1>5, <2>1, PreparedStays
<1>8. Graph!SearchInvariant'
  <2>1. CASE n = request.goal
    <3>1. /\ outcome' = "found" /\ queue' = queue /\ distance' = distance /\ previous' = previous
      BY <1>4, <2>1
    <3>2. n \in DOMAIN distance
      BY <1>1, <1>2, <1>5 DEF Graph!FoundByCalls
    <3>3. Graph!FoundByCalls'
      BY <1>1, <1>4, <1>5, <3>1, <3>2 DEF Graph!FoundByCalls
    <3>4. request.goal \in DOMAIN distance /\ \A k \in 0..distance[request.goal] - 1 : ~Graph!Leads(k)
      BY <1>1, <1>2, <1>5, <2>1, HeadIsNearest
    <3>5. request'.goal \in DOMAIN distance' /\ \A k \in 0..distance'[request'.goal] - 1 : ~(Graph!Leads(k))'
      BY <1>1, <3>1, <3>4, GraphStays
    <3> QED
      BY <3>1, <3>3, <3>5 DEF Graph!SearchInvariant
  <2>2. CASE n # request.goal
    <3>1. /\ outcome' = outcome
          /\ queue' = Tail(queue) \o Graph!Ascending(fresh)
          /\ distance' = [d \in DOMAIN distance \cup fresh |->
                            IF d \in fresh THEN distance[n] + 1 ELSE distance[d]]
          /\ previous' = [d \in DOMAIN previous \cup fresh |->
                            IF d \in fresh THEN Graph!FirstCall(n, d) ELSE previous[d]]
      BY <1>4, <2>2
    <3>2. Graph!FoundByCalls' /\ Graph!ByLevel'
      BY <1>1, <1>2, <1>3, <1>4, <1>5, <3>1, CalleesAreFound
    <3>3. request'.goal \notin visited' /\ outcome' = "unknown"
      BY <1>1, <1>4, <1>5, <2>2, <3>1
    <3> QED
      BY <3>2, <3>3 DEF Graph!SearchInvariant
  <2> QED
    BY <2>1, <2>2
<1>9. Graph!PathSoFar' /\ Graph!CountsSoFar'
  BY <1>1 DEF Graph!PathSoFar, Graph!CountsSoFar
<1> QED
  BY <1>1, <1>4, <1>5, <1>6, <1>7, <1>8, <1>9 DEF Graph!CallGraphInvariant

\* A search that is cut short, and says so.
LEMMA CutKeeps ==
  ASSUME Graph!CallGraphAssumption, Graph!TypeOK, Graph!CallGraphInvariant, Graph!Cut
  PROVE  Graph!TypeOK' /\ Graph!CallGraphInvariant' /\ state' # "done"
<1>1. /\ source' = source /\ target' = target /\ selection' = selection /\ request' = request
      /\ nodes' = nodes /\ edges' = edges /\ sites' = sites /\ frontier' = frontier
      /\ visited' = visited /\ distance' = distance /\ previous' = previous /\ outcome' = outcome
      /\ partial' = TRUE /\ truncated' = TRUE /\ relations' = relations /\ queue' = <<>>
      /\ state' = "search" /\ state = "search" /\ outcome = "unknown"
  BY DEF Graph!Cut, Graph!input, Graph!prepared, Graph!answer
<1>2. Graph!FoundByCalls /\ request.goal \notin visited /\ request.mode = "path"
      /\ relations = <<>> /\ Graph!PreparedIsWhole
  BY <1>1 DEF Graph!CallGraphInvariant, Graph!SearchInvariant
<1>3. Graph!TypeOK'
  BY <1>1, TypesStay
<1>4. Graph!PreparedIsWhole'
  BY <1>1, <1>2, PreparedStays
<1>5. Graph!FoundByCalls'
  BY <1>1, <1>2 DEF Graph!FoundByCalls
<1>6. Graph!SearchInvariant'
  BY <1>1, <1>2, <1>5 DEF Graph!SearchInvariant
<1>7. Graph!PathSoFar' /\ Graph!CountsSoFar'
  BY <1>1 DEF Graph!PathSoFar, Graph!CountsSoFar
<1> QED
  BY <1>1, <1>2, <1>3, <1>4, <1>6, <1>7 DEF Graph!CallGraphInvariant

\* A search that is over in a selection that no call leaves has found what its calls
\* lead to, and nothing else.
LEMMA SearchIsReachable ==
  ASSUME Graph!CallGraphAssumption, Graph!TypeOK, Graph!FoundByCalls, Graph!ByLevel, queue = <<>>,
         edges = {c \in Calls : Graph!InSelection(c)}
  PROVE  visited = Graph!Reachable
<1>1. /\ request.start \in DOMAIN distance /\ distance \in [DOMAIN distance -> Nat]
      /\ DOMAIN distance \subseteq nodes /\ DOMAIN previous = DOMAIN distance \ {request.start}
      /\ \A d \in DOMAIN previous :
           /\ previous[d] \in edges /\ target[previous[d]] = d /\ source[previous[d]] \in DOMAIN distance
           /\ distance[d] = distance[source[previous[d]]] + 1
      /\ visited \subseteq DOMAIN distance
  BY DEF Graph!FoundByCalls
<1>2. 1..Len(queue) = {}
  OBVIOUS
<1>3. visited = DOMAIN distance
  <2>1. DOMAIN distance \subseteq visited \cup {queue[i] : i \in 1..Len(queue)}
    BY DEF Graph!ByLevel
  <2> QED  BY <1>1, <1>2, <2>1
<1>4. \A c \in Calls : Graph!InSelection(c) /\ source[c] \in visited => target[c] \in visited
  BY <1>3 DEF Graph!ByLevel
<1>5. visited \in SUBSET Definitions
  BY <1>1, <1>3, GraphTypes
<1>6. \A d \in Graph!Reachable : d \in visited
  BY <1>1, <1>3, <1>4, <1>5 DEF Graph!Reachable
<1>7. ASSUME NEW S \in SUBSET Definitions, request.start \in S,
             \A c \in Calls : Graph!InSelection(c) /\ source[c] \in S => target[c] \in S
      PROVE  DOMAIN distance \subseteq S
  <2> DEFINE In == {k \in Nat : \A d \in DOMAIN distance : distance[d] = k => d \in S}
  <2>1. ASSUME NEW d \in DOMAIN distance, d # request.start
        PROVE  \E e \in DOMAIN distance : distance[d] = distance[e] + 1 /\ (e \in S => d \in S)
    <3>1. /\ previous[d] \in edges /\ target[previous[d]] = d /\ source[previous[d]] \in DOMAIN distance
          /\ distance[d] = distance[source[previous[d]]] + 1
      BY <1>1, <2>1
    <3>2. source[previous[d]] \in S => d \in S
      BY <1>7, <3>1
    <3> QED  BY <3>1, <3>2
  <2>2. 0 \in In
    <3> SUFFICES ASSUME NEW d \in DOMAIN distance, distance[d] = 0  PROVE d \in S
      OBVIOUS
    <3>1. \A e \in DOMAIN distance : distance[e] \in Nat
      BY <1>1
    <3>2. d = request.start
      BY <2>1, <3>1
    <3> QED  BY <1>7, <3>2
  <2>3. \A k \in In : k + 1 \in In
    <3> SUFFICES ASSUME NEW k \in In, NEW d \in DOMAIN distance, distance[d] = k + 1
                 PROVE  d \in S
      OBVIOUS
    <3>1. CASE d = request.start
      BY <1>7, <3>1
    <3>2. CASE d # request.start
      <4>1. PICK e \in DOMAIN distance : distance[d] = distance[e] + 1 /\ (e \in S => d \in S)
        BY <2>1, <3>2
      <4>2. distance[e] = k
        <5>1. distance[e] \in Nat /\ k \in Nat
          BY <1>1
        <5> QED  BY <4>1, <5>1
      <4> QED  BY <4>1, <4>2
    <3> QED  BY <3>1, <3>2
  <2> HIDE DEF In
  <2>4. In = Nat
    <3>1. In \subseteq Nat
      BY DEF In
    <3> QED  BY <2>2, <2>3, <3>1, SetInduction
  <2> QED
    BY <1>1, <2>4 DEF In
<1>8. \A d \in visited : d \in Graph!Reachable
  BY <1>3, <1>5, <1>7 DEF Graph!Reachable
<1> QED
  BY <1>6, <1>8

\* A search that ends without a path.
LEMMA ConcludeKeeps ==
  ASSUME Graph!CallGraphAssumption, Graph!TypeOK, Graph!CallGraphInvariant, Graph!Conclude
  PROVE  /\ Graph!TypeOK' /\ Graph!CallGraphInvariant'
         /\ Graph!PathIsShortest' /\ Graph!NegativeIsCertain' /\ Graph!CountsAreWhole'
<1>1. /\ source' = source /\ target' = target /\ selection' = selection /\ request' = request
      /\ nodes' = nodes /\ edges' = edges /\ sites' = sites /\ frontier' = frontier
      /\ visited' = visited /\ truncated' = truncated
      /\ state' = "done" /\ state = "search" /\ outcome = "unknown" /\ queue = <<>>
      /\ partial' = (partial \/ request.goal \notin nodes \cup {Graph!Unresolved})
      /\ outcome' \in {"unknown", "not_found_in_selection", "reachability_complete"}
      /\ outcome' # "unknown" => Graph!Conclusive
  BY DEF Graph!Conclude, Graph!input, Graph!prepared, Graph!search
<1>2. Graph!FoundByCalls /\ request.goal \notin visited /\ request.mode = "path"
      /\ Graph!PreparedIsWhole /\ (~truncated => Graph!ByLevel)
  BY <1>1 DEF Graph!CallGraphInvariant, Graph!SearchInvariant
<1>3. Graph!TypeOK'
  BY <1>1, TypesStay
<1>4. Graph!PreparedIsWhole'
  <2>1. ~partial => ~truncated
    BY <1>1, <1>2 DEF Graph!PreparedIsWhole
  <2>2. ~partial' => ~partial
    BY <1>1
  <2> QED  BY <1>1, <1>2, <2>1, <2>2, PreparedStays
<1>5. Graph!SearchInvariant' /\ Graph!PathSoFar' /\ Graph!CountsSoFar'
  BY <1>1 DEF Graph!SearchInvariant, Graph!PathSoFar, Graph!CountsSoFar
<1>6. Graph!CallGraphInvariant'
  BY <1>1, <1>4, <1>5 DEF Graph!CallGraphInvariant
<1>7. ASSUME outcome' \in {"not_found_in_selection", "reachability_complete"}
      PROVE  /\ request.goal \notin Graph!Reachable /\ visited = Graph!Reachable
             /\ \A c \in Calls : Graph!InSelection(c)
             /\ ~request.input_truncated
  <2>1. ~truncated /\ ~partial
    BY <1>1, <1>7 DEF Graph!Conclusive
  <2>2. /\ ~request.input_truncated /\ edges = {c \in Calls : Graph!InSelection(c)}
        /\ frontier = {c \in Calls : ~Graph!InSelection(c)} /\ frontier = {}
    BY <1>1, <1>2, <2>1 DEF Graph!PreparedIsWhole
  <2>3. visited = Graph!Reachable
    BY <1>1, <1>2, <2>1, <2>2, SearchIsReachable
  <2> QED
    BY <1>2, <2>2, <2>3
<1>8. Graph!NegativeIsCertain'
  BY <1>1, <1>7, GraphStays DEF Graph!NegativeIsCertain
<1>9. Graph!PathIsShortest' /\ Graph!CountsAreWhole'
  BY <1>1, <1>2 DEF Graph!PathIsShortest, Graph!CountsAreWhole
<1> QED
  BY <1>3, <1>6, <1>8, <1>9

\* A path is found, and followed back a call at a time.
LEMMA TurnBackKeeps ==
  ASSUME Graph!CallGraphAssumption, Graph!TypeOK, Graph!CallGraphInvariant, Graph!TurnBack
  PROVE  Graph!TypeOK' /\ Graph!CallGraphInvariant' /\ state' # "done"
<1>1. /\ source' = source /\ target' = target /\ selection' = selection /\ request' = request
      /\ nodes' = nodes /\ edges' = edges /\ sites' = sites /\ frontier' = frontier
      /\ visited' = visited /\ distance' = distance /\ previous' = previous /\ queue' = queue
      /\ partial' = partial /\ truncated' = truncated /\ relations' = relations
      /\ outcome' = outcome /\ path' = <<request.goal>>
      /\ state' = "back" /\ state = "search" /\ outcome = "found"
  BY DEF Graph!TurnBack, Graph!input, Graph!prepared, Graph!search
<1>2. Graph!FoundByCalls /\ request.mode = "path" /\ Graph!PreparedIsWhole
      /\ request.goal \in DOMAIN distance
      /\ (\A n \in 0..distance[request.goal] - 1 : ~Graph!Leads(n)) /\ relations = <<>>
  BY <1>1 DEF Graph!CallGraphInvariant, Graph!SearchInvariant
<1>3. Graph!TypeOK'
  BY <1>1, TypesStay
<1>4. Graph!PreparedIsWhole'
  <2>1. ~partial => ~truncated
    BY <1>1, <1>2 DEF Graph!PreparedIsWhole
  <2> QED  BY <1>1, <1>2, <2>1, PreparedStays
<1>5. Graph!SearchInvariant'
  <2>1. Graph!FoundByCalls'
    BY <1>1, <1>2 DEF Graph!FoundByCalls
  <2>2. request'.goal \in DOMAIN distance' /\ \A n \in 0..distance'[request'.goal] - 1 : ~(Graph!Leads(n))'
    BY <1>1, <1>2, GraphStays
  <2> QED
    BY <1>1, <2>1, <2>2 DEF Graph!SearchInvariant
<1>6. Graph!PathSoFar'
  <2>1. distance[request.goal] \in Nat
    BY <1>2 DEF Graph!FoundByCalls
  <2>2. /\ path' \in Seq(DOMAIN distance') /\ relations' \in Seq(edges')
        /\ Len(path') = 1 /\ Len(relations') = 0 /\ path'[1] = request'.goal
    BY <1>1, <1>2
  <2>3. distance'[path'[1]] + Len(relations') = distance'[request'.goal]
    BY <1>1, <2>1, <2>2
  <2> QED
    BY <1>1, <2>2, <2>3 DEF Graph!PathSoFar
<1>7. Graph!CountsSoFar'
  BY <1>1 DEF Graph!CountsSoFar
<1> QED
  BY <1>1, <1>2, <1>3, <1>4, <1>5, <1>6, <1>7 DEF Graph!CallGraphInvariant

\* What is put in front of a sequence moves the rest by one.
LEMMA InFront ==
  ASSUME NEW S, NEW s \in Seq(S), NEW x \in S
  PROVE  /\ <<x>> \o s \in Seq(S) /\ Len(<<x>> \o s) = Len(s) + 1 /\ (<<x>> \o s)[1] = x
         /\ \A i \in 1..Len(s) : (<<x>> \o s)[i + 1] = s[i]
<1>1. <<x>> \in Seq(S) /\ Len(<<x>>) = 1 /\ <<x>>[1] = x
  OBVIOUS
<1>2. /\ <<x>> \o s \in Seq(S) /\ Len(<<x>> \o s) = 1 + Len(s)
      /\ \A i \in 1..1 + Len(s) : (<<x>> \o s)[i] = IF i <= 1 THEN <<x>>[i] ELSE s[i - 1]
  BY <1>1, ConcatProperties
<1>3. Len(s) \in Nat /\ \A i \in 1..Len(s) : i + 1 \in 1..1 + Len(s) /\ ~(i + 1 <= 1) /\ i + 1 - 1 = i
  OBVIOUS
<1>4. 1 \in 1..1 + Len(s) /\ 1 + Len(s) = Len(s) + 1
  BY <1>3
<1> QED
  BY <1>1, <1>2, <1>3, <1>4

\* One call back.
LEMMA GoBackKeeps ==
  ASSUME Graph!CallGraphAssumption, Graph!TypeOK, Graph!CallGraphInvariant, Graph!GoBack
  PROVE  Graph!TypeOK' /\ Graph!CallGraphInvariant' /\ state' # "done"
<1>1. PICK call : call = previous[Head(path)]
  OBVIOUS
<1>2. /\ source' = source /\ target' = target /\ selection' = selection /\ request' = request
      /\ nodes' = nodes /\ edges' = edges /\ sites' = sites /\ frontier' = frontier
      /\ visited' = visited /\ distance' = distance /\ previous' = previous /\ queue' = queue
      /\ partial' = partial /\ truncated' = truncated /\ outcome' = outcome
      /\ Head(path) \in DOMAIN previous
      /\ relations' = <<call>> \o relations /\ path' = <<source[call]>> \o path
      /\ state' = "back" /\ state = "back"
  BY <1>1 DEF Graph!GoBack, Graph!input, Graph!prepared, Graph!search
<1>3. Graph!FoundByCalls /\ request.mode = "path" /\ Graph!PreparedIsWhole /\ outcome = "found"
      /\ request.goal \in DOMAIN distance
      /\ (\A n \in 0..distance[request.goal] - 1 : ~Graph!Leads(n)) /\ Graph!PathSoFar
  BY <1>2 DEF Graph!CallGraphInvariant, Graph!SearchInvariant, Graph!PathSoFar
<1>4. Graph!TypeOK'
  BY <1>2, <1>3, TypesStay
<1>5. Graph!PreparedIsWhole'
  <2>1. ~partial => ~truncated
    BY <1>2, <1>3 DEF Graph!PreparedIsWhole
  <2> QED  BY <1>2, <1>3, <2>1, PreparedStays
<1>6. Graph!SearchInvariant'
  <2>1. Graph!FoundByCalls'
    BY <1>2, <1>3 DEF Graph!FoundByCalls
  <2>2. request'.goal \in DOMAIN distance' /\ \A n \in 0..distance'[request'.goal] - 1 : ~(Graph!Leads(n))'
    BY <1>2, <1>3, GraphStays
  <2> QED
    BY <1>2, <2>1, <2>2 DEF Graph!SearchInvariant
<1>7. Graph!PathSoFar'
  <2>1. /\ path \in Seq(DOMAIN distance) /\ relations \in Seq(edges)
        /\ Len(path) = Len(relations) + 1 /\ path[Len(path)] = request.goal
        /\ \A i \in 1..Len(relations) : source[relations[i]] = path[i] /\ target[relations[i]] = path[i + 1]
        /\ distance[path[1]] + Len(relations) = distance[request.goal]
    BY <1>2, <1>3 DEF Graph!PathSoFar
  <2>2. Len(path) \in Nat /\ Len(relations) \in Nat /\ Head(path) = path[1] /\ 1 \in 1..Len(path)
    BY <2>1
  <2>3. /\ call \in edges /\ target[call] = path[1] /\ source[call] \in DOMAIN distance
        /\ distance[path[1]] = distance[source[call]] + 1 /\ distance[source[call]] \in Nat
    BY <1>1, <1>2, <1>3, <2>2 DEF Graph!FoundByCalls
  <2>4. /\ path' \in Seq(DOMAIN distance) /\ Len(path') = Len(path) + 1 /\ path'[1] = source[call]
        /\ \A i \in 1..Len(path) : path'[i + 1] = path[i]
    BY <1>2, <2>1, <2>3, InFront
  <2>5. /\ relations' \in Seq(edges) /\ Len(relations') = Len(relations) + 1 /\ relations'[1] = call
        /\ \A i \in 1..Len(relations) : relations'[i + 1] = relations[i]
    BY <1>2, <2>1, <2>3, InFront
  <2>6. path'[Len(path')] = request.goal /\ Len(path') = Len(relations') + 1
    <3>1. Len(path) \in 1..Len(path)
      BY <2>1, <2>2
    <3> QED  BY <2>1, <2>4, <2>5, <3>1
  <2>7. ASSUME NEW i \in 1..Len(relations')
        PROVE  source[relations'[i]] = path'[i] /\ target[relations'[i]] = path'[i + 1]
    <3>1. CASE i = 1
      BY <2>2, <2>3, <2>4, <2>5, <3>1
    <3>2. CASE i # 1
      <4>1. PICK j \in 1..Len(relations) : i = j + 1
        <5>1. i - 1 \in 1..Len(relations) /\ i = (i - 1) + 1
          BY <2>2, <2>5, <3>2
        <5> QED  BY <5>1
      <4>2. j \in 1..Len(path) /\ j + 1 \in 1..Len(path)
        BY <2>1, <2>2
      <4> QED  BY <2>1, <2>4, <2>5, <4>1, <4>2
    <3> QED  BY <3>1, <3>2
  <2>8. distance[path'[1]] + Len(relations') = distance[request.goal]
    <3>1. distance[path'[1]] = distance[source[call]] /\ Len(relations') = Len(relations) + 1
      BY <2>4, <2>5
    <3>2. PICK k \in Nat : k = distance[source[call]]
      BY <2>3
    <3>3. PICK m \in Nat : m = Len(relations)
      BY <2>2
    <3>4. k + (m + 1) = (k + 1) + m
      OBVIOUS
    <3>5. (k + 1) + m = distance[request.goal]
      BY <2>1, <2>3, <3>2, <3>3
    <3> QED  BY <3>1, <3>2, <3>3, <3>4, <3>5
  <2>9. \A i \in 1..Len(relations') : source'[relations'[i]] = path'[i] /\ target'[relations'[i]] = path'[i + 1]
    BY <1>2, <2>7
  <2> QED
    BY <1>2, <1>3, <2>4, <2>5, <2>6, <2>8, <2>9 DEF Graph!PathSoFar
<1>8. Graph!CountsSoFar'
  BY <1>2 DEF Graph!CountsSoFar
<1> QED
  BY <1>2, <1>3, <1>4, <1>5, <1>6, <1>7, <1>8 DEF Graph!CallGraphInvariant

\* The start is where the path has come back to: it is as long as the goal is away.
LEMMA BackKeeps ==
  ASSUME Graph!CallGraphAssumption, Graph!TypeOK, Graph!CallGraphInvariant, Graph!Back
  PROVE  /\ Graph!TypeOK' /\ Graph!CallGraphInvariant'
         /\ Graph!PathIsShortest' /\ Graph!NegativeIsCertain' /\ Graph!CountsAreWhole'
<1>1. /\ source' = source /\ target' = target /\ selection' = selection /\ request' = request
      /\ nodes' = nodes /\ edges' = edges /\ sites' = sites /\ frontier' = frontier
      /\ partial' = partial /\ truncated' = truncated /\ outcome' = outcome
      /\ relations' = relations /\ path' = path
      /\ Head(path) \notin DOMAIN previous /\ state' = "done" /\ state = "back"
  BY DEF Graph!Back, Graph!input, Graph!prepared, Graph!search, Graph!answer
<1>2. Graph!FoundByCalls /\ request.mode = "path" /\ Graph!PreparedIsWhole /\ outcome = "found"
      /\ (\A n \in 0..distance[request.goal] - 1 : ~Graph!Leads(n)) /\ Graph!PathSoFar
  BY <1>1 DEF Graph!CallGraphInvariant, Graph!SearchInvariant, Graph!PathSoFar
<1>3. Graph!TypeOK'
  BY <1>1, <1>2, TypesStay
<1>4. Graph!PreparedIsWhole'
  <2>1. ~partial => ~truncated
    BY <1>1, <1>2 DEF Graph!PreparedIsWhole
  <2> QED  BY <1>1, <1>2, <2>1, PreparedStays
<1>5. Graph!SearchInvariant' /\ Graph!PathSoFar' /\ Graph!CountsSoFar'
  BY <1>1 DEF Graph!SearchInvariant, Graph!PathSoFar, Graph!CountsSoFar
<1>6. Graph!CallGraphInvariant'
  BY <1>1, <1>4, <1>5 DEF Graph!CallGraphInvariant
<1>7. Graph!PathIsShortest'
  <2>1. /\ path \in Seq(DOMAIN distance) /\ relations \in Seq(edges)
        /\ Len(path) = Len(relations) + 1 /\ path[Len(path)] = request.goal
        /\ \A i \in 1..Len(relations) : source[relations[i]] = path[i] /\ target[relations[i]] = path[i + 1]
        /\ distance[path[1]] + Len(relations) = distance[request.goal]
    BY <1>1, <1>2 DEF Graph!PathSoFar
  <2>2. Len(relations) \in Nat /\ Head(path) = path[1] /\ path[1] \in DOMAIN distance
    BY <2>1
  <2>3. path[1] = request.start /\ distance[path[1]] = 0
    BY <1>1, <1>2, <2>2 DEF Graph!FoundByCalls
  <2>4. Len(relations) = distance[request.goal]
    BY <2>1, <2>2, <2>3
  <2>5. \A i \in 1..Len(relations) : relations[i] \in edges
    BY <2>1
  <2>6. ~truncated => edges = {c \in Calls : Graph!InSelection(c)}
    BY <1>1, <1>2 DEF Graph!PreparedIsWhole
  <2>7. \A n \in 0..Len(relations') - 1 : ~(Graph!Leads(n))'
    BY <1>1, <1>2, <2>4, GraphStays
  <2>8. ~truncated' => edges' = {c \in Calls : (Graph!InSelection(c))'}
    BY <1>1, <2>6, GraphStays
  <2>9. /\ path'[1] = request'.start /\ path'[Len(path')] = request'.goal
        /\ Len(path') = Len(relations') + 1
        /\ \A i \in 1..Len(relations') :
             relations'[i] \in edges' /\ source'[relations'[i]] = path'[i]
             /\ target'[relations'[i]] = path'[i + 1]
    BY <1>1, <2>1, <2>3, <2>5
  <2> QED
    BY <2>7, <2>8, <2>9 DEF Graph!PathIsShortest
<1>8. Graph!NegativeIsCertain' /\ Graph!CountsAreWhole'
  BY <1>1, <1>2 DEF Graph!NegativeIsCertain, Graph!CountsAreWhole
<1> QED
  BY <1>3, <1>6, <1>7, <1>8

EndAt(S, end, d) == {x \in S : end[x] = d}

\* A call that is counted is one more of those with the same end.
LEMMA OneMoreCounted ==
  ASSUME NEW S, IsFiniteSet(S), NEW c, c \notin S, NEW T, T = S \cup {c}, NEW end, NEW d
  PROVE  /\ end[c] = d => Cardinality(EndAt(T, end, d)) = Cardinality(EndAt(S, end, d)) + 1
         /\ end[c] # d => Cardinality(EndAt(T, end, d)) = Cardinality(EndAt(S, end, d))
<1> DEFINE U == {x \in S : end[x] = d}
<1>1. IsFiniteSet(U) /\ c \notin U
  BY FS_Subset
<1>2. ASSUME end[c] = d  PROVE Cardinality({x \in T : end[x] = d}) = Cardinality(U) + 1
  <2>1. {x \in T : end[x] = d} = U \cup {c}
    BY <1>2
  <2> QED  BY <1>1, <2>1, FS_AddElement
<1>3. ASSUME end[c] # d  PROVE Cardinality({x \in T : end[x] = d}) = Cardinality(U)
  <2>1. {x \in T : end[x] = d} = U
    BY <1>3
  <2> QED  BY <2>1
<1> QED
  BY <1>2, <1>3 DEF EndAt

\* One call that is counted at its ends.
LEMMA CountCallKeeps ==
  ASSUME Graph!CallGraphAssumption, Graph!TypeOK, Graph!CallGraphInvariant, Graph!CountCall
  PROVE  Graph!TypeOK' /\ Graph!CallGraphInvariant' /\ state' # "done"
<1> DEFINE least == CHOOSE x \in sites \ counted : \A y \in sites \ counted : x <= y
<1>1. PICK c : c = least
  OBVIOUS
<1>2. /\ source' = source /\ target' = target /\ selection' = selection /\ request' = request
      /\ nodes' = nodes /\ edges' = edges /\ sites' = sites /\ frontier' = frontier
      /\ partial' = partial /\ truncated' = truncated /\ outcome' = outcome
      /\ counted # sites /\ counted' = counted \cup {c}
      /\ outgoing' = [outgoing EXCEPT ![source[c]] = outgoing[source[c]] + 1]
      /\ incoming' = IF target[c] \in nodes
                     THEN [incoming EXCEPT ![target[c]] = incoming[target[c]] + 1] ELSE incoming
      /\ state' = "count" /\ state = "count"
  BY <1>1 DEF Graph!CountCall, Graph!input, Graph!prepared, Graph!search, Graph!answer
<1>3. /\ outcome = "unknown" /\ Graph!PreparedIsWhole /\ counted \subseteq sites
      /\ outgoing = [d \in nodes |-> Graph!Cardinality({x \in counted : source[x] = d})]
      /\ incoming = [d \in nodes |-> Graph!Cardinality({x \in counted : target[x] = d})]
  BY <1>2 DEF Graph!CallGraphInvariant, Graph!CountsSoFar
<1>4. c \in sites \ counted
  <2>1. sites \ counted \subseteq Nat /\ sites \ counted # {}
    BY <1>2, <1>3, GraphTypes
  <2>2. \E x \in sites \ counted : \A y \in sites \ counted : x <= y
    BY <2>1, HasLeast
  <2> QED  BY <1>1, <2>2
<1>5. IsFiniteSet(counted) /\ source[c] \in nodes
  <2>1. counted \subseteq Calls /\ IsFiniteSet(Calls)
    BY <1>3, GraphTypes
  <2>2. IsFiniteSet(counted)
    BY <2>1, FS_Subset
  <2> QED  BY <1>4, <2>2, GraphTypes
<1>6. \A d : /\ source[c] = d =>
                 Cardinality({x \in counted' : source[x] = d}) = Cardinality({x \in counted : source[x] = d}) + 1
             /\ source[c] # d =>
                 Cardinality({x \in counted' : source[x] = d}) = Cardinality({x \in counted : source[x] = d})
             /\ target[c] = d =>
                 Cardinality({x \in counted' : target[x] = d}) = Cardinality({x \in counted : target[x] = d}) + 1
             /\ target[c] # d =>
                 Cardinality({x \in counted' : target[x] = d}) = Cardinality({x \in counted : target[x] = d})
  <2>1. IsFiniteSet(counted) /\ c \notin counted /\ counted' = counted \cup {c}
    BY <1>2, <1>4, <1>5
  <2>2. \A d : /\ source[c] = d => Cardinality(EndAt(counted', source, d)) = Cardinality(EndAt(counted, source, d)) + 1
               /\ source[c] # d => Cardinality(EndAt(counted', source, d)) = Cardinality(EndAt(counted, source, d))
               /\ target[c] = d => Cardinality(EndAt(counted', target, d)) = Cardinality(EndAt(counted, target, d)) + 1
               /\ target[c] # d => Cardinality(EndAt(counted', target, d)) = Cardinality(EndAt(counted, target, d))
    BY <2>1, OneMoreCounted
  <2> QED  BY <2>2 DEF EndAt
<1>7. /\ outgoing = [d \in nodes |-> Cardinality({x \in counted : source[x] = d})]
      /\ incoming = [d \in nodes |-> Cardinality({x \in counted : target[x] = d})]
  BY <1>3, GraphCounts
<1>8. outgoing' = [d \in nodes |-> Cardinality({x \in counted' : source[x] = d})]
  <2>1. outgoing' = [d \in nodes |-> IF d = source[c] THEN outgoing[d] + 1 ELSE outgoing[d]]
    BY <1>2, <1>7
  <2>2. \A d \in nodes : Cardinality({x \in counted' : source[x] = d}) =
                           IF d = source[c] THEN outgoing[d] + 1 ELSE outgoing[d]
    BY <1>6, <1>7
  <2> QED  BY <2>1, <2>2
<1>9. incoming' = [d \in nodes |-> Cardinality({x \in counted' : target[x] = d})]
  <2>1. incoming' = [d \in nodes |-> IF d = target[c] THEN incoming[d] + 1 ELSE incoming[d]]
    BY <1>2, <1>7
  <2>2. \A d \in nodes : Cardinality({x \in counted' : target[x] = d}) =
                           IF d = target[c] THEN incoming[d] + 1 ELSE incoming[d]
    BY <1>6, <1>7
  <2> QED  BY <2>1, <2>2
<1>10. Graph!CountsSoFar'
  <2>1. outgoing' = [d \in nodes' |-> Graph!Cardinality({x \in counted' : source'[x] = d})]
        /\ incoming' = [d \in nodes' |-> Graph!Cardinality({x \in counted' : target'[x] = d})]
    BY <1>2, <1>8, <1>9, GraphCounts
  <2>2. counted' \subseteq sites'
    BY <1>2, <1>3, <1>4
  <2> QED  BY <2>1, <2>2 DEF Graph!CountsSoFar
<1>11. Graph!TypeOK'
  BY <1>2, <1>3, TypesStay
<1>12. Graph!PreparedIsWhole'
  <2>1. ~partial => ~truncated
    BY <1>2, <1>3 DEF Graph!PreparedIsWhole
  <2> QED  BY <1>2, <1>3, <2>1, PreparedStays
<1>13. Graph!SearchInvariant' /\ Graph!PathSoFar'
  BY <1>2 DEF Graph!SearchInvariant, Graph!PathSoFar
<1> QED
  BY <1>2, <1>3, <1>10, <1>11, <1>12, <1>13 DEF Graph!CallGraphInvariant

\* All calls are counted, or the rest is given up and the answer says so.
LEMMA CountedKeeps ==
  ASSUME Graph!CallGraphAssumption, Graph!TypeOK, Graph!CallGraphInvariant, Graph!Counted
  PROVE  /\ Graph!TypeOK' /\ Graph!CallGraphInvariant'
         /\ Graph!PathIsShortest' /\ Graph!NegativeIsCertain' /\ Graph!CountsAreWhole'
<1>1. /\ source' = source /\ target' = target /\ selection' = selection /\ request' = request
      /\ nodes' = nodes /\ edges' = edges /\ sites' = sites /\ frontier' = frontier
      /\ outcome' = outcome /\ outgoing' = outgoing /\ incoming' = incoming
      /\ (stopped \/ counted = sites)
      /\ truncated' = (truncated \/ stopped) /\ partial' = (partial \/ stopped)
      /\ state' = "done" /\ state = "count"
  BY DEF Graph!Counted, Graph!input, Graph!prepared, Graph!tallies, Graph!answer
<1>2. /\ outcome = "unknown" /\ Graph!PreparedIsWhole
      /\ outgoing = [d \in nodes |-> Cardinality({x \in counted : source[x] = d})]
      /\ incoming = [d \in nodes |-> Cardinality({x \in counted : target[x] = d})]
  BY <1>1, GraphCounts DEF Graph!CallGraphInvariant, Graph!CountsSoFar
<1>3. Graph!TypeOK'
  BY <1>1, <1>2, TypesStay
<1>4. Graph!PreparedIsWhole'
  <2>1. ~partial => ~truncated
    BY <1>1, <1>2 DEF Graph!PreparedIsWhole
  <2>2. (~truncated' => ~truncated) /\ (~partial' => ~partial /\ ~truncated')
    BY <1>1, <2>1
  <2> QED  BY <1>1, <1>2, <2>2, PreparedStays
<1>5. Graph!SearchInvariant' /\ Graph!PathSoFar' /\ Graph!CountsSoFar'
  BY <1>1 DEF Graph!SearchInvariant, Graph!PathSoFar, Graph!CountsSoFar
<1>6. Graph!CallGraphInvariant'
  BY <1>1, <1>2, <1>4, <1>5 DEF Graph!CallGraphInvariant
<1>7. ASSUME ~truncated'
      PROVE  /\ DOMAIN outgoing' = selection' /\ DOMAIN incoming' = selection'
             /\ \A d \in selection' :
                  /\ outgoing'[d] = Graph!Cardinality({c \in Calls : source'[c] = d})
                  /\ incoming'[d] = Graph!Cardinality({c \in Calls : (Graph!InSelection(c))' /\ target'[c] = d})
             /\ frontier' = {c \in Calls : ~(Graph!InSelection(c))'}
  <2>1. ~truncated /\ counted = sites
    BY <1>1, <1>7
  <2>2. /\ nodes = selection /\ sites = {c \in Calls : source[c] \in selection}
        /\ frontier = {c \in Calls : ~Graph!InSelection(c)}
    BY <1>1, <1>2, <2>1 DEF Graph!PreparedIsWhole
  <2>3. \A d \in selection : {x \in counted : source[x] = d} = {c \in Calls : source[c] = d}
    BY <2>1, <2>2
  <2>4. \A d \in selection : {x \in counted : target[x] = d} = {c \in Calls : Graph!InSelection(c) /\ target[c] = d}
    BY <2>1, <2>2 DEF Graph!InSelection
  <2>5. \A d \in selection :
          /\ outgoing[d] = Graph!Cardinality({c \in Calls : source[c] = d})
          /\ incoming[d] = Graph!Cardinality({c \in Calls : Graph!InSelection(c) /\ target[c] = d})
    BY <1>2, <2>2, <2>3, <2>4, GraphCounts
  <2> QED
    BY <1>1, <1>2, <2>2, <2>5, GraphStays
<1>8. Graph!CountsAreWhole'
  BY <1>7 DEF Graph!CountsAreWhole
<1>9. Graph!PathIsShortest' /\ Graph!NegativeIsCertain'
  BY <1>1, <1>2 DEF Graph!PathIsShortest, Graph!NegativeIsCertain
<1> QED
  BY <1>3, <1>6, <1>8, <1>9

\* The selection is cut to its limits, as a whole or as far as a stop let it.
LEMMA SelectionIsCut ==
  ASSUME Graph!CallGraphAssumption, Graph!TypeOK, Graph!Prepare
  PROVE  /\ nodes' \subseteq selection /\ sites' \subseteq {c \in Calls : source[c] \in nodes'}
         /\ edges' = {c \in sites' : target[c] \in nodes'}
         /\ partial' = (truncated' \/ frontier' # {})
         /\ ~truncated' =>
              /\ ~request.input_truncated /\ nodes' = selection
              /\ sites' = {c \in Calls : source[c] \in selection}
              /\ frontier' = {c \in Calls : ~Graph!InSelection(c)}
<1>1. PICK n \in 0..Graph!Cardinality(selection), m \in 0..Graph!Cardinality(Calls) :
        LET whole == n = Graph!Cardinality(selection) /\ m = Graph!Cardinality(Calls)
            calls == Graph!FirstBuilt(Graph!First(Calls, request.max_edges), m)
        IN /\ nodes' = Graph!First(Graph!First(selection, n), request.max_nodes)
           /\ sites' = {c \in calls : source[c] \in nodes'}
           /\ edges' = Graph!Inner(sites', nodes')
           /\ frontier' = {c \in calls : Graph!Leaves(c, nodes')}
           /\ truncated' = (Graph!CutByLimits \/ ~whole)
           /\ partial' = (truncated' \/ frontier' # {})
  BY DEF Graph!Prepare
<1> DEFINE calls == Graph!FirstBuilt(Graph!First(Calls, request.max_edges), m)
<1>2. calls \subseteq Calls
  BY DEF Graph!First, Graph!FirstBuilt
<1>3. /\ nodes' = Graph!First(Graph!First(selection, n), request.max_nodes)
      /\ sites' = {c \in calls : source[c] \in nodes'}
      /\ edges' = {c \in sites' : target[c] \in nodes'}
      /\ frontier' = {c \in calls : source[c] \notin nodes' \/ target[c] \notin nodes'}
      /\ partial' = (truncated' \/ frontier' # {})
  BY <1>1 DEF Graph!Inner, Graph!Leaves
<1>4. nodes' \subseteq selection
  BY <1>3 DEF Graph!First
<1>5. ~truncated' => /\ n = Cardinality(selection) /\ m = Cardinality(Calls) /\ ~request.input_truncated
                     /\ ~(Cardinality(selection) > request.max_nodes) /\ ~(Cardinality(Calls) > request.max_edges)
  BY <1>1, GraphCounts DEF Graph!CutByLimits
<1> HIDE DEF calls
<1>6. ASSUME ~truncated'
      PROVE  nodes' = selection /\ calls = Calls
  <2>1. /\ IsFiniteSet(selection) /\ selection \subseteq Nat /\ Cardinality(selection) \in Nat
        /\ IsFiniteSet(Calls) /\ Calls \subseteq Nat /\ Cardinality(Calls) \in Nat
        /\ request.max_nodes \in Nat /\ request.max_edges \in Nat /\ \A c \in Calls : target[c] \in Nat
    BY GraphTypes, FS_CardinalityType
  <2>2. /\ n = Cardinality(selection) /\ m = Cardinality(Calls)
        /\ ~(Cardinality(selection) > request.max_nodes) /\ ~(Cardinality(Calls) > request.max_edges)
    BY <1>5, <1>6
  <2>3. /\ n \in Nat /\ m \in Nat /\ Cardinality(selection) <= n /\ Cardinality(Calls) <= m
        /\ Cardinality(selection) <= request.max_nodes /\ Cardinality(Calls) <= request.max_edges
    BY <2>1, <2>2
  <2>4. Graph!First(selection, n) = selection /\ Graph!First(Calls, request.max_edges) = Calls
        /\ Graph!First(selection, request.max_nodes) = selection
    BY <2>1, <2>3, FirstAreAll
  <2>5. Graph!FirstBuilt(Calls, m) = Calls
    BY <2>1, <2>3, BuiltAreAll
  <2> QED  BY <1>3, <2>4, <2>5 DEF calls
<1>7. ASSUME ~truncated'
      PROVE  /\ ~request.input_truncated /\ nodes' = selection
             /\ sites' = {c \in Calls : source[c] \in selection}
             /\ frontier' = {c \in Calls : ~Graph!InSelection(c)}
  BY <1>3, <1>5, <1>6, <1>7 DEF Graph!InSelection
<1>8. sites' \subseteq {c \in Calls : source[c] \in nodes'}
  BY <1>2, <1>3
<1> QED
  BY <1>3, <1>4, <1>7, <1>8

\* The graph is prepared, and a search or the counting begins.
LEMMA PrepareKeeps ==
  ASSUME Graph!CallGraphAssumption, Graph!TypeOK, Graph!CallGraphInvariant, Graph!Prepare
  PROVE  /\ Graph!TypeOK' /\ Graph!CallGraphInvariant'
         /\ Graph!PathIsShortest' /\ Graph!NegativeIsCertain' /\ Graph!CountsAreWhole'
<1>1. /\ source' = source /\ target' = target /\ selection' = selection /\ request' = request
      /\ counted' = counted /\ outcome' = outcome /\ path' = path /\ relations' = relations
      /\ state = "start"
      /\ \/ /\ request.mode = "metrics" /\ state' = "count"
            /\ outgoing' = [d \in nodes' |-> 0] /\ incoming' = [d \in nodes' |-> 0]
         \/ /\ request.mode # "metrics" /\ request.start \in nodes' /\ state' = "search"
            /\ queue' = <<request.start>> /\ distance' = [d \in {request.start} |-> 0]
            /\ visited' = visited /\ previous' = previous
         \/ /\ request.mode # "metrics" /\ state' \in {"done", "invalid"}
  BY DEF Graph!Prepare, Graph!input, Graph!search, Graph!answer
<1>2. /\ outcome = "unknown" /\ counted = {} /\ visited = {} /\ previous = <<>> /\ relations = <<>>
      /\ request.mode \in {"path", "metrics"}
  BY <1>1, GraphTypes DEF Graph!CallGraphInvariant
<1>3. Graph!TypeOK'
  BY <1>1, <1>2, SelectionIsCut DEF Graph!TypeOK, Graph!Inner, Graph!Requests
<1>4. Graph!PreparedIsWhole'
  <2>1. /\ ~truncated' =>
             /\ ~request'.input_truncated /\ nodes' = selection'
             /\ sites' = {c \in Calls : source'[c] \in selection'}
             /\ frontier' = {c \in Calls : ~(Graph!InSelection(c))'}
        /\ edges' = {c \in sites' : target'[c] \in nodes'}
        /\ ~partial' => ~truncated' /\ frontier' = {}
    BY <1>1, SelectionIsCut, GraphStays
  <2>2. ~truncated' => edges' = {c \in Calls : (Graph!InSelection(c))'}
    BY <2>1 DEF Graph!InSelection
  <2> QED  BY <2>1, <2>2 DEF Graph!PreparedIsWhole
<1>5. CASE state' = "search"
  <2>1. /\ request.start \in nodes' /\ request.mode = "path"
        /\ queue' = <<request.start>> /\ distance' = [d \in {request.start} |-> 0]
        /\ visited' = {} /\ previous' = <<>>
    BY <1>1, <1>2, <1>5
  <2>2. DOMAIN previous' = {} /\ DOMAIN distance' = {request.start}
    BY <2>1
  <2>3. queue' \in Seq({request.start}) /\ Len(queue') = 1 /\ queue'[1] = request.start
    BY <2>1
  <2>4. distance' \in [DOMAIN distance' -> Nat] /\ distance'[request.start] = 0
    BY <2>1
  <2>5. Graph!FoundByCalls'
    BY <1>1, <2>1, <2>2, <2>3, <2>4 DEF Graph!FoundByCalls
  <2>6. \A i \in 1..Len(queue') : i = 1
    BY <2>3
  <2>7. Graph!ByLevel'
    <3>1. 1 \in 1..Len(queue')
      BY <2>3
    <3>2. DOMAIN distance' \subseteq visited' \cup {queue'[i] : i \in 1..Len(queue')}
      BY <2>2, <2>3, <3>1
    <3>3. \A i, j \in 1..Len(queue') :
            distance'[queue'[i]] <= distance'[queue'[j]] /\ distance'[queue'[j]] <= distance'[queue'[i]] + 1
      <4>1. \A i \in 1..Len(queue') : distance'[queue'[i]] = 0
        BY <2>3, <2>4, <2>6
      <4>2. 0 <= 0 /\ 0 <= 0 + 1
        OBVIOUS
      <4> QED  BY <4>1, <4>2
    <3> QED  BY <2>1, <3>2, <3>3 DEF Graph!ByLevel
  <2>8. Graph!SearchInvariant'
    BY <1>1, <1>2, <2>1, <2>5, <2>7 DEF Graph!SearchInvariant
  <2>9. Graph!PathSoFar' /\ Graph!CountsSoFar'
    BY <1>5 DEF Graph!PathSoFar, Graph!CountsSoFar
  <2> QED
    BY <1>1, <1>2, <1>3, <1>4, <1>5, <2>1, <2>8, <2>9, NotDone DEF Graph!CallGraphInvariant
<1>6. CASE state' = "count"
  <2>1. request.mode = "metrics" /\ outgoing' = [d \in nodes' |-> 0] /\ incoming' = [d \in nodes' |-> 0]
    BY <1>1, <1>6
  <2>2. Graph!Cardinality({}) = 0
    BY GraphCounts, FS_EmptySet
  <2>3. \A d : {c \in counted' : source'[c] = d} = {} /\ {c \in counted' : target'[c] = d} = {}
    BY <1>1, <1>2
  <2>4. Graph!CountsSoFar'
    BY <1>1, <1>2, <2>1, <2>2, <2>3 DEF Graph!CountsSoFar
  <2>5. Graph!SearchInvariant' /\ Graph!PathSoFar'
    BY <1>6 DEF Graph!SearchInvariant, Graph!PathSoFar
  <2> QED
    BY <1>1, <1>2, <1>3, <1>4, <1>6, <2>4, <2>5, NotDone DEF Graph!CallGraphInvariant
<1>7. CASE state' \in {"done", "invalid"}
  <2>1. Graph!SearchInvariant' /\ Graph!PathSoFar' /\ Graph!CountsSoFar'
    BY <1>7 DEF Graph!SearchInvariant, Graph!PathSoFar, Graph!CountsSoFar
  <2>2. request.mode = "path"
    BY <1>1, <1>2, <1>7
  <2>3. Graph!PathIsShortest' /\ Graph!NegativeIsCertain' /\ Graph!CountsAreWhole'
    BY <1>1, <1>2, <2>2 DEF Graph!PathIsShortest, Graph!NegativeIsCertain, Graph!CountsAreWhole
  <2> QED
    BY <1>1, <1>2, <1>3, <1>4, <1>7, <2>1, <2>3 DEF Graph!CallGraphInvariant
<1> QED
  BY <1>1, <1>5, <1>6, <1>7

\* A stop, or nothing at all.
LEMMA GraphIdles ==
  ASSUME Graph!TypeOK, Graph!CallGraphInvariant,
         source' = source, target' = target, selection' = selection, request' = request,
         nodes' = nodes, edges' = edges, sites' = sites, frontier' = frontier,
         partial' = partial, truncated' = truncated, queue' = queue, visited' = visited,
         distance' = distance, previous' = previous, counted' = counted, outgoing' = outgoing,
         incoming' = incoming, outcome' = outcome, path' = path, relations' = relations, state' = state
  PROVE  /\ Graph!TypeOK' /\ Graph!CallGraphInvariant'
         /\ Graph!PathIsShortest => Graph!PathIsShortest'
         /\ Graph!NegativeIsCertain => Graph!NegativeIsCertain'
         /\ Graph!CountsAreWhole => Graph!CountsAreWhole'
<1>1. Graph!TypeOK'
  BY DEF Graph!TypeOK, Graph!Inner, Graph!Requests
<1>2. Graph!FoundByCalls => Graph!FoundByCalls'
  BY DEF Graph!FoundByCalls
<1>3. Graph!ByLevel => Graph!ByLevel'
  BY DEF Graph!ByLevel
<1>4. Graph!SearchInvariant'
  BY <1>2, <1>3, GraphStays DEF Graph!CallGraphInvariant, Graph!SearchInvariant
<1>5. Graph!PreparedIsWhole'
  BY GraphStays DEF Graph!CallGraphInvariant, Graph!PreparedIsWhole
<1>6. Graph!PathSoFar' /\ Graph!CountsSoFar'
  BY DEF Graph!CallGraphInvariant, Graph!PathSoFar, Graph!CountsSoFar
<1>7. Graph!CallGraphInvariant'
  BY <1>4, <1>5, <1>6 DEF Graph!CallGraphInvariant
<1>8. Graph!PathIsShortest => Graph!PathIsShortest'
  BY GraphStays DEF Graph!PathIsShortest
<1>9. Graph!NegativeIsCertain => Graph!NegativeIsCertain'
  BY GraphStays DEF Graph!NegativeIsCertain
<1>10. Graph!CountsAreWhole => Graph!CountsAreWhole'
  BY GraphStays DEF Graph!CountsAreWhole
<1> QED
  BY <1>1, <1>7, <1>8, <1>9, <1>10

\* A request that nothing was done for.
LEMMA GraphStarts ==
  ASSUME Graph!Init
  PROVE  Graph!CallGraphIsCertain
<1>1. Graph!TypeOK
  BY DEF Graph!Init, Graph!TypeOK, Graph!Inner, Graph!Requests
<1>2. Graph!CallGraphInvariant
  BY DEF Graph!Init, Graph!CallGraphInvariant, Graph!PreparedIsWhole, Graph!SearchInvariant,
         Graph!PathSoFar, Graph!CountsSoFar
<1>3. Graph!PathIsShortest /\ Graph!NegativeIsCertain /\ Graph!CountsAreWhole
  BY DEF Graph!Init, Graph!PathIsShortest, Graph!NegativeIsCertain, Graph!CountsAreWhole
<1> QED
  BY <1>1, <1>2, <1>3 DEF Graph!CallGraphIsCertain

\* A path that is found is a shortest one of the whole selection, unless the answer
\* says that it was cut; that there is none is said only when no call leads to the goal
\* or out of the selection; and the counts are those of all calls.
THEOREM CallGraphIsCertainHolds ==
  Graph!CallGraphAssumption => (Graph!Spec => []Graph!CallGraphIsCertain)
<1> SUFFICES ASSUME Graph!CallGraphAssumption  PROVE Graph!Spec => []Graph!CallGraphIsCertain
  OBVIOUS
<1>1. Graph!Init => Graph!CallGraphIsCertain
  BY GraphStarts
<1>2. ASSUME Graph!CallGraphIsCertain, [Graph!Next]_Graph!vars
      PROVE  Graph!CallGraphIsCertain'
  <2>1. Graph!TypeOK /\ Graph!CallGraphInvariant
    BY <1>2 DEF Graph!CallGraphIsCertain
  <2>2. CASE Graph!Prepare
    BY <2>1, <2>2, PrepareKeeps DEF Graph!CallGraphIsCertain
  <2>3. CASE Graph!Visit
    BY <2>1, <2>3, VisitKeeps, NotDone DEF Graph!CallGraphIsCertain
  <2>4. CASE Graph!Cut
    BY <2>1, <2>4, CutKeeps, NotDone DEF Graph!CallGraphIsCertain
  <2>5. CASE Graph!Conclude
    BY <2>1, <2>5, ConcludeKeeps DEF Graph!CallGraphIsCertain
  <2>6. CASE Graph!TurnBack
    BY <2>1, <2>6, TurnBackKeeps, NotDone DEF Graph!CallGraphIsCertain
  <2>7. CASE Graph!GoBack
    BY <2>1, <2>7, GoBackKeeps, NotDone DEF Graph!CallGraphIsCertain
  <2>8. CASE Graph!Back
    BY <2>1, <2>8, BackKeeps DEF Graph!CallGraphIsCertain
  <2>9. CASE Graph!CountCall
    BY <2>1, <2>9, CountCallKeeps, NotDone DEF Graph!CallGraphIsCertain
  <2>10. CASE Graph!Counted
    BY <2>1, <2>10, CountedKeeps DEF Graph!CallGraphIsCertain
  <2>11. CASE Graph!Stop \/ UNCHANGED Graph!vars
    <3>1. /\ source' = source /\ target' = target /\ selection' = selection /\ request' = request
          /\ nodes' = nodes /\ edges' = edges /\ sites' = sites /\ frontier' = frontier
          /\ partial' = partial /\ truncated' = truncated /\ queue' = queue /\ visited' = visited
          /\ distance' = distance /\ previous' = previous /\ counted' = counted
          /\ outgoing' = outgoing /\ incoming' = incoming /\ outcome' = outcome /\ path' = path
          /\ relations' = relations /\ state' = state
      BY <2>11 DEF Graph!Stop, Graph!vars, Graph!input, Graph!prepared, Graph!search, Graph!tallies,
                   Graph!answer
    <3> QED
      BY <1>2, <2>1, <3>1, GraphIdles DEF Graph!CallGraphIsCertain
  <2> QED
    BY <1>2, <2>2, <2>3, <2>4, <2>5, <2>6, <2>7, <2>8, <2>9, <2>10, <2>11 DEF Graph!Next
<1> QED
  BY <1>1, <1>2, PTL DEF Graph!Spec

-----------------------------------------------------------------------------
(* The assignments that reach a use.                                       *)

\* An instance counts as this module does.
LEMMA FlowsCounts ==
  /\ \A S : Flows!IsFiniteSet(S) <=> IsFiniteSet(S)
  /\ \A S : Flows!Cardinality(S) = Cardinality(S)
<1>1. \A S : Flows!IsFiniteSet(S) <=> IsFiniteSet(S)
  BY DEF Flows!IsFiniteSet, IsFiniteSet
<1>2. \A S : Flows!Cardinality(S) = Cardinality(S)
  BY DEF Flows!Cardinality, Cardinality
<1> QED
  BY <1>1, <1>2

FlowRuns == [env : [Locals -> Flows!Points \cup {Flows!Unset}], tainted : BOOLEAN]

\* What a step does to what is known, local by local.
LEMMA TransferIs ==
  ASSUME NEW s \in Flows!AbstractStates, NEW effects \in Flows!Effects, NEW p \in Flows!Points
  PROVE  LET t == Flows!transfer(s, effects, p) IN
         /\ t \in Flows!AbstractStates
         /\ \A l \in Locals : t.values[l] = IF l \in effects.defs THEN Flows!Defined(p)
                                            ELSE IF l \in effects.moves \cup effects.dead THEN Flows!Nothing
                                            ELSE s.values[l]
         /\ t.unknown <=> s.unknown \/ effects.unknown
<1> DEFINE Value(l) == IF l \in effects.defs THEN Flows!Defined(p)
                       ELSE IF l \in effects.moves \cup effects.dead THEN Flows!Nothing
                       ELSE s.values[l]
           t == [values |-> [l \in Locals |-> Value(l)], unknown |-> s.unknown \/ effects.unknown]
<1>1. s = [values |-> s.values, unknown |-> s.unknown] /\ s.values \in [Locals -> Flows!AbstractValues]
      /\ s.unknown \in BOOLEAN
  BY DEF Flows!AbstractStates
<1>2. Flows!transfer(s, effects, p) = t
  <2> DEFINE cleared == [s EXCEPT !.values =
                          [l \in Locals |-> IF l \in effects.moves \cup effects.dead THEN Flows!Nothing ELSE @[l]]]
  <2>1. /\ cleared.unknown = s.unknown /\ DOMAIN cleared = {"values", "unknown"}
        /\ cleared.values = [l \in Locals |-> IF l \in effects.moves \cup effects.dead THEN Flows!Nothing ELSE s.values[l]]
        /\ cleared = [values |-> cleared.values, unknown |-> cleared.unknown]
    BY <1>1
  <2> HIDE DEF cleared
  <2>2. PICK c : c = cleared
    OBVIOUS
  <2>3. PICK d : d = Flows!define(c, effects.defs, p)
    OBVIOUS
  <2>4. /\ d.unknown = c.unknown
        /\ d.values = [l \in Locals |-> IF l \in effects.defs THEN Flows!Defined(p) ELSE c.values[l]]
        /\ d = [values |-> d.values, unknown |-> d.unknown]
    BY <2>1, <2>2, <2>3 DEF Flows!define
  <2>5. d.values = [l \in Locals |-> Value(l)]
    BY <2>1, <2>2, <2>4
  <2>6. Flows!transfer(s, effects, p) = [d EXCEPT !.unknown = @ \/ effects.unknown]
    BY <2>2, <2>3 DEF Flows!transfer, cleared
  <2> HIDE DEF Value
  <2>7. [d EXCEPT !.unknown = @ \/ effects.unknown] = [values |-> d.values, unknown |-> d.unknown \/ effects.unknown]
    BY <2>4
  <2> QED  BY <2>1, <2>2, <2>4, <2>5, <2>6, <2>7
<1>3. ASSUME NEW l \in Locals
      PROVE  Value(l) \in Flows!AbstractValues
  <2>1. Flows!Defined(p) \in Flows!AbstractValues /\ Flows!Nothing \in Flows!AbstractValues
    BY DEF Flows!Defined, Flows!Nothing, Flows!AbstractValues
  <2> QED  BY <1>1, <2>1
<1>4. (s.unknown \/ effects.unknown) \in BOOLEAN
  OBVIOUS
<1> HIDE DEF Value
<1>5. t \in Flows!AbstractStates
  BY <1>3, <1>4 DEF Flows!AbstractStates
<1>6. \A l \in Locals : t.values[l] = Value(l)
  OBVIOUS
<1>7. t.unknown <=> s.unknown \/ effects.unknown
  OBVIOUS
<1> QED
  BY <1>2, <1>5, <1>6, <1>7 DEF Value

\* The same of an assignment.
LEMMA DefineIs ==
  ASSUME NEW s \in Flows!AbstractStates, NEW ls \in SUBSET Locals, NEW p \in Flows!Points
  PROVE  LET t == Flows!define(s, ls, p) IN
         /\ t \in Flows!AbstractStates
         /\ \A l \in Locals : t.values[l] = IF l \in ls THEN Flows!Defined(p) ELSE s.values[l]
         /\ t.unknown = s.unknown
<1>1. s = [values |-> s.values, unknown |-> s.unknown] /\ s.values \in [Locals -> Flows!AbstractValues]
      /\ s.unknown \in BOOLEAN
  BY DEF Flows!AbstractStates
<1> DEFINE t == [values |-> [l \in Locals |-> IF l \in ls THEN Flows!Defined(p) ELSE s.values[l]],
                 unknown |-> s.unknown]
<1>2. Flows!define(s, ls, p) = t
  BY <1>1 DEF Flows!define
<1>3. Flows!Defined(p) \in Flows!AbstractValues
  BY DEF Flows!Defined, Flows!AbstractValues
<1>4. t \in Flows!AbstractStates
  BY <1>1, <1>3 DEF Flows!AbstractStates
<1> QED
  BY <1>2, <1>4

\* States that know the same are the same.
LEMMA StatesEqual ==
  ASSUME NEW s \in Flows!AbstractStates, NEW t \in Flows!AbstractStates,
         Flows!AtMost(s, t), Flows!AtMost(t, s)
  PROVE  s = t
<1>1. /\ s = [values |-> s.values, unknown |-> s.unknown] /\ s.values \in [Locals -> Flows!AbstractValues]
      /\ t = [values |-> t.values, unknown |-> t.unknown] /\ t.values \in [Locals -> Flows!AbstractValues]
      /\ s.unknown \in BOOLEAN /\ t.unknown \in BOOLEAN
  BY DEF Flows!AbstractStates
<1>2. s.unknown = t.unknown
  BY <1>1 DEF Flows!AtMost
<1>3. ASSUME NEW l \in Locals
      PROVE  s.values[l] = t.values[l]
  <2>1. PICK v \in Flows!AbstractValues : v = s.values[l]
    BY <1>1
  <2>2. PICK w \in Flows!AbstractValues : w = t.values[l]
    BY <1>1
  <2>3. /\ v = [definitions |-> v.definitions, uninitialized |-> v.uninitialized] /\ v.uninitialized \in BOOLEAN
        /\ w = [definitions |-> w.definitions, uninitialized |-> w.uninitialized] /\ w.uninitialized \in BOOLEAN
    BY DEF Flows!AbstractValues
  <2>4. v.definitions = w.definitions /\ (v.uninitialized <=> w.uninitialized)
    BY <2>1, <2>2 DEF Flows!AtMost
  <2>5. v.uninitialized = w.uninitialized
    BY <2>3, <2>4
  <2> QED  BY <2>1, <2>2, <2>3, <2>4, <2>5
<1>4. s.values = t.values
  BY <1>1, <1>3
<1> QED
  BY <1>1, <1>2, <1>4

LEMMA KnowledgeIsOrdered ==
  /\ \A s : Flows!AtMost(s, s)
  /\ \A s, t, u : Flows!AtMost(s, t) /\ Flows!AtMost(t, u) => Flows!AtMost(s, u)
<1>1. \A s : Flows!AtMost(s, s)
  BY DEF Flows!AtMost
<1>2. ASSUME NEW s, NEW t, NEW u, Flows!AtMost(s, t), Flows!AtMost(t, u)
      PROVE  Flows!AtMost(s, u)
  <2>1. ASSUME NEW l \in Locals
        PROVE  /\ s.values[l].definitions \subseteq u.values[l].definitions
               /\ s.values[l].uninitialized => u.values[l].uninitialized
    BY <1>2 DEF Flows!AtMost
  <2>2. s.unknown => u.unknown
    BY <1>2 DEF Flows!AtMost
  <2> QED  BY <2>1, <2>2 DEF Flows!AtMost
<1> QED
  BY <1>1, <1>2

\* Who knows more knows more after a step and after an assignment.
LEMMA StepsKeepOrder ==
  ASSUME NEW s \in Flows!AbstractStates, NEW t \in Flows!AbstractStates, Flows!AtMost(s, t),
         NEW p \in Flows!Points
  PROVE  /\ \A effects \in Flows!Effects :
              Flows!AtMost(Flows!transfer(s, effects, p), Flows!transfer(t, effects, p))
         /\ \A ls \in SUBSET Locals : Flows!AtMost(Flows!define(s, ls, p), Flows!define(t, ls, p))
<1>1. ASSUME NEW effects \in Flows!Effects
      PROVE  Flows!AtMost(Flows!transfer(s, effects, p), Flows!transfer(t, effects, p))
  <2>1. PICK u : u = Flows!transfer(s, effects, p)
    OBVIOUS
  <2>2. PICK v : v = Flows!transfer(t, effects, p)
    OBVIOUS
  <2>3. /\ \A l \in Locals : u.values[l] = IF l \in effects.defs THEN Flows!Defined(p)
                                            ELSE IF l \in effects.moves \cup effects.dead THEN Flows!Nothing
                                            ELSE s.values[l]
        /\ u.unknown <=> s.unknown \/ effects.unknown
    BY <2>1, TransferIs
  <2>4. /\ \A l \in Locals : v.values[l] = IF l \in effects.defs THEN Flows!Defined(p)
                                            ELSE IF l \in effects.moves \cup effects.dead THEN Flows!Nothing
                                            ELSE t.values[l]
        /\ v.unknown <=> t.unknown \/ effects.unknown
    BY <2>2, TransferIs
  <2>5. Flows!AtMost(u, v)
    BY <2>3, <2>4 DEF Flows!AtMost
  <2> QED  BY <2>1, <2>2, <2>5
<1>2. ASSUME NEW ls \in SUBSET Locals
      PROVE  Flows!AtMost(Flows!define(s, ls, p), Flows!define(t, ls, p))
  <2>1. PICK u : u = Flows!define(s, ls, p)
    OBVIOUS
  <2>2. PICK v : v = Flows!define(t, ls, p)
    OBVIOUS
  <2>3. /\ \A l \in Locals : u.values[l] = IF l \in ls THEN Flows!Defined(p) ELSE s.values[l]
        /\ u.unknown = s.unknown
    BY <2>1, DefineIs
  <2>4. /\ \A l \in Locals : v.values[l] = IF l \in ls THEN Flows!Defined(p) ELSE t.values[l]
        /\ v.unknown = t.unknown
    BY <2>2, DefineIs
  <2>5. Flows!AtMost(u, v)
    BY <2>3, <2>4 DEF Flows!AtMost
  <2> QED  BY <2>1, <2>2, <2>5
<1> QED
  BY <1>1, <1>2

\* What some executions show.
LEMMA ShownIs ==
  ASSUME NEW R \in SUBSET FlowRuns, R # {}
  PROVE  LET s == Flows!Shown(R) IN
         /\ s \in Flows!AbstractStates
         /\ \A l \in Locals : /\ s.values[l].definitions = {r.env[l] : r \in R} \ {Flows!Unset}
                              /\ s.values[l].uninitialized <=> \E r \in R : r.env[l] = Flows!Unset
         /\ s.unknown <=> \E r \in R : r.tainted
<1> DEFINE Value(l) == [definitions |-> {r.env[l] : r \in R} \ {Flows!Unset},
                        uninitialized |-> \E r \in R : r.env[l] = Flows!Unset]
           some == \E r \in R : r.tainted
<1>1. Flows!Shown(R) = [values |-> [l \in Locals |-> Value(l)], unknown |-> some]
  BY DEF Flows!Shown
<1>2. ASSUME NEW l \in Locals
      PROVE  Value(l) \in Flows!AbstractValues
  <2>1. \A r \in R : r.env[l] \in Flows!Points \cup {Flows!Unset}
    BY DEF FlowRuns
  <2>2. {r.env[l] : r \in R} \ {Flows!Unset} \in SUBSET Flows!Points
    BY <2>1
  <2>3. {r.env[l] : r \in R} \ {Flows!Unset} = {} => \E r \in R : r.env[l] = Flows!Unset
    OBVIOUS
  <2>4. (\E r \in R : r.env[l] = Flows!Unset) \in BOOLEAN
    OBVIOUS
  <2> QED  BY <2>2, <2>3, <2>4 DEF Flows!AbstractValues
<1>3. some \in BOOLEAN
  OBVIOUS
<1> HIDE DEF Value, some
<1>4. Flows!Shown(R) \in Flows!AbstractStates
  BY <1>1, <1>2, <1>3 DEF Flows!AbstractStates
<1>5. (\A l \in Locals : Flows!Shown(R).values[l] = Value(l)) /\ Flows!Shown(R).unknown = some
  BY <1>1
<1>6. /\ \A l \in Locals : /\ Value(l).definitions = {r.env[l] : r \in R} \ {Flows!Unset}
                           /\ Value(l).uninitialized <=> \E r \in R : r.env[l] = Flows!Unset
      /\ some <=> \E r \in R : r.tainted
  BY DEF Value, some
<1> QED
  BY <1>4, <1>5, <1>6

\* Of more executions more is shown.
LEMMA ShownGrows ==
  ASSUME NEW R \in SUBSET FlowRuns, R # {}, NEW Q \in SUBSET FlowRuns, R \subseteq Q
  PROVE  Flows!AtMost(Flows!Shown(R), Flows!Shown(Q))
<1>1. PICK s : s = Flows!Shown(R)
  OBVIOUS
<1>2. PICK t : t = Flows!Shown(Q)
  OBVIOUS
<1>3. /\ \A l \in Locals : /\ s.values[l].definitions = {r.env[l] : r \in R} \ {Flows!Unset}
                           /\ s.values[l].uninitialized <=> \E r \in R : r.env[l] = Flows!Unset
      /\ s.unknown <=> \E r \in R : r.tainted
  BY <1>1, ShownIs
<1>4. Q # {}
  OBVIOUS
<1>5. /\ \A l \in Locals : /\ t.values[l].definitions = {r.env[l] : r \in Q} \ {Flows!Unset}
                           /\ t.values[l].uninitialized <=> \E r \in Q : r.env[l] = Flows!Unset
      /\ t.unknown <=> \E r \in Q : r.tainted
  BY <1>2, <1>4, ShownIs
<1>6. Flows!AtMost(s, t)
  BY <1>3, <1>5 DEF Flows!AtMost
<1> QED
  BY <1>1, <1>2, <1>6

\* No assignment is none.
LEMMA UnsetIsNoPoint == Flows!Unset \notin Flows!Points
BY DEF Flows!Unset, Flows!Points, Flows!Entry, Flows!Statement, Flows!Terminator, Flows!NormalReturn

\* What becomes of executions by a step, an assignment on return, the statement of a block,
\* and a block and one of its edges.
FlowAssign(r, ls, p) == [r EXCEPT !.env = [l \in Locals |-> IF l \in ls THEN p ELSE @[l]]]
FlowStep(b, e, r) ==
  Flows!Return(b, e, Flows!Execute(Flows!Midway(b, r), Flows!terminator_effects(b), Flows!Terminator(b)))
AllExecuted(R, effects, p) == {Flows!Execute(r, effects, p) : r \in R}
AllAssigned(R, ls, p) == {FlowAssign(r, ls, p) : r \in R}
AllMidway(b, R) == {Flows!Midway(b, r) : r \in R}
AllStepped(b, e, R) == {FlowStep(b, e, r) : r \in R}

\* What executions show when each local has become an assignment, nothing, or stayed.
LEMMA ShownOfChanged ==
  ASSUME NEW R \in SUBSET FlowRuns, R # {}, NEW g \in [R -> FlowRuns], NEW t \in Flows!AbstractStates,
         NEW s, s = Flows!Shown(R),
         \A l \in Locals :
           \/ \E p \in Flows!Points : t.values[l] = Flows!Defined(p) /\ \A r \in R : g[r].env[l] = p
           \/ t.values[l] = Flows!Nothing /\ \A r \in R : g[r].env[l] = Flows!Unset
           \/ t.values[l] = s.values[l] /\ \A r \in R : g[r].env[l] = r.env[l],
         t.unknown <=> \E r \in R : g[r].tainted
  PROVE  t = Flows!Shown({g[r] : r \in R})
<1>1. PICK Q : Q = {g[r] : r \in R}
  OBVIOUS
<1>2. Q \in SUBSET FlowRuns /\ Q # {}
  BY <1>1
<1>3. /\ \A l \in Locals : /\ s.values[l].definitions = {r.env[l] : r \in R} \ {Flows!Unset}
                           /\ s.values[l].uninitialized <=> \E r \in R : r.env[l] = Flows!Unset
  BY ShownIs
<1>4. PICK q : q = Flows!Shown(Q)
  OBVIOUS
<1>5. /\ q \in Flows!AbstractStates
      /\ \A l \in Locals : /\ q.values[l].definitions = {r.env[l] : r \in Q} \ {Flows!Unset}
                           /\ q.values[l].uninitialized <=> \E r \in Q : r.env[l] = Flows!Unset
      /\ q.unknown <=> \E r \in Q : r.tainted
  BY <1>2, <1>4, ShownIs
<1>6. ASSUME NEW l \in Locals
      PROVE  /\ t.values[l].definitions = q.values[l].definitions
             /\ t.values[l].uninitialized <=> q.values[l].uninitialized
  <2>1. PICK E : E = {r.env[l] : r \in Q}
    OBVIOUS
  <2>2. PICK D : D = {r.env[l] : r \in R}
    OBVIOUS
  <2>3. /\ \A x : x \in E <=> \E r \in R : x = g[r].env[l]
        /\ \A x : x \in D <=> \E r \in R : x = r.env[l]
        /\ q.values[l].definitions = E \ {Flows!Unset} /\ (q.values[l].uninitialized <=> Flows!Unset \in E)
        /\ s.values[l].definitions = D \ {Flows!Unset} /\ (s.values[l].uninitialized <=> Flows!Unset \in D)
    <3>1. \A x : x \in E <=> \E r \in R : x = g[r].env[l]
      BY <1>1, <2>1
    <3>2. \A x : x \in D <=> \E r \in R : x = r.env[l]
      BY <2>2
    <3>3. q.values[l].definitions = E \ {Flows!Unset} /\ s.values[l].definitions = D \ {Flows!Unset}
      BY <1>3, <1>5, <2>1, <2>2
    <3>4. (q.values[l].uninitialized <=> Flows!Unset \in E) /\ (s.values[l].uninitialized <=> Flows!Unset \in D)
      BY <1>3, <1>5, <2>1, <2>2
    <3> QED  BY <3>1, <3>2, <3>3, <3>4
  <2>4. ASSUME NEW p \in Flows!Points, t.values[l] = Flows!Defined(p), \A r \in R : g[r].env[l] = p
        PROVE  /\ t.values[l].definitions = q.values[l].definitions
               /\ t.values[l].uninitialized <=> q.values[l].uninitialized
    <3>1. E = {p}
      BY <2>3, <2>4
    <3>2. t.values[l].definitions = {p} /\ t.values[l].uninitialized = FALSE
      BY <2>4 DEF Flows!Defined
    <3>3. p # Flows!Unset
      BY UnsetIsNoPoint
    <3> QED  BY <2>3, <3>1, <3>2, <3>3
  <2>5. ASSUME t.values[l] = Flows!Nothing, \A r \in R : g[r].env[l] = Flows!Unset
        PROVE  /\ t.values[l].definitions = q.values[l].definitions
               /\ t.values[l].uninitialized <=> q.values[l].uninitialized
    <3>1. E = {Flows!Unset}
      BY <2>3, <2>5
    <3>2. t.values[l].definitions = {} /\ t.values[l].uninitialized = TRUE
      BY <2>5 DEF Flows!Nothing
    <3> QED  BY <2>3, <3>1, <3>2
  <2>6. ASSUME t.values[l] = s.values[l], \A r \in R : g[r].env[l] = r.env[l]
        PROVE  /\ t.values[l].definitions = q.values[l].definitions
               /\ t.values[l].uninitialized <=> q.values[l].uninitialized
    <3>1. \A x : x \in E <=> x \in D
      BY <2>3, <2>6
    <3>2. t.values[l].definitions = D \ {Flows!Unset}
      BY <2>3, <2>6
    <3>3. t.values[l].uninitialized <=> Flows!Unset \in D
      BY <2>3, <2>6
    <3> QED  BY <2>3, <3>1, <3>2, <3>3
  <2> QED  BY <2>4, <2>5, <2>6
<1>7. t.unknown <=> q.unknown
  <2>1. (\E r \in Q : r.tainted) <=> \E r \in R : g[r].tainted
    BY <1>1
  <2> QED  BY <1>5, <2>1
<1>8. Flows!AtMost(t, q) /\ Flows!AtMost(q, t)
  BY <1>6, <1>7 DEF Flows!AtMost
<1>9. t = q
  BY <1>5, <1>8, StatesEqual
<1> QED
  BY <1>1, <1>4, <1>9

\* What executions show behind a step is what the step makes of what they show in front of it.
LEMMA ExecuteShown ==
  ASSUME NEW R \in SUBSET FlowRuns, R # {}, NEW effects \in Flows!Effects, NEW p \in Flows!Points
  PROVE  /\ AllExecuted(R, effects, p) \in SUBSET FlowRuns /\ AllExecuted(R, effects, p) # {}
         /\ Flows!transfer(Flows!Shown(R), effects, p) = Flows!Shown(AllExecuted(R, effects, p))
<1>1. ASSUME NEW r \in R
      PROVE  /\ Flows!Execute(r, effects, p) \in FlowRuns
             /\ \A l \in Locals : Flows!Execute(r, effects, p).env[l] =
                  IF l \in effects.defs THEN p
                  ELSE IF l \in effects.moves \cup effects.dead THEN Flows!Unset ELSE r.env[l]
             /\ Flows!Execute(r, effects, p).tainted <=> r.tainted \/ effects.unknown
  <2>1. r.env \in [Locals -> Flows!Points \cup {Flows!Unset}]
    BY DEF FlowRuns
  <2>2. (r.tainted \/ effects.unknown) \in BOOLEAN
    OBVIOUS
  <2> QED
    BY <2>1, <2>2 DEF Flows!Execute, FlowRuns
<1>2. PICK s : s = Flows!Shown(R)
  OBVIOUS
<1>3. s \in Flows!AbstractStates /\ (s.unknown <=> \E r \in R : r.tainted)
  BY <1>2, ShownIs
<1>4. PICK t : t = Flows!transfer(s, effects, p)
  OBVIOUS
<1>5. /\ t \in Flows!AbstractStates
      /\ \A l \in Locals : t.values[l] = IF l \in effects.defs THEN Flows!Defined(p)
                                         ELSE IF l \in effects.moves \cup effects.dead THEN Flows!Nothing
                                         ELSE s.values[l]
      /\ t.unknown <=> s.unknown \/ effects.unknown
  BY <1>3, <1>4, TransferIs
<1>6. PICK g : g = [r \in R |-> Flows!Execute(r, effects, p)]
  OBVIOUS
<1>7. g \in [R -> FlowRuns] /\ \A r \in R : g[r] = Flows!Execute(r, effects, p)
  BY <1>1, <1>6
<1>8. ASSUME NEW l \in Locals
      PROVE  \/ \E x \in Flows!Points : t.values[l] = Flows!Defined(x) /\ \A r \in R : g[r].env[l] = x
             \/ t.values[l] = Flows!Nothing /\ \A r \in R : g[r].env[l] = Flows!Unset
             \/ t.values[l] = s.values[l] /\ \A r \in R : g[r].env[l] = r.env[l]
  BY <1>1, <1>5, <1>7
<1>9. t.unknown <=> \E r \in R : g[r].tainted
  BY <1>1, <1>3, <1>5, <1>7
<1>10. t = Flows!Shown({g[r] : r \in R})
  BY <1>2, <1>5, <1>7, <1>8, <1>9, ShownOfChanged
<1>11. {g[r] : r \in R} = AllExecuted(R, effects, p)
  BY <1>7 DEF AllExecuted
<1>12. AllExecuted(R, effects, p) \in SUBSET FlowRuns /\ AllExecuted(R, effects, p) # {}
  BY <1>1 DEF AllExecuted
<1> QED
  BY <1>2, <1>4, <1>10, <1>11, <1>12

\* The same of an assignment on return.
LEMMA DefineShown ==
  ASSUME NEW R \in SUBSET FlowRuns, R # {}, NEW ls \in SUBSET Locals, NEW p \in Flows!Points
  PROVE  /\ AllAssigned(R, ls, p) \in SUBSET FlowRuns /\ AllAssigned(R, ls, p) # {}
         /\ Flows!define(Flows!Shown(R), ls, p) = Flows!Shown(AllAssigned(R, ls, p))
<1>1. ASSUME NEW r \in R
      PROVE  /\ FlowAssign(r, ls, p) \in FlowRuns
             /\ \A l \in Locals : FlowAssign(r, ls, p).env[l] = IF l \in ls THEN p ELSE r.env[l]
             /\ FlowAssign(r, ls, p).tainted = r.tainted
  <2>1. PICK f \in FlowRuns : f = r
    OBVIOUS
  <2>2. [f EXCEPT !.env = [l \in Locals |-> IF l \in ls THEN p ELSE @[l]]] \in FlowRuns
    BY DEF FlowRuns
  <2>3. FlowAssign(r, ls, p) = [f EXCEPT !.env = [l \in Locals |-> IF l \in ls THEN p ELSE @[l]]]
    BY <2>1 DEF FlowAssign
  <2>4. /\ \A l \in Locals : FlowAssign(r, ls, p).env[l] = IF l \in ls THEN p ELSE f.env[l]
        /\ FlowAssign(r, ls, p).tainted = f.tainted
    BY <2>3 DEF FlowRuns
  <2> QED  BY <2>1, <2>2, <2>3, <2>4
<1>2. PICK s : s = Flows!Shown(R)
  OBVIOUS
<1>3. s \in Flows!AbstractStates /\ (s.unknown <=> \E r \in R : r.tainted)
  BY <1>2, ShownIs
<1>4. PICK t : t = Flows!define(s, ls, p)
  OBVIOUS
<1>5. /\ t \in Flows!AbstractStates
      /\ \A l \in Locals : t.values[l] = IF l \in ls THEN Flows!Defined(p) ELSE s.values[l]
      /\ t.unknown = s.unknown
  BY <1>3, <1>4, DefineIs
<1>6. PICK g : g = [r \in R |-> FlowAssign(r, ls, p)]
  OBVIOUS
<1>7. g \in [R -> FlowRuns] /\ \A r \in R : g[r] = FlowAssign(r, ls, p)
  BY <1>1, <1>6
<1>8. ASSUME NEW l \in Locals
      PROVE  \/ \E x \in Flows!Points : t.values[l] = Flows!Defined(x) /\ \A r \in R : g[r].env[l] = x
             \/ t.values[l] = Flows!Nothing /\ \A r \in R : g[r].env[l] = Flows!Unset
             \/ t.values[l] = s.values[l] /\ \A r \in R : g[r].env[l] = r.env[l]
  BY <1>1, <1>5, <1>7
<1>9. t.unknown <=> \E r \in R : g[r].tainted
  BY <1>1, <1>3, <1>5, <1>7
<1>10. t = Flows!Shown({g[r] : r \in R})
  BY <1>2, <1>5, <1>7, <1>8, <1>9, ShownOfChanged
<1>11. {g[r] : r \in R} = AllAssigned(R, ls, p)
  BY <1>7 DEF AllAssigned
<1>12. AllAssigned(R, ls, p) \in SUBSET FlowRuns /\ AllAssigned(R, ls, p) # {}
  BY <1>1 DEF AllAssigned
<1> QED
  BY <1>2, <1>4, <1>10, <1>11, <1>12

\* The code of a block.
LEMMA CodeIs ==
  ASSUME Flows!DataflowAssumption, body \in Bodies, NEW b \in Blocks
  PROVE  /\ body[b].statement \in Flows!Effects /\ Flows!terminator_effects(b) \in Flows!Effects
         /\ body[b].returns \in SUBSET Locals
         /\ Flows!Statement(b) \in Flows!Points /\ Flows!Terminator(b) \in Flows!Points
         /\ Flows!Entry \in Flows!Points
         /\ \A t \in Blocks : Flows!NormalReturn(b, t) \in Flows!Points
         /\ \A step \in {1, 2} : /\ Flows!EffectsAt(b, step) \in Flows!Effects
                                 /\ Flows!PointAt(b, step) \in Flows!Points
<1>1. /\ body[b].statement \in Flows!Effects /\ body[b].effects \in Flows!Effects
      /\ body[b].returns \in SUBSET Locals /\ body[b].suspends \in BOOLEAN
  BY DEF Flows!DataflowAssumption
<1>2. Flows!terminator_effects(b) \in Flows!Effects
  <2>1. PICK f \in Flows!Effects : f = body[b].effects
    BY <1>1
  <2>2. (f.unknown \/ body[b].suspends) \in BOOLEAN
    OBVIOUS
  <2>3. [f EXCEPT !.unknown = @ \/ body[b].suspends] \in Flows!Effects
    BY <2>2 DEF Flows!Effects
  <2> QED  BY <2>1, <2>3 DEF Flows!terminator_effects
<1>3. /\ Flows!Statement(b) \in Flows!Points /\ Flows!Terminator(b) \in Flows!Points
      /\ Flows!Entry \in Flows!Points
      /\ \A t \in Blocks : Flows!NormalReturn(b, t) \in Flows!Points
  BY DEF Flows!Points
<1> QED
  BY <1>1, <1>2, <1>3 DEF Flows!EffectsAt, Flows!PointAt

\* What executions show in the middle of a block is what its statement makes of what they
\* show in front of it.
LEMMA MidwayShown ==
  ASSUME Flows!DataflowAssumption, body \in Bodies, NEW b \in Blocks, NEW R \in SUBSET FlowRuns, R # {}
  PROVE  /\ AllMidway(b, R) \in SUBSET FlowRuns /\ AllMidway(b, R) # {}
         /\ Flows!transfer(Flows!Shown(R), body[b].statement, Flows!Statement(b)) = Flows!Shown(AllMidway(b, R))
<1>1. PICK effects \in Flows!Effects : effects = body[b].statement
  BY CodeIs
<1>2. PICK p \in Flows!Points : p = Flows!Statement(b)
  BY CodeIs
<1>3. AllMidway(b, R) = AllExecuted(R, effects, p)
  BY <1>1, <1>2 DEF Flows!Midway, AllMidway, AllExecuted
<1> QED
  BY <1>1, <1>2, <1>3, ExecuteShown

\* What executions show behind an edge is what flows along it.
LEMMA AlongShown ==
  ASSUME Flows!DataflowAssumption, body \in Bodies, NEW b \in Blocks, NEW e, e.target \in Blocks,
         NEW R \in SUBSET FlowRuns, R # {}
  PROVE  /\ AllStepped(b, e, R) \in SUBSET FlowRuns /\ AllStepped(b, e, R) # {}
         /\ Flows!Along(b, e, Flows!AfterBlock(b, Flows!Shown(R))) = Flows!Shown(AllStepped(b, e, R))
<1>1. PICK M \in SUBSET FlowRuns : M = AllMidway(b, R)
  BY MidwayShown
<1>2. M # {} /\ Flows!transfer(Flows!Shown(R), body[b].statement, Flows!Statement(b)) = Flows!Shown(M)
  BY <1>1, MidwayShown
<1>3. PICK effects \in Flows!Effects : effects = Flows!terminator_effects(b)
  BY CodeIs
<1>4. PICK p \in Flows!Points : p = Flows!Terminator(b)
  BY CodeIs
<1>5. PICK T \in SUBSET FlowRuns : T = AllExecuted(M, effects, p)
  BY <1>2, ExecuteShown
<1>6. T # {} /\ Flows!AfterBlock(b, Flows!Shown(R)) = Flows!Shown(T)
  <2>1. T # {} /\ Flows!transfer(Flows!Shown(M), effects, p) = Flows!Shown(T)
    BY <1>2, <1>5, ExecuteShown
  <2> QED  BY <1>2, <1>3, <1>4, <2>1 DEF Flows!AfterBlock
<1>7. \A x : x \in T <=> \E r \in R : x = Flows!Execute(Flows!Midway(b, r), effects, p)
  BY <1>1, <1>5 DEF AllMidway, AllExecuted
<1>8. \A r : FlowStep(b, e, r) = Flows!Return(b, e, Flows!Execute(Flows!Midway(b, r), effects, p))
  BY <1>3, <1>4 DEF FlowStep
<1>9. CASE e.kind = "normal"
  <2>1. PICK ls \in SUBSET Locals : ls = body[b].returns
    BY CodeIs
  <2>2. PICK q \in Flows!Points : q = Flows!NormalReturn(b, e.target)
    BY CodeIs
  <2>3. \A r : Flows!Return(b, e, r) = FlowAssign(r, ls, q)
    BY <1>9, <2>1, <2>2 DEF Flows!Return, FlowAssign
  <2>4. \A x : x \in AllAssigned(T, ls, q) <=> x \in AllStepped(b, e, R)
    BY <1>7, <1>8, <2>3 DEF AllAssigned, AllStepped
  <2>5. AllAssigned(T, ls, q) = AllStepped(b, e, R)
    BY <2>4 DEF AllAssigned, AllStepped
  <2>6. Flows!Along(b, e, Flows!Shown(T)) = Flows!define(Flows!Shown(T), ls, q)
    BY <1>9, <2>1, <2>2 DEF Flows!Along
  <2> QED  BY <1>6, <2>5, <2>6, DefineShown
<1>10. CASE e.kind # "normal"
  <2>1. \A r : Flows!Return(b, e, r) = r
    BY <1>10 DEF Flows!Return
  <2>2. \A x : x \in T <=> x \in AllStepped(b, e, R)
    BY <1>7, <1>8, <2>1 DEF AllStepped
  <2>3. T = AllStepped(b, e, R)
    BY <2>2 DEF AllStepped
  <2>4. Flows!Along(b, e, Flows!Shown(T)) = Flows!Shown(T)
    BY <1>10 DEF Flows!Along
  <2> QED  BY <1>6, <2>3, <2>4
<1> QED
  BY <1>9, <1>10

\* Of more in front of a block there is more behind its edges.
LEMMA AlongGrows ==
  ASSUME Flows!DataflowAssumption, body \in Bodies, NEW b \in Blocks, NEW e, e.target \in Blocks,
         NEW s \in Flows!AbstractStates
  PROVE  /\ Flows!AfterBlock(b, s) \in Flows!AbstractStates
         /\ Flows!Along(b, e, Flows!AfterBlock(b, s)) \in Flows!AbstractStates
         /\ \A t \in Flows!AbstractStates : Flows!AtMost(s, t) =>
              Flows!AtMost(Flows!Along(b, e, Flows!AfterBlock(b, s)), Flows!Along(b, e, Flows!AfterBlock(b, t)))
<1>1. \A u \in Flows!AbstractStates :
        /\ Flows!AfterBlock(b, u) \in Flows!AbstractStates
        /\ Flows!Along(b, e, Flows!AfterBlock(b, u)) \in Flows!AbstractStates
  <2> SUFFICES ASSUME NEW u \in Flows!AbstractStates
               PROVE  /\ Flows!AfterBlock(b, u) \in Flows!AbstractStates
                      /\ Flows!Along(b, e, Flows!AfterBlock(b, u)) \in Flows!AbstractStates
    OBVIOUS
  <2>1. Flows!transfer(u, body[b].statement, Flows!Statement(b)) \in Flows!AbstractStates
    BY CodeIs, TransferIs
  <2>2. Flows!AfterBlock(b, u) \in Flows!AbstractStates
    BY <2>1, CodeIs, TransferIs DEF Flows!AfterBlock
  <2>3. Flows!define(Flows!AfterBlock(b, u), body[b].returns, Flows!NormalReturn(b, e.target)) \in Flows!AbstractStates
    <3>1. PICK ls \in SUBSET Locals : ls = body[b].returns
      BY CodeIs
    <3>2. PICK p \in Flows!Points : p = Flows!NormalReturn(b, e.target)
      BY CodeIs
    <3>3. Flows!define(Flows!AfterBlock(b, u), ls, p) \in Flows!AbstractStates
      BY <2>2, DefineIs
    <3> QED  BY <3>1, <3>2, <3>3
  <2> QED  BY <2>2, <2>3 DEF Flows!Along
<1>2. ASSUME NEW t \in Flows!AbstractStates, Flows!AtMost(s, t)
      PROVE  Flows!AtMost(Flows!Along(b, e, Flows!AfterBlock(b, s)), Flows!Along(b, e, Flows!AfterBlock(b, t)))
  <2>1. PICK u \in Flows!AbstractStates : u = Flows!transfer(s, body[b].statement, Flows!Statement(b))
    BY CodeIs, TransferIs
  <2>2. PICK v \in Flows!AbstractStates : v = Flows!transfer(t, body[b].statement, Flows!Statement(b))
    BY CodeIs, TransferIs
  <2>3. Flows!AtMost(u, v)
    BY <1>2, <2>1, <2>2, CodeIs, StepsKeepOrder
  <2>4. Flows!AtMost(Flows!AfterBlock(b, s), Flows!AfterBlock(b, t))
    BY <2>1, <2>2, <2>3, CodeIs, StepsKeepOrder DEF Flows!AfterBlock
  <2>5. Flows!AtMost(Flows!define(Flows!AfterBlock(b, s), body[b].returns, Flows!NormalReturn(b, e.target)),
                     Flows!define(Flows!AfterBlock(b, t), body[b].returns, Flows!NormalReturn(b, e.target)))
    BY <1>1, <2>4, CodeIs, StepsKeepOrder
  <2> QED  BY <2>4, <2>5 DEF Flows!Along
<1> QED
  BY <1>1, <1>2

\* Where states come together is the least that knows what each of them knows.
LEMMA JoinIs ==
  ASSUME NEW all \in SUBSET Flows!AbstractStates, all # {}
  PROVE  /\ Flows!join(all) \in Flows!AbstractStates
         /\ \A s \in all : Flows!AtMost(s, Flows!join(all))
         /\ \A t : (\A s \in all : Flows!AtMost(s, t)) => Flows!AtMost(Flows!join(all), t)
<1> DEFINE Value(l) == [definitions |-> UNION {s.values[l].definitions : s \in all},
                        uninitialized |-> \E s \in all : s.values[l].uninitialized]
           some == \E s \in all : s.unknown
<1>1. PICK j : j = Flows!join(all)
  OBVIOUS
<1>2. j = [values |-> [l \in Locals |-> Value(l)], unknown |-> some]
  BY <1>1 DEF Flows!join
<1>3. ASSUME NEW l \in Locals
      PROVE  /\ Value(l) \in Flows!AbstractValues
             /\ \A p : p \in Value(l).definitions <=> \E s \in all : p \in s.values[l].definitions
             /\ Value(l).uninitialized <=> \E s \in all : s.values[l].uninitialized
  <2>1. \A s \in all : s.values[l] \in Flows!AbstractValues
    BY DEF Flows!AbstractStates
  <2>2. \A s \in all : /\ s.values[l].definitions \subseteq Flows!Points
                       /\ s.values[l].definitions = {} => s.values[l].uninitialized
    BY <2>1 DEF Flows!AbstractValues
  <2>3. PICK D : D = UNION {s.values[l].definitions : s \in all}
    OBVIOUS
  <2>4. \A p : p \in D <=> \E s \in all : p \in s.values[l].definitions
    BY <2>3
  <2>5. PICK gap \in BOOLEAN : gap <=> \E s \in all : s.values[l].uninitialized
    <3>1. (\E s \in all : s.values[l].uninitialized) \in BOOLEAN
      OBVIOUS
    <3> QED  BY <3>1
  <2>6. D \in SUBSET Flows!Points /\ (D = {} => gap)
    BY <2>2, <2>4, <2>5
  <2>7. Value(l) = [definitions |-> D, uninitialized |-> gap]
    BY <2>3, <2>5
  <2> HIDE DEF Value
  <2>8. Value(l) \in Flows!AbstractValues
    BY <2>6, <2>7 DEF Flows!AbstractValues
  <2> QED  BY <2>4, <2>5, <2>7, <2>8
<1>4. some \in BOOLEAN /\ (some <=> \E s \in all : s.unknown)
  OBVIOUS
<1> HIDE DEF Value, some
<1>5. j \in Flows!AbstractStates
  BY <1>2, <1>3, <1>4 DEF Flows!AbstractStates
<1>6. /\ \A l \in Locals : /\ \A p : p \in j.values[l].definitions <=> \E s \in all : p \in s.values[l].definitions
                           /\ j.values[l].uninitialized <=> \E s \in all : s.values[l].uninitialized
      /\ j.unknown <=> \E s \in all : s.unknown
  BY <1>2, <1>3, <1>4
<1>7. \A s \in all : Flows!AtMost(s, j)
  BY <1>6 DEF Flows!AtMost
<1>8. ASSUME NEW t, \A s \in all : Flows!AtMost(s, t)
      PROVE  Flows!AtMost(j, t)
  BY <1>6, <1>8 DEF Flows!AtMost
<1> QED
  BY <1>1, <1>5, <1>7, <1>8

\* One step of an execution leads to a block.
LEMMA SuccessorsAre ==
  ASSUME Flows!DataflowAssumption, body \in Bodies, Flows!WellFormed, NEW b \in Blocks, NEW r \in FlowRuns
  PROVE  /\ \A c : c \in Flows!Successors(<<b, r>>) <=>
                \E e \in Flows!RuntimeEdges(b) : c = <<e.target, FlowStep(b, e, r)>>
         /\ \A e \in Flows!RuntimeEdges(b) : e.target \in Blocks /\ FlowStep(b, e, r) \in FlowRuns
<1>1. \A c : c \in Flows!Successors(<<b, r>>) <=>
         \E e \in Flows!RuntimeEdges(b) : c = <<e.target, FlowStep(b, e, r)>>
  BY DEF Flows!Successors, FlowStep
<1>2. ASSUME NEW e \in Flows!RuntimeEdges(b)
      PROVE  e.target \in Blocks /\ FlowStep(b, e, r) \in FlowRuns
  <2>1. e.target \in Blocks
    BY DEF Flows!RuntimeEdges, Flows!WellFormed
  <2>2. PICK R \in SUBSET FlowRuns : R = {r} /\ R # {}
    OBVIOUS
  <2>3. AllStepped(b, e, R) \in SUBSET FlowRuns
    BY <2>1, <2>2, AlongShown
  <2>4. FlowStep(b, e, r) \in AllStepped(b, e, R)
    BY <2>2 DEF AllStepped
  <2> QED  BY <2>1, <2>3, <2>4
<1> QED
  BY <1>1, <1>2

\* There are finitely many assignments, and so finitely many states of executions.
LEMMA ConfigurationsAreFinite ==
  ASSUME Flows!DataflowAssumption
  PROVE  IsFiniteSet(Blocks \X FlowRuns) /\ Flows!Configurations = Blocks \X FlowRuns
<1>1. IsFiniteSet(Blocks) /\ IsFiniteSet(Locals)
  BY FlowsCounts DEF Flows!DataflowAssumption
<1>2. IsFiniteSet(Flows!Points \cup {Flows!Unset})
  <2>1. PICK A : A = {Flows!Statement(b) : b \in Blocks}
    OBVIOUS
  <2>2. PICK B : B = {Flows!Terminator(b) : b \in Blocks}
    OBVIOUS
  <2>3. PICK C : C = {p \in Flows!Points : \E b \in Blocks, t \in Blocks : p = Flows!NormalReturn(b, t)}
    OBVIOUS
  <2>4. IsFiniteSet(A)
    <3>1. PICK f : f = [b \in Blocks |-> Flows!Statement(b)]
      OBVIOUS
    <3>2. \A y \in A : \E b \in Blocks : y = f[b]
      BY <2>1, <3>1
    <3> QED  BY <1>1, <3>2, ValuesAreFinite
  <2>5. IsFiniteSet(B)
    <3>1. PICK f : f = [b \in Blocks |-> Flows!Terminator(b)]
      OBVIOUS
    <3>2. \A y \in B : \E b \in Blocks : y = f[b]
      BY <2>2, <3>1
    <3> QED  BY <1>1, <3>2, ValuesAreFinite
  <2>6. IsFiniteSet(C)
    <3>1. PICK f : f = [p \in Blocks \X Blocks |-> Flows!NormalReturn(p[1], p[2])]
      OBVIOUS
    <3>2. ASSUME NEW y \in C
          PROVE  \E p \in Blocks \X Blocks : y = f[p]
      <4>1. PICK b \in Blocks, t \in Blocks : y = Flows!NormalReturn(b, t)
        BY <2>3
      <4>2. <<b, t>> \in Blocks \X Blocks /\ f[<<b, t>>] = Flows!NormalReturn(b, t)
        BY <3>1
      <4> QED  BY <4>1, <4>2
    <3>3. IsFiniteSet(Blocks \X Blocks)
      BY <1>1, FS_Product
    <3> QED  BY <3>2, <3>3, ValuesAreFinite
  <2>7. IsFiniteSet({Flows!Entry}) /\ IsFiniteSet({Flows!Unset})
    BY FS_Singleton
  <2>8. Flows!Points \cup {Flows!Unset} = ((({Flows!Entry} \cup A) \cup B) \cup C) \cup {Flows!Unset}
    <3>1. /\ Flows!Entry \in Flows!Points /\ \A b \in Blocks : Flows!Statement(b) \in Flows!Points
          /\ \A b \in Blocks : Flows!Terminator(b) \in Flows!Points
      BY DEF Flows!Points
    <3>2. A \subseteq Flows!Points /\ B \subseteq Flows!Points /\ C \subseteq Flows!Points
      BY <2>1, <2>2, <2>3, <3>1
    <3>3. \A p \in Flows!Points : p \in {Flows!Entry} \/ p \in A \/ p \in B \/ p \in C
      BY <2>1, <2>2, <2>3 DEF Flows!Points
    <3> QED  BY <3>1, <3>2, <3>3
  <2> QED  BY <2>4, <2>5, <2>6, <2>7, <2>8, FS_Union
<1>3. PICK E : E = [Locals -> Flows!Points \cup {Flows!Unset}]
  OBVIOUS
<1>4. IsFiniteSet(E \X BOOLEAN)
  <2>1. IsFiniteSet(BOOLEAN)
    <3>1. BOOLEAN = {TRUE} \cup {FALSE}
      OBVIOUS
    <3>2. IsFiniteSet({TRUE}) /\ IsFiniteSet({FALSE})
      BY FS_Singleton
    <3> QED  BY <3>1, <3>2, FS_Union
  <2> QED  BY <1>1, <1>2, <1>3, <2>1, FunctionsAreFinite, FS_Product
<1>5. PICK f : f = [p \in E \X BOOLEAN |-> [env |-> p[1], tainted |-> p[2]]]
  OBVIOUS
<1>6. IsFiniteSet(FlowRuns)
  <2>1. ASSUME NEW r \in FlowRuns
        PROVE  \E p \in E \X BOOLEAN : r = f[p]
    <3>1. r.env \in E /\ r.tainted \in BOOLEAN /\ r = [env |-> r.env, tainted |-> r.tainted]
      BY <1>3 DEF FlowRuns
    <3>2. <<r.env, r.tainted>> \in E \X BOOLEAN /\ f[<<r.env, r.tainted>>] = [env |-> r.env, tainted |-> r.tainted]
      BY <1>5, <3>1
    <3> QED  BY <3>1, <3>2
  <2> QED  BY <1>4, <2>1, ValuesAreFinite
<1>7. Flows!Configurations = Blocks \X FlowRuns
  BY DEF Flows!Configurations, FlowRuns
<1> QED
  BY <1>1, <1>6, <1>7, FS_Product

\* The executions of n blocks and fewer.
LEMMA ExecutionsAre ==
  ASSUME Flows!DataflowAssumption, body \in Bodies, Flows!WellFormed
  PROVE  /\ Flows!Executions \in [Nat -> SUBSET (Blocks \X FlowRuns)]
         /\ Flows!Executions[0] = {Flows!Starting} /\ Flows!Starting \in Blocks \X FlowRuns
         /\ \A n \in Nat : Flows!Executions[n + 1] =
              Flows!Executions[n] \cup UNION {Flows!Successors(c) : c \in Flows!Executions[n]}
<1> DEFINE X == SUBSET (Blocks \X FlowRuns)
           More(S) == S \cup UNION {Flows!Successors(c) : c \in S}
           next == [S \in X |-> More(S)]
<1>1. Flows!Starting \in Blocks \X FlowRuns
  <2>1. 0 \in Blocks /\ Arguments \in SUBSET Locals
    BY DEF Flows!DataflowAssumption
  <2>2. Flows!Entry \in Flows!Points
    BY DEF Flows!Points
  <2>3. [env |-> [l \in Locals |-> IF l \in Arguments THEN Flows!Entry ELSE Flows!Unset], tainted |-> FALSE] \in FlowRuns
    BY <2>2 DEF FlowRuns
  <2> QED  BY <2>1, <2>3 DEF Flows!Starting
<1>2. \A c \in Blocks \X FlowRuns : Flows!Successors(c) \in X
  <2> SUFFICES ASSUME NEW c \in Blocks \X FlowRuns
               PROVE  Flows!Successors(c) \in X
    OBVIOUS
  <2>1. PICK b \in Blocks, r \in FlowRuns : c = <<b, r>>
    <3>1. c = <<c[1], c[2]>> /\ c[1] \in Blocks /\ c[2] \in FlowRuns
      OBVIOUS
    <3> QED  BY <3>1
  <2>2. \A e \in Flows!RuntimeEdges(b) : <<e.target, FlowStep(b, e, r)>> \in Blocks \X FlowRuns
    BY SuccessorsAre
  <2>3. \A d \in Flows!Successors(c) : d \in Blocks \X FlowRuns
    BY <2>1, <2>2, SuccessorsAre
  <2> QED  BY <2>3
<1>3. \A S \in X : More(S) \in X
  BY <1>2
<1> HIDE DEF More
<1>4. next \in [X -> X] /\ \A S \in X : next[S] = More(S)
  BY <1>3
<1>5. {Flows!Starting} \in X
  BY <1>1
<1> HIDE DEF X, next
<1>6. PICK f \in [Nat -> X] : f[0] = {Flows!Starting} /\ \A n \in Nat : f[n + 1] = next[f[n]]
  <2>1. PICK x \in X : x = {Flows!Starting}
    BY <1>5
  <2>2. \E f \in [Nat -> X] : f[0] = x /\ \A n \in Nat : f[n + 1] = next[f[n]]
    <3>1. next \in [X -> X]
      BY <1>4
    <3>2. Iterates(X, next, x) # {}
      BY <3>1, HasIterates
    <3> QED  BY <3>2 DEF Iterates
  <2> QED  BY <2>1, <2>2
<1>7. \A n \in Nat : f[n] \in X /\ f[n + 1] = More(f[n])
  BY <1>4, <1>6
<1> DEFINE Unfolded(g) == [n \in Nat |-> IF n = 0 THEN {Flows!Starting}
                                         ELSE g[n - 1] \cup UNION {Flows!Successors(c) : c \in g[n - 1]}]
<1>8. f = Unfolded(f)
  <2>1. ASSUME NEW n \in Nat
        PROVE  f[n] = Unfolded(f)[n]
    <3>1. CASE n = 0
      BY <1>6, <3>1
    <3>2. CASE n # 0
      <4>1. n - 1 \in Nat /\ (n - 1) + 1 = n
        BY <3>2
      <4>2. f[n] = More(f[n - 1])
        BY <1>7, <4>1
      <4> QED  BY <3>2, <4>2 DEF More
    <3> QED  BY <3>1, <3>2
  <2>2. DOMAIN f = Nat /\ f = [n \in Nat |-> f[n]]
    BY <1>6
  <2> QED  BY <2>1, <2>2
<1>9. Flows!Executions = CHOOSE g : g = Unfolded(g)
  BY DEF Flows!Executions
<1> HIDE DEF Unfolded
<1>10. Flows!Executions = Unfolded(Flows!Executions)
  BY <1>8, <1>9
<1>11. PICK g : g = Flows!Executions
  OBVIOUS
<1>12. g = Unfolded(g)
  BY <1>10, <1>11
<1>13. g[0] = {Flows!Starting} /\ \A n \in Nat : g[n + 1] = More(g[n])
  <2>1. \A n \in Nat : g[n] = IF n = 0 THEN {Flows!Starting} ELSE g[n - 1] \cup UNION {Flows!Successors(c) : c \in g[n - 1]}
    BY <1>12 DEF Unfolded
  <2>2. g[0] = {Flows!Starting}
    BY <2>1
  <2>3. ASSUME NEW n \in Nat
        PROVE  g[n + 1] = More(g[n])
    <3>1. n + 1 \in Nat /\ n + 1 # 0 /\ (n + 1) - 1 = n
      OBVIOUS
    <3> QED  BY <2>1, <3>1 DEF More
  <2> QED  BY <2>2, <2>3
<1>14. g \in [Nat -> X]
  <2> DEFINE T == {n \in Nat : g[n] \in X}
  <2>1. 0 \in T
    BY <1>5, <1>13
  <2>2. \A n \in T : n + 1 \in T
    BY <1>3, <1>13 DEF X
  <2>3. T \subseteq Nat
    OBVIOUS
  <2> HIDE DEF T
  <2>4. T = Nat
    BY <2>1, <2>2, <2>3, SetInduction
  <2>5. \A n \in Nat : g[n] \in X
    BY <2>4 DEF T
  <2>6. DOMAIN g = Nat /\ g = [n \in DOMAIN g |-> g[n]]
    BY <1>12 DEF Unfolded
  <2> QED  BY <2>5, <2>6
<1> QED
  BY <1>1, <1>11, <1>13, <1>14 DEF X, More

\* All executions: they begin at the start, go on, and are the least such set.
LEMMA EverythingIs ==
  ASSUME Flows!DataflowAssumption, body \in Bodies, Flows!WellFormed
  PROVE  /\ Flows!Everything \subseteq Blocks \X FlowRuns
         /\ Flows!Starting \in Flows!Everything
         /\ \A c \in Flows!Everything : Flows!Successors(c) \subseteq Flows!Everything
         /\ \A S : Flows!Starting \in S /\ (\A c \in S \cap Flows!Everything : Flows!Successors(c) \subseteq S)
                     => Flows!Everything \subseteq S
<1>1. PICK U : U = Blocks \X FlowRuns
  OBVIOUS
<1>2. IsFiniteSet(U) /\ Flows!Cardinality(Flows!Configurations) = Cardinality(U)
  BY <1>1, ConfigurationsAreFinite, FlowsCounts
<1>3. PICK g \in [Nat -> SUBSET U] : g = Flows!Executions
  BY <1>1, ExecutionsAre
<1>4. /\ g[0] = {Flows!Starting}
      /\ \A n \in Nat : g[n + 1] = g[n] \cup UNION {Flows!Successors(c) : c \in g[n]}
  BY <1>3, ExecutionsAre
<1>5. \A n \in Nat : g[n] \subseteq g[n + 1] /\ \A c \in g[n] : Flows!Successors(c) \subseteq g[n + 1]
  BY <1>4
<1>6. \E n \in 0..Cardinality(U) : g[n + 1] = g[n]
  BY <1>2, <1>5, GrowthEnds
<1>7. PICK m : m = CHOOSE n \in 0..Cardinality(U) : g[n + 1] = g[n]
  OBVIOUS
<1>8. m \in 0..Cardinality(U) /\ g[m + 1] = g[m]
  BY <1>6, <1>7
<1>9. m \in Nat
  BY <1>2, <1>8, FS_CardinalityType
<1>10. Flows!Everything = g[m]
  BY <1>2, <1>3, <1>7 DEF Flows!Everything
<1>11. g[m] \subseteq U /\ \A c \in g[m] : Flows!Successors(c) \subseteq g[m]
  BY <1>5, <1>8, <1>9
<1>12. Flows!Starting \in g[m]
  <2> DEFINE T == {n \in Nat : Flows!Starting \in g[n]}
  <2>1. 0 \in T /\ \A n \in T : n + 1 \in T
    BY <1>4, <1>5
  <2>2. T \subseteq Nat
    OBVIOUS
  <2> HIDE DEF T
  <2>3. T = Nat
    BY <2>1, <2>2, SetInduction
  <2> QED  BY <1>9, <2>3 DEF T
<1>13. ASSUME NEW S, Flows!Starting \in S,
              \A c \in S \cap Flows!Everything : Flows!Successors(c) \subseteq S
       PROVE  Flows!Everything \subseteq S
  <2> DEFINE T == {n \in Nat : g[n] \subseteq S /\ g[n] \subseteq g[m]}
  <2>1. 0 \in T
    BY <1>4, <1>12, <1>13
  <2>2. ASSUME NEW n \in T
        PROVE  n + 1 \in T
    <3>1. n \in Nat /\ g[n] \subseteq S /\ g[n] \subseteq g[m]
      OBVIOUS
    <3>2. \A c \in g[n] : Flows!Successors(c) \subseteq S /\ Flows!Successors(c) \subseteq g[m]
      BY <1>10, <1>11, <1>13, <3>1
    <3>3. g[n + 1] = g[n] \cup UNION {Flows!Successors(c) : c \in g[n]}
      BY <1>4, <3>1
    <3>4. g[n + 1] \subseteq S /\ g[n + 1] \subseteq g[m]
      BY <3>1, <3>2, <3>3
    <3> QED  BY <3>1, <3>4
  <2>3. T \subseteq Nat
    OBVIOUS
  <2> HIDE DEF T
  <2>4. T = Nat
    BY <2>1, <2>2, <2>3, SetInduction
  <2> QED  BY <1>9, <1>10, <2>4 DEF T
<1> QED
  BY <1>1, <1>10, <1>11, <1>12, <1>13

\* The states of executions at a block.
LEMMA RunsAre ==
  ASSUME Flows!DataflowAssumption, body \in Bodies, Flows!WellFormed
  PROVE  /\ Flows!Reached \subseteq Blocks /\ 0 \in Flows!Reached
         /\ \A b \in Blocks : /\ Flows!RunsAt(b, 1) \in SUBSET FlowRuns
                              /\ b \in Flows!Reached <=> Flows!RunsAt(b, 1) # {}
                              /\ \A r : r \in Flows!RunsAt(b, 1) <=> <<b, r>> \in Flows!Everything
                              /\ Flows!RunsAt(b, 2) = {Flows!Midway(b, r) : r \in Flows!RunsAt(b, 1)}
         /\ \A b \in Blocks : \A e \in Flows!RuntimeEdges(b) : \A r \in Flows!RunsAt(b, 1) :
              FlowStep(b, e, r) \in Flows!RunsAt(e.target, 1)
         /\ Flows!Starting[2] \in Flows!RunsAt(0, 1)
<1>1. Flows!Everything \subseteq Blocks \X FlowRuns
  BY EverythingIs
<1>2. \A c \in Flows!Everything : c = <<c[1], c[2]>> /\ c[1] \in Blocks /\ c[2] \in FlowRuns
  BY <1>1
<1>3. ASSUME NEW b \in Blocks
      PROVE  /\ Flows!RunsAt(b, 1) \in SUBSET FlowRuns
             /\ b \in Flows!Reached <=> Flows!RunsAt(b, 1) # {}
             /\ \A r : r \in Flows!RunsAt(b, 1) <=> <<b, r>> \in Flows!Everything
             /\ Flows!RunsAt(b, 2) = {Flows!Midway(b, r) : r \in Flows!RunsAt(b, 1)}
  <2>1. PICK A : A = Flows!RunsAt(b, 1)
    OBVIOUS
  <2>2. \A r : r \in A <=> \E c \in Flows!Everything : c[1] = b /\ r = c[2]
    BY <2>1 DEF Flows!RunsAt
  <2>3. \A r : r \in A <=> <<b, r>> \in Flows!Everything
    BY <1>2, <2>2
  <2>4. PICK B : B = Flows!RunsAt(b, 2)
    OBVIOUS
  <2>5. \A r : r \in B <=> \E c \in Flows!Everything : c[1] = b /\ r = Flows!Midway(b, c[2])
    BY <2>4 DEF Flows!RunsAt
  <2>6. \A r : r \in B <=> r \in {Flows!Midway(b, x) : x \in A}
    BY <2>2, <2>5
  <2>7. A \in SUBSET FlowRuns
    BY <1>2, <2>2
  <2>8. b \in Flows!Reached <=> A # {}
    BY <2>2 DEF Flows!Reached
  <2> QED  BY <2>1, <2>3, <2>4, <2>6, <2>7, <2>8
<1>4. Flows!Reached \subseteq Blocks
  BY <1>2 DEF Flows!Reached
<1>5. ASSUME NEW b \in Blocks, NEW e \in Flows!RuntimeEdges(b), NEW r \in Flows!RunsAt(b, 1)
      PROVE  FlowStep(b, e, r) \in Flows!RunsAt(e.target, 1)
  <2>1. <<b, r>> \in Flows!Everything /\ r \in FlowRuns
    BY <1>3
  <2>2. <<e.target, FlowStep(b, e, r)>> \in Flows!Everything /\ e.target \in Blocks
    BY <2>1, SuccessorsAre, EverythingIs
  <2> QED  BY <1>3, <2>2
<1>6. Flows!Starting[2] \in Flows!RunsAt(0, 1) /\ 0 \in Flows!Reached
  <2>1. 0 \in Blocks
    BY DEF Flows!DataflowAssumption
  <2>2. Flows!Starting = <<0, Flows!Starting[2]>>
    BY DEF Flows!Starting
  <2>3. <<0, Flows!Starting[2]>> \in Flows!Everything
    BY <2>2, EverythingIs
  <2> QED  BY <1>3, <2>1, <2>3
<1> QED
  BY <1>3, <1>4, <1>5, <1>6

\* An execution brings to a use an assignment to that local in a block that can run.
LEMMA BroughtIsAssigned ==
  ASSUME Flows!DataflowAssumption, body \in Bodies, Flows!WellFormed
  PROVE  \A b \in Blocks, step \in {1, 2} : \A r \in Flows!RunsAt(b, step) : \A l \in Locals :
           \/ r.env[l] = Flows!Unset
           \/ r.env[l] = Flows!Entry /\ l \in Arguments
           \/ \E c \in Flows!Reached, k \in {1, 2, 3} : [local |-> l, point |-> r.env[l]] \in Flows!Assigned(c, k)
<1> DEFINE Known(l, x) == \/ x = Flows!Unset
                          \/ x = Flows!Entry /\ l \in Arguments
                          \/ \E c \in Flows!Reached, k \in {1, 2, 3} : [local |-> l, point |-> x] \in Flows!Assigned(c, k)
           S == {c \in Flows!Everything : \A l \in Locals : Known(l, c[2].env[l])}
<1>1. ASSUME NEW b \in Flows!Reached, NEW l \in Locals
      PROVE  /\ \A p : p = Flows!Statement(b) /\ l \in body[b].statement.defs => Known(l, p)
             /\ \A p : p = Flows!Terminator(b) /\ l \in Flows!terminator_effects(b).defs => Known(l, p)
             /\ \A e \in Flows!RuntimeEdges(b) :
                  e.kind = "normal" /\ l \in body[b].returns => Known(l, Flows!NormalReturn(b, e.target))
  <2>1. ASSUME l \in body[b].statement.defs
        PROVE  Known(l, Flows!Statement(b))
    <3>1. [local |-> l, point |-> Flows!Statement(b)] \in Flows!Assigned(b, 1)
      BY <2>1 DEF Flows!Assigned, Flows!EffectsAt, Flows!PointAt
    <3> QED  BY <3>1
  <2>2. ASSUME l \in Flows!terminator_effects(b).defs
        PROVE  Known(l, Flows!Terminator(b))
    <3>1. [local |-> l, point |-> Flows!Terminator(b)] \in Flows!Assigned(b, 2)
      BY <2>2 DEF Flows!Assigned, Flows!EffectsAt, Flows!PointAt
    <3> QED  BY <3>1
  <2>3. ASSUME NEW e \in Flows!RuntimeEdges(b), e.kind = "normal", l \in body[b].returns
        PROVE  Known(l, Flows!NormalReturn(b, e.target))
    <3>1. Flows!NormalReturn(b, e.target) \in Flows!ReturnPoints(b)
      BY <2>3 DEF Flows!ReturnPoints, Flows!RuntimeEdges
    <3>2. [local |-> l, point |-> Flows!NormalReturn(b, e.target)] \in Flows!Assigned(b, 3)
      BY <2>3, <3>1 DEF Flows!Assigned
    <3> QED  BY <3>2
  <2> QED  BY <2>1, <2>2, <2>3
<1>2. \A l : Known(l, Flows!Unset) /\ (l \in Arguments => Known(l, Flows!Entry))
  OBVIOUS
<1> HIDE DEF Known
<1>3. ASSUME NEW b \in Flows!Reached, NEW r \in FlowRuns, \A l \in Locals : Known(l, r.env[l]), NEW l \in Locals
      PROVE  Known(l, Flows!Midway(b, r).env[l])
  BY <1>1, <1>2, <1>3 DEF Flows!Midway, Flows!Execute
<1>4. ASSUME NEW b \in Flows!Reached, NEW r \in FlowRuns, \A l \in Locals : Known(l, r.env[l]),
             NEW e \in Flows!RuntimeEdges(b), NEW l \in Locals
      PROVE  Known(l, FlowStep(b, e, r).env[l])
  <2>1. PICK t : t = Flows!Execute(Flows!Midway(b, r), Flows!terminator_effects(b), Flows!Terminator(b))
    OBVIOUS
  <2>2. Known(l, t.env[l]) /\ DOMAIN t.env = Locals /\ t = [env |-> t.env, tainted |-> t.tainted]
    BY <1>1, <1>2, <1>3, <1>4, <2>1 DEF Flows!Execute
  <2>3. FlowStep(b, e, r) = Flows!Return(b, e, t)
    BY <2>1 DEF FlowStep
  <2>4. FlowStep(b, e, r).env[l] = IF e.kind = "normal" /\ l \in body[b].returns
                                   THEN Flows!NormalReturn(b, e.target) ELSE t.env[l]
    BY <2>2, <2>3 DEF Flows!Return
  <2> QED  BY <1>1, <2>2, <2>4
<1>5. Flows!Starting \in S
  <2>1. \A l \in Locals : Known(l, Flows!Starting[2].env[l])
    BY <1>2 DEF Flows!Starting
  <2> QED  BY <2>1, EverythingIs
<1>6. ASSUME NEW c \in S \cap Flows!Everything, NEW d \in Flows!Successors(c)
      PROVE  d \in S
  <2>1. PICK b \in Blocks, r \in FlowRuns : c = <<b, r>>
    <3>1. c \in Blocks \X FlowRuns
      BY EverythingIs
    <3>2. c = <<c[1], c[2]>> /\ c[1] \in Blocks /\ c[2] \in FlowRuns
      BY <3>1
    <3> QED  BY <3>2
  <2>2. PICK e \in Flows!RuntimeEdges(b) : d = <<e.target, FlowStep(b, e, r)>>
    BY <2>1, SuccessorsAre
  <2>3. b \in Flows!Reached
    BY <2>1 DEF Flows!Reached
  <2>4. \A l \in Locals : Known(l, FlowStep(b, e, r).env[l])
    BY <1>4, <2>1, <2>3
  <2>5. d \in Flows!Everything
    BY EverythingIs
  <2> QED  BY <2>2, <2>4, <2>5
<1>7. Flows!Everything \subseteq S
  BY <1>5, <1>6, EverythingIs
<1>8. ASSUME NEW b \in Blocks, NEW r \in Flows!RunsAt(b, 1)
      PROVE  b \in Flows!Reached /\ r \in FlowRuns /\ \A l \in Locals : Known(l, r.env[l])
  <2>1. <<b, r>> \in Flows!Everything /\ b \in Flows!Reached /\ r \in FlowRuns
    BY RunsAre
  <2>2. <<b, r>>[2] = r
    OBVIOUS
  <2> QED  BY <1>7, <2>1, <2>2
<1>9. ASSUME NEW b \in Blocks, NEW r \in Flows!RunsAt(b, 2)
      PROVE  \A l \in Locals : Known(l, r.env[l])
  <2>1. PICK x \in Flows!RunsAt(b, 1) : r = Flows!Midway(b, x)
    BY RunsAre
  <2> QED  BY <1>3, <1>8, <2>1
<1> QED
  BY <1>8, <1>9 DEF Known

\* The start of an execution shows what is known at the entry.
LEMMA EntryIsShown ==
  ASSUME Flows!DataflowAssumption
  PROVE  /\ Flows!EntryState \in Flows!AbstractStates /\ Flows!Empty \in Flows!AbstractStates
         /\ {Flows!Starting[2]} \in (SUBSET FlowRuns) \ {{}}
         /\ Flows!EntryState = Flows!Shown({Flows!Starting[2]})
<1> DEFINE r == Flows!Starting[2]
           Value(l) == IF l \in Arguments THEN Flows!Defined(Flows!Entry) ELSE Flows!Nothing
<1>1. Flows!Entry \in Flows!Points
  BY DEF Flows!Points
<1>2. r = [env |-> [l \in Locals |-> IF l \in Arguments THEN Flows!Entry ELSE Flows!Unset], tainted |-> FALSE]
  BY DEF Flows!Starting
<1>3. r \in FlowRuns
  BY <1>1, <1>2 DEF FlowRuns
<1>4. Flows!Defined(Flows!Entry) \in Flows!AbstractValues /\ Flows!Nothing \in Flows!AbstractValues
  BY <1>1 DEF Flows!Defined, Flows!Nothing, Flows!AbstractValues
<1>5. Flows!EntryState = [values |-> [l \in Locals |-> Value(l)], unknown |-> FALSE]
  <2>1. PICK x : x = Flows!Empty
    OBVIOUS
  <2>2. x = [values |-> x.values, unknown |-> x.unknown] /\ x.unknown = FALSE
    BY <2>1 DEF Flows!Empty
  <2>3. PICK v : v = [l \in Locals |-> Value(l)]
    OBVIOUS
  <2>4. Flows!EntryState = [x EXCEPT !.values = v]
    BY <2>1, <2>3 DEF Flows!EntryState
  <2>5. [x EXCEPT !.values = v] = [values |-> v, unknown |-> x.unknown]
    BY <2>2
  <2> QED  BY <2>2, <2>3, <2>4, <2>5
<1>6. Flows!EntryState \in Flows!AbstractStates
  BY <1>4, <1>5 DEF Flows!AbstractStates
<1>7. Flows!Empty \in Flows!AbstractStates
  BY <1>4 DEF Flows!Empty, Flows!AbstractStates
<1>8. PICK R \in (SUBSET FlowRuns) \ {{}} : R = {r}
  BY <1>3
<1>9. PICK s : s = Flows!EntryState
  OBVIOUS
<1>10. PICK g \in [R -> FlowRuns] : \A x \in R : g[x] = x
  <2>1. [x \in R |-> x] \in [R -> FlowRuns]
    OBVIOUS
  <2> QED  BY <2>1
<1>11. PICK q : q = Flows!Shown(R)
  OBVIOUS
<1> HIDE DEF r
<1>12. ASSUME NEW l \in Locals
       PROVE  \/ \E p \in Flows!Points : s.values[l] = Flows!Defined(p) /\ \A x \in R : g[x].env[l] = p
              \/ s.values[l] = Flows!Nothing /\ \A x \in R : g[x].env[l] = Flows!Unset
              \/ s.values[l] = q.values[l] /\ \A x \in R : g[x].env[l] = x.env[l]
  <2>1. \A x \in R : g[x].env[l] = IF l \in Arguments THEN Flows!Entry ELSE Flows!Unset
    <3>1. r.env = [k \in Locals |-> IF k \in Arguments THEN Flows!Entry ELSE Flows!Unset]
      BY <1>2
    <3>2. r.env[l] = IF l \in Arguments THEN Flows!Entry ELSE Flows!Unset
      BY <3>1
    <3>3. \A x \in R : g[x] = r
      BY <1>8, <1>10
    <3> QED  BY <3>2, <3>3
  <2>2. s.values[l] = Value(l)
    BY <1>5, <1>9
  <2> QED  BY <1>1, <2>1, <2>2
<1>13. s.unknown <=> \E x \in R : g[x].tainted
  BY <1>2, <1>5, <1>8, <1>9, <1>10
<1>14. s = Flows!Shown({g[x] : x \in R})
  BY <1>6, <1>9, <1>11, <1>12, <1>13, ShownOfChanged
<1>15. {g[x] : x \in R} = R
  BY <1>10
<1> QED
  BY <1>6, <1>7, <1>8, <1>9, <1>14, <1>15 DEF r

\* Who knows what each execution shows knows what all of them show.
LEMMA ShownOfEach ==
  ASSUME NEW R \in SUBSET FlowRuns, R # {}, NEW t, \A r \in R : Flows!AtMost(Flows!Shown({r}), t)
  PROVE  Flows!AtMost(Flows!Shown(R), t)
<1>1. PICK s : s = Flows!Shown(R)
  OBVIOUS
<1>2. ASSUME NEW r \in R
      PROVE  /\ \A l \in Locals : /\ r.env[l] # Flows!Unset => r.env[l] \in t.values[l].definitions
                                  /\ r.env[l] = Flows!Unset => t.values[l].uninitialized
             /\ r.tainted => t.unknown
  <2>1. PICK Q \in SUBSET FlowRuns : Q = {r} /\ Q # {}
    OBVIOUS
  <2>2. PICK q : q = Flows!Shown(Q)
    OBVIOUS
  <2>3. /\ \A l \in Locals : /\ q.values[l].definitions = {x.env[l] : x \in Q} \ {Flows!Unset}
                             /\ q.values[l].uninitialized <=> \E x \in Q : x.env[l] = Flows!Unset
        /\ q.unknown <=> \E x \in Q : x.tainted
    BY <2>1, <2>2, ShownIs
  <2>4. Flows!AtMost(q, t)
    BY <2>1, <2>2
  <2> QED  BY <2>1, <2>3, <2>4 DEF Flows!AtMost
<1>3. /\ \A l \in Locals : /\ s.values[l].definitions = {r.env[l] : r \in R} \ {Flows!Unset}
                           /\ s.values[l].uninitialized <=> \E r \in R : r.env[l] = Flows!Unset
      /\ s.unknown <=> \E r \in R : r.tainted
  BY <1>1, ShownIs
<1>4. Flows!AtMost(s, t)
  BY <1>2, <1>3 DEF Flows!AtMost
<1> QED
  BY <1>1, <1>4

\* A visit of a block adds what flows along its edges and keeps what was known; it adds
\* nothing that executions do not show.
LEMMA MergedIs ==
  ASSUME Flows!DataflowAssumption, Flows!TypeOK, Flows!WellFormed, Flows!SolutionGrows, NEW b \in DOMAIN entries
  PROVE  /\ DOMAIN Flows!Merged(b) = DOMAIN entries \cup {e.target : e \in Flows!RuntimeEdges(b)}
         /\ DOMAIN Flows!Merged(b) \subseteq Blocks
         /\ Flows!Merged(b) \in [DOMAIN Flows!Merged(b) -> Flows!AbstractStates]
         /\ \A t \in DOMAIN entries : Flows!AtMost(entries[t], Flows!Merged(b)[t])
         /\ \A e \in Flows!RuntimeEdges(b) :
              Flows!AtMost(Flows!Along(b, e, Flows!AfterBlock(b, entries[b])), Flows!Merged(b)[e.target])
         /\ \A t \in DOMAIN Flows!Merged(b) :
              Flows!RunsAt(t, 1) # {} /\ Flows!AtMost(Flows!Merged(b)[t], Flows!Shown(Flows!RunsAt(t, 1)))
<1> DEFINE targets == {e.target : e \in Flows!RuntimeEdges(b)}
           known(t) == IF t \in DOMAIN entries THEN {entries[t]} ELSE {}
<1>1. PICK m : m = Flows!Merged(b)
  OBVIOUS
<1>2. PICK D \in SUBSET Blocks : D = DOMAIN entries
  BY DEF Flows!TypeOK
<1>3. /\ body \in Bodies /\ b \in Blocks /\ entries[b] \in Flows!AbstractStates
      /\ \A t \in D : entries[t] \in Flows!AbstractStates
  BY <1>2 DEF Flows!TypeOK
<1>4. \A e \in Flows!RuntimeEdges(b) : e.target \in Blocks
  BY <1>3 DEF Flows!WellFormed, Flows!RuntimeEdges
<1>5. m = [t \in D \cup targets |-> IF t \in targets THEN Flows!join(Flows!Outgoing(b, t) \cup known(t)) ELSE entries[t]]
  BY <1>1, <1>2 DEF Flows!Merged
<1>6. \A t \in D : Flows!RunsAt(t, 1) # {} /\ Flows!AtMost(entries[t], Flows!Shown(Flows!RunsAt(t, 1)))
  BY <1>2 DEF Flows!SolutionGrows
<1>7. ASSUME NEW e \in Flows!RuntimeEdges(b)
      PROVE  /\ Flows!Along(b, e, Flows!AfterBlock(b, entries[b])) \in Flows!AbstractStates
             /\ Flows!RunsAt(e.target, 1) # {}
             /\ Flows!AtMost(Flows!Along(b, e, Flows!AfterBlock(b, entries[b])), Flows!Shown(Flows!RunsAt(e.target, 1)))
  <2>1. PICK R \in SUBSET FlowRuns : R = Flows!RunsAt(b, 1) /\ R # {}
    BY <1>2, <1>3, <1>6, RunsAre
  <2>2. PICK Q : Q = AllStepped(b, e, R)
    OBVIOUS
  <2>3. /\ Q \in SUBSET FlowRuns /\ Q # {}
        /\ Flows!Along(b, e, Flows!AfterBlock(b, Flows!Shown(R))) = Flows!Shown(Q)
    BY <1>3, <1>4, <2>1, <2>2, AlongShown
  <2>4. Flows!Along(b, e, Flows!AfterBlock(b, entries[b])) \in Flows!AbstractStates
    BY <1>3, <1>4, AlongGrows
  <2>5. Flows!AtMost(entries[b], Flows!Shown(R)) /\ Flows!Shown(R) \in Flows!AbstractStates
    BY <1>2, <1>6, <2>1, ShownIs
  <2>6. Flows!AtMost(Flows!Along(b, e, Flows!AfterBlock(b, entries[b])), Flows!Shown(Q))
    <3>1. e.target \in Blocks
      BY <1>4
    <3>2. PICK s \in Flows!AbstractStates : s = entries[b]
      BY <1>3
    <3>3. PICK u \in Flows!AbstractStates : u = Flows!Shown(R)
      BY <2>5
    <3>4. Flows!AtMost(Flows!Along(b, e, Flows!AfterBlock(b, s)), Flows!Along(b, e, Flows!AfterBlock(b, u)))
      BY <1>3, <2>5, <3>1, <3>2, <3>3, AlongGrows
    <3> QED  BY <2>3, <3>2, <3>3, <3>4
  <2>7. PICK T \in SUBSET FlowRuns : T = Flows!RunsAt(e.target, 1) /\ Q \subseteq T
    <3>1. Flows!RunsAt(e.target, 1) \in SUBSET FlowRuns
      BY <1>3, <1>4, RunsAre
    <3>2. \A r \in R : FlowStep(b, e, r) \in Flows!RunsAt(e.target, 1)
      BY <1>3, <2>1, RunsAre
    <3> QED  BY <2>2, <3>1, <3>2 DEF AllStepped
  <2>8. Flows!AtMost(Flows!Shown(Q), Flows!Shown(T))
    BY <2>3, <2>7, ShownGrows
  <2> QED  BY <2>3, <2>4, <2>6, <2>7, <2>8, KnowledgeIsOrdered
<1>8. \A t, s : s \in Flows!Outgoing(b, t) <=>
        \E e \in Flows!RuntimeEdges(b) : e.target = t /\ s = Flows!Along(b, e, Flows!AfterBlock(b, entries[b]))
  BY DEF Flows!Outgoing
<1>9. ASSUME NEW t \in targets
      PROVE  /\ t \in Blocks /\ m[t] \in Flows!AbstractStates
             /\ t \in D => Flows!AtMost(entries[t], m[t])
             /\ \A e \in Flows!RuntimeEdges(b) :
                  e.target = t => Flows!AtMost(Flows!Along(b, e, Flows!AfterBlock(b, entries[b])), m[t])
             /\ Flows!RunsAt(t, 1) # {} /\ Flows!AtMost(m[t], Flows!Shown(Flows!RunsAt(t, 1)))
  <2>1. PICK all : all = Flows!Outgoing(b, t) \cup known(t)
    OBVIOUS
  <2>2. all \in SUBSET Flows!AbstractStates /\ all # {}
    <3>1. PICK e \in Flows!RuntimeEdges(b) : e.target = t
      OBVIOUS
    <3>2. Flows!Along(b, e, Flows!AfterBlock(b, entries[b])) \in all
      BY <1>8, <2>1, <3>1
    <3>3. \A s \in all : s \in Flows!AbstractStates
      BY <1>2, <1>3, <1>7, <1>8, <2>1
    <3> QED  BY <3>2, <3>3
  <2>3. m[t] = Flows!join(all)
    BY <1>5, <2>1
  <2>4. \A s \in all : Flows!AtMost(s, Flows!Shown(Flows!RunsAt(t, 1)))
    BY <1>2, <1>6, <1>7, <1>8, <2>1
  <2>5. (t \in D => entries[t] \in all) /\ \A e \in Flows!RuntimeEdges(b) :
          e.target = t => Flows!Along(b, e, Flows!AfterBlock(b, entries[b])) \in all
    BY <1>2, <1>8, <2>1
  <2>6. t \in Blocks /\ Flows!RunsAt(t, 1) # {}
    BY <1>4, <1>7
  <2> QED  BY <2>2, <2>3, <2>4, <2>5, <2>6, JoinIs
<1>10. \A t \in D \ targets : m[t] = entries[t]
  BY <1>5
<1>11. DOMAIN m = D \cup targets /\ m = [t \in D \cup targets |-> m[t]]
  BY <1>5
<1>12. \A e \in Flows!RuntimeEdges(b) : e.target \in targets
  OBVIOUS
<1> HIDE DEF targets
<1>13. m \in [D \cup targets -> Flows!AbstractStates]
  BY <1>3, <1>9, <1>10, <1>11
<1>14. \A t \in D : Flows!AtMost(entries[t], m[t])
  BY <1>9, <1>10, KnowledgeIsOrdered
<1>15. \A t \in D \cup targets : Flows!RunsAt(t, 1) # {} /\ Flows!AtMost(m[t], Flows!Shown(Flows!RunsAt(t, 1)))
  BY <1>6, <1>9, <1>10
<1>16. \A e \in Flows!RuntimeEdges(b) : Flows!AtMost(Flows!Along(b, e, Flows!AfterBlock(b, entries[b])), m[e.target])
  BY <1>9, <1>12
<1>17. D \cup targets \subseteq Blocks
  BY <1>9
<1> QED
  BY <1>1, <1>2, <1>11, <1>13, <1>14, <1>15, <1>16, <1>17 DEF targets

\* When no block is left to visit, what is known is what executions show.
LEMMA SolvedAtLast ==
  ASSUME Flows!DataflowAssumption, Flows!TypeOK, Flows!WellFormed, Flows!SolutionGrows, worklist = {}
  PROVE  Flows!Solved
<1> DEFINE S == {c \in Flows!Everything : c[1] \in DOMAIN entries
                                          /\ Flows!AtMost(Flows!Shown({c[2]}), entries[c[1]])}
<1>1. body \in Bodies /\ DOMAIN entries \subseteq Blocks /\ \A t \in DOMAIN entries : entries[t] \in Flows!AbstractStates
  BY DEF Flows!TypeOK
<1>2. /\ 0 \in DOMAIN entries /\ Flows!AtMost(Flows!EntryState, entries[0])
      /\ \A b \in DOMAIN entries : Flows!RunsAt(b, 1) # {} /\ Flows!AtMost(entries[b], Flows!Shown(Flows!RunsAt(b, 1)))
      /\ \A b \in DOMAIN entries : \A e \in Flows!RuntimeEdges(b) :
           /\ e.target \in DOMAIN entries
           /\ Flows!AtMost(Flows!Along(b, e, Flows!AfterBlock(b, entries[b])), entries[e.target])
  BY DEF Flows!SolutionGrows
<1>3. Flows!Starting \in S
  <2>1. Flows!Starting[1] = 0
    BY DEF Flows!Starting
  <2>2. Flows!AtMost(Flows!Shown({Flows!Starting[2]}), entries[0])
    BY <1>2, EntryIsShown
  <2> QED  BY <1>1, <1>2, <2>1, <2>2, EverythingIs
<1>4. ASSUME NEW c \in S \cap Flows!Everything, NEW d \in Flows!Successors(c)
      PROVE  d \in S
  <2>1. PICK b \in Blocks, r \in FlowRuns : c = <<b, r>>
    <3>1. c \in Blocks \X FlowRuns
      BY <1>1, EverythingIs
    <3>2. c = <<c[1], c[2]>> /\ c[1] \in Blocks /\ c[2] \in FlowRuns
      BY <3>1
    <3> QED  BY <3>2
  <2>2. PICK e \in Flows!RuntimeEdges(b) : d = <<e.target, FlowStep(b, e, r)>>
    BY <1>1, <2>1, SuccessorsAre
  <2>3. e.target \in Blocks
    BY <1>1, <2>1, SuccessorsAre
  <2>4. d \in Flows!Everything
    BY <1>1, EverythingIs
  <2>5. b \in DOMAIN entries /\ Flows!AtMost(Flows!Shown({r}), entries[b])
    BY <2>1
  <2>6. PICK R \in SUBSET FlowRuns : R = {r} /\ R # {}
    BY <2>1
  <2>7. Flows!Shown(R) \in Flows!AbstractStates
    BY <2>6, ShownIs
  <2>8. Flows!AtMost(Flows!Along(b, e, Flows!AfterBlock(b, Flows!Shown(R))), Flows!Along(b, e, Flows!AfterBlock(b, entries[b])))
    BY <1>1, <2>3, <2>5, <2>6, <2>7, AlongGrows
  <2>9. Flows!Along(b, e, Flows!AfterBlock(b, Flows!Shown(R))) = Flows!Shown({FlowStep(b, e, r)})
    <3>1. AllStepped(b, e, R) = {FlowStep(b, e, r)}
      BY <2>6 DEF AllStepped
    <3>2. Flows!Along(b, e, Flows!AfterBlock(b, Flows!Shown(R))) = Flows!Shown(AllStepped(b, e, R))
      BY <1>1, <2>3, <2>6, AlongShown
    <3> QED  BY <3>1, <3>2
  <2>10. Flows!AtMost(Flows!Shown({FlowStep(b, e, r)}), entries[e.target]) /\ e.target \in DOMAIN entries
    BY <1>2, <2>5, <2>8, <2>9, KnowledgeIsOrdered
  <2>11. d[1] = e.target /\ d[2] = FlowStep(b, e, r)
    BY <2>2
  <2> QED  BY <2>4, <2>10, <2>11
<1>5. Flows!Everything \subseteq S
  BY <1>1, <1>3, <1>4, EverythingIs
<1>6. ASSUME NEW b \in DOMAIN entries
      PROVE  b \in Flows!Reached
  BY <1>1, <1>2, RunsAre
<1>7. ASSUME NEW b \in Flows!Reached
      PROVE  b \in DOMAIN entries /\ entries[b] = Flows!Shown(Flows!RunsAt(b, 1))
  <2>1. b \in Blocks
    BY <1>1, RunsAre
  <2>2. PICK R \in SUBSET FlowRuns : R = Flows!RunsAt(b, 1) /\ R # {}
    BY <1>1, <2>1, RunsAre
  <2>3. \A r \in R : <<b, r>> \in Flows!Everything
    BY <1>1, <2>1, <2>2, RunsAre
  <2>4. \A r \in R : b \in DOMAIN entries /\ Flows!AtMost(Flows!Shown({r}), entries[b])
    <3> SUFFICES ASSUME NEW r \in R
                 PROVE  b \in DOMAIN entries /\ Flows!AtMost(Flows!Shown({r}), entries[b])
      OBVIOUS
    <3>1. <<b, r>> \in S
      BY <1>5, <2>3
    <3>2. <<b, r>>[1] = b /\ <<b, r>>[2] = r
      OBVIOUS
    <3> QED  BY <3>1, <3>2
  <2>5. b \in DOMAIN entries
    BY <2>2, <2>4
  <2>6. Flows!AtMost(Flows!Shown(R), entries[b])
    BY <2>2, <2>4, ShownOfEach
  <2>7. Flows!AtMost(entries[b], Flows!Shown(R)) /\ entries[b] \in Flows!AbstractStates /\ Flows!Shown(R) \in Flows!AbstractStates
    BY <1>1, <1>2, <2>2, <2>5, ShownIs
  <2>8. entries[b] = Flows!Shown(R)
    BY <2>6, <2>7, StatesEqual
  <2> QED  BY <2>2, <2>5, <2>8
<1> QED
  BY <1>6, <1>7 DEF Flows!Solved

\* What executions do depends on the body only, and what is said of a solution and of a
\* report on the state they are in.
LEMMA FlowStays ==
  ASSUME body' = body
  PROVE  /\ (Flows!WellFormed' <=> Flows!WellFormed)
         /\ Flows!Reached' = Flows!Reached /\ Flows!ExpectedUses' = Flows!ExpectedUses
         /\ \A b : Flows!RuntimeEdges(b)' = Flows!RuntimeEdges(b) /\ Flows!RunsAt(b, 1)' = Flows!RunsAt(b, 1)
         /\ \A b, step : /\ Flows!RunsAt(b, step)' = Flows!RunsAt(b, step)
                         /\ Flows!UsesAt(b, step)' = Flows!UsesAt(b, step)
                         /\ Flows!Assigned(b, step)' = Flows!Assigned(b, step)
         /\ \A b, e, s : Flows!Along(b, e, Flows!AfterBlock(b, s))' = Flows!Along(b, e, Flows!AfterBlock(b, s))
<1>1. Flows!Everything' = Flows!Everything
  BY DEF Flows!Everything, Flows!Executions, Flows!Successors, Flows!RuntimeEdges, Flows!Return,
         Flows!Midway, Flows!Execute, Flows!Starting, Flows!terminator_effects, Flows!Terminator,
         Flows!Statement, Flows!NormalReturn, Flows!Configurations, Flows!Points, Flows!Unset, Flows!Entry
<1>2. Flows!WellFormed' <=> Flows!WellFormed
  BY DEF Flows!WellFormed
<1>3. Flows!Reached' = Flows!Reached
  BY <1>1 DEF Flows!Reached
<1>4. \A b : Flows!RuntimeEdges(b)' = Flows!RuntimeEdges(b)
  BY DEF Flows!RuntimeEdges
<1>5. \A b, step : Flows!RunsAt(b, step)' = Flows!RunsAt(b, step)
  BY <1>1 DEF Flows!RunsAt, Flows!Midway
<1>6. \A b, step : /\ Flows!EffectsAt(b, step)' = Flows!EffectsAt(b, step)
                   /\ Flows!Assigned(b, step)' = Flows!Assigned(b, step)
  BY DEF Flows!EffectsAt, Flows!terminator_effects, Flows!Assigned, Flows!ReturnPoints
<1>7. \A b, step : Flows!UsesAt(b, step)' = Flows!UsesAt(b, step)
  BY <1>5, <1>6 DEF Flows!UsesAt
<1>8. Flows!ExpectedUses' = Flows!ExpectedUses
  BY <1>3, <1>7 DEF Flows!ExpectedUses
<1>9. \A b, e, s : Flows!Along(b, e, Flows!AfterBlock(b, s))' = Flows!Along(b, e, Flows!AfterBlock(b, s))
  BY DEF Flows!Along, Flows!AfterBlock, Flows!terminator_effects
<1> QED
  BY <1>2, <1>3, <1>4, <1>5, <1>6, <1>7, <1>8, <1>9

LEMMA FlowKept ==
  /\ UNCHANGED <<body, entries, worklist>> => (Flows!SolutionGrows' <=> Flows!SolutionGrows)
  /\ UNCHANGED <<body, entries>> => (Flows!Solved' <=> Flows!Solved)
  /\ UNCHANGED <<body, at, flow, result>> => (Flows!ReportGrows' <=> Flows!ReportGrows)
<1>1. ASSUME UNCHANGED <<body, entries, worklist>>
      PROVE  Flows!SolutionGrows' <=> Flows!SolutionGrows
  BY <1>1, FlowStays DEF Flows!SolutionGrows
<1>2. ASSUME UNCHANGED <<body, entries>>
      PROVE  Flows!Solved' <=> Flows!Solved
  BY <1>2, FlowStays DEF Flows!Solved
<1>3. ASSUME UNCHANGED <<body, at, flow, result>>
      PROVE  Flows!ReportGrows' <=> Flows!ReportGrows
  BY <1>3, FlowStays DEF Flows!ReportGrows, Flows!Passed
<1> QED
  BY <1>1, <1>2, <1>3

LEMMA DataflowInit ==
  ASSUME Flows!DataflowAssumption, Flows!Init
  PROVE  Flows!DataflowInvariant
<1>1. Flows!TypeOK
  <2>1. 0 \in Blocks /\ FactLimits \subseteq Nat /\ MaxIterations \in Nat
    BY DEF Flows!DataflowAssumption
  <2>2. flow \in Flows!AbstractStates
    BY EntryIsShown DEF Flows!Init
  <2>3. result \in [fixed_point : BOOLEAN, uses : SUBSET Flows!Uses, definitions : SUBSET Flows!Definitions,
                    reachable : SUBSET Blocks, truncated : BOOLEAN] /\ result = Flows!EmptyResult
    BY DEF Flows!Init, Flows!EmptyResult
  <2>4. entries \in [DOMAIN entries -> Flows!AbstractStates] /\ DOMAIN entries = {}
    BY DEF Flows!Init
  <2>5. at \in [block : Blocks, step : 1..3] /\ iterations \in 0..MaxIterations
    BY <2>1 DEF Flows!Init
  <2>6. output_facts <= max_facts /\ body \in Bodies /\ max_facts \in FactLimits
    BY <2>1 DEF Flows!Init
  <2> QED  BY <2>2, <2>3, <2>4, <2>5, <2>6 DEF Flows!TypeOK, Flows!Init
<1>2. state = "start"
  BY DEF Flows!Init
<1> QED
  BY <1>1, <1>2 DEF Flows!DataflowInvariant, Flows!UsesAreExact, Flows!DefinitionsAreListed

\* An answer that was cut, or withheld.
LEMMA LimitedFlows ==
  ASSUME Flows!DataflowAssumption, Flows!DataflowInvariant, Flows!Limited, state \in {"start", "solve", "emit"},
         body' = body
  PROVE  /\ result' \in [fixed_point : BOOLEAN, uses : SUBSET Flows!Uses, definitions : SUBSET Flows!Definitions,
                         reachable : SUBSET Blocks, truncated : BOOLEAN]
         /\ Flows!UsesAreExact' /\ Flows!DefinitionsAreListed' /\ state' = "done"
<1>1. PICK r : /\ r = result
               /\ r \in [fixed_point : BOOLEAN, uses : SUBSET Flows!Uses, definitions : SUBSET Flows!Definitions,
                         reachable : SUBSET Blocks, truncated : BOOLEAN]
  BY DEF Flows!DataflowInvariant, Flows!TypeOK
<1>2. PICK q : q = result'
  OBVIOUS
<1>3. state' = "done" /\ (q = [r EXCEPT !.truncated = TRUE] \/ q = Flows!Withheld)
  BY <1>1, <1>2 DEF Flows!Limited
<1>4. q \in [fixed_point : BOOLEAN, uses : SUBSET Flows!Uses, definitions : SUBSET Flows!Definitions,
             reachable : SUBSET Blocks, truncated : BOOLEAN] /\ q.truncated = TRUE
  BY <1>1, <1>3 DEF Flows!Withheld, Flows!EmptyResult
<1>5. q.uses \subseteq Flows!ExpectedUses
  <2>1. CASE q = Flows!Withheld
    BY <2>1 DEF Flows!Withheld, Flows!EmptyResult
  <2>2. CASE q = [r EXCEPT !.truncated = TRUE]
    <3>1. q.uses = r.uses
      BY <1>1, <2>2
    <3>2. CASE state \in {"start", "solve"}
      BY <1>1, <3>1, <3>2 DEF Flows!DataflowInvariant, Flows!TypeOK, Flows!EmptyResult
    <3>3. CASE state = "emit"
      <4>1. \A u \in r.uses : \E b \in Flows!Reached, step \in {1, 2} : u \in Flows!UsesAt(b, step)
        BY <1>1, <3>3 DEF Flows!DataflowInvariant, Flows!ReportGrows
      <4> QED  BY <3>1, <4>1 DEF Flows!ExpectedUses
    <3> QED  BY <3>2, <3>3
  <2> QED  BY <1>3, <2>1, <2>2
<1>6. Flows!UsesAreExact'
  BY <1>2, <1>4, <1>5, FlowStays DEF Flows!UsesAreExact
<1>7. Flows!DefinitionsAreListed'
  BY <1>2, <1>4 DEF Flows!DefinitionsAreListed
<1> QED
  BY <1>2, <1>3, <1>4, <1>6, <1>7

LEMMA FlowsStop ==
  ASSUME Flows!DataflowAssumption, Flows!DataflowInvariant, Flows!Stop
  PROVE  Flows!DataflowInvariant'
<1>1. UNCHANGED <<body, max_facts, entries, worklist, iterations, at, flow, output_facts, result, state>>
      /\ stopped' = TRUE
  BY DEF Flows!Stop, Flows!input
<1>2. Flows!TypeOK'
  BY <1>1 DEF Flows!DataflowInvariant, Flows!TypeOK
<1>3. Flows!UsesAreExact' /\ Flows!DefinitionsAreListed'
  BY <1>1, FlowStays DEF Flows!DataflowInvariant, Flows!UsesAreExact, Flows!DefinitionsAreListed
<1> QED
  BY <1>1, <1>2, <1>3, FlowStays, FlowKept DEF Flows!DataflowInvariant

LEMMA FlowsGive ==
  ASSUME Flows!DataflowAssumption, Flows!DataflowInvariant, Flows!Give
  PROVE  Flows!DataflowInvariant'
<1>1. /\ UNCHANGED <<body, max_facts, entries, worklist, iterations, at, flow, output_facts, stopped>>
      /\ Flows!Limited /\ state \in {"start", "solve", "emit"}
  BY DEF Flows!Give, Flows!input
<1>2. /\ result' \in [fixed_point : BOOLEAN, uses : SUBSET Flows!Uses, definitions : SUBSET Flows!Definitions,
                      reachable : SUBSET Blocks, truncated : BOOLEAN]
      /\ Flows!UsesAreExact' /\ Flows!DefinitionsAreListed' /\ state' = "done"
  BY <1>1, LimitedFlows
<1>3. Flows!TypeOK'
  BY <1>1, <1>2 DEF Flows!DataflowInvariant, Flows!TypeOK
<1> QED
  BY <1>2, <1>3 DEF Flows!DataflowInvariant

LEMMA FlowsValidate ==
  ASSUME Flows!DataflowAssumption, Flows!DataflowInvariant, Flows!Validate
  PROVE  Flows!DataflowInvariant'
<1>1. /\ UNCHANGED <<body, max_facts, iterations, at, flow, output_facts, stopped>>
      /\ state = "start" /\ Flows!TypeOK /\ result = Flows!EmptyResult
  BY DEF Flows!Validate, Flows!input, Flows!DataflowInvariant, Flows!TypeOK
<1>2. CASE Flows!TooLarge /\ Flows!Limited /\ UNCHANGED <<entries, worklist>>
  <2>1. /\ result' \in [fixed_point : BOOLEAN, uses : SUBSET Flows!Uses, definitions : SUBSET Flows!Definitions,
                        reachable : SUBSET Blocks, truncated : BOOLEAN]
        /\ Flows!UsesAreExact' /\ Flows!DefinitionsAreListed' /\ state' = "done"
    BY <1>1, <1>2, LimitedFlows
  <2>2. Flows!TypeOK'
    BY <1>1, <1>2, <2>1 DEF Flows!TypeOK
  <2> QED  BY <2>1, <2>2 DEF Flows!DataflowInvariant
<1>3. CASE ~Flows!WellFormed /\ state' = "invalid" /\ UNCHANGED <<entries, worklist, result>>
  <2>1. Flows!TypeOK'
    BY <1>1, <1>3 DEF Flows!TypeOK
  <2> QED  BY <1>3, <2>1 DEF Flows!DataflowInvariant, Flows!UsesAreExact, Flows!DefinitionsAreListed
<1>4. CASE /\ ~Flows!TooLarge /\ Flows!WellFormed
           /\ entries' = [b \in {0} |-> Flows!EntryState] /\ worklist' = {0}
           /\ state' = "solve" /\ UNCHANGED result
  <2>1. PICK m : m = entries'
    OBVIOUS
  <2>2. PICK s \in Flows!AbstractStates : s = Flows!EntryState
    BY EntryIsShown
  <2>3. m = [b \in {0} |-> s] /\ DOMAIN m = {0} /\ m[0] = s /\ m \in [DOMAIN m -> Flows!AbstractStates]
    BY <1>4, <2>1, <2>2
  <2>4. 0 \in Blocks
    BY DEF Flows!DataflowAssumption
  <2>5. Flows!TypeOK'
    BY <1>1, <1>4, <2>1, <2>3, <2>4 DEF Flows!TypeOK
  <2>6. Flows!WellFormed' /\ Flows!RunsAt(0, 1)' = Flows!RunsAt(0, 1)
    BY <1>1, <1>4, FlowStays
  <2>7. Flows!RunsAt(0, 1) # {} /\ Flows!AtMost(s, Flows!Shown(Flows!RunsAt(0, 1)))
    <3>1. PICK R \in SUBSET FlowRuns : R = Flows!RunsAt(0, 1) /\ Flows!Starting[2] \in R
      BY <1>1, <1>4, <2>4, RunsAre DEF Flows!TypeOK
    <3>2. PICK Q \in SUBSET FlowRuns : Q = {Flows!Starting[2]} /\ Q # {} /\ s = Flows!Shown(Q)
      BY <2>2, EntryIsShown
    <3>3. Q \subseteq R
      BY <3>1, <3>2
    <3> QED  BY <3>1, <3>2, <3>3, ShownGrows
  <2>8. Flows!AtMost(Flows!EntryState, m[0])
    BY <2>2, <2>3, KnowledgeIsOrdered
  <2>9. Flows!SolutionGrows'
    BY <1>4, <2>1, <2>3, <2>6, <2>7, <2>8 DEF Flows!SolutionGrows
  <2>10. (Cardinality(Blocks) + Cardinality(Locals) <= max_facts)'
    <3>1. Cardinality(Blocks) \in Nat /\ Cardinality(Locals) \in Nat /\ max_facts \in Nat
      BY <1>1, FlowsCounts, FS_CardinalityType DEF Flows!TypeOK, Flows!DataflowAssumption
    <3>2. ~(Cardinality(Blocks) + Cardinality(Locals) > max_facts)
      BY <1>4, FlowsCounts DEF Flows!TooLarge
    <3> QED  BY <1>1, <3>1, <3>2
  <2>11. (Flows!Cardinality(Blocks) + Flows!Cardinality(Locals) <= max_facts)'
    BY <2>10, FlowsCounts
  <2> QED
    BY <1>4, <2>5, <2>6, <2>9, <2>11 DEF Flows!DataflowInvariant, Flows!UsesAreExact, Flows!DefinitionsAreListed
<1> QED
  BY <1>2, <1>3, <1>4 DEF Flows!Validate

LEMMA FlowsIterate ==
  ASSUME Flows!DataflowAssumption, Flows!DataflowInvariant, Flows!Iterate
  PROVE  Flows!DataflowInvariant'
<1>1. /\ UNCHANGED <<body, max_facts, at, flow, output_facts, stopped>>
      /\ state = "solve" /\ worklist # {} /\ Flows!TypeOK /\ result = Flows!EmptyResult
      /\ Flows!WellFormed /\ Flows!SolutionGrows /\ Cardinality(Blocks) + Cardinality(Locals) <= max_facts
  BY FlowsCounts DEF Flows!Iterate, Flows!input, Flows!DataflowInvariant, Flows!TypeOK
<1>2. iterations' \in 0..MaxIterations
  <2>1. MaxIterations \in Nat /\ iterations \in 0..MaxIterations
    BY <1>1 DEF Flows!DataflowAssumption, Flows!TypeOK
  <2> QED  BY <2>1 DEF Flows!Iterate
<1>3. ASSUME Flows!Limited, UNCHANGED <<entries, worklist>>
      PROVE  Flows!DataflowInvariant'
  <2>1. /\ result' \in [fixed_point : BOOLEAN, uses : SUBSET Flows!Uses, definitions : SUBSET Flows!Definitions,
                        reachable : SUBSET Blocks, truncated : BOOLEAN]
        /\ Flows!UsesAreExact' /\ Flows!DefinitionsAreListed' /\ state' = "done"
    BY <1>1, <1>3, LimitedFlows
  <2>2. Flows!TypeOK'
    BY <1>1, <1>2, <1>3, <2>1 DEF Flows!TypeOK
  <2> QED  BY <2>1, <2>2 DEF Flows!DataflowInvariant
<1>4. ASSUME NEW b \in worklist, entries' = Flows!Merged(b),
             worklist' = (worklist \ {b}) \cup Flows!Changed(Flows!Merged(b)), UNCHANGED <<result, state>>
      PROVE  Flows!DataflowInvariant'
  <2>1. PICK m : m = Flows!Merged(b)
    OBVIOUS
  <2>2. b \in DOMAIN entries /\ DOMAIN entries \subseteq Blocks /\ worklist \subseteq DOMAIN entries
    BY <1>1 DEF Flows!TypeOK
  <2>3. /\ DOMAIN m = DOMAIN entries \cup {e.target : e \in Flows!RuntimeEdges(b)}
        /\ DOMAIN m \subseteq Blocks /\ m \in [DOMAIN m -> Flows!AbstractStates]
        /\ \A t \in DOMAIN entries : Flows!AtMost(entries[t], m[t])
        /\ \A e \in Flows!RuntimeEdges(b) :
             Flows!AtMost(Flows!Along(b, e, Flows!AfterBlock(b, entries[b])), m[e.target])
        /\ \A t \in DOMAIN m :
             Flows!RunsAt(t, 1) # {} /\ Flows!AtMost(m[t], Flows!Shown(Flows!RunsAt(t, 1)))
    BY <1>1, <2>1, <2>2, MergedIs
  <2>4. PICK w : w = (worklist \ {b}) \cup {t \in DOMAIN m : t \notin DOMAIN entries \/ m[t] # entries[t]}
    OBVIOUS
  <2>5. worklist' = w /\ entries' = m
    BY <1>4, <2>1, <2>4 DEF Flows!Changed
  <2>6. w \subseteq DOMAIN m
    BY <2>2, <2>3, <2>4
  <2>7. Flows!TypeOK'
    BY <1>1, <1>2, <1>4, <2>3, <2>5, <2>6 DEF Flows!TypeOK
  <2>8. 0 \in DOMAIN m /\ Flows!AtMost(Flows!EntryState, m[0])
    <3>1. 0 \in DOMAIN entries /\ Flows!AtMost(Flows!EntryState, entries[0])
      BY <1>1 DEF Flows!SolutionGrows
    <3> QED  BY <2>3, <3>1, KnowledgeIsOrdered
  <2>9. ASSUME NEW c \in DOMAIN m \ w, NEW e \in Flows!RuntimeEdges(c)
        PROVE  /\ e.target \in DOMAIN m
               /\ Flows!AtMost(Flows!Along(c, e, Flows!AfterBlock(c, m[c])), m[e.target])
    <3>1. c \in DOMAIN entries /\ m[c] = entries[c] /\ (c \in worklist => c = b)
      BY <2>4
    <3>2. CASE c = b
      <4>1. e.target \in DOMAIN m
        BY <2>3, <3>2
      <4>2. Flows!AtMost(Flows!Along(b, e, Flows!AfterBlock(b, entries[b])), m[e.target])
        BY <2>3, <3>2
      <4> QED  BY <3>1, <3>2, <4>1, <4>2
    <3>3. CASE c # b
      <4>1. c \in DOMAIN entries \ worklist
        BY <3>1, <3>3
      <4>2. /\ e.target \in DOMAIN entries
            /\ Flows!AtMost(Flows!Along(c, e, Flows!AfterBlock(c, entries[c])), entries[e.target])
        BY <1>1, <4>1 DEF Flows!SolutionGrows
      <4>3. e.target \in DOMAIN m /\ Flows!AtMost(entries[e.target], m[e.target])
        BY <2>3, <4>2
      <4> QED  BY <3>1, <4>2, <4>3, KnowledgeIsOrdered
    <3> QED  BY <3>2, <3>3
  <2>10. Flows!SolutionGrows'
    BY <1>1, <2>3, <2>5, <2>8, <2>9, FlowStays DEF Flows!SolutionGrows
  <2>11. Flows!WellFormed' /\ state' = "solve"
    BY <1>1, <1>4, FlowStays
  <2>12. (Flows!Cardinality(Blocks) + Flows!Cardinality(Locals) <= max_facts)'
    BY <1>1, FlowsCounts
  <2> QED
    BY <2>7, <2>10, <2>11, <2>12 DEF Flows!DataflowInvariant, Flows!UsesAreExact, Flows!DefinitionsAreListed
<1>5. CASE iterations = MaxIterations
  BY <1>3, <1>5 DEF Flows!Iterate
<1>6. CASE iterations # MaxIterations
  <2>1. PICK b : b = Flows!Lowest(worklist)
    OBVIOUS
  <2>2. b \in worklist
    <3>1. worklist \in SUBSET Nat
      BY <1>1 DEF Flows!TypeOK, Flows!DataflowAssumption
    <3>2. \E x \in worklist : \A y \in worklist : x <= y
      BY <1>1, <3>1, HasLeast
    <3> QED  BY <2>1, <3>2 DEF Flows!Lowest
  <2>3. CASE Flows!TooMany(b, Flows!Merged(b))
    <3>1. Flows!Limited /\ UNCHANGED <<entries, worklist>>
      BY <1>6, <2>1, <2>3 DEF Flows!Iterate
    <3> QED  BY <1>3, <3>1
  <2>4. CASE ~Flows!TooMany(b, Flows!Merged(b))
    <3>1. /\ entries' = Flows!Merged(b)
          /\ worklist' = (worklist \ {b}) \cup Flows!Changed(Flows!Merged(b)) /\ UNCHANGED <<result, state>>
      BY <1>6, <2>1, <2>4 DEF Flows!Iterate
    <3> QED  BY <1>4, <2>2, <3>1
  <2> QED  BY <2>3, <2>4
<1> QED
  BY <1>5, <1>6

LEMMA FlowsConverged ==
  ASSUME Flows!DataflowAssumption, Flows!DataflowInvariant, Flows!Converged
  PROVE  Flows!DataflowInvariant'
<1>1. /\ UNCHANGED <<body, max_facts, entries, worklist, iterations, stopped>>
      /\ state = "solve" /\ worklist = {} /\ Flows!TypeOK /\ result = Flows!EmptyResult
      /\ Flows!WellFormed /\ Flows!SolutionGrows /\ Cardinality(Blocks) + Cardinality(Locals) <= max_facts
      /\ at' = [block |-> 0, step |-> 1] /\ flow' = entries[0] /\ state' = "emit"
      /\ output_facts' = Cardinality(Arguments) + Cardinality(DOMAIN entries)
  BY FlowsCounts DEF Flows!Converged, Flows!input, Flows!DataflowInvariant, Flows!TypeOK
<1>2. Flows!Solved
  BY <1>1, SolvedAtLast
<1>3. body \in Bodies /\ 0 \in Flows!Reached /\ Flows!Reached \subseteq Blocks /\ DOMAIN entries = Flows!Reached
      /\ entries[0] = Flows!Shown(Flows!RunsAt(0, 1)) /\ entries[0] \in Flows!AbstractStates
  <2>1. body \in Bodies
    BY <1>1 DEF Flows!TypeOK
  <2>2. 0 \in Flows!Reached /\ Flows!Reached \subseteq Blocks
    BY <1>1, <2>1, RunsAre
  <2> QED  BY <1>1, <1>2, <2>1, <2>2 DEF Flows!Solved, Flows!TypeOK
<1>4. PICK args : args = {[local |-> l, point |-> Flows!Entry] : l \in Arguments}
  OBVIOUS
<1>5. args \subseteq Flows!Definitions
  <2>1. Arguments \subseteq Locals /\ Flows!Entry \in Flows!Points
    BY DEF Flows!DataflowAssumption, Flows!Points
  <2> QED  BY <1>4, <2>1 DEF Flows!Definitions
<1>6. PICK q : q = result'
  OBVIOUS
<1>7. /\ q.fixed_point = TRUE /\ q.truncated = FALSE /\ q.reachable = Flows!Reached /\ q.definitions = args /\ q.uses = {}
      /\ q \in [fixed_point : BOOLEAN, uses : SUBSET Flows!Uses, definitions : SUBSET Flows!Definitions,
                reachable : SUBSET Blocks, truncated : BOOLEAN]
  <2>1. q = [fixed_point |-> TRUE, uses |-> {}, definitions |-> args, reachable |-> DOMAIN entries, truncated |-> FALSE]
    BY <1>1, <1>4, <1>6 DEF Flows!Converged, Flows!EmptyResult
  <2> QED  BY <1>3, <1>5, <2>1
<1>8. Cardinality(Arguments) + Cardinality(DOMAIN entries) <= max_facts
  <2>1. IsFiniteSet(Blocks) /\ IsFiniteSet(Locals) /\ Arguments \in SUBSET Locals /\ max_facts \in Nat
    BY <1>1, FlowsCounts DEF Flows!DataflowAssumption, Flows!TypeOK
  <2>2. DOMAIN entries \in SUBSET Blocks
    BY <1>1 DEF Flows!TypeOK
  <2>3. Cardinality(Arguments) <= Cardinality(Locals) /\ Cardinality(DOMAIN entries) <= Cardinality(Blocks)
        /\ IsFiniteSet(Arguments) /\ IsFiniteSet(DOMAIN entries)
    BY <2>1, <2>2, FS_Subset
  <2>4. /\ Cardinality(Arguments) \in Nat /\ Cardinality(DOMAIN entries) \in Nat
        /\ Cardinality(Locals) \in Nat /\ Cardinality(Blocks) \in Nat
    BY <2>1, <2>3, FS_CardinalityType
  <2> QED  BY <1>1, <2>1, <2>3, <2>4
<1>9. Flows!TypeOK'
  <2>1. 0 \in Blocks
    BY DEF Flows!DataflowAssumption
  <2>2. at' \in [block : Blocks, step : 1..3]
    BY <1>1, <2>1
  <2>3. (output_facts <= max_facts)'
    BY <1>1, <1>8
  <2>4. flow' \in Flows!AbstractStates
    BY <1>1, <1>3
  <2>5. result' \in [fixed_point : BOOLEAN, uses : SUBSET Flows!Uses, definitions : SUBSET Flows!Definitions,
                     reachable : SUBSET Blocks, truncated : BOOLEAN]
    BY <1>6, <1>7
  <2> QED  BY <1>1, <2>2, <2>3, <2>4, <2>5 DEF Flows!TypeOK
<1>10. Flows!ReportGrows'
  <2>1. \A b \in Flows!Reached, step \in {1, 2, 3} : ~(b < 0 \/ (b = 0 /\ step < 1))
    <3>1. Flows!Reached \subseteq Nat
      BY <1>3 DEF Flows!DataflowAssumption
    <3> SUFFICES ASSUME NEW b \in Flows!Reached, NEW step \in {1, 2, 3}
                 PROVE  ~(b < 0 \/ (b = 0 /\ step < 1))
      OBVIOUS
    <3>2. b \in Nat /\ step \in Nat /\ step >= 1
      BY <3>1
    <3> QED  BY <3>2
  <2>2. at'.block = 0 /\ at'.step = 1
    BY <1>1
  <2>3. \A b \in Flows!Reached, step \in {1, 2, 3} : ~Flows!Passed(b, step)'
    BY <2>1, <2>2 DEF Flows!Passed
  <2>4. Flows!Reached' = Flows!Reached /\ Flows!RunsAt(0, 1)' = Flows!RunsAt(0, 1)
    BY <1>1, FlowStays
  <2>5. flow' = Flows!Shown(Flows!RunsAt(0, 1))
    BY <1>1, <1>3
  <2> QED  BY <1>3, <1>4, <1>6, <1>7, <2>2, <2>3, <2>4, <2>5 DEF Flows!ReportGrows
<1>11. Flows!WellFormed' /\ Flows!Solved'
  BY <1>1, <1>2, FlowStays, FlowKept
<1> QED
  BY <1>1, <1>9, <1>10, <1>11 DEF Flows!DataflowInvariant, Flows!UsesAreExact, Flows!DefinitionsAreListed

\* The uses reported at a point are those of the executions that come to it.
LEMMA ReportIs ==
  ASSUME Flows!DataflowAssumption, body \in Bodies, Flows!WellFormed,
         NEW b \in Flows!Reached, NEW step \in {1, 2}, NEW s, s = Flows!Shown(Flows!RunsAt(b, step))
  PROVE  /\ Flows!Report(Flows!EffectsAt(b, step), Flows!PointAt(b, step), s) = Flows!UsesAt(b, step)
         /\ Flows!UsesAt(b, step) \subseteq Flows!Uses /\ Flows!Assigned(b, step) \subseteq Flows!Definitions
         /\ Flows!Assigned(b, 3) \subseteq Flows!Definitions
         /\ s \in Flows!AbstractStates
         /\ Flows!transfer(s, Flows!EffectsAt(b, step), Flows!PointAt(b, step)) \in Flows!AbstractStates
         /\ step = 1 => Flows!transfer(s, Flows!EffectsAt(b, 1), Flows!PointAt(b, 1)) = Flows!Shown(Flows!RunsAt(b, 2))
<1>1. b \in Blocks
  BY RunsAre
<1>2. PICK R \in SUBSET FlowRuns : R = Flows!RunsAt(b, 1) /\ R # {}
  BY <1>1, RunsAre
<1>3. Flows!RunsAt(b, 2) = AllMidway(b, R) /\ AllMidway(b, R) \in SUBSET FlowRuns /\ AllMidway(b, R) # {}
  BY <1>1, <1>2, RunsAre, MidwayShown DEF AllMidway
<1>4. PICK Q \in SUBSET FlowRuns : Q = Flows!RunsAt(b, step) /\ Q # {}
  BY <1>2, <1>3
<1>5. PICK effects \in Flows!Effects : effects = Flows!EffectsAt(b, step)
  BY <1>1, CodeIs
<1>6. PICK p \in Flows!Points : p = Flows!PointAt(b, step)
  BY <1>1, CodeIs
<1>7. /\ s \in Flows!AbstractStates
      /\ \A l \in Locals : /\ s.values[l].definitions = {r.env[l] : r \in Q} \ {Flows!Unset}
                           /\ s.values[l].uninitialized <=> \E r \in Q : r.env[l] = Flows!Unset
      /\ s.unknown <=> \E r \in Q : r.tainted
  BY <1>4, ShownIs
<1>8. Flows!Used(effects) \subseteq Locals
  BY DEF Flows!Used, Flows!Effects
<1> DEFINE reported(l) == [local |-> l, point |-> p, reaching |-> s.values[l].definitions,
                           gap |-> s.values[l].uninitialized, tainted |-> s.unknown \/ effects.unknown]
           used(l) == [local |-> l, point |-> p, reaching |-> {r.env[l] : r \in Q} \ {Flows!Unset},
                       gap |-> \E r \in Q : r.env[l] = Flows!Unset,
                       tainted |-> effects.unknown \/ \E r \in Q : r.tainted]
<1>9. ASSUME NEW l \in Locals
      PROVE  reported(l) = used(l) /\ reported(l) \in Flows!Uses
  <2>1. s.values[l] \in Flows!AbstractValues /\ s.unknown \in BOOLEAN /\ effects.unknown \in BOOLEAN
    BY <1>7 DEF Flows!AbstractStates, Flows!Effects
  <2>2. s.values[l].definitions \in SUBSET Flows!Points /\ s.values[l].uninitialized \in BOOLEAN
    BY <2>1 DEF Flows!AbstractValues
  <2>3. PICK D : D = {r.env[l] : r \in Q} \ {Flows!Unset}
    OBVIOUS
  <2>4. PICK gap \in BOOLEAN : gap = \E r \in Q : r.env[l] = Flows!Unset
    <3>1. (\E r \in Q : r.env[l] = Flows!Unset) \in BOOLEAN
      OBVIOUS
    <3> QED  BY <3>1
  <2>5. PICK t \in BOOLEAN : t = (effects.unknown \/ \E r \in Q : r.tainted)
    <3>1. (effects.unknown \/ \E r \in Q : r.tainted) \in BOOLEAN
      OBVIOUS
    <3> QED  BY <3>1
  <2>6. used(l) = [local |-> l, point |-> p, reaching |-> D, gap |-> gap, tainted |-> t]
    BY <2>3, <2>4, <2>5
  <2>7. D = s.values[l].definitions
    BY <1>7, <2>3
  <2>8. gap = s.values[l].uninitialized
    BY <1>7, <2>2, <2>4
  <2>9. PICK u \in BOOLEAN : u = (s.unknown \/ effects.unknown)
    BY <2>1
  <2>10. u = t
    BY <1>7, <2>1, <2>5, <2>9
  <2>11. reported(l) = [local |-> l, point |-> p, reaching |-> D, gap |-> gap, tainted |-> u]
    BY <2>7, <2>8, <2>9
  <2> HIDE DEF reported, used
  <2>12. reported(l) \in Flows!Uses
    BY <2>2, <2>7, <2>11 DEF Flows!Uses
  <2> QED  BY <2>6, <2>10, <2>11, <2>12
<1>10. /\ Flows!Report(effects, p, s) = {reported(l) : l \in Flows!Used(effects)}
       /\ Flows!UsesAt(b, step) = {used(l) : l \in Flows!Used(effects)}
  BY <1>4, <1>5, <1>6 DEF Flows!Report, Flows!UsesAt
<1> HIDE DEF reported, used
<1>11. \A x : x \in Flows!Report(effects, p, s) <=> x \in Flows!UsesAt(b, step)
  BY <1>8, <1>9, <1>10
<1>12. Flows!Report(effects, p, s) = Flows!UsesAt(b, step)
  BY <1>10, <1>11
<1>13. Flows!UsesAt(b, step) \subseteq Flows!Uses
  BY <1>8, <1>9, <1>10
<1>14. Flows!Assigned(b, step) \subseteq Flows!Definitions
  BY <1>5, <1>6 DEF Flows!Assigned, Flows!Definitions, Flows!Effects
<1>15. Flows!Assigned(b, 3) \subseteq Flows!Definitions
  <2>1. \A e \in body[b].edges : Flows!NormalReturn(b, e.target) \in Flows!Points
    BY <1>1, CodeIs DEF Flows!WellFormed
  <2>2. Flows!ReturnPoints(b) \subseteq Flows!Points /\ body[b].returns \subseteq Locals
    BY <1>1, <2>1, CodeIs DEF Flows!ReturnPoints
  <2>3. ASSUME NEW d \in Flows!Assigned(b, 3)
        PROVE  d \in Flows!Definitions
    <3>1. PICK l \in body[b].returns, x \in Flows!ReturnPoints(b) : d = [local |-> l, point |-> x]
      BY DEF Flows!Assigned
    <3> QED  BY <2>2, <3>1 DEF Flows!Definitions
  <2> QED  BY <2>3
<1>16. Flows!transfer(s, effects, p) \in Flows!AbstractStates
  BY <1>7, TransferIs
<1>17. ASSUME step = 1
       PROVE  Flows!transfer(s, Flows!EffectsAt(b, 1), Flows!PointAt(b, 1)) = Flows!Shown(Flows!RunsAt(b, 2))
  <2>1. s = Flows!Shown(R)
    BY <1>2, <1>17
  <2>2. Flows!transfer(Flows!Shown(R), body[b].statement, Flows!Statement(b)) = Flows!Shown(AllMidway(b, R))
    BY <1>1, <1>2, MidwayShown
  <2> QED  BY <1>3, <2>1, <2>2 DEF Flows!EffectsAt, Flows!PointAt
<1> QED
  BY <1>5, <1>6, <1>7, <1>12, <1>13, <1>14, <1>15, <1>16, <1>17

LEMMA FlowsEmitPoint ==
  ASSUME Flows!DataflowAssumption, Flows!DataflowInvariant, Flows!EmitPoint
  PROVE  Flows!DataflowInvariant'
<1>1. /\ UNCHANGED <<body, max_facts, entries, worklist, iterations, stopped>>
      /\ state = "emit" /\ at.step < 3 /\ Flows!TypeOK /\ Flows!WellFormed /\ Flows!Solved /\ Flows!ReportGrows
  BY DEF Flows!EmitPoint, Flows!input, Flows!DataflowInvariant
<1>2. PICK b \in Flows!Reached, step \in {1, 2} : at = [block |-> b, step |-> step] /\ flow = Flows!Shown(Flows!RunsAt(b, step))
  <2>1. at.block \in Flows!Reached /\ flow = Flows!Shown(Flows!RunsAt(at.block, at.step))
    BY <1>1 DEF Flows!ReportGrows
  <2>2. at.step \in {1, 2} /\ at = [block |-> at.block, step |-> at.step]
    BY <1>1 DEF Flows!TypeOK
  <2> QED  BY <2>1, <2>2
<1>3. body \in Bodies /\ b \in Blocks /\ Flows!Reached \subseteq Nat
  BY <1>1, RunsAre DEF Flows!TypeOK, Flows!DataflowAssumption
<1>4. PICK U : U = Flows!UsesAt(b, step)
  OBVIOUS
<1>5. PICK D : D = Flows!Assigned(b, step)
  OBVIOUS
<1>6. /\ Flows!Report(Flows!EffectsAt(b, step), Flows!PointAt(b, step), flow) = U
      /\ U \subseteq Flows!Uses /\ D \subseteq Flows!Definitions
      /\ Flows!transfer(flow, Flows!EffectsAt(b, step), Flows!PointAt(b, step)) \in Flows!AbstractStates
      /\ step = 1 => Flows!transfer(flow, Flows!EffectsAt(b, 1), Flows!PointAt(b, 1)) = Flows!Shown(Flows!RunsAt(b, 2))
  BY <1>1, <1>2, <1>3, <1>4, <1>5, ReportIs
<1>7. at.block = b /\ at.step = step
  BY <1>2
<1>8. PICK next : next = output_facts + Flows!Extra(Flows!EffectsAt(b, step), flow)
  OBVIOUS
<1>9. PICK r : /\ r = result
               /\ r \in [fixed_point : BOOLEAN, uses : SUBSET Flows!Uses, definitions : SUBSET Flows!Definitions,
                         reachable : SUBSET Blocks, truncated : BOOLEAN]
  BY <1>1 DEF Flows!TypeOK
<1>10. CASE ~(next <= max_facts)
  <2>1. Flows!Limited /\ UNCHANGED <<at, flow, output_facts>>
    BY <1>7, <1>8, <1>10 DEF Flows!EmitPoint
  <2>2. /\ result' \in [fixed_point : BOOLEAN, uses : SUBSET Flows!Uses, definitions : SUBSET Flows!Definitions,
                        reachable : SUBSET Blocks, truncated : BOOLEAN]
        /\ Flows!UsesAreExact' /\ Flows!DefinitionsAreListed' /\ state' = "done"
    BY <1>1, <2>1, LimitedFlows
  <2>3. Flows!TypeOK'
    BY <1>1, <2>1, <2>2 DEF Flows!TypeOK
  <2> QED  BY <2>2, <2>3 DEF Flows!DataflowInvariant
<1>11. CASE next <= max_facts
  <2>1. /\ result' = [r EXCEPT !.uses = @ \cup U, !.definitions = @ \cup D]
        /\ output_facts' = next
        /\ flow' = Flows!transfer(flow, Flows!EffectsAt(b, step), Flows!PointAt(b, step))
        /\ at' = [at EXCEPT !.step = @ + 1] /\ state' = "emit"
    BY <1>1, <1>5, <1>6, <1>7, <1>8, <1>9, <1>11 DEF Flows!EmitPoint
  <2>2. PICK q : q = [r EXCEPT !.uses = @ \cup U, !.definitions = @ \cup D]
    OBVIOUS
  <2>3. /\ q \in [fixed_point : BOOLEAN, uses : SUBSET Flows!Uses, definitions : SUBSET Flows!Definitions,
                  reachable : SUBSET Blocks, truncated : BOOLEAN]
        /\ q.fixed_point = r.fixed_point /\ q.truncated = r.truncated /\ q.reachable = r.reachable
        /\ q.uses = r.uses \cup U /\ q.definitions = r.definitions \cup D
    BY <1>6, <1>9, <2>2
  <2>4. at' = [block |-> b, step |-> step + 1] /\ step + 1 \in {2, 3}
    BY <1>2, <2>1
  <2>5. Flows!TypeOK'
    <3>1. (output_facts <= max_facts)'
      BY <1>1, <1>11, <2>1
    <3>2. at' \in [block : Blocks, step : 1..3]
      BY <1>3, <2>4
    <3>3. flow' \in Flows!AbstractStates /\ result' = q
      BY <1>6, <2>1, <2>2
    <3> QED  BY <1>1, <2>1, <2>3, <3>1, <3>2, <3>3 DEF Flows!TypeOK
  <2>6. ASSUME NEW c \in Flows!Reached, NEW k \in {1, 2, 3}
        PROVE  Flows!Passed(c, k)' <=> Flows!Passed(c, k) \/ (c = b /\ k = step)
    <3>1. Flows!Passed(c, k) <=> c < b \/ (c = b /\ k < step)
      BY <1>7 DEF Flows!Passed
    <3>2. at'.block = b /\ at'.step = step + 1
      BY <2>4
    <3>3. Flows!Passed(c, k)' <=> c < b \/ (c = b /\ k < step + 1)
      BY <3>2 DEF Flows!Passed
    <3>4. k < step + 1 <=> k < step \/ k = step
      OBVIOUS
    <3> QED  BY <3>1, <3>3, <3>4
  <2>7. Flows!ReportGrows'
    <3>1. /\ r.fixed_point /\ ~r.truncated /\ r.reachable = Flows!Reached
          /\ \A c \in Flows!Reached, k \in {1, 2} : Flows!Passed(c, k) => Flows!UsesAt(c, k) \subseteq r.uses
          /\ \A u \in r.uses : \E c \in Flows!Reached, k \in {1, 2} : Flows!Passed(c, k) /\ u \in Flows!UsesAt(c, k)
          /\ {[local |-> l, point |-> Flows!Entry] : l \in Arguments} \subseteq r.definitions
          /\ \A c \in Flows!Reached, k \in {1, 2, 3} : Flows!Passed(c, k) => Flows!Assigned(c, k) \subseteq r.definitions
      BY <1>1, <1>9 DEF Flows!ReportGrows
    <3>2. \A c \in Flows!Reached, k \in {1, 2} : Flows!Passed(c, k)' => Flows!UsesAt(c, k) \subseteq q.uses
      BY <1>4, <2>3, <2>6, <3>1
    <3>3. ASSUME NEW u \in q.uses
          PROVE  \E c \in Flows!Reached, k \in {1, 2} : Flows!Passed(c, k)' /\ u \in Flows!UsesAt(c, k)
      <4>1. CASE u \in U
        BY <1>4, <2>6, <4>1
      <4>2. CASE u \in r.uses
        BY <2>6, <3>1, <4>2
      <4> QED  BY <2>3, <4>1, <4>2
    <3>4. \A c \in Flows!Reached, k \in {1, 2, 3} : Flows!Passed(c, k)' => Flows!Assigned(c, k) \subseteq q.definitions
      BY <1>5, <2>3, <2>6, <3>1
    <3>5. at'.block = b /\ at'.step = step + 1 /\ (step + 1 < 3 => flow' = Flows!Shown(Flows!RunsAt(b, step + 1)))
      <4>1. step + 1 < 3 => step = 1 /\ step + 1 = 2
        OBVIOUS
      <4> QED  BY <1>6, <2>1, <2>4, <4>1
    <3>6. {[local |-> l, point |-> Flows!Entry] : l \in Arguments} \subseteq q.definitions
      BY <2>3, <3>1
    <3>7. result' = q /\ q.fixed_point /\ ~q.truncated /\ q.reachable = Flows!Reached
      BY <2>1, <2>2, <2>3, <3>1
    <3>8. /\ Flows!Reached' = Flows!Reached
          /\ \A c, k : /\ Flows!RunsAt(c, k)' = Flows!RunsAt(c, k) /\ Flows!UsesAt(c, k)' = Flows!UsesAt(c, k)
                       /\ Flows!Assigned(c, k)' = Flows!Assigned(c, k)
      BY <1>1, FlowStays
    <3>9. (at.block \in Flows!Reached /\ (at.step < 3 => flow = Flows!Shown(Flows!RunsAt(at.block, at.step))))'
      BY <3>5, <3>8
    <3>10. (\A c \in Flows!Reached, k \in {1, 2} : Flows!Passed(c, k) => Flows!UsesAt(c, k) \subseteq result.uses)'
      BY <3>2, <3>7, <3>8
    <3>11. (\A u \in result.uses : \E c \in Flows!Reached, k \in {1, 2} : Flows!Passed(c, k) /\ u \in Flows!UsesAt(c, k))'
      BY <3>3, <3>7, <3>8
    <3>12. (\A c \in Flows!Reached, k \in {1, 2, 3} : Flows!Passed(c, k) => Flows!Assigned(c, k) \subseteq result.definitions)'
      BY <3>4, <3>7, <3>8
    <3> QED  BY <3>6, <3>7, <3>8, <3>9, <3>10, <3>11, <3>12 DEF Flows!ReportGrows
  <2>8. Flows!WellFormed' /\ Flows!Solved'
    BY <1>1, FlowStays, FlowKept
  <2> QED
    BY <2>1, <2>5, <2>7, <2>8 DEF Flows!DataflowInvariant, Flows!UsesAreExact, Flows!DefinitionsAreListed
<1> QED
  BY <1>10, <1>11

LEMMA FlowsEmitReturns ==
  ASSUME Flows!DataflowAssumption, Flows!DataflowInvariant, Flows!EmitReturns
  PROVE  Flows!DataflowInvariant'
<1>1. /\ UNCHANGED <<body, max_facts, entries, worklist, iterations, stopped>>
      /\ state = "emit" /\ at.step = 3 /\ Flows!TypeOK /\ Flows!WellFormed /\ Flows!Solved /\ Flows!ReportGrows
  BY DEF Flows!EmitReturns, Flows!input, Flows!DataflowInvariant
<1>2. PICK b \in Flows!Reached : at.block = b
  BY <1>1 DEF Flows!ReportGrows
<1>3. /\ body \in Bodies /\ b \in Blocks /\ Flows!Reached \subseteq Nat /\ Flows!Reached \subseteq Blocks
      /\ DOMAIN entries = Flows!Reached
      /\ \A c \in Flows!Reached : entries[c] = Flows!Shown(Flows!RunsAt(c, 1))
      /\ \A c \in Flows!Reached : entries[c] \in Flows!AbstractStates
  <2>1. body \in Bodies
    BY <1>1 DEF Flows!TypeOK
  <2>2. Flows!Reached \subseteq Blocks
    BY <1>1, <2>1, RunsAre
  <2> QED  BY <1>1, <2>1, <2>2 DEF Flows!Solved, Flows!TypeOK, Flows!DataflowAssumption
<1>4. PICK D : D = Flows!Assigned(b, 3)
  OBVIOUS
<1>5. D \subseteq Flows!Definitions
  <2>1. PICK s : s = Flows!Shown(Flows!RunsAt(b, 1))
    OBVIOUS
  <2> QED  BY <1>1, <1>3, <1>4, <2>1, ReportIs
<1>6. PICK rest : rest = {c \in Flows!Reached : c > b}
  OBVIOUS
<1>7. PICK next : next = output_facts + Flows!Cardinality(D)
  OBVIOUS
<1>8. PICK r : /\ r = result
               /\ r \in [fixed_point : BOOLEAN, uses : SUBSET Flows!Uses, definitions : SUBSET Flows!Definitions,
                         reachable : SUBSET Blocks, truncated : BOOLEAN]
  BY <1>1 DEF Flows!TypeOK
<1>9. PICK q : q = [r EXCEPT !.definitions = @ \cup D]
  OBVIOUS
<1>10. /\ q \in [fixed_point : BOOLEAN, uses : SUBSET Flows!Uses, definitions : SUBSET Flows!Definitions,
                 reachable : SUBSET Blocks, truncated : BOOLEAN]
       /\ q.fixed_point = r.fixed_point /\ q.truncated = r.truncated /\ q.reachable = r.reachable
       /\ q.uses = r.uses /\ q.definitions = r.definitions \cup D
  BY <1>5, <1>8, <1>9
<1>11. /\ r.fixed_point /\ ~r.truncated /\ r.reachable = Flows!Reached
       /\ \A c \in Flows!Reached, k \in {1, 2} : Flows!Passed(c, k) => Flows!UsesAt(c, k) \subseteq r.uses
       /\ \A u \in r.uses : \E c \in Flows!Reached, k \in {1, 2} : Flows!Passed(c, k) /\ u \in Flows!UsesAt(c, k)
       /\ {[local |-> l, point |-> Flows!Entry] : l \in Arguments} \subseteq r.definitions
       /\ \A c \in Flows!Reached, k \in {1, 2, 3} : Flows!Passed(c, k) => Flows!Assigned(c, k) \subseteq r.definitions
  BY <1>1, <1>8 DEF Flows!ReportGrows
<1>12. /\ \A c \in Flows!Reached, k \in {1, 2} : c <= b => Flows!UsesAt(c, k) \subseteq q.uses
       /\ \A u \in q.uses : \E c \in Flows!Reached, k \in {1, 2} : c <= b /\ u \in Flows!UsesAt(c, k)
       /\ \A c \in Flows!Reached, k \in {1, 2, 3} : c <= b => Flows!Assigned(c, k) \subseteq q.definitions
  <2>1. \A c \in Flows!Reached, k \in {1, 2} : Flows!Passed(c, k) <=> c <= b
    <3> SUFFICES ASSUME NEW c \in Flows!Reached, NEW k \in {1, 2}
                 PROVE  Flows!Passed(c, k) <=> c <= b
      OBVIOUS
    <3>1. c \in Nat /\ b \in Nat /\ k < 3
      BY <1>3
    <3> QED  BY <1>1, <1>2, <3>1 DEF Flows!Passed
  <2>2. \A c \in Flows!Reached, k \in {1, 2, 3} : c <= b => Flows!Passed(c, k) \/ (c = b /\ k = 3)
    <3> SUFFICES ASSUME NEW c \in Flows!Reached, NEW k \in {1, 2, 3}, c <= b
                 PROVE  Flows!Passed(c, k) \/ (c = b /\ k = 3)
      OBVIOUS
    <3>1. c \in Nat /\ b \in Nat /\ (k < 3 \/ k = 3)
      BY <1>3
    <3> QED  BY <1>1, <1>2, <3>1 DEF Flows!Passed
  <2> QED  BY <1>4, <1>10, <1>11, <2>1, <2>2
<1>13. Flows!WellFormed' /\ Flows!Solved'
  BY <1>1, FlowStays, FlowKept
<1>14. CASE ~(next <= max_facts)
  <2>1. PICK some \in SUBSET D :
          /\ result' = [result EXCEPT !.truncated = TRUE, !.definitions = @ \cup some] \/ result' = Flows!Withheld
          /\ state' = "done" /\ UNCHANGED <<at, flow, output_facts>>
    BY <1>2, <1>4, <1>7, <1>14 DEF Flows!EmitReturns
  <2>2. PICK p : p = result'
    OBVIOUS
  <2>3. p = [r EXCEPT !.truncated = TRUE, !.definitions = @ \cup some] \/ p = Flows!Withheld
    BY <1>8, <2>1, <2>2
  <2>4. /\ p \in [fixed_point : BOOLEAN, uses : SUBSET Flows!Uses, definitions : SUBSET Flows!Definitions,
                  reachable : SUBSET Blocks, truncated : BOOLEAN]
        /\ p.truncated = TRUE /\ (p.uses = r.uses \/ p.uses = {})
    BY <1>5, <1>8, <2>3 DEF Flows!Withheld, Flows!EmptyResult
  <2>5. Flows!TypeOK'
    BY <1>1, <2>1, <2>2, <2>4 DEF Flows!TypeOK
  <2>6. \A u \in p.uses : u \in Flows!ExpectedUses
    BY <1>11, <2>4 DEF Flows!ExpectedUses
  <2>7. Flows!ExpectedUses' = Flows!ExpectedUses
    BY <1>1, FlowStays
  <2>8. Flows!UsesAreExact' /\ Flows!DefinitionsAreListed'
    BY <2>2, <2>4, <2>6, <2>7 DEF Flows!UsesAreExact, Flows!DefinitionsAreListed
  <2> QED  BY <2>1, <2>5, <2>8 DEF Flows!DataflowInvariant
<1>15. CASE next <= max_facts /\ rest = {}
  <2>1. /\ output_facts' = next /\ (result' = q \/ result' = Flows!Withheld)
        /\ state' = "done" /\ UNCHANGED <<at, flow>>
    BY <1>2, <1>3, <1>4, <1>6, <1>7, <1>8, <1>9, <1>15 DEF Flows!EmitReturns
  <2>2. PICK p : p = result'
    OBVIOUS
  <2>3. p \in [fixed_point : BOOLEAN, uses : SUBSET Flows!Uses, definitions : SUBSET Flows!Definitions,
               reachable : SUBSET Blocks, truncated : BOOLEAN]
    BY <1>10, <2>1, <2>2 DEF Flows!Withheld, Flows!EmptyResult
  <2>4. Flows!TypeOK'
    <3>1. (output_facts <= max_facts)'
      BY <1>1, <1>15, <2>1
    <3> QED  BY <1>1, <2>1, <2>2, <2>3, <3>1 DEF Flows!TypeOK
  <2>5. CASE p = Flows!Withheld
    <3>1. p.truncated = TRUE /\ p.uses = {}
      BY <2>5 DEF Flows!Withheld, Flows!EmptyResult
    <3>2. Flows!UsesAreExact' /\ Flows!DefinitionsAreListed'
      BY <2>2, <3>1 DEF Flows!UsesAreExact, Flows!DefinitionsAreListed
    <3> QED  BY <2>1, <2>4, <3>2 DEF Flows!DataflowInvariant
  <2>6. CASE p = q
    <3>1. \A c \in Flows!Reached : c <= b
      BY <1>3, <1>6, <1>15
    <3>2. /\ \A c \in Flows!Reached, k \in {1, 2} : Flows!UsesAt(c, k) \subseteq q.uses
          /\ \A u \in q.uses : \E c \in Flows!Reached, k \in {1, 2} : u \in Flows!UsesAt(c, k)
          /\ \A c \in Flows!Reached, k \in {1, 2, 3} : Flows!Assigned(c, k) \subseteq q.definitions
      BY <1>12, <3>1
    <3>3. q.uses = Flows!ExpectedUses
      <4>1. \A u : u \in Flows!ExpectedUses <=> \E c \in Flows!Reached, k \in {1, 2} : u \in Flows!UsesAt(c, k)
        BY DEF Flows!ExpectedUses
      <4>2. \A u : u \in q.uses <=> u \in Flows!ExpectedUses
        BY <3>2, <4>1
      <4> QED  BY <4>2
    <3>4. q.reachable = Flows!Reached
      BY <1>10, <1>11
    <3>5. Flows!UsesAreExact'
      BY <1>1, <1>10, <1>11, <2>2, <2>6, <3>3, <3>4, FlowStays DEF Flows!UsesAreExact
    <3>6. ASSUME NEW u \in q.uses, NEW x \in u.reaching
          PROVE  [local |-> u.local, point |-> x] \in q.definitions
      <4>1. PICK c \in Flows!Reached, k \in {1, 2} : u \in Flows!UsesAt(c, k)
        BY <3>2
      <4>2. PICK l \in Flows!Used(Flows!EffectsAt(c, k)) :
              u.local = l /\ u.reaching = {y.env[l] : y \in Flows!RunsAt(c, k)} \ {Flows!Unset}
        BY <4>1 DEF Flows!UsesAt
      <4>3. PICK y \in Flows!RunsAt(c, k) : x = y.env[l] /\ x # Flows!Unset
        BY <3>6, <4>2
      <4>4. c \in Blocks /\ l \in Locals
        <5>1. c \in Blocks
          BY <1>3
        <5>2. PICK effects \in Flows!Effects : effects = Flows!EffectsAt(c, k)
          BY <1>3, <5>1, CodeIs
        <5>3. l \in Locals
          BY <4>2, <5>2 DEF Flows!Used, Flows!Effects
        <5> QED  BY <5>1, <5>3
      <4>5. \/ x = Flows!Entry /\ l \in Arguments
            \/ \E d \in Flows!Reached, j \in {1, 2, 3} : [local |-> l, point |-> x] \in Flows!Assigned(d, j)
        BY <1>1, <1>3, <4>3, <4>4, BroughtIsAssigned
      <4>6. CASE x = Flows!Entry /\ l \in Arguments
        <5>1. [local |-> l, point |-> x] \in {[local |-> a, point |-> Flows!Entry] : a \in Arguments}
          BY <4>6
        <5> QED  BY <1>10, <1>11, <4>2, <5>1
      <4>7. CASE \E d \in Flows!Reached, j \in {1, 2, 3} : [local |-> l, point |-> x] \in Flows!Assigned(d, j)
        BY <3>2, <4>2, <4>7
      <4> QED  BY <4>5, <4>6, <4>7
    <3>7. Flows!DefinitionsAreListed'
      BY <2>2, <2>6, <3>6 DEF Flows!DefinitionsAreListed
    <3> QED  BY <2>1, <2>4, <3>5, <3>7 DEF Flows!DataflowInvariant
  <2> QED  BY <1>8, <2>1, <2>2, <2>5, <2>6
<1>16. CASE next <= max_facts /\ rest # {}
  <2>1. PICK low : low = Flows!Lowest(rest)
    OBVIOUS
  <2>2. /\ output_facts' = next /\ result' = q /\ state' = "emit"
        /\ at' = [block |-> low, step |-> 1] /\ flow' = entries[low]
    BY <1>1, <1>2, <1>3, <1>4, <1>6, <1>7, <1>8, <1>9, <1>16, <2>1 DEF Flows!EmitReturns
  <2>3. low \in rest /\ \A c \in rest : low <= c
    <3>1. rest \in SUBSET Nat
      BY <1>3, <1>6
    <3>2. \E x \in rest : \A y \in rest : x <= y
      BY <1>16, <3>1, HasLeast
    <3> QED  BY <2>1, <3>2 DEF Flows!Lowest
  <2>4. low \in Flows!Reached /\ low \in Blocks
    BY <1>3, <1>6, <2>3
  <2>5. Flows!TypeOK'
    <3>1. (output_facts <= max_facts)'
      BY <1>1, <1>16, <2>2
    <3>2. at' \in [block : Blocks, step : 1..3]
      BY <2>2, <2>4
    <3>3. flow' \in Flows!AbstractStates
      BY <1>3, <2>2, <2>4
    <3> QED  BY <1>1, <1>10, <2>2, <3>1, <3>2, <3>3 DEF Flows!TypeOK
  <2>6. ASSUME NEW c \in Flows!Reached, NEW k \in {1, 2, 3}
        PROVE  Flows!Passed(c, k)' <=> c <= b
    <3>1. at'.block = low /\ at'.step = 1
      BY <2>2
    <3>2. Flows!Passed(c, k)' <=> c < low \/ (c = low /\ k < 1)
      BY <3>1 DEF Flows!Passed
    <3>3. c \in Nat /\ b \in Nat /\ low \in Nat /\ low > b /\ ~(k < 1)
      BY <1>3, <1>6, <2>3
    <3>4. c > b => low <= c
      BY <1>6, <2>3
    <3> QED  BY <3>2, <3>3, <3>4
  <2>7. Flows!ReportGrows'
    <3>1. \A c \in Flows!Reached, k \in {1, 2} : Flows!Passed(c, k)' => Flows!UsesAt(c, k) \subseteq q.uses
      BY <1>12, <2>6
    <3>2. \A u \in q.uses : \E c \in Flows!Reached, k \in {1, 2} : Flows!Passed(c, k)' /\ u \in Flows!UsesAt(c, k)
      BY <1>12, <2>6
    <3>3. \A c \in Flows!Reached, k \in {1, 2, 3} : Flows!Passed(c, k)' => Flows!Assigned(c, k) \subseteq q.definitions
      BY <1>12, <2>6
    <3>4. at'.block = low /\ at'.step = 1 /\ flow' = Flows!Shown(Flows!RunsAt(low, 1))
      BY <1>3, <2>2, <2>4
    <3>5. {[local |-> l, point |-> Flows!Entry] : l \in Arguments} \subseteq q.definitions
      BY <1>10, <1>11
    <3>6. result' = q /\ q.fixed_point /\ ~q.truncated /\ q.reachable = Flows!Reached
      BY <1>10, <1>11, <2>2
    <3>7. /\ Flows!Reached' = Flows!Reached
          /\ \A c, k : /\ Flows!RunsAt(c, k)' = Flows!RunsAt(c, k) /\ Flows!UsesAt(c, k)' = Flows!UsesAt(c, k)
                       /\ Flows!Assigned(c, k)' = Flows!Assigned(c, k)
      BY <1>1, FlowStays
    <3>8. (at.block \in Flows!Reached /\ (at.step < 3 => flow = Flows!Shown(Flows!RunsAt(at.block, at.step))))'
      BY <2>4, <3>4, <3>7
    <3>9. (\A c \in Flows!Reached, k \in {1, 2} : Flows!Passed(c, k) => Flows!UsesAt(c, k) \subseteq result.uses)'
      BY <3>1, <3>6, <3>7
    <3>10. (\A u \in result.uses : \E c \in Flows!Reached, k \in {1, 2} : Flows!Passed(c, k) /\ u \in Flows!UsesAt(c, k))'
      BY <3>2, <3>6, <3>7
    <3>11. (\A c \in Flows!Reached, k \in {1, 2, 3} : Flows!Passed(c, k) => Flows!Assigned(c, k) \subseteq result.definitions)'
      BY <3>3, <3>6, <3>7
    <3> QED  BY <3>5, <3>6, <3>7, <3>8, <3>9, <3>10, <3>11 DEF Flows!ReportGrows
  <2> QED
    BY <1>13, <2>2, <2>5, <2>7 DEF Flows!DataflowInvariant, Flows!UsesAreExact, Flows!DefinitionsAreListed
<1> QED
  BY <1>14, <1>15, <1>16

LEMMA FlowsStutter ==
  ASSUME Flows!DataflowInvariant, UNCHANGED Flows!vars
  PROVE  Flows!DataflowInvariant'
<1>1. UNCHANGED <<body, max_facts, entries, worklist, iterations, at, flow, output_facts, result, stopped, state>>
  BY DEF Flows!vars
<1>2. Flows!TypeOK'
  BY <1>1 DEF Flows!DataflowInvariant, Flows!TypeOK
<1>3. Flows!UsesAreExact' /\ Flows!DefinitionsAreListed'
  BY <1>1, FlowStays DEF Flows!DataflowInvariant, Flows!UsesAreExact, Flows!DefinitionsAreListed
<1> QED
  BY <1>1, <1>2, <1>3, FlowStays, FlowKept DEF Flows!DataflowInvariant

\* For any body, limits and moments at which the control stops: the uses that an answer
\* lists have exactly the assignments, the gap and the taint that executions bring to them;
\* an answer that was not cut lists every use of every block that can run, and every
\* assignment that it names in a use is in its list of definitions.
THEOREM DataflowIsExactHolds ==
  Flows!DataflowAssumption =>
    (Flows!Spec => [](Flows!TypeOK /\ Flows!UsesAreExact /\ Flows!DefinitionsAreListed))
<1> SUFFICES ASSUME Flows!DataflowAssumption
             PROVE  Flows!Spec => [](Flows!TypeOK /\ Flows!UsesAreExact /\ Flows!DefinitionsAreListed)
  OBVIOUS
<1>1. Flows!Init => Flows!DataflowInvariant
  BY DataflowInit
<1>2. Flows!DataflowInvariant /\ [Flows!Next]_(Flows!vars) => Flows!DataflowInvariant'
  BY FlowsStop, FlowsGive, FlowsValidate, FlowsIterate, FlowsConverged, FlowsEmitPoint, FlowsEmitReturns,
     FlowsStutter DEF Flows!Next
<1>3. Flows!DataflowInvariant => Flows!TypeOK /\ Flows!UsesAreExact /\ Flows!DefinitionsAreListed
  BY DEF Flows!DataflowInvariant
<1> QED
  BY <1>1, <1>2, <1>3, PTL DEF Flows!Spec
=============================================================================
