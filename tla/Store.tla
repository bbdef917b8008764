-------------------------------- MODULE Store --------------------------------
(***************************************************************************)
(* The snapshot store of crates/store: publishers that write immutable     *)
(* objects, register them as owned and commit a catalog transaction,       *)
(* readers, pins, and the garbage collector that plans and executes the    *)
(* removal of snapshots and objects.  The actors are processes that share  *)
(* the directory, the SQLite catalog and the lease file; each may die at   *)
(* any step.                                                               *)
(*                                                                         *)
(* A snapshot and an object are named by the hash of their content, so the *)
(* objects of a snapshot are fixed: its source files and its shard, which  *)
(* carries the name of the snapshot here.  What a file is made of is left  *)
(* out; what is kept of it is the identity (device, inode, size) that the  *)
(* catalog records.                                                        *)
(***************************************************************************)
EXTENDS Integers, FiniteSets

CONSTANTS
  Snapshots,
  Files,            \* source objects
  FilesOf,          \* snapshot -> its source objects
  ScopeOf,          \* snapshot -> its repository and build context
  Heads,            \* names of heads
  Pins,             \* names of pins
  Publications,     \* what callers publish: [snapshot, head, import]
  Publishers,       \* publishing processes
  Readers,          \* reading processes
  Policies,         \* retention policies [keep, grace, roots]
  Identities,       \* identities a file created at a path may get
  None,             \* no snapshot, object, identity, time, plan or process state
  MaxPins,          \* the limit of pin names
  MaxPublications,  \* bound: rows added to the catalog
  MaxCollections,   \* bound: executions of a plan
  MaxClock          \* bound: the clock

ASSUME NamesAssumption ==
  /\ FilesOf \in [Snapshots -> SUBSET Files]
  /\ Files \cap Snapshots = {}
  /\ None \notin Snapshots \cup Files \cup Identities
ASSUME PublicationsAssumption ==
  \A a \in Publications : a.snapshot \in Snapshots /\ a.head \in Heads /\ a.import \in BOOLEAN
ASSUME ActorsAssumption == Publishers \cap Readers = {}
ASSUME PoliciesAssumption ==
  \A r \in Policies : r.keep \in Nat /\ r.grace \in Nat /\ r.roots \subseteq Snapshots
ASSUME BoundsAssumption ==
  MaxPins \in Nat /\ MaxPublications \in Nat /\ MaxCollections \in Nat /\ MaxClock \in Nat

Objects == Files \cup Snapshots
Shard(s) == s
Uses(s) == FilesOf[s] \cup {Shard(s)}

VARIABLES
  generations,  \* table snapshots and its generation: None or [sequence, at]
  heads,        \* table heads
  pins,         \* table snapshot_pins
  owned,        \* table owned_objects: None or [identity, at]
  completed,    \* table gc_runs: the plans marked completed
  file,         \* object -> the identity of the file at its path
  observed,     \* snapshots with an observation directory
  publisher,    \* what each publisher is doing
  reader,       \* the snapshot each reader has open
  collector,    \* the execution of a plan in progress
  plan,         \* the plan last made, kept by whoever asked for it
  sequence,     \* the AUTOINCREMENT counter of snapshot_generations
  clock,
  collections

catalog == <<generations, heads, pins, owned, completed, sequence>>
actors == <<publisher, reader, collector, plan>>
vars == <<generations, heads, pins, owned, completed, file, observed, publisher,
          reader, collector, plan, sequence, clock, collections>>

Collecting == collector.plan # None
NoCollection == [plan |-> None, left |-> {}, unlinked |-> None]

Rows == {s \in Snapshots : generations[s] # None}
OrNone(S) == S \cup {None}

Stages == {"captured", "writing", "restoring"}
PublisherStates ==
  [stage : Stages, snapshot : Snapshots, head : Heads, expected : OrNone(Snapshots),
   import : BOOLEAN, left : SUBSET Objects, written : OrNone(Objects)]
Generations == [sequence : Nat, at : Nat]
Registrations == [identity : Identities, at : Nat]
PlannedObjects == [object : Objects, identity : Identities, present : BOOLEAN]

Intents == [snapshot : Snapshots, head : Heads, expected : OrNone(Snapshots)]

ASSUME NoneAssumption ==
  None \notin Generations \cup Registrations \cup PublisherStates \cup Intents

TypeOK ==
  /\ generations \in [Snapshots -> OrNone(Generations)]
  /\ heads \in [Heads -> OrNone(Snapshots)]
  /\ pins \in [Pins -> OrNone(Snapshots)]
  /\ owned \in [Objects -> OrNone(Registrations)]
  /\ file \in [Objects -> OrNone(Identities)]
  /\ observed \subseteq Snapshots
  /\ publisher \in [Publishers -> OrNone(PublisherStates)]
  /\ reader \in [Readers -> OrNone(Snapshots)]
  /\ collector = [plan |-> collector.plan, left |-> collector.left,
                   unlinked |-> collector.unlinked]
  /\ collector.left \subseteq PlannedObjects /\ collector.unlinked \in OrNone(Objects)
  /\ plan # None => plan.remove \subseteq Snapshots /\ plan.objects \subseteq PlannedObjects
  /\ sequence \in Nat /\ clock \in Nat /\ collections \in Nat

Init ==
  /\ generations = [s \in Snapshots |-> None]
  /\ heads = [h \in Heads |-> None]
  /\ pins = [n \in Pins |-> None]
  /\ owned = [o \in Objects |-> None]
  /\ completed = {}
  /\ file = [o \in Objects |-> None]
  /\ observed = {}
  /\ publisher = [p \in Publishers |-> None]
  /\ reader = [r \in Readers |-> None]
  /\ collector = NoCollection
  /\ plan = None
  /\ sequence = 0
  /\ clock = 0
  /\ collections = 0

-----------------------------------------------------------------------------
(* The lease file: shared by publishers, readers and pin, exclusive for gc *)

Leased(p) == publisher[p] # None /\ publisher[p].stage # "captured"
SharedLeaseFree == ~Collecting
NobodyWrites == ~Collecting /\ \A p \in Publishers : ~Leased(p)   \* mutant: readers ignored
ExclusiveLeaseFree ==
  /\ ~Collecting
  /\ \A p \in Publishers : ~Leased(p)
  /\ \A r \in Readers : reader[r] = None

-----------------------------------------------------------------------------
(* Publication *)

\* The caller reads the head, long before it publishes, without the lease.
Capture(p, a) ==
  /\ publisher[p] = None
  /\ publisher' = [publisher EXCEPT ![p] =
       [stage |-> "captured", snapshot |-> a.snapshot, head |-> a.head,
        expected |-> heads[a.head], import |-> a.import, left |-> {}, written |-> None]]
  /\ UNCHANGED <<catalog, file, observed, reader, collector, plan, clock, collections>>

\* publish_version() takes the lease; import_directory() takes one of its own.
EnterPublish(p) ==
  /\ publisher[p] # None /\ publisher[p].stage = "captured" /\ SharedLeaseFree
  /\ publisher' = [publisher EXCEPT ![p].stage = "writing",
                                    ![p].left = Uses(publisher[p].snapshot)]
  /\ UNCHANGED <<catalog, file, observed, reader, collector, plan, clock, collections>>

Writing(p) == publisher[p] # None /\ publisher[p].stage = "writing"

\* An object is created under its final name unless it is there; the shard last.
WriteObject(p, o) ==
  /\ Writing(p) /\ publisher[p].written = None
  /\ o \in publisher[p].left
  /\ o = Shard(publisher[p].snapshot) => publisher[p].left = {o}
  /\ IF file[o] = None
     THEN \E identity \in Identities : file' = [file EXCEPT ![o] = identity]
     ELSE UNCHANGED file
  /\ publisher' = [publisher EXCEPT ![p].written = o]
  /\ UNCHANGED <<catalog, observed, reader, collector, plan, clock, collections>>

\* register_object(): the first registration stays; another identity is an error.
RegisterObject(p) ==
  /\ Writing(p) /\ publisher[p].written # None
  /\ LET o == publisher[p].written
         row == IF owned[o] = None THEN [identity |-> file[o], at |-> clock] ELSE owned[o] IN
     /\ row.identity = file[o]
     /\ owned' = [owned EXCEPT ![o] = row]
     /\ publisher' = [publisher EXCEPT ![p].left = @ \ {o}, ![p].written = None]
  /\ UNCHANGED <<generations, heads, pins, completed, sequence, file, observed, reader,
                 collector, plan, clock, collections>>

\* The head is what the caller saw, or is at the snapshot already.
HeadMovesAnyway(p) == TRUE                                         \* mutant
HeadMatches(p) == heads[publisher[p].head] \in {publisher[p].expected, publisher[p].snapshot}

\* The catalog transaction.  The generation of a snapshot the catalog has is kept.
Commit(p) ==
  /\ Writing(p) /\ publisher[p].left = {} /\ HeadMatches(p)
  /\ LET s == publisher[p].snapshot
         h == publisher[p].head IN
     /\ IF s \in Rows
        THEN UNCHANGED <<generations, sequence>>
        ELSE /\ sequence < MaxPublications
             /\ generations' = [generations EXCEPT ![s] =
                                  [sequence |-> sequence + 1, at |-> clock]]
             /\ sequence' = sequence + 1
     /\ heads' = [heads EXCEPT ![h] = s]
  /\ publisher' = [publisher EXCEPT ![p] =
       IF publisher[p].import THEN [publisher[p] EXCEPT !.stage = "restoring"] ELSE None]
  /\ UNCHANGED <<pins, owned, completed, file, observed, reader, collector, plan, clock,
                 collections>>

\* The process ends: its work is done, an error (a conflict, an object of another
\* identity, I/O), or a crash.  Files and registrations stay.
PublisherEnds(p) ==
  /\ publisher[p] # None
  /\ publisher' = [publisher EXCEPT ![p] = None]
  /\ UNCHANGED <<catalog, file, observed, reader, collector, plan, clock, collections>>

-----------------------------------------------------------------------------
(* Readers, pins and observations *)

OpenReader(r, s) ==
  /\ reader[r] = None /\ SharedLeaseFree
  /\ s \in Rows /\ file[Shard(s)] # None
  /\ reader' = [reader EXCEPT ![r] = s]
  /\ UNCHANGED <<catalog, file, observed, publisher, collector, plan, clock, collections>>

CloseReader(r) ==
  /\ reader[r] # None
  /\ reader' = [reader EXCEPT ![r] = None]
  /\ UNCHANGED <<catalog, file, observed, publisher, collector, plan, clock, collections>>

\* Evidence is imported while its process has the snapshot open, and restored by
\* a portable import before it drops its lease.
Observe(s) ==
  /\ \/ \E r \in Readers : reader[r] = s
     \/ \E p \in Publishers : publisher[p] # None /\ publisher[p].stage = "restoring"
                              /\ publisher[p].snapshot = s
  /\ observed' = observed \cup {s}
  /\ UNCHANGED <<catalog, file, actors, clock, collections>>

Pin(n, s) ==
  /\ SharedLeaseFree /\ s \in Rows
  /\ pins[n] # None \/ Cardinality({m \in Pins : pins[m] # None}) < MaxPins
  /\ pins' = [pins EXCEPT ![n] = s]
  /\ UNCHANGED <<generations, heads, owned, completed, sequence, file, observed, actors,
                 clock, collections>>

Unpin(n) ==
  /\ SharedLeaseFree
  /\ pins' = [pins EXCEPT ![n] = None]
  /\ UNCHANGED <<generations, heads, owned, completed, sequence, file, observed, actors,
                 clock, collections>>

Tick ==
  /\ clock < MaxClock
  /\ clock' = clock + 1
  /\ UNCHANGED <<catalog, file, observed, actors, collections>>

-----------------------------------------------------------------------------
(* Garbage collection: gc_plan_locked() and gc_execute_inner() *)

NewerAnywhere(s) == {t \in Rows : generations[t].sequence > generations[s].sequence} \* mutant
Newer(s) ==
  {t \in Rows : ScopeOf[t] = ScopeOf[s] /\ generations[t].sequence > generations[s].sequence}

CatalogReasons(s, policy) ==
  {<<"head", h>> : h \in {h \in Heads : heads[h] = s}}
  \cup {<<"pin", n>> : n \in {n \in Pins : pins[n] = s}}
  \cup {<<"additional_root">> : x \in {s} \cap policy.roots}
  \cup {<<"recent_generation">> : x \in {t \in {s} : Cardinality(Newer(t)) < policy.keep}}
  \cup {<<"grace_period">> : x \in {t \in {s} : generations[t].at > clock - policy.grace}}
Reasons(s, policy) ==
  CatalogReasons(s, policy) \cup {<<"observations">> : x \in {s} \cap observed}

Removable(policy) == {s \in Rows : Reasons(s, policy) = {}}
LiveSources(policy) == UNION {FilesOf[s] : s \in Rows \ Removable(policy)}  \* mutants
LiveShards(policy) == {Shard(s) : s \in Rows \ Removable(policy)}
LiveObjects(policy) == UNION {Uses(s) : s \in Rows \ Removable(policy)}

\* Registered objects that no retained snapshot uses and that are old enough.
Garbage(policy) ==
  {o \in Objects : owned[o] # None /\ owned[o].at <= clock - policy.grace}
    \ LiveObjects(policy)

Computed(policy) ==
  [policy |-> policy,
   retained |-> {<<s, Reasons(s, policy)>> : s \in Rows \ Removable(policy)},
   remove |-> Removable(policy),
   objects |-> {[object |-> o, identity |-> owned[o].identity, present |-> file[o] # None] :
                  o \in Garbage(policy)}]

\* Planning fails on an unknown additional root, on a snapshot whose shard cannot
\* be read, and on garbage whose file has another identity.
Plannable(policy) ==
  /\ policy.roots \subseteq Rows
  /\ \A s \in Rows : file[Shard(s)] # None
  /\ \A o \in Garbage(policy) : file[o] \in {None, owned[o].identity}

GcPlan(policy) ==
  /\ ExclusiveLeaseFree /\ Plannable(policy)
  /\ plan' = Computed(policy)
  /\ UNCHANGED <<catalog, file, observed, publisher, reader, collector, clock, collections>>

\* gc_execute(): a completed plan returns its report; otherwise the plan must be
\* what planning yields now.  Its snapshots go in one transaction, which the
\* foreign keys of heads and pins may refuse.
GcBegin ==
  /\ ExclusiveLeaseFree /\ collections < MaxCollections
  /\ plan # None /\ plan \notin completed
  /\ Plannable(plan.policy) /\ Computed(plan.policy) = plan
  /\ \A h \in Heads : heads[h] \notin plan.remove
  /\ \A n \in Pins : pins[n] \notin plan.remove
  /\ generations' = [s \in Snapshots |-> IF s \in plan.remove THEN None ELSE generations[s]]
  /\ collector' = [plan |-> plan, left |-> plan.objects, unlinked |-> None]
  /\ collections' = collections + 1
  /\ UNCHANGED <<heads, pins, owned, completed, sequence, file, observed, publisher,
                 reader, plan, clock>>

\* The file is checked against the plan again before it is unlinked.
GcUnlink(x) ==
  /\ collector.unlinked = None /\ x.present /\ file[x.object] = x.identity
  /\ file' = [file EXCEPT ![x.object] = None]
  /\ collector' = [collector EXCEPT !.unlinked = x.object]
  /\ UNCHANGED <<catalog, observed, publisher, reader, plan, clock, collections>>

\* The registration of an object goes after its file.
GcForget(x) ==
  /\ IF collector.unlinked = None THEN ~x.present ELSE x.object = collector.unlinked
  /\ owned' = [owned EXCEPT ![x.object] = None]
  /\ collector' = [collector EXCEPT !.left = @ \ {x}, !.unlinked = None]
  /\ UNCHANGED <<generations, heads, pins, completed, sequence, file, observed, publisher,
                 reader, plan, clock, collections>>

GcComplete ==
  /\ Collecting /\ collector.left = {}
  /\ completed' = completed \cup {collector.plan}
  /\ collector' = NoCollection
  /\ UNCHANGED <<generations, heads, pins, owned, sequence, file, observed, publisher,
                 reader, plan, clock, collections>>

\* The collector fails or dies: its lease is released.
GcStops ==
  /\ Collecting
  /\ collector' = NoCollection
  /\ UNCHANGED <<catalog, file, observed, publisher, reader, plan, clock, collections>>

-----------------------------------------------------------------------------
PublishStep ==
  \E p \in Publishers :
    \/ \E a \in Publications : Capture(p, a)
    \/ EnterPublish(p)
    \/ \E o \in Objects : WriteObject(p, o)
    \/ RegisterObject(p)
    \/ Commit(p)
    \/ PublisherEnds(p)
ReadStep ==
  \/ \E r \in Readers : CloseReader(r) \/ \E s \in Snapshots : OpenReader(r, s)
  \/ \E s \in Snapshots : Observe(s)
PinStep == \E n \in Pins : Unpin(n) \/ \E s \in Snapshots : Pin(n, s)
GcStep ==
  \/ \E policy \in Policies : GcPlan(policy)
  \/ GcBegin \/ GcComplete \/ GcStops
  \/ \E x \in collector.left : GcUnlink(x) \/ GcForget(x)

Next == PublishStep \/ ReadStep \/ PinStep \/ GcStep \/ Tick

Spec == Init /\ [][Next]_vars

-----------------------------------------------------------------------------
(* Properties *)

Complete(s) ==
  \A o \in Uses(s) : owned[o] # None /\ file[o] = owned[o].identity

\* Every snapshot in the catalog has all its objects, each registered with the
\* identity its file has, whatever was interrupted: a half-written publication
\* or a half-done collection leaves no dangling row (publish_version, gc_execute).
CatalogIntact == \A s \in Rows : Complete(s)

\* A snapshot that is open, or whose observations are being restored, stays in
\* the catalog and complete until it is closed (SnapshotReader, import_directory).
ReadersKeepSnapshots ==
  /\ \A r \in Readers : reader[r] # None => reader[r] \in Rows /\ Complete(reader[r])
  /\ \A p \in Publishers :
       publisher[p] # None /\ publisher[p].stage = "restoring" =>
         publisher[p].snapshot \in Rows /\ Complete(publisher[p].snapshot)

\* What the collector unlinks is a registered file no cataloged snapshot and no
\* publication in progress uses, and nobody is reading or writing meanwhile.
UnlinksOnlyGarbage ==
  [][\A o \in Objects : file[o] # None /\ file'[o] # file[o] =>
       /\ owned[o] # None /\ owned[o].identity = file[o]
       /\ \A s \in Rows : o \notin Uses(s)
       /\ \A p \in Publishers : ~Leased(p)
       /\ \A r \in Readers : reader[r] = None]_vars

\* What a retention policy promises, seen from the snapshot that goes: enough
\* newer generations of its repository and context stay, its grace period is
\* over, and nothing refers to it (gc_plan_locked, gc_execute_inner).
RetentionHonoured ==
  [][\A s \in Rows \ Rows' :
       LET policy == collector'.plan.policy IN
       /\ Cardinality({t \in Rows' : ScopeOf[t] = ScopeOf[s]
                          /\ generations[t].sequence > generations[s].sequence}) >= policy.keep
       /\ clock - generations[s].at >= policy.grace
       /\ s \notin policy.roots \cup observed
       /\ \A h \in Heads : heads[h] # s
       /\ \A n \in Pins : pins[n] # s]_vars

\* "Create and execute a new plan to finish orphan cleanup": while nobody holds
\* a lease, every policy whose additional roots are known can be planned.
CleanupCanFinish ==
  ExclusiveLeaseFree =>
    \A policy \in Policies : policy.roots \subseteq Rows => Plannable(policy)

\* The store implements SnapshotCatalog: the snapshots that can be read are the
\* complete ones of the catalog, and only a collection takes one away.
Users == Publishers \cup Readers
Available == {s \in Rows : Complete(s)}
Intent ==
  [u \in Users |->
     IF u \in Publishers /\ publisher[u] # None /\ publisher[u].stage # "restoring"
     THEN [snapshot |-> publisher[u].snapshot, head |-> publisher[u].head,
           expected |-> publisher[u].expected]
     ELSE None]
Using ==
  [u \in Users |->
     IF u \in Readers THEN reader[u]
     ELSE IF publisher[u] # None /\ publisher[u].stage = "restoring"
     THEN publisher[u].snapshot ELSE None]

Promised == INSTANCE SnapshotCatalog WITH
  available <- Available, intent <- Intent, using <- Using

SnapshotCatalogSpec == Promised!Spec

-----------------------------------------------------------------------------
(* The inductive invariant behind CatalogIntact *)

\* The lease excludes publishers and readers from a collection.
LeaseIsExclusive ==
  Collecting =>
    /\ \A p \in Publishers : ~Leased(p)
    /\ \A r \in Readers : reader[r] = None

\* A publisher has written and registered the objects it is done with.
WrittenSoFar ==
  \A p \in Publishers : Writing(p) =>
    LET u == publisher[p] IN
    /\ u.left \subseteq Uses(u.snapshot)
    /\ \A o \in Uses(u.snapshot) \ u.left : owned[o] # None /\ file[o] = owned[o].identity
    /\ u.written # None => u.written \in u.left /\ file[u.written] # None

CapturedHasWrittenNothing ==
  \A p \in Publishers : publisher[p] # None /\ publisher[p].stage = "captured" =>
    publisher[p].written = None

IdleCollectorIsEmpty == Collecting \/ collector.left = {}

\* What the collector still has to remove belongs to no cataloged snapshot.
CollectsGarbage ==
  Collecting =>
    /\ \A x \in collector.left : \A s \in Rows : x.object \notin Uses(s)
    /\ collector.unlinked # None =>
         \A s \in Rows : collector.unlinked \notin Uses(s)

\* Each object left is registered as it was planned, and planned once.
LeftIsRegistered ==
  \A x \in collector.left :
    /\ owned[x.object] # None /\ owned[x.object].identity = x.identity
    /\ \A y \in collector.left : y.object = x.object => y = x

\* A row the heads and pins refer to exists (the foreign keys).
ReferencesResolve ==
  /\ \A h \in Heads : heads[h] \in OrNone(Rows)
  /\ \A n \in Pins : pins[n] \in OrNone(Rows)

InUseIsCataloged ==
  /\ \A r \in Readers : reader[r] \in OrNone(Rows)
  /\ \A p \in Publishers :
       publisher[p] # None /\ publisher[p].stage = "restoring" => publisher[p].snapshot \in Rows

StoreInvariant ==
  /\ TypeOK
  /\ LeaseIsExclusive
  /\ WrittenSoFar
  /\ CapturedHasWrittenNothing
  /\ IdleCollectorIsEmpty
  /\ CatalogIntact
  /\ CollectsGarbage
  /\ LeftIsRegistered
  /\ ReferencesResolve
  /\ InUseIsCataloged

-----------------------------------------------------------------------------
(* What RetentionHonoured rests on besides *)

\* Every generation has a number of its own, in the order of publication.
GenerationsAreNumbered ==
  /\ \A s \in Rows : generations[s].sequence <= sequence
  /\ \A s, t \in Rows : generations[s].sequence = generations[t].sequence => s = t

RetentionInvariant ==
  /\ StoreInvariant
  /\ GenerationsAreNumbered
  /\ plan # None => plan.policy \in Policies
=============================================================================
