----------------------------- MODULE StoreProofs -----------------------------
(***************************************************************************)
(* Proofs about Store for any snapshots, files, processes, policies and    *)
(* bounds: StoreInvariant is inductive, so no crash of a publisher or of a *)
(* collector leaves a row without its objects, and a collection unlinks    *)
(* nothing that is in use.                                                 *)
(***************************************************************************)
EXTENDS Store, Ranking

\* The objects of a snapshot are objects.
LEMMA UsesObjects == ASSUME NEW s \in Snapshots PROVE Uses(s) \subseteq Objects
BY NamesAssumption DEF Uses, Objects, Shard

\* The invariant holds in an empty store.
LEMMA StoreInvariantInit == Init => StoreInvariant
<1> SUFFICES ASSUME Init PROVE StoreInvariant
  OBVIOUS
<1>1. TypeOK
  BY DEF Init, TypeOK, OrNone, NoCollection
<1>2. /\ LeaseIsExclusive /\ WrittenSoFar /\ CatalogIntact /\ CollectsGarbage
      /\ ReferencesResolve /\ InUseIsCataloged
      /\ CapturedHasWrittenNothing /\ IdleCollectorIsEmpty /\ LeftIsRegistered
  BY DEF Init, LeftIsRegistered, LeaseIsExclusive, WrittenSoFar, CatalogIntact,
         CollectsGarbage, Rows, ReferencesResolve, InUseIsCataloged, OrNone, NoCollection, Collecting, Writing,
         CapturedHasWrittenNothing, IdleCollectorIsEmpty
<1>3. QED
  BY <1>1, <1>2 DEF StoreInvariant

\* The parts of the invariant that are about rows and objects depend on these
\* variables only.
LEMMA CatalogFrame ==
  ASSUME StoreInvariant,
         UNCHANGED <<generations, owned, file, publisher, collector>>
  PROVE  WrittenSoFar' /\ CatalogIntact' /\ CollectsGarbage' /\ LeftIsRegistered'
BY DEF StoreInvariant, LeftIsRegistered, WrittenSoFar, CatalogIntact, CollectsGarbage,
       Rows, Complete, Writing, Collecting

\* Steps that change nothing but what one publisher is doing.
LEMMA CaptureAndEndPreserve ==
  ASSUME StoreInvariant, NEW p \in Publishers,
         \/ \E a \in Publications : Capture(p, a)
         \/ EnterPublish(p)
         \/ PublisherEnds(p)
  PROVE  StoreInvariant'
<1> USE NoneAssumption
<1> USE DEF StoreInvariant, OrNone
<1>1. UNCHANGED <<generations, heads, pins, owned, completed, sequence, file, observed,
                  reader, collector, plan, clock, collections>>
  BY DEF Capture, EnterPublish, PublisherEnds, catalog
<1>2. /\ CatalogIntact' /\ CollectsGarbage' /\ ReferencesResolve' /\ IdleCollectorIsEmpty'
      /\ LeftIsRegistered'
  BY <1>1 DEF CatalogIntact, CollectsGarbage, ReferencesResolve, Rows, Complete, Collecting,
             IdleCollectorIsEmpty, LeftIsRegistered
<1>3. \/ publisher' = [publisher EXCEPT ![p] = publisher'[p]]
      \/ publisher' = publisher
  BY DEF Capture, EnterPublish, PublisherEnds, TypeOK
<1>4. \/ publisher'[p] = None
      \/ /\ publisher'[p] \in PublisherStates /\ publisher'[p].stage = "captured"
         /\ publisher'[p].written = None
      \/ /\ publisher'[p] \in PublisherStates /\ publisher'[p].stage = "writing"
         /\ publisher'[p].left = Uses(publisher'[p].snapshot) /\ publisher'[p].written = None
         /\ ~Collecting
  <2>1. ASSUME NEW a \in Publications, Capture(p, a)
        PROVE  /\ publisher'[p] \in PublisherStates /\ publisher'[p].stage = "captured"
               /\ publisher'[p].written = None
    <3>1. heads[a.head] \in OrNone(Snapshots)
      BY PublicationsAssumption DEF TypeOK
    <3>2. publisher'[p] = [stage |-> "captured", snapshot |-> a.snapshot, head |-> a.head,
             expected |-> heads[a.head], import |-> a.import, left |-> {}, written |-> None]
      BY <2>1 DEF Capture, TypeOK
    <3> QED
      BY <3>1, <3>2, PublicationsAssumption DEF PublisherStates, Stages
  <2>2. ASSUME EnterPublish(p)
        PROVE  /\ publisher'[p] \in PublisherStates /\ publisher'[p].stage = "writing"
               /\ publisher'[p].left = Uses(publisher'[p].snapshot)
               /\ publisher'[p].written = None /\ ~Collecting
    <3>1. /\ publisher[p] \in PublisherStates /\ publisher[p].stage = "captured"
          /\ publisher'[p] = [publisher[p] EXCEPT !.stage = "writing",
                                                 !.left = Uses(publisher[p].snapshot)]
      BY <2>2 DEF EnterPublish, TypeOK
    <3>2. publisher[p].written = None
      BY <3>1 DEF CapturedHasWrittenNothing
    <3>3. Uses(publisher[p].snapshot) \subseteq Objects
      BY <3>1, UsesObjects DEF PublisherStates
    <3>4. publisher'[p] =
            [stage |-> "writing", snapshot |-> publisher[p].snapshot,
             head |-> publisher[p].head, expected |-> publisher[p].expected,
             import |-> publisher[p].import, left |-> Uses(publisher[p].snapshot),
             written |-> None]
      BY <3>1, <3>2 DEF PublisherStates
    <3>5. publisher'[p] \in PublisherStates
      BY <3>1, <3>3, <3>4 DEF PublisherStates, Stages
    <3>6. ~Collecting
      BY <2>2 DEF EnterPublish, SharedLeaseFree
    <3>7. /\ publisher'[p].stage = "writing" /\ publisher'[p].written = None
          /\ publisher'[p].snapshot = publisher[p].snapshot
          /\ publisher'[p].left = Uses(publisher[p].snapshot)
      BY <3>4
    <3>8. publisher'[p].left = Uses(publisher'[p].snapshot)
      BY <3>7 DEF Uses, Shard
    <3> QED
      BY <3>5, <3>6, <3>7, <3>8
  <2>3. ASSUME PublisherEnds(p)
        PROVE  publisher'[p] = None
    BY <2>3 DEF PublisherEnds, TypeOK
  <2> QED
    BY <2>1, <2>2, <2>3
<1>5. /\ \A q \in Publishers : q # p => publisher'[q] = publisher[q]
      /\ publisher' \in [Publishers -> OrNone(PublisherStates)]
  BY <1>3, <1>4 DEF TypeOK
<1>6. TypeOK'
  BY <1>1, <1>5 DEF TypeOK
<1>7. LeaseIsExclusive'
  BY <1>1, <1>4, <1>5 DEF LeaseIsExclusive, Leased, Collecting
<1>8. WrittenSoFar' /\ CapturedHasWrittenNothing'
  BY <1>1, <1>4, <1>5 DEF WrittenSoFar, Writing, CapturedHasWrittenNothing
<1>9. InUseIsCataloged'
  BY <1>1, <1>4, <1>5 DEF InUseIsCataloged, Rows
<1>10. QED
  BY <1>2, <1>6, <1>7, <1>8, <1>9

\* A publisher creates an object: nothing the catalog names is touched, because a
\* complete snapshot has its files.
LEMMA WriteObjectPreserves ==
  ASSUME StoreInvariant, NEW p \in Publishers, NEW o \in Objects, WriteObject(p, o)
  PROVE  StoreInvariant'
<1> USE NoneAssumption, NamesAssumption
<1> USE DEF StoreInvariant, OrNone, Rows
<1> DEFINE u == publisher[p]
<1>1. /\ u \in PublisherStates /\ u.stage = "writing" /\ u.written = None /\ o \in u.left
      /\ publisher' = [publisher EXCEPT ![p] = [u EXCEPT !.written = o]]
      /\ UNCHANGED <<generations, heads, pins, owned, completed, sequence, observed, reader,
                     collector, plan, clock, collections>>
  BY DEF WriteObject, Writing, TypeOK, catalog
<1>2. /\ file' \in [Objects -> OrNone(Identities)]
      /\ file'[o] # None
      /\ \A q \in Objects : file[q] # None => file'[q] = file[q]
  BY DEF WriteObject, TypeOK
<1>3. /\ publisher'[p] = [u EXCEPT !.written = o] /\ publisher'[p] \in PublisherStates
      /\ \A q \in Publishers : q # p => publisher'[q] = publisher[q]
      /\ publisher' \in [Publishers -> OrNone(PublisherStates)]
  BY <1>1 DEF TypeOK, PublisherStates
<1>4. TypeOK'
  BY <1>1, <1>2, <1>3 DEF TypeOK
<1>5. LeaseIsExclusive' /\ CollectsGarbage' /\ ReferencesResolve' /\ InUseIsCataloged'
  BY <1>1, <1>3 DEF LeaseIsExclusive, CollectsGarbage, ReferencesResolve, InUseIsCataloged,
                    Collecting, Leased, PublisherStates
<1>6. ASSUME NEW s \in Snapshots, NEW q \in Uses(s),
             owned[q] # None, file[q] = owned[q].identity
      PROVE  file'[q] = file[q]
  BY <1>2, <1>6, UsesObjects DEF TypeOK, Registrations
<1>7. CatalogIntact'
  BY <1>1, <1>6 DEF CatalogIntact, Complete
<1>8. WrittenSoFar'
  <2>1. ASSUME NEW q \in Publishers, Writing(q)'
        PROVE  /\ Writing(q) /\ publisher'[q].snapshot = publisher[q].snapshot
               /\ publisher'[q].left = publisher[q].left
               /\ publisher[q].snapshot \in Snapshots
               /\ publisher'[q].written \in {publisher[q].written, o}
               /\ publisher'[q].written # publisher[q].written => q = p /\ publisher'[q].written = o
    BY <1>1, <1>3, <2>1 DEF Writing, PublisherStates, TypeOK
  <2> QED
    BY <1>1, <1>2, <1>6, <2>1, UsesObjects DEF WrittenSoFar
<1>9. CapturedHasWrittenNothing' /\ IdleCollectorIsEmpty' /\ LeftIsRegistered'
  BY <1>1, <1>3 DEF CapturedHasWrittenNothing, IdleCollectorIsEmpty, LeftIsRegistered,
                    Collecting, PublisherStates
<1>10. QED
  BY <1>4, <1>5, <1>7, <1>8, <1>9

\* A publisher registers the object it has written; a registration is never
\* replaced.
LEMMA RegisterObjectPreserves ==
  ASSUME StoreInvariant, NEW p \in Publishers, RegisterObject(p)
  PROVE  StoreInvariant'
<1> USE NoneAssumption, NamesAssumption
<1> USE DEF StoreInvariant, OrNone, Rows
<1> DEFINE u == publisher[p]
           o == publisher[p].written
           row == IF owned[o] = None THEN [identity |-> file[o], at |-> clock] ELSE owned[o]
<1>1. /\ u \in PublisherStates /\ u.stage = "writing" /\ o \in u.left /\ u.snapshot \in Snapshots
      /\ file[o] # None /\ o \in Uses(u.snapshot) /\ o \in Objects
      /\ publisher' = [publisher EXCEPT ![p] = [u EXCEPT !.left = u.left \ {o}, !.written = None]]
      /\ row.identity = file[o]
      /\ owned' = [owned EXCEPT ![o] = row]
      /\ UNCHANGED <<generations, heads, pins, completed, sequence, file, observed, reader,
                     collector, plan, clock, collections>>
  BY UsesObjects DEF RegisterObject, Writing, TypeOK, PublisherStates, WrittenSoFar
<1>2. /\ row \in Registrations /\ row # None
  BY <1>1 DEF TypeOK, Registrations
<1> HIDE DEF row
<1>3. /\ owned' \in [Objects -> OrNone(Registrations)]
      /\ owned'[o] # None /\ owned'[o].identity = file[o]
      /\ \A q \in Objects : q # o => owned'[q] = owned[q]
  BY <1>1, <1>2 DEF TypeOK
<1>4. /\ publisher'[p] = [u EXCEPT !.left = u.left \ {o}, !.written = None]
      /\ publisher'[p] \in PublisherStates
      /\ \A q \in Publishers : q # p => publisher'[q] = publisher[q]
      /\ publisher' \in [Publishers -> OrNone(PublisherStates)]
  BY <1>1 DEF TypeOK, PublisherStates
<1>5. TypeOK'
  BY <1>1, <1>3, <1>4 DEF TypeOK
<1>6. LeaseIsExclusive' /\ CollectsGarbage' /\ ReferencesResolve' /\ InUseIsCataloged'
  BY <1>1, <1>4 DEF LeaseIsExclusive, CollectsGarbage, ReferencesResolve, InUseIsCataloged,
                    Collecting, Leased, PublisherStates
<1>7. CatalogIntact'
  BY <1>1, <1>3, UsesObjects DEF CatalogIntact, Complete
<1>8. WrittenSoFar'
  <2>1. ASSUME NEW q \in Publishers, Writing(q)'
        PROVE  /\ Writing(q) /\ publisher'[q].snapshot = publisher[q].snapshot
               /\ publisher[q].snapshot \in Snapshots
    BY <1>1, <1>4, <2>1 DEF Writing, PublisherStates, TypeOK
  <2>2. ASSUME NEW q \in Publishers, Writing(q)', q # p
        PROVE  publisher'[q] = publisher[q]
    BY <1>4, <2>2
  <2>3. publisher'[p].left = u.left \ {o} /\ publisher'[p].written = None
    BY <1>1, <1>4 DEF PublisherStates
  <2> QED
    BY <1>1, <1>3, <2>1, <2>2, <2>3, UsesObjects DEF WrittenSoFar
<1>9. CapturedHasWrittenNothing' /\ IdleCollectorIsEmpty'
  BY <1>1, <1>4 DEF CapturedHasWrittenNothing, IdleCollectorIsEmpty, Collecting, PublisherStates
<1>10. LeftIsRegistered'
  BY <1>1 DEF LeaseIsExclusive, Leased, IdleCollectorIsEmpty, LeftIsRegistered
<1>11. QED
  BY <1>5, <1>6, <1>7, <1>8, <1>9, <1>10

\* The catalog transaction adds a row only once everything the snapshot uses is
\* written and registered.
LEMMA CommitPreserves ==
  ASSUME StoreInvariant, NEW p \in Publishers, Commit(p)
  PROVE  StoreInvariant'
<1> USE NoneAssumption, NamesAssumption
<1> USE DEF StoreInvariant, OrNone
<1> DEFINE u == publisher[p]
           s == publisher[p].snapshot
<1>1. /\ u \in PublisherStates /\ u.stage = "writing" /\ u.left = {}
      /\ s \in Snapshots /\ u.head \in Heads
      /\ heads' = [heads EXCEPT ![u.head] = s]
      /\ publisher' = [publisher EXCEPT ![p] =
                         IF u.import THEN [u EXCEPT !.stage = "restoring"] ELSE None]
      /\ UNCHANGED <<pins, owned, completed, file, observed, reader, collector, plan, clock,
                     collections>>
  BY DEF Commit, HeadMatches, Writing, TypeOK, PublisherStates
<1>2. /\ generations' \in [Snapshots -> OrNone(Generations)] /\ sequence' \in Nat
      /\ Rows' = Rows \cup {s}
  BY <1>1 DEF Commit, TypeOK, Generations, Rows
<1>3. /\ \/ publisher'[p] = None
         \/ /\ publisher'[p] = [u EXCEPT !.stage = "restoring"]
            /\ publisher'[p] \in PublisherStates /\ publisher'[p] # None
            /\ publisher'[p].snapshot = s /\ publisher'[p].stage = "restoring"
      /\ \A q \in Publishers : q # p => publisher'[q] = publisher[q]
      /\ publisher' \in [Publishers -> OrNone(PublisherStates)]
  BY <1>1 DEF TypeOK, PublisherStates, Stages
<1>4. heads' \in [Heads -> OrNone(Snapshots)]
  BY <1>1 DEF TypeOK
<1>5. TypeOK'
  BY <1>1, <1>2, <1>3, <1>4 DEF TypeOK
<1>6. ~Collecting
  BY <1>1 DEF LeaseIsExclusive, Leased
<1>7. LeaseIsExclusive' /\ CollectsGarbage'
  BY <1>1, <1>6 DEF LeaseIsExclusive, CollectsGarbage, Collecting
<1>8. ReferencesResolve'
  BY <1>1, <1>2 DEF ReferencesResolve, TypeOK
<1>9. InUseIsCataloged'
  BY <1>1, <1>2, <1>3 DEF InUseIsCataloged
<1>10. CatalogIntact'
  <2>1. Complete(s)
    BY <1>1 DEF WrittenSoFar, Writing, Complete
  <2> QED
    BY <1>1, <1>2, <2>1 DEF CatalogIntact, Complete
<1>11. WrittenSoFar'
  BY <1>1, <1>3 DEF WrittenSoFar, Writing
<1>12. CapturedHasWrittenNothing' /\ IdleCollectorIsEmpty' /\ LeftIsRegistered'
  BY <1>1, <1>3 DEF CapturedHasWrittenNothing, IdleCollectorIsEmpty, LeftIsRegistered,
                    Collecting
<1>13. QED
  BY <1>5, <1>7, <1>8, <1>9, <1>10, <1>11, <1>12

\* Readers, pins, observations and the clock.
LEMMA UsersPreserve ==
  ASSUME StoreInvariant, ReadStep \/ PinStep \/ Tick
  PROVE  StoreInvariant'
<1> USE DEF StoreInvariant, LeaseIsExclusive, ReferencesResolve, InUseIsCataloged, Rows,
            CapturedHasWrittenNothing, IdleCollectorIsEmpty, OrNone, Leased, Collecting,
            catalog, actors, SharedLeaseFree
<1>1. WrittenSoFar' /\ CatalogIntact' /\ CollectsGarbage' /\ LeftIsRegistered'
  BY CatalogFrame DEF ReadStep, OpenReader, CloseReader, Observe, PinStep, Pin, Unpin, Tick
<1>2. CASE ReadStep
  BY <1>1, <1>2, NoneAssumption DEF TypeOK, ReadStep, OpenReader, CloseReader, Observe
<1>3. ASSUME NEW n \in Pins, NEW s \in Snapshots, Pin(n, s)
      PROVE  StoreInvariant'
  <2>1. TypeOK'
    BY <1>3 DEF TypeOK, Pin
  <2>2. ReferencesResolve'
    BY <1>3 DEF TypeOK, Pin
  <2> QED
    BY <1>1, <1>3, <2>1, <2>2 DEF Pin
<1>4. ASSUME NEW n \in Pins, Unpin(n)
      PROVE  StoreInvariant'
  <2>1. TypeOK'
    BY <1>4 DEF TypeOK, Unpin
  <2>2. ReferencesResolve'
    BY <1>4 DEF TypeOK, Unpin
  <2> QED
    BY <1>1, <1>4, <2>1, <2>2 DEF Unpin
<1>5. CASE Tick
  BY <1>1, <1>5 DEF TypeOK, Tick
<1>6. QED
  BY <1>2, <1>3, <1>4, <1>5 DEF PinStep

\* A plan names cataloged snapshots, and registered objects that the remaining
\* snapshots do not use.
LEMMA PlanIsGarbage ==
  ASSUME TypeOK, NEW policy, NEW made, made = Computed(policy)
  PROVE  /\ made.remove \subseteq Rows
         /\ made.objects \subseteq PlannedObjects
         /\ \A x \in made.objects : \A s \in Rows \ made.remove : x.object \notin Uses(s)
         /\ \A x \in made.objects :
              /\ owned[x.object] # None /\ owned[x.object].identity = x.identity
              /\ \A y \in made.objects : y.object = x.object => y = x
<1>1. /\ made.remove = Removable(policy)
      /\ made.objects =
           {[object |-> o, identity |-> owned[o].identity, present |-> file[o] # None] :
              o \in Garbage(policy)}
  BY DEF Computed
<1>2. Removable(policy) \subseteq Rows
  BY DEF Removable
<1>3. ASSUME NEW o \in Garbage(policy)
      PROVE  /\ o \in Objects /\ owned[o].identity \in Identities
             /\ \A s \in Rows \ Removable(policy) : o \notin Uses(s)
  <2>1. o \in Objects /\ owned[o] # None /\ o \notin LiveObjects(policy)
    BY DEF Garbage
  <2>2. owned[o] \in Registrations
    BY <2>1 DEF TypeOK, OrNone
  <2> QED
    BY <2>1, <2>2 DEF LiveObjects, Registrations
<1>4. ASSUME NEW x \in made.objects
      PROVE  x \in PlannedObjects /\ \A s \in Rows \ made.remove : x.object \notin Uses(s)
  <2>1. PICK o \in Garbage(policy) :
          x = [object |-> o, identity |-> owned[o].identity, present |-> file[o] # None]
    BY <1>1
  <2>2. x \in PlannedObjects
    BY <1>3, <2>1 DEF PlannedObjects
  <2> QED
    BY <1>1, <1>3, <2>1, <2>2
<1>5. ASSUME NEW x \in made.objects
      PROVE  x = [object |-> x.object, identity |-> owned[x.object].identity,
                  present |-> file[x.object] # None]
             /\ owned[x.object] # None
  BY <1>1 DEF Garbage
<1>6. ASSUME NEW x \in made.objects
      PROVE  owned[x.object] # None /\ owned[x.object].identity = x.identity
  BY <1>5
<1>7. ASSUME NEW x \in made.objects, NEW y \in made.objects, y.object = x.object
      PROVE  y = x
  BY <1>5, <1>7
<1>8. QED
  BY <1>1, <1>2, <1>4, <1>6, <1>7

\* Beginning a collection removes rows and leaves the collector objects that no
\* remaining row uses; the other steps of a collection touch only those.
LEMMA CollectionPreserves ==
  ASSUME StoreInvariant, GcStep
  PROVE  StoreInvariant'
<1> USE NoneAssumption
<1> USE DEF StoreInvariant, CapturedHasWrittenNothing, IdleCollectorIsEmpty, OrNone,
            Collecting, NoCollection, catalog
<1>1. ASSUME NEW policy \in Policies, GcPlan(policy)
      PROVE  StoreInvariant'
  <2>1. Rows \subseteq Snapshots
    BY DEF Rows
  <2>2. TypeOK'
    BY <1>1, <2>1, PlanIsGarbage DEF TypeOK, GcPlan
  <2> QED
    BY <1>1, <2>2, CatalogFrame DEF GcPlan, LeaseIsExclusive, Leased, ReferencesResolve,
       InUseIsCataloged, Rows
<1>2. CASE GcBegin
  <2>1. /\ ~Collecting
        /\ \A p \in Publishers : ~Leased(p)
        /\ \A r \in Readers : reader[r] = None
        /\ plan # None /\ plan = Computed(plan.policy)
        /\ \A h \in Heads : heads[h] \notin plan.remove
        /\ \A n \in Pins : pins[n] \notin plan.remove
        /\ generations' = [s \in Snapshots |-> IF s \in plan.remove THEN None ELSE generations[s]]
        /\ collector' = [plan |-> plan, left |-> plan.objects, unlinked |-> None]
        /\ collections' = collections + 1
        /\ UNCHANGED <<heads, pins, owned, completed, sequence, file, observed, publisher,
                       reader, plan, clock>>
    BY <1>2 DEF GcBegin, ExclusiveLeaseFree
  <2>2. /\ plan.remove \subseteq Rows
        /\ plan.objects \subseteq PlannedObjects
        /\ \A x \in plan.objects : \A s \in Rows \ plan.remove : x.object \notin Uses(s)
        /\ \A x \in plan.objects :
             /\ owned[x.object] # None /\ owned[x.object].identity = x.identity
             /\ \A y \in plan.objects : y.object = x.object => y = x
    BY <2>1, PlanIsGarbage
  <2>3. Rows' = Rows \ plan.remove
    BY <2>1 DEF Rows
  <2>4. TypeOK'
    BY <2>1, <2>2 DEF TypeOK
  <2>5. LeaseIsExclusive'
    BY <2>1 DEF LeaseIsExclusive, Leased
  <2>6. WrittenSoFar'
    BY <2>1 DEF WrittenSoFar, Writing
  <2>7. CatalogIntact'
    BY <2>1, <2>3 DEF CatalogIntact, Complete
  <2>8. CollectsGarbage'
    BY <2>1, <2>2, <2>3 DEF CollectsGarbage
  <2>9. ReferencesResolve' /\ InUseIsCataloged'
    BY <2>1, <2>3 DEF ReferencesResolve, InUseIsCataloged, Leased
  <2>10. LeftIsRegistered'
    BY <2>1, <2>2 DEF LeftIsRegistered
  <2> QED
    BY <2>1, <2>4, <2>5, <2>6, <2>7, <2>8, <2>9, <2>10
<1>3. CASE GcComplete \/ GcStops
  <2>1. /\ collector' = NoCollection
        /\ UNCHANGED <<generations, heads, pins, owned, sequence, file, observed, publisher,
                       reader, plan, clock, collections>>
    BY <1>3 DEF GcComplete, GcStops
  <2>2. TypeOK'
    BY <2>1 DEF TypeOK
  <2> QED
    BY <2>1, <2>2 DEF LeaseIsExclusive, WrittenSoFar, CatalogIntact, CollectsGarbage,
       LeftIsRegistered,
       ReferencesResolve, InUseIsCataloged, Rows, Complete, Writing
<1>4. ASSUME NEW x \in collector.left, GcUnlink(x) \/ GcForget(x)
      PROVE  StoreInvariant'
  <2>1. x \in PlannedObjects /\ x.object \in Objects
    BY DEF TypeOK, PlannedObjects
  <2>2. Collecting
    BY DEF IdleCollectorIsEmpty
  <2>3. \A s \in Rows : x.object \notin Uses(s)
    BY <2>2 DEF CollectsGarbage
  <2>4. /\ \/ file' = [file EXCEPT ![x.object] = None] /\ owned' = owned
           \/ owned' = [owned EXCEPT ![x.object] = None] /\ file' = file
        /\ collector'.plan = collector.plan
        /\ collector'.left \subseteq collector.left
        /\ collector'.unlinked \in {None, x.object}
        /\ collector' = [plan |-> collector'.plan, left |-> collector'.left,
                         unlinked |-> collector'.unlinked]
        /\ UNCHANGED <<generations, heads, pins, completed, sequence, observed, publisher,
                       reader, plan, clock, collections>>
    <3>1. collector = [plan |-> collector.plan, left |-> collector.left,
                       unlinked |-> collector.unlinked]
      BY DEF TypeOK
    <3>2. CASE GcUnlink(x)
      <4>1. collector' = [plan |-> collector.plan, left |-> collector.left,
                          unlinked |-> x.object]
        BY <3>1, <3>2 DEF GcUnlink
      <4> QED
        BY <3>2, <4>1 DEF GcUnlink
    <3>3. CASE GcForget(x)
      <4>1. collector' = [plan |-> collector.plan, left |-> collector.left \ {x},
                          unlinked |-> None]
        BY <3>1, <3>3 DEF GcForget
      <4> QED
        BY <3>3, <4>1 DEF GcForget
    <3> QED
      BY <1>4, <3>2, <3>3
  <2>5. TypeOK'
    BY <2>1, <2>4 DEF TypeOK
  <2>6. LeaseIsExclusive' /\ WrittenSoFar'
    BY <2>2, <2>4 DEF LeaseIsExclusive, WrittenSoFar, Leased, Writing
  <2>7. CatalogIntact'
    <3>1. ASSUME NEW s \in Rows, NEW o \in Uses(s)
          PROVE  owned'[o] = owned[o] /\ file'[o] = file[o]
      BY <2>1, <2>3, <2>4, UsesObjects DEF TypeOK, Rows
    <3> QED
      BY <2>4, <3>1 DEF CatalogIntact, Complete, Rows
  <2>8. CollectsGarbage' /\ ReferencesResolve' /\ InUseIsCataloged'
    BY <2>3, <2>4 DEF CollectsGarbage, ReferencesResolve, InUseIsCataloged, Rows
  <2>9. LeftIsRegistered'
    <3>1. CASE GcUnlink(x)
      BY <3>1 DEF GcUnlink, LeftIsRegistered, TypeOK
    <3>2. CASE GcForget(x)
      <4>1. collector'.left = collector.left \ {x}
        BY <3>2 DEF GcForget, TypeOK
      <4>2. \A y \in collector'.left : y.object # x.object /\ owned'[y.object] = owned[y.object]
        BY <2>1, <3>2, <4>1 DEF GcForget, LeftIsRegistered, TypeOK, PlannedObjects
      <4> QED
        BY <4>1, <4>2 DEF LeftIsRegistered
    <3> QED
      BY <1>4, <3>1, <3>2
  <2> QED
    BY <2>2, <2>4, <2>5, <2>6, <2>7, <2>8, <2>9 DEF IdleCollectorIsEmpty
<1>5. QED
  BY <1>1, <1>2, <1>3, <1>4 DEF GcStep

\* Every step preserves the invariant.
LEMMA StoreInvariantStep == StoreInvariant /\ [Next]_vars => StoreInvariant'
<1> SUFFICES ASSUME StoreInvariant, [Next]_vars PROVE StoreInvariant'
  OBVIOUS
<1>1. CASE PublishStep
  BY <1>1, CaptureAndEndPreserve, WriteObjectPreserves, RegisterObjectPreserves,
     CommitPreserves DEF PublishStep
<1>2. CASE ReadStep \/ PinStep \/ Tick
  BY <1>2, UsersPreserve
<1>3. CASE GcStep
  BY <1>3, CollectionPreserves
<1>4. CASE UNCHANGED vars
  <2>1. TypeOK'
    BY <1>4 DEF StoreInvariant, TypeOK, vars
  <2>2. /\ LeaseIsExclusive' /\ WrittenSoFar' /\ CapturedHasWrittenNothing'
        /\ IdleCollectorIsEmpty' /\ CatalogIntact' /\ CollectsGarbage' /\ LeftIsRegistered'
    BY <1>4 DEF LeftIsRegistered, StoreInvariant, vars, LeaseIsExclusive, Leased,
       WrittenSoFar, Writing,
       CapturedHasWrittenNothing, IdleCollectorIsEmpty, Collecting, CatalogIntact, Complete,
       CollectsGarbage, Rows
  <2>3. ReferencesResolve' /\ InUseIsCataloged'
    BY <1>4 DEF StoreInvariant, vars, ReferencesResolve, InUseIsCataloged, Rows, OrNone
  <2> QED
    BY <2>1, <2>2, <2>3 DEF StoreInvariant
<1>5. QED
  BY <1>1, <1>2, <1>3, <1>4 DEF Next

-----------------------------------------------------------------------------
\* Every reachable state of the store satisfies the inductive invariant.
THEOREM StoreInvariantHolds == Spec => []StoreInvariant
<1> QED
  BY StoreInvariantInit, StoreInvariantStep, PTL DEF Spec

\* Whatever is interrupted, a snapshot in the catalog has all its objects.
THEOREM CatalogIntactHolds == Spec => []CatalogIntact
<1>1. StoreInvariant => CatalogIntact
  BY DEF StoreInvariant
<1>2. QED
  BY <1>1, StoreInvariantHolds, PTL

\* A snapshot stays in the catalog, and complete, while somebody has it open.
THEOREM ReadersKeepSnapshotsHold == Spec => []ReadersKeepSnapshots
<1>1. StoreInvariant => ReadersKeepSnapshots
  <2> SUFFICES ASSUME StoreInvariant PROVE ReadersKeepSnapshots
    OBVIOUS
  <2>1. ASSUME NEW r \in Readers, reader[r] # None
        PROVE  reader[r] \in Rows /\ Complete(reader[r])
    BY <2>1 DEF StoreInvariant, InUseIsCataloged, CatalogIntact, OrNone
  <2>2. ASSUME NEW p \in Publishers, publisher[p] # None, publisher[p].stage = "restoring"
        PROVE  publisher[p].snapshot \in Rows /\ Complete(publisher[p].snapshot)
    BY <2>2 DEF StoreInvariant, InUseIsCataloged, CatalogIntact
  <2> QED
    BY <2>1, <2>2 DEF ReadersKeepSnapshots
<1>2. QED
  BY <1>1, StoreInvariantHolds, PTL

\* A step that takes a file away is a collector's GcUnlink.
LEMMA OnlyGcUnlinkRemovesFiles ==
  ASSUME StoreInvariant, [Next]_vars, NEW o \in Objects, file[o] # None, file'[o] # file[o]
  PROVE  \E x \in collector.left : GcUnlink(x) /\ x.object = o
<1>1. file' # file
  OBVIOUS
<1>2. ASSUME NEW p \in Publishers, NEW w \in Objects
      PROVE  ~WriteObject(p, w)
  BY DEF WriteObject, StoreInvariant, TypeOK
<1>3. PICK x \in collector.left : GcUnlink(x)
  BY <1>1, <1>2 DEF Next, vars, PublishStep, ReadStep, PinStep, GcStep, Tick, Capture,
     EnterPublish, RegisterObject, Commit, PublisherEnds, OpenReader, CloseReader, Observe,
     Pin, Unpin, GcPlan, GcBegin, GcForget, GcComplete, GcStops
<1>4. x.object = o
  BY <1>3 DEF GcUnlink, StoreInvariant, TypeOK
<1>5. QED
  BY <1>3, <1>4

\* The collector unlinks registered files only, of no cataloged snapshot, while
\* nobody writes or reads.
THEOREM UnlinksOnlyGarbageHolds == Spec => UnlinksOnlyGarbage
<1>1. StoreInvariant /\ [Next]_vars =>
        [\A o \in Objects : file[o] # None /\ file'[o] # file[o] =>
           /\ owned[o] # None /\ owned[o].identity = file[o]
           /\ \A s \in Rows : o \notin Uses(s)
           /\ \A p \in Publishers : ~Leased(p)
           /\ \A r \in Readers : reader[r] = None]_vars
  <2> SUFFICES ASSUME StoreInvariant, [Next]_vars,
                      NEW o \in Objects, file[o] # None, file'[o] # file[o]
               PROVE  /\ owned[o] # None /\ owned[o].identity = file[o]
                      /\ \A s \in Rows : o \notin Uses(s)
                      /\ \A p \in Publishers : ~Leased(p)
                      /\ \A r \in Readers : reader[r] = None
    OBVIOUS
  <2>1. PICK x \in collector.left : GcUnlink(x) /\ x.object = o
    BY OnlyGcUnlinkRemovesFiles
  <2>2. Collecting
    BY <2>1 DEF StoreInvariant, IdleCollectorIsEmpty
  <2>3. owned[o] # None /\ owned[o].identity = file[o]
    BY <2>1 DEF StoreInvariant, LeftIsRegistered, GcUnlink
  <2>4. /\ \A s \in Rows : o \notin Uses(s)
        /\ \A p \in Publishers : ~Leased(p)
        /\ \A r \in Readers : reader[r] = None
    BY <2>1, <2>2 DEF StoreInvariant, CollectsGarbage, LeaseIsExclusive
  <2> QED
    BY <2>3, <2>4
<1>2. QED
  BY <1>1, StoreInvariantHolds, PTL DEF Spec, UnlinksOnlyGarbage

-----------------------------------------------------------------------------
(* Refinement of SnapshotCatalog *)

\* Every row can be read completely, so what is available is the catalog.
LEMMA AvailableIsCataloged == StoreInvariant => Available = Rows
BY DEF StoreInvariant, CatalogIntact, Available

\* A process that has captured a head or writes intends to publish, one that
\* restores observations uses what it published, and readers only use.
LEMMA UsersMapped ==
  ASSUME NEW p \in Publishers
  PROVE  /\ Intent[p] = IF publisher[p] # None /\ publisher[p].stage # "restoring"
                        THEN [snapshot |-> publisher[p].snapshot, head |-> publisher[p].head,
                              expected |-> publisher[p].expected]
                        ELSE None
         /\ Using[p] = IF publisher[p] # None /\ publisher[p].stage = "restoring"
                       THEN publisher[p].snapshot ELSE None
BY ActorsAssumption DEF Intent, Using, Users

\* What a publisher's steps assign to the fields of its state.
LEMMA PublisherFields ==
  ASSUME NEW w \in PublisherStates
  PROVE  /\ \A L \in SUBSET Objects :
              [w EXCEPT !.stage = "writing", !.left = L] \in PublisherStates
         /\ \A o \in Objects : [w EXCEPT !.written = o] \in PublisherStates
         /\ \A o \in OrNone(Objects) :
              [w EXCEPT !.left = @ \ {o}, !.written = None] \in PublisherStates
BY DEF PublisherStates, Stages, OrNone

\* What one publisher does shows in its own intent and use only.
LEMMA PublisherFrame ==
  ASSUME NEW p \in Publishers, NEW u, publisher \in [Publishers -> OrNone(PublisherStates)],
         publisher' = [publisher EXCEPT ![p] = u], UNCHANGED reader
  PROVE  /\ Intent' = [Intent EXCEPT ![p] =
                         IF u # None /\ u.stage # "restoring"
                         THEN [snapshot |-> u.snapshot, head |-> u.head, expected |-> u.expected]
                         ELSE None]
         /\ Using' = [Using EXCEPT ![p] =
                        IF u # None /\ u.stage = "restoring" THEN u.snapshot ELSE None]
<1>1. publisher'[p] = u /\ \A q \in Publishers : q # p => publisher'[q] = publisher[q]
  OBVIOUS
<1>2. p \in Users /\ p \notin Readers /\ \A q \in Users : q \in Publishers <=> q \notin Readers
  BY ActorsAssumption DEF Users
<1>3. Intent' = [Intent EXCEPT ![p] =
                   IF u # None /\ u.stage # "restoring"
                   THEN [snapshot |-> u.snapshot, head |-> u.head, expected |-> u.expected]
                   ELSE None]
  BY <1>1, <1>2 DEF Intent
<1>4. Using' = [Using EXCEPT ![p] =
                  IF u # None /\ u.stage = "restoring" THEN u.snapshot ELSE None]
  BY <1>1, <1>2 DEF Using
<1>5. QED
  BY <1>3, <1>4

\* A commit is the publication its caller intended; the other steps of a publisher
\* state an intent, give it or the use up, or show nothing.
LEMMA PublishImplements ==
  ASSUME StoreInvariant, StoreInvariant', PublishStep
  PROVE  [Promised!Next]_(Promised!vars)
<1> USE NoneAssumption
<1>1. Available = Rows /\ Available' = Rows' /\ TypeOK
  BY DEF StoreInvariant, CatalogIntact, Available
<1>2. publisher \in [Publishers -> OrNone(PublisherStates)]
      /\ \A p \in Publishers : publisher[p] # None =>
           /\ publisher[p] \in PublisherStates
           /\ publisher[p].snapshot \in Snapshots /\ publisher[p].head \in Heads
  BY <1>1 DEF TypeOK, OrNone, PublisherStates
<1>3. Intent = [u \in Users |-> Intent[u]] /\ Using = [u \in Users |-> Using[u]]
  BY DEF Intent, Using
<1>4. PICK p \in Publishers :
        \/ \E a \in Publications : Capture(p, a)
        \/ EnterPublish(p)
        \/ \E o \in Objects : WriteObject(p, o)
        \/ RegisterObject(p)
        \/ Commit(p)
        \/ PublisherEnds(p)
  BY DEF PublishStep
<1>5. p \in Users
  BY DEF Users
<1>6. ASSUME NEW a \in Publications, Capture(p, a)
      PROVE  Promised!Next
  <2>1. /\ publisher[p] = None
        /\ publisher' = [publisher EXCEPT ![p] =
             [stage |-> "captured", snapshot |-> a.snapshot, head |-> a.head,
              expected |-> heads[a.head], import |-> a.import, left |-> {}, written |-> None]]
        /\ UNCHANGED <<generations, heads, pins, observed, reader>>
    BY <1>6 DEF Capture, catalog
  <2>2. a.snapshot \in Snapshots /\ a.head \in Heads /\ a.import \in BOOLEAN
    BY PublicationsAssumption
  <2> DEFINE u == [stage |-> "captured", snapshot |-> a.snapshot, head |-> a.head,
                   expected |-> heads[a.head], import |-> a.import, left |-> {},
                   written |-> None]
  <2>3. u # None /\ u.stage = "captured" /\ u.snapshot = a.snapshot /\ u.head = a.head
        /\ u.expected = heads[a.head]
    <3>1. publisher'[p] = u
      BY <1>2, <2>1
    <3>2. publisher'[p] # None
      <4>1. u \in PublisherStates
        BY <1>1, <2>2 DEF TypeOK, PublisherStates, Stages, OrNone
      <4> QED  BY <3>1, <4>1
    <3> QED  BY <3>1, <3>2
  <2> HIDE DEF u
  <2>4. publisher' = [publisher EXCEPT ![p] = u]
    BY <2>1 DEF u
  <2>5. /\ Intent' = [Intent EXCEPT ![p] = [snapshot |-> a.snapshot, head |-> a.head,
                                             expected |-> heads[a.head]]]
        /\ Using' = [Using EXCEPT ![p] = None]
    BY <1>2, <2>1, <2>3, <2>4, PublisherFrame
  <2>6. Intent[p] = None /\ Using[p] = None
    BY <2>1, UsersMapped
  <2>7. Using' = Using
    BY <1>3, <2>5, <2>6
  <2>8. Available' = Available
    BY <1>1, <2>1 DEF Rows
  <2>9. Promised!Capture(p, a.snapshot, a.head)
    BY <2>1, <2>5, <2>6, <2>7, <2>8 DEF Promised!Capture
  <2> QED
    BY <1>5, <2>2, <2>9 DEF Promised!Next
<1>7. ASSUME EnterPublish(p) \/ RegisterObject(p) \/ \E o \in Objects : WriteObject(p, o)
      PROVE  UNCHANGED Promised!vars
  <2>1. /\ publisher[p] # None /\ publisher[p].stage # "restoring"
        /\ UNCHANGED <<generations, heads, pins, observed, reader>>
    BY <1>7 DEF EnterPublish, RegisterObject, WriteObject, Writing, catalog
  <2>2. PICK u : /\ publisher' = [publisher EXCEPT ![p] = u]
                 /\ u # None /\ u.stage # "restoring"
                 /\ u.snapshot = publisher[p].snapshot /\ u.head = publisher[p].head
                 /\ u.expected = publisher[p].expected
    <3> DEFINE v == publisher'[p]
    <3>1. publisher' = [publisher EXCEPT ![p] = v]
      BY <1>2, <1>7 DEF EnterPublish, RegisterObject, WriteObject
    <3>2. /\ v \in PublisherStates /\ v.stage # "restoring"
          /\ v.snapshot = publisher[p].snapshot /\ v.head = publisher[p].head
          /\ v.expected = publisher[p].expected
      <4>1. v.stage # "restoring" /\ v.snapshot = publisher[p].snapshot
            /\ v.head = publisher[p].head /\ v.expected = publisher[p].expected
            /\ v.import = publisher[p].import
        BY <1>2, <1>7, <2>1
           DEF EnterPublish, RegisterObject, WriteObject, Writing, PublisherStates
      <4>2. \/ v = [publisher[p] EXCEPT !.stage = "writing", !.left = Uses(publisher[p].snapshot)]
            \/ \E o \in Objects : v = [publisher[p] EXCEPT !.written = o]
            \/ \E o \in OrNone(Objects) :
                 v = [publisher[p] EXCEPT !.left = @ \ {o}, !.written = None]
        BY <1>2, <1>7, <2>1
           DEF EnterPublish, RegisterObject, WriteObject, Writing, PublisherStates
      <4>3. v \in PublisherStates
        <5>1. /\ publisher[p] \in PublisherStates
              /\ Uses(publisher[p].snapshot) \in SUBSET Objects
          BY <1>2, <2>1, UsesObjects
        <5>2. PICK w \in PublisherStates : w = publisher[p]
          BY <5>1
        <5>3. CASE v = [publisher[p] EXCEPT !.stage = "writing",
                                            !.left = Uses(publisher[p].snapshot)]
          BY <5>1, <5>2, <5>3, PublisherFields
        <5>4. ASSUME NEW o \in Objects, v = [publisher[p] EXCEPT !.written = o]
              PROVE  v \in PublisherStates
          BY <5>2, <5>4, PublisherFields
        <5>5. ASSUME NEW o \in OrNone(Objects),
                     v = [publisher[p] EXCEPT !.left = @ \ {o}, !.written = None]
              PROVE  v \in PublisherStates
          BY <5>2, <5>5, PublisherFields
        <5> QED
          BY <4>2, <5>3, <5>4, <5>5
      <4> QED
        BY <4>1, <4>3
    <3> QED
      BY <3>1, <3>2
  <2>3. Intent' = Intent /\ Using' = Using
    <3>1. /\ Intent' = [Intent EXCEPT ![p] = [snapshot |-> u.snapshot, head |-> u.head,
                                               expected |-> u.expected]]
          /\ Using' = [Using EXCEPT ![p] = None]
      BY <1>2, <2>1, <2>2, PublisherFrame
    <3>2. Intent[p] = [snapshot |-> u.snapshot, head |-> u.head, expected |-> u.expected]
          /\ Using[p] = None
      BY <2>1, <2>2, UsersMapped
    <3> QED
      BY <1>3, <3>1, <3>2
  <2>4. Available' = Available
    BY <1>1, <2>1 DEF Rows
  <2> QED
    BY <2>1, <2>3, <2>4 DEF Promised!vars
<1>8. CASE Commit(p)
  <2> DEFINE s == publisher[p].snapshot
             h == publisher[p].head
             u == IF publisher[p].import
                  THEN [publisher[p] EXCEPT !.stage = "restoring"] ELSE None
  <2>1. /\ publisher[p] # None /\ publisher[p].stage = "writing"
        /\ s \in Snapshots /\ h \in Heads
        /\ heads[h] \in {publisher[p].expected, s}
        /\ IF s \in Rows THEN UNCHANGED generations
           ELSE generations' = [generations EXCEPT ![s] =
                                  [sequence |-> sequence + 1, at |-> clock]]
        /\ heads' = [heads EXCEPT ![h] = s]
        /\ publisher' = [publisher EXCEPT ![p] = u]
        /\ UNCHANGED <<pins, observed, reader>>
    BY <1>2, <1>8 DEF Commit, Writing, HeadMatches
  <2>2. Rows' = Rows \cup {s}
    <3>1. CASE s \in Rows
      BY <2>1, <3>1 DEF Rows
    <3>2. CASE s \notin Rows
      <4>1. [sequence |-> sequence + 1, at |-> clock] # None
        BY <1>1 DEF TypeOK, Generations
      <4> QED  BY <1>1, <2>1, <3>2, <4>1 DEF Rows, TypeOK
    <3> QED  BY <3>1, <3>2
  <2>3. u = None \/ (u # None /\ u.stage = "restoring" /\ u.snapshot = s)
    <3>1. CASE publisher[p].import
      <4>1. u \in PublisherStates /\ u.stage = "restoring" /\ u.snapshot = s
        BY <1>2, <2>1, <3>1 DEF PublisherStates, Stages
      <4> QED  BY <4>1
    <3>2. CASE ~publisher[p].import
      BY <3>2
    <3> QED  BY <3>1, <3>2
  <2> HIDE DEF u
  <2>4. Intent' = [Intent EXCEPT ![p] = None]
        /\ \E t \in {None, s} : Using' = [Using EXCEPT ![p] = t]
    <3>1. /\ Intent' = [Intent EXCEPT ![p] =
                           IF u # None /\ u.stage # "restoring"
                           THEN [snapshot |-> u.snapshot, head |-> u.head,
                                 expected |-> u.expected]
                           ELSE None]
          /\ Using' = [Using EXCEPT ![p] =
                          IF u # None /\ u.stage = "restoring" THEN u.snapshot ELSE None]
      BY <1>2, <2>1, PublisherFrame
    <3> QED  BY <2>3, <3>1
  <2>5. Intent[p] = [snapshot |-> s, head |-> h, expected |-> publisher[p].expected]
        /\ Intent[p] # None
    <3>1. Intent[p] = [snapshot |-> s, head |-> h, expected |-> publisher[p].expected]
      BY <2>1, UsersMapped
    <3>2. [snapshot |-> s, head |-> h, expected |-> publisher[p].expected] # None
      <4>1. [snapshot |-> s, head |-> h, expected |-> publisher[p].expected] \in Intents
        BY <1>2, <2>1 DEF Intents, PublisherStates
      <4> QED  BY <4>1
    <3> QED  BY <3>1, <3>2
  <2>6. Intent[p].snapshot = s /\ Intent[p].head = h
        /\ Intent[p].expected = publisher[p].expected
    BY <2>5
  <2>7. Promised!Publish(p)
    BY <1>1, <2>1, <2>2, <2>4, <2>5, <2>6 DEF Promised!Publish
  <2> QED
    BY <1>5, <2>7 DEF Promised!Next
<1>9. CASE PublisherEnds(p)
  <2>1. /\ publisher[p] # None /\ publisher' = [publisher EXCEPT ![p] = None]
        /\ UNCHANGED <<generations, heads, pins, observed, reader>>
    BY <1>9 DEF PublisherEnds, catalog
  <2>2. Intent' = [Intent EXCEPT ![p] = None] /\ Using' = [Using EXCEPT ![p] = None]
    BY <1>2, <2>1, PublisherFrame
  <2>3. Available' = Available
    BY <1>1, <2>1 DEF Rows
  <2>4. CASE publisher[p].stage = "restoring"
    <3>1. Intent[p] = None
      BY <2>1, <2>4, UsersMapped
    <3>2. Intent' = Intent
      BY <1>3, <2>2, <3>1
    <3>3. Promised!Close(p)
      BY <2>1, <2>2, <2>3, <3>2 DEF Promised!Close
    <3> QED  BY <1>5, <3>3 DEF Promised!Next
  <2>5. CASE publisher[p].stage # "restoring"
    <3>1. Using[p] = None
      BY <2>1, <2>5, UsersMapped
    <3>2. Using' = Using
      BY <1>3, <2>2, <3>1
    <3>3. Promised!Abandon(p)
      BY <2>1, <2>2, <2>3, <3>2 DEF Promised!Abandon
    <3> QED  BY <1>5, <3>3 DEF Promised!Next
  <2> QED  BY <2>4, <2>5
<1>10. QED
  BY <1>4, <1>6, <1>7, <1>8, <1>9

\* Opening and closing a snapshot, importing observations, and pins are steps of
\* the abstract catalog.
LEMMA UsersImplement ==
  ASSUME StoreInvariant, StoreInvariant', ReadStep \/ PinStep
  PROVE  Promised!Next
<1>1. /\ Available = Rows /\ Available' = Rows' /\ Rows' = Rows
  BY DEF StoreInvariant, CatalogIntact, Available, Rows, ReadStep, PinStep, OpenReader,
         CloseReader, Observe, Pin, Unpin, catalog
<1>2. Intent' = Intent
  BY DEF ReadStep, PinStep, OpenReader, CloseReader, Observe, Pin, Unpin, Intent, actors
<1>3. ASSUME NEW r \in Readers, NEW s, reader' = [reader EXCEPT ![r] = s], UNCHANGED publisher
      PROVE  r \in Users /\ Using' = [Using EXCEPT ![r] = s]
  <2>1. reader'[r] = s /\ \A q \in Readers : q # r => reader'[q] = reader[q]
    BY <1>3 DEF StoreInvariant, TypeOK
  <2> QED
    BY <1>3, <2>1 DEF Users, Using
<1>4. ASSUME NEW r \in Readers, CloseReader(r)
      PROVE  Promised!Next
  <2>1. Promised!Close(r)
    BY <1>1, <1>2, <1>3, <1>4 DEF CloseReader, catalog, Promised!Close
  <2> QED
    BY <1>4, <2>1 DEF Users, Promised!Next
<1>5. ASSUME NEW r \in Readers, NEW s \in Snapshots, OpenReader(r, s)
      PROVE  Promised!Next
  <2>1. Promised!Open(r, s)
    BY <1>1, <1>2, <1>3, <1>5 DEF OpenReader, catalog, Promised!Open
  <2> QED
    BY <1>5, <2>1 DEF Users, Promised!Next
<1>6. ASSUME NEW s \in Snapshots, Observe(s)
      PROVE  Promised!Next
  <2>1. Using' = Using
    BY <1>6 DEF Observe, actors, Using
  <2>2. \E u \in Users : Using[u] = s
    <3>1. CASE \E r \in Readers : reader[r] = s
      BY <3>1 DEF Using, Users
    <3>2. CASE \E p \in Publishers : publisher[p] # None /\ publisher[p].stage = "restoring"
                                     /\ publisher[p].snapshot = s
      BY <3>2, UsersMapped DEF Users
    <3> QED
      BY <1>6, <3>1, <3>2 DEF Observe
  <2>3. Promised!Observe(s)
    BY <1>1, <1>2, <1>6, <2>1, <2>2 DEF Observe, catalog, Promised!Observe
  <2> QED
    BY <2>3 DEF Promised!Next
<1>7. ASSUME NEW n \in Pins, Unpin(n) \/ \E s \in Snapshots : Pin(n, s)
      PROVE  Promised!Next
  <2>1. Using' = Using
    BY <1>7 DEF Pin, Unpin, actors, Using
  <2>2. PICK s \in Rows \cup {None} : pins' = [pins EXCEPT ![n] = s]
    BY <1>7 DEF Pin, Unpin
  <2>3. Promised!SetPin(n, s)
    BY <1>1, <1>2, <1>7, <2>1, <2>2 DEF Pin, Unpin, Promised!SetPin
  <2> QED
    BY <2>3 DEF Promised!Next, Rows
<1>8. QED
  BY <1>4, <1>5, <1>6, <1>7 DEF ReadStep, PinStep

\* A collection removes at its beginning what nothing refers to; its other steps
\* remove files that no snapshot of the catalog needs, and show nothing.
LEMMA CollectionImplements ==
  ASSUME StoreInvariant, StoreInvariant', GcStep
  PROVE  [Promised!Next]_(Promised!vars)
<1> USE NamesAssumption
<1>1. Available = Rows /\ Available' = Rows' /\ TypeOK
  BY DEF StoreInvariant, CatalogIntact, Available
<1>2. UNCHANGED <<heads, pins, observed, publisher, reader>>
  BY DEF GcStep, GcPlan, GcBegin, GcComplete, GcStops, GcUnlink, GcForget, catalog
<1>3. Intent' = Intent /\ Using' = Using
  BY <1>2 DEF Intent, Using
<1>4. CASE GcBegin
  <2> DEFINE S == plan.remove
  <2>1. /\ plan = Computed(plan.policy)
        /\ \A p \in Publishers : ~Leased(p)
        /\ \A r \in Readers : reader[r] = None
        /\ \A h \in Heads : heads[h] \notin S
        /\ \A n \in Pins : pins[n] \notin S
        /\ generations' = [s \in Snapshots |-> IF s \in S THEN None ELSE generations[s]]
    BY <1>4 DEF GcBegin, ExclusiveLeaseFree
  <2>2. S = Removable(plan.policy) /\ S \subseteq Rows
    BY <2>1 DEF Computed, Removable
  <2>3. S \cap observed = {}
    BY <2>2 DEF Removable, Reasons
  <2>4. ASSUME NEW u \in Users
        PROVE  Using[u] = None /\ None \notin S
    <3>1. None \notin S
      BY <2>2 DEF Rows
    <3> QED
      BY <2>1, <3>1 DEF Using, Leased, Users
  <2>5. Rows' = Rows \ S
    BY <2>1, <2>2 DEF Rows
  <2>6. Promised!Remove(S)
    BY <1>1, <1>2, <1>3, <2>1, <2>2, <2>3, <2>4, <2>5 DEF Promised!Remove
  <2>7. S \in SUBSET Snapshots
    BY <2>2 DEF Rows
  <2> QED
    BY <2>6, <2>7 DEF Promised!Next
<1>5. CASE ~GcBegin
  <2>1. UNCHANGED generations
    BY <1>5 DEF GcStep, GcPlan, GcComplete, GcStops, GcUnlink, GcForget, catalog
  <2>2. Available' = Available
    BY <1>1, <2>1 DEF Rows
  <2> QED
    BY <1>2, <1>3, <2>2 DEF Promised!vars
<1>6. QED
  BY <1>4, <1>5

\* The store implements SnapshotCatalog: whatever processes die in between, what
\* can be read changes by whole publications and by removals of what nothing
\* refers to, and a head moves only from what its caller saw.
THEOREM ImplementsSnapshotCatalog == Spec => SnapshotCatalogSpec
<1>1. Init => Promised!Init
  <2> SUFFICES ASSUME Init
               PROVE  Promised!Init
    OBVIOUS
  <2>1. Available = {}
    BY DEF Init, Available, Rows
  <2>2. Intent = [u \in Users |-> None] /\ Using = [u \in Users |-> None]
    BY DEF Init, Intent, Using, Users
  <2> QED
    BY <2>1, <2>2 DEF Init, Promised!Init
<1>2. StoreInvariant /\ StoreInvariant' /\ [Next]_vars => [Promised!Next]_(Promised!vars)
  <2> SUFFICES ASSUME StoreInvariant, StoreInvariant', [Next]_vars
               PROVE  [Promised!Next]_(Promised!vars)
    OBVIOUS
  <2>1. CASE PublishStep
    BY <2>1, PublishImplements
  <2>2. CASE ReadStep \/ PinStep
    BY <2>2, UsersImplement
  <2>3. CASE GcStep
    BY <2>3, CollectionImplements
  <2>4. CASE Tick \/ UNCHANGED vars
    BY <2>4 DEF Tick, vars, catalog, actors, Promised!vars, Available, Rows, Complete,
                Intent, Using
  <2> QED
    BY <2>1, <2>2, <2>3, <2>4 DEF Next
<1>3. QED
  BY StoreInvariantHolds, <1>1, <1>2, PTL DEF Spec, SnapshotCatalogSpec, Promised!Spec

-----------------------------------------------------------------------------
(* Retention *)

\* The numbering of generations and the policy of a plan survive every step.
LEMMA RetentionInvariantStep == RetentionInvariant /\ [Next]_vars => RetentionInvariant'
<1> SUFFICES ASSUME RetentionInvariant, [Next]_vars
             PROVE  RetentionInvariant'
  OBVIOUS
<1>1. StoreInvariant /\ StoreInvariant' /\ TypeOK
  BY StoreInvariantStep DEF RetentionInvariant, StoreInvariant
<1>2. /\ sequence \in Nat
      /\ \A s \in Rows : s \in Snapshots /\ generations[s].sequence \in Nat
  BY <1>1 DEF TypeOK, Rows, OrNone, Generations
<1>3. CASE UNCHANGED <<generations, sequence, plan>>
  BY <1>1, <1>3 DEF RetentionInvariant, GenerationsAreNumbered, Rows
<1>4. ASSUME NEW p \in Publishers, Commit(p)
      PROVE  RetentionInvariant'
  <2> DEFINE s == publisher[p].snapshot
             g == [sequence |-> sequence + 1, at |-> clock]
  <2>1. CASE s \in Rows
    BY <1>3, <1>4, <2>1 DEF Commit
  <2>2. CASE s \notin Rows
    <3>1. /\ generations' = [generations EXCEPT ![s] = g]
          /\ sequence' = sequence + 1 /\ plan' = plan
      BY <1>4, <2>2 DEF Commit
    <3>2. \A t \in Rows' : \/ t = s /\ generations'[t] = g
                           \/ t \in Rows /\ generations'[t] = generations[t]
      <4>1. DOMAIN generations = Snapshots
        BY <1>1 DEF TypeOK
      <4> HIDE DEF s, g
      <4>2. \A t \in Snapshots :
              generations'[t] = IF t = s THEN g ELSE generations[t]
        BY <3>1, <4>1
      <4>3. \A t \in Rows' : t \in Snapshots /\ generations'[t] # None
        BY DEF Rows
      <4>4. \A t \in Snapshots : generations[t] # None => t \in Rows
        BY DEF Rows
      <4> QED
        BY <4>2, <4>3, <4>4
    <3>3. g.sequence = sequence + 1
      OBVIOUS
    <3> HIDE DEF s, g
    <3>4. GenerationsAreNumbered'
      BY <1>2, <3>1, <3>2, <3>3 DEF RetentionInvariant, GenerationsAreNumbered
    <3> QED
      BY <1>1, <3>1, <3>4 DEF RetentionInvariant
  <2> QED  BY <2>1, <2>2
<1>5. ASSUME NEW policy \in Policies, GcPlan(policy)
      PROVE  RetentionInvariant'
  <2>1. plan'.policy = policy /\ UNCHANGED <<generations, sequence>>
    BY <1>5 DEF GcPlan, Computed, catalog
  <2> QED
    BY <1>1, <2>1 DEF RetentionInvariant, GenerationsAreNumbered, Rows
<1>6. CASE GcBegin
  <2>1. /\ UNCHANGED <<sequence, plan>>
        /\ generations' = [s \in Snapshots |-> IF s \in plan.remove THEN None ELSE generations[s]]
    BY <1>6 DEF GcBegin
  <2>2. \A s \in Rows' : s \in Rows /\ generations'[s] = generations[s]
    BY <2>1 DEF Rows
  <2> QED
    BY <1>1, <2>1, <2>2 DEF RetentionInvariant, GenerationsAreNumbered
<1>7. CASE ReadStep \/ PinStep \/ Tick \/ UNCHANGED vars
  BY <1>3, <1>7 DEF ReadStep, PinStep, Tick, OpenReader, CloseReader, Observe, Pin, Unpin,
                    catalog, actors, vars
<1>8. ASSUME NEW p \in Publishers,
             \/ \E a \in Publications : Capture(p, a)
             \/ EnterPublish(p)
             \/ \E o \in Objects : WriteObject(p, o)
             \/ RegisterObject(p)
             \/ PublisherEnds(p)
      PROVE  RetentionInvariant'
  BY <1>3, <1>8 DEF Capture, EnterPublish, WriteObject, RegisterObject, PublisherEnds, catalog
<1>9. CASE GcComplete \/ GcStops \/ \E x \in collector.left : GcUnlink(x) \/ GcForget(x)
  BY <1>3, <1>9 DEF GcComplete, GcStops, GcUnlink, GcForget, catalog
<1>10. QED
  BY <1>4, <1>5, <1>6, <1>7, <1>8, <1>9 DEF Next, PublishStep, GcStep

\* The catalog is finite, as every row has a number of its own up to the counter.
LEMMA CatalogIsFinite == RetentionInvariant => IsFiniteSet(Rows)
<1> SUFFICES ASSUME RetentionInvariant
             PROVE  IsFiniteSet(Rows)
  OBVIOUS
<1> DEFINE number == [s \in Rows |-> generations[s].sequence]
<1>1. sequence \in Nat /\ \A s \in Rows : generations[s].sequence \in 0 .. sequence
  BY DEF RetentionInvariant, GenerationsAreNumbered, StoreInvariant, TypeOK, Rows, OrNone,
         Generations
<1>2. number \in Injection(Rows, 0 .. sequence)
  BY <1>1 DEF Injection, IsInjective, RetentionInvariant, GenerationsAreNumbered
<1>3. IsFiniteSet(0 .. sequence)
  BY <1>1, FS_Interval
<1>4. QED
  BY <1>2, <1>3, FS_Injection

\* Of the generations that are newer than a removable one the newest ones, as many
\* as the policy keeps, are not removable.
LEMMA NewestStay ==
  ASSUME RetentionInvariant, NEW policy \in Policies, NEW s \in Removable(policy)
  PROVE  Cardinality({t \in Rows \ Removable(policy) :
                        ScopeOf[t] = ScopeOf[s]
                        /\ generations[t].sequence > generations[s].sequence}) >= policy.keep
<1> DEFINE age == [t \in Newer(s) |-> -generations[t].sequence]
           newest == Lowest(Newer(s), age, policy.keep)
           stay == {t \in Rows \ Removable(policy) :
                      ScopeOf[t] = ScopeOf[s]
                      /\ generations[t].sequence > generations[s].sequence}
<1>1. \A t \in Rows : generations[t].sequence \in Nat
  BY DEF RetentionInvariant, StoreInvariant, TypeOK, Rows, OrNone, Generations
<1>2. s \in Rows /\ policy.keep \in Nat
  BY PoliciesAssumption DEF Removable
<1>3. IsFiniteSet(Rows) /\ IsFiniteSet(Newer(s)) /\ Cardinality(Newer(s)) \in Nat
  BY CatalogIsFinite, FS_Subset, FS_CardinalityType DEF Newer
<1>4. policy.keep <= Cardinality(Newer(s))
  <2>1. ~(Cardinality(Newer(s)) < policy.keep)
    BY <1>2 DEF Removable, Reasons, CatalogReasons
  <2> QED  BY <1>2, <1>3, <2>1
<1>5. /\ age \in [Newer(s) -> Int]
      /\ \A t, u \in Newer(s) : age[t] = age[u] => t = u
  BY <1>1 DEF Newer, RetentionInvariant, GenerationsAreNumbered
<1>6. Cardinality(newest) = policy.keep
  BY <1>2, <1>3, <1>4, <1>5, LowestCount
<1>7. ASSUME NEW t \in newest
      PROVE  t \in stay
  <2>1. t \in Newer(s) /\ Cardinality({u \in Newer(s) : age[u] < age[t]}) < policy.keep
    BY DEF Lowest
  <2>2. {u \in Newer(s) : age[u] < age[t]} = Newer(t)
    BY <1>1, <1>2, <2>1 DEF Newer
  <2>3. Reasons(t, policy) # {}
    BY <2>1, <2>2 DEF Reasons, CatalogReasons
  <2> QED
    BY <2>1, <2>3 DEF Newer, Removable
<1>8. newest \in SUBSET stay /\ stay \in SUBSET Rows
  BY <1>7
<1> HIDE DEF newest, stay
<1>9. Cardinality(newest) <= Cardinality(stay) /\ Cardinality(stay) \in Nat
  BY <1>3, <1>8, FS_Subset, FS_CardinalityType
<1>10. QED
  BY <1>2, <1>6, <1>9 DEF stay

\* The retention policy is honoured: a snapshot goes only in a collection, when
\* enough newer generations of its scope stay, its grace period is over and
\* nothing refers to it, although the plan was made long before.
THEOREM RetentionHonouredHolds == Spec => RetentionHonoured
<1>1. ASSUME RetentionInvariant, [Next]_vars, NEW s \in Rows \ Rows'
      PROVE  LET policy == collector'.plan.policy IN
             /\ Cardinality({t \in Rows' : ScopeOf[t] = ScopeOf[s]
                               /\ generations[t].sequence > generations[s].sequence})
                  >= policy.keep
             /\ clock - generations[s].at >= policy.grace
             /\ s \notin policy.roots \cup observed
             /\ \A h \in Heads : heads[h] # s
             /\ \A n \in Pins : pins[n] # s
  <2>1. TypeOK
    BY <1>1 DEF RetentionInvariant, StoreInvariant
  <2>2. \A p \in Publishers : ~Commit(p)
    <3>1. \A g \in Nat : [sequence |-> g, at |-> clock] # None
      BY <2>1, NoneAssumption DEF TypeOK, Generations
    <3> QED
      BY <1>1, <2>1, <3>1 DEF Commit, Rows, TypeOK
  <2>3. GcBegin
    BY <1>1, <2>2
       DEF Next, PublishStep, ReadStep, PinStep, GcStep, Tick, Capture, EnterPublish,
           WriteObject, RegisterObject, PublisherEnds, OpenReader, CloseReader, Observe, Pin,
           Unpin, GcPlan, GcComplete, GcStops, GcUnlink, GcForget, catalog, actors, vars, Rows
  <2> DEFINE policy == plan.policy
  <2>4. /\ plan # None /\ policy \in Policies /\ plan = Computed(policy)
        /\ collector'.plan = plan
        /\ generations' = [t \in Snapshots |->
                             IF t \in plan.remove THEN None ELSE generations[t]]
    BY <1>1, <2>3 DEF GcBegin, RetentionInvariant
  <2>5. plan.remove = Removable(policy)
    BY <2>4 DEF Computed
  <2> HIDE DEF policy
  <2>6. s \in Removable(policy) /\ Rows' = Rows \ Removable(policy)
    BY <1>1, <2>4, <2>5 DEF Rows
  <2>7. Cardinality({t \in Rows' : ScopeOf[t] = ScopeOf[s]
                       /\ generations[t].sequence > generations[s].sequence}) >= policy.keep
    BY <1>1, <2>4, <2>6, NewestStay
  <2>8. Reasons(s, policy) = {}
    BY <2>6 DEF Removable
  <2>9. /\ ~(generations[s].at > clock - policy.grace)
        /\ s \notin policy.roots \cup observed
        /\ \A h \in Heads : heads[h] # s
        /\ \A n \in Pins : pins[n] # s
    BY <2>8 DEF Reasons, CatalogReasons
  <2>10. clock \in Nat /\ policy.grace \in Nat /\ generations[s].at \in Nat
    BY <1>1, <2>1, <2>4, PoliciesAssumption DEF TypeOK, Rows, OrNone, Generations
  <2>11. clock - generations[s].at >= policy.grace
    BY <2>9, <2>10
  <2> QED
    BY <2>4, <2>7, <2>9, <2>11 DEF policy
<1>2. RetentionInvariant /\ [Next]_vars =>
        [\A s \in Rows \ Rows' :
           LET policy == collector'.plan.policy IN
           /\ Cardinality({t \in Rows' : ScopeOf[t] = ScopeOf[s]
                             /\ generations[t].sequence > generations[s].sequence})
                >= policy.keep
           /\ clock - generations[s].at >= policy.grace
           /\ s \notin policy.roots \cup observed
           /\ \A h \in Heads : heads[h] # s
           /\ \A n \in Pins : pins[n] # s]_vars
  BY <1>1
<1>3. Init => RetentionInvariant
  BY StoreInvariantInit DEF Init, RetentionInvariant, GenerationsAreNumbered, Rows
<1>4. QED
  BY <1>2, <1>3, RetentionInvariantStep, PTL DEF Spec, RetentionHonoured
=============================================================================
