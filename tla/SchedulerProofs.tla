--------------------------- MODULE SchedulerProofs ---------------------------
(***************************************************************************)
(* Proofs about Scheduler for any number of profiles, jobs, crashes and    *)
(* write failures and any limits.  FenceInvariant is inductive, and with   *)
(* it the type invariant, the publication fence, the order of publications *)
(* and the refinement of FencedPublication.  QueueInvariant is, and with   *)
(* it the limits of queue and history, the supervision of running jobs,    *)
(* one active job per profile, final outcomes and the order of starts.     *)
(***************************************************************************)
EXTENDS Scheduler, Ranking, TLAPS

-----------------------------------------------------------------------------
(* The fence *)

\* A call in progress is a record that names its profile, generation and table.
LEMMA CallIsRecord ==
  ASSUME TypeOK, call # Idle
  PROVE  /\ call \in Calls
         /\ call.stage \in {"fence", "journal"}
         /\ call.profile \in Profiles
         /\ call.generation \in {NoGeneration} \cup JobIds
         /\ call.jobs \in JobTables
         /\ call = [stage |-> call.stage, profile |-> call.profile,
                    generation |-> call.generation, jobs |-> call.jobs]
BY DEF TypeOK, Calls

\* No call is in progress when the stage is idle.
LEMMA IdleStage == Idle.stage = "idle"
BY DEF Idle

\* The table a submit computes: a new queued job, and of the others nothing but
\* withdrawals and removals of terminal jobs.
LEMMA AdmittedTable ==
  ASSUME TypeOK, NEW r \in Requests, NEW id \in JobIds
  PROVE  /\ Admitted(r, id) \in JobTables
         /\ Admitted(r, id)[id] = "queued"
         /\ \A i \in JobIds : i # id =>
              LET new == Admitted(r, id)[i] IN
              /\ new = "queued" => jobs[i] = "queued"
              /\ new # "absent" => jobs[i] # "absent"
              /\ new = "cancelling" =>
                   jobs[i] = "cancelling" \/ request[i].profile = r.profile
              /\ jobs[i] \in {"running", "cancelling"} => new \in {"running", "cancelling"}
<1> DEFINE S == Superseded(r.profile)
<1> USE DEF JobTables, Statuses, Live, Terminal
<1>1. /\ S \in JobTables
      /\ \A i \in JobIds :
           /\ S[i] = "queued" => jobs[i] = "queued"
           /\ S[i] # "absent" => jobs[i] # "absent"
           /\ S[i] = "cancelling" =>
                jobs[i] = "cancelling" \/ request[i].profile = r.profile
           /\ jobs[i] \in {"running", "cancelling"} => S[i] \in {"running", "cancelling"}
  BY DEF TypeOK, Superseded, OfProfile, Withdrawn
<1>2. /\ Evicted(S) \in JobTables
      /\ \A i \in JobIds :
           \/ Evicted(S)[i] = S[i]
           \/ Evicted(S)[i] = "absent" /\ S[i] \in Terminal
  <2> HIDE DEF S
  <2> QED  BY <1>1 DEF Evicted, Oldest, With
<1> HIDE DEF S
<1>3. Admitted(r, id) = [Evicted(S) EXCEPT ![id] = "queued"]
  BY DEF Admitted, S
<1>4. QED
  BY <1>1, <1>2, <1>3

\* Drawing an id and computing the new table leaves fence and journal alone.
LEMMA SubmitAdmitsPreserves ==
  ASSUME FenceInvariant, SubmitAdmits
  PROVE  FenceInvariant'
<1> USE MaxJobsAssumption, RequestsAssumption
<1> DEFINE T == Admitted(waiting, nextId)
<1>1. /\ waiting \in Requests /\ waiting.profile \in Profiles
      /\ nextId \in JobIds
      /\ call = Idle /\ TypeOK
  BY DEF SubmitAdmits, FenceInvariant, TypeOK, FenceFree, JobIds
<1>2. /\ T \in JobTables
      /\ T[nextId] = "queued"
      /\ \A i \in JobIds : i # nextId =>
           /\ T[i] = "queued" => jobs[i] = "queued"
           /\ T[i] # "absent" => jobs[i] # "absent"
           /\ T[i] = "cancelling" =>
                jobs[i] = "cancelling" \/ request[i].profile = waiting.profile
           /\ jobs[i] \in {"running", "cancelling"} => T[i] \in {"running", "cancelling"}
  BY <1>1, AdmittedTable
<1>3. /\ call' = [stage |-> "fence", profile |-> waiting.profile,
                  generation |-> nextId, jobs |-> T]
      /\ request' = [request EXCEPT ![nextId] = waiting]
      /\ nextId' = nextId + 1 /\ waiting' = NoRequest
      /\ UNCHANGED <<service, stop, jobs, journal, fence, thread, cur, result,
                     child, published, crashes, faults>>
      /\ \A i \in JobIds : child[i] \notin Publishing
  BY DEF SubmitAdmits, FenceFree, threadVars, budgets
<1> HIDE DEF T
<1>4. call' \in Calls
  BY <1>1, <1>2, <1>3 DEF Calls
<1>5. /\ call'.stage = "fence" /\ call'.profile = waiting.profile
      /\ call'.generation = nextId /\ call'.jobs = T
      /\ call' # Idle
  BY <1>3 DEF Idle
<1>6. TypeOK'
  BY <1>1, <1>3, <1>4 DEF TypeOK, JobIds
<1>7. IdsAreFresh'
  <2>1. ASSUME NEW i \in JobIds, i >= nextId'
        PROVE  /\ i # nextId /\ i >= nextId
               /\ jobs[i] = "absent" /\ journal[i] = "absent" /\ child[i] = "none"
               /\ \A p \in Profiles : fence[p] # i /\ published[p] # i
    <3>1. nextId \in Int /\ i \in Int
      BY <1>1 DEF JobIds
    <3>2. i # nextId /\ i >= nextId
      BY <3>1, <2>1, <1>3
    <3> QED  BY <3>2 DEF FenceInvariant, IdsAreFresh
  <2>2. ASSUME NEW i \in JobIds, i < nextId'
        PROVE  request'[i] \in Requests
    BY <2>2, <1>1, <1>3 DEF FenceInvariant, IdsAreFresh, TypeOK, JobIds
  <2>3. ASSUME NEW i \in JobIds, i >= nextId'
        PROVE  T[i] = "absent"
    BY <2>1, <2>3, <1>2
  <2> QED
    BY <1>3, <1>5, <2>1, <2>2, <2>3 DEF IdsAreFresh
<1>8. /\ jobs[nextId] = "absent" /\ journal[nextId] = "absent" /\ child[nextId] = "none"
      /\ request'[nextId] = waiting
      /\ \A p \in Profiles : fence[p] < nextId /\ published[p] < nextId
      /\ \A i \in JobIds : i # nextId => request'[i] = request[i]
  <2>1. /\ nextId \in Int /\ \A i \in JobIds : i \in Int
        /\ nextId >= nextId /\ 0 < nextId
    BY <1>1 DEF JobIds
  <2>2. ASSUME NEW p \in Profiles
        PROVE  fence[p] < nextId /\ published[p] < nextId
    <3>1. /\ fence[p] \in {0} \cup JobIds /\ published[p] \in {0} \cup JobIds
      BY DEF FenceInvariant, TypeOK, NoGeneration
    <3>2. \A i \in JobIds : i >= nextId => fence[p] # i /\ published[p] # i
      BY DEF FenceInvariant, IdsAreFresh
    <3> QED  BY <2>1, <3>1, <3>2
  <2> QED
    BY <1>1, <1>3, <2>1, <2>2 DEF FenceInvariant, IdsAreFresh, TypeOK
<1>9. DrawnIsFresh'
  BY <1>1, <1>3, <1>5, <1>8 DEF DrawnIsFresh, JobIds
<1>10. LockIsExclusive' /\ FenceAdmitsOwner'
  BY <1>1, <1>3 DEF LockIsExclusive, FenceAdmitsOwner
<1>11. ThreadHasJob'
  BY <1>1, <1>2, <1>3, <1>5, <1>8 DEF FenceInvariant, ThreadHasJob
<1>12. QueuedHasNoProcess'
  <2>1. ASSUME NEW i \in JobIds, jobs[i] = "queued" \/ T[i] = "queued"
        PROVE  child[i] = "none"
    BY <2>1, <1>2, <1>8 DEF FenceInvariant, QueuedHasNoProcess
  <2> QED
    BY <2>1, <1>3, <1>5 DEF QueuedHasNoProcess
<1>13. PublishedIsPast'
  BY <1>3 DEF FenceInvariant, PublishedIsPast
<1>14. \A i \in JobIds : request'[i] = request[i] \/ i = nextId
  BY <1>8
<1>15. Fits(jobs, fence)' /\ Fits(journal, fence)'
  <2>1. \A i \in JobIds : jobs[i] # "absent" \/ journal[i] # "absent" => request'[i] = request[i]
    BY <1>8
  <2> QED
    BY <1>3, <2>1 DEF FenceInvariant, FenceFits, Fits, Retained, With, Live, Terminal
<1>16. \A i \in JobIds : T[i] \in Live \cup Terminal =>
         LET g == [fence EXCEPT ![waiting.profile] = nextId][request'[i].profile] IN
         /\ g = NoGeneration \/ i <= g
         /\ T[i] = "cancelling" => g # i
  <2> DEFINE F == [fence EXCEPT ![waiting.profile] = nextId]
  <2>1. /\ F[waiting.profile] = nextId
        /\ \A p \in Profiles : p # waiting.profile => F[p] = fence[p]
    BY <1>1 DEF TypeOK
  <2> HIDE DEF F
  <2>2. SUFFICES ASSUME NEW i \in JobIds, T[i] \in Live \cup Terminal
                 PROVE  LET g == F[request'[i].profile] IN
                        /\ g = NoGeneration \/ i <= g
                        /\ T[i] = "cancelling" => g # i
    BY DEF F
  <2>3. CASE i = nextId
    <3>1. F[request'[i].profile] = nextId /\ T[i] = "queued" /\ nextId <= nextId
      BY <2>1, <2>3, <1>1, <1>2, <1>8 DEF JobIds
    <3> QED  BY <3>1, <2>3
  <2>4. CASE i # nextId
    <3>1. /\ jobs[i] # "absent" /\ i < nextId /\ request[i] \in Requests
          /\ request'[i] = request[i] /\ i <= nextId
      BY <2>2, <2>4, <1>1, <1>2, <1>8 DEF FenceInvariant, IdsAreFresh, JobIds, Live, Terminal
    <3>2. CASE request[i].profile = waiting.profile
      BY <3>1, <3>2, <2>1, <2>4
    <3>3. CASE request[i].profile # waiting.profile
      <4>1. F[request[i].profile] = fence[request[i].profile]
        BY <3>1, <3>3, <2>1
      <4>2. i \in Retained(jobs)
        BY <3>1, <1>1 DEF Retained, With, TypeOK, JobTables, Statuses
      <4>3. T[i] = "cancelling" => jobs[i] = "cancelling"
        BY <2>4, <3>3, <1>2
      <4> QED
        BY <3>1, <4>1, <4>2, <4>3 DEF FenceInvariant, FenceFits, Fits
    <3> QED  BY <3>2, <3>3
  <2> QED  BY <2>3, <2>4
<1>17. FenceFits'
  <2>1. Fits(call.jobs, [fence EXCEPT ![call.profile] = call.generation])'
    BY <1>3, <1>5, <1>16 DEF Fits, Retained, With
  <2> QED
    BY <2>1, <1>5, <1>15 DEF FenceFits
<1>18. QED
  BY <1>6, <1>7, <1>9, <1>10, <1>11, <1>12, <1>13, <1>17 DEF FenceInvariant

\* The fence a call writes fits the tables in memory and in the journal, and
\* what was published, whether or not the call goes on to install its table.
LEMMA InstalledFenceFits ==
  ASSUME FenceInvariant, call.stage = "fence",
         NEW fences, fences = [fence EXCEPT ![call.profile] = call.generation]
  PROVE  /\ fences \in [Profiles -> {NoGeneration} \cup JobIds]
         /\ Fits(jobs, fences) /\ Fits(journal, fences) /\ Fits(call.jobs, fences)
         /\ \A p \in Profiles :
              /\ fences[p] = NoGeneration \/ published[p] <= fences[p]
              /\ \A i \in JobIds : i >= nextId => fences[p] # i
<1>1. /\ TypeOK /\ call.profile \in Profiles
      /\ call.generation \in {NoGeneration} \cup JobIds
  BY CallIsRecord, IdleStage DEF FenceInvariant
<1>2. /\ fences \in [Profiles -> {NoGeneration} \cup JobIds]
      /\ \A p \in Profiles :
           fences[p] = IF p = call.profile THEN call.generation ELSE fence[p]
  BY <1>1 DEF TypeOK
<1>3. call.generation # NoGeneration => call.generation = nextId - 1
  BY DEF FenceInvariant, DrawnIsFresh
<1>4. ASSUME NEW table, table = jobs \/ table = journal
      PROVE  Fits(table, fences)
  <2>1. SUFFICES ASSUME NEW i \in Retained(table)
                 PROVE  /\ \/ fences[request[i].profile] = NoGeneration
                           \/ i <= fences[request[i].profile]
                        /\ table[i] = "cancelling" => fences[request[i].profile] # i
    BY DEF Fits
  <2>2. /\ i \in JobIds /\ table[i] # "absent" /\ i < nextId
        /\ request[i].profile \in Profiles
    BY <1>4, <1>1, MaxJobsAssumption, RequestsAssumption
       DEF FenceInvariant, IdsAreFresh, Retained, With, Live, Terminal, TypeOK, JobIds
  <2>3. CASE request[i].profile # call.profile
    BY <2>2, <2>3, <1>2, <1>4 DEF FenceInvariant, FenceFits, Fits
  <2>4. CASE request[i].profile = call.profile
    <3>1. fences[request[i].profile] = call.generation
      BY <2>2, <2>4, <1>2
    <3>2. CASE call.generation = NoGeneration
      BY <3>1, <3>2, <2>2 DEF NoGeneration, JobIds
    <3>3. CASE call.generation # NoGeneration
      <4>1. i <= call.generation
        BY <1>1, <1>3, <3>3, <2>2, MaxJobsAssumption DEF TypeOK, JobIds
      <4>2. jobs[call.generation] = "absent" /\ journal[call.generation] = "absent"
        BY <3>3 DEF FenceInvariant, DrawnIsFresh
      <4> QED  BY <3>1, <4>1, <4>2, <2>2, <1>4
    <3> QED  BY <3>2, <3>3
  <2> QED  BY <2>3, <2>4
<1>5. Fits(call.jobs, fences)
  BY DEF FenceInvariant, FenceFits
<1>6. ASSUME NEW p \in Profiles
      PROVE  /\ fences[p] = NoGeneration \/ published[p] <= fences[p]
             /\ \A i \in JobIds : i >= nextId => fences[p] # i
  BY <1>1, <1>2, <1>3, MaxJobsAssumption
     DEF FenceInvariant, PublishedIsPast, DrawnIsFresh, IdsAreFresh, TypeOK, JobIds,
         NoGeneration
<1>7. QED
  BY <1>2, <1>4, <1>5, <1>6

\* Once the fence is written, the table of the call fits it and the one it
\* replaces still does.
LEMMA WriteFencePreserves ==
  ASSUME FenceInvariant, WriteFence
  PROVE  FenceInvariant'
<1>1. /\ call # Idle /\ TypeOK /\ call.stage = "fence"
      /\ fence' = [fence EXCEPT ![call.profile] = call.generation]
      /\ call' = [call EXCEPT !.stage = "journal"]
      /\ UNCHANGED <<service, stop, jobs, request, nextId, waiting, journal, thread,
                     cur, result, child, published, crashes, faults>>
  BY IdleStage DEF WriteFence, FenceInvariant, memory, threadVars, budgets
<1>2. /\ call.profile \in Profiles /\ call.generation \in {NoGeneration} \cup JobIds
      /\ call.jobs \in JobTables
  BY <1>1, CallIsRecord
<1>3. /\ call' \in Calls /\ call' # Idle /\ call'.stage = "journal"
      /\ call'.profile = call.profile /\ call'.generation = call.generation
      /\ call'.jobs = call.jobs
  BY <1>1, CallIsRecord, IdleStage DEF Calls
<1>4. fence' \in [Profiles -> {NoGeneration} \cup JobIds]
  BY <1>1, <1>2 DEF TypeOK
<1>5. TypeOK'
  BY <1>1, <1>3, <1>4 DEF TypeOK
<1>6. \A p \in Profiles :
        fence'[p] = IF p = call.profile THEN call.generation ELSE fence[p]
  BY <1>1, <1>2 DEF TypeOK
<1>7. IdsAreFresh' /\ DrawnIsFresh'
  BY MaxJobsAssumption, <1>1, <1>2, <1>3, <1>6
     DEF FenceInvariant, IdsAreFresh, DrawnIsFresh, JobIds, NoGeneration, TypeOK
<1>8. LockIsExclusive' /\ ThreadHasJob' /\ QueuedHasNoProcess'
  BY <1>1, <1>3 DEF FenceInvariant, LockIsExclusive, ThreadHasJob, QueuedHasNoProcess
<1>9. FenceAdmitsOwner'
  BY <1>1 DEF FenceInvariant, LockIsExclusive, FenceAdmitsOwner
<1>10. PublishedIsPast'
  BY MaxJobsAssumption, <1>1, <1>2, <1>6
     DEF FenceInvariant, PublishedIsPast, DrawnIsFresh, TypeOK, JobIds, NoGeneration
<1>11. Fits(jobs, fence)' /\ Fits(journal, fence)'
  <2>1. Fits(jobs, fence') /\ Fits(journal, fence')
    BY <1>1, InstalledFenceFits
  <2> QED
    BY <2>1, <1>1 DEF Fits, Retained, With
<1>12. FenceFits'
  BY <1>1, <1>3, <1>11 DEF FenceInvariant, FenceFits, Fits, Retained, With
<1>13. QED
  BY <1>5, <1>7, <1>8, <1>9, <1>10, <1>11, <1>12 DEF FenceInvariant

\* A failed write leaves a fence or a journal that memory does not know of.
LEMMA CallFailsPreserves ==
  ASSUME FenceInvariant, CallFails
  PROVE  FenceInvariant'
<1>1. /\ call # Idle /\ TypeOK /\ call' = Idle
      /\ UNCHANGED <<service, stop, jobs, request, nextId, waiting, thread, cur, result,
                     child, published, crashes>>
      /\ faults' = faults + 1 /\ faults < MaxFaults
  BY DEF CallFails, FenceInvariant, memory, threadVars
<1>2. CASE UNCHANGED <<fence, journal>>
  <2>1. TypeOK'
    BY <1>1, <1>2, BudgetAssumption DEF TypeOK
  <2>2. FenceFits'
    BY <1>1, <1>2, IdleStage DEF FenceInvariant, FenceFits, Fits, Retained, With
  <2> QED
    BY <1>1, <1>2, <2>1, <2>2, IdleStage
       DEF FenceInvariant, IdsAreFresh, DrawnIsFresh, LockIsExclusive, ThreadHasJob,
           QueuedHasNoProcess, FenceAdmitsOwner, PublishedIsPast
<1>3. CASE /\ call.stage = "fence"
           /\ fence' = [fence EXCEPT ![call.profile] = call.generation]
           /\ UNCHANGED journal
  <2>1. /\ fence' \in [Profiles -> {NoGeneration} \cup JobIds]
        /\ Fits(jobs, fence') /\ Fits(journal, fence')
        /\ \A p \in Profiles :
              /\ fence'[p] = NoGeneration \/ published[p] <= fence'[p]
              /\ \A i \in JobIds : i >= nextId => fence'[p] # i
    BY <1>3, InstalledFenceFits
  <2>2. TypeOK'
    BY <1>1, <1>3, <2>1, BudgetAssumption DEF TypeOK
  <2>3. FenceFits'
    BY <1>1, <1>3, <2>1, IdleStage DEF FenceFits, Fits, Retained, With
  <2>4. IdsAreFresh' /\ DrawnIsFresh' /\ PublishedIsPast'
    BY <1>1, <1>3, <2>1, IdleStage
       DEF FenceInvariant, IdsAreFresh, DrawnIsFresh, PublishedIsPast
  <2> QED
    BY <1>1, <1>3, <2>2, <2>3, <2>4
       DEF FenceInvariant, LockIsExclusive, ThreadHasJob, QueuedHasNoProcess,
           FenceAdmitsOwner
<1>4. CASE /\ call.stage = "journal"
           /\ journal' = call.jobs
           /\ UNCHANGED fence
  <2>1. TypeOK'
    BY <1>1, <1>4, CallIsRecord, BudgetAssumption DEF TypeOK
  <2>2. FenceFits'
    BY <1>1, <1>4, IdleStage DEF FenceInvariant, FenceFits, Fits, Retained, With
  <2> QED
    BY <1>1, <1>4, <2>1, <2>2, IdleStage
       DEF FenceInvariant, IdsAreFresh, DrawnIsFresh, LockIsExclusive, ThreadHasJob,
           QueuedHasNoProcess, FenceAdmitsOwner, PublishedIsPast
<1>5. QED
  BY <1>2, <1>3, <1>4 DEF CallFails

\* A cancellation prepares a fence that names nobody.
LEMMA CancelPreserves ==
  ASSUME FenceInvariant, NEW i \in JobIds, Cancel(i)
  PROVE  FenceInvariant'
<1> USE MaxJobsAssumption, RequestsAssumption, IdleStage
<1> USE DEF FenceInvariant, TypeOK, IdsAreFresh, DrawnIsFresh, LockIsExclusive,
            ThreadHasJob, QueuedHasNoProcess, FenceAdmitsOwner, PublishedIsPast,
            FenceFits, Fits, Retained, With, JobTables, Statuses, Live, Terminal, Calls,
            JobIds, NoGeneration, FenceFree, Withdrawn, memory, threadVars, budgets
<1> QED  BY DEF Cancel

\* The table of the call becomes the journal and the table in memory.
LEMMA PersistCallPreserves ==
  ASSUME FenceInvariant, PersistCall
  PROVE  FenceInvariant'
<1> USE MaxJobsAssumption, IdleStage, CallIsRecord
<1> USE DEF FenceInvariant, TypeOK, IdsAreFresh, DrawnIsFresh, LockIsExclusive,
            ThreadHasJob, QueuedHasNoProcess, FenceAdmitsOwner, PublishedIsPast,
            FenceFits, Fits, Retained, With, memory, threadVars, budgets
<1> QED  BY DEF PersistCall

-----------------------------------------------------------------------------
(* The remaining actions leave the fence alone, or let one process past it *)

\* The table start() installs: the same jobs, none of them live.
LEMMA RecoveredTable ==
  ASSUME NEW table \in JobTables
  PROVE  /\ Recovered(table) \in JobTables
         /\ \A i \in JobIds :
              /\ Recovered(table)[i] = "absent" <=> table[i] = "absent"
              /\ Recovered(table)[i] \notin Live
         /\ Retained(Recovered(table)) = Retained(table)
BY DEF Recovered, Retained, With, JobTables, Statuses, Live, Terminal

\* The journal start() recovers has the jobs of the old one, none of them live,
\* and fits the same fences.
LEMMA RecoveredJournal ==
  ASSUME FenceInvariant
  PROVE  /\ Recovered(journal) \in JobTables
         /\ \A i \in JobIds :
              /\ journal[i] = "absent" => Recovered(journal)[i] = "absent"
              /\ Recovered(journal)[i] # "queued"
         /\ Fits(Recovered(journal), fence)
<1>1. journal \in JobTables /\ Fits(journal, fence)
  BY DEF FenceInvariant, TypeOK, FenceFits
<1>2. \A i \in JobIds : Recovered(journal)[i] \notin {"queued", "cancelling"}
  BY <1>1, RecoveredTable DEF Live
<1>3. Fits(Recovered(journal), fence)
  BY <1>1, <1>2, RecoveredTable DEF Fits, Retained, With
<1>4. QED
  BY <1>1, <1>2, <1>3, RecoveredTable

\* A recovery makes no id known that was not drawn, and none known that a call
\* is about to install.
LEMMA FreshInJournal ==
  ASSUME FenceInvariant
  PROVE  /\ \A i \in JobIds : i >= nextId => Recovered(journal)[i] = "absent"
         /\ call.stage = "fence" /\ call.generation # NoGeneration =>
              Recovered(journal)[call.generation] = "absent"
<1>1. \A i \in JobIds : journal[i] = "absent" => Recovered(journal)[i] = "absent"
  BY RecoveredJournal
<1>2. call.stage = "fence" /\ call.generation # NoGeneration =>
        call.generation \in JobIds /\ journal[call.generation] = "absent"
  BY CallIsRecord, IdleStage DEF FenceInvariant, DrawnIsFresh
<1>3. QED
  BY <1>1, <1>2 DEF FenceInvariant, IdsAreFresh

\* Starting, stopping and crashing the service.
LEMMA ServicePreserves ==
  ASSUME FenceInvariant, ServiceStep \/ StartFails
  PROVE  FenceInvariant'
<1> USE MaxJobsAssumption, BudgetAssumption, IdleStage
<1> USE DEF FenceInvariant, TypeOK, IdsAreFresh, DrawnIsFresh, LockIsExclusive,
            ThreadHasJob, QueuedHasNoProcess, FenceAdmitsOwner, PublishedIsPast,
            FenceFits, Fits, Retained, With, JobTables, Statuses, Live, Terminal,
            memory, threadVars, budgets
<1>1. CASE Start
  <2>1. FenceFits'
    BY <1>1, RecoveredJournal DEF Start
  <2>2. TypeOK'
    BY <1>1, RecoveredJournal DEF Start
  <2>3. IdsAreFresh'
    BY <1>1, FreshInJournal, RecoveredJournal DEF Start
  <2>4. DrawnIsFresh'
    BY <1>1, FreshInJournal, RecoveredJournal DEF Start
  <2>5. /\ LockIsExclusive' /\ ThreadHasJob' /\ QueuedHasNoProcess'
        /\ FenceAdmitsOwner' /\ PublishedIsPast'
    BY <1>1, RecoveredJournal DEF Start
  <2> QED
    BY <2>1, <2>2, <2>3, <2>4, <2>5
<1>2. CASE Shutdown
  BY <1>2 DEF Shutdown
<1>3. CASE ServiceExit
  BY <1>3 DEF ServiceExit
<1>4. CASE Crash
  BY <1>4 DEF Crash
<1>5. CASE StartFails
  <2>1. FenceFits'
    BY <1>5, RecoveredJournal DEF StartFails
  <2>2. TypeOK'
    BY <1>5, RecoveredJournal DEF StartFails
  <2>3. IdsAreFresh'
    BY <1>5, FreshInJournal, RecoveredJournal DEF StartFails
  <2>4. DrawnIsFresh'
    BY <1>5, FreshInJournal, RecoveredJournal DEF StartFails
  <2>5. /\ LockIsExclusive' /\ ThreadHasJob' /\ QueuedHasNoProcess'
        /\ FenceAdmitsOwner' /\ PublishedIsPast'
    BY <1>5, RecoveredJournal DEF StartFails
  <2> QED
    BY <2>1, <2>2, <2>3, <2>4, <2>5
<1>6. QED
  BY <1>1, <1>2, <1>3, <1>4, <1>5 DEF ServiceStep

\* Every step of a client.
LEMMA ClientPreserves ==
  ASSUME FenceInvariant, ClientStep
  PROVE  FenceInvariant'
<1> USE RequestsAssumption, NoRequestAssumption, MaxJobsAssumption, IdleStage
<1> USE DEF FenceInvariant, TypeOK, IdsAreFresh, DrawnIsFresh, LockIsExclusive,
            ThreadHasJob, QueuedHasNoProcess, FenceAdmitsOwner, PublishedIsPast,
            FenceFits, Fits, Retained, With, memory, threadVars, budgets
<1>1. ASSUME NEW r \in Requests, SubmitArrives(r)
      PROVE  FenceInvariant'
  BY <1>1 DEF SubmitArrives
<1>2. CASE SubmitAdmits
  BY <1>2, SubmitAdmitsPreserves
<1>3. CASE SubmitReturns
  BY <1>3 DEF SubmitReturns
<1>4. ASSUME NEW i \in JobIds, Cancel(i)
      PROVE  FenceInvariant'
  BY <1>4, CancelPreserves
<1>5. QED
  BY <1>1, <1>2, <1>3, <1>4 DEF ClientStep

\* Every step of the worker thread, its failures and progress reports included.
LEMMA ThreadPreserves ==
  ASSUME FenceInvariant, ThreadStep \/ ReportProgress \/ UpdateFails
  PROVE  FenceInvariant'
<1> USE MaxJobsAssumption, BudgetAssumption, IdleStage
<1> USE DEF FenceInvariant, TypeOK, IdsAreFresh, DrawnIsFresh, LockIsExclusive,
            ThreadHasJob, QueuedHasNoProcess, FenceAdmitsOwner, PublishedIsPast,
            FenceFits, Fits, Retained, With, JobTables, Statuses, Live, Terminal,
            ChildStates, Alive, Publishing, MutexFree, memory, threadVars, budgets
<1>1. CASE Pick
  BY <1>1 DEF Pick, NextQueued
<1>2. CASE BeginJob
  BY <1>2 DEF BeginJob, Begun
<1>3. CASE SkipJob
  BY <1>3 DEF SkipJob, Begun
<1>4. CASE LoseJob
  BY <1>4 DEF LoseJob, ThreadDies
<1>5. CASE Reap
  BY <1>5 DEF Reap
<1>6. CASE Abort
  BY <1>6 DEF Abort
<1>7. CASE FinishJob
  BY <1>7 DEF FinishJob, Finished, Outcome
<1>8. CASE ThreadExits
  BY <1>8 DEF ThreadExits
<1>9. CASE ReportProgress
  BY <1>9 DEF ReportProgress
<1>10. CASE UpdateFails
  BY <1>10 DEF UpdateFails, ThreadDies, Begun, Finished, Outcome
<1>11. QED
  BY <1>1, <1>2, <1>3, <1>4, <1>5, <1>6, <1>7, <1>8, <1>9, <1>10 DEF ThreadStep

\* Every step of an index process.
LEMMA ChildPreserves ==
  ASSUME FenceInvariant, NEW i \in JobIds,
         LockIndex(i) \/ EnterFence(i) \/ Publish(i) \/ ChildSucceeds(i) \/ ChildFails(i)
  PROVE  FenceInvariant'
<1> USE MaxJobsAssumption, RequestsAssumption, IdleStage
<1> USE DEF FenceInvariant, TypeOK, IdsAreFresh, DrawnIsFresh, LockIsExclusive,
            ThreadHasJob, QueuedHasNoProcess, FenceAdmitsOwner, PublishedIsPast,
            FenceFits, Fits, Retained, With, ChildStates, Alive, Publishing, FenceFree,
            JobIds, NoGeneration, ChildUnchanged, memory, threadVars, budgets
<1>1. CASE LockIndex(i)
  BY <1>1, SMTT(30) DEF LockIndex
<1>2. CASE EnterFence(i)
  BY <1>2 DEF EnterFence
<1>3. CASE Publish(i)
  BY <1>3 DEF Publish
<1>4. CASE ChildSucceeds(i)
  BY <1>4 DEF ChildSucceeds
<1>5. CASE ChildFails(i)
  BY <1>5 DEF ChildFails
<1>6. QED
  BY <1>1, <1>2, <1>3, <1>4, <1>5

-----------------------------------------------------------------------------
(* The invariant and the theorems *)

\* The invariant holds before the service is first started.
LEMMA FenceInvariantInit == Init => FenceInvariant
<1> SUFFICES ASSUME Init
             PROVE  FenceInvariant
  OBVIOUS
<1> USE MaxJobsAssumption, BudgetAssumption, IdleStage
<1>1. TypeOK
  <2>1. /\ [i \in JobIds |-> "absent"] \in JobTables
        /\ 1 \in 1 .. MaxJobs + 1
        /\ 0 \in 0 .. MaxCrashes /\ 0 \in 0 .. MaxFaults
    BY DEF JobTables, Statuses
  <2> QED
    BY <2>1 DEF Init, TypeOK, ChildStates
<1>2. IdsAreFresh /\ DrawnIsFresh
  BY DEF Init, IdsAreFresh, DrawnIsFresh, JobIds, NoGeneration
<1>3. LockIsExclusive /\ ThreadHasJob /\ QueuedHasNoProcess
  BY DEF Init, LockIsExclusive, ThreadHasJob, QueuedHasNoProcess
<1>4. FenceAdmitsOwner /\ PublishedIsPast
  BY DEF Init, FenceAdmitsOwner, Publishing, PublishedIsPast
<1>5. FenceFits
  BY DEF Init, FenceFits, Fits, Retained, With, Live, Terminal
<1>6. QED
  BY <1>1, <1>2, <1>3, <1>4, <1>5 DEF FenceInvariant

\* Every step preserves the invariant.
LEMMA FenceInvariantStep == FenceInvariant /\ [Next]_vars => FenceInvariant'
<1> SUFFICES ASSUME FenceInvariant, [Next]_vars
             PROVE  FenceInvariant'
  OBVIOUS
<1>1. CASE ServiceStep
  BY <1>1, ServicePreserves
<1>2. CASE ClientStep
  BY <1>2, ClientPreserves
<1>3. CASE CallStep
  BY <1>3, WriteFencePreserves, PersistCallPreserves DEF CallStep
<1>4. CASE ThreadStep \/ ReportProgress
  BY <1>4, ThreadPreserves
<1>5. CASE ChildStep
  BY <1>5, ChildPreserves DEF ChildStep
<1>6. CASE FaultStep
  BY <1>6, ServicePreserves, CallFailsPreserves, ThreadPreserves DEF FaultStep
<1>7. CASE UNCHANGED vars
  BY <1>7 DEF vars, FenceInvariant, TypeOK, IdsAreFresh, DrawnIsFresh, LockIsExclusive,
              ThreadHasJob, QueuedHasNoProcess, FenceAdmitsOwner, PublishedIsPast,
              FenceFits, Fits, Retained, With
<1>8. QED
  BY <1>1, <1>2, <1>3, <1>4, <1>5, <1>6, <1>7 DEF Next

\* The fence invariant holds in every state of every behaviour: with crashes and
\* restarts, failed writes, orphaned processes and any interleaving of callers.
THEOREM FenceInvariantHolds == Spec => []FenceInvariant
<1>1. QED
  BY FenceInvariantInit, FenceInvariantStep, PTL DEF Spec

\* The state of the service, the files and the processes always has its type.
THEOREM TypeCorrect == Spec => []TypeOK
<1>1. FenceInvariant => TypeOK
  BY DEF FenceInvariant
<1>2. QED
  BY FenceInvariantHolds, <1>1, PTL

\* A process inside the catalog commit is the one the fence names.
THEOREM FenceAdmitsOwnerHolds == Spec => []FenceAdmitsOwner
<1>1. FenceInvariant => FenceAdmitsOwner
  BY DEF FenceInvariant
<1>2. QED
  BY FenceInvariantHolds, <1>1, PTL

-----------------------------------------------------------------------------
(* Publication: only Publish moves a head, and the fence decides which job    *)

\* A head moves, or a process commits, only in Publish.
LEMMA OnlyPublishPublishes ==
  ASSUME FenceInvariant, [Next]_vars,
         \/ published' # published
         \/ \E i \in JobIds : child[i] = "guarded" /\ child'[i] = "committed"
  PROVE  \E i \in JobIds : Publish(i)
<1> USE DEF memory, threadVars, budgets
<1>1. CASE ServiceStep
  BY <1>1 DEF ServiceStep, Start, Shutdown, ServiceExit, Crash
<1>2. CASE ClientStep
  BY <1>2 DEF ClientStep, SubmitArrives, SubmitAdmits, SubmitReturns, Cancel
<1>3. CASE CallStep
  BY <1>3 DEF CallStep, WriteFence, PersistCall
<1>4. CASE ThreadStep \/ ReportProgress
  BY <1>4 DEF FenceInvariant, TypeOK, ThreadStep, ReportProgress, Pick, BeginJob, SkipJob,
              LoseJob, Reap, Abort, FinishJob, ThreadExits
<1>5. CASE ChildStep
  BY <1>5 DEF FenceInvariant, TypeOK, ChildStep, ChildUnchanged, LockIndex, EnterFence,
              ChildSucceeds, ChildFails
<1>6. CASE FaultStep
  BY <1>6 DEF FaultStep, StartFails, CallFails, UpdateFails
<1>7. CASE UNCHANGED vars
  BY <1>7 DEF vars
<1>8. QED
  BY <1>1, <1>2, <1>3, <1>4, <1>5, <1>6, <1>7 DEF Next

\* A publication replaces the head of the profile by the generation its fence
\* names, and that generation is newer than the head.
LEMMA PublishAdvances ==
  ASSUME FenceInvariant, NEW i \in JobIds, Publish(i)
  PROVE  /\ request[i].profile \in Profiles
         /\ fence[request[i].profile] = i
         /\ published[request[i].profile] < i
         /\ published' = [published EXCEPT ![request[i].profile] = i]
<1>1. i < nextId /\ request[i].profile \in Profiles
  BY MaxJobsAssumption, RequestsAssumption
     DEF Publish, FenceInvariant, IdsAreFresh, TypeOK, JobIds
<1>2. fence[request[i].profile] = i
  BY DEF Publish, FenceInvariant, FenceAdmitsOwner, Publishing
<1>3. published[request[i].profile] # i
  BY <1>1 DEF Publish, FenceInvariant, PublishedIsPast, JobIds, NoGeneration
<1>4. published[request[i].profile] <= i
  BY <1>1, <1>2 DEF FenceInvariant, PublishedIsPast, JobIds, NoGeneration
<1>5. published[request[i].profile] \in {0} \cup JobIds
  BY <1>1 DEF FenceInvariant, TypeOK, NoGeneration
<1>6. QED
  BY <1>1, <1>2, <1>3, <1>4, <1>5 DEF Publish, JobIds

\* Publications of a profile follow the order of submission: a stale generation
\* never replaces a newer head, whatever failed or was restarted in between.
THEOREM PublicationsAdvanceHolds == Spec => PublicationsAdvance
<1>1. ASSUME FenceInvariant, [Next]_vars, NEW p \in Profiles, published'[p] # published[p]
      PROVE  published'[p] > published[p]
  <2>1. PICK i \in JobIds : Publish(i)
    BY <1>1, OnlyPublishPublishes
  <2>2. published \in [Profiles -> {0} \cup JobIds]
    BY <1>1 DEF FenceInvariant, TypeOK, NoGeneration
  <2>3. published'[p] = i /\ p = request[i].profile
    BY <1>1, <2>1, <2>2, PublishAdvances
  <2> QED
    BY <1>1, <2>1, <2>2, <2>3, PublishAdvances DEF JobIds
<1>2. FenceInvariant /\ [Next]_vars =>
        [\A p \in Profiles : published'[p] # published[p] => published'[p] > published[p]]_vars
  BY <1>1
<1>3. QED
  BY FenceInvariantHolds, <1>2, PTL DEF Spec, PublicationsAdvance

\* A job that was cancelled, superseded or replaced by a newer accepted request
\* never commits afterwards, not even from a process the service lost track of.
THEOREM SupersededNeverPublishesHolds == Spec => SupersededNeverPublishes
<1>1. ASSUME FenceInvariant, [Next]_vars, NEW i \in JobIds,
             child[i] = "guarded", child'[i] = "committed"
      PROVE  /\ jobs[i] # "cancelling" /\ journal[i] # "cancelling"
             /\ \A j \in Retained(jobs) \cup Retained(journal) : SameProfile(i, j) => j <= i
  <2>1. /\ fence[request[i].profile] = i /\ i \in Int /\ i # NoGeneration
    BY <1>1 DEF FenceInvariant, FenceAdmitsOwner, Publishing, JobIds, NoGeneration
  <2>2. jobs[i] # "cancelling" /\ journal[i] # "cancelling"
    BY <1>1, <2>1 DEF FenceInvariant, FenceFits, Fits, Retained, With, Live
  <2>3. ASSUME NEW j \in Retained(jobs) \cup Retained(journal), SameProfile(i, j)
        PROVE  j <= i
    BY <1>1, <2>1, <2>3 DEF FenceInvariant, FenceFits, Fits, SameProfile
  <2> QED
    BY <2>2, <2>3
<1>2. FenceInvariant /\ [Next]_vars =>
        [\A i \in JobIds : child[i] = "guarded" /\ child'[i] = "committed" =>
           /\ jobs[i] # "cancelling" /\ journal[i] # "cancelling"
           /\ \A j \in Retained(jobs) \cup Retained(journal) : SameProfile(i, j) => j <= i]_vars
  BY <1>1
<1>3. QED
  BY FenceInvariantHolds, <1>2, PTL DEF Spec, SupersededNeverPublishes

-----------------------------------------------------------------------------
(* At most one analysis *)

\* LockIndex is the only step that brings a process into the index lease.
LEMMA OneAnalysisStep == FenceInvariant /\ OneAnalysis /\ [Next]_vars => OneAnalysis'
<1> SUFFICES ASSUME FenceInvariant, OneAnalysis, [Next]_vars
             PROVE  OneAnalysis'
  OBVIOUS
<1> USE DEF OneAnalysis, Indexing, memory, threadVars, budgets
<1>1. CASE ServiceStep
  BY <1>1 DEF ServiceStep, Start, Shutdown, ServiceExit, Crash
<1>2. CASE ClientStep
  BY <1>2 DEF ClientStep, SubmitArrives, SubmitAdmits, SubmitReturns, Cancel
<1>3. CASE CallStep
  BY <1>3 DEF CallStep, WriteFence, PersistCall
<1>4. CASE ThreadStep \/ ReportProgress
  BY <1>4 DEF FenceInvariant, TypeOK, ThreadStep, ReportProgress, Pick, BeginJob, SkipJob,
              LoseJob, Reap, Abort, FinishJob, ThreadExits
<1>5. CASE ChildStep
  BY <1>5 DEF FenceInvariant, TypeOK, ChildStep, LockIndex, EnterFence, Publish,
              ChildSucceeds, ChildFails
<1>6. CASE FaultStep
  BY <1>6 DEF FaultStep, StartFails, CallFails, UpdateFails
<1>7. CASE UNCHANGED vars
  BY <1>7 DEF vars
<1>8. QED
  BY <1>1, <1>2, <1>3, <1>4, <1>5, <1>6, <1>7 DEF Next

\* At most one process holds the index lease or the fence, also while a process
\* of a crashed service is still alive next to one of the new service.
THEOREM OneAnalysisHolds == Spec => []OneAnalysis
<1>1. Init => OneAnalysis
  BY DEF Init, OneAnalysis, Indexing
<1>2. QED
  BY FenceInvariantHolds, <1>1, OneAnalysisStep, PTL DEF Spec

-----------------------------------------------------------------------------
(* Refinement *)

\* What the abstract generations are while a call is in progress or none is.
LEMMA DrawnGeneration ==
  ASSUME FenceInvariant, call.stage = "fence"
  PROVE  /\ call # Idle /\ call.profile \in Profiles
         /\ call.generation # NoGeneration => call.generation = nextId - 1
BY CallIsRecord, IdleStage DEF FenceInvariant, DrawnIsFresh

\* Every step of the scheduler is a step of the abstract specification or
\* leaves its variables alone.
LEMMA FencedStep == FenceInvariant /\ [Next]_vars => [Fenced!Next]_(Fenced!vars)
<1> SUFFICES ASSUME FenceInvariant, [Next]_vars
             PROVE  [Fenced!Next]_(Fenced!vars)
  OBVIOUS
<1> USE IdleStage DEF memory, threadVars, budgets
<1>1. CASE UNCHANGED <<nextId, call, fence, published>>
  BY <1>1 DEF Fenced!vars
<1>2. CASE Crash
  BY <1>2 DEF Crash, Fenced!vars, Fenced!Next, Fenced!Discard
<1>3. CASE SubmitAdmits
  <2>1. nextId \in Nat /\ nextId # NoGeneration
    BY MaxJobsAssumption DEF FenceInvariant, TypeOK, NoGeneration
  <2>2. Fenced!Draw
    BY <1>3, <2>1 DEF SubmitAdmits, FenceFree, Fenced!Draw
  <2> QED
    BY <2>2 DEF Fenced!Next
<1>4. ASSUME NEW i \in JobIds, Cancel(i)
      PROVE  [Fenced!Next]_(Fenced!vars)
  BY <1>4 DEF Cancel, FenceFree, Fenced!vars
<1>5. CASE WriteFence \/ CallFails
  <2>1. /\ UNCHANGED <<nextId, published>>
        /\ call'.stage # "fence"
    BY <1>5, CallIsRecord DEF WriteFence, CallFails, FenceInvariant
  <2>2. CASE fence' = fence
    BY <2>1, <2>2 DEF Fenced!vars, Fenced!Next, Fenced!Discard
  <2>3. CASE /\ call.stage = "fence"
             /\ fence' = [fence EXCEPT ![call.profile] = call.generation]
    <3>1. CASE call.generation = NoGeneration
      <4>1. Fenced!Withdraw(call.profile)
        BY <2>1, <2>3, <3>1 DEF Fenced!Withdraw, Fenced!None, NoGeneration
      <4> QED
        BY <4>1, <2>3, DrawnGeneration DEF Fenced!Next
    <3>2. CASE call.generation # NoGeneration
      <4>1. Fenced!Install(call.profile)
        BY <2>1, <2>3, <3>2, DrawnGeneration DEF Fenced!Install
      <4> QED
        BY <4>1, <2>3, DrawnGeneration DEF Fenced!Next
    <3> QED  BY <3>1, <3>2
  <2> QED
    BY <1>5, <2>2, <2>3 DEF WriteFence, CallFails
<1>6. CASE PersistCall
  BY <1>6 DEF PersistCall, Fenced!vars
<1>7. ASSUME NEW i \in JobIds, Publish(i)
      PROVE  [Fenced!Next]_(Fenced!vars)
  <2>1. /\ request[i].profile \in Profiles
        /\ fence[request[i].profile] = i
        /\ published[request[i].profile] # i /\ i # 0
        /\ published' = [published EXCEPT ![request[i].profile] = i]
    BY <1>7, PublishAdvances DEF JobIds, FenceInvariant, TypeOK, NoGeneration
  <2>2. Fenced!Publish(request[i].profile)
    BY <1>7, <2>1 DEF Publish, ChildUnchanged, Fenced!Publish, Fenced!None
  <2> QED
    BY <2>1, <2>2 DEF Fenced!Next
<1>8. CASE Start \/ Shutdown \/ ServiceExit \/ StartFails \/ UpdateFails
  BY <1>8, <1>1 DEF Start, Shutdown, ServiceExit, StartFails, UpdateFails
<1>9. CASE ThreadStep \/ ReportProgress
  BY <1>9, <1>1 DEF ThreadStep, ReportProgress, Pick, BeginJob, SkipJob, LoseJob, Reap,
                    Abort, FinishJob, ThreadExits
<1>10. CASE SubmitReturns \/ \E r \in Requests : SubmitArrives(r)
  BY <1>10, <1>1 DEF SubmitReturns, SubmitArrives
<1>11. ASSUME NEW i \in JobIds,
              LockIndex(i) \/ EnterFence(i) \/ ChildSucceeds(i) \/ ChildFails(i)
       PROVE  [Fenced!Next]_(Fenced!vars)
  BY <1>11, <1>1 DEF LockIndex, EnterFence, ChildSucceeds, ChildFails, ChildUnchanged
<1>12. CASE UNCHANGED vars
  BY <1>12, <1>1 DEF vars
<1>13. QED
  BY <1>2, <1>3, <1>4, <1>5, <1>6, <1>7, <1>8, <1>9, <1>10, <1>11, <1>12
     DEF Next, ServiceStep, ClientStep, CallStep, ChildStep, FaultStep

\* The scheduler, its fence files and its processes implement FencedPublication:
\* only the eligible generation is published, at most once, and a generation that
\* was withdrawn or replaced never becomes eligible again.
THEOREM ImplementsFencedPublication == Spec => FencedPublicationSpec
<1>1. Init => Fenced!Init
  BY IdleStage DEF Init, Fenced!Init, Fenced!None, NoGeneration
<1>2. QED
  BY FenceInvariantHolds, <1>1, FencedStep, PTL DEF Spec, FencedPublicationSpec, Fenced!Spec

-----------------------------------------------------------------------------
(* Counting *)

\* The n oldest of at least n jobs are n.
LEMMA OldestCount ==
  ASSUME NEW S \in SUBSET Int, IsFiniteSet(S), NEW n \in Nat, n <= Cardinality(S)
  PROVE  Cardinality(Oldest(S, n)) = n
<1> DEFINE itself == [i \in S |-> i]
<1>1. itself \in [S -> Int] /\ \A x, y \in S : itself[x] = itself[y] => x = y
  OBVIOUS
<1>2. Cardinality(Lowest(S, itself, n)) = n
  BY <1>1, LowestCount
<1>3. ASSUME NEW i \in S
      PROVE  {j \in S : itself[j] < itself[i]} = {j \in S : j < i}
  OBVIOUS
<1>4. Oldest(S, n) = Lowest(S, itself, n)
  BY <1>3 DEF Oldest, Lowest
<1>5. QED
  BY <1>2, <1>4

\* A table has finitely many jobs, and a part of them is no more than the whole.
LEMMA TableIsFinite ==
  ASSUME NEW S \in SUBSET JobIds
  PROVE  /\ IsFiniteSet(S) /\ Cardinality(S) \in Nat
         /\ \A T \in SUBSET S : IsFiniteSet(T) /\ Cardinality(T) <= Cardinality(S)
<1>1. IsFiniteSet(JobIds)
  BY MaxJobsAssumption, FS_Interval DEF JobIds
<1>2. IsFiniteSet(S)
  BY <1>1, FS_Subset
<1>3. QED
  BY <1>2, FS_Subset, FS_CardinalityType

\* Eviction makes room for one job, whenever the history has it.
LEMMA EvictedHasRoom ==
  ASSUME NEW table \in JobTables, HasRoom(table)
  PROVE  Cardinality(Retained(Evicted(table))) + 1 <= MaxHistory
<1> DEFINE R == Retained(table)
           T == With(table, Terminal)
           e == Excess(table)
           O == Oldest(T, e)
<1>1. /\ R \in SUBSET JobIds /\ T \in SUBSET R
      /\ T \in SUBSET Int
  BY DEF Retained, With, JobIds
<1>2. /\ IsFiniteSet(R) /\ Cardinality(R) \in Nat
      /\ IsFiniteSet(T) /\ Cardinality(T) \in Nat
  BY <1>1, TableIsFinite
<1>3. e = Cardinality(R) + 1 - MaxHistory /\ e <= Cardinality(T) /\ e \in Int
  BY <1>2, LimitsAssumption DEF Excess, HasRoom
<1>4. O \in SUBSET T
  BY DEF Oldest
<1>5. Retained(Evicted(table)) = R \ O
  BY DEF Evicted, Retained, With, JobTables, Statuses, Live, Terminal
<1>6. IsFiniteSet(R \ O) /\ Cardinality(R \ O) \in Nat /\ Cardinality(R \ O) <= Cardinality(R)
  BY <1>1, <1>2, TableIsFinite, FS_Subset, FS_CardinalityType
<1> HIDE DEF R, T, e, O
<1>7. CASE e <= 0
  BY <1>2, <1>3, <1>5, <1>6, <1>7, LimitsAssumption
<1>8. CASE e > 0
  <2>1. Cardinality(O) = e
    BY <1>1, <1>2, <1>3, <1>8, OldestCount DEF O
  <2>2. R \cap O = O
    BY <1>1, <1>4
  <2>3. Cardinality(R \ O) = Cardinality(R) - e
    BY <1>2, <2>1, <2>2, FS_Difference
  <2> QED
    BY <1>2, <1>3, <1>5, <2>3, LimitsAssumption
<1>9. QED
  BY <1>3, <1>7, <1>8

-----------------------------------------------------------------------------
(* The order of the queue *)

\* What a submit makes of the other jobs: it revises no outcome, starts nothing
\* and leaves nothing of its profile queued or running.
LEMMA AdmittedFollows ==
  ASSUME TypeOK, NEW r \in Requests, NEW id \in JobIds, NEW i \in JobIds, i # id
  PROVE  LET new == Admitted(r, id)[i] IN
         /\ jobs[i] \in Terminal => new \in {jobs[i], "absent"}
         /\ new = "running" => jobs[i] = "running"
         /\ new = "cancelling" => jobs[i] \in {"running", "cancelling"}
         /\ new = "queued" => jobs[i] = "queued"
         /\ new \in {"queued", "running"} => i \notin OfProfile(r.profile)
<1> DEFINE S == Superseded(r.profile)
<1> USE DEF JobTables, Statuses, Live, Terminal
<1>1. /\ S \in JobTables
      /\ jobs[i] \in Terminal => S[i] = jobs[i]
      /\ S[i] = "running" => jobs[i] = "running"
      /\ S[i] = "cancelling" => jobs[i] \in {"running", "cancelling"}
      /\ S[i] = "queued" => jobs[i] = "queued"
      /\ S[i] \in {"queued", "running"} => i \notin OfProfile(r.profile)
  BY DEF TypeOK, Superseded, Withdrawn
<1>2. \/ Evicted(S)[i] = S[i]
      \/ Evicted(S)[i] = "absent"
  <2> HIDE DEF S
  <2> QED  BY <1>1 DEF Evicted
<1>3. Admitted(r, id)[i] = Evicted(S)[i]
  <2> HIDE DEF S
  <2> QED  BY <1>1 DEF Admitted, S, Evicted
<1> HIDE DEF S
<1>4. QED
  BY <1>1, <1>2, <1>3

\* The thread's steps, its failures and progress reports included.
LEMMA ThreadKeepsOrder ==
  ASSUME QueueInvariant, ThreadStep \/ ReportProgress \/ UpdateFails
  PROVE  QueueOrder'
<1> USE MaxJobsAssumption, RequestsAssumption
<1> USE DEF QueueInvariant, FenceInvariant, TypeOK, IdsAreFresh, ThreadHasJob, QueueOrder,
            CallsAreServed, CallFollows, JournalKeepsOutcomes, PickIsFirst,
            RunningIsSupervised, Supervised, OneActivePerProfile, OneActive, SameProfile,
            With, Before, JobTables, Statuses, Live, Terminal, MutexFree, JobIds,
            memory, threadVars, budgets
<1>1. CASE Pick
  BY <1>1 DEF Pick, NextQueued
<1>2. CASE BeginJob
  BY <1>2 DEF BeginJob, Begun
<1>3. CASE SkipJob
  BY <1>3 DEF SkipJob, Begun
<1>4. CASE LoseJob
  BY <1>4 DEF LoseJob, ThreadDies
<1>5. CASE Reap
  BY <1>5 DEF Reap
<1>6. CASE Abort
  BY <1>6 DEF Abort
<1>7. CASE FinishJob
  BY <1>7 DEF FinishJob, Finished, Outcome
<1>8. CASE ThreadExits
  BY <1>8 DEF ThreadExits
<1>9. CASE ReportProgress
  BY <1>9 DEF ReportProgress
<1>10. CASE UpdateFails
  <2>1. /\ thread' = "dead" /\ stop' = TRUE /\ cur' = 0
        /\ UNCHANGED <<service, jobs, request, nextId, waiting, call>>
        /\ call = Idle
    BY <1>10 DEF UpdateFails, ThreadDies
  <2>2. JournalKeepsOutcomes'
    BY <1>10, <2>1 DEF UpdateFails, Begun, Finished, Outcome
  <2>3. OneActivePerProfile'
    BY <1>10, <2>1 DEF UpdateFails, Begun, Finished, Outcome
  <2> QED  BY <2>1, <2>2, <2>3
<1>11. QED
  BY <1>1, <1>2, <1>3, <1>4, <1>5, <1>6, <1>7, <1>8, <1>9, <1>10 DEF ThreadStep

\* Starting, stopping and crashing the service.
LEMMA ServiceKeepsOrder ==
  ASSUME QueueInvariant, ServiceStep \/ StartFails
  PROVE  QueueOrder'
<1> USE DEF QueueInvariant, FenceInvariant, TypeOK, QueueOrder,
            CallsAreServed, CallFollows, JournalKeepsOutcomes, PickIsFirst,
            RunningIsSupervised, Supervised, OneActivePerProfile, OneActive, SameProfile,
            With, Before, JobTables, Statuses, Live, Terminal, memory, threadVars, budgets
<1>1. CASE Start
  BY <1>1 DEF Start, Recovered
<1>2. CASE Shutdown
  BY <1>2 DEF Shutdown
<1>3. CASE ServiceExit
  BY <1>3 DEF ServiceExit
<1>4. CASE Crash
  BY <1>4 DEF Crash
<1>5. CASE StartFails
  BY <1>5 DEF StartFails, Recovered
<1>6. QED
  BY <1>1, <1>2, <1>3, <1>4, <1>5 DEF ServiceStep

\* The steps of a call, its failures included, and the processes.
LEMMA CallKeepsOrder ==
  ASSUME QueueInvariant, CallStep \/ CallFails \/ ChildStep
  PROVE  QueueOrder'
<1> USE CallIsRecord, IdleStage, MaxJobsAssumption
<1> USE DEF QueueInvariant, FenceInvariant, TypeOK, IdsAreFresh, QueueOrder,
            CallsAreServed, CallFollows, JournalKeepsOutcomes, PickIsFirst,
            RunningIsSupervised, Supervised, OneActivePerProfile, OneActive, SameProfile,
            With, Before, JobTables, Statuses, Live, Terminal, memory, threadVars, budgets
<1>1. CASE WriteFence
  BY <1>1 DEF WriteFence
<1>2. CASE PersistCall
  <2>1. /\ call # Idle /\ call.jobs \in JobTables
        /\ jobs' = call.jobs /\ journal' = call.jobs /\ call' = Idle
        /\ UNCHANGED <<service, stop, request, nextId, waiting, thread, cur>>
    BY <1>2 DEF PersistCall
  <2>2. CallsAreServed' /\ CallFollows' /\ JournalKeepsOutcomes'
    BY <2>1
  <2>3. PickIsFirst'
    BY <2>1 DEF ThreadHasJob, NoGeneration, JobIds
  <2>4. RunningIsSupervised'
    BY <2>1
  <2>5. OneActivePerProfile'
    BY <2>1
  <2> QED  BY <2>1, <2>2, <2>3, <2>4, <2>5
<1>3. CASE CallFails
  BY <1>3 DEF CallFails
<1>4. CASE ChildStep
  BY <1>4 DEF ChildStep, LockIndex, EnterFence, Publish, ChildSucceeds, ChildFails,
              ChildUnchanged
<1>5. QED
  BY <1>1, <1>2, <1>3, <1>4 DEF CallStep

\* Computing the table of a submit.
LEMMA SubmitAdmitsKeepsOrder ==
  ASSUME QueueInvariant, SubmitAdmits
  PROVE  QueueOrder'
<1> USE MaxJobsAssumption, RequestsAssumption
<1> DEFINE T == Admitted(waiting, nextId)
<1>1. /\ waiting \in Requests /\ nextId \in JobIds /\ call = Idle /\ TypeOK
      /\ jobs[nextId] = "absent" /\ journal[nextId] = "absent"
      /\ \A i \in JobIds : i < nextId => request[i] \in Requests
      /\ \A i \in JobIds : i >= nextId => jobs[i] = "absent" /\ journal[i] = "absent"
  <2>1. waiting \in Requests /\ nextId \in JobIds /\ nextId >= nextId /\ call = Idle /\ TypeOK
    BY DEF SubmitAdmits, QueueInvariant, FenceInvariant, TypeOK, FenceFree, JobIds
  <2> QED
    BY <2>1 DEF QueueInvariant, FenceInvariant, IdsAreFresh
<1>2. /\ T \in JobTables /\ T[nextId] = "queued"
      /\ \A i \in JobIds : i # nextId =>
           /\ jobs[i] \in Terminal => T[i] \in {jobs[i], "absent"}
           /\ T[i] = "running" => jobs[i] = "running"
           /\ T[i] = "cancelling" => jobs[i] \in {"running", "cancelling"}
           /\ T[i] = "queued" => jobs[i] = "queued"
           /\ T[i] \in {"queued", "running"} => i \notin OfProfile(waiting.profile)
  BY <1>1, AdmittedTable, AdmittedFollows
<1> HIDE DEF T
<1>3. /\ call' # Idle /\ call'.jobs = T /\ call'.generation = nextId
      /\ request' = [request EXCEPT ![nextId] = waiting]
      /\ nextId' = nextId + 1 /\ waiting' = NoRequest
      /\ UNCHANGED <<service, stop, jobs, journal, thread, cur>>
      /\ waiting # NoRequest
  BY DEF SubmitAdmits, T, threadVars, Idle
<1>4. /\ request'[nextId] = waiting
      /\ \A i \in JobIds : i # nextId => request'[i] = request[i]
  BY <1>1, <1>3 DEF TypeOK
<1>5. CallsAreServed'
  BY <1>3 DEF QueueInvariant, QueueOrder, CallsAreServed
<1>6. CallFollows'
  <2>1. jobs[nextId] \notin Terminal
    BY <1>1 DEF Terminal
  <2>2. \A i \in JobIds :
         /\ jobs[i] \in Terminal => T[i] \in {jobs[i], "absent"}
         /\ T[i] = "running" => jobs[i] = "running"
         /\ T[i] = "cancelling" => jobs[i] \in {"running", "cancelling"}
         /\ T[i] = "queued" => jobs[i] = "queued" \/ i = nextId
    BY <1>2, <2>1
  <2>3. call'.generation = nextId' - 1
    BY <1>1, <1>3 DEF JobIds
  <2>4. jobs'[call'.generation] = "absent"
    BY <1>1, <1>3
  <2> QED
    BY <1>3, <2>2, <2>3, <2>4 DEF CallFollows
<1>7. JournalKeepsOutcomes' /\ RunningIsSupervised'
  BY <1>3 DEF QueueInvariant, QueueOrder, JournalKeepsOutcomes, RunningIsSupervised,
              Supervised, With
<1>8. PickIsFirst'
  <2>1. \A i \in With(jobs, {"queued"}) : request'[i] = request[i]
    BY <1>1, <1>4 DEF With
  <2> QED
    BY <1>1, <1>3, <1>4, <2>1
       DEF QueueInvariant, QueueOrder, FenceInvariant, ThreadHasJob, PickIsFirst, With, JobIds
<1>9. \A i, j \in JobIds : i # nextId /\ j # nextId =>
        (SameProfile(i, j)' <=> SameProfile(i, j))
  BY <1>4 DEF SameProfile
<1>10. OneActivePerProfile'
  BY <1>1, <1>3, <1>9
     DEF QueueInvariant, QueueOrder, OneActivePerProfile, OneActive, With
<1>11. OneActive(call.jobs)'
  <2>1. SUFFICES ASSUME NEW i \in With(T, {"queued", "running"}),
                        NEW j \in With(T, {"queued", "running"}), SameProfile(i, j)', i # j
                 PROVE  FALSE
    BY <1>3 DEF OneActive, With
  <2>2. \A k \in With(T, {"queued", "running"}) : k # nextId =>
          k \in With(jobs, {"queued", "running"}) /\ k \notin OfProfile(waiting.profile)
    BY <1>2 DEF With
  <2>3. CASE i = nextId \/ j = nextId
    BY <1>4, <2>1, <2>2, <2>3 DEF SameProfile, OfProfile, With
  <2>4. CASE i # nextId /\ j # nextId
    BY <1>9, <2>1, <2>2, <2>4
       DEF QueueInvariant, QueueOrder, OneActivePerProfile, OneActive, With
  <2> QED  BY <2>3, <2>4
<1>12. QED
  BY <1>5, <1>6, <1>7, <1>8, <1>10, <1>11 DEF QueueOrder

\* Every step of a client.
LEMMA ClientKeepsOrder ==
  ASSUME QueueInvariant, ClientStep
  PROVE  QueueOrder'
<1> USE MaxJobsAssumption, RequestsAssumption, NoRequestAssumption, IdleStage
<1> USE DEF QueueInvariant, FenceInvariant, TypeOK, IdsAreFresh, QueueOrder,
            CallsAreServed, CallFollows, JournalKeepsOutcomes, PickIsFirst,
            RunningIsSupervised, Supervised, OneActivePerProfile, OneActive, SameProfile,
            With, JobTables, Statuses, Live, Terminal, memory, threadVars, budgets
<1>1. ASSUME NEW r \in Requests, SubmitArrives(r)
      PROVE  QueueOrder'
  BY <1>1 DEF SubmitArrives
<1>2. CASE SubmitAdmits
  BY <1>2, SubmitAdmitsKeepsOrder
<1>3. CASE SubmitReturns
  BY <1>3 DEF SubmitReturns
<1>4. ASSUME NEW i \in JobIds, Cancel(i)
      PROVE  QueueOrder'
  BY <1>4 DEF Cancel, Withdrawn, FenceFree
<1>5. QED
  BY <1>1, <1>2, <1>3, <1>4 DEF ClientStep

\* Every step keeps the order of the queue.
LEMMA QueueOrderStep == QueueInvariant /\ [Next]_vars => QueueOrder'
<1> SUFFICES ASSUME QueueInvariant, [Next]_vars
             PROVE  QueueOrder'
  OBVIOUS
<1>1. CASE ServiceStep \/ StartFails
  BY <1>1, ServiceKeepsOrder
<1>2. CASE ClientStep
  BY <1>2, ClientKeepsOrder
<1>3. CASE ThreadStep \/ ReportProgress \/ UpdateFails
  BY <1>3, ThreadKeepsOrder
<1>4. CASE CallStep \/ CallFails \/ ChildStep
  BY <1>4, CallKeepsOrder
<1>5. CASE UNCHANGED vars
  BY <1>5 DEF vars, QueueInvariant, QueueOrder, CallsAreServed, CallFollows,
              JournalKeepsOutcomes, PickIsFirst, RunningIsSupervised, Supervised,
              OneActivePerProfile, OneActive, SameProfile, With
<1>6. QED
  BY <1>1, <1>2, <1>3, <1>4, <1>5 DEF Next, FaultStep

-----------------------------------------------------------------------------
(* The limits of the queue and of the history *)

\* A table whose queue and history are parts of another's keeps its limits.
LEMMA PartWithinLimits ==
  ASSUME NEW table, NEW part, WithinLimits(table),
         With(part, {"queued"}) \subseteq With(table, {"queued"}),
         Retained(part) \subseteq Retained(table)
  PROVE  WithinLimits(part)
<1>1. With(table, {"queued"}) \in SUBSET JobIds /\ Retained(table) \in SUBSET JobIds
  BY DEF With, Retained
<1>2. /\ Cardinality(With(part, {"queued"})) <= Cardinality(With(table, {"queued"}))
      /\ Cardinality(Retained(part)) <= Cardinality(Retained(table))
      /\ Cardinality(With(table, {"queued"})) \in Nat /\ Cardinality(Retained(table)) \in Nat
  BY <1>1, TableIsFinite
<1>3. /\ Cardinality(With(part, {"queued"})) \in Nat /\ Cardinality(Retained(part)) \in Nat
  BY TableIsFinite DEF With, Retained
<1>4. QED
  BY <1>2, <1>3, LimitsAssumption DEF WithinLimits

\* A table with one job more than a part of a table that has room for it.
LEMMA OneMoreFits ==
  ASSUME NEW S \in SUBSET JobIds, NEW T \in SUBSET JobIds, NEW id \in JobIds,
         T \subseteq S \cup {id}, NEW limit \in Nat, Cardinality(S) + 1 <= limit
  PROVE  Cardinality(T) <= limit
<1>1. IsFiniteSet(S) /\ Cardinality(S) \in Nat
  BY TableIsFinite
<1>2. Cardinality(S \cup {id}) <= Cardinality(S) + 1
  BY <1>1, FS_AddElement
<1>3. /\ Cardinality(T) <= Cardinality(S \cup {id}) /\ Cardinality(T) \in Nat
      /\ Cardinality(S \cup {id}) \in Nat
  BY TableIsFinite
<1>4. QED
  BY <1>1, <1>2, <1>3

\* The queue and the history have room for an admissible request.
LEMMA AdmittedWithinLimits ==
  ASSUME TypeOK, NEW r \in Requests, Admissible(r), NEW id \in JobIds
  PROVE  WithinLimits(Admitted(r, id))
<1> DEFINE S == Superseded(r.profile)
           T == Admitted(r, id)
<1>1. S \in JobTables
  BY DEF TypeOK, Superseded, Withdrawn, JobTables, Statuses, Live, Terminal
<1>2. Evicted(S) \in JobTables
  <2> HIDE DEF S
  <2> QED  BY <1>1 DEF Evicted, JobTables, Statuses
<1>3. /\ Cardinality(QueuedElsewhere(r.profile)) + 1 <= MaxQueued
      /\ HasRoom(S)
  <2>1. Cardinality(QueuedElsewhere(r.profile)) \in Nat
    BY TableIsFinite DEF QueuedElsewhere, With
  <2> QED  BY <2>1, LimitsAssumption DEF Admissible
<1>4. T = [Evicted(S) EXCEPT ![id] = "queued"]
  BY DEF Admitted
<1>5. With(T, {"queued"}) \subseteq QueuedElsewhere(r.profile) \cup {id}
  BY AdmittedFollows, LimitsAssumption DEF With, QueuedElsewhere, OfProfile
<1> HIDE DEF S, T
<1>6. Retained(T) \subseteq Retained(Evicted(S)) \cup {id}
  BY <1>2, <1>4 DEF Retained, With, JobTables
<1>7. Cardinality(Retained(Evicted(S))) + 1 <= MaxHistory
  BY <1>1, <1>3, EvictedHasRoom
<1>8. /\ QueuedElsewhere(r.profile) \in SUBSET JobIds
      /\ With(T, {"queued"}) \in SUBSET JobIds
      /\ Retained(Evicted(S)) \in SUBSET JobIds /\ Retained(T) \in SUBSET JobIds
      /\ MaxQueued \in Nat /\ MaxHistory \in Nat
  BY LimitsAssumption DEF QueuedElsewhere, With, Retained
<1>9. Cardinality(With(T, {"queued"})) <= MaxQueued
  BY <1>3, <1>5, <1>8, OneMoreFits
<1>10. Cardinality(Retained(T)) <= MaxHistory
  BY <1>6, <1>7, <1>8, OneMoreFits
<1>11. QED
  BY <1>9, <1>10 DEF WithinLimits, T

\* The tables the thread, a recovery or a cancellation writes keep the limits.
LEMMA ThreadTablesWithinLimits ==
  ASSUME QueueInvariant
  PROVE  /\ thread = "picked" => WithinLimits(Begun)
         /\ thread = "closing" => WithinLimits(Finished)
         /\ WithinLimits(Recovered(journal))
         /\ \A i \in JobIds : jobs[i] \in {"queued", "running"} =>
              WithinLimits([jobs EXCEPT ![i] = Withdrawn(jobs[i])])
<1>1. jobs \in JobTables /\ journal \in JobTables /\ WithinLimits(jobs)
  BY DEF QueueInvariant, QueueLimits, FenceInvariant, TypeOK
<1>2. ASSUME thread = "picked"
      PROVE  WithinLimits(Begun)
  <2>1. /\ With(Begun, {"queued"}) \subseteq With(jobs, {"queued"})
        /\ Retained(Begun) \subseteq Retained(jobs)
    BY <1>1, <1>2 DEF Begun, With, Retained, Live, JobTables
  <2> QED  BY <1>1, <2>1, PartWithinLimits
<1>3. ASSUME thread = "closing"
      PROVE  WithinLimits(Finished)
  <2>1. cur \in JobIds /\ jobs[cur] \in {"running", "cancelling"}
    BY <1>3 DEF QueueInvariant, FenceInvariant, ThreadHasJob
  <2>2. /\ With(Finished, {"queued"}) \subseteq With(jobs, {"queued"})
        /\ Retained(Finished) \subseteq Retained(jobs)
    BY <1>1, <2>1 DEF Finished, Outcome, With, Retained, Live, JobTables
  <2> QED  BY <1>1, <2>2, PartWithinLimits
<1>4. WithinLimits(Recovered(journal))
  <2>1. Retained(Recovered(journal)) = Retained(journal)
    BY <1>1, RecoveredTable
  <2>2. With(Recovered(journal), {"queued"}) = {}
    BY <1>1, RecoveredTable DEF With, Live
  <2> QED
    BY <2>1, <2>2, FS_EmptySet, LimitsAssumption DEF QueueInvariant, QueueLimits, WithinLimits
<1>5. ASSUME NEW i \in JobIds, jobs[i] \in {"queued", "running"}
      PROVE  WithinLimits([jobs EXCEPT ![i] = Withdrawn(jobs[i])])
  <2> DEFINE T == [jobs EXCEPT ![i] = Withdrawn(jobs[i])]
  <2>1. /\ With(T, {"queued"}) \subseteq With(jobs, {"queued"})
        /\ Retained(T) \subseteq Retained(jobs)
    BY <1>1, <1>5 DEF Withdrawn, With, Retained, Live, JobTables
  <2> HIDE DEF T
  <2>2. WithinLimits(T)
    BY <1>1, <2>1, PartWithinLimits
  <2> QED  BY <2>2 DEF T
<1>6. QED
  BY <1>2, <1>3, <1>4, <1>5

\* Every step keeps the limits.
LEMMA QueueLimitsStep == QueueInvariant /\ [Next]_vars => QueueLimits'
<1> SUFFICES ASSUME QueueInvariant, [Next]_vars
             PROVE  QueueLimits'
  OBVIOUS
<1> DEFINE Fewer(table) == Cardinality(Retained(table)) <= MaxHistory
<1>1. /\ WithinLimits(jobs) /\ Fewer(journal) /\ TypeOK
      /\ call # Idle => WithinLimits(call.jobs)
      /\ \A table : WithinLimits(table) => Fewer(table)
  BY DEF QueueInvariant, QueueLimits, WithinLimits, FenceInvariant
<1>2. SUFFICES /\ WithinLimits(jobs') /\ Fewer(journal')
               /\ call' # Idle => WithinLimits(call'.jobs)
  BY DEF QueueLimits, WithinLimits, Retained, With
<1> HIDE DEF Fewer
<1> USE <1>1, ThreadTablesWithinLimits, CallIsRecord, IdleStage
<1> USE DEF MutexFree, memory, threadVars, budgets
<1>3. CASE ServiceStep \/ StartFails
  BY <1>3 DEF ServiceStep, Start, Shutdown, ServiceExit, Crash, StartFails
<1>4. CASE SubmitAdmits
  <2>1. /\ waiting \in Requests /\ nextId \in JobIds /\ Admissible(waiting)
        /\ call'.jobs = Admitted(waiting, nextId)
        /\ UNCHANGED <<jobs, journal>>
    BY <1>4, MaxJobsAssumption DEF SubmitAdmits, TypeOK, JobIds
  <2> QED
    BY <2>1, AdmittedWithinLimits
<1>5. ASSUME NEW i \in JobIds, Cancel(i)
      PROVE  /\ WithinLimits(jobs') /\ Fewer(journal')
             /\ call' # Idle => WithinLimits(call'.jobs)
  BY <1>5 DEF Cancel
<1>6. CASE SubmitReturns \/ \E r \in Requests : SubmitArrives(r)
  BY <1>6 DEF SubmitReturns, SubmitArrives
<1>7. CASE CallStep \/ CallFails
  BY <1>7 DEF CallStep, WriteFence, PersistCall, CallFails
<1>8. CASE ThreadStep \/ ReportProgress
  BY <1>8 DEF ThreadStep, ReportProgress, Pick, BeginJob, SkipJob, LoseJob, Reap, Abort,
              FinishJob, ThreadExits
<1>9. CASE UpdateFails
  BY <1>9 DEF UpdateFails
<1>10. CASE ChildStep
  BY <1>10 DEF ChildStep, LockIndex, EnterFence, Publish, ChildSucceeds, ChildFails,
               ChildUnchanged
<1>11. CASE UNCHANGED vars
  BY <1>11 DEF vars
<1>12. QED
  BY <1>3, <1>4, <1>5, <1>6, <1>7, <1>8, <1>9, <1>10, <1>11 DEF Next, ClientStep, FaultStep

-----------------------------------------------------------------------------
(* The invariant and the theorems *)

\* The invariant holds before the service is first started.
LEMMA QueueInvariantInit == Init => QueueInvariant
<1> SUFFICES ASSUME Init
             PROVE  QueueInvariant
  OBVIOUS
<1>1. FenceInvariant
  BY FenceInvariantInit
<1>2. QueueOrder
  BY IdleStage
     DEF Init, QueueOrder, CallsAreServed, CallFollows, JournalKeepsOutcomes, PickIsFirst,
         RunningIsSupervised, OneActivePerProfile, OneActive, With, Terminal
<1>3. QueueLimits
  <2>1. With(jobs, {"queued"}) = {} /\ Retained(jobs) = {} /\ Retained(journal) = {}
    BY DEF Init, With, Retained, Live, Terminal
  <2> QED
    BY <2>1, FS_EmptySet, LimitsAssumption DEF Init, QueueLimits, WithinLimits
<1>4. QED
  BY <1>1, <1>2, <1>3 DEF QueueInvariant

\* The invariant of the queue holds in every state of every behaviour: whatever
\* crashes, write failures and interleavings of callers, thread and processes.
THEOREM QueueInvariantHolds == Spec => []QueueInvariant
<1>1. QueueInvariant /\ [Next]_vars => QueueInvariant'
  BY FenceInvariantStep, QueueOrderStep, QueueLimitsStep DEF QueueInvariant
<1>2. QED
  BY QueueInvariantInit, <1>1, PTL DEF Spec

\* A job marked running or cancelling is the one the thread works on, so that its
\* outcome will be recorded, unless the thread ended.
THEOREM RunningIsSupervisedHolds == Spec => []RunningIsSupervised
<1>1. QueueInvariant => RunningIsSupervised
  BY DEF QueueInvariant, QueueOrder
<1>2. QED
  BY QueueInvariantHolds, <1>1, PTL

\* At most one job of a profile is queued or running, in memory and on disk.
THEOREM OneActivePerProfileHolds == Spec => []OneActivePerProfile
<1>1. QueueInvariant => OneActivePerProfile
  BY DEF QueueInvariant, QueueOrder
<1>2. QED
  BY QueueInvariantHolds, <1>1, PTL

\* What a submit would withdraw, move or leave is made of the queue elsewhere and
\* the one job the thread works on, so the rest of the history is terminal.
LEMMA RoomForAdmissible ==
  ASSUME QueueInvariant, service = "up", ~stop, NEW p \in Profiles,
         Cardinality(QueuedElsewhere(p)) < MaxQueued
  PROVE  HasRoom(Superseded(p))
<1> DEFINE S == Superseded(p)
           R == Retained(S)
           T == With(S, Terminal)
           Q == QueuedElsewhere(p)
<1>1. jobs \in JobTables /\ WithinLimits(jobs) /\ Supervised(jobs) /\ cur \in {0} \cup JobIds
  BY DEF QueueInvariant, QueueOrder, QueueLimits, CallsAreServed, RunningIsSupervised,
         FenceInvariant, TypeOK
<1>2. R \ T \subseteq Q \cup {cur}
  BY <1>1 DEF Superseded, Withdrawn, Retained, With, QueuedElsewhere, Supervised,
              JobTables, Statuses, Live, Terminal
<1>3. T \subseteq R /\ R \in SUBSET JobIds /\ T \in SUBSET JobIds /\ Q \in SUBSET JobIds
  BY DEF Retained, With, QueuedElsewhere
<1> HIDE DEF S, R, T, Q
<1>4. /\ IsFiniteSet(R) /\ IsFiniteSet(Q) /\ R \cap T = T
      /\ Cardinality(R) \in Nat /\ Cardinality(T) \in Nat /\ Cardinality(Q) \in Nat
  BY <1>3, TableIsFinite
<1>5. Cardinality(R \ T) = Cardinality(R) - Cardinality(T)
  BY <1>4, FS_Difference
<1>6. Cardinality(Q \cup {cur}) <= Cardinality(Q) + 1 /\ IsFiniteSet(Q \cup {cur})
  BY <1>4, FS_AddElement, SMTT(30)
<1>7. Cardinality(R \ T) <= Cardinality(Q \cup {cur}) /\ Cardinality(Q \cup {cur}) \in Nat
  BY <1>2, <1>6, FS_Subset, FS_CardinalityType
<1>8. Cardinality(Q) + 1 <= MaxQueued
  BY <1>4, LimitsAssumption DEF Q
<1>9. QED
  BY <1>4, <1>5, <1>6, <1>7, <1>8, LimitsAssumption DEF HasRoom, Excess, R, T, S

\* The queue and the history keep their limits, in memory and in the journal,
\* and an admitted request always finds room in the history.
THEOREM HistoryBoundedHolds == Spec => []HistoryBounded
<1>1. QueueInvariant => HistoryBounded
  BY RoomForAdmissible DEF QueueInvariant, QueueLimits, WithinLimits, HistoryBounded
<1>2. QED
  BY QueueInvariantHolds, <1>1, PTL

\* The steps that give a job in memory another status: a restart, a call that
\* installs its table, and the thread with its own job.
LEMMA TableSteps ==
  ASSUME QueueInvariant, [Next]_vars, jobs' # jobs
  PROVE  \/ Start
         \/ PersistCall
         \/ BeginJob
         \/ FinishJob
<1> USE DEF memory, threadVars, budgets
<1>1. CASE ServiceStep
  BY <1>1 DEF ServiceStep, Shutdown, ServiceExit, Crash
<1>2. CASE ClientStep
  BY <1>2 DEF ClientStep, SubmitArrives, SubmitAdmits, SubmitReturns, Cancel
<1>3. CASE CallStep
  BY <1>3 DEF CallStep, WriteFence
<1>4. CASE ThreadStep \/ ReportProgress
  BY <1>4 DEF ThreadStep, ReportProgress, Pick, SkipJob, LoseJob, Reap, Abort, ThreadExits
<1>5. CASE ChildStep
  BY <1>5 DEF ChildStep, ChildUnchanged, LockIndex, EnterFence, Publish, ChildSucceeds,
              ChildFails
<1>6. CASE FaultStep
  BY <1>6 DEF FaultStep, StartFails, CallFails, UpdateFails
<1>7. CASE UNCHANGED vars
  BY <1>7 DEF vars
<1>8. QED
  BY <1>1, <1>2, <1>3, <1>4, <1>5, <1>6, <1>7 DEF Next

\* A terminal status is never revised, not by a late result, a cancellation or a
\* restart from a journal that a failed write left ahead of memory.
THEOREM TerminalIsFinalHolds == Spec => TerminalIsFinal
<1>1. ASSUME QueueInvariant, [Next]_vars, NEW i \in With(jobs, Terminal)
      PROVE  jobs'[i] \in {jobs[i], "absent"}
  <2> USE DEF With, Terminal, JobTables
  <2>1. jobs \in JobTables /\ journal \in JobTables /\ i \in JobIds
    BY <1>1 DEF QueueInvariant, FenceInvariant, TypeOK
  <2>2. CASE jobs' = jobs
    BY <2>2
  <2>3. CASE Start
    BY <1>1, <2>1, <2>3
       DEF Start, Recovered, Live, QueueInvariant, QueueOrder, JournalKeepsOutcomes
  <2>4. CASE PersistCall
    BY <1>1, <2>1, <2>4, IdleStage DEF PersistCall, QueueInvariant, QueueOrder, CallFollows
  <2>5. CASE BeginJob
    BY <1>1, <2>1, <2>5 DEF BeginJob, Begun
  <2>6. CASE FinishJob
    BY <1>1, <2>1, <2>6 DEF FinishJob, Finished, QueueInvariant, FenceInvariant, ThreadHasJob
  <2> QED
    BY <1>1, <2>2, <2>3, <2>4, <2>5, <2>6, TableSteps
<1>2. QueueInvariant /\ [Next]_vars =>
        [\A i \in With(jobs, Terminal) : jobs'[i] \in {jobs[i], "absent"}]_vars
  BY <1>1
<1>3. QED
  BY QueueInvariantHolds, <1>2, PTL DEF Spec, TerminalIsFinal

\* A job that starts overtakes no older job of the same or a better priority,
\* although the lock is free between the choice and the start.
THEOREM NoOvertakingHolds == Spec => NoOvertaking
<1>1. ASSUME QueueInvariant, [Next]_vars, NEW i \in JobIds,
             jobs[i] = "queued", jobs'[i] = "running",
             NEW j \in With(jobs, {"queued"}), j < i
      PROVE  request[j].priority > request[i].priority
  <2>1. jobs \in JobTables /\ journal \in JobTables
    BY <1>1 DEF QueueInvariant, FenceInvariant, TypeOK
  <2>2. ~ Start
    BY <1>1, <2>1, RecoveredTable DEF Start, Live
  <2>3. ~ PersistCall
    BY <1>1, IdleStage DEF PersistCall, QueueInvariant, QueueOrder, CallFollows
  <2>4. ~ FinishJob
    BY <1>1, <2>1 DEF FinishJob, Finished, Outcome, JobTables
  <2>5. BeginJob
    BY <1>1, <2>2, <2>3, <2>4, TableSteps
  <2>6. cur = i
    BY <1>1, <2>1, <2>5 DEF BeginJob, Begun, JobTables
  <2> QED
    BY <1>1, <2>5, <2>6 DEF BeginJob, QueueInvariant, QueueOrder, PickIsFirst
<1>2. QueueInvariant /\ [Next]_vars =>
        [\A i \in JobIds : jobs[i] = "queued" /\ jobs'[i] = "running" =>
           \A j \in With(jobs, {"queued"}) :
             j < i => request[j].priority > request[i].priority]_vars
  BY <1>1
<1>3. QED
  BY QueueInvariantHolds, <1>2, PTL DEF Spec, NoOvertaking
=============================================================================
