---------------------------- MODULE Preparation -----------------------------
(***************************************************************************)
(* The web client's shared verification of snapshots.  Source:             *)
(* src/web/src/api/client.ts (request, prepare, invalidateReadiness).      *)
(*                                                                         *)
(* Every request first waits until the server has verified its snapshots.  *)
(* Panes that ask for the same snapshot share one preparation, which is    *)
(* aborted when the last of them leaves; a new session aborts all.  The    *)
(* code is single-threaded: an action is what runs between two awaits.     *)
(***************************************************************************)
EXTENDS Naturals, FiniteSets

CONSTANTS Requests,
          Scopes,        \* snapshot and context
          Asks,          \* request -> the scopes it is about, two of them at most
          Tokens,        \* session tokens
          Capacity,      \* preparations that are kept (16)
          MaxFetches,    \* preparations that are ever started
          MaxSwitches    \* changes of the session token

Entries == 1..MaxFetches

VARIABLES token,         \* sessionStorage
          session,       \* preparationSession
          switches,
          order,         \* the map of preparations: its entries, each with those in front of it
          entry,         \* every preparation: scope, users, ready, aborted, fetch
          fetches,       \* preparations started
          sweeps,        \* queued microtasks: entries to look at again
          stage,         \* every request
          sent,          \* the token it was called with, and how often the map was
          epoch,         \*   cleared before that
          clears,
          waits          \* the preparations it waits for

vars == <<token, session, switches, order, entry, fetches, sweeps,
          stage, sent, epoch, clears, waits>>
login == <<token, switches>>

Stages == {"idle", "prepare", "wait", "resume", "fetch", "done", "failed", "cancelled"}
Waiting(r) == stage[r] = "wait"
Users(e) == {r \in Requests : Waiting(r) /\ e \in waits[r]}
Mapped == DOMAIN order

PreparationAssumption ==
  /\ IsFiniteSet(Requests) /\ Scopes # {} /\ Capacity \in Nat /\ MaxFetches \in Nat
  /\ Asks \in [Requests -> SUBSET Scopes]
  /\ \A r \in Requests : \A s, t, u \in Asks[r] : s = t \/ s = u \/ t = u

Preparations == [scope : Scopes, users : Nat, ready : BOOLEAN, aborted : BOOLEAN,
                 fetch : {"none", "running", "done", "failed"}]
IsMap(map) == DOMAIN map \subseteq Entries /\ map \in [DOMAIN map -> SUBSET DOMAIN map]

TypeOK ==
  /\ token \in Tokens /\ session \in Tokens \cup {""} /\ switches \in Nat
  /\ IsMap(order) /\ entry \in [Entries -> Preparations]
  /\ fetches \in 0..MaxFetches /\ sweeps \subseteq Entries
  /\ stage \in [Requests -> Stages] /\ waits \in [Requests -> SUBSET Entries]
  /\ sent \in [Requests -> Tokens] /\ epoch \in [Requests -> Nat] /\ clears \in Nat

Blank == [scope |-> CHOOSE s \in Scopes : TRUE, users |-> 0, ready |-> FALSE,
          aborted |-> FALSE, fetch |-> "none"]

Init ==
  /\ token \in Tokens /\ session = "" /\ switches = 0
  /\ order = [e \in {} |-> {}] /\ entry = [e \in Entries |-> Blank] /\ fetches = 0 /\ sweeps = {}
  /\ stage = [r \in Requests |-> "idle"]
  /\ sent = [r \in Requests |-> token] /\ epoch = [r \in Requests |-> 0] /\ clears = 0
  /\ waits = [r \in Requests |-> {}]

-----------------------------------------------------------------------------
\* A map that keeps its order without some of its entries, and with one behind all others.
Less(map, es) == [e \in DOMAIN map \ es |-> map[e] \ es]
More(map, e) == [f \in DOMAIN map \cup {e} |-> IF f = e THEN DOMAIN map ELSE map[f]]
Without(es) == Less(order, es)

\* invalidateReadiness: what was ready is asked for again.
Invalidated(r) ==
  order' = Without({e \in Mapped : entry[e].scope \in Asks[r] /\ entry[e].ready})

\* finish: requests stop waiting, and the preparations they waited for are looked at
\* again in a microtask.
Leave(rs, end) ==
  /\ stage' = [r \in Requests |-> IF r \in rs THEN end ELSE stage[r]]
  /\ waits' = [r \in Requests |-> IF r \in rs THEN {} ELSE waits[r]]
  /\ sweeps' = sweeps \cup UNION {waits[r] : r \in rs}
  /\ entry' = [e \in Entries |->
                 [entry[e] EXCEPT !.users = @ - Cardinality({r \in rs : e \in waits[r]})]]

\* The call: a token other than the last one ends all that was prepared with that.
Call(r) ==
  /\ stage[r] = "idle" /\ stage' = [stage EXCEPT ![r] = "prepare"]
  /\ sent' = [sent EXCEPT ![r] = token] /\ session' = token
  /\ IF session = token
     THEN UNCHANGED <<entry, order, clears>> /\ epoch' = [epoch EXCEPT ![r] = clears]
     ELSE /\ entry' = [e \in Entries |-> IF e \in Mapped THEN [entry[e] EXCEPT !.aborted = TRUE] ELSE entry[e]]
          /\ order' = Without(Mapped) /\ clears' = clears + 1 /\ epoch' = [epoch EXCEPT ![r] = clears + 1]
  /\ UNCHANGED <<login, fetches, sweeps, waits>>

\* The map and the preparations once one more scope is prepared: joined if there is
\* one, else started, for which an idle one makes room; busy if there is no idle one.
Joined(state, scope) ==
  LET held == {e \in DOMAIN state.order : state.entry[e].scope = scope}
      idle == {e \in DOMAIN state.order : state.entry[e].ready}
      full == Cardinality(DOMAIN state.order) >= Capacity
      e == IF held # {} THEN CHOOSE x \in held : TRUE ELSE state.fetches + 1
      oldest == CHOOSE x \in idle : state.order[x] \cap idle = {}
      left == IF held = {} /\ full THEN {oldest} ELSE held
      joined == IF held # {} THEN [state.entry[e] EXCEPT !.users = @ + 1]
                ELSE [scope |-> scope, users |-> 1, ready |-> FALSE, aborted |-> FALSE, fetch |-> "running"]
  IN IF state.busy THEN state
     ELSE IF held = {} /\ full /\ idle = {} THEN [state EXCEPT !.busy = TRUE]
     ELSE [order |-> More(Less(state.order, left), e), entry |-> [state.entry EXCEPT ![e] = joined],
           fetches |-> IF held # {} THEN state.fetches ELSE e,
           joined |-> state.joined \cup {e}, busy |-> FALSE]

\* All scopes of a request, in the order it names them.
JoinedAll(r, s) ==
  LET start == [order |-> order, entry |-> entry, fetches |-> fetches, joined |-> {}, busy |-> FALSE]
  IN IF Asks[r] = {s} THEN Joined(start, s)
     ELSE Joined(Joined(start, s), CHOOSE t \in Asks[r] \ {s} : TRUE)

\* Behind the first await all scopes of the request are prepared at once, and it waits
\* for them.
WaitsFor(r, end) ==
  /\ ~end.busy /\ fetches' = end.fetches /\ entry' = end.entry /\ order' = end.order
  /\ stage' = [stage EXCEPT ![r] = "wait"] /\ waits' = [waits EXCEPT ![r] = end.joined]
  /\ UNCHANGED sweeps

\* If one cannot be prepared, it fails and leaves the other.
GivesUp(r, end) ==
  /\ end.busy /\ fetches' = end.fetches
  /\ entry' = [e \in Entries |-> IF e \in end.joined THEN [end.entry[e] EXCEPT !.users = @ - 1]
                                                     ELSE end.entry[e]]
  /\ order' = Less(end.order, {e \in DOMAIN end.order :
                                 end.entry[e].scope \in Asks[r] /\ end.entry[e].ready})
  /\ stage' = [stage EXCEPT ![r] = "failed"] /\ sweeps' = sweeps \cup end.joined
  /\ UNCHANGED waits

Prepare(r) ==
  /\ stage[r] = "prepare" /\ fetches + Cardinality(Asks[r]) <= MaxFetches
  /\ \/ /\ session # sent[r] /\ Asks[r] # {}
        /\ stage' = [stage EXCEPT ![r] = "failed"]
        /\ UNCHANGED <<order, entry, fetches, sweeps, waits>>
     \/ /\ Asks[r] = {}
        /\ stage' = [stage EXCEPT ![r] = "resume"]
        /\ UNCHANGED <<order, entry, fetches, sweeps, waits>>
     \/ /\ session = sent[r]
        /\ \E s \in Asks[r] : WaitsFor(r, JoinedAll(r, s)) \/ GivesUp(r, JoinedAll(r, s))
  /\ UNCHANGED <<login, session, sent, epoch, clears>>

\* The server answers, an answer in order or not, or 30 s pass: everyone who waited
\* for it goes on or fails with it.
Prepared(e, ok) ==
  /\ entry[e].fetch = "running" /\ ~entry[e].aborted
  /\ IF ok
     THEN /\ entry' = [entry EXCEPT ![e].fetch = "done", ![e].ready = TRUE, ![e].users = 0]
          /\ waits' = [r \in Requests |-> waits[r] \ {e}]
          /\ stage' = [r \in Requests |-> IF r \in Users(e) /\ waits[r] = {e} THEN "resume" ELSE stage[r]]
          /\ sweeps' = sweeps \cup (IF Users(e) = {} THEN {} ELSE {e})
          /\ UNCHANGED order
     ELSE /\ order' = Without({e} \cup {x \in Mapped : entry[x].ready
                                          /\ \E r \in Users(e) : session = sent[r] /\ entry[x].scope \in Asks[r]})
          /\ stage' = [r \in Requests |-> IF r \in Users(e) THEN "failed" ELSE stage[r]]
          /\ waits' = [r \in Requests |-> IF r \in Users(e) THEN {} ELSE waits[r]]
          /\ sweeps' = sweeps \cup UNION {waits[r] : r \in Users(e)}
          /\ entry' = [x \in Entries |->
                         [entry[x] EXCEPT !.users = @ - Cardinality({r \in Users(e) : x \in waits[r]}),
                                          !.fetch = IF x = e THEN "failed" ELSE @]]
  /\ UNCHANGED <<login, session, fetches, sent, epoch, clears>>

\* The fetch of an aborted preparation rejects.
Rejected(e) ==
  /\ entry[e].fetch = "running" /\ entry[e].aborted
  /\ LET rs == Users(e)
     IN /\ stage' = [r \in Requests |-> IF r \in rs THEN "cancelled" ELSE stage[r]]
        /\ waits' = [r \in Requests |-> IF r \in rs THEN {} ELSE waits[r]]
        /\ sweeps' = sweeps \cup UNION {waits[r] : r \in rs}
        /\ entry' = [x \in Entries |->
                       [entry[x] EXCEPT !.users = @ - Cardinality({r \in rs : x \in waits[r]}),
                                        !.fetch = IF x = e THEN "failed" ELSE @]]
        /\ order' = Without({e} \cup {x \in Mapped : entry[x].ready
                                        /\ \E r \in rs : session = sent[r] /\ entry[x].scope \in Asks[r]})
  /\ UNCHANGED <<login, session, fetches, sent, epoch, clears>>

\* Faulty: whoever leaves aborts the preparation.
SweepAnyway(e) ==
  /\ e \in sweeps /\ sweeps' = sweeps \ {e}
  /\ IF ~entry[e].ready
     THEN entry' = [entry EXCEPT ![e].aborted = TRUE] /\ order' = Without({e})
     ELSE UNCHANGED <<entry, order>>
  /\ UNCHANGED <<login, session, fetches, stage, sent, epoch, clears, waits>>

\* The microtask: a preparation nobody waits for any more is aborted, not so one
\* that somebody joined meanwhile.
Sweep(e) ==
  /\ e \in sweeps /\ sweeps' = sweeps \ {e}
  /\ IF entry[e].users = 0 /\ ~entry[e].ready
     THEN entry' = [entry EXCEPT ![e].aborted = TRUE] /\ order' = Without({e})
     ELSE UNCHANGED <<entry, order>>
  /\ UNCHANGED <<login, session, fetches, stage, sent, epoch, clears, waits>>

\* Those who joined a preparation that was ready go on at once.
Found(e) ==
  /\ entry[e].ready /\ Users(e) # {}
  /\ entry' = [entry EXCEPT ![e].users = 0] /\ sweeps' = sweeps \cup {e}
  /\ waits' = [r \in Requests |-> waits[r] \ {e}]
  /\ stage' = [r \in Requests |-> IF r \in Users(e) /\ waits[r] = {e} THEN "resume" ELSE stage[r]]
  /\ UNCHANGED <<login, session, order, fetches, sent, epoch, clears>>

\* The pane aborts its request, or its 30 s for the verification are over: what was ready
\* is prepared again, once the scopes are known.
Abort(r, timeout) ==
  /\ stage[r] \in {"prepare", "wait", "resume"} /\ (timeout => stage[r] # "resume")
  /\ Leave({r}, "failed")
  /\ IF timeout /\ Waiting(r) /\ session = sent[r] THEN Invalidated(r) ELSE UNCHANGED order
  /\ UNCHANGED <<login, session, fetches, sent, epoch, clears>>

\* Everything is prepared: the request is sent unless the session changed.
Resume(r) ==
  /\ stage[r] = "resume"
  /\ IF token = sent[r]
     THEN stage' = [stage EXCEPT ![r] = "fetch"] /\ UNCHANGED order
     ELSE /\ stage' = [stage EXCEPT ![r] = "failed"]
          /\ IF session = sent[r] THEN Invalidated(r) ELSE UNCHANGED order
  /\ UNCHANGED <<login, session, entry, fetches, sweeps, sent, epoch, clears, waits>>

\* Its answer: taken unless the session changed; an error or an answer that is cut
\* by its deadline makes the snapshots be prepared again.
Fetched(r) ==
  /\ stage[r] = "fetch"
  /\ \E answer \in {"whole", "deadline", "error", "aborted"} :
       LET taken == answer \in {"whole", "deadline"} /\ token = sent[r]
           again == IF taken THEN answer = "deadline" ELSE answer # "aborted" /\ session = sent[r]
       IN /\ stage' = [stage EXCEPT ![r] = IF taken THEN "done" ELSE "failed"]
          /\ IF again THEN Invalidated(r) ELSE UNCHANGED order
  /\ UNCHANGED <<login, session, entry, fetches, sweeps, sent, epoch, clears, waits>>

\* storeToken, or another link with a token.
SwitchToken ==
  /\ switches < MaxSwitches /\ switches' = switches + 1
  /\ token' \in Tokens \ {token}
  /\ UNCHANGED <<session, order, entry, fetches, sweeps, stage, sent, epoch, clears, waits>>

Next ==
  \/ SwitchToken
  \/ \E r \in Requests :
       \/ Call(r) \/ Prepare(r) \/ Resume(r) \/ Fetched(r)
       \/ \E timeout \in BOOLEAN : Abort(r, timeout)
  \/ \E e \in Entries : Found(e) \/ Rejected(e) \/ Sweep(e) \/ \E ok \in BOOLEAN : Prepared(e, ok)

Spec == Init /\ [][Next]_vars

-----------------------------------------------------------------------------
(* Properties. *)

\* A request is cancelled by the end of the session it was called in, never by
\* another pane that stopped waiting for the same snapshot.
CancelledByOwnSession == \A r \in Requests : stage[r] = "cancelled" => epoch[r] < clears

\* A preparation counts exactly those who wait for it.
UsersAreCounted == \A e \in Entries : entry[e].users = Cardinality(Users(e))

\* Nothing runs that nobody waits for, once the queued microtasks have run.
Running(e) == entry[e].fetch = "running" /\ ~entry[e].aborted
NothingAbandoned == \A e \in Entries : Running(e) => Users(e) # {} \/ e \in sweeps

\* Nobody waits for what has ended, without him being told.
NobodyForgotten ==
  \A r \in Requests : Waiting(r) =>
    waits[r] # {} /\ \A e \in waits[r] : entry[e].fetch = "running" \/ entry[e].ready

\* A snapshot is prepared once at a time, and whoever looks it up finds that: the
\* map holds every running preparation, and none that was aborted or failed.
SharedWhileItRuns ==
  /\ \A e \in Entries : Running(e) => e \in Mapped
  /\ \A e \in Mapped : ~entry[e].aborted /\ entry[e].fetch # "failed"
  /\ \A e, f \in Mapped : entry[e].scope = entry[f].scope => e = f

\* The inductive invariant.  What the map holds is in one order and was started, and runs or
\* is ready; what runs is in it, unless it was aborted.
Ordered(map) ==
  /\ \A e \in DOMAIN map : e \notin map[e] /\ \A f \in map[e] : map[f] \subseteq map[e]
  /\ \A e, f \in DOMAIN map : e = f \/ e \in map[f] \/ f \in map[e]

Kept(map, all, n) ==
  /\ Ordered(map) /\ DOMAIN map \subseteq 1..n /\ Cardinality(DOMAIN map) <= Capacity
  /\ \A e \in DOMAIN map : ~all[e].aborted /\ all[e].fetch = IF all[e].ready THEN "done" ELSE "running"
  /\ \A e, f \in DOMAIN map : all[e].scope = all[f].scope => e = f
  /\ \A e \in Entries : /\ all[e].fetch = "running" /\ ~all[e].aborted => e \in DOMAIN map
                        /\ all[e].ready => all[e].fetch = "done"
                        /\ e > n => all[e] = Blank

MapIsKept == Kept(order, entry, fetches) /\ sweeps \subseteq 1..fetches

\* Only those wait who have something to wait for; what was aborted under them was aborted
\* by the end of their session.
WaitsAreKept ==
  /\ \A r \in Requests : ~Waiting(r) => waits[r] = {}
  /\ \A r \in Requests : epoch[r] <= clears /\ waits[r] \subseteq 1..fetches
  /\ \A r \in Requests : \A e \in waits[r] : entry[e].aborted => epoch[r] < clears

PreparationInvariant ==
  /\ TypeOK /\ MapIsKept /\ WaitsAreKept
  /\ CancelledByOwnSession /\ UsersAreCounted /\ NothingAbandoned /\ NobodyForgotten
  /\ SharedWhileItRuns

\* A shared preparation is neither dropped while one waits for it nor kept running for nobody.
PreparationsAreShared ==
  /\ PreparationInvariant /\ CancelledByOwnSession /\ UsersAreCounted /\ SharedWhileItRuns
  /\ NothingAbandoned /\ NobodyForgotten
=============================================================================
