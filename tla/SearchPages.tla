----------------------------- MODULE SearchPages -----------------------------
(***************************************************************************)
(* Paged search over immutable snapshots.                                  *)
(* Source: src/crates/query/src/lib.rs (search), cursor.rs and             *)
(* src/crates/store/src/reader.rs (search, collect_bounded).               *)
(*                                                                         *)
(* A client walks through the result of a prefix search page by page.  The *)
(* server keeps nothing between pages: the cursor carries the last key and *)
(* what it belongs to, under a signature of this server process.  Pages    *)
(* are cut by the limit the client asks for, by a read budget, a response  *)
(* budget and a deadline; between two pages the server may restart, time   *)
(* may pass and the client may turn to another query or snapshot.          *)
(***************************************************************************)
EXTENDS Naturals, FiniteSets, FiniteSetsExt

CONSTANTS Candidates,      \* definitions a snapshot may hold, [name, id, size]
          Queries,         \* queries: the set of names that start with each
          MaxLimit,        \* 200: the largest page a client may ask for
          ReadBudget,      \* 2 MiB of rows read for one page
          ResponseBudget,  \* what is left of 2 MiB for the items of a page
          Lifetime,        \* 900 s: how long a cursor is good
          MaxTime,         \* bound of the clock
          MaxEpoch         \* bound of server restarts

\* A name and an identifier tell a definition from all others; neither is empty.
SearchAssumption ==
  /\ IsFiniteSet(Candidates)
  /\ \A d \in Candidates : d.name \in Nat \ {0} /\ d.id \in Nat \ {0}
  /\ \A d, e \in Candidates : d.name = e.name /\ d.id = e.id => d = e
  /\ MaxLimit \in Nat /\ Lifetime \in Nat /\ MaxTime \in Nat
  /\ MaxEpoch \in Nat \ {0}

Before(d, e) == d.name < e.name \/ (d.name = e.name /\ d.id < e.id)

Snapshots == {"old", "new"}

VARIABLES data,    \* the definitions of each snapshot
          epoch,   \* the server process: every one has a secret of its own
          now,     \* the clock in seconds
          walk     \* the client: what it asks for, what it got, its cursor

vars == <<data, epoch, now, walk>>

-----------------------------------------------------------------------------
(* The store's search.  Rows come in the order of their keys, so that rows are *)
(* a set and the first of them are those with few before them.                 *)

Bytes(items) == MapThenSumSet(LAMBDA d : d.size, items)
Earlier(items, d) == {e \in items : Before(e, d)}
First(items, n) == {d \in items : Cardinality(Earlier(items, d)) < n}
Last(items) == CHOOSE d \in items : \A e \in items : ~Before(d, e)

NoKey == [name |-> 0, id |-> 0]
\* The definitions of a snapshot whose name starts with the query.
Result(snapshot, query) == {d \in data[snapshot] : d.name \in query}

Behind(snapshot, query, after) == {d \in Result(snapshot, query) : Before(after, d)}
\* The rows after a key, as many as asked for.
Rows(snapshot, query, after, limit) == First(Behind(snapshot, query, after), limit)

\* Reading rows fails as a whole when they exceed the read budget.
Exhausts(rows) == Bytes(rows) > ReadBudget

-----------------------------------------------------------------------------
(* Cursors. *)

NoCursor == [epoch |-> 0]
Encode(w, last) ==
  [epoch |-> epoch, snapshot |-> w.snapshot, query |-> w.query, last |-> last,
   expires |-> now + Lifetime]

\* The signature is the server's own, and the cursor is not too old.
Decoded(cursor) == cursor.epoch = epoch /\ cursor.expires > now

Bound(cursor, w) == cursor.snapshot = w.snapshot /\ cursor.query = w.query
After(cursor) == IF cursor = NoCursor THEN NoKey ELSE cursor.last

-----------------------------------------------------------------------------
(* Pages. *)

\* The items in front of the first that does not fit into the response.
Fits(items, d) == Bytes(Earlier(items, d) \cup {d}) <= ResponseBudget
Retained(items) ==
  {d \in items : Fits(items, d) /\ \A e \in Earlier(items, d) : Fits(items, e)}

Page(items, truncated, cursor) ==
  [items |-> items, truncated |-> truncated, cursor |-> cursor]

\* A page that was stopped or read too much says so and ends the walk.
StoppedPage == Page({}, TRUE, NoCursor)

\* Faulty: the cursor points behind the rows read, not behind those returned.
ReadPageBehindRows(w, limit) ==
  LET rows == Rows(w.snapshot, w.query, After(w.cursor), limit + 1)
      items == Retained(First(rows, limit))
      truncated == Cardinality(rows) > limit \/ items # rows
  IN IF Exhausts(rows) THEN StoppedPage
     ELSE Page(items, truncated,
               IF truncated /\ items # {} THEN Encode(w, Last(rows)) ELSE NoCursor)
\* Faulty: a page with no room for its first row comes with a cursor, to where it
\* was asked from.
ReadPageInPlace(w, limit) ==
  LET rows == Rows(w.snapshot, w.query, After(w.cursor), limit + 1)
      items == Retained(First(rows, limit))
      truncated == Cardinality(rows) > limit \/ items # First(rows, limit)
  IN IF Exhausts(rows) THEN StoppedPage
     ELSE Page(items, truncated,
               IF truncated THEN Encode(w, IF items = {} THEN After(w.cursor) ELSE Last(items)) ELSE NoCursor)

\* One row more than asked for tells whether there is another page.
ReadPage(w, limit) ==
  LET rows == Rows(w.snapshot, w.query, After(w.cursor), limit + 1)
      asked == First(rows, limit)
      items == Retained(asked)
      truncated == Cardinality(rows) > limit \/ items # asked
  IN IF Exhausts(rows) THEN StoppedPage
     ELSE Page(items, truncated,
               IF truncated /\ items # {} THEN Encode(w, Last(items)) ELSE NoCursor)

-----------------------------------------------------------------------------
(* The client. *)

\* How often the client received every definition in this walk.  "open": more pages
\* may come; "complete": the last page was not truncated; "told": the server said
\* that the result is incomplete and gave no cursor; "refused": the server did not
\* accept the cursor.
Walk(snapshot, query, cursor) ==
  [snapshot |-> snapshot, query |-> query, cursor |-> cursor,
   got |-> [d \in Candidates |-> 0], state |-> "open"]

Received == {d \in Candidates : walk.got[d] > 0}

Cursors ==
  [epoch : 1..MaxEpoch, snapshot : Snapshots, query : Queries, last : Candidates,
   expires : 0..(MaxTime + Lifetime)]

TypeOK ==
  /\ data \in [Snapshots -> SUBSET Candidates]
  /\ epoch \in 1..MaxEpoch /\ now \in 0..MaxTime
  /\ walk \in [snapshot : Snapshots, query : Queries, cursor : Cursors \cup {NoCursor},
              got : [Candidates -> Nat], state : {"open", "complete", "told", "refused"}]

Init ==
  /\ data \in [Snapshots -> SUBSET Candidates]
  /\ data["old"] \subseteq data["new"]
  /\ epoch = 1 /\ now = 0
  /\ \E query \in Queries : walk = Walk("old", query, NoCursor)

\* search answers with a page, which the client appends.
Answer(page) ==
  walk' = [walk EXCEPT !.got = [d \in Candidates |-> @[d] + (IF d \in page.items THEN 1 ELSE 0)],
                       !.cursor = page.cursor,
                       !.state = IF page.cursor # NoCursor THEN "open"
                                 ELSE IF page.truncated THEN "told" ELSE "complete"]

Accepted == walk.cursor = NoCursor \/ (Decoded(walk.cursor) /\ Bound(walk.cursor, walk))

Search ==
  /\ walk.state = "open" /\ Accepted
  /\ \E page \in {ReadPage(walk, limit) : limit \in 1..MaxLimit} : Answer(page)
  /\ UNCHANGED <<data, epoch, now>>

\* The 250 ms of the search are over before it looks at the cursor or while it
\* reads.
SearchStopped ==
  /\ walk.state = "open"
  /\ Answer(StoppedPage)
  /\ UNCHANGED <<data, epoch, now>>

\* invalid_cursor or expired_cursor.
SearchRefused ==
  /\ walk.state = "open" /\ ~Accepted
  /\ walk' = [walk EXCEPT !.state = "refused"]
  /\ UNCHANGED <<data, epoch, now>>

\* The client asks for something else, with the cursor it happens to hold.
Turn ==
  /\ walk.state = "open" /\ (walk.cursor # NoCursor => Received # {})
  /\ \E snapshot \in Snapshots, query \in Queries :
       walk' = Walk(snapshot, query, walk.cursor)
  /\ walk'.snapshot # walk.snapshot \/ walk'.query # walk.query
  /\ UNCHANGED <<data, epoch, now>>

\* A client that was refused, or wants the result again, starts over.
StartOver ==
  /\ walk.state \in {"refused", "told"}
  /\ walk' = Walk(walk.snapshot, walk.query, NoCursor)
  /\ UNCHANGED <<data, epoch, now>>

Restart ==
  /\ epoch < MaxEpoch
  /\ epoch' = epoch + 1
  /\ UNCHANGED <<data, now, walk>>

Tick ==
  /\ now < MaxTime
  /\ now' = now + 1
  /\ UNCHANGED <<data, epoch, walk>>

Next == Search \/ SearchStopped \/ SearchRefused \/ Turn \/ StartOver \/ Restart \/ Tick

Spec == Init /\ [][Next]_vars
FairSpec == Spec /\ WF_vars(Search \/ SearchRefused)

-----------------------------------------------------------------------------
(* Properties. *)

\* What a client has received is the beginning of the result, with nothing skipped
\* and nothing repeated at a page boundary, whatever limits it asked for and wherever
\* the response budget cut a page; a walk that ends with an untruncated page
\* has received everything.  A cursor of another query or snapshot never starts
\* such a walk in its middle.
PagesJoin ==
  LET whole == Result(walk.snapshot, walk.query)
  IN /\ Received \subseteq whole
     /\ \A d \in Received : walk.got[d] = 1 /\ Earlier(whole, d) \subseteq Received
     /\ walk.state = "complete" => Received = whole

\* A cursor that comes with a page points behind the one it was asked with: no
\* cut of a page hands a client the place it already is at.
Advances ==
  Search /\ walk'.cursor # NoCursor => Before(After(walk.cursor), walk'.cursor.last)
CursorsAdvance == [][Advances]_vars

\* A cursor of an earlier server process or of more than its lifetime ago is
\* never followed: nothing is received by it.
Current ==
  walk.cursor # NoCursor /\ (\E d \in Candidates : walk'.got[d] > walk.got[d])
    => walk.cursor.epoch = epoch /\ now < walk.cursor.expires
StaleIsRefused == [][Current]_vars

\* Every walk that is not turned elsewhere for ever comes to an end.
Open == walk.state = "open"
WalkEnds == []<><<Turn>>_vars \/ []<>~Open

-----------------------------------------------------------------------------
(* The inductive invariant: a cursor of this walk stands behind exactly what  *)
(* was received; with one of another walk, or none, nothing was received yet. *)

CursorIsOfTheWalk ==
  LET whole == Result(walk.snapshot, walk.query)
  IN /\ walk.cursor # NoCursor /\ Bound(walk.cursor, walk) =>
          Received = {d \in whole : ~Before(walk.cursor.last, d)}
     /\ walk.cursor # NoCursor /\ ~Bound(walk.cursor, walk) => Received = {}
     /\ walk.cursor = NoCursor /\ walk.state \in {"open", "refused"} => Received = {}
     /\ walk.state \in {"complete", "told"} => walk.cursor = NoCursor

SearchInvariant == TypeOK /\ PagesJoin /\ CursorIsOfTheWalk
=============================================================================
