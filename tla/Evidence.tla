------------------------------ MODULE Evidence ------------------------------
(***************************************************************************)
(* The directories in which imported evidence is kept, one of each kind    *)
(* per snapshot.  Source: src/crates/evidence/src/lib.rs (ScopedDirectory, *)
(* observations), compiler.rs (compiler imports) and state_machine.rs      *)
(* (reviews).                                                              *)
(*                                                                         *)
(* An object is written to a temporary file, synced, renamed to the name   *)
(* made of its digest, and the directory is synced, all under a file lock  *)
(* that is waited for for two seconds.  A process killed in between leaves *)
(* its temporary file, and nothing removes it: a listing counts it towards *)
(* the limit on the entries of the directory.                              *)
(***************************************************************************)
EXTENDS Naturals, FiniteSets

CONSTANTS Importers,
          Objects,       \* the objects that are imported, by their digest
          MaxObjects,    \* 50 observations, 16 compiler imports, MAX_REVIEWS
          MaxEntries,    \* MAX_DIRECTORY_ENTRIES
          MaxKills,      \* processes killed
          MaxPowerLosses,
          None

Kinds == {"observation", "compiler", "review"}
Stages == {"idle", "open", "wait", "list", "create", "write", "sync", "rename", "directory", "answer"}

VARIABLES kind,          \* what the directory holds
          content,       \* object -> "absent", "whole", "unsynced" (whole until power is lost), "torn"
          volatile,      \* the names that a loss of power may take back
          lockfile,      \* .import.lock exists
          holder,        \* of its flock
          stage, object, \* of every importer: what it does next, with which object
          temporary,     \* and its temporary file: "none", "empty", "written", "synced"
          leaked,        \* temporary files without a process
          kills, losses,
          promised,      \* objects whose publisher answered that they are imported
          listing        \* the last listing: "none", "objects", "too many", "corrupt"

vars == <<kind, content, volatile, lockfile, holder, stage, object, temporary,
          leaked, kills, losses, promised, listing>>
directory == <<content, volatile>>
processes == <<stage, object, temporary, holder>>
ghosts == <<leaked, kills, losses, promised, listing>>

Names == {o \in Objects : content[o] # "absent"}
Temporaries == {p \in Importers : temporary[p] # "none"}
Entries == Cardinality(Names) + Cardinality(Temporaries) + leaked + (IF lockfile THEN 1 ELSE 0)
Readable(o) == content[o] \in {"whole", "unsynced"}
Interruptions == kills + losses

-----------------------------------------------------------------------------
EvidenceAssumption == None \notin Importers /\ MaxObjects \in Nat /\ MaxEntries \in Nat

TypeOK ==
  /\ kind \in Kinds
  /\ content \in [Objects -> {"absent", "whole", "unsynced", "torn"}]
  /\ volatile \subseteq Names
  /\ stage \in [Importers -> Stages] /\ object \in [Importers -> Objects \cup {None}]
  /\ temporary \in [Importers -> {"none", "empty", "written", "synced"}]
  /\ \A p \in Importers : holder = p <=> stage[p] \notin {"idle", "open", "wait"}
  /\ leaked <= Interruptions

Init ==
  /\ kind \in Kinds
  /\ content = [o \in Objects |-> "absent"] /\ volatile = {}
  /\ lockfile = FALSE /\ holder = None
  /\ stage = [p \in Importers |-> "idle"] /\ object = [p \in Importers |-> None]
  /\ temporary = [p \in Importers |-> "none"]
  /\ leaked = 0 /\ kills = 0 /\ losses = 0 /\ promised = {} /\ listing = "none"

Goto(p, next) == stage' = [stage EXCEPT ![p] = next]

\* The importer returns, with an answer or an error: its temporary file is removed
\* (NamedTempFile::drop) and the descriptor that holds the lock is closed.
Leave(p) ==
  /\ Goto(p, "idle") /\ object' = [object EXCEPT ![p] = None]
  /\ temporary' = [temporary EXCEPT ![p] = "none"]
  /\ holder' = IF holder = p THEN None ELSE holder

-----------------------------------------------------------------------------
(* An import: import_observation and restore, compiler::import, record.    *)

Begin(p) ==
  /\ stage[p] = "idle"
  /\ \E o \in Objects : object' = [object EXCEPT ![p] = o]
  /\ Goto(p, "open")
  /\ UNCHANGED <<kind, directory, lockfile, temporary, holder, ghosts>>

OpenLock(p) ==
  /\ stage[p] = "open" /\ lockfile' = TRUE /\ Goto(p, "wait")
  /\ UNCHANGED <<kind, directory, object, temporary, holder, ghosts>>

Acquire(p) ==
  /\ stage[p] = "wait" /\ holder = None
  /\ holder' = p /\ Goto(p, "list")
  /\ UNCHANGED <<kind, directory, lockfile, object, temporary, ghosts>>

\* Past the deadline of two seconds.
DeadlineExceeded(p) ==
  /\ stage[p] = "wait" /\ holder # None
  /\ Leave(p)
  /\ UNCHANGED <<kind, directory, lockfile, ghosts>>

\* json_names: neither too many entries nor too many objects.
ListingFits == Entries <= MaxEntries /\ Cardinality(Names) <= MaxObjects

HasRoom == Cardinality(Names) < MaxObjects

\* A review is preceded by reading all of them.
ReadFirst == kind = "review" => \A o \in Names : Readable(o)

\* An object that is there already is read and answered for, whoever published it.
List(p) ==
  /\ stage[p] = "list"
  /\ IF ListingFits /\ ReadFirst /\ object[p] \notin Names /\ HasRoom
     THEN Goto(p, "create") /\ UNCHANGED <<object, temporary, holder>>
     ELSE Leave(p)
  /\ UNCHANGED <<kind, directory, lockfile, ghosts>>

CreateTemporary(p) ==
  /\ stage[p] = "create" /\ Goto(p, "write")
  /\ temporary' = [temporary EXCEPT ![p] = "empty"]
  /\ UNCHANGED <<kind, directory, lockfile, object, holder, ghosts>>

WriteTemporary(p) ==
  /\ stage[p] = "write" /\ Goto(p, "sync")
  /\ temporary' = [temporary EXCEPT ![p] = "written"]
  /\ UNCHANGED <<kind, directory, lockfile, object, holder, ghosts>>

SyncTemporary(p) ==
  /\ stage[p] = "sync" /\ Goto(p, "rename")
  /\ temporary' = [temporary EXCEPT ![p] = "synced"]
  /\ UNCHANGED <<kind, directory, lockfile, object, holder, ghosts>>

\* RENAME_NOREPLACE: nothing of that name exists, or the object is left alone.
Rename(p) ==
  /\ stage[p] = "rename"
  /\ IF object[p] \in Names
     THEN Goto(p, "answer") /\ UNCHANGED directory
     ELSE /\ content' = [content EXCEPT ![object[p]] =
                           IF temporary[p] = "synced" THEN "whole" ELSE "unsynced"]
          /\ volatile' = volatile \cup {object[p]}
          /\ Goto(p, "directory")
  /\ temporary' = [temporary EXCEPT ![p] = "none"]
  /\ UNCHANGED <<kind, lockfile, object, holder, ghosts>>

\* Faulty: the directory is not synced.
SyncDirectoryNever(p) ==
  /\ stage[p] = "directory" /\ Goto(p, "answer")
  /\ UNCHANGED <<kind, directory, lockfile, object, temporary, holder, ghosts>>

SyncDirectory(p) ==
  /\ stage[p] = "directory" /\ Goto(p, "answer") /\ volatile' = {}
  /\ UNCHANGED <<kind, content, lockfile, object, temporary, holder, ghosts>>

\* A compiler import is read again before it is answered.
Answer(p) ==
  /\ stage[p] = "answer"
  /\ promised' = IF Readable(object[p]) THEN promised \cup {object[p]} ELSE promised
  /\ Leave(p)
  /\ UNCHANGED <<kind, directory, lockfile, leaked, kills, losses, listing>>

\* An error of the file system, or a review cancelled at a checkpoint: before the
\* rename nothing was published, behind it the object stays.
Fail(p) ==
  /\ stage[p] # "idle"
  /\ Leave(p)
  /\ UNCHANGED <<kind, directory, lockfile, ghosts>>

-----------------------------------------------------------------------------
(* Faults, and a reader. *)

\* The kernel releases the flock; the temporary file stays.
Kill(p) ==
  /\ stage[p] # "idle" /\ kills < MaxKills /\ kills' = kills + 1
  /\ leaked' = IF temporary[p] = "none" THEN leaked ELSE leaked + 1
  /\ Leave(p)
  /\ UNCHANGED <<kind, directory, lockfile, losses, promised, listing>>

\* Names that were not synced may vanish, and content that was not may be torn.
PowerLoss ==
  /\ losses < MaxPowerLosses /\ losses' = losses + 1
  /\ \E lost \in SUBSET volatile :
       content' = [o \in Objects |-> IF o \in lost THEN "absent"
                                     ELSE IF content[o] = "unsynced" THEN "torn" ELSE content[o]]
  /\ volatile' = {}
  /\ stage' = [p \in Importers |-> "idle"] /\ object' = [p \in Importers |-> None]
  /\ temporary' = [p \in Importers |-> "none"] /\ holder' = None
  /\ leaked' = leaked + Cardinality(Temporaries)
  /\ UNCHANGED <<kind, lockfile, kills, promised, listing>>

\* A listing takes no lock.  It reads every object, and one bad object fails it.
ReadAll ==
  /\ listing' = IF ~ListingFits THEN "too many"
                ELSE IF \A o \in Names : Readable(o) THEN "objects" ELSE "corrupt"
  /\ UNCHANGED <<kind, directory, lockfile, processes, leaked, kills, losses, promised>>

Next ==
  \/ ReadAll \/ PowerLoss
  \/ \E p \in Importers :
       \/ Begin(p) \/ OpenLock(p) \/ Acquire(p) \/ DeadlineExceeded(p) \/ List(p)
       \/ CreateTemporary(p) \/ WriteTemporary(p) \/ SyncTemporary(p)
       \/ Rename(p) \/ SyncDirectory(p) \/ Answer(p) \/ Fail(p) \/ Kill(p)

Spec == Init /\ [][Next]_vars

-----------------------------------------------------------------------------
(* Properties. *)

\* However many processes import at once, and whichever are killed, a directory
\* never holds more objects than its limit: with one more every listing would fail.
LimitIsHeld == Cardinality(Names) <= MaxObjects

\* An object whose publisher answered survives a loss of power, whole.  Nothing is
\* said of an importer that answers for an object it found: its publisher may have
\* been killed before it synced the directory.
PromisedIsDurable == \A o \in promised : content[o] = "whole" /\ o \notin volatile

\* No object is ever torn, so no listing fails for one interrupted import.
ObjectsAreWhole == \A o \in Names : Readable(o) /\ listing # "corrupt"

\* Every interrupted process leaves at most one entry, so listings and imports keep
\* working until as many were interrupted as the limits leave room for.
InterruptionsAreCounted ==
  /\ Entries <= Cardinality(Names) + 2 + Interruptions
  /\ listing = "too many" => MaxObjects + 2 + Interruptions > MaxEntries

-----------------------------------------------------------------------------
(* The inductive invariant behind the four.                                 *)

\* What an importer that holds the lock has found out stays true until it lets go of
\* it: nobody else adds a name.
KnowsTheDirectory(p) ==
  /\ stage[p] # "idle" => object[p] \in Objects
  /\ stage[p] \in {"create", "write", "sync", "rename"} => object[p] \notin Names /\ HasRoom
  /\ temporary[p] = CASE stage[p] = "write" -> "empty"
                       [] stage[p] = "sync" -> "written"
                       [] stage[p] = "rename" -> "synced"
                       [] OTHER -> "none"
  /\ stage[p] = "answer" => volatile = {}

EvidenceInvariant ==
  /\ TypeOK
  /\ lockfile \in BOOLEAN /\ holder \in Importers \cup {None} /\ promised \subseteq Objects
  /\ leaked \in Nat /\ kills \in Nat /\ losses \in Nat
  /\ IsFiniteSet(Names) /\ LimitIsHeld
  /\ \A o \in Names : content[o] = "whole"
  /\ \A p \in Importers : KnowsTheDirectory(p)
  /\ PromisedIsDurable
  /\ listing \in {"none", "objects", "too many"}
  /\ listing = "too many" => MaxObjects + 2 + Interruptions > MaxEntries

\* Concurrent and interrupted imports keep the limit, the files whole, the promises durable
\* and the leftovers bounded.
ImportsAreKept ==
  EvidenceInvariant /\ LimitIsHeld /\ PromisedIsDurable /\ ObjectsAreWhole /\ InterruptionsAreCounted
=============================================================================
