------------------------------ MODULE Portable ------------------------------
(***************************************************************************)
(* Portable archives: a directory that holds a snapshot with its facts and *)
(* observations, and a manifest with the digest of every file.             *)
(* Source: src/crates/store/src/portable.rs, and the import command in     *)
(* src/crates/cli/src/main.rs.                                             *)
(*                                                                         *)
(* Several processes may export a snapshot to the same place, while its    *)
(* observations are still being imported.  Somebody may change the archive *)
(* while it is imported into another store.  A process may be killed at    *)
(* any step, and power may be lost.  The content of a file is the snapshot *)
(* it belongs to; digests and identities are equal when contents are.      *)
(***************************************************************************)
EXTENDS Naturals, Sequences, FiniteSets, SequencesExt

CONSTANTS Exporters,      \* processes that export the snapshot "s"
          Observations,   \* of "s"
          Foreign,        \* an observation of another snapshot, "t"
          MaxCopies,      \* bound: changes to the archive
          MaxFaults,      \* bound: losses of power
          None

Files == {"snapshot", "facts", Foreign} \cup Observations
Bundles == Observations \cup {Foreign}
Owner(o) == IF o = Foreign THEN "t" ELSE "s"

VARIABLES stored,       \* observations of "s" in the source store, as they were imported
          locked,       \* exporters that hold .import.lock, shared
          stage,        \* of every exporter
          seen, bundles,\* the names it has looked at, the observations it has read
          staging,      \* its private directory, or None
          archive,      \* the directory at the destination, or None
          settled,      \* a loss of power cannot take the destination away
          promised,     \* some export was answered
          copies, faults,
          importer,     \* the stage of the import
          want, got,    \* the manifest, and the files that were read
          published,    \* snapshots in the target store, with the facts they came with
          restored,     \* observations in the target store
          answered      \* the files of the last import that was answered, or None

vars == <<stored, locked, stage, seen, bundles, staging, archive, settled, promised, copies,
          faults, importer, want, got, published, restored, answered>>
exporting == <<locked, stage, seen, bundles, staging>>
destination == <<archive, settled, promised>>
importing == <<importer, want, got, published, restored, answered>>
bounds == <<copies, faults>>

-----------------------------------------------------------------------------
(* Archives: [files, manifest, synced].  A file is absent when it is not in *)
(* the domain of files; a manifest is [id, digests], or None if unreadable. *)

Contents == {"s", "t", "torn"}
Directories == UNION {[S -> Contents] : S \in SUBSET Files}
Manifests == [id : {"s", "t"}, digests : Directories]
Archives == [files : Directories, manifest : Manifests \cup {None}, synced : BOOLEAN]
With(files, f, content) ==
  [g \in DOMAIN files \cup {f} |-> IF g = f THEN content ELSE files[g]]
Only(files, S) == [g \in DOMAIN files \cap S |-> files[g]]
Complete(observations) == [f \in {"snapshot", "facts"} \cup observations |->
                             IF f \in Bundles THEN Owner(f) ELSE "s"]
Manifest(id, files) == [id |-> id, digests |-> files]

\* Files have names of their own.
PortableAssumption ==
  /\ Foreign \notin Observations /\ {"snapshot", "facts"} \cap Bundles = {}
  /\ None \notin Archives /\ None \notin Manifests /\ None \notin Directories

TypeOK ==
  /\ stored \in Seq(Observations) /\ locked \subseteq Exporters
  /\ stage \in [Exporters -> {"idle", "lock", "collect", "write", "sync", "rename", "parent"}]
  /\ seen \in [Exporters -> SUBSET Observations] /\ bundles \in [Exporters -> SUBSET Observations]
  /\ staging \in [Exporters -> Archives \cup {None}] /\ archive \in Archives \cup {None}
  /\ settled \in BOOLEAN /\ promised \in BOOLEAN /\ copies \in Nat /\ faults \in Nat
  /\ importer \in {"idle", "read", "restore"} /\ want \in Manifests \cup {None}
  /\ got \in Directories \cup {None} /\ answered \in Directories \cup {None}
  /\ restored \subseteq Bundles /\ published \subseteq [snapshot : {"s", "t"}, facts : Contents]

Init ==
  /\ stored = <<>> /\ locked = {}
  /\ stage = [e \in Exporters |-> "idle"] /\ seen = [e \in Exporters |-> {}]
  /\ bundles = [e \in Exporters |-> {}] /\ staging = [e \in Exporters |-> None]
  /\ archive = None /\ settled = FALSE /\ promised = FALSE
  /\ copies = 0 /\ faults = 0
  /\ importer = "idle" /\ want = None /\ got = None
  /\ published = {} /\ restored = {} /\ answered = None

-----------------------------------------------------------------------------
(* export_directory.                                                       *)

Goto(e, next) == stage' = [stage EXCEPT ![e] = next]

\* An export ends: its lock is released; its private directory goes with it, unless it
\* was killed, and then nobody looks at it.
Ends(e) ==
  /\ Goto(e, "idle") /\ locked' = locked \ {e}
  /\ seen' = [seen EXCEPT ![e] = {}] /\ bundles' = [bundles EXCEPT ![e] = {}]
  /\ staging' = [staging EXCEPT ![e] = None]

\* Nothing may be at the destination.  Without a directory of observations there is
\* none to read.
Begin(e) ==
  /\ stage[e] = "idle" /\ archive = None
  /\ \/ stored = <<>> /\ Goto(e, "write")
     \/ Goto(e, "lock")
  /\ UNCHANGED <<stored, locked, seen, bundles, staging, destination, bounds, importing>>

\* Faulty: the lock is not taken.
LockNever(e) ==
  /\ stage[e] = "lock" /\ Goto(e, "collect")
  /\ UNCHANGED <<stored, locked, seen, bundles, staging, destination, bounds, importing>>

LockShared(e) ==
  /\ stage[e] = "lock" /\ Goto(e, "collect") /\ locked' = locked \cup {e}
  /\ UNCHANGED <<stored, seen, bundles, staging, destination, bounds, importing>>

\* The directory is listed in any order, every object in it read and checked.
Collect(e) ==
  /\ stage[e] = "collect"
  /\ \E o \in Observations \ seen[e] :
       /\ seen' = [seen EXCEPT ![e] = @ \cup {o}]
       /\ bundles' = [bundles EXCEPT ![e] = @ \cup ({o} \cap ToSet(stored))]
  /\ UNCHANGED <<stored, locked, stage, staging, destination, bounds, importing>>

Collected(e) ==
  /\ stage[e] = "collect" /\ seen[e] = Observations
  /\ locked' = locked \ {e} /\ Goto(e, "write")
  /\ UNCHANGED <<stored, seen, bundles, staging, destination, bounds, importing>>

\* Every artifact is written and synced, then the manifest of them all.
WriteArtifacts(e) ==
  /\ stage[e] = "write" /\ Goto(e, "sync")
  /\ LET files == Complete(bundles[e])
     IN staging' = [staging EXCEPT ![e] =
                      [files |-> files, manifest |-> Manifest("s", files), synced |-> FALSE]]
  /\ UNCHANGED <<stored, locked, seen, bundles, destination, bounds, importing>>

SyncStaging(e) ==
  /\ stage[e] = "sync" /\ Goto(e, "rename")
  /\ staging' = [staging EXCEPT ![e].synced = TRUE]
  /\ UNCHANGED <<stored, locked, seen, bundles, destination, bounds, importing>>

\* RENAME_NOREPLACE: whoever comes second fails.
Rename(e) ==
  /\ stage[e] = "rename"
  /\ IF archive = None
     THEN /\ archive' = staging[e] /\ Goto(e, "parent")
          /\ staging' = [staging EXCEPT ![e] = None]
          /\ UNCHANGED <<locked, seen, bundles>>
     ELSE Ends(e) /\ UNCHANGED archive
  /\ UNCHANGED <<stored, settled, promised, bounds, importing>>

SyncParent(e) ==
  /\ stage[e] = "parent" /\ settled' = TRUE /\ promised' = TRUE /\ Ends(e)
  /\ UNCHANGED <<stored, archive, bounds, importing>>

\* An error, five seconds in front of the lock, a budget, or the process is killed.
ExportFails(e) ==
  /\ stage[e] # "idle" /\ Ends(e)
  /\ UNCHANGED <<stored, destination, bounds, importing>>

-----------------------------------------------------------------------------
(* import_directory, and the import command.                               *)

\* The manifest is read once; it names some files, which are read one by one.
OpenArchive ==
  /\ importer = "idle" /\ archive # None /\ archive.manifest # None
  /\ Cardinality(DOMAIN archive.manifest.digests) >= 2
  /\ importer' = "read" /\ want' = archive.manifest /\ got' = <<>>
  /\ UNCHANGED <<stored, exporting, destination, bounds, published, restored, answered>>

\* The digest of what was read is the one of the manifest.
Matches(f) == f \in DOMAIN archive.files /\ archive.files[f] = want.digests[f]

ReadFile ==
  /\ importer = "read"
  /\ \E f \in DOMAIN want.digests \ DOMAIN got :
       /\ Matches(f)
       /\ got' = With(got, f, archive.files[f])
  /\ UNCHANGED <<stored, exporting, destination, bounds, importer, want, published, restored, answered>>

\* All files are there, and snapshot, facts and observations belong together.
Verified ==
  /\ {"snapshot", "facts"} \subseteq DOMAIN got /\ DOMAIN got = DOMAIN want.digests
  /\ got["snapshot"] = got["facts"] /\ got["snapshot"] = want.id
  /\ \A o \in Bundles \cap DOMAIN got : got[o] = got["snapshot"]

\* The lease is held from here to the last observation.
Publish ==
  /\ importer = "read" /\ Verified
  /\ importer' = "restore"
  /\ published' = published \cup {[snapshot |-> got["snapshot"], facts |-> got["facts"]]}
  /\ UNCHANGED <<stored, exporting, destination, bounds, want, got, restored, answered>>

Restore ==
  /\ importer = "restore"
  /\ \E o \in (Bundles \cap DOMAIN got) \ restored : restored' = restored \cup {o}
  /\ UNCHANGED <<stored, exporting, destination, bounds, importer, want, got, published, answered>>

AnswerImport ==
  /\ importer = "restore" /\ Bundles \cap DOMAIN got \subseteq restored
  /\ importer' = "idle" /\ want' = None /\ got' = None /\ answered' = got
  /\ UNCHANGED <<stored, exporting, destination, bounds, published, restored>>

\* An error, a head that moved, the limit on observations, or the process is killed:
\* what was published and restored stays, and the import may be repeated.
ImportFails ==
  /\ importer # "idle" /\ importer' = "idle" /\ want' = None /\ got' = None
  /\ UNCHANGED <<stored, exporting, destination, bounds, published, restored, answered>>

-----------------------------------------------------------------------------
(* Others. *)

\* An observation is imported under the exclusive lock.
StoreObservation ==
  /\ locked = {}
  /\ \E o \in Observations \ ToSet(stored) : stored' = Append(stored, o)
  /\ UNCHANGED <<exporting, destination, bounds, importing>>

\* Somebody copies a file of an archive of "t" over the archive, has copied a part of
\* it, or removes a file.
CopyFile ==
  /\ archive # None /\ copies < MaxCopies /\ copies' = copies + 1
  /\ \E f \in Files :
       \/ f \notin Observations /\ \E content \in {"t", "torn"} :
            archive' = [archive EXCEPT !.files = With(@, f, content)]
       \/ archive' = [archive EXCEPT !.files = Only(@, Files \ {f})]
  /\ UNCHANGED <<stored, exporting, settled, promised, faults, importing>>

\* The same with the manifest, or a manifest is made that fits the files.
CopyManifest ==
  /\ archive # None /\ copies < MaxCopies /\ copies' = copies + 1
  /\ \E manifest \in {None, Manifest("t", [f \in {"snapshot", "facts", Foreign} |-> "t"])} \cup
                     {Manifest(id, archive.files) : id \in {"s", "t"}} :
       archive' = [archive EXCEPT !.manifest = manifest]
  /\ UNCHANGED <<stored, exporting, settled, promised, faults, importing>>

\* Names that were not synced may be gone; no process goes on.
PowerLoss ==
  /\ faults < MaxFaults /\ faults' = faults + 1
  /\ \/ ~settled /\ archive' = None
     \/ archive # None /\ ~archive.synced /\ \E S \in SUBSET DOMAIN archive.files :
          archive' = [archive EXCEPT !.files = Only(@, S), !.synced = TRUE]
     \/ UNCHANGED archive
  /\ settled' = (archive' # None)
  /\ locked' = {} /\ stage' = [e \in Exporters |-> "idle"]
  /\ seen' = [e \in Exporters |-> {}] /\ bundles' = [e \in Exporters |-> {}]
  /\ staging' = [e \in Exporters |-> None]
  /\ importer' = "idle" /\ want' = None /\ got' = None
  /\ UNCHANGED <<stored, promised, copies, published, restored, answered>>

Next ==
  \/ \E e \in Exporters :
       \/ Begin(e) \/ LockShared(e) \/ Collect(e) \/ Collected(e) \/ WriteArtifacts(e)
       \/ SyncStaging(e) \/ Rename(e) \/ SyncParent(e) \/ ExportFails(e)
  \/ OpenArchive \/ ReadFile \/ Publish \/ Restore \/ AnswerImport \/ ImportFails
  \/ StoreObservation \/ CopyFile \/ CopyManifest \/ PowerLoss

Spec == Init /\ [][Next]_vars

-----------------------------------------------------------------------------
(* Properties. *)

\* The sets of observations that the store has held.
Moments == {ToSet(SubSeq(stored, 1, n)) : n \in 0..Len(stored)}
Exported(files) == \E S \in Moments : files = Complete(S)

\* Whatever is at the destination, however many processes export to it, whichever are
\* killed and when power is lost, is a complete export until somebody changes it: with
\* the manifest of its files, and the observations that the store held at one moment.
ArchiveIsWhole ==
  archive # None /\ copies = 0 =>
    Exported(archive.files) /\ archive.manifest = Manifest("s", archive.files)

\* An export that was answered survives a loss of power.
AnsweredExportStays == promised => archive # None

\* However the archive changes under an import, only a snapshot with its own facts is
\* published, and no observation is restored without its snapshot.
ImportsBelongTogether ==
  /\ \A p \in published : p.snapshot = p.facts
  /\ \A o \in restored : \E p \in published : p.snapshot = Owner(o)

\* An import that was answered has brought everything the archive held, also one that
\* finished what an earlier one had begun.
ImportIsWhole ==
  answered # None =>
    /\ \E p \in published : p.snapshot = answered["snapshot"]
    /\ Bundles \cap DOMAIN answered \subseteq restored
    /\ copies = 0 => Exported(answered)

\* The inductive invariant.  An export collects under the lock what the store holds, and
\* has then what the store held; what it has made is complete, and synced when it is renamed.
ExportKeeps(e) ==
  /\ stage[e] \in {"idle", "lock"} => seen[e] = {} /\ bundles[e] = {}
  /\ stage[e] = "collect" => e \in locked /\ bundles[e] = seen[e] \cap ToSet(stored)
  /\ stage[e] = "write" => bundles[e] \in Moments
  /\ stage[e] \in {"sync", "rename"} =>
       /\ staging[e] # None /\ Exported(staging[e].files)
       /\ staging[e].manifest = Manifest("s", staging[e].files)
  /\ stage[e] = "rename" => staging[e].synced
  /\ stage[e] = "parent" => archive # None

\* An observation names its snapshot, unless the file is torn.
NamesOwner(files) == \A o \in Bundles \cap DOMAIN files : files[o] \in {Owner(o), "torn"}

DestinationKeeps ==
  /\ promised => settled
  /\ settled => archive # None
  /\ archive # None => archive.synced /\ NamesOwner(archive.files)

\* An import has read what its manifest says.
ImportKeeps ==
  /\ importer # "idle" =>
       /\ want # None /\ got # None /\ NamesOwner(got) /\ archive # None
       /\ \A f \in DOMAIN got : f \in DOMAIN want.digests /\ got[f] = want.digests[f]
       /\ copies = 0 => want = archive.manifest
  /\ importer = "restore" =>
       Verified /\ [snapshot |-> got["snapshot"], facts |-> got["facts"]] \in published

PortableInvariant ==
  /\ TypeOK /\ (\A e \in Exporters : ExportKeeps(e)) /\ DestinationKeeps /\ ImportKeeps
  /\ ArchiveIsWhole /\ AnsweredExportStays /\ ImportsBelongTogether /\ ImportIsWhole

\* An archive is whole whichever exports are killed or race, and an import of one that is
\* changed under it mixes no snapshots.
ArchivesAreWhole ==
  /\ PortableInvariant /\ ArchiveIsWhole /\ AnsweredExportStays
  /\ ImportsBelongTogether /\ ImportIsWhole
=============================================================================
