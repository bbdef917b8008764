------------------------------ MODULE Capture -------------------------------
(***************************************************************************)
(* Capturing the sources of a workspace that somebody may be editing.      *)
(* Source: src/crates/ingest/src/capture.rs.                               *)
(*                                                                         *)
(* The tree is walked twice through a descriptor of its root; a capture is *)
(* accepted when both walks saw the same, and the root is still the        *)
(* workspace.  The code claims no transaction: a file that was changed and *)
(* changed back in between may be missed.  Names are numbered in the order *)
(* in which a walk takes them, so that a directory comes before what is in *)
(* it and that before what follows the directory; directories stay.        *)
(***************************************************************************)
EXTENDS Integers, FiniteSets, FiniteSetsExt

CONSTANTS Entries,     \* name -> [parent, kind]; names are numbers, 0 is the root
          Contents,    \* of a file; Missing stands for no file
          Unreadable,  \* contents that are not UTF-8
          Missing,
          MaxFiles, MaxEntries,
          MaxEdits     \* bound: changes to the tree

Names == DOMAIN Entries
Kind(n) == Entries[n].kind
Captured(n) == Kind(n) \in {"source", "manifest"}
Editable == {n \in Names : Captured(n)}
Links == {n \in Names : Kind(n) = "symlink"}

VARIABLES content,     \* of every file that may be captured
          root,        \* does the workspace still name the root that was opened?
          edits,
          state,       \* "walking", "done" or "failed"
          pass, todo,  \* the walk, and the entries that are left of it
          reading,     \* the open file, or <<>>
          seen, entries, first,  \* what this walk has seen, and what the first one saw
          moments,     \* what there was to see, at every moment so far
          returned     \* a file looks as it did before it was changed

vars == <<content, root, edits, state, pass, todo, reading, seen, entries, first, moments, returned>>
tree == <<content, root, edits, moments, returned>>
walk == <<pass, todo, reading, seen, entries, first>>

-----------------------------------------------------------------------------
(* What there is to see: a content, a warning, or nothing.                 *)

Look(c) == IF c \in Unreadable THEN "warning" ELSE c
Appears(c) == IF c = Missing THEN Missing ELSE Look(c)
Files == [Editable -> Contents \cup {Missing}]
Sight(files) ==
  [n \in Links \cup {m \in Editable : files[m] # Missing} |->
     IF n \in Links THEN "warning" ELSE Look(files[n])]
Sights == {Sight(files) : files \in Files}

\* How file n looks at a moment or to a walk.
Shows(m, n) == IF n \in DOMAIN m THEN m[n] ELSE Missing

Present(n) == n \in Editable => content[n] # Missing
Listing(directory) == {n \in Names : Entries[n].parent = directory /\ Present(n)}

Readings == [held : Contents, part : Contents \cup {Missing}, changed : BOOLEAN, linked : BOOLEAN]
Walks == UNION {[S -> Contents \cup {"warning", "torn"}] : S \in SUBSET (Editable \cup Links)}

CaptureAssumption ==
  /\ Names \subseteq Nat \ {0} /\ MaxEntries \in Nat
  /\ Missing \notin Contents \cup {"warning", "torn"}
  /\ \A n \in Names :
       \/ Entries[n].parent = 0
       \/ Entries[n].parent \in Names /\ Entries[n].parent < n /\ Kind(Entries[n].parent) = "directory"

TypeOK ==
  /\ content \in Files /\ root \in BOOLEAN /\ edits \in Nat
  /\ state \in {"walking", "done", "failed"} /\ pass \in 1..2
  /\ todo \subseteq Names /\ reading \in Readings \cup {<<>>} /\ entries \in 0..MaxEntries
  /\ seen \in Walks /\ first \in Walks
  /\ moments \subseteq Sights /\ returned \in BOOLEAN

Init ==
  /\ content \in Files
  /\ root = TRUE /\ edits = 0
  /\ state = "walking" /\ pass = 1 /\ todo = Listing(0)
  /\ reading = <<>> /\ seen = <<>> /\ entries = 0 /\ first = <<>>
  /\ moments = {Sight(content)} /\ returned = FALSE

-----------------------------------------------------------------------------
(* The walk: scan_dir.                                                     *)

\* An error of any step ends the capture, and with it what was seen.
Fail ==
  /\ state = "walking" /\ state' = "failed"
  /\ pass' = 1 /\ todo' = {} /\ reading' = <<>> /\ seen' = <<>> /\ entries' = 0 /\ first' = <<>>
  /\ UNCHANGED tree

\* The next entry; a file is finished when it was read.
AtEntry == state = "walking" /\ todo # {} /\ reading = <<>>
AtEnd == state = "walking" /\ todo = {}
Entry == Min(todo)
Past == todo' = todo \ {Entry}
See(sight) ==
  seen' = [n \in DOMAIN seen \cup {Entry} |-> IF n = Entry THEN sight ELSE seen[n]]
Counted == entries' = entries + 1 /\ entries < MaxEntries

\* Names that are left out, and files that are neither source nor manifest.
Skip ==
  /\ AtEntry /\ Kind(Entry) = "other" /\ Counted
  /\ Past
  /\ UNCHANGED <<tree, state, pass, reading, seen, first>>

Warn ==
  /\ AtEntry /\ Kind(Entry) = "symlink" /\ Counted
  /\ Past /\ See("warning")
  /\ UNCHANGED <<tree, state, pass, reading, first>>

\* A directory is listed when it is entered, before any of its files is opened.
Enter ==
  /\ AtEntry /\ Kind(Entry) = "directory" /\ Counted
  /\ todo' = Listing(Entry) \cup (todo \ {Entry})
  /\ UNCHANGED <<tree, state, pass, reading, seen, first>>

\* The descriptor follows the file, also when another takes its name.
Open ==
  /\ AtEntry /\ Captured(Entry) /\ Counted
  /\ Present(Entry) /\ Cardinality({n \in DOMAIN seen : seen[n] # "warning"}) < MaxFiles
  /\ reading' = [held |-> content[Entry], part |-> Missing, changed |-> FALSE, linked |-> TRUE]
  /\ UNCHANGED <<tree, state, pass, todo, seen, first>>

ReadPart ==
  /\ state = "walking" /\ reading # <<>> /\ reading.part = Missing
  /\ reading' = [reading EXCEPT !.part = reading.held]
  /\ UNCHANGED <<tree, state, pass, todo, seen, entries, first>>

\* The rest; size and modification time are those of the beginning.
ReadRest ==
  /\ state = "walking" /\ reading # <<>> /\ reading.part # Missing /\ ~reading.changed
  /\ Past /\ reading' = <<>>
  /\ See(IF reading.part = reading.held THEN Look(reading.held) ELSE "torn")
  /\ UNCHANGED <<tree, state, pass, entries, first>>

WalkAgain ==
  /\ AtEnd /\ pass = 1
  /\ pass' = 2 /\ todo' = Listing(0) /\ first' = seen /\ seen' = <<>> /\ entries' = 0
  /\ UNCHANGED <<tree, state, reading>>

\* Faulty: the walks are not compared.
Unchecked == root /\ \E n \in DOMAIN seen : Kind(n) = "source" /\ seen[n] # "warning"

\* Both walks saw the same, the workspace is still that root, and there is a source.
Accepted == /\ first = seen /\ root
            /\ \E n \in DOMAIN seen : Kind(n) = "source" /\ seen[n] # "warning"

Accept ==
  /\ AtEnd /\ pass = 2 /\ Accepted
  /\ state' = "done" /\ UNCHANGED <<tree, walk>>

-----------------------------------------------------------------------------
(* Others.                                                                 *)

\* A file gets a content, written in place or moved over it; it is added or removed.
\* What is written while a file is open moves its modification time.
Edit ==
  /\ state = "walking" /\ edits < MaxEdits /\ edits' = edits + 1
  /\ \E n \in Editable, c \in Contents \cup {Missing}, in_place \in BOOLEAN :
       /\ c # content[n] /\ (in_place => content[n] # Missing /\ c # Missing)
       /\ content' = [content EXCEPT ![n] = c]
       /\ returned' = (returned \/ \E m \in moments : Shows(m, n) = Appears(c))
       /\ reading' = IF reading = <<>> \/ n # Entry \/ ~reading.linked THEN reading
                     ELSE IF in_place THEN [reading EXCEPT !.held = c, !.changed = TRUE]
                     ELSE [reading EXCEPT !.linked = FALSE]
  /\ moments' = moments \cup {Sight(content')}
  /\ UNCHANGED <<root, state, pass, todo, seen, entries, first>>

\* Another directory becomes the workspace, or this one becomes it again.
MoveRoot ==
  /\ state = "walking" /\ edits < MaxEdits /\ edits' = edits + 1
  /\ root' = ~root
  /\ UNCHANGED <<content, moments, returned, state, walk>>

Next ==
  \/ Skip \/ Warn \/ Enter \/ Open \/ ReadPart \/ ReadRest \/ WalkAgain \/ Accept \/ Fail
  \/ Edit \/ MoveRoot

Spec == Init /\ [][Next]_vars

-----------------------------------------------------------------------------
(* Properties. *)

\* Whatever is edited, added, removed or moved while the tree is walked, a capture is
\* what the workspace contained at one moment, unless a file was changed back.
CaptureIsOneMoment ==
  state = "done" /\ ~returned => seen \in moments

\* No file of a capture is torn or invented, though files were changed back: each is as
\* the workspace had it at some moment, and the workspace is the one that was walked.
FilesAreReal ==
  state = "done" =>
    /\ root
    /\ \A n \in DOMAIN seen : \E m \in moments : n \in DOMAIN m /\ m[n] = seen[n]

\* The inductive invariant.  D is what a walk has decided: what it has seen, and the files
\* that were not there when their directory was listed.
Was(n, sight) == \E m \in moments : Shows(m, n) = sight

Decided(D) ==
  /\ D \cap todo = {} /\ DOMAIN seen \subseteq D
  /\ \A n \in Names : n \in D \cup todo <=> Entries[n].parent \in D \cup {0}
  /\ \A n \in D \cap Links : n \in DOMAIN seen
  /\ \A n \in D \cap Editable : Was(n, Shows(seen, n))

\* What the first walk saw of a file is what there was at moment t, between the walks; or
\* it was gone by then, and unless it came back the second walk does not find it.
Between(t, D) ==
  \A n \in Editable : Shows(first, n) # Shows(t, n) =>
    /\ Was(n, Shows(first, n)) /\ Appears(content[n]) # Shows(first, n)
    /\ n \in D => Shows(seen, n) # Shows(first, n)
    /\ reading # <<>> /\ n = Entry => Look(reading.held) # Shows(first, n)

\* What an open file holds was there, and what was read of it is what it holds.
ReadingKeeps ==
  /\ todo # {} /\ Entry \in Editable /\ Was(Entry, Look(reading.held))
  /\ reading.part # Missing /\ ~reading.changed => reading.part = reading.held

CaptureInvariant ==
  /\ TypeOK /\ Sight(content) \in moments
  /\ \A n \in Links : (n \in DOMAIN seen => seen[n] = "warning")
  /\ state = "walking" =>
       /\ reading # <<>> => ReadingKeeps
       /\ \E D \in SUBSET Names :
            /\ Decided(D)
            /\ pass = 2 /\ ~returned => \E t \in moments : Between(t, D)
  /\ CaptureIsOneMoment /\ FilesAreReal

\* What is captured of a workspace that is edited meanwhile is what it contained at one
\* moment, as far as two walks can tell.
CapturesAreReal == CaptureInvariant /\ CaptureIsOneMoment /\ FilesAreReal
=============================================================================
