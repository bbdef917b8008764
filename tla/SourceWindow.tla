---------------------------- MODULE SourceWindow ----------------------------
(***************************************************************************)
(* Reading an archived source and cutting a window of its lines.           *)
(* Source: src/crates/store/src/reader.rs (source_with_stop,               *)
(* read_source_text, source_digest) and src/crates/query/src/lib.rs        *)
(* (source_window, source_at_byte, source_line_at).                        *)
(*                                                                         *)
(* The file is read in chunks that may split a character, decoded as it is *)
(* read, checked against the digest of the snapshot, and its identity is   *)
(* compared with the one it had when it was opened, as someone may write   *)
(* to it meanwhile.  A byte is a newline, an ordinary character, or the    *)
(* lead or the continuation of a character of two bytes.                   *)
(***************************************************************************)
EXTENDS Naturals, Sequences, FiniteSets

CONSTANTS MaxBytes,      \* length of the longest file
          Chunk,         \* bytes per read (64 KiB)
          SourceBytes,   \* bytes of the longest window
          MaxLines,      \* line_count of the longest request (1000)
          MaxWrites      \* writes of others to the file

Byte == {"newline", "char", "lead", "cont"}
Contents == UNION {[1..n -> Byte] : n \in 0..MaxBytes}
WellFormed(s) == \A i \in 1..Len(s) : (s[i] = "lead") <=> (i < Len(s) /\ s[i + 1] = "cont")
WellEncoded(s) == WellFormed(s) /\ (s # <<>> => s[1] # "cont")

VARIABLES archived,      \* the text the snapshot was made from
          file,          \* the bytes of the source object now
          version,       \* its identity: it changes with every write
          request,       \* "line" or "byte", the line or the byte, and line_count
          opened,        \* the identity at opening
          text, pending, \* decoded so far, and an incomplete character
          position,      \* bytes read
          window,        \* the answer: first and last byte, start_line, truncated
          state

vars == <<archived, file, version, request, opened, text, pending, position, window, state>>
disk == <<archived, file, version, request>>

Smaller(a, b) == IF a < b THEN a ELSE b

-----------------------------------------------------------------------------
SourceAssumption ==
  /\ MaxBytes \in Nat /\ Chunk \in Nat /\ SourceBytes \in Nat /\ MaxLines \in Nat /\ MaxWrites \in Nat

TypeOK ==
  /\ archived \in Contents /\ WellEncoded(archived)
  /\ file \in Contents /\ version \in 0..MaxWrites /\ opened \in 0..MaxWrites
  /\ request \in [by : {"line", "byte"}, at : 0..MaxBytes, lines : 0..MaxLines]
  /\ state \in {"open", "read", "verify", "cut", "done", "failed"}
  /\ text \in Seq(Byte) /\ WellEncoded(text) /\ pending \in Seq(Byte) /\ Len(pending) <= 1
  /\ position = Len(text) + Len(pending) /\ position <= Len(file)

Init ==
  /\ archived \in {s \in Contents : WellEncoded(s)}
  /\ file = archived /\ version = 0
  /\ request \in [by : {"line", "byte"}, at : 0..MaxBytes, lines : 0..MaxLines]
  /\ opened = 0 /\ text = <<>> /\ pending = <<>> /\ position = 0
  /\ window = [first |-> 1, last |-> 0, start_line |-> 1, truncated |-> FALSE]
  /\ state = "open"

\* Someone writes to the object, which is read-only and never written by Atlas.
Write ==
  /\ version < MaxWrites /\ state \in {"open", "read", "verify"}
  /\ \E i \in 1..Len(file), b \in Byte : b # file[i] /\ file' = [file EXCEPT ![i] = b]
  /\ version' = version + 1
  /\ UNCHANGED <<archived, request, opened, text, pending, position, window, state>>

\* Stopped at a checkpoint, which lies in front of every step.
GiveUp ==
  /\ state \notin {"done", "failed"} /\ state' = "failed"
  /\ UNCHANGED <<disk, opened, text, pending, position, window>>

ValidLines == request.lines # 0 /\ (request.by = "line" => request.at # 0)

Open ==
  /\ state = "open"
  /\ IF ValidLines THEN opened' = version /\ state' = "read"
     ELSE state' = "failed" /\ UNCHANGED opened
  /\ UNCHANGED <<disk, text, pending, position, window>>

\* Faulty: an incomplete character at the end of a chunk is decoded as it is.
DecodedChunkwise(bytes, more) ==
  [ok |-> TRUE, length |-> Len(bytes)]

\* The decoded prefix of some bytes: all of them, or all but an incomplete last
\* character; none if they are malformed before that.
Decoded(bytes, more) ==
  LET n == IF more /\ bytes # <<>> /\ bytes[Len(bytes)] = "lead" THEN Len(bytes) - 1 ELSE Len(bytes)
      prefix == SubSeq(bytes, 1, n)
  IN IF WellEncoded(prefix) THEN [ok |-> TRUE, length |-> n] ELSE [ok |-> FALSE, length |-> 0]

\* One read: the incomplete character of the one before goes in front of it.
Read ==
  /\ state = "read"
  /\ LET n == Smaller(Chunk, Len(file) - position)
         bytes == pending \o SubSeq(file, position + 1, position + n)
         decoded == Decoded(bytes, n > 0)
     IN IF ~decoded.ok THEN state' = "failed" /\ UNCHANGED <<text, pending, position>>
        ELSE /\ text' = text \o SubSeq(bytes, 1, decoded.length)
             /\ pending' = SubSeq(bytes, decoded.length + 1, Len(bytes))
             /\ position' = position + n
             /\ state' = IF n = 0 THEN "verify" ELSE "read"
  /\ UNCHANGED <<disk, opened, window>>

\* The digest is the snapshot's, and the file was not written to since it was opened.
Verified == text = archived /\ version = opened

Verify ==
  /\ state = "verify"
  /\ state' = IF Verified THEN "cut" ELSE "failed"
  /\ UNCHANGED <<disk, opened, text, pending, position, window>>

Newlines(n) == {i \in 1..n : text[i] = "newline"}
CharBoundary(n) == n = Len(text) \/ text[n + 1] # "cont"

\* The line of the byte with offset n.
LineAt(n) == 1 + Cardinality(Newlines(n))

\* Where a line starts, and behind the last line of the window.
StartOf(line) == IF line = 1 THEN 0 ELSE CHOOSE i \in Newlines(Len(text)) : Cardinality(Newlines(i)) = line - 1
EndOf(line) == IF line > Cardinality(Newlines(Len(text))) THEN Len(text)
               ELSE CHOOSE i \in Newlines(Len(text)) : Cardinality(Newlines(i)) = line

\* A window too long ends in front of the character it would split.
Bounded(n) == IF CharBoundary(n) THEN n ELSE n - 1

\* A byte is asked for by its line, unless it lies outside or inside a character.
InvalidByte == request.by = "byte" /\ (request.at > Len(text) \/ ~CharBoundary(request.at))
LineAsked == IF request.by = "line" THEN request.at ELSE LineAt(request.at)

Cut ==
  /\ state = "cut"
  /\ LET line == LineAsked
     IN IF InvalidByte \/ line > 1 + Cardinality(Newlines(Len(text)))
        THEN state' = "failed" /\ UNCHANGED window
        ELSE LET start == StartOf(line)
                 end == Bounded(Smaller(EndOf(line + request.lines - 1), start + SourceBytes))
             IN /\ window' = [first |-> start + 1, last |-> end, start_line |-> line,
                              truncated |-> start > 0 \/ end < Len(text)]
                /\ state' = "done"
  /\ UNCHANGED <<disk, opened, text, pending, position>>

Next == Write \/ GiveUp \/ Open \/ Read \/ Verify \/ Cut

Spec == Init /\ [][Next]_vars

-----------------------------------------------------------------------------
(* Properties. *)

\* Whatever was written to the file while it was read, an answer is a part of the
\* text that the snapshot was made from, in whole characters, that starts with a
\* line and has no more lines than were asked for.
WindowIsOfTheSnapshot ==
  state = "done" =>
    /\ text = archived
    /\ window.first = 1 \/ archived[window.first - 1] = "newline"
    /\ WellEncoded(SubSeq(archived, window.first, window.last))
    /\ window.last - window.first + 1 <= SourceBytes
    /\ Cardinality({i \in window.first..window.last : archived[i] = "newline"}) <= request.lines

\* The window is the one that was asked for: it starts at the line, or at the line
\* of the byte, and holds that byte unless the bound on its length cut it off.
WindowIsWhereAsked ==
  state = "done" =>
    /\ Cardinality({i \in 1..window.first - 1 : archived[i] = "newline"}) = window.start_line - 1
    /\ request.by = "line" => window.start_line = request.at
    /\ request.by = "byte" /\ request.at < Len(archived) =>
         /\ window.first <= request.at + 1
         /\ window.last <= request.at => window.last - window.first + 1 >= SourceBytes - 1

\* The inductive invariant.  The lines are cut from what was checked, for a valid request.
SourceInvariant ==
  /\ TypeOK /\ WindowIsOfTheSnapshot /\ WindowIsWhereAsked
  /\ state \notin {"open", "failed"} => ValidLines
  /\ state \in {"cut", "done"} => text = archived

\* What a window shows is the text of the snapshot, at the place that was asked for, although
\* others write to the file.
WindowIsTrue == SourceInvariant /\ WindowIsOfTheSnapshot /\ WindowIsWhereAsked
=============================================================================
