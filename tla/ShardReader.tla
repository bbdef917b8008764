---------------------------- MODULE ShardReader -----------------------------
(***************************************************************************)
(* Opening the shard of a snapshot for reading, with the process-wide      *)
(* cache of verified shards.  Source: src/crates/store/src/lib.rs          *)
(* (FileIdentity, VerificationCache, verified_shard, reader_leased) and    *)
(* reader.rs (SnapshotReader).                                             *)
(*                                                                         *)
(* The digest of a shard is computed once per identity of its file; SQLite *)
(* then opens the file again, by its path.  Others may write to the file,  *)
(* move it away and back, or put another in its place at any moment; every *)
(* such change moves the ctime of the files it touches.                    *)
(***************************************************************************)
EXTENDS Naturals, Sequences, SequencesExt

CONSTANTS Openers,       \* threads that open the shard
          Inodes,
          MaxChanges,    \* of others
          VerifiedShards,\* VERIFIED_SHARDS
          None

Halves == 1..2
Stages == {"idle", "identify", "lookup", "first", "second", "recheck", "path", "remember",
           "connect", "check", "ready", "query"}

VARIABLES intact,        \* inode -> half -> does it hold what its name promises?
          ctime,         \* inode -> its change time
          at,            \* the inode at the path of the shard, or None
          changes,
          cache,         \* identities of verified files, the oldest first
          stage,
          file,          \* every opener: the inode of its descriptor
          identity,      \* the identity it goes by
          cached,        \* was that in the cache?
          digest_ok,     \* the part of the file read so far was intact
          connection     \* the inode that SQLite opened

vars == <<intact, ctime, at, changes, cache, stage, file, identity, cached, digest_ok, connection>>
disk == <<intact, ctime, at, changes>>

Identities == [inode : Inodes, changed : 0..MaxChanges]

\* The cache has room for a shard; MaxChanges is a bound of the model.
ShardsAssumption == VerifiedShards \in Nat \ {0} /\ MaxChanges \in Nat

-----------------------------------------------------------------------------
TypeOK ==
  /\ intact \in [Inodes -> [Halves -> BOOLEAN]] /\ ctime \in [Inodes -> 0..MaxChanges]
  /\ at \in Inodes \cup {None} /\ changes \in 0..MaxChanges
  /\ cache \in Seq(Identities) /\ Len(cache) <= VerifiedShards
  /\ stage \in [Openers -> Stages]
  /\ file \in [Openers -> Inodes \cup {None}] /\ connection \in [Openers -> Inodes \cup {None}]
  /\ \A p \in Openers : stage[p] \notin {"idle", "identify"} => identity[p].inode = file[p]

Init ==
  /\ intact \in [Inodes -> [Halves -> BOOLEAN]]
  /\ ctime = [i \in Inodes |-> 0] /\ at \in Inodes /\ changes = 0
  /\ cache = <<>>
  /\ stage = [p \in Openers |-> "idle"] /\ file = [p \in Openers |-> None]
  /\ identity = [p \in Openers |-> None] /\ cached = [p \in Openers |-> FALSE]
  /\ digest_ok = [p \in Openers |-> TRUE] /\ connection = [p \in Openers |-> None]

\* Faulty: the identity of a file is its inode, as if its content were immutable.
IdentityWithoutCtime(i) == [inode |-> i, changed |-> 0]
\* FileIdentity: device, inode, size, mode and both times.
Identity(i) == [inode |-> i, changed |-> ctime[i]]

\* A thread moves on, keeping what the step leaves alone.
Goto(p, next) == stage' = [stage EXCEPT ![p] = next]

\* It returns an error, or drops its reader: nothing is left but the cache.
Close(p) ==
  /\ Goto(p, "idle")
  /\ file' = [file EXCEPT ![p] = None] /\ identity' = [identity EXCEPT ![p] = None]
  /\ cached' = [cached EXCEPT ![p] = FALSE] /\ digest_ok' = [digest_ok EXCEPT ![p] = TRUE]
  /\ connection' = [connection EXCEPT ![p] = None]

-----------------------------------------------------------------------------
(* verified_shard: checksum, identity and path are compared one by one.     *)

Open(p) ==
  /\ stage[p] = "idle" /\ at # None
  /\ file' = [file EXCEPT ![p] = at] /\ Goto(p, "identify")
  /\ UNCHANGED <<disk, cache, identity, cached, digest_ok, connection>>

Identify(p) ==
  /\ stage[p] = "identify" /\ Goto(p, "lookup")
  /\ identity' = [identity EXCEPT ![p] = Identity(file[p])]
  /\ UNCHANGED <<disk, cache, file, cached, digest_ok, connection>>

\* try_lock: a contended cache holds nothing.
Lookup(p) ==
  /\ stage[p] = "lookup"
  /\ \E contended \in BOOLEAN :
       LET hit == ~contended /\ Contains(cache, identity[p])
       IN cached' = [cached EXCEPT ![p] = hit] /\ Goto(p, IF hit THEN "path" ELSE "first")
  /\ UNCHANGED <<disk, cache, file, identity, digest_ok, connection>>

\* The checksum reads the file piece by piece.
ReadHalf(p, half) ==
  /\ stage[p] = IF half = 1 THEN "first" ELSE "second"
  /\ Goto(p, IF half = 1 THEN "second" ELSE "recheck")
  /\ digest_ok' = [digest_ok EXCEPT ![p] = @ /\ intact[file[p]][half]]
  /\ UNCHANGED <<disk, cache, file, identity, cached, connection>>

Unchanged(p) == Identity(file[p]) = identity[p]

Recheck(p) ==
  /\ stage[p] = "recheck"
  /\ IF digest_ok[p] /\ Unchanged(p)
     THEN Goto(p, "path") /\ UNCHANGED <<file, identity, cached, digest_ok, connection>>
     ELSE Close(p)
  /\ UNCHANGED <<disk, cache>>

\* shard_identity: the file at the path is the one that was opened.
PathIs(p) == at # None /\ Identity(at) = identity[p]

CheckPath(p) ==
  /\ stage[p] = "path"
  /\ IF PathIs(p)
     THEN /\ Goto(p, IF cached[p] THEN "connect" ELSE "remember")
          /\ UNCHANGED <<file, identity, cached, digest_ok, connection>>
     ELSE Close(p)
  /\ UNCHANGED <<disk, cache>>

\* VerificationCache::insert, unless the cache is contended.  No identity is in it
\* twice, so that `retain` drops one entry at most.
Others(i) ==
  IF Contains(cache, i) THEN RemoveAt(cache, CHOOSE k \in 1..Len(cache) : cache[k] = i) ELSE cache
Inserted(i) ==
  LET others == Others(i)
      room == IF Len(others) >= VerifiedShards
              THEN SubSeq(others, Len(others) - VerifiedShards + 2, Len(others)) ELSE others
  IN Append(room, i)

Remember(p) ==
  /\ stage[p] = "remember" /\ Goto(p, "connect")
  /\ cache' \in {cache, Inserted(identity[p])}
  /\ UNCHANGED <<disk, file, identity, cached, digest_ok, connection>>

-----------------------------------------------------------------------------
(* SnapshotReader: SQLite opens the path, every query looks at both files.  *)

\* A shard of another format or manifest is refused; one that reads like it is not.
Connect(p) ==
  /\ stage[p] = "connect"
  /\ \/ at = None /\ Close(p)
     \/ /\ at # None /\ \E h \in Halves : ~intact[at][h]
        /\ Close(p)
     \/ /\ at # None
        /\ connection' = [connection EXCEPT ![p] = at] /\ Goto(p, "check")
        /\ UNCHANGED <<file, identity, cached, digest_ok>>
  /\ UNCHANGED <<disk, cache>>

\* check_identity: neither the verified file nor the one at the path is another.
Same(p) == Unchanged(p) /\ PathIs(p)

\* Behind opening it, and in front of every query.
CheckIdentity(p) ==
  /\ stage[p] \in {"check", "ready"}
  /\ IF Same(p)
     THEN /\ Goto(p, IF stage[p] = "check" THEN "ready" ELSE "query")
          /\ UNCHANGED <<file, identity, cached, digest_ok, connection>>
     ELSE Close(p)
  /\ UNCHANGED <<disk, cache>>

Query(p) ==
  /\ stage[p] = "query" /\ Goto(p, "ready")
  /\ UNCHANGED <<disk, cache, file, identity, cached, digest_ok, connection>>

\* The reader is dropped, or the open is stopped.
Drop(p) ==
  /\ stage[p] # "idle" /\ Close(p) /\ UNCHANGED <<disk, cache>>

-----------------------------------------------------------------------------
(* Others. *)

Touched(is) == ctime' = [i \in Inodes |-> IF i \in is THEN changes + 1 ELSE ctime[i]]

\* Someone writes to a file.
Write ==
  /\ changes < MaxChanges /\ changes' = changes + 1
  /\ \E i \in Inodes, h \in Halves :
       /\ intact' = [intact EXCEPT ![i][h] = ~@]
       /\ Touched({i})
  /\ UNCHANGED <<at, cache, stage, file, identity, cached, digest_ok, connection>>

\* Someone moves another file over the path, or takes the file away.
Move ==
  /\ changes < MaxChanges /\ changes' = changes + 1
  /\ at' \in (Inodes \cup {None}) \ {at}
  /\ Touched({at, at'} \ {None})
  /\ UNCHANGED <<intact, cache, stage, file, identity, cached, digest_ok, connection>>

Next ==
  \/ Write \/ Move
  \/ \E p \in Openers :
       \/ Open(p) \/ Identify(p) \/ Lookup(p) \/ (\E h \in Halves : ReadHalf(p, h)) \/ Recheck(p)
       \/ CheckPath(p) \/ Remember(p) \/ Connect(p) \/ CheckIdentity(p) \/ Query(p) \/ Drop(p)

Spec == Init /\ [][Next]_vars

-----------------------------------------------------------------------------
(* Properties. *)

Intact(i) == \A h \in Halves : intact[i][h]

\* The cache never vouches for a file that does not hold what its name promises:
\* not for one that changed while its checksum was computed, nor afterwards.
CacheIsSound ==
  \A k \in 1..Len(cache) :
    cache[k] = Identity(cache[k].inode) => Intact(cache[k].inode)

\* A reader that is handed out reads the very file that was verified, though SQLite
\* opened it by its path, and that file is intact as long as nobody changes it; a
\* query starts only while that is so or changes behind the check in front of it.
ReadersAreVerified ==
  \A p \in Openers : stage[p] \in {"ready", "query"} =>
    /\ connection[p] = file[p]
    /\ Unchanged(p) => Intact(file[p])

-----------------------------------------------------------------------------
(* The inductive invariant behind CacheIsSound and ReadersAreVerified.      *)

\* Every change moves a clock forward, so an identity that is true of a file now
\* has been true of it since it was read.
ClocksAdvance ==
  /\ \A i \in Inodes : ctime[i] <= changes
  /\ \A k \in 1..Len(cache) : cache[k].changed <= ctime[cache[k].inode]

CachedOnce == \A j, k \in 1..Len(cache) : cache[j] = cache[k] => j = k

\* What an opener knows of its file, as long as the file is as it identified it: the
\* parts that were read are intact, then all of it is, then SQLite has it open.
KnowsItsFile(p) ==
  /\ stage[p] # "idle" => file[p] \in Inodes
  /\ stage[p] \notin {"idle", "identify"} =>
       identity[p] \in Identities /\ identity[p].changed <= ctime[file[p]]
  /\ stage[p] \in {"second", "recheck"} /\ digest_ok[p] /\ Unchanged(p) => intact[file[p]][1]
  /\ stage[p] = "recheck" /\ digest_ok[p] /\ Unchanged(p) => intact[file[p]][2]
  /\ stage[p] \in {"path", "remember", "connect", "check", "ready", "query"} /\ Unchanged(p) =>
       Intact(file[p])
  /\ stage[p] = "check" /\ Same(p) => connection[p] = file[p]
  /\ stage[p] \in {"ready", "query"} => connection[p] = file[p]

ShardsInvariant ==
  /\ TypeOK
  /\ identity \in [Openers -> Identities \cup {None}]
  /\ cached \in [Openers -> BOOLEAN] /\ digest_ok \in [Openers -> BOOLEAN]
  /\ ClocksAdvance /\ CachedOnce /\ CacheIsSound
  /\ \A p \in Openers : KnowsItsFile(p)

\* A reader's file was verified as it is, also when the verification was remembered.
ShardsAreVerified == ShardsInvariant /\ CacheIsSound /\ ReadersAreVerified
=============================================================================
