--------------------------- MODULE ShardReaderProofs ---------------------------
(***************************************************************************)
(* Proofs about the verification of shards (ShardReader): for any number   *)
(* of openers, files and changes by others, and any size of the cache.     *)
(*                                                                         *)
(* The step of an opener is proved from what it leaves alone: the disk, or *)
(* the registers of all other openers.  A change by others moves the ctime *)
(* of the file it touches past every identity that was ever taken of it,   *)
(* which is why an identity that still fits speaks of the same content.    *)
(*                                                                         *)
(* Then proofs about the pages of a search (SearchPages): for any data,    *)
(* budgets, times and answers to a client that asks again as it likes.  A  *)
(* cursor stands behind exactly what its walk has received, and the items  *)
(* of a page are the beginning of what is behind the cursor.               *)
(***************************************************************************)
EXTENDS ShardReader, Integers, SequenceTheorems, FiniteSetTheorems, Ranking, TLAPS

CONSTANTS Candidates, Queries, MaxLimit, ReadBudget, ResponseBudget, Lifetime, MaxTime, MaxEpoch
VARIABLES data, epoch, now, walk
Pages == INSTANCE SearchPages

openers == <<stage, file, identity, cached, digest_ok, connection>>

\* A step of one opener leaves the registers of another alone.
SameOpener(q) ==
  /\ stage'[q] = stage[q] /\ file'[q] = file[q] /\ identity'[q] = identity[q]
  /\ cached'[q] = cached[q] /\ digest_ok'[q] = digest_ok[q] /\ connection'[q] = connection[q]

\* The invariant in three parts: what a step of an opener, of others or of the cache
\* can disturb.
DiskPart ==
  /\ intact \in [Inodes -> [Halves -> BOOLEAN]] /\ ctime \in [Inodes -> 0..MaxChanges]
  /\ at \in Inodes \cup {None} /\ changes \in 0..MaxChanges
  /\ \A i \in Inodes : ctime[i] <= changes
CachePart ==
  /\ cache \in Seq(Identities) /\ Len(cache) <= VerifiedShards
  /\ \A k \in 1..Len(cache) : cache[k].changed <= ctime[cache[k].inode]
  /\ CachedOnce /\ CacheIsSound
Registers ==
  /\ stage \in [Openers -> Stages] /\ file \in [Openers -> Inodes \cup {None}]
  /\ connection \in [Openers -> Inodes \cup {None}]
  /\ identity \in [Openers -> Identities \cup {None}]
  /\ cached \in [Openers -> BOOLEAN] /\ digest_ok \in [Openers -> BOOLEAN]
OpenerPart(p) ==
  /\ stage[p] \notin {"idle", "identify"} => identity[p].inode = file[p]
  /\ KnowsItsFile(p)

\* The invariant is what is said of the disk, of the cache, of the registers and of each opener.
LEMMA Parts ==
  /\ ShardsInvariant <=> DiskPart /\ CachePart /\ Registers /\ \A p \in Openers : OpenerPart(p)
  /\ DiskPart' /\ CachePart' /\ Registers' /\ (\A p \in Openers : OpenerPart(p)') => ShardsInvariant'
BY DEF ShardsInvariant, TypeOK, ClocksAdvance, DiskPart, CachePart, Registers, OpenerPart

-----------------------------------------------------------------------------
(* The cache. *)

\* `retain` takes the identity out of the cache and nothing else, in order.
LEMMA OthersFacts ==
  ASSUME NEW i, cache \in Seq(Identities), CachedOnce
  PROVE  /\ Others(i) \in Seq(Identities) /\ Len(Others(i)) <= Len(cache)
         /\ \A k \in 1..Len(Others(i)) : Others(i)[k] # i
         /\ \A k \in 1..Len(Others(i)) : \E j \in 1..Len(cache) : Others(i)[k] = cache[j]
         /\ \A j, k \in 1..Len(Others(i)) : Others(i)[j] = Others(i)[k] => j = k
<1>1. CASE ~Contains(cache, i)
  BY <1>1 DEF Others, Contains, CachedOnce
<1>2. CASE Contains(cache, i)
  <2> DEFINE m == CHOOSE k \in 1..Len(cache) : cache[k] = i
             s == SubSeq(cache, 1, m - 1)
             t == SubSeq(cache, m + 1, Len(cache))
  <2>1. m \in 1..Len(cache) /\ cache[m] = i
    BY <1>2 DEF Contains
  <2>2. Others(i) = s \o t
    BY <1>2 DEF Others, RemoveAt
  <2> HIDE DEF m
  <2>3. /\ s \in Seq(Identities) /\ Len(s) = m - 1
        /\ \A k \in 1..(m - 1) : s[k] = cache[k]
    BY <2>1
  <2>4. /\ t \in Seq(Identities) /\ Len(t) = Len(cache) - m
        /\ \A k \in 1..(Len(cache) - m) : t[k] = cache[m + k]
    BY <2>1
  <2> HIDE DEF s, t
  <2>5. /\ Others(i) \in Seq(Identities) /\ Len(Others(i)) = Len(cache) - 1
        /\ \A k \in 1..(Len(cache) - 1) :
             Others(i)[k] = IF k < m THEN cache[k] ELSE cache[k + 1]
    <3>0. /\ Len(s) \in Nat /\ Len(t) \in Nat /\ Len(cache) \in Nat
          /\ Len(s) = m - 1 /\ Len(t) = Len(cache) - m /\ m \in 1..Len(cache)
      BY <2>1, <2>3, <2>4
    <3>1. Others(i) \in Seq(Identities) /\ Len(Others(i)) = Len(cache) - 1
      <4>1. s \o t \in Seq(Identities) /\ Len(s \o t) = Len(s) + Len(t)
        BY <2>3, <2>4, ConcatProperties
      <4> QED  BY <2>2, <3>0, <4>1
    <3>2. ASSUME NEW k \in 1..(Len(cache) - 1)
          PROVE  Others(i)[k] = IF k < m THEN cache[k] ELSE cache[k + 1]
      <4>0. Others(i)[k] = IF k <= Len(s) THEN s[k] ELSE t[k - Len(s)]
        <5>1. \A l \in 1..(Len(s) + Len(t)) :
                (s \o t)[l] = IF l <= Len(s) THEN s[l] ELSE t[l - Len(s)]
          BY <2>3, <2>4, ConcatProperties
        <5>2. k \in 1..(Len(s) + Len(t))
          BY <3>0
        <5> QED  BY <2>2, <5>1, <5>2
      <4>1. CASE k < m
        <5>1. k <= Len(s) /\ k \in 1..(m - 1)
          BY <3>0, <4>1
        <5> QED  BY <2>3, <4>0, <4>1, <5>1
      <4>2. CASE ~(k < m)
        <5>1. /\ ~(k <= Len(s)) /\ k - Len(s) \in 1..(Len(cache) - m)
              /\ m + (k - Len(s)) = k + 1
          BY <3>0, <4>2
        <5> QED
          BY <2>4, <4>0, <4>2, <5>1
      <4> QED  BY <4>1, <4>2
    <3> QED  BY <3>1, <3>2
  <2>6. ASSUME NEW k \in 1..Len(Others(i))
        PROVE  \E j \in 1..Len(cache) :
                 /\ j # m /\ Others(i)[k] = cache[j] /\ j = IF k < m THEN k ELSE k + 1
    BY <2>1, <2>5
  <2>7. \A k, l \in 1..Len(cache) : cache[k] = cache[l] => k = l
    BY DEF CachedOnce
  <2>8. \A k \in 1..Len(Others(i)) : \E j \in 1..Len(cache) : Others(i)[k] = cache[j]
    BY <2>6
  <2>9. \A k \in 1..Len(Others(i)) : Others(i)[k] # i
    BY <2>1, <2>6, <2>7
  <2>10. ASSUME NEW k \in 1..Len(Others(i)), NEW l \in 1..Len(Others(i)),
                Others(i)[k] = Others(i)[l]
         PROVE  k = l
    <3>1. (IF k < m THEN k ELSE k + 1) = (IF l < m THEN l ELSE l + 1)
      BY <2>6, <2>7, <2>10
    <3>2. k \in Nat /\ l \in Nat /\ m \in Nat
      BY <2>1, <2>5
    <3> QED  BY <3>1, <3>2
  <2>11. Len(Others(i)) <= Len(cache)
    BY <2>1, <2>5
  <2> QED
    BY <2>5, <2>8, <2>9, <2>10, <2>11
<1> QED
  BY <1>1, <1>2

\* An insertion keeps the cache within its size and free of duplicates, and brings
\* in nothing but the identity that was verified.
LEMMA InsertedFacts ==
  ASSUME NEW i \in Identities, cache \in Seq(Identities), Len(cache) <= VerifiedShards,
         CachedOnce, ShardsAssumption
  PROVE  /\ Inserted(i) \in Seq(Identities) /\ Len(Inserted(i)) <= VerifiedShards
         /\ \A k \in 1..Len(Inserted(i)) :
              Inserted(i)[k] = i \/ \E j \in 1..Len(cache) : Inserted(i)[k] = cache[j]
         /\ \A j, k \in 1..Len(Inserted(i)) : Inserted(i)[j] = Inserted(i)[k] => j = k
<1> DEFINE o == Others(i)
           n == Len(o) - VerifiedShards + 1
           room == IF Len(o) >= VerifiedShards THEN SubSeq(o, n + 1, Len(o)) ELSE o
           d == IF Len(o) >= VerifiedShards THEN n ELSE 0
<1>1. /\ o \in Seq(Identities) /\ Len(o) <= VerifiedShards
      /\ \A k \in 1..Len(o) : o[k] # i
      /\ \A k \in 1..Len(o) : \E j \in 1..Len(cache) : o[k] = cache[j]
      /\ \A j, k \in 1..Len(o) : o[j] = o[k] => j = k
  BY OthersFacts DEF ShardsAssumption
<1>2. Inserted(i) = Append(room, i)
  BY <1>1 DEF Inserted, ShardsAssumption
<1> HIDE DEF o
<1>3. VerifiedShards \in Nat \ {0} /\ Len(o) \in Nat
  BY <1>1 DEF ShardsAssumption
<1>4. /\ room \in Seq(Identities) /\ Len(room) = Len(o) - d /\ d \in 0..Len(o)
      /\ Len(room) < VerifiedShards
      /\ \A k \in 1..Len(room) : room[k] = o[k + d]
  <2>1. CASE Len(o) >= VerifiedShards
    <3>1. n \in 1..Len(o) /\ d = n /\ n + 1 \in Int /\ Len(o) \in Int
      BY <1>1, <1>3, <2>1
    <3>2. \A k \in (n + 1)..Len(o) : o[k] \in Identities
      BY <1>1, <3>1, ElementOfSeq
    <3> HIDE DEF n
    <3>3. /\ SubSeq(o, n + 1, Len(o)) \in Seq(Identities)
          /\ Len(SubSeq(o, n + 1, Len(o))) = Len(o) - n
          /\ \A k \in 1..(Len(o) - n) : SubSeq(o, n + 1, Len(o))[k] = o[k + n]
      <4>1. /\ (IF n + 1 <= Len(o) THEN Len(o) - (n + 1) + 1 ELSE 0) = Len(o) - n
            /\ Len(o) - (n + 1) + 1 = Len(o) - n
            /\ \A k \in 1..(Len(o) - n) : n + 1 + k - 1 = k + n
        BY <1>3, <3>1
      <4>2. /\ SubSeq(o, n + 1, Len(o)) \in Seq(Identities)
            /\ Len(SubSeq(o, n + 1, Len(o))) =
                 IF n + 1 <= Len(o) THEN Len(o) - (n + 1) + 1 ELSE 0
            /\ \A k \in 1..(Len(o) - (n + 1) + 1) :
                 SubSeq(o, n + 1, Len(o))[k] = o[n + 1 + k - 1]
        BY <3>1, <3>2, SubSeqProperties
      <4> QED  BY <4>1, <4>2
    <3>4. room = SubSeq(o, n + 1, Len(o))
      BY <2>1
    <3>5. Len(room) = Len(o) - d /\ d \in 0..Len(o) /\ Len(room) < VerifiedShards
      BY <1>1, <1>3, <3>1, <3>3, <3>4 DEF n
    <3> QED
      BY <3>1, <3>3, <3>4, <3>5
  <2>2. CASE ~(Len(o) >= VerifiedShards)
    BY <1>1, <1>3, <2>2
  <2> QED  BY <2>1, <2>2
<1> HIDE DEF room, d
<1>5. /\ Inserted(i) \in Seq(Identities) /\ Len(Inserted(i)) = Len(room) + 1
      /\ \A k \in 1..Len(room) : Inserted(i)[k] = o[k + d]
      /\ Inserted(i)[Len(room) + 1] = i
  BY <1>2, <1>4
<1>6. \A k \in 1..Len(Inserted(i)) : k \in 1..Len(room) \/ k = Len(room) + 1
  BY <1>4, <1>5
<1>7. ASSUME NEW j \in 1..Len(Inserted(i)), NEW k \in 1..Len(Inserted(i)),
             Inserted(i)[j] = Inserted(i)[k]
      PROVE  j = k
  <2>1. \A l \in 1..Len(room) : l + d \in 1..Len(o) /\ Inserted(i)[l] = o[l + d]
    BY <1>3, <1>4, <1>5
  <2>2. ASSUME NEW l \in 1..Len(room)
        PROVE  Inserted(i)[l] # i
    <3>1. l + d \in 1..Len(o) /\ Inserted(i)[l] = o[l + d]
      BY <2>1
    <3>2. \A x \in 1..Len(o) : o[x] # i
      BY <1>1
    <3> QED  BY <3>1, <3>2
  <2>3. CASE j \in 1..Len(room) /\ k \in 1..Len(room)
    <3>1. j + d = k + d
      <4>1. o[j + d] = o[k + d] /\ j + d \in 1..Len(o) /\ k + d \in 1..Len(o)
        BY <1>7, <2>1, <2>3
      <4> QED  BY <1>1, <4>1
    <3>2. j \in Nat /\ k \in Nat /\ d \in Nat
      BY <1>3, <1>4, <1>7
    <3> QED  BY <3>1, <3>2
  <2> QED
    BY <1>5, <1>6, <1>7, <2>2, <2>3
<1>8. ASSUME NEW k \in 1..Len(Inserted(i))
      PROVE  Inserted(i)[k] = i \/ \E j \in 1..Len(cache) : Inserted(i)[k] = cache[j]
  <2>1. CASE k \in 1..Len(room)
    <3>1. Inserted(i)[k] = o[k + d] /\ k + d \in 1..Len(o)
      BY <1>3, <1>4, <1>5, <2>1
    <3> QED  BY <1>1, <3>1
  <2> QED  BY <1>5, <1>6, <2>1
<1> QED
  BY <1>3, <1>4, <1>5, <1>7, <1>8

-----------------------------------------------------------------------------
(* The steps of an opener. *)

\* Nobody's knowledge of a file is disturbed by what other openers do.
LEMMA OtherOpenerStays ==
  ASSUME NEW q \in Openers, OpenerPart(q), SameOpener(q), UNCHANGED disk
  PROVE  OpenerPart(q)'
BY DEF OpenerPart, SameOpener, disk, KnowsItsFile, Unchanged, Same, PathIs, Identity, Intact

\* An opener that gives up knows nothing.
LEMMA CloseKeeps ==
  ASSUME Registers, NEW p \in Openers, Close(p)
  PROVE  /\ Registers' /\ OpenerPart(p)'
         /\ \A q \in Openers \ {p} : SameOpener(q)
<1>1. /\ Registers' /\ stage'[p] = "idle"
      /\ \A q \in Openers \ {p} : SameOpener(q)
  BY DEF Registers, Close, Goto, SameOpener, Stages
<1> QED
  BY <1>1 DEF OpenerPart, KnowsItsFile

\* Whatever an opener does but to fill the cache, its next stage finds what it
\* relies on.
LEMMA OpenerStep ==
  ASSUME ShardsInvariant, NEW p \in Openers,
         \/ Open(p) \/ Identify(p) \/ Lookup(p) \/ (\E h \in Halves : ReadHalf(p, h))
         \/ Recheck(p) \/ CheckPath(p) \/ Connect(p) \/ CheckIdentity(p) \/ Query(p) \/ Drop(p)
  PROVE  /\ UNCHANGED <<disk, cache>> /\ Registers' /\ OpenerPart(p)'
         /\ \A q \in Openers \ {p} : SameOpener(q)
<1> DEFINE Goal == /\ UNCHANGED <<disk, cache>> /\ Registers' /\ OpenerPart(p)'
                   /\ \A q \in Openers \ {p} : SameOpener(q)
<1>1. DiskPart /\ CachePart /\ Registers /\ OpenerPart(p)
  BY Parts
<1>2. CASE Open(p)
  BY <1>1, <1>2 DEF Open, Goto, DiskPart, Registers, OpenerPart, KnowsItsFile, SameOpener, Stages
<1>3. CASE Identify(p)
  <2>1. /\ UNCHANGED <<disk, cache, file, cached, digest_ok, connection>>
        /\ stage[p] = "identify" /\ stage' = [stage EXCEPT ![p] = "lookup"]
        /\ identity' = [identity EXCEPT ![p] = Identity(file[p])]
    BY <1>3 DEF Identify, Goto
  <2>2. file[p] \in Inodes /\ ctime[file[p]] \in 0..MaxChanges
    BY <1>1, <2>1 DEF OpenerPart, KnowsItsFile, DiskPart
  <2>3. /\ Identity(file[p]) \in Identities /\ Identity(file[p]).inode = file[p]
        /\ Identity(file[p]).changed = ctime[file[p]]
    BY <2>2 DEF Identity, Identities
  <2>4. Registers' /\ identity'[p] = Identity(file[p]) /\ stage'[p] = "lookup"
    BY <1>1, <2>1, <2>3 DEF Registers, Stages
  <2>5. OpenerPart(p)'
    BY <2>1, <2>2, <2>3, <2>4 DEF OpenerPart, KnowsItsFile, disk
  <2> QED
    BY <1>1, <2>1, <2>4, <2>5 DEF SameOpener, Registers
<1>4. CASE Lookup(p)
  <2>1. /\ UNCHANGED <<disk, cache, file, identity, digest_ok, connection>>
        /\ stage[p] = "lookup"
    BY <1>4 DEF Lookup
  <2>2. PICK contended \in BOOLEAN :
          LET hit == ~contended /\ Contains(cache, identity[p])
          IN cached' = [cached EXCEPT ![p] = hit] /\ Goto(p, IF hit THEN "path" ELSE "first")
    BY <1>4 DEF Lookup
  <2> DEFINE hit == ~contended /\ Contains(cache, identity[p])
  <2>3. hit \in BOOLEAN /\ (hit => \E k \in 1..Len(cache) : cache[k] = identity[p])
    BY DEF Contains
  <2>4. /\ cached' = [cached EXCEPT ![p] = hit]
        /\ stage' = [stage EXCEPT ![p] = IF hit THEN "path" ELSE "first"]
    BY <2>2 DEF Goto
  <2> HIDE DEF hit
  <2>5. Registers' /\ stage'[p] = (IF hit THEN "path" ELSE "first")
    BY <1>1, <2>1, <2>3, <2>4 DEF Registers, Stages
  <2>6. hit /\ Unchanged(p) => Intact(file[p])
    BY <1>1, <2>1, <2>3 DEF CachePart, CacheIsSound, OpenerPart, Unchanged
  <2>7. OpenerPart(p)'
    BY <1>1, <2>1, <2>5, <2>6 DEF OpenerPart, KnowsItsFile, disk, Unchanged, Identity, Intact
  <2> QED
    BY <1>1, <2>1, <2>4, <2>5, <2>7 DEF SameOpener, Registers
<1>5. CASE \E h \in Halves : ReadHalf(p, h)
  <2>1. PICK h \in Halves : ReadHalf(p, h)
    BY <1>5
  <2>2. /\ UNCHANGED <<disk, cache, file, identity, cached, connection>>
        /\ stage[p] = IF h = 1 THEN "first" ELSE "second"
        /\ stage' = [stage EXCEPT ![p] = IF h = 1 THEN "second" ELSE "recheck"]
        /\ digest_ok' = [digest_ok EXCEPT ![p] = digest_ok[p] /\ intact[file[p]][h]]
    BY <2>1 DEF ReadHalf, Goto
  <2>3. /\ Registers' /\ stage'[p] = (IF h = 1 THEN "second" ELSE "recheck")
        /\ digest_ok'[p] = (digest_ok[p] /\ intact[file[p]][h])
    BY <1>1, <2>2 DEF Registers, Stages
  <2>4. OpenerPart(p)'
    <3>1. digest_ok'[p] => digest_ok[p] /\ intact'[file'[p]][h]
      BY <2>2, <2>3 DEF disk
    <3>2. Unchanged(p)' <=> Unchanged(p)
      BY <2>2 DEF Unchanged, Identity, disk
    <3>3. CASE h = 1
      BY <1>1, <2>2, <2>3, <3>1, <3>2, <3>3 DEF OpenerPart, KnowsItsFile, disk
    <3>4. CASE h = 2
      BY <1>1, <2>2, <2>3, <3>1, <3>2, <3>4 DEF OpenerPart, KnowsItsFile, disk
    <3> QED  BY <3>3, <3>4 DEF Halves
  <2> QED
    BY <1>1, <2>2, <2>3, <2>4 DEF SameOpener, Registers
<1>6. CASE Recheck(p)
  <2>1. CASE Close(p)
    BY <1>1, <1>6, <2>1, CloseKeeps DEF Recheck
  <2>2. CASE ~Close(p)
    <3>1. /\ UNCHANGED <<disk, cache, file, identity, cached, digest_ok, connection>>
          /\ stage[p] = "recheck" /\ stage' = [stage EXCEPT ![p] = "path"]
          /\ digest_ok[p]
      BY <1>6, <2>2 DEF Recheck, Goto
    <3>2. Registers' /\ stage'[p] = "path"
      BY <1>1, <3>1 DEF Registers, Stages
    <3>3. OpenerPart(p)'
      BY <1>1, <3>1, <3>2 DEF OpenerPart, KnowsItsFile, disk, Unchanged, Identity, Intact, Halves
    <3> QED
      BY <1>1, <3>1, <3>2, <3>3 DEF SameOpener, Registers
  <2> QED  BY <2>1, <2>2
<1>7. CASE CheckPath(p)
  <2>1. CASE Close(p)
    BY <1>1, <1>7, <2>1, CloseKeeps DEF CheckPath
  <2>2. CASE ~Close(p)
    <3>1. /\ UNCHANGED <<disk, cache, file, identity, cached, digest_ok, connection>>
          /\ stage[p] = "path"
          /\ stage' = [stage EXCEPT ![p] = IF cached[p] THEN "connect" ELSE "remember"]
      BY <1>7, <2>2 DEF CheckPath, Goto
    <3>2. Registers' /\ stage'[p] \in {"connect", "remember"}
      BY <1>1, <3>1 DEF Registers, Stages
    <3>3. OpenerPart(p)'
      BY <1>1, <3>1, <3>2 DEF OpenerPart, KnowsItsFile, disk, Unchanged, Identity, Intact
    <3> QED
      BY <1>1, <3>1, <3>2, <3>3 DEF SameOpener, Registers
  <2> QED  BY <2>1, <2>2
<1>8. CASE Connect(p)
  <2>1. CASE Close(p)
    BY <1>1, <1>8, <2>1, CloseKeeps DEF Connect
  <2>2. CASE ~Close(p)
    <3>1. /\ UNCHANGED <<disk, cache, file, identity, cached, digest_ok>>
          /\ stage[p] = "connect" /\ stage' = [stage EXCEPT ![p] = "check"]
          /\ at # None /\ connection' = [connection EXCEPT ![p] = at]
      BY <1>8, <2>2 DEF Connect, Goto
    <3>2. Registers' /\ stage'[p] = "check" /\ connection'[p] = at
      BY <1>1, <3>1 DEF Registers, Stages, DiskPart
    \* If the file at the path is the verified one, SQLite has opened that.
    <3>3. Same(p) => at = file[p]
      BY <1>1, <3>1 DEF Same, PathIs, Identity, OpenerPart
    <3>4. OpenerPart(p)'
      BY <1>1, <3>1, <3>2, <3>3 DEF OpenerPart, KnowsItsFile, disk, Unchanged, Identity, Intact,
                                     Same, PathIs
    <3> QED
      BY <1>1, <3>1, <3>2, <3>4 DEF SameOpener, Registers
  <2> QED  BY <2>1, <2>2
<1>9. CASE CheckIdentity(p)
  <2>1. CASE Close(p)
    BY <1>1, <1>9, <2>1, CloseKeeps DEF CheckIdentity
  <2>2. CASE ~Close(p)
    <3>1. /\ UNCHANGED <<disk, cache, file, identity, cached, digest_ok, connection>>
          /\ stage[p] \in {"check", "ready"} /\ Same(p)
          /\ stage' = [stage EXCEPT ![p] = IF stage[p] = "check" THEN "ready" ELSE "query"]
      BY <1>9, <2>2 DEF CheckIdentity, Goto
    <3>2. Registers' /\ stage'[p] \in {"ready", "query"}
      BY <1>1, <3>1 DEF Registers, Stages
    <3>3. OpenerPart(p)'
      BY <1>1, <3>1, <3>2 DEF OpenerPart, KnowsItsFile, disk, Unchanged, Identity, Intact
    <3> QED
      BY <1>1, <3>1, <3>2, <3>3 DEF SameOpener, Registers
  <2> QED  BY <2>1, <2>2
<1>10. CASE Query(p)
  <2>1. /\ UNCHANGED <<disk, cache, file, identity, cached, digest_ok, connection>>
        /\ stage[p] = "query" /\ stage' = [stage EXCEPT ![p] = "ready"]
    BY <1>10 DEF Query, Goto
  <2>2. Registers' /\ stage'[p] = "ready"
    BY <1>1, <2>1 DEF Registers, Stages
  <2>3. OpenerPart(p)'
    BY <1>1, <2>1, <2>2 DEF OpenerPart, KnowsItsFile, disk, Unchanged, Identity, Intact
  <2> QED
    BY <1>1, <2>1, <2>2, <2>3 DEF SameOpener, Registers
<1>11. CASE Drop(p)
  BY <1>1, <1>11, CloseKeeps DEF Drop
<1> QED
  BY <1>2, <1>3, <1>4, <1>5, <1>6, <1>7, <1>8, <1>9, <1>10, <1>11

-----------------------------------------------------------------------------
(* The steps of others. *)

\* A file that is touched gets a ctime that no identity has, so an identity that
\* fits behind the step fitted before it, and the content is the same.
LEMMA TouchFacts ==
  ASSUME ShardsAssumption, DiskPart, changes < MaxChanges, changes' = changes + 1,
         NEW is, Touched(is)
  PROVE  /\ ctime' \in [Inodes -> 0..MaxChanges] /\ changes' \in 0..MaxChanges
         /\ \A i \in Inodes : ctime'[i] <= changes'
         /\ \A i \in Inodes : ctime[i] <= ctime'[i]
         /\ \A id \in Identities :
              id.changed <= ctime[id.inode] /\ id.changed = ctime'[id.inode]
                => id.inode \notin is /\ ctime'[id.inode] = ctime[id.inode]
<1>1. MaxChanges \in Nat /\ changes \in 0..MaxChanges /\ changes' \in 0..MaxChanges
  BY DEF ShardsAssumption, DiskPart
<1>2. \A i \in Inodes : /\ ctime[i] \in 0..MaxChanges /\ ctime[i] <= changes
                        /\ ctime'[i] = IF i \in is THEN changes + 1 ELSE ctime[i]
  BY DEF DiskPart, Touched
<1>3. ctime' \in [Inodes -> 0..MaxChanges]
  BY <1>1, <1>2 DEF Touched
<1> QED
  BY <1>1, <1>2, <1>3 DEF Identities

\* Another process writes to a shard or moves one: the clock goes on, so what the cache and
\* the openers know is of an earlier moment.
LEMMA OthersStep ==
  ASSUME ShardsAssumption, ShardsInvariant, Write \/ Move
  PROVE  ShardsInvariant'
<1>1. DiskPart /\ CachePart /\ Registers /\ \A p \in Openers : OpenerPart(p)
  BY Parts
<1>2. UNCHANGED <<cache, stage, file, identity, cached, digest_ok, connection>>
  BY DEF Write, Move
<1>3. PICK is :
        /\ changes < MaxChanges /\ changes' = changes + 1 /\ Touched(is)
        /\ at' \in Inodes \cup {None} /\ intact' \in [Inodes -> [Halves -> BOOLEAN]]
        /\ at' # at => at' \in is \cup {None}
        /\ \A i \in Inodes \ is : intact'[i] = intact[i]
  <2>1. CASE Write
    <3>1. PICK i \in Inodes, h \in Halves :
            intact' = [intact EXCEPT ![i] = [intact[i] EXCEPT ![h] = ~intact[i][h]]] /\ Touched({i})
      BY <2>1 DEF Write
    <3>2. intact' \in [Inodes -> [Halves -> BOOLEAN]] /\ \A j \in Inodes \ {i} : intact'[j] = intact[j]
      BY <1>1, <3>1 DEF DiskPart
    <3> QED
      BY <1>1, <2>1, <3>1, <3>2 DEF Write, DiskPart
  <2>2. CASE Move
    BY <1>1, <2>2 DEF Move, DiskPart
  <2> QED  BY <2>1, <2>2
<1>4. /\ ctime' \in [Inodes -> 0..MaxChanges] /\ changes' \in 0..MaxChanges
      /\ \A i \in Inodes : ctime'[i] <= changes'
      /\ \A i \in Inodes : ctime[i] <= ctime'[i]
      /\ \A id \in Identities :
           id.changed <= ctime[id.inode] /\ id.changed = ctime'[id.inode]
             => id.inode \notin is /\ ctime'[id.inode] = ctime[id.inode]
  BY <1>1, <1>3, TouchFacts
<1>5. DiskPart'
  BY <1>3, <1>4 DEF DiskPart
<1>6. \A id \in Identities : id.inode \in Inodes /\ id.changed \in 0..MaxChanges
  BY DEF Identities
<1>7. CachePart'
  <2>1. ASSUME NEW k \in 1..Len(cache)
        PROVE  /\ cache[k].changed <= ctime'[cache[k].inode]
               /\ cache[k] = Identity(cache[k].inode)' => Intact(cache[k].inode)'
    <3>1. cache[k] \in Identities /\ cache[k].changed <= ctime[cache[k].inode]
      BY <1>1 DEF CachePart
    <3>2. cache[k].changed <= ctime'[cache[k].inode]
      BY <1>1, <1>4, <1>6, <3>1 DEF DiskPart, ShardsAssumption
    <3>3. ASSUME cache[k] = Identity(cache[k].inode)'
          PROVE  Intact(cache[k].inode)'
      <4>1. cache[k].changed = ctime'[cache[k].inode]
        BY <3>3 DEF Identity
      <4>2. cache[k].inode \in Inodes \ is /\ cache[k].changed = ctime[cache[k].inode]
        BY <1>4, <1>6, <3>1, <4>1
      <4>3. cache[k] = Identity(cache[k].inode)
        BY <3>1, <4>2 DEF Identity, Identities
      <4> QED
        BY <1>1, <1>2, <1>3, <4>2, <4>3 DEF CachePart, CacheIsSound, Intact
    <3> QED  BY <3>2, <3>3
  <2> QED
    BY <1>1, <1>2, <2>1 DEF CachePart, CachedOnce, CacheIsSound
<1>8. ASSUME NEW p \in Openers
      PROVE  OpenerPart(p)'
  <2>1. OpenerPart(p)
    BY <1>1
  <2>2. CASE stage[p] \in {"idle", "identify"}
    BY <1>2, <2>1, <2>2 DEF OpenerPart, KnowsItsFile
  <2>3. CASE stage[p] \notin {"idle", "identify"}
    <3>1. /\ identity[p] \in Identities /\ identity[p].inode = file[p] /\ file[p] \in Inodes
          /\ identity[p].changed <= ctime[file[p]]
      BY <2>1, <2>3 DEF OpenerPart, KnowsItsFile
    <3>2. identity[p].changed <= ctime'[file[p]]
      BY <1>1, <1>4, <1>6, <3>1 DEF DiskPart, ShardsAssumption
    <3>3. ASSUME Unchanged(p)'
          PROVE  file[p] \notin is /\ Unchanged(p)
      <4>1. identity[p].changed = ctime'[file[p]]
        BY <1>2, <3>3 DEF Unchanged, Identity
      <4>2. file[p] \notin is /\ identity[p].changed = ctime[file[p]]
        BY <1>4, <3>1, <4>1
      <4> QED
        BY <3>1, <4>2 DEF Unchanged, Identity, Identities
    <3>4. Unchanged(p)' => intact'[file[p]] = intact[file[p]]
      BY <1>3, <3>1, <3>3
    \* A file that was moved over the path, or back to it, has been touched.
    <3>5. Same(p)' => Same(p)
      <4> SUFFICES ASSUME Same(p)' PROVE Same(p)
        OBVIOUS
      <4>1. Unchanged(p)' /\ at' # None /\ at' = file[p]
        BY <1>2, <3>1 DEF Same, PathIs, Identity
      <4>2. at' = at
        BY <1>3, <3>3, <4>1
      <4> QED
        BY <3>1, <3>3, <4>1, <4>2 DEF Same, PathIs, Unchanged
    <3> QED
      BY <1>2, <2>1, <2>3, <3>1, <3>2, <3>3, <3>4, <3>5 DEF OpenerPart, KnowsItsFile, Intact
  <2> QED  BY <2>2, <2>3
<1>9. Registers'
  BY <1>1, <1>2 DEF Registers
<1> QED
  BY <1>5, <1>7, <1>8, <1>9, Parts

-----------------------------------------------------------------------------
(* The theorems. *)

\* Nothing is cached yet.
LEMMA ShardsInvariantInit == ShardsAssumption /\ Init => ShardsInvariant
BY DEF ShardsAssumption, Init, ShardsInvariant, TypeOK, ClocksAdvance, CachedOnce, CacheIsSound,
       KnowsItsFile, Stages

\* Every step keeps the invariant.
LEMMA ShardsInvariantStep == ShardsAssumption /\ ShardsInvariant /\ [Next]_vars => ShardsInvariant'
<1> SUFFICES ASSUME ShardsAssumption, ShardsInvariant, [Next]_vars
             PROVE  ShardsInvariant'
  OBVIOUS
<1>1. DiskPart /\ CachePart /\ Registers /\ \A p \in Openers : OpenerPart(p)
  BY Parts
<1>2. CASE UNCHANGED vars
  BY <1>2 DEF vars, ShardsInvariant, TypeOK, ClocksAdvance, CachedOnce, CacheIsSound, KnowsItsFile,
              Unchanged, Same, PathIs, Identity, Intact
<1>3. CASE Write \/ Move
  BY <1>3, OthersStep
<1>4. ASSUME NEW p \in Openers,
             \/ Open(p) \/ Identify(p) \/ Lookup(p) \/ (\E h \in Halves : ReadHalf(p, h))
             \/ Recheck(p) \/ CheckPath(p) \/ Connect(p) \/ CheckIdentity(p) \/ Query(p) \/ Drop(p)
      PROVE  ShardsInvariant'
  <2>1. /\ UNCHANGED <<disk, cache>> /\ Registers' /\ OpenerPart(p)'
        /\ \A q \in Openers \ {p} : SameOpener(q)
    BY <1>4, OpenerStep
  <2>2. \A q \in Openers \ {p} : OpenerPart(q)'
    BY <1>1, <2>1, OtherOpenerStays
  <2>3. DiskPart' /\ CachePart'
    BY <1>1, <2>1 DEF DiskPart, CachePart, CachedOnce, CacheIsSound, disk, Identity, Intact
  <2> QED
    BY <2>1, <2>2, <2>3, Parts
<1>5. ASSUME NEW p \in Openers, Remember(p)
      PROVE  ShardsInvariant'
  <2>1. /\ UNCHANGED <<disk, file, identity, cached, digest_ok, connection>>
        /\ stage[p] = "remember" /\ stage' = [stage EXCEPT ![p] = "connect"]
        /\ cache' = cache \/ cache' = Inserted(identity[p])
    BY <1>5 DEF Remember, Goto
  <2>2. Registers' /\ stage'[p] = "connect" /\ \A q \in Openers \ {p} : SameOpener(q)
    BY <1>1, <2>1 DEF Registers, Stages, SameOpener
  <2>3. OpenerPart(p)'
    BY <1>1, <2>1, <2>2 DEF OpenerPart, KnowsItsFile, disk, Unchanged, Identity, Intact
  <2>4. \A q \in Openers \ {p} : OpenerPart(q)'
    BY <1>1, <2>1, <2>2, OtherOpenerStays
  <2>5. DiskPart'
    BY <1>1, <2>1 DEF DiskPart, disk
  <2>6. CachePart'
    <3>1. CASE cache' = cache
      BY <1>1, <2>1, <3>1 DEF CachePart, CachedOnce, CacheIsSound, disk, Identity, Intact
    <3>2. CASE cache' = Inserted(identity[p])
      <4>1. /\ identity[p] \in Identities /\ identity[p].inode = file[p]
            /\ identity[p].changed <= ctime[file[p]]
            /\ Unchanged(p) => Intact(file[p])
        BY <1>1, <2>1 DEF OpenerPart, KnowsItsFile
      <4>2. /\ cache' \in Seq(Identities) /\ Len(cache') <= VerifiedShards
            /\ \A k \in 1..Len(cache') :
                 cache'[k] = identity[p] \/ \E j \in 1..Len(cache) : cache'[k] = cache[j]
            /\ \A j, k \in 1..Len(cache') : cache'[j] = cache'[k] => j = k
        BY <1>1, <3>2, <4>1, InsertedFacts DEF CachePart
      <4>3. ASSUME NEW k \in 1..Len(cache')
            PROVE  /\ cache'[k].changed <= ctime'[cache'[k].inode]
                   /\ cache'[k] = Identity(cache[k].inode)' => Intact(cache[k].inode)'
        <5>1. CASE cache'[k] = identity[p]
          BY <2>1, <4>1, <5>1 DEF disk, Unchanged, Identity, Intact
        <5>2. CASE \E j \in 1..Len(cache) : cache'[k] = cache[j]
          BY <1>1, <2>1, <5>2 DEF CachePart, CacheIsSound, disk, Identity, Intact
        <5> QED  BY <4>2, <5>1, <5>2
      <4> QED
        <5>1. CacheIsSound'
          BY <4>3 DEF CacheIsSound
        <5>2. CachedOnce'
          BY <4>2 DEF CachedOnce
        <5>3. \A k \in 1..Len(cache') : cache'[k].changed <= ctime'[cache'[k].inode]
          BY <4>3
        <5> QED
          BY <4>2, <5>1, <5>2, <5>3 DEF CachePart
    <3> QED  BY <2>1, <3>1, <3>2
  <2> QED
    BY <2>2, <2>3, <2>4, <2>5, <2>6, Parts
<1> QED
  BY <1>2, <1>3, <1>4, <1>5 DEF Next

\* The invariant, with the types of the model and a cache that never outgrows its size.
THEOREM ShardsInvariantHolds ==
  ASSUME ShardsAssumption
  PROVE  Spec => []ShardsInvariant
<1>1. Init => ShardsInvariant
  BY ShardsInvariantInit
<1>2. ShardsInvariant /\ [Next]_vars => ShardsInvariant'
  BY ShardsInvariantStep
<1> QED
  BY <1>1, <1>2, PTL DEF Spec

\* verified_shard: what the cache vouches for is intact, however often the file is
\* written or replaced while and after its checksum is computed.
THEOREM CacheIsSoundHolds ==
  ASSUME ShardsAssumption
  PROVE  Spec => []CacheIsSound
<1>1. ShardsInvariant => CacheIsSound
  BY DEF ShardsInvariant
<1> QED
  BY <1>1, ShardsInvariantHolds, PTL

\* reader_leased: a reader that is handed out has the verified file open, although
\* SQLite opened it by its path and the file may be moved away and back meanwhile.
THEOREM ReadersAreVerifiedHolds ==
  ASSUME ShardsAssumption
  PROVE  Spec => []ReadersAreVerified
<1>1. ShardsInvariant => ReadersAreVerified
  BY DEF ShardsInvariant, KnowsItsFile, ReadersAreVerified
<1> QED
  BY <1>1, ShardsInvariantHolds, PTL

\* All of it: a reader's file was verified as it is, also when the verification was remembered.
THEOREM ShardsAreVerifiedHolds ==
  ASSUME ShardsAssumption
  PROVE  Spec => []ShardsAreVerified
<1>1. ShardsInvariant /\ CacheIsSound /\ ReadersAreVerified => ShardsAreVerified
  BY DEF ShardsAreVerified
<1> QED
  BY <1>1, ShardsInvariantHolds, CacheIsSoundHolds, ReadersAreVerifiedHolds, PTL


-----------------------------------------------------------------------------
(* The pages of a search. *)

\* An instance counts as this module does.
LEMMA PagesCounts ==
  /\ \A S : Pages!IsFiniteSet(S) <=> IsFiniteSet(S)
  /\ \A S : Pages!Cardinality(S) = Cardinality(S)
<1>1. \A S : Pages!IsFiniteSet(S) <=> IsFiniteSet(S)
  BY DEF Pages!IsFiniteSet, IsFiniteSet
<1>2. \A S : Pages!Cardinality(S) = Cardinality(S)
  BY DEF Pages!Cardinality, Cardinality
<1> QED
  BY <1>1, <1>2

\* The rows of a search are in one order: of two definitions one is before the other.
LEMMA KeysAreOrdered ==
  ASSUME Pages!SearchAssumption
  PROVE  /\ \A d \in Candidates : Pages!Before(Pages!NoKey, d) /\ ~Pages!Before(d, d)
         /\ \A d, e \in Candidates : d = e \/ Pages!Before(d, e) \/ Pages!Before(e, d)
         /\ \A d, e \in Candidates : ~(Pages!Before(d, e) /\ Pages!Before(e, d))
         /\ \A d, e, f \in Candidates :
              Pages!Before(d, e) /\ Pages!Before(e, f) => Pages!Before(d, f)
<1>1. \A d \in Candidates : d.name \in Nat \ {0} /\ d.id \in Nat \ {0}
  BY DEF Pages!SearchAssumption
<1>2. \A d, e \in Candidates : d.name = e.name /\ d.id = e.id => d = e
  BY DEF Pages!SearchAssumption
<1>3. \A d \in Candidates : Pages!Before(Pages!NoKey, d) /\ ~Pages!Before(d, d)
  BY <1>1 DEF Pages!Before, Pages!NoKey
<1>4. \A d, e \in Candidates : d = e \/ Pages!Before(d, e) \/ Pages!Before(e, d)
  BY <1>1, <1>2 DEF Pages!Before
<1>5. \A d, e \in Candidates : ~(Pages!Before(d, e) /\ Pages!Before(e, d))
  BY <1>1 DEF Pages!Before
<1>6. \A d, e, f \in Candidates : Pages!Before(d, e) /\ Pages!Before(e, f) => Pages!Before(d, f)
  BY <1>1 DEF Pages!Before
<1> QED
  BY <1>3, <1>4, <1>5, <1>6

\* What is before each of some definitions orders them.
LEMMA EarlierOrders ==
  ASSUME Pages!SearchAssumption, NEW S \in SUBSET Candidates
  PROVE  \E sooner \in [S -> SUBSET S] :
           /\ \A d \in S : sooner[d] = Pages!Earlier(S, d)
           /\ \A d \in S : d \notin sooner[d] /\ \A e \in sooner[d] : sooner[e] \subseteq sooner[d]
           /\ \A d, e \in S : d = e \/ d \in sooner[e] \/ e \in sooner[d]
<1> DEFINE sooner == [d \in S |-> {e \in S : Pages!Before(e, d)}]
<1>1. sooner \in [S -> SUBSET S] /\ \A d, e \in S : e \in sooner[d] <=> Pages!Before(e, d)
  OBVIOUS
<1>2. \A d \in S : sooner[d] = Pages!Earlier(S, d)
  BY DEF Pages!Earlier
<1> HIDE DEF sooner
<1>3. \A d \in S : d \notin sooner[d]
  BY <1>1, KeysAreOrdered
<1>4. ASSUME NEW d \in S, NEW e \in sooner[d], NEW f \in sooner[e]
      PROVE  f \in sooner[d]
  <2>1. e \in S /\ f \in S
    BY <1>1
  <2>2. Pages!Before(e, d) /\ Pages!Before(f, e)
    BY <1>1, <2>1
  <2>3. Pages!Before(f, d)
    BY <2>1, <2>2, KeysAreOrdered
  <2> QED  BY <1>1, <2>1, <2>3
<1>5. \A d, e \in S : d = e \/ d \in sooner[e] \/ e \in sooner[d]
  BY <1>1, KeysAreOrdered
<1> QED
  BY <1>1, <1>2, <1>3, <1>4, <1>5

\* The first n of some definitions are n, or all of them; what is before one of the first
\* is one of the first.
LEMMA FirstOfRows ==
  ASSUME Pages!SearchAssumption, NEW S \in SUBSET Candidates, NEW n \in Nat
  PROVE  /\ Pages!First(S, n) \subseteq S
         /\ IF Cardinality(S) <= n THEN Pages!First(S, n) = S ELSE Cardinality(Pages!First(S, n)) = n
         /\ \A d \in Pages!First(S, n) : Pages!Earlier(S, d) \subseteq Pages!First(S, n)
<1> DEFINE some == Pages!First(S, n)
<1>1. IsFiniteSet(S) /\ Cardinality(S) \in Nat
  BY FS_Subset, FS_CardinalityType, PagesCounts DEF Pages!SearchAssumption
<1>2. PICK sooner \in [S -> SUBSET S] :
        /\ \A d \in S : sooner[d] = Pages!Earlier(S, d)
        /\ \A d \in S : d \notin sooner[d] /\ \A e \in sooner[d] : sooner[e] \subseteq sooner[d]
        /\ \A d, e \in S : d = e \/ d \in sooner[e] \/ e \in sooner[d]
  BY EarlierOrders
<1>3. some = {d \in S : Cardinality(sooner[d]) < n}
  BY <1>2, PagesCounts DEF Pages!First
<1> HIDE DEF some
<1>4. ASSUME n < Cardinality(S)
      PROVE  ~(Cardinality(S) <= n) /\ Cardinality(some) = n
  <2>1. n <= Cardinality(S) /\ ~(Cardinality(S) <= n)
    BY <1>1, <1>4
  <2>2. Cardinality({d \in S : Cardinality(sooner[d]) < n}) = n
    BY <1>1, <1>2, <2>1, FirstCount
  <2> QED  BY <1>3, <2>1, <2>2
<1>5. ASSUME ~(n < Cardinality(S))
      PROVE  Cardinality(S) <= n /\ some = S
  <2>1. ASSUME NEW d \in S
        PROVE  Cardinality(sooner[d]) < n
    <3>1. sooner[d] \in SUBSET S /\ d \in S \ sooner[d]
      BY <1>2
    <3>2. /\ IsFiniteSet(sooner[d]) /\ Cardinality(sooner[d]) <= Cardinality(S)
          /\ Cardinality(S) # Cardinality(sooner[d])
      BY <1>1, <3>1, FS_Subset
    <3>3. Cardinality(sooner[d]) \in Nat
      BY <3>2, FS_CardinalityType
    <3> QED  BY <1>1, <1>5, <3>2, <3>3
  <2>2. some = S /\ Cardinality(S) <= n
    BY <1>1, <1>3, <1>5, <2>1
  <2> QED  BY <2>2
<1>6. ASSUME NEW d \in some, NEW e \in sooner[d]
      PROVE  e \in some
  <2>1. d \in S /\ e \in S /\ Cardinality(sooner[d]) < n
    BY <1>2, <1>3
  <2>2. sooner[e] \in SUBSET sooner[d] /\ sooner[d] \in SUBSET S
    BY <1>2, <2>1
  <2>3. IsFiniteSet(sooner[d])
    BY <1>1, <2>2, FS_Subset
  <2>4. Cardinality(sooner[e]) <= Cardinality(sooner[d]) /\ IsFiniteSet(sooner[e])
    BY <2>2, <2>3, FS_Subset
  <2>5. Cardinality(sooner[e]) \in Nat /\ Cardinality(sooner[d]) \in Nat
    BY <2>3, <2>4, FS_CardinalityType
  <2>6. Cardinality(sooner[e]) < n
    BY <2>1, <2>4, <2>5
  <2> QED  BY <1>3, <2>1, <2>6
<1>7. some \subseteq S /\ \A d \in some : Pages!Earlier(S, d) \subseteq some
  BY <1>2, <1>3, <1>6
<1> QED
  BY <1>4, <1>5, <1>7 DEF some

\* Some definitions have a last one.
LEMMA LastOfRows ==
  ASSUME Pages!SearchAssumption, NEW S \in SUBSET Candidates, S # {}
  PROVE  /\ Pages!Last(S) \in S
         /\ \A d \in S : ~Pages!Before(Pages!Last(S), d)
<1> SUFFICES \E d \in S : \A e \in S : ~Pages!Before(d, e)
  BY DEF Pages!Last
<1>1. IsFiniteSet(S) /\ Cardinality(S) \in Nat /\ Cardinality(S) # 0
  BY FS_Subset, FS_CardinalityType, FS_EmptySet, PagesCounts DEF Pages!SearchAssumption
<1> DEFINE n == Cardinality(S) - 1
           most == Pages!First(S, n)
<1>2. n \in Nat /\ ~(Cardinality(S) <= n) /\ n < Cardinality(S)
  BY <1>1
<1> HIDE DEF n
<1>3. /\ most \subseteq S /\ Cardinality(most) = n
      /\ \A d \in most : Pages!Earlier(S, d) \subseteq most
  BY <1>2, FirstOfRows
<1>4. PICK d \in S : d \notin most
  <2>1. Cardinality(most) # Cardinality(S)
    BY <1>1, <1>2, <1>3
  <2>2. most # S
    BY <2>1
  <2> QED  BY <1>3, <2>2
<1>5. ASSUME NEW e \in S, Pages!Before(d, e)
      PROVE  FALSE
  <2>1. e \notin most
    BY <1>3, <1>4, <1>5 DEF Pages!Earlier
  <2>2. d # e
    BY <1>5, KeysAreOrdered
  <2>3. most \in SUBSET (S \ {d}) /\ most # S \ {d}
    BY <1>3, <1>4, <2>1, <2>2
  <2>4. IsFiniteSet(S \ {d}) /\ Cardinality(S \ {d}) = n
    BY <1>1, FS_RemoveElement DEF n
  <2> QED  BY <1>3, <2>3, <2>4, FS_Subset
<1> QED
  BY <1>5

\* What a response has room for is a beginning.
LEMMA RetainedIsBeginning ==
  ASSUME Pages!SearchAssumption, NEW S \in SUBSET Candidates
  PROVE  /\ Pages!Retained(S) \subseteq S
         /\ \A d \in Pages!Retained(S) : Pages!Earlier(S, d) \subseteq Pages!Retained(S)
<1>1. ASSUME NEW d \in Pages!Retained(S), NEW e \in Pages!Earlier(S, d)
      PROVE  e \in Pages!Retained(S)
  <2>1. d \in S /\ \A f \in Pages!Earlier(S, d) : Pages!Fits(S, f)
    BY DEF Pages!Retained
  <2>2. e \in S /\ Pages!Before(e, d)
    BY DEF Pages!Earlier
  <2>3. ASSUME NEW f \in Pages!Earlier(S, e)
        PROVE  f \in Pages!Earlier(S, d)
    <3>1. f \in S /\ Pages!Before(f, e)
      BY DEF Pages!Earlier
    <3>2. Pages!Before(f, d)
      BY <2>1, <2>2, <3>1, KeysAreOrdered
    <3> QED  BY <3>1, <3>2 DEF Pages!Earlier
  <2> QED
    BY <2>1, <2>2, <2>3 DEF Pages!Retained
<1>2. Pages!Retained(S) \subseteq S
  BY DEF Pages!Retained
<1> QED
  BY <1>1, <1>2

\* What a page of a search says: its items are the beginning of what is behind the cursor;
\* an untruncated page has all of that, and a cursor stands at the last of the items.
LEMMA PageIsRight ==
  ASSUME Pages!SearchAssumption, Pages!TypeOK, NEW limit \in 1..MaxLimit,
         NEW page, page = Pages!ReadPage(walk, limit),
         NEW behind, behind = Pages!Behind(walk.snapshot, walk.query, Pages!After(walk.cursor))
  PROVE  /\ page.items \subseteq behind
         /\ \A d \in page.items : Pages!Earlier(behind, d) \subseteq page.items
         /\ ~page.truncated => page.items = behind
         /\ page.cursor # Pages!NoCursor =>
              /\ page.items # {} /\ page.cursor = Pages!Encode(walk, Pages!Last(page.items))
         /\ page.truncated \in BOOLEAN
<1> DEFINE rows == Pages!Rows(walk.snapshot, walk.query, Pages!After(walk.cursor), limit + 1)
           asked == Pages!First(rows, limit)
           items == Pages!Retained(asked)
           truncated == Pages!Cardinality(rows) > limit \/ items # asked
           cursor == IF truncated /\ items # {} THEN Pages!Encode(walk, Pages!Last(items)) ELSE Pages!NoCursor
<1>1. page = IF Pages!Exhausts(rows) THEN Pages!StoppedPage ELSE Pages!Page(items, truncated, cursor)
  BY DEF Pages!ReadPage
<1>2. rows = Pages!First(behind, limit + 1)
  BY DEF Pages!Rows
<1>3. behind \in SUBSET Candidates
  <2>1. data[walk.snapshot] \in SUBSET Candidates
    BY DEF Pages!TypeOK
  <2> QED  BY <2>1 DEF Pages!Behind, Pages!Result
<1>4. limit \in Nat /\ limit + 1 \in Nat
  BY DEF Pages!SearchAssumption
<1> HIDE DEF rows
<1>5. /\ rows \subseteq behind
      /\ IF Cardinality(behind) <= limit + 1 THEN rows = behind ELSE Cardinality(rows) = limit + 1
      /\ \A d \in rows : Pages!Earlier(behind, d) \subseteq rows
  BY <1>2, <1>3, <1>4, FirstOfRows
<1>6. rows \in SUBSET Candidates
  BY <1>3, <1>5
<1> HIDE DEF asked
<1>7. /\ asked \subseteq rows /\ (Cardinality(rows) <= limit => asked = rows)
      /\ \A d \in asked : Pages!Earlier(rows, d) \subseteq asked
  BY <1>4, <1>6, FirstOfRows DEF asked
<1>8. asked \in SUBSET Candidates
  BY <1>6, <1>7
<1> HIDE DEF items
<1>9. items \subseteq asked /\ \A d \in items : Pages!Earlier(asked, d) \subseteq items
  BY <1>8, RetainedIsBeginning DEF items
<1>10. items \subseteq behind /\ \A d \in items : Pages!Earlier(behind, d) \subseteq items
  <2>1. items \subseteq behind
    BY <1>5, <1>7, <1>9
  <2>2. ASSUME NEW d \in items, NEW e \in Pages!Earlier(behind, d)
        PROVE  e \in items
    <3>1. d \in asked /\ d \in rows /\ Pages!Before(e, d)
      BY <1>7, <1>9 DEF Pages!Earlier
    <3>2. e \in rows
      BY <1>5, <3>1
    <3>3. e \in Pages!Earlier(rows, d)
      BY <3>1, <3>2 DEF Pages!Earlier
    <3>4. e \in asked
      BY <1>7, <3>1, <3>3
    <3>5. e \in Pages!Earlier(asked, d)
      BY <3>1, <3>4 DEF Pages!Earlier
    <3> QED  BY <1>9, <3>5
  <2> QED  BY <2>1, <2>2
<1>11. ~truncated => items = behind
  <2> SUFFICES ASSUME ~truncated  PROVE items = behind
    OBVIOUS
  <2>1. ~(Cardinality(rows) > limit) /\ items = asked
    BY PagesCounts
  <2>2. IsFiniteSet(rows) /\ Cardinality(rows) \in Nat
    BY <1>6, FS_Subset, FS_CardinalityType, PagesCounts DEF Pages!SearchAssumption
  <2>3. Cardinality(rows) <= limit /\ Cardinality(rows) # limit + 1
    BY <1>4, <2>1, <2>2
  <2> QED  BY <1>5, <1>7, <2>1, <2>3
<1>12. truncated \in BOOLEAN
  OBVIOUS
<1> HIDE DEF truncated
<1>13. CASE Pages!Exhausts(rows)
  <2>1. page.items = {} /\ page.truncated = TRUE /\ page.cursor = Pages!NoCursor
    BY <1>1, <1>13 DEF Pages!StoppedPage, Pages!Page
  <2> QED  BY <2>1
<1>14. CASE ~Pages!Exhausts(rows)
  <2>1. page.items = items /\ page.truncated = truncated /\ page.cursor = cursor
    BY <1>1, <1>14 DEF Pages!Page
  <2> QED  BY <1>10, <1>11, <1>12, <2>1
<1> QED
  BY <1>13, <1>14

\* A walk that goes on: what it received is all there is up to what is behind the cursor.
LEMMA WalkStandsAt ==
  ASSUME Pages!SearchAssumption, Pages!SearchInvariant, walk.state = "open", Pages!Accepted,
         NEW whole, whole = Pages!Result(walk.snapshot, walk.query),
         NEW behind, behind = Pages!Behind(walk.snapshot, walk.query, Pages!After(walk.cursor))
  PROVE  /\ whole \subseteq Candidates
         /\ \A d \in whole : (d \in behind) <=> ~(d \in Pages!Received)
         /\ \A d \in Pages!Received, e \in behind : Pages!Before(d, e) /\ ~Pages!Before(e, d)
         /\ \A d \in behind : Pages!Before(Pages!After(walk.cursor), d)
         /\ behind \subseteq whole /\ Pages!Received \subseteq whole
<1>1. whole \in SUBSET Candidates
  <2>1. data[walk.snapshot] \in SUBSET Candidates
    BY DEF Pages!SearchInvariant, Pages!TypeOK
  <2> QED  BY <2>1 DEF Pages!Result
<1>2. behind = {d \in whole : Pages!Before(Pages!After(walk.cursor), d)}
  BY DEF Pages!Behind
<1>3. Pages!Received \subseteq whole
  BY DEF Pages!SearchInvariant, Pages!PagesJoin
<1>4. CASE walk.cursor = Pages!NoCursor
  <2>1. Pages!After(walk.cursor) = Pages!NoKey
    BY <1>4 DEF Pages!After
  <2>2. Pages!Received = {}
    BY <1>4 DEF Pages!SearchInvariant, Pages!CursorIsOfTheWalk
  <2>3. behind = whole
    BY <1>1, <1>2, <2>1, KeysAreOrdered
  <2> QED  BY <1>1, <1>2, <2>2, <2>3
<1>5. CASE walk.cursor # Pages!NoCursor
  <2>1. Pages!After(walk.cursor) = walk.cursor.last /\ Pages!Bound(walk.cursor, walk)
    BY <1>5 DEF Pages!After, Pages!Accepted
  <2>2. Pages!Received = {d \in whole : ~Pages!Before(walk.cursor.last, d)}
    BY <1>5, <2>1 DEF Pages!SearchInvariant, Pages!CursorIsOfTheWalk
  <2>3. walk.cursor.last \in Candidates
    BY <1>5 DEF Pages!SearchInvariant, Pages!TypeOK, Pages!Cursors
  <2>4. PICK last \in Candidates : last = walk.cursor.last
    BY <2>3
  <2>5. /\ Pages!Received = {d \in whole : ~Pages!Before(last, d)}
        /\ behind = {d \in whole : Pages!Before(last, d)}
    BY <1>2, <2>1, <2>2, <2>4
  <2>6. ASSUME NEW d \in Pages!Received, NEW e \in behind
        PROVE  Pages!Before(d, e) /\ ~Pages!Before(e, d)
    <3>1. d \in Candidates /\ e \in Candidates /\ ~Pages!Before(last, d) /\ Pages!Before(last, e)
      BY <1>1, <2>5
    <3>2. d = last \/ Pages!Before(d, last)
      BY <3>1, KeysAreOrdered
    <3>3. Pages!Before(d, e)
      BY <3>1, <3>2, KeysAreOrdered
    <3> QED  BY <3>1, <3>3, KeysAreOrdered
  <2> QED  BY <1>1, <1>2, <1>3, <2>5, <2>6
<1> QED
  BY <1>4, <1>5

\* search answers a walk that goes on.
LEMMA SearchStep ==
  ASSUME Pages!SearchAssumption, Pages!SearchInvariant, Pages!Search
  PROVE  Pages!SearchInvariant' /\ Pages!Advances /\ Pages!Current
<1> DEFINE whole == Pages!Result(walk.snapshot, walk.query)
           behind == Pages!Behind(walk.snapshot, walk.query, Pages!After(walk.cursor))
<1>1. PICK limit \in 1..MaxLimit : Pages!Answer(Pages!ReadPage(walk, limit))
  BY DEF Pages!Search
<1>2. PICK page : page = Pages!ReadPage(walk, limit)
  OBVIOUS
<1>3. /\ walk.state = "open" /\ Pages!Accepted /\ data' = data /\ epoch' = epoch /\ now' = now
      /\ Pages!Answer(page) /\ Pages!TypeOK
  BY <1>1, <1>2 DEF Pages!Search, Pages!SearchInvariant
<1>4. /\ page.items \subseteq behind
      /\ \A d \in page.items : Pages!Earlier(behind, d) \subseteq page.items
      /\ ~page.truncated => page.items = behind
      /\ page.cursor # Pages!NoCursor =>
           /\ page.items # {} /\ page.cursor = Pages!Encode(walk, Pages!Last(page.items))
  BY <1>2, <1>3, PageIsRight
<1>5. /\ whole \subseteq Candidates
      /\ \A d \in whole : (d \in behind) <=> ~(d \in Pages!Received)
      /\ \A d \in Pages!Received, e \in behind : Pages!Before(d, e) /\ ~Pages!Before(e, d)
      /\ \A d \in behind : Pages!Before(Pages!After(walk.cursor), d)
      /\ behind \subseteq whole /\ Pages!Received \subseteq whole
  BY <1>3, WalkStandsAt
<1> DEFINE items == page.items
           status == IF page.cursor # Pages!NoCursor THEN "open"
                     ELSE IF page.truncated THEN "told" ELSE "complete"
<1>6. /\ walk'.snapshot = walk.snapshot /\ walk'.query = walk.query
      /\ walk'.got = [d \in Candidates |-> walk.got[d] + (IF d \in items THEN 1 ELSE 0)]
      /\ walk'.cursor = page.cursor /\ walk'.state = status
      /\ walk' = [snapshot |-> walk'.snapshot, query |-> walk'.query, cursor |-> walk'.cursor,
                  got |-> walk'.got, state |-> walk'.state]
  BY <1>3 DEF Pages!Answer, Pages!TypeOK
<1>7. /\ walk.got \in [Candidates -> Nat] /\ walk.snapshot \in Pages!Snapshots
      /\ walk.query \in Queries
  BY <1>3 DEF Pages!TypeOK
<1> HIDE DEF whole, behind, items, status
<1>8. walk'.got \in [Candidates -> Nat]
  <2>1. \A d \in Candidates : walk.got[d] \in Nat
    BY <1>7
  <2>2. \A d \in Candidates : walk.got[d] + (IF d \in items THEN 1 ELSE 0) \in Nat
    BY <2>1
  <2> QED  BY <1>6, <2>2
<1>9. Pages!Received' = Pages!Received \cup items
  <2>1. items \subseteq Candidates
    BY <1>4, <1>5 DEF items
  <2>2. \A d \in Candidates : walk'.got[d] > 0 <=> walk.got[d] > 0 \/ d \in items
    BY <1>6, <1>7
  <2> QED  BY <2>1, <2>2 DEF Pages!Received
<1>10. Pages!Result(walk.snapshot, walk.query)' = whole
  BY <1>3, <1>6 DEF Pages!Result, whole
<1>11. ASSUME NEW d \in Pages!Received'
       PROVE  walk'.got[d] = 1 /\ Pages!Earlier(whole, d) \subseteq Pages!Received'
  <2>1. d \in Candidates
    BY <1>4, <1>5, <1>9 DEF items
  <2>2. ASSUME d \in Pages!Received
        PROVE  /\ walk.got[d] = 1 /\ d \notin items
               /\ Pages!Earlier(whole, d) \subseteq Pages!Received
    <3>1. walk.got[d] = 1 /\ Pages!Earlier(whole, d) \subseteq Pages!Received
      BY <2>2 DEF Pages!SearchInvariant, Pages!PagesJoin, whole
    <3>2. d \notin items
      BY <1>4, <1>5, <2>2 DEF items
    <3> QED  BY <3>1, <3>2
  <2>3. ASSUME d \in items
        PROVE  walk.got[d] = 0 /\ Pages!Earlier(whole, d) \subseteq Pages!Received \cup items
    <3>1. d \in behind /\ d \notin Pages!Received /\ d \in whole
      BY <1>4, <1>5, <2>3 DEF items
    <3>2. walk.got[d] \in Nat /\ ~(walk.got[d] > 0)
      BY <1>7, <2>1, <3>1 DEF Pages!Received
    <3>3. ASSUME NEW e \in Pages!Earlier(whole, d), e \notin Pages!Received
          PROVE  e \in items
      <4>1. e \in behind /\ Pages!Before(e, d)
        BY <1>5, <3>3 DEF Pages!Earlier
      <4>2. e \in Pages!Earlier(behind, d)
        BY <4>1 DEF Pages!Earlier
      <4> QED  BY <1>4, <2>3, <4>2 DEF items
    <3> QED  BY <3>2, <3>3
  <2>4. walk'.got[d] = walk.got[d] + (IF d \in items THEN 1 ELSE 0)
    BY <1>6, <2>1
  <2> QED  BY <1>9, <2>2, <2>3, <2>4
<1>12. Pages!PagesJoin'
  <2>1. Pages!Received' \subseteq whole
    BY <1>4, <1>5, <1>9 DEF items
  <2>2. walk'.state = "complete" => Pages!Received' = whole
    <3> SUFFICES ASSUME walk'.state = "complete"  PROVE Pages!Received' = whole
      OBVIOUS
    <3>1. items = behind
      BY <1>4, <1>6 DEF status, items
    <3> QED  BY <1>5, <1>9, <3>1
  <2>3. \A d \in Pages!Received' : walk'.got[d] = 1 /\ Pages!Earlier(whole, d) \subseteq Pages!Received'
    BY <1>11
  <2> QED
    BY <1>10, <2>1, <2>2, <2>3 DEF Pages!PagesJoin, Pages!Earlier
<1>13. ASSUME walk'.cursor # Pages!NoCursor
       PROVE  /\ walk'.cursor = Pages!Encode(walk, Pages!Last(items))
              /\ Pages!Last(items) \in items
              /\ Pages!Received' = {d \in whole : ~Pages!Before(Pages!Last(items), d)}
  <2>1. items # {} /\ walk'.cursor = Pages!Encode(walk, Pages!Last(items)) /\ items \in SUBSET Candidates
    BY <1>4, <1>5, <1>6, <1>13 DEF items
  <2>2. /\ Pages!Last(items) \in items
        /\ \A d \in items : ~Pages!Before(Pages!Last(items), d)
    BY <2>1, LastOfRows
  <2>3. PICK last \in items : last = Pages!Last(items)
    BY <2>2
  <2>4. last \in behind /\ last \in Candidates /\ last \in whole
    BY <1>4, <1>5 DEF items
  <2>5. ASSUME NEW d \in Pages!Received'
        PROVE  d \in whole /\ ~Pages!Before(last, d)
    BY <1>4, <1>5, <1>9, <2>2, <2>3, <2>4 DEF items
  <2>6. ASSUME NEW d \in whole, ~Pages!Before(last, d)
        PROVE  d \in Pages!Received'
    <3>1. d = last \/ Pages!Before(d, last)
      BY <1>5, <2>4, <2>6, KeysAreOrdered
    <3>2. last \in Pages!Received'
      BY <1>9
    <3>3. Pages!Before(d, last) => d \in Pages!Earlier(whole, last)
      BY DEF Pages!Earlier
    <3> QED  BY <1>11, <3>1, <3>2, <3>3
  <2> QED
    BY <2>1, <2>2, <2>3, <2>5, <2>6
<1>14. walk'.cursor \in Pages!Cursors \cup {Pages!NoCursor}
  <2> SUFFICES ASSUME walk'.cursor # Pages!NoCursor  PROVE walk'.cursor \in Pages!Cursors
    OBVIOUS
  <2>1. /\ walk'.cursor = [epoch |-> epoch, snapshot |-> walk.snapshot, query |-> walk.query,
                           last |-> Pages!Last(items), expires |-> now + Lifetime]
        /\ Pages!Last(items) \in Candidates
    BY <1>4, <1>5, <1>13 DEF Pages!Encode, items
  <2>2. epoch \in 1..MaxEpoch /\ now + Lifetime \in 0..(MaxTime + Lifetime)
    BY <1>3 DEF Pages!TypeOK, Pages!SearchAssumption
  <2> QED
    BY <1>7, <2>1, <2>2 DEF Pages!Cursors
<1>15. Pages!TypeOK'
  <2>1. /\ data' \in [Pages!Snapshots -> SUBSET Candidates]
        /\ epoch' \in 1..MaxEpoch /\ now' \in 0..MaxTime
    BY <1>3 DEF Pages!TypeOK
  <2>2. walk'.state \in {"open", "complete", "told", "refused"}
    BY <1>6 DEF status
  <2>3. walk' \in [snapshot : Pages!Snapshots, query : Queries, cursor : Pages!Cursors \cup {Pages!NoCursor},
                   got : [Candidates -> Nat], state : {"open", "complete", "told", "refused"}]
    BY <1>6, <1>7, <1>8, <1>14, <2>2
  <2> QED
    BY <2>1, <2>3 DEF Pages!TypeOK, Pages!Cursors, Pages!NoCursor, Pages!Snapshots
<1>16. Pages!CursorIsOfTheWalk'
  <2>1. CASE walk'.cursor # Pages!NoCursor
    <3>1. walk'.state = "open"
      BY <1>6, <2>1 DEF status
    <3>2. /\ walk'.cursor.snapshot = walk.snapshot /\ walk'.cursor.query = walk.query
          /\ walk'.cursor.last = Pages!Last(items)
      BY <1>13, <2>1 DEF Pages!Encode
    <3>3. Pages!Bound(walk'.cursor, walk')
      BY <1>6, <3>2 DEF Pages!Bound
    <3>4. Pages!Received' = {d \in whole : ~Pages!Before(walk'.cursor.last, d)}
      BY <1>13, <2>1, <3>2
    <3> QED
      BY <1>10, <2>1, <3>1, <3>3, <3>4 DEF Pages!CursorIsOfTheWalk, Pages!NoCursor, Pages!Before, Pages!Bound
  <2>2. CASE walk'.cursor = Pages!NoCursor
    <3>1. walk'.state \notin {"open", "refused"}
      BY <1>6, <2>2 DEF status
    <3> QED
      BY <2>2, <3>1 DEF Pages!CursorIsOfTheWalk, Pages!NoCursor
  <2> QED  BY <2>1, <2>2
<1>17. Pages!Advances
  <2> SUFFICES ASSUME walk'.cursor # Pages!NoCursor
               PROVE  Pages!Before(Pages!After(walk.cursor), walk'.cursor.last)
    BY DEF Pages!Advances
  <2>1. walk'.cursor.last = Pages!Last(items) /\ Pages!Last(items) \in behind
    BY <1>4, <1>13 DEF Pages!Encode, items
  <2> QED  BY <1>5, <2>1
<1>18. Pages!Current
  BY <1>3 DEF Pages!Current, Pages!Accepted, Pages!Decoded, Pages!TypeOK, Pages!Cursors
<1> QED
  BY <1>12, <1>15, <1>16, <1>17, <1>18 DEF Pages!SearchInvariant

\* A step that leaves what the walk received alone and holds no cursor on it.
LEMMA RestsOrEnds ==
  ASSUME Pages!SearchInvariant, data' = data, Pages!TypeOK',
         walk'.snapshot = walk.snapshot, walk'.query = walk.query, walk'.got = walk.got,
         walk'.state # "complete" \/ walk'.state = walk.state,
         \/ walk'.cursor = Pages!NoCursor /\ walk'.state \in {"told", "complete"}
         \/ walk'.cursor = walk.cursor /\ (walk'.state = walk.state \/ (walk.state = "open" /\ walk'.state = "refused"))
  PROVE  Pages!SearchInvariant' /\ Pages!Current
<1>1. Pages!Received' = Pages!Received
  BY DEF Pages!Received
<1>2. Pages!Result(walk.snapshot, walk.query)' = Pages!Result(walk.snapshot, walk.query)
  BY DEF Pages!Result
<1>3. Pages!PagesJoin'
  BY <1>1, <1>2 DEF Pages!SearchInvariant, Pages!PagesJoin, Pages!Earlier
<1>4. Pages!Bound(walk.cursor, walk)' <=> Pages!Bound(walk'.cursor, walk)
  BY DEF Pages!Bound
<1>5. Pages!CursorIsOfTheWalk
  BY DEF Pages!SearchInvariant
<1>6. Pages!CursorIsOfTheWalk'
  <2>1. CASE walk'.cursor = Pages!NoCursor /\ walk'.state \in {"told", "complete"}
    BY <2>1 DEF Pages!CursorIsOfTheWalk, Pages!NoCursor
  <2>2. CASE walk'.cursor = walk.cursor /\ walk'.state = walk.state
    BY <1>1, <1>2, <1>4, <1>5, <2>2 DEF Pages!CursorIsOfTheWalk, Pages!NoCursor, Pages!Before
  <2>3. CASE walk'.cursor = walk.cursor /\ walk.state = "open" /\ walk'.state = "refused"
    BY <1>1, <1>2, <1>4, <1>5, <2>3 DEF Pages!CursorIsOfTheWalk, Pages!NoCursor, Pages!Before
  <2> QED  BY <2>1, <2>2, <2>3
<1>7. Pages!Current
  <2>1. \A d \in Candidates : walk.got[d] \in Nat
    BY DEF Pages!SearchInvariant, Pages!TypeOK
  <2>2. \A d \in Candidates : ~(walk'.got[d] > walk.got[d])
    BY <2>1
  <2> QED  BY <2>2 DEF Pages!Current
<1> QED
  BY <1>3, <1>6, <1>7 DEF Pages!SearchInvariant

\* A walk that begins has received nothing.
LEMMA WalkBeginsEmpty ==
  ASSUME Pages!SearchInvariant, UNCHANGED <<data, epoch, now>>,
         NEW snapshot \in Pages!Snapshots, NEW query \in Queries,
         NEW cursor \in Pages!Cursors \cup {Pages!NoCursor},
         walk' = Pages!Walk(snapshot, query, cursor),
         cursor # Pages!NoCursor => cursor.snapshot # snapshot \/ cursor.query # query
  PROVE  Pages!SearchInvariant' /\ Pages!Current
<1>1. /\ walk'.snapshot = snapshot /\ walk'.query = query /\ walk'.cursor = cursor
      /\ walk'.got = [d \in Candidates |-> 0] /\ walk'.state = "open"
  BY DEF Pages!Walk
<1>2. Pages!TypeOK'
  <2>1. /\ data' \in [Pages!Snapshots -> SUBSET Candidates]
        /\ epoch' \in 1..MaxEpoch /\ now' \in 0..MaxTime
    BY DEF Pages!SearchInvariant, Pages!TypeOK
  <2>2. walk' \in [snapshot : Pages!Snapshots, query : Queries, cursor : Pages!Cursors \cup {Pages!NoCursor},
                   got : [Candidates -> Nat], state : {"open", "complete", "told", "refused"}]
    BY DEF Pages!Walk
  <2> QED
    BY <2>1, <2>2 DEF Pages!TypeOK, Pages!Cursors, Pages!NoCursor, Pages!Snapshots
<1>3. Pages!Received' = {}
  BY <1>1 DEF Pages!Received
<1>4. Pages!PagesJoin'
  BY <1>1, <1>3 DEF Pages!PagesJoin
<1>5. ~Pages!Bound(walk'.cursor, walk') \/ walk'.cursor = Pages!NoCursor
  BY <1>1 DEF Pages!Bound
<1>6. Pages!CursorIsOfTheWalk'
  BY <1>1, <1>3, <1>5 DEF Pages!CursorIsOfTheWalk, Pages!NoCursor, Pages!Bound
<1>7. Pages!Current
  <2>1. \A d \in Candidates : walk.got[d] \in Nat
    BY DEF Pages!SearchInvariant, Pages!TypeOK
  <2>2. \A d \in Candidates : ~(walk'.got[d] > walk.got[d])
    BY <1>1, <2>1
  <2> QED  BY <2>2 DEF Pages!Current
<1> QED
  BY <1>2, <1>4, <1>6, <1>7 DEF Pages!SearchInvariant

\* A search that is stopped, and one whose cursor is refused, end the walk as it is.
LEMMA WalkEndsStep ==
  ASSUME Pages!SearchInvariant, Pages!SearchStopped \/ Pages!SearchRefused
  PROVE  Pages!SearchInvariant' /\ Pages!Current
<1>1. /\ walk.state = "open" /\ data' = data /\ epoch' = epoch /\ now' = now /\ Pages!TypeOK
      /\ walk \in [snapshot : Pages!Snapshots, query : Queries, cursor : Pages!Cursors \cup {Pages!NoCursor},
                   got : [Candidates -> Nat], state : {"open", "complete", "told", "refused"}]
  BY DEF Pages!SearchStopped, Pages!SearchRefused, Pages!SearchInvariant, Pages!TypeOK
<1>2. CASE Pages!SearchStopped
  <2>1. /\ walk'.snapshot = walk.snapshot /\ walk'.query = walk.query
        /\ walk'.got = [d \in Candidates |-> walk.got[d] + 0]
        /\ walk'.cursor = Pages!NoCursor /\ walk'.state = "told"
        /\ walk' = [snapshot |-> walk'.snapshot, query |-> walk'.query, cursor |-> walk'.cursor,
                    got |-> walk'.got, state |-> walk'.state]
    BY <1>1, <1>2 DEF Pages!SearchStopped, Pages!Answer, Pages!StoppedPage, Pages!Page
  <2>2. walk'.got = walk.got
    <3>1. walk.got \in [Candidates -> Nat]
      BY <1>1
    <3>2. \A d \in Candidates : walk.got[d] + 0 = walk.got[d]
      BY <3>1
    <3> QED  BY <2>1, <3>1, <3>2
  <2>3. walk' \in [snapshot : Pages!Snapshots, query : Queries, cursor : Pages!Cursors \cup {Pages!NoCursor},
                   got : [Candidates -> Nat], state : {"open", "complete", "told", "refused"}]
    BY <1>1, <2>1, <2>2
  <2>4. Pages!TypeOK'
    BY <1>1, <2>3 DEF Pages!TypeOK, Pages!Cursors, Pages!NoCursor, Pages!Snapshots
  <2> QED
    BY <1>1, <2>1, <2>2, <2>4, RestsOrEnds
<1>3. CASE Pages!SearchRefused
  <2>1. /\ walk'.snapshot = walk.snapshot /\ walk'.query = walk.query
        /\ walk'.got = walk.got /\ walk'.cursor = walk.cursor /\ walk'.state = "refused"
    BY <1>1, <1>3 DEF Pages!SearchRefused
  <2>2. walk' \in [snapshot : Pages!Snapshots, query : Queries, cursor : Pages!Cursors \cup {Pages!NoCursor},
                   got : [Candidates -> Nat], state : {"open", "complete", "told", "refused"}]
    BY <1>1, <1>3 DEF Pages!SearchRefused
  <2>3. Pages!TypeOK'
    BY <1>1, <2>2 DEF Pages!TypeOK, Pages!Cursors, Pages!NoCursor, Pages!Snapshots
  <2> QED
    BY <1>1, <2>1, <2>3, RestsOrEnds
<1> QED
  BY <1>2, <1>3

\* The client turns to something else, or starts over.
LEMMA WalkTurnsStep ==
  ASSUME Pages!SearchInvariant, Pages!Turn \/ Pages!StartOver
  PROVE  Pages!SearchInvariant' /\ Pages!Current
<1>1. /\ data' = data /\ epoch' = epoch /\ now' = now
      /\ walk.snapshot \in Pages!Snapshots /\ walk.query \in Queries
      /\ walk.cursor \in Pages!Cursors \cup {Pages!NoCursor}
      /\ Pages!CursorIsOfTheWalk
  BY DEF Pages!Turn, Pages!StartOver, Pages!SearchInvariant, Pages!TypeOK
<1>2. CASE Pages!Turn
  <2>1. PICK snapshot \in Pages!Snapshots, query \in Queries :
          walk' = Pages!Walk(snapshot, query, walk.cursor)
    BY <1>2 DEF Pages!Turn
  <2>2. walk'.snapshot = snapshot /\ walk'.query = query
    BY <2>1 DEF Pages!Walk
  <2>3. snapshot # walk.snapshot \/ query # walk.query
    BY <1>2, <2>2 DEF Pages!Turn
  <2>4. walk.cursor # Pages!NoCursor => Pages!Received # {}
    BY <1>2 DEF Pages!Turn
  <2>5. walk.cursor # Pages!NoCursor => Pages!Bound(walk.cursor, walk)
    BY <1>1, <2>4 DEF Pages!CursorIsOfTheWalk
  <2>6. walk.cursor # Pages!NoCursor => walk.cursor.snapshot # snapshot \/ walk.cursor.query # query
    BY <2>3, <2>5 DEF Pages!Bound
  <2> QED
    BY <1>1, <2>1, <2>6, WalkBeginsEmpty
<1>3. CASE Pages!StartOver
  <2>1. walk' = Pages!Walk(walk.snapshot, walk.query, Pages!NoCursor)
    BY <1>3 DEF Pages!StartOver
  <2> QED
    BY <1>1, <2>1, WalkBeginsEmpty
<1> QED
  BY <1>2, <1>3

\* Every step keeps what is said of a walk.
LEMMA PagesStep ==
  ASSUME Pages!SearchAssumption, Pages!SearchInvariant, [Pages!Next]_(Pages!vars)
  PROVE  Pages!SearchInvariant' /\ [Pages!Advances /\ Pages!Current]_(Pages!vars)
<1>1. CASE Pages!Search
  BY <1>1, SearchStep
<1>2. ASSUME ~Pages!Search
      PROVE  Pages!Advances
  BY <1>2 DEF Pages!Advances
<1>3. CASE Pages!SearchStopped \/ Pages!SearchRefused
  BY <1>1, <1>2, <1>3, WalkEndsStep
<1>4. CASE Pages!Turn \/ Pages!StartOver
  BY <1>1, <1>2, <1>4, WalkTurnsStep
<1>5. CASE Pages!Restart \/ Pages!Tick \/ UNCHANGED Pages!vars
  <2>1. data' = data /\ walk' = walk /\ Pages!TypeOK
    BY <1>5 DEF Pages!Restart, Pages!Tick, Pages!vars, Pages!SearchInvariant
  <2>2. epoch' \in 1..MaxEpoch /\ now' \in 0..MaxTime
    <3>1. epoch \in 1..MaxEpoch /\ now \in 0..MaxTime /\ MaxEpoch \in Nat /\ MaxTime \in Nat
      BY <2>1 DEF Pages!TypeOK, Pages!SearchAssumption
    <3> QED  BY <1>5, <3>1 DEF Pages!Restart, Pages!Tick, Pages!vars
  <2>3. Pages!TypeOK'
    BY <2>1, <2>2 DEF Pages!TypeOK, Pages!Cursors, Pages!NoCursor, Pages!Snapshots
  <2>4. Pages!SearchInvariant' /\ Pages!Current
    BY <2>1, <2>3, RestsOrEnds
  <2> QED  BY <1>1, <1>2, <2>4
<1> QED
  BY <1>1, <1>3, <1>4, <1>5 DEF Pages!Next

\* At first nothing was received.
LEMMA PagesInit ==
  ASSUME Pages!SearchAssumption, Pages!Init
  PROVE  Pages!SearchInvariant
<1>1. PICK query \in Queries : walk = Pages!Walk("old", query, Pages!NoCursor)
  BY DEF Pages!Init
<1>2. /\ walk.snapshot = "old" /\ walk.query = query /\ walk.cursor = Pages!NoCursor
      /\ walk.got = [d \in Candidates |-> 0] /\ walk.state = "open"
  BY <1>1 DEF Pages!Walk
<1>3. Pages!TypeOK
  <2>1. /\ data \in [Pages!Snapshots -> SUBSET Candidates]
        /\ epoch \in 1..MaxEpoch /\ now \in 0..MaxTime
    BY DEF Pages!Init, Pages!SearchAssumption
  <2>2. walk \in [snapshot : Pages!Snapshots, query : Queries, cursor : Pages!Cursors \cup {Pages!NoCursor},
                  got : [Candidates -> Nat], state : {"open", "complete", "told", "refused"}]
    BY <1>1 DEF Pages!Walk, Pages!Snapshots
  <2> QED  BY <2>1, <2>2 DEF Pages!TypeOK
<1>4. Pages!Received = {}
  BY <1>2 DEF Pages!Received
<1>5. Pages!PagesJoin
  BY <1>2, <1>4 DEF Pages!PagesJoin
<1>6. Pages!CursorIsOfTheWalk
  BY <1>2, <1>4 DEF Pages!CursorIsOfTheWalk
<1> QED
  BY <1>3, <1>5, <1>6 DEF Pages!SearchInvariant

\* query, search and cursor: pages that a client follows by their cursors join to the
\* whole result, with nothing skipped or repeated; a cursor leads onward, and one of an
\* earlier process or of too long ago is never followed.
THEOREM SearchPagesJoinHolds ==
  Pages!SearchAssumption =>
    (Pages!Spec => [](Pages!TypeOK /\ Pages!PagesJoin) /\ Pages!CursorsAdvance /\ Pages!StaleIsRefused)
<1> SUFFICES ASSUME Pages!SearchAssumption
             PROVE  Pages!Spec => [](Pages!TypeOK /\ Pages!PagesJoin) /\ Pages!CursorsAdvance /\ Pages!StaleIsRefused
  OBVIOUS
<1>1. Pages!Init => Pages!SearchInvariant
  BY PagesInit
<1>2. Pages!SearchInvariant /\ [Pages!Next]_(Pages!vars) =>
        Pages!SearchInvariant' /\ [Pages!Advances]_(Pages!vars) /\ [Pages!Current]_(Pages!vars)
  BY PagesStep
<1>3. Pages!SearchInvariant => Pages!TypeOK /\ Pages!PagesJoin
  BY DEF Pages!SearchInvariant
<1> QED
  BY <1>1, <1>2, <1>3, PTL DEF Pages!Spec, Pages!CursorsAdvance, Pages!StaleIsRefused
=============================================================================
