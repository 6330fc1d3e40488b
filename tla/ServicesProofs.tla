---------------------------- MODULE ServicesProofs ----------------------------
(***************************************************************************)
(* Proofs about the processes around the library, Indexing, CliSession,    *)
(* ClaudeCall and TraceSink, and about the files that one session leaves   *)
(* to the next, SessionLog, for any value of their constants.              *)
(*                                                                         *)
(* Indexing rests on where stubs can be: a stub in the table, the channel, *)
(* the batch or a producer's hands is one that ingest makes of some        *)
(* version of its file.  Two such stubs of one path and mtime that have    *)
(* the same chunk number are one, so that as many rows as there are chunks *)
(* are all of the chunks (what a resumed build leaves out is whole); and   *)
(* while a build runs, each stub of a file it is to index is in the table, *)
(* in flight, or of a path no producer has taken or could read, of which   *)
(* no batch completes what an earlier build left (a build that ends is     *)
(* complete, but for what it could not read).                              *)
(*                                                                         *)
(* CliSession rests on the way of a file into the index of a session: it   *)
(* is in the table already or among those ingested, and stays in the table *)
(* whoever inserts; and on the flags, which no session, whatever patterns  *)
(* it has read and wherever its sweep ends, sets on a file .cawignore      *)
(* never matched.                                                          *)
(*                                                                         *)
(* ClaudeCall rests on the places from which a call can return without     *)
(* looking at its child, of which the failed write is the one that leaves  *)
(* it running; TraceSink on who holds the mutex of the sink: exactly the   *)
(* item that is between its two writes.                                    *)
(*                                                                         *)
(* SessionLog rests on what comes before a marked token in any file: the   *)
(* user marker and the marker of the answer of its own turn, the latter    *)
(* behind an empty line, and no section starts in between.  So the section *)
(* that has the token has both markers, and each of its fields ends before *)
(* the token or is an answer that begins with the sentinel.                *)
(***************************************************************************)
EXTENDS Indexing, CliSession, ClaudeCall, TraceSink, ProxyServer, SessionLog,
        NumberLemmas, SequenceTheorems, TLAPS

-----------------------------------------------------------------------------
(* A stub of a path and an mtime has the number of chunks of that version. *)
LEMMA StubsOfAGroup ==
    ASSUME NEW r \in AllStubs
    PROVE  /\ r.mtime \in Versions
           /\ ChunksOf[r.mtime] \in Nat \ {0}
           /\ r.of = ChunksOf[r.mtime]
           /\ r.chunk \in 1 .. ChunksOf[r.mtime]
           /\ r = [path |-> r.path, chunk |-> r.chunk, of |-> ChunksOf[r.mtime],
                   version |-> r.mtime, mtime |-> r.mtime, stale |-> FALSE]
<1>1. PICK p \in Paths, v \in Versions : r \in RowsOf(p, v, v)
  BY DEF AllStubs
<1>2. ChunksOf[v] \in Nat \ {0}
  BY RowsAssumption, ElementOfSeq, LenProperties DEF Versions
<1>3. PICK i \in 1 .. ChunksOf[v] :
        r = [path |-> p, chunk |-> i, of |-> ChunksOf[v],
             version |-> v, mtime |-> v, stale |-> FALSE]
  BY <1>1 DEF RowsOf
<1> QED
  BY <1>2, <1>3

(* What ingest returns are stubs of the file.                              *)
LEMMA IngestedStubs ==
    ASSUME NEW p \in Paths, files \in [Paths -> Versions]
    PROVE  Ingested(p) \in Seq(AllStubs)
<1> DEFINE v == files[p]
           n == ChunksOf[v]
           Nth(i) == CHOOSE r \in RowsOf(p, v, v) : r.chunk = i
<1>1. v \in Versions /\ n \in Nat
  BY RowsAssumption, ElementOfSeq, LenProperties DEF Versions
<1>2. ASSUME NEW i \in 1 .. n PROVE Nth(i) \in AllStubs
  <2> DEFINE row == [path |-> p, chunk |-> i, of |-> ChunksOf[v],
                     version |-> v, mtime |-> v, stale |-> FALSE]
  <2>1. row \in RowsOf(p, v, v) /\ row.chunk = i
    BY DEF RowsOf
  <2>2. \E r \in RowsOf(p, v, v) : r.chunk = i
    BY <2>1
  <2>3. RowsOf(p, v, v) \subseteq AllStubs
    BY <1>1 DEF AllStubs
  <2> HIDE DEF v, row
  <2> QED
    BY <2>2, <2>3
<1>3. Ingested(p) = [i \in 1 .. n |-> Nth(i)]
  BY DEF Ingested
<1> HIDE DEF Nth, n
<1> QED
  BY <1>1, <1>2, <1>3

-----------------------------------------------------------------------------
(* Every step of a build, an edit, a crash or a load keeps the types.      *)
LEMMA IndexingStep ==
    ASSUME IndexingTypeOK, [Next]_vars
    PROVE  IndexingTypeOK'
<1> USE DEF IndexingTypeOK
<1>0. << >> \in Seq(AllStubs)
  BY EmptySeq
<1>1. ASSUME NEW rebuild \in BOOLEAN, StartBuild(rebuild)
      PROVE  IndexingTypeOK'
  BY <1>1 DEF StartBuild
<1>2. ASSUME NEW i \in Producers, Ingest(i)
      PROVE  IndexingTypeOK'
  <2>1. PICK p \in todo :
          /\ todo' = todo \ {p}
          /\ \/ /\ sending' = [sending EXCEPT ![i] = IF p \in Skipped THEN <<>> ELSE Ingested(p)]
                /\ UNCHANGED unreadable
             \/ unreadable' = unreadable \cup {p} /\ UNCHANGED sending
    BY <1>2 DEF Ingest
  <2>2. Ingested(p) \in Seq(AllStubs)
    BY IngestedStubs
  <2>3. /\ sending' \in [Producers -> Seq(AllStubs)] /\ unreadable' \subseteq Paths
        /\ todo' \subseteq Paths
    BY <1>0, <2>1, <2>2
  <2> QED
    BY <1>2, <2>3 DEF Ingest
<1>3. ASSUME NEW i \in Producers, Send(i)
      PROVE  IndexingTypeOK'
  <2>1. /\ sending[i] \in Seq(AllStubs) /\ sending[i] # <<>>
        /\ channel' = Append(channel, Head(sending[i]))
        /\ sending' = [sending EXCEPT ![i] = Tail(@)]
    BY <1>3 DEF Send
  <2>2. Head(sending[i]) \in AllStubs /\ Tail(sending[i]) \in Seq(AllStubs)
    BY <2>1, HeadTailProperties
  <2>3. channel' \in Seq(AllStubs)
    BY <2>1, <2>2, AppendProperties
  <2>4. sending' \in [Producers -> Seq(AllStubs)]
    BY <2>1, <2>2
  <2> QED
    BY <1>3, <2>3, <2>4 DEF Send
<1>4. CASE Receive
  <2>1. /\ channel # <<>> /\ buf' = Append(buf, Head(channel)) /\ channel' = Tail(channel)
    BY <1>4 DEF Receive
  <2>2. Head(channel) \in AllStubs /\ channel' \in Seq(AllStubs)
    BY <2>1, HeadTailProperties
  <2>3. buf' \in Seq(AllStubs)
    BY <2>1, <2>2, AppendProperties
  <2> QED
    BY <1>4, <2>2, <2>3 DEF Receive
<1>5. CASE FlushBatch
  <2>1. rows' = InsertBatch(rows, buf) /\ buf' = <<>>
    BY <1>5 DEF FlushBatch
  <2>2. \A k \in DOMAIN buf : buf[k] \in AllStubs
    BY ElementOfSeq, LenProperties
  <2>3. rows' \subseteq AllStubs
    BY <2>1, <2>2 DEF InsertBatch
  <2> QED
    BY <1>0, <1>5, <2>1, <2>3 DEF FlushBatch
<1>6. CASE EndBuild
  BY <1>0, <1>6 DEF EndBuild
<1>7. CASE Crash
  BY <1>0, <1>7 DEF Crash
<1>8. CASE LoadPrebuiltIndex
  BY <1>8 DEF LoadPrebuiltIndex, buildVars
<1>9. ASSUME NEW p \in Paths, Edit(p)
      PROVE  IndexingTypeOK'
  BY <1>9 DEF Edit, buildVars
<1>10. CASE UNCHANGED vars
  BY <1>10 DEF vars, buildVars
<1> QED
  BY <1>1, <1>2, <1>3, <1>4, <1>5, <1>6, <1>7, <1>8, <1>9, <1>10 DEF Next

(* Stubs are where they belong and are what ingest makes of a file         *)
(* (build_index.rs, the producers, the channel and flush_batch).           *)
THEOREM IndexingTypeCorrect == IndexingSpec => []IndexingTypeOK
<1>1. Init => IndexingTypeOK
  <2> SUFFICES ASSUME Init PROVE IndexingTypeOK
    OBVIOUS
  <2>1. 1 \in Versions
    BY RowsAssumption, EmptySeq, LenProperties DEF Versions
  <2>2. files \in [Paths -> Versions]
    BY <2>1 DEF Init
  <2> QED
    BY <2>2, EmptySeq DEF Init, IndexingTypeOK
<1>2. IndexingTypeOK /\ [Next]_vars => IndexingTypeOK'
  BY IndexingStep
<1> QED
  BY <1>1, <1>2, PTL DEF IndexingSpec

-----------------------------------------------------------------------------
(* As many rows as there are chunks are all of the chunks.                 *)
LEMMA CountedIsWhole ==
    ASSUME rows \subseteq AllStubs, NEW g \in IndexedPaths(rows)
    PROVE  {r.chunk : r \in Group(rows, g)} = 1 .. ChunksOf[g[2]]
<1> DEFINE G == Group(rows, g)
           n == ChunksOf[g[2]]
           f == [r \in G |-> r.chunk]
<1>1. PICK r0 \in rows : ~r0.stale /\ g = <<r0.path, r0.mtime>>
  BY DEF IndexedPaths, Groups
<1>2. r0 \in G
  BY <1>1 DEF Group, RowsAt
<1>3. \A r \in G : r \in AllStubs /\ r.path = g[1] /\ r.mtime = g[2]
  BY DEF Group, RowsAt
<1>4. n \in Nat /\ \A r \in G : r.of = n /\ r.chunk \in 1 .. n
  BY <1>2, <1>3, StubsOfAGroup
<1>5. ASSUME NEW r \in G, NEW s \in G, r.chunk = s.chunk PROVE r = s
  <2>1. /\ r.path = s.path /\ r.mtime = s.mtime
        /\ r \in AllStubs /\ s \in AllStubs
    BY <1>3
  <2>2. /\ r = [path |-> r.path, chunk |-> r.chunk, of |-> ChunksOf[r.mtime],
               version |-> r.mtime, mtime |-> r.mtime, stale |-> FALSE]
        /\ s = [path |-> s.path, chunk |-> s.chunk, of |-> ChunksOf[s.mtime],
               version |-> s.mtime, mtime |-> s.mtime, stale |-> FALSE]
    BY <2>1, StubsOfAGroup
  <2> QED
    BY <1>5, <2>1, <2>2
<1>6. f \in Injection(G, 1 .. n)
  BY <1>4, <1>5 DEF Injection, IsInjective
<1>7. IsFiniteSet(1 .. n) /\ Cardinality(1 .. n) = n
  <2>1. n \in Nat
    BY <1>4
  <2> HIDE DEF n
  <2> QED
    BY <2>1, CountTo
<1>8. /\ IsFiniteSet(G) /\ Cardinality(G) <= n
      /\ Cardinality(G) = n <=> f \in Surjection(G, 1 .. n)
  BY <1>6, <1>7, FS_Injection
<1>9. Cardinality(G) >= n
  <2>1. Cardinality(G) >= r0.of
    BY <1>2 DEF IndexedPaths
  <2> QED
    BY <1>2, <1>4, <2>1
<1>10. Cardinality(G) \in Nat
  BY <1>8, FS_CardinalityType
<1>11. f \in Surjection(G, 1 .. n)
  BY <1>4, <1>8, <1>9, <1>10
<1>12. \A i \in 1 .. n : \E r \in G : r.chunk = i
  BY <1>11 DEF Surjection
<1> HIDE DEF G, n
<1> QED
  BY <1>4, <1>12 DEF G, n

(* A resumed build skips no file that an interrupted one left incomplete   *)
(* (sqlite_store.rs, indexed_paths).                                       *)
THEOREM SkipsOnlyTheWhole == IndexingSpec => []SkippedIsWhole
<1>1. IndexingTypeOK => SkippedIsWhole
  BY CountedIsWhole DEF IndexingTypeOK, SkippedIsWhole
<1> QED
  BY <1>1, IndexingTypeCorrect, PTL
-----------------------------------------------------------------------------
(* Where the stubs of a running build are.                                 *)
Elements(s) == {s[k] : k \in DOMAIN s}
InFlight ==
    (UNION {Elements(sending[i]) : i \in Producers}) \cup Elements(channel) \cup Elements(buf)
Current(p) == RowsOf(p, files[p], files[p])

\* The paths of which the build that runs has sent nothing.
Unsent == todo \cup unreadable

BuildInv ==
    /\ \A r \in InFlight : r.path \in Paths \ Unsent /\ r \in Current(r.path)
    /\ building => \A p \in Paths \ Skipped : p \notin Unsent => Current(p) \subseteq rows \cup InFlight
    /\ building => \A p \in Unsent : <<p, files[p]>> \notin IndexedPaths(rows)
    /\ todo \cap unreadable = {}
    /\ ~building => InFlight = {} /\ unreadable = {}

(* Of the items of a batch with one id there is a last one.                *)
LEMMA LastWithId ==
    ASSUME NEW items \in Seq(AllStubs), NEW k \in DOMAIN items
    PROVE  \E l \in DOMAIN items :
             /\ Id(items[l]) = Id(items[k])
             /\ \A j \in DOMAIN items : j > l => Id(items[j]) # Id(items[l])
<1> DEFINE same == {j \in DOMAIN items : Id(items[j]) = Id(items[k])}
           back == {Len(items) - j : j \in same}
<1>1. Len(items) \in Nat /\ DOMAIN items = 1 .. Len(items)
  BY LenProperties
<1>2. back \in SUBSET Nat /\ back # {}
  BY <1>1
<1> HIDE DEF back
<1>3. PICK m \in back : \A n \in back : m <= n
  BY <1>2, LeastNumber
<1>4. PICK l \in same : m = Len(items) - l
  BY DEF back
<1>5. ASSUME NEW j \in same PROVE j <= l
  <2>1. Len(items) - j \in back
    BY DEF back
  <2>2. Len(items) - l <= Len(items) - j
    BY <1>3, <1>4, <2>1
  <2> QED
    BY <1>1, <2>2
<1> QED
  BY <1>1, <1>4, <1>5

(* The stubs of the files as they are have different ids.                  *)
LEMMA CurrentStubs ==
    ASSUME IndexingTypeOK, NEW p \in Paths, NEW r \in Current(p)
    PROVE  /\ r \in AllStubs /\ r.path = p /\ r.mtime = files[p]
           /\ r.of = ChunksOf[files[p]] /\ ChunksOf[files[p]] \in Nat
           /\ r.chunk \in 1 .. ChunksOf[files[p]]
           /\ r = [path |-> p, chunk |-> r.chunk, of |-> ChunksOf[files[p]],
                   version |-> files[p], mtime |-> files[p], stale |-> FALSE]
<1>1. files[p] \in Versions
  BY DEF IndexingTypeOK
<1>2. ChunksOf[files[p]] \in Nat \ {0}
  BY <1>1, RowsAssumption, ElementOfSeq, LenProperties DEF Versions
<1>3. r \in AllStubs
  BY <1>1 DEF AllStubs, Current
<1>4. PICK i \in 1 .. ChunksOf[files[p]] :
        r = [path |-> p, chunk |-> i, of |-> ChunksOf[files[p]],
             version |-> files[p], mtime |-> files[p], stale |-> FALSE]
  BY DEF Current, RowsOf
<1> QED
  BY <1>2, <1>3, <1>4

LEMMA CurrentIds ==
    ASSUME IndexingTypeOK, NEW p \in Paths, NEW q \in Paths,
           NEW r \in Current(p), NEW s \in Current(q), Id(r) = Id(s)
    PROVE  r = s
<1>1. r.path = s.path /\ p = q
  <2>1. Id(r)[1] = r.path /\ Id(s)[1] = s.path
    BY DEF Id
  <2> QED
    BY <2>1, CurrentStubs
<1>2. r.of = s.of /\ r.of \in Nat /\ r.chunk \in 1 .. r.of /\ s.chunk \in 1 .. r.of
  BY <1>1, CurrentStubs
<1>3. r.chunk = s.chunk
  <2>1. CASE r.of = 1
    BY <1>2, <2>1
  <2>2. CASE r.of # 1
    <3>1. Id(r)[2] = r.chunk /\ Id(s)[2] = s.chunk
      BY <1>2, <2>2 DEF Id
    <3> QED
      BY <3>1
  <2> QED
    BY <2>1, <2>2
<1> DEFINE row(c) == [path |-> p, chunk |-> c, of |-> ChunksOf[files[p]],
                      version |-> files[p], mtime |-> files[p], stale |-> FALSE]
<1>4. r = row(r.chunk) /\ s = row(s.chunk)
  BY <1>1, CurrentStubs
<1> HIDE DEF row
<1> QED
  BY <1>3, <1>4

(* A batch of stubs of the files as they are loses none of those that are  *)
(* there already, and all of it gets in.                                   *)
LEMMA BatchKept ==
    ASSUME IndexingTypeOK, NEW p \in Paths, NEW r \in Current(p),
           \A k \in DOMAIN buf : buf[k].path \in Paths /\ buf[k] \in Current(buf[k].path),
           r \in rows \cup Elements(buf)
    PROVE  r \in InsertBatch(rows, buf)
<1> DEFINE last == {k \in DOMAIN buf : \A l \in DOMAIN buf : l > k => Id(buf[l]) # Id(buf[k])}
<1>1. InsertBatch(rows, buf) =
        {x \in rows : \A k \in last : Id(buf[k]) # Id(x)} \cup {buf[k] : k \in last}
  BY DEF InsertBatch
<1>2. ASSUME NEW k \in DOMAIN buf, Id(buf[k]) = Id(r)
      PROVE  buf[k] = r
  BY <1>2, CurrentIds
<1>3. CASE r \in Elements(buf)
  <2>1. PICK k \in DOMAIN buf : buf[k] = r
    BY <1>3 DEF Elements
  <2>2. buf \in Seq(AllStubs)
    BY DEF IndexingTypeOK
  <2>3. PICK l \in DOMAIN buf :
          /\ Id(buf[l]) = Id(buf[k])
          /\ \A j \in DOMAIN buf : j > l => Id(buf[j]) # Id(buf[l])
    BY <2>2, LastWithId
  <2>4. buf[l] = r /\ l \in last
    BY <1>2, <2>1, <2>3
  <2> HIDE DEF last
  <2> QED
    BY <1>1, <2>4
<1>4. CASE r \in rows /\ \E k \in last : Id(buf[k]) = Id(r)
  <2>1. PICK k \in last : Id(buf[k]) = Id(r)
    BY <1>4
  <2>2. buf[k] = r
    BY <1>2, <2>1
  <2> HIDE DEF last
  <2> QED
    BY <1>1, <2>2
<1>5. CASE r \in rows /\ \A k \in last : Id(buf[k]) # Id(r)
  <2> HIDE DEF last
  <2> QED
    BY <1>1, <1>5
<1> QED
  BY <1>3, <1>4, <1>5

LEMMA ElementsOf ==
    ASSUME NEW S
    PROVE  /\ Elements(<<>>) = {}
           /\ \A s \in Seq(S), e \in S : Elements(Append(s, e)) = Elements(s) \cup {e}
           /\ \A s \in Seq(S) : s # <<>> => Elements(s) = {Head(s)} \cup Elements(Tail(s))
<1>1. Elements(<<>>) = {}
  BY DEF Elements
<1>2. ASSUME NEW s \in Seq(S), NEW e \in S
      PROVE  Elements(Append(s, e)) = Elements(s) \cup {e}
  <2>1. /\ DOMAIN s = 1 .. Len(s) /\ Len(s) \in Nat
        /\ DOMAIN Append(s, e) = 1 .. (Len(s) + 1)
        /\ \A k \in 1 .. Len(s) : Append(s, e)[k] = s[k]
        /\ Append(s, e)[Len(s) + 1] = e
    BY AppendProperties, LenProperties
  <2>2. 1 .. (Len(s) + 1) = 1 .. Len(s) \cup {Len(s) + 1}
    BY <2>1
  <2> QED
    BY <2>1, <2>2 DEF Elements
<1>3. ASSUME NEW s \in Seq(S), s # <<>>
      PROVE  Elements(s) = {Head(s)} \cup Elements(Tail(s))
  <2>1. /\ DOMAIN s = 1 .. Len(s) /\ Len(s) \in Nat \ {0}
        /\ Head(s) = s[1]
        /\ DOMAIN Tail(s) = 1 .. (Len(s) - 1)
        /\ \A k \in 1 .. (Len(s) - 1) : Tail(s)[k] = s[k + 1]
    BY <1>3, HeadTailProperties, LenProperties, EmptySeq
  <2>2. ASSUME NEW x \in Elements(s) PROVE x \in {Head(s)} \cup Elements(Tail(s))
    <3>1. PICK k \in 1 .. Len(s) : x = s[k]
      BY <2>1 DEF Elements
    <3>2. CASE k = 1
      BY <2>1, <3>1, <3>2
    <3>3. CASE k # 1
      <4>1. k - 1 \in 1 .. (Len(s) - 1) /\ Tail(s)[k - 1] = s[k]
        BY <2>1, <3>3
      <4> QED
        BY <2>1, <3>1, <4>1 DEF Elements
    <3> QED
      BY <3>2, <3>3
  <2>3. Elements(Tail(s)) \subseteq Elements(s)
    <3>1. \A k \in 1 .. (Len(s) - 1) : k + 1 \in 1 .. Len(s)
      BY <2>1
    <3> QED
      BY <2>1, <3>1 DEF Elements
  <2>4. Head(s) \in Elements(s)
    BY <2>1 DEF Elements
  <2> QED
    BY <2>2, <2>3, <2>4
<1> QED
  BY <1>1, <1>2, <1>3

LEMMA IngestedIsCurrent ==
    ASSUME IndexingTypeOK, NEW p \in Paths
    PROVE  Elements(Ingested(p)) = Current(p)
<1> DEFINE v == files[p]
           n == ChunksOf[v]
           Nth(i) == CHOOSE r \in RowsOf(p, v, v) : r.chunk = i
           row(i) == [path |-> p, chunk |-> i, of |-> ChunksOf[v],
                      version |-> v, mtime |-> v, stale |-> FALSE]
<1>1. RowsOf(p, v, v) = {row(i) : i \in 1 .. n} /\ \A i \in 1 .. n : row(i).chunk = i
  BY DEF RowsOf
<1> HIDE DEF row, n
<1>2. \A i \in 1 .. n : Nth(i) = row(i)
  BY <1>1
<1>3. Ingested(p) = [i \in 1 .. n |-> Nth(i)]
  BY DEF Ingested, n
<1> HIDE DEF Nth
<1>4. Elements(Ingested(p)) = {row(i) : i \in 1 .. n}
  BY <1>2, <1>3 DEF Elements
<1> QED
  BY <1>1, <1>4 DEF Current

(* What the walk leaves out of a build has all of its stubs in the table.  *)
LEMMA LeftOutIsThere ==
    ASSUME IndexingTypeOK, NEW p \in Paths, <<p, files[p]>> \in IndexedPaths(rows)
    PROVE  Current(p) \subseteq rows
<1> DEFINE g == <<p, files[p]>>
<1>1. {r.chunk : r \in Group(rows, g)} = 1 .. ChunksOf[files[p]]
  BY CountedIsWhole DEF IndexingTypeOK
<1>2. ASSUME NEW r \in Current(p) PROVE r \in rows
  <2>1. r.chunk \in 1 .. ChunksOf[files[p]]
    BY CurrentStubs
  <2>2. PICK s \in Group(rows, g) : s.chunk = r.chunk
    BY <1>1, <2>1
  <2>3. s \in rows /\ s \in AllStubs /\ s.path = p /\ s.mtime = files[p]
    BY DEF Group, RowsAt, IndexingTypeOK
  <2> DEFINE row(c) == [path |-> p, chunk |-> c, of |-> ChunksOf[files[p]],
                        version |-> files[p], mtime |-> files[p], stale |-> FALSE]
  <2>4. s = row(s.chunk)
    BY <2>3, StubsOfAGroup
  <2>5. r = row(r.chunk)
    BY CurrentStubs
  <2> HIDE DEF row
  <2> QED
    BY <2>2, <2>3, <2>4, <2>5
<1> QED
  BY <1>2

(* A batch without stubs of a path leaves its rows alone, and whether it   *)
(* counts as indexed.                                                      *)
LEMMA OthersUntouched ==
    ASSUME NEW p, NEW m, <<p, m>> \notin IndexedPaths(rows),
           \A k \in DOMAIN buf : buf[k].path # p
    PROVE  <<p, m>> \notin IndexedPaths(InsertBatch(rows, buf))
<1> DEFINE g == <<p, m>>
           after == InsertBatch(rows, buf)
           last == {k \in DOMAIN buf : \A l \in DOMAIN buf : l > k => Id(buf[l]) # Id(buf[k])}
<1>1. after = {r \in rows : \A k \in last : Id(buf[k]) # Id(r)} \cup {buf[k] : k \in last}
  BY DEF InsertBatch
<1>2. \A r \in rows, k \in last : r.path = p => Id(buf[k]) # Id(r)
  <2> SUFFICES ASSUME NEW r \in rows, NEW k \in last, r.path = p
               PROVE  Id(buf[k]) # Id(r)
    OBVIOUS
  <2>1. Id(buf[k])[1] = buf[k].path /\ Id(r)[1] = r.path
    BY DEF Id
  <2> QED
    BY <2>1
<1>3. last \subseteq DOMAIN buf
  OBVIOUS
<1> HIDE DEF after, last
<1>4. Group(after, g) = Group(rows, g)
  BY <1>1, <1>2, <1>3 DEF Group, RowsAt
<1>5. \A rs : g \in Groups(rs) <=> Group(rs, g) # {}
  BY DEF Group, Groups, RowsAt
<1> HIDE DEF g
<1>6. g \in IndexedPaths(after) <=> g \in IndexedPaths(rows)
  BY <1>4, <1>5 DEF IndexedPaths
<1> QED
  BY <1>6 DEF g, after

LEMMA BuildStep ==
    ASSUME IndexingTypeOK, BuildInv, [Next]_vars
    PROVE  BuildInv'
<1>0. /\ IndexingTypeOK' /\ Elements(<<>>) = {}
      /\ sending \in [Producers -> Seq(AllStubs)] /\ channel \in Seq(AllStubs)
      /\ buf \in Seq(AllStubs) /\ todo \subseteq Paths /\ unreadable \subseteq Paths
  BY IndexingStep, ElementsOf DEF IndexingTypeOK
<1>1. ASSUME UNCHANGED <<files, rows, building, todo, unreadable>>, InFlight' = InFlight
      PROVE  BuildInv'
  BY <1>1 DEF BuildInv, Current, Unsent
<1>2. ASSUME NEW rebuild \in BOOLEAN, StartBuild(rebuild)
      PROVE  BuildInv'
  <2> DEFINE opened == IF rebuild THEN {} ELSE rows
  <2>1. /\ InFlight = {} /\ InFlight' = {} /\ unreadable = {} /\ unreadable' = {}
        /\ rows' = opened /\ files' = files
        /\ todo' = {p \in Paths : <<p, files[p]>> \notin IndexedPaths(opened)}
    BY <1>2 DEF StartBuild, BuildInv, InFlight
  <2>2. ASSUME NEW p \in Paths, p \notin Unsent'
        PROVE  Current(p)' \subseteq rows'
    <3>1. <<p, files[p]>> \in IndexedPaths(opened)
      BY <2>1, <2>2 DEF Unsent
    <3>2. IndexedPaths({}) = {}
      BY DEF IndexedPaths, Groups
    <3>3. opened = rows
      BY <3>1, <3>2
    <3> QED
      BY <2>1, <3>1, <3>3, LeftOutIsThere DEF Current
  <2>3. \A p \in Unsent' : <<p, files[p]>>' \notin IndexedPaths(rows')
    BY <2>1 DEF Unsent
  <2> QED
    BY <2>1, <2>2, <2>3 DEF BuildInv
<1>3. ASSUME NEW i \in Producers, Ingest(i)
      PROVE  BuildInv'
  <2>1. PICK p \in todo :
          /\ todo' = todo \ {p}
          /\ \/ /\ sending' = [sending EXCEPT ![i] = IF p \in Skipped THEN <<>> ELSE Ingested(p)]
                /\ UNCHANGED unreadable
             \/ unreadable' = unreadable \cup {p} /\ UNCHANGED sending
    BY <1>3 DEF Ingest
  <2>2. /\ p \in Paths /\ sending[i] = <<>> /\ building
        /\ UNCHANGED <<files, rows, building, channel, buf>>
    BY <1>0, <1>3, <2>1 DEF Ingest
  <2>3. \A q \in Paths : Current(q)' = Current(q)
    BY <2>2 DEF Current
  <2>4. CASE unreadable' = unreadable \cup {p} /\ UNCHANGED sending
    <3>1. Unsent' = Unsent /\ InFlight' = InFlight /\ todo' \cap unreadable' = {}
      BY <2>1, <2>2, <2>4 DEF Unsent, InFlight, BuildInv
    <3> QED
      BY <2>2, <2>3, <3>1 DEF BuildInv
  <2>5. CASE /\ sending' = [sending EXCEPT ![i] = IF p \in Skipped THEN <<>> ELSE Ingested(p)]
             /\ UNCHANGED unreadable
    <3>1. /\ \A j \in Producers \ {i} : sending'[j] = sending[j]
          /\ sending'[i] = IF p \in Skipped THEN <<>> ELSE Ingested(p)
      BY <1>0, <2>5
    <3>2. Elements(sending[i]) = {}
      BY <1>0, <2>2
    <3>3. Elements(sending'[i]) = IF p \in Skipped THEN {} ELSE Current(p)
      BY <1>0, <2>2, <3>1, IngestedIsCurrent
    <3>4. InFlight' = IF p \in Skipped THEN InFlight ELSE InFlight \cup Current(p)
      BY <2>2, <3>1, <3>2, <3>3 DEF InFlight
    <3>5. Unsent' = Unsent \ {p} /\ p \in Unsent
      BY <2>1, <2>5 DEF Unsent, BuildInv
    <3>6. \A r \in Current(p) : r.path = p
      BY <2>2, CurrentStubs
    <3>7. \A r \in InFlight' : r.path \in Paths \ Unsent' /\ r \in Current(r.path)'
      BY <2>2, <2>3, <3>4, <3>5, <3>6 DEF BuildInv
    <3>8. \A q \in Paths \ Skipped : q \notin Unsent' => Current(q)' \subseteq rows' \cup InFlight'
      BY <2>2, <2>3, <3>4, <3>5 DEF BuildInv
    <3>9. \A q \in Unsent' : <<q, files[q]>>' \notin IndexedPaths(rows')
      BY <2>2, <3>5 DEF BuildInv
    <3>10. todo' \cap unreadable' = {}
      BY <2>1, <2>5 DEF BuildInv
    <3> QED
      BY <2>2, <3>7, <3>8, <3>9, <3>10 DEF BuildInv
  <2> QED
    BY <2>1, <2>4, <2>5
<1>4. ASSUME NEW i \in Producers, Send(i)
      PROVE  BuildInv'
  <2>1. /\ sending[i] # <<>> /\ channel' = Append(channel, Head(sending[i]))
        /\ sending'[i] = Tail(sending[i])
        /\ \A j \in Producers \ {i} : sending'[j] = sending[j]
        /\ UNCHANGED <<files, rows, building, todo, unreadable, buf>>
    BY <1>0, <1>4 DEF Send
  <2>2. Head(sending[i]) \in AllStubs
    BY <1>0, <2>1, HeadTailProperties
  <2>3. /\ Elements(channel') = Elements(channel) \cup {Head(sending[i])}
        /\ Elements(sending[i]) = {Head(sending[i])} \cup Elements(sending'[i])
    BY <1>0, <2>1, <2>2, ElementsOf
  <2>4. InFlight' = InFlight
    BY <2>1, <2>3 DEF InFlight
  <2> QED
    BY <1>1, <2>1, <2>4
<1>5. CASE Receive
  <2>1. /\ channel # <<>> /\ buf' = Append(buf, Head(channel)) /\ channel' = Tail(channel)
        /\ UNCHANGED <<files, rows, building, todo, unreadable, sending>>
    BY <1>5 DEF Receive
  <2>2. Head(channel) \in AllStubs
    BY <1>0, <2>1, HeadTailProperties
  <2>3. /\ Elements(buf') = Elements(buf) \cup {Head(channel)}
        /\ Elements(channel) = {Head(channel)} \cup Elements(channel')
    BY <1>0, <2>1, <2>2, ElementsOf
  <2>4. InFlight' = InFlight
    BY <2>1, <2>3 DEF InFlight
  <2> QED
    BY <1>1, <2>1, <2>4
<1>6. CASE FlushBatch
  <2>1. /\ building /\ rows' = InsertBatch(rows, buf) /\ buf' = <<>>
        /\ UNCHANGED <<files, building, todo, unreadable, sending, channel>>
    BY <1>6 DEF FlushBatch
  <2>2. Elements(buf') = {}
    BY <1>0, <2>1
  <2>3. InFlight = InFlight' \cup Elements(buf)
    BY <2>1, <2>2 DEF InFlight
  <2>4. \A k \in DOMAIN buf : buf[k].path \in Paths /\ buf[k] \in Current(buf[k].path)
    BY DEF BuildInv, InFlight, Elements
  <2>5. ASSUME NEW p \in Paths \ Skipped, p \notin Unsent, NEW r \in Current(p)
        PROVE  r \in rows' \cup InFlight'
    <3>1. r \in rows \cup InFlight
      BY <2>1, <2>5 DEF BuildInv
    <3>2. CASE r \in InFlight'
      BY <3>2
    <3>3. CASE r \in rows \cup Elements(buf)
      BY <2>1, <2>4, <3>3, BatchKept
    <3> QED
      BY <2>3, <3>1, <3>2, <3>3
  <2>6. \A q : Current(q)' = Current(q)
    BY <2>1 DEF Current
  <2>7. Unsent' = Unsent
    BY <2>1 DEF Unsent
  <2>8. \A r \in InFlight' : r.path \in Paths \ Unsent' /\ r \in Current(r.path)'
    BY <2>3, <2>6, <2>7 DEF BuildInv
  <2>9. \A q \in Paths \ Skipped : q \notin Unsent' => Current(q)' \subseteq rows' \cup InFlight'
    BY <2>1, <2>5, <2>6, <2>7
  <2>10. ASSUME NEW p \in Unsent PROVE <<p, files[p]>> \notin IndexedPaths(rows')
    <3>1. <<p, files[p]>> \notin IndexedPaths(rows)
      BY <2>1 DEF BuildInv
    <3>2. \A k \in DOMAIN buf : buf[k].path # p
      BY DEF BuildInv, InFlight, Elements
    <3> QED
      BY <2>1, <3>1, <3>2, OthersUntouched
  <2> QED
    BY <2>1, <2>7, <2>8, <2>9, <2>10 DEF BuildInv
<1>7. CASE EndBuild
  <2>1. /\ buf' = <<>> /\ channel' = <<>> /\ \A i \in Producers : sending'[i] = <<>>
        /\ ~building' /\ unreadable' = {}
    BY <1>7 DEF EndBuild, Disconnected
  <2>2. InFlight' = {}
    BY <1>0, <2>1 DEF InFlight
  <2> QED
    BY <2>1, <2>2 DEF BuildInv
<1>8. CASE Crash
  <2>1. InFlight' = {}
    BY <1>0, <1>8 DEF InFlight, Crash
  <2> QED
    BY <1>8, <2>1 DEF BuildInv, Crash
<1>9. CASE LoadPrebuiltIndex \/ (\E p \in Paths : Edit(p))
  <2>1. InFlight = {} /\ InFlight' = {} /\ ~building' /\ unreadable' = {}
    BY <1>9 DEF BuildInv, InFlight, LoadPrebuiltIndex, Edit, buildVars
  <2> QED
    BY <2>1 DEF BuildInv
<1>10. CASE UNCHANGED vars
  BY <1>1, <1>10 DEF vars, buildVars, InFlight
<1> QED
  BY <1>2, <1>3, <1>4, <1>5, <1>6, <1>7, <1>8, <1>9, <1>10 DEF Next

(* A build that ends has indexed, in its current version, every file that  *)
(* it could read: no stub is lost between the producers, the channel and   *)
(* the last batch, and INSERT OR REPLACE takes none away.  What it could   *)
(* not read the next build takes up again, for what an interrupted build   *)
(* may have left of it is not all of it (build_index.rs).                  *)
THEOREM BuildsAreComplete == IndexingSpec => BuildComplete
<1> DEFINE Whole(p) == IF p \in unreadable THEN <<p, files[p]>> \notin IndexedPaths(rows')
                       ELSE RowsOf(p, files[p], files[p]) \subseteq rows'
           EndsWhole == EndBuild => \A p \in Paths \ Skipped : Whole(p)
<1>1. Init => BuildInv
  <2>1. Elements(<<>>) = {}
    BY ElementsOf
  <2> QED
    BY <2>1 DEF Init, BuildInv, InFlight
<1>2. IndexingTypeOK /\ BuildInv /\ [Next]_vars => BuildInv'
  BY BuildStep
<1>3. IndexingTypeOK /\ BuildInv /\ [Next]_vars => [EndsWhole]_vars
  <2> SUFFICES ASSUME IndexingTypeOK, BuildInv, EndBuild,
                      NEW p \in Paths \ Skipped
               PROVE  Whole(p)
    OBVIOUS
  <2>1. /\ building /\ todo = {} /\ channel = <<>> /\ buf = <<>> /\ rows' = rows
        /\ \A i \in Producers : sending[i] = <<>>
    BY DEF EndBuild, Disconnected, BatchDue
  <2>2. InFlight = {}
    BY <2>1, ElementsOf DEF InFlight
  <2>3. CASE p \in unreadable
    BY <2>1, <2>3 DEF BuildInv, Unsent
  <2>4. CASE p \notin unreadable
    BY <2>1, <2>2, <2>4 DEF BuildInv, Unsent, Current
  <2> QED
    BY <2>3, <2>4
<1>4. IndexingSpec => [][EndsWhole]_vars
  BY <1>1, <1>2, <1>3, IndexingTypeCorrect, PTL DEF IndexingSpec
<1> QED
  BY <1>4 DEF BuildComplete

-----------------------------------------------------------------------------
CliTypeOK ==
    /\ patterns \subseteq Documents
    /\ stored \subseteq Documents
    /\ flagged \subseteq Documents
    /\ doing \in [Sessions -> {"off", "ingest", "sweep", "mark", "load", "ready"}]
    /\ ingested \in [Sessions -> SUBSET Documents]
    /\ sweep \in [Sessions -> SUBSET Documents]
    /\ index \in [Sessions -> SUBSET Documents]
    /\ missed \in [Sessions -> SUBSET Documents]
    /\ matched \subseteq Documents

\* No sweep marks, or is about to mark, what .cawignore never matched.
OnlyMatchedFlagged ==
    /\ patterns \subseteq matched
    /\ flagged \subseteq matched
    /\ \A s \in Sessions : sweep[s] \subseteq matched

\* The files session s owes its user, and how far it has come with them.
Owed(s) == Documents \ (Thin \cup matched \cup missed[s])

OwedIsKept(s) ==
    /\ doing[s] = "ingest" => Owed(s) \subseteq stored \cup ingested[s]
    /\ doing[s] \in {"sweep", "mark", "load", "ready"} => Owed(s) \subseteq stored
    /\ doing[s] = "ready" => Owed(s) \subseteq index[s]

CliInv == CliTypeOK /\ OnlyMatchedFlagged /\ \A s \in Sessions : OwedIsKept(s)

-----------------------------------------------------------------------------
(* What the steps of one session leave of another, and of the database.    *)
LEMMA OthersSteps ==
    ASSUME CliTypeOK, NEW s \in Sessions, Session(s)
    PROVE  /\ patterns' = patterns /\ matched' = matched /\ stored \subseteq stored'
           /\ \A t \in Sessions \ {s} :
                /\ doing'[t] = doing[t] /\ ingested'[t] = ingested[t]
                /\ index'[t] = index[t] /\ missed'[t] = missed[t]
<1> USE DEF CliTypeOK, Goto, Exit
<1>1. CASE Start(s)
  BY <1>1 DEF Start
<1>2. CASE EmbedAndInsertBatch(s)
  BY <1>2 DEF EmbedAndInsertBatch
<1>3. CASE EndIngest(s)
  BY <1>3 DEF EndIngest
<1>4. CASE ClearFlags(s) \/ MarkIgnored(s) \/ EndSweep(s) \/ SweepFails(s)
  BY <1>4 DEF ClearFlags, MarkIgnored, EndSweep, SweepFails
<1>5. CASE LoadIndex(s) \/ Quit(s)
  BY <1>5 DEF LoadIndex, Quit
<1> QED
  BY <1>1, <1>2, <1>3, <1>4, <1>5 DEF Session

(* A step of a session keeps the types of what it has.                     *)
LEMMA CliStep_TypeOK ==
    ASSUME CliTypeOK, NEW s \in Sessions, Session(s)
    PROVE  CliTypeOK'
<1> USE DEF CliTypeOK, Goto, Exit
<1>1. CASE Start(s)
  BY <1>1 DEF Start, Unindexed
<1>2. CASE EmbedAndInsertBatch(s)
  <2>1. CASE Exit(s) /\ UNCHANGED <<stored, flagged>>
    BY <1>2, <2>1 DEF EmbedAndInsertBatch
  <2>2. CASE \E batch \in SUBSET ingested[s] :
                /\ batch # {}
                /\ ingested' = [ingested EXCEPT ![s] = @ \ batch]
                /\ stored' = stored \cup (batch \ Thin)
                /\ flagged' = flagged \ batch
                /\ UNCHANGED <<doing, index, missed>>
    BY <1>2, <2>2 DEF EmbedAndInsertBatch
  <2> QED
    BY <1>2, <2>1, <2>2 DEF EmbedAndInsertBatch
<1>3. CASE EndIngest(s)
  BY <1>3 DEF EndIngest
<1>4. CASE ClearFlags(s)
  BY <1>4 DEF ClearFlags
<1>5. CASE MarkIgnored(s)
  BY <1>5 DEF MarkIgnored
<1>6. CASE EndSweep(s)
  BY <1>6 DEF EndSweep
<1>7. CASE SweepFails(s)
  BY <1>7 DEF SweepFails
<1>8. CASE LoadIndex(s)
  BY <1>8 DEF LoadIndex, Findable
<1>9. CASE Quit(s)
  BY <1>9 DEF Quit
<1> QED
  BY <1>1, <1>2, <1>3, <1>4, <1>5, <1>6, <1>7, <1>8, <1>9 DEF Session

(* ClearFlags picks what it will mark among what the patterns match.       *)
LEMMA CliStep_Flagged ==
    ASSUME CliTypeOK, OnlyMatchedFlagged, NEW s \in Sessions, Session(s)
    PROVE  OnlyMatchedFlagged'
<1> USE DEF CliTypeOK, OnlyMatchedFlagged
<1>0. patterns' = patterns /\ matched' = matched
  BY OthersSteps
<1>1. CASE EmbedAndInsertBatch(s)
  BY <1>0, <1>1 DEF EmbedAndInsertBatch
<1>2. CASE ClearFlags(s)
  BY <1>0, <1>2 DEF ClearFlags
<1>3. CASE MarkIgnored(s)
  BY <1>0, <1>3 DEF MarkIgnored
<1>4. CASE SweepFails(s)
  BY <1>0, <1>4 DEF SweepFails
<1>5. CASE Start(s) \/ EndIngest(s) \/ EndSweep(s) \/ LoadIndex(s) \/ Quit(s)
  BY <1>0, <1>5 DEF Start, EndIngest, EndSweep, LoadIndex, Quit
<1> QED
  BY <1>1, <1>2, <1>3, <1>4, <1>5 DEF Session

(* A session that goes on loses no file on its way from the walk into its  *)
(* index.                                                                  *)
LEMMA CliStep_Owed ==
    ASSUME CliTypeOK, OnlyMatchedFlagged, NEW s \in Sessions, OwedIsKept(s), Session(s)
    PROVE  OwedIsKept(s)'
<1> USE DEF CliTypeOK, OwedIsKept, Owed, Goto
<1>0. patterns' = patterns /\ matched' = matched /\ stored \subseteq stored'
  BY OthersSteps
<1>1. CASE Start(s)
  <2>0. PICK known \in {stored, {}} : \E failing \in SUBSET Unindexed(known) :
          /\ missed' = [missed EXCEPT ![s] = failing]
          /\ ingested' = [ingested EXCEPT ![s] = Unindexed(known) \ failing]
    BY <1>1 DEF Start
  <2>1. PICK failing \in SUBSET Unindexed(known) :
          /\ missed' = [missed EXCEPT ![s] = failing]
          /\ ingested' = [ingested EXCEPT ![s] = Unindexed(known) \ failing]
    BY <2>0
  <2>2. doing'[s] = "ingest" /\ stored' = stored
    BY <1>1 DEF Start
  <2>3. missed'[s] = failing /\ ingested'[s] = Unindexed(known) \ failing
    BY <2>1
  <2>4. Unindexed(known) = Documents \ (patterns \cup known) /\ known \subseteq stored
    BY <2>1 DEF Unindexed
  <2>5. Owed(s)' = Documents \ (Thin \cup matched \cup failing)
    BY <1>0, <2>3
  <2>6. Owed(s)' \subseteq stored' \cup ingested'[s]
    BY <2>2, <2>3, <2>4, <2>5 DEF OnlyMatchedFlagged
  <2> QED
    BY <2>2, <2>6
<1>2. CASE EmbedAndInsertBatch(s)
  <2>1. CASE Exit(s)
    BY <2>1 DEF Exit
  <2>2. CASE ~Exit(s)
    <3>1. PICK batch \in SUBSET ingested[s] :
            /\ ingested' = [ingested EXCEPT ![s] = @ \ batch]
            /\ stored' = stored \cup (batch \ Thin)
            /\ UNCHANGED <<doing, index, missed>>
      BY <1>2, <2>2 DEF EmbedAndInsertBatch
    <3>2. doing'[s] = "ingest" /\ ingested'[s] = ingested[s] \ batch /\ missed'[s] = missed[s]
      BY <1>2, <3>1 DEF EmbedAndInsertBatch
    <3> QED
      BY <1>0, <1>2, <3>1, <3>2 DEF EmbedAndInsertBatch
  <2> QED
    BY <2>1, <2>2
<1>3. CASE EndIngest(s)
  BY <1>0, <1>3 DEF EndIngest
<1>4. CASE ClearFlags(s)
  BY <1>0, <1>4 DEF ClearFlags
<1>5. CASE MarkIgnored(s)
  BY <1>0, <1>5 DEF MarkIgnored
<1>6. CASE EndSweep(s)
  BY <1>0, <1>6 DEF EndSweep
<1>7. CASE SweepFails(s)
  BY <1>0, <1>7 DEF SweepFails
<1>8. CASE LoadIndex(s)
  <2>1. /\ doing[s] = "load" /\ doing'[s] = "ready" /\ index'[s] = stored \ flagged
        /\ UNCHANGED <<stored, flagged, missed>>
    BY <1>8 DEF LoadIndex, Findable
  <2>2. Owed(s)' = Owed(s) /\ Owed(s) \cap flagged = {}
    BY <1>0, <2>1 DEF OnlyMatchedFlagged
  <2>3. Owed(s) \subseteq stored
    BY <2>1
  <2> QED
    BY <2>1, <2>2, <2>3
<1>9. CASE Quit(s)
  BY <1>9 DEF Quit, Exit
<1> QED
  BY <1>1, <1>2, <1>3, <1>4, <1>5, <1>6, <1>7, <1>8, <1>9 DEF Session

LEMMA CliStep ==
    ASSUME CliInv, [CliNext]_cliVars
    PROVE  CliInv'
<1> USE DEF CliInv
<1>1. CASE EditPatterns
  <2>1. /\ patterns' \subseteq Documents /\ matched' = matched \cup patterns'
        /\ UNCHANGED <<stored, flagged, doing, ingested, sweep, index, missed>>
    BY <1>1 DEF EditPatterns, sessionVars
  <2>2. CliTypeOK'
    BY <2>1 DEF CliTypeOK
  <2>3. OnlyMatchedFlagged'
    BY <2>1 DEF OnlyMatchedFlagged
  <2>4. \A s \in Sessions : OwedIsKept(s)'
    BY <2>1 DEF OwedIsKept, Owed
  <2> QED
    BY <2>2, <2>3, <2>4
<1>2. ASSUME NEW s \in Sessions, Session(s)
      PROVE  CliInv'
  <2>1. CliTypeOK' /\ OnlyMatchedFlagged' /\ OwedIsKept(s)'
    BY <1>2, CliStep_TypeOK, CliStep_Flagged, CliStep_Owed
  <2>2. ASSUME NEW t \in Sessions \ {s} PROVE OwedIsKept(t)'
    BY <1>2, OthersSteps DEF OwedIsKept, Owed
  <2> QED
    BY <2>1, <2>2
<1>3. CASE UNCHANGED cliVars
  BY <1>3 DEF cliVars, sessionVars, CliTypeOK, OnlyMatchedFlagged, OwedIsKept, Owed
<1> QED
  BY <1>1, <1>2, <1>3 DEF CliNext

-----------------------------------------------------------------------------
(* Types, flags on nothing but what .cawignore matched at some time, and   *)
(* no file lost on its way into an index (main.rs, sqlite_store.rs).       *)
THEOREM CliInvariant == CliSpec => []CliInv
<1>1. CliInit => CliInv
  BY CliAssumption DEF CliInit, CliInv, CliTypeOK, OnlyMatchedFlagged, OwedIsKept
<1>2. CliInv /\ [CliNext]_cliVars => CliInv'
  BY CliStep
<1> QED
  BY <1>1, <1>2, PTL DEF CliSpec

(* A session finds every file it owes its user: what interrupted sessions  *)
(* left is resumed by file, and neither the insertions nor the sweeps of   *)
(* other sessions take a file away that .cawignore never matched (main.rs  *)
(* 432-500, sqlite_store.rs 541-597 and 703-729).                          *)
THEOREM SessionsFindEveryFile == CliSpec => []EveryFileIsFound
<1>1. CliInv => EveryFileIsFound
  <2> SUFFICES ASSUME CliInv, NEW s \in Sessions, doing[s] = "ready"
               PROVE  Owed(s) \subseteq Found(s)
    BY DEF EveryFileIsFound, Owed
  <2>1. Owed(s) \subseteq stored /\ Owed(s) \subseteq index[s]
    BY DEF CliInv, OwedIsKept
  <2>2. Owed(s) \cap flagged = {}
    BY DEF CliInv, OnlyMatchedFlagged, Owed
  <2> QED
    BY <2>1, <2>2 DEF Found, Findable
<1> QED
  BY <1>1, CliInvariant, PTL

-----------------------------------------------------------------------------
(* A caller that has no child yet, or has killed it, has none that runs.   *)
ChildIsOver ==
    /\ pc \in {"start", "join killed"} => ~Alive
    /\ NoChildOutlivesCall

LEMMA CallStep ==
    ASSUME ChildIsOver, [CallNext]_callVars
    PROVE  ChildIsOver'
<1> USE DEF ChildIsOver, NoChildOutlivesCall, Alive, Return
<1>1. CASE Spawn
  BY <1>1 DEF Spawn
<1>2. CASE WritePrompt
  BY <1>2 DEF WritePrompt
<1>3. CASE StartReader
  BY <1>3 DEF StartReader
<1>4. CASE ReceiveLine
  <2>1. CASE Head(lines) \in {"tick", "noise"}
    BY <1>4, <2>1 DEF ReceiveLine
  <2>2. CASE Head(lines) = "bad result"
    BY <1>4, <2>2 DEF ReceiveLine
  <2>3. CASE Head(lines) \notin {"tick", "noise", "bad result"}
    BY <1>4, <2>3 DEF ReceiveLine
  <2> QED
    BY <2>1, <2>2, <2>3
<1>5. CASE Watchdog
  BY <1>5 DEF Watchdog
<1>6. CASE JoinAfterKill
  BY <1>6 DEF JoinAfterKill
<1>7. CASE StreamEnded
  BY <1>7 DEF StreamEnded
<1>8. CASE JoinAndWait
  BY <1>8 DEF JoinAndWait
<1>9. CASE ReadLine
  BY <1>9 DEF ReadLine
<1>10. CASE Child
  BY <1>10 DEF Child, ChildReads, ChildPrints, ChildStops
<1>11. CASE UNCHANGED callVars
  BY <1>11 DEF callVars
<1> QED
  BY <1>1, <1>2, <1>3, <1>4, <1>5, <1>6, <1>7, <1>8, <1>9, <1>10, <1>11
     DEF CallNext, Caller

(* Whatever the child does and however large the pipes and the prompt are, *)
(* no claude process outlives its call unless the prompt could not be      *)
(* written, and a call that came to a result or to the end of the stream   *)
(* has reaped its child (claude_code.rs, complete).                        *)
THEOREM ChildrenEndWithTheirCall == CallSpec => []NoChildOutlivesCall
<1>1. CallInit => ChildIsOver
  BY DEF CallInit, ChildIsOver, NoChildOutlivesCall, Alive
<1>2. ChildIsOver /\ [CallNext]_callVars => ChildIsOver'
  BY CallStep
<1>3. ChildIsOver => NoChildOutlivesCall
  BY DEF ChildIsOver
<1> QED
  BY <1>1, <1>2, <1>3, PTL DEF CallSpec

-----------------------------------------------------------------------------
(* The trace, when adapters share one sink: the item between its two       *)
(* writes holds the mutex, and the file ends in a text while it does.      *)
Stages == Busy \cup {"waiting", "done"}
Pieces == {Newline} \cup [text : Kinds, item : Items, phase : {"answer", "judge"}, seq : Nat]

TraceTypeOK ==
    /\ phase \in {"answer", "judge"}
    /\ at \in [Items -> Stages]
    /\ number \in [Items -> Nat]
    /\ seq \in [Sinks -> Nat]
    /\ lock \in [Sinks -> SUBSET Items]
    /\ file \in Seq(Pieces)

MidLine(i) == at[i] \in {"writing_request", "writing_response"}

HolderIsMidLine ==
    /\ \A i \in Items : MidLine(i) => lock["shared"] = {i}
    /\ \A i \in lock["shared"] : MidLine(i)

EndsMidLine ==
    IF lock["shared"] = {} THEN file = << >> \/ file[Len(file)] = Newline
    ELSE file # << >> /\ file[Len(file)] # Newline

TraceInv == TraceTypeOK /\ HolderIsMidLine /\ EndsMidLine /\ LinesAreWhole

LEMMA KindNames ==
    ASSUME NEW kind \in Kinds
    PROVE  /\ Logging[kind] \in {"log_request", "log_response"}
           /\ Numbered[kind] \in {"numbered_request", "numbered_response"}
           /\ Writing[kind] \in {"writing_request", "writing_response"}
BY DEF Kinds, Logging, Numbered, Writing

(* A piece added to the file keeps the lines whole if it differs in kind   *)
(* from the last.                                                          *)
LEMMA PieceAdded ==
    ASSUME file \in Seq(Pieces), LinesAreWhole, NEW piece \in Pieces,
           file # << >> => (file[Len(file)] = Newline) # (piece = Newline),
           file' = Append(file, piece)
    PROVE  /\ file' \in Seq(Pieces) /\ file' # << >>
           /\ file'[Len(file')] = piece
           /\ LinesAreWhole'
<1>1. /\ file' \in Seq(Pieces) /\ Len(file') = Len(file) + 1 /\ Len(file) \in Nat
      /\ \A k \in 1 .. Len(file) : file'[k] = file[k]
      /\ file'[Len(file) + 1] = piece
  BY AppendProperties, LenProperties
<1>2. DOMAIN file = 1 .. Len(file) /\ DOMAIN file' = 1 .. (Len(file) + 1)
  BY <1>1, LenProperties
<1>3. ASSUME NEW k \in DOMAIN file', k < Len(file')
      PROVE  (file'[k] = Newline) # (file'[k + 1] = Newline)
  <2>1. CASE k = Len(file)
    <3>1. file # << >>
      BY <1>1, <1>2, <1>3, <2>1, EmptySeq
    <3> QED
      BY <1>1, <1>2, <1>3, <2>1, <3>1
  <2>2. CASE k < Len(file)
    <3>1. k \in DOMAIN file /\ k + 1 \in 1 .. Len(file) /\ k \in 1 .. Len(file)
      BY <1>1, <1>2, <1>3, <2>2
    <3> QED
      BY <1>1, <2>2, <3>1 DEF LinesAreWhole
  <2> QED
    BY <1>1, <1>2, <1>3, <2>1, <2>2
<1> QED
  BY <1>1, <1>3, EmptySeq DEF LinesAreWhole

LEMMA TraceStep ==
    ASSUME ~SinkPerAdapter, TraceInv, [TraceNext]_traceVars
    PROVE  TraceInv'
<1>1. TraceTypeOK /\ HolderIsMidLine /\ EndsMidLine /\ LinesAreWhole
  BY DEF TraceInv
<1>2. "shared" \in Sinks /\ \A i \in Items : SinkOf(i) = "shared"
  BY DEF Sinks, SinkOf
<1>3. ASSUME TraceTypeOK', UNCHANGED <<lock, file>>,
             \A i \in Items : at'[i] # at[i] => ~MidLine(i) /\ ~MidLine(i)'
      PROVE  TraceInv'
  <2>1. \A i \in Items : MidLine(i)' <=> MidLine(i)
    BY <1>3 DEF MidLine
  <2>2. lock["shared"] \subseteq Items
    BY <1>1, <1>2 DEF TraceTypeOK
  <2> QED
    BY <1>1, <1>3, <2>1, <2>2
    DEF TraceInv, HolderIsMidLine, EndsMidLine, LinesAreWhole
<1>4. CASE StartJudging
  <2>1. TraceTypeOK'
    BY <1>1, <1>4 DEF StartJudging, TraceTypeOK, Stages, Pieces
  <2>2. \A i \in Items : ~MidLine(i) /\ ~MidLine(i)'
    BY <1>1, <1>4 DEF StartJudging, MidLine
  <2> QED
    BY <1>3, <1>4, <2>1, <2>2 DEF StartJudging
<1>5. ASSUME NEW i \in Items, BuildAdapter(i) \/ Answer(i)
      PROVE  TraceInv'
  <2>1. TraceTypeOK'
    <3>1. at' \in [Items -> Stages]
      BY <1>1, <1>5 DEF BuildAdapter, Answer, TraceTypeOK, Stages, Busy
    <3>2. seq' \in [Sinks -> Nat]
      BY <1>1, <1>5 DEF BuildAdapter, Answer, TraceTypeOK
    <3> QED
      BY <1>1, <1>5, <3>1, <3>2 DEF BuildAdapter, Answer, TraceTypeOK, Pieces
  <2>2. /\ at[i] \in {"waiting", "asking"} /\ at'[i] \in {"log_request", "log_response", "done"}
        /\ \A j \in Items \ {i} : at'[j] = at[j]
    BY <1>1, <1>5 DEF BuildAdapter, Answer, TraceTypeOK
  <2> QED
    BY <1>3, <1>5, <2>1, <2>2 DEF BuildAdapter, Answer, MidLine
<1>6. ASSUME NEW i \in Items, NEW kind \in Kinds, TakeNumber(i, kind)
      PROVE  TraceInv'
  <2>1. /\ at' = [at EXCEPT ![i] = Numbered[kind]] /\ at[i] = Logging[kind]
        /\ number' = [number EXCEPT ![i] = seq["shared"]]
        /\ seq' = [seq EXCEPT !["shared"] = @ + 1]
        /\ UNCHANGED <<phase, lock, file>>
    BY <1>2, <1>6 DEF TakeNumber
  <2>2. TraceTypeOK'
    <3>1. at' \in [Items -> Stages]
      BY <1>1, <2>1, KindNames DEF TraceTypeOK, Stages, Busy
    <3>2. number' \in [Items -> Nat] /\ seq' \in [Sinks -> Nat]
      BY <1>1, <1>2, <2>1 DEF TraceTypeOK
    <3> QED
      BY <1>1, <2>1, <3>1, <3>2 DEF TraceTypeOK, Pieces
  <2>3. \A j \in Items : at'[j] # at[j] => ~MidLine(j) /\ ~MidLine(j)'
    BY <1>1, <2>1, KindNames DEF MidLine, TraceTypeOK
  <2> QED
    BY <1>3, <2>1, <2>2, <2>3
<1>7. ASSUME NEW i \in Items, NEW kind \in Kinds, WriteText(i, kind)
      PROVE  TraceInv'
  <2> DEFINE piece == Text(i, kind)
  <2>1. /\ lock["shared"] = {} /\ lock' = [lock EXCEPT !["shared"] = {i}]
        /\ at' = [at EXCEPT ![i] = Writing[kind]] /\ file' = Append(file, piece)
        /\ UNCHANGED <<phase, number, seq>>
    BY <1>2, <1>7 DEF WriteText
  <2>2. piece \in Pieces /\ piece # Newline
    <3>1. piece \in [text : Kinds, item : Items, phase : {"answer", "judge"}, seq : Nat]
      BY <1>1 DEF Text, TraceTypeOK
    <3>2. piece.text \in Kinds /\ Newline.text = "newline"
      BY <3>1 DEF Newline
    <3> QED
      BY <3>1, <3>2 DEF Pieces, Kinds
  <2>3. file # << >> => file[Len(file)] = Newline
    BY <1>1, <2>1 DEF EndsMidLine
  <2> HIDE DEF piece
  <2>4. /\ file' \in Seq(Pieces) /\ file' # << >> /\ file'[Len(file')] # Newline
        /\ LinesAreWhole'
    <3>1. file \in Seq(Pieces)
      BY <1>1 DEF TraceTypeOK
    <3> QED
      BY <1>1, <2>1, <2>2, <2>3, <3>1, PieceAdded
  <2>5. lock'["shared"] = {i}
    BY <1>1, <1>2, <2>1 DEF TraceTypeOK
  <2>6. TraceTypeOK'
    <3>1. at' \in [Items -> Stages]
      BY <1>1, <2>1, KindNames DEF TraceTypeOK, Stages, Busy
    <3>2. lock' \in [Sinks -> SUBSET Items]
      BY <1>1, <1>2, <2>1 DEF TraceTypeOK
    <3> QED
      BY <1>1, <2>1, <2>4, <3>1, <3>2 DEF TraceTypeOK, Pieces
  <2>7. MidLine(i)' /\ \A j \in Items \ {i} : ~MidLine(j)'
    <3>1. \A j \in Items : ~MidLine(j)
      BY <1>1, <2>1 DEF HolderIsMidLine
    <3> QED
      BY <1>1, <2>1, <3>1, KindNames DEF MidLine, TraceTypeOK
  <2>8. HolderIsMidLine' /\ EndsMidLine'
    BY <2>4, <2>5, <2>7 DEF HolderIsMidLine, EndsMidLine
  <2> QED
    BY <2>4, <2>6, <2>8 DEF TraceInv
<1>8. ASSUME NEW i \in Items, NEW kind \in Kinds, EndLine(i, kind)
      PROVE  TraceInv'
  <2>1. /\ at[i] = Writing[kind] /\ file' = Append(file, Newline)
        /\ lock' = [lock EXCEPT !["shared"] = @ \ {i}]
        /\ at' = [at EXCEPT ![i] = IF kind = "request" THEN "asking" ELSE "done"]
        /\ UNCHANGED <<phase, number, seq>>
    BY <1>2, <1>8 DEF EndLine
  <2>2. MidLine(i) /\ lock["shared"] = {i}
    BY <1>1, <2>1, KindNames DEF MidLine, HolderIsMidLine
  <2>3. file # << >> /\ file[Len(file)] # Newline
    BY <1>1, <2>2 DEF EndsMidLine
  <2>4. /\ file' \in Seq(Pieces) /\ file' # << >> /\ file'[Len(file')] = Newline
        /\ LinesAreWhole'
    <3>1. file \in Seq(Pieces) /\ Newline \in Pieces
      BY <1>1 DEF TraceTypeOK, Pieces
    <3> QED
      BY <1>1, <2>1, <2>3, <3>1, PieceAdded
  <2>5. lock'["shared"] = {}
    BY <1>1, <1>2, <2>1, <2>2 DEF TraceTypeOK
  <2>6. TraceTypeOK'
    <3>1. at' \in [Items -> Stages]
      BY <1>1, <2>1 DEF TraceTypeOK, Stages, Busy
    <3>2. lock' \in [Sinks -> SUBSET Items]
      BY <1>1, <1>2, <2>1 DEF TraceTypeOK
    <3> QED
      BY <1>1, <2>1, <2>4, <3>1, <3>2 DEF TraceTypeOK, Pieces
  <2>7. \A j \in Items : ~MidLine(j)'
    <3>1. \A j \in Items \ {i} : ~MidLine(j)
      BY <1>1, <2>2 DEF HolderIsMidLine
    <3> QED
      BY <1>1, <2>1, <3>1 DEF MidLine, TraceTypeOK
  <2>8. HolderIsMidLine' /\ EndsMidLine'
    BY <2>4, <2>5, <2>7 DEF HolderIsMidLine, EndsMidLine
  <2> QED
    BY <2>4, <2>6, <2>8 DEF TraceInv
<1>9. CASE UNCHANGED traceVars
  BY <1>1, <1>9
  DEF traceVars, TraceInv, TraceTypeOK, Pieces, HolderIsMidLine, MidLine, EndsMidLine, LinesAreWhole
<1> QED
  BY <1>4, <1>5, <1>6, <1>7, <1>8, <1>9 DEF TraceNext

(* One sink for all the adapters, however many threads answer and judge:   *)
(* no text of the trace is interrupted (tracing.rs, TraceSink::log).  With *)
(* a sink per adapter it is not so: see the run of TraceSink.cfg.          *)
THEOREM SharedSinkWritesLines ==
    ASSUME ~SinkPerAdapter
    PROVE  TraceSpec => []LinesAreWhole
<1>1. TraceInit => TraceInv
  <2> SUFFICES ASSUME TraceInit PROVE TraceInv
    OBVIOUS
  <2>1. TraceTypeOK
    BY EmptySeq DEF TraceInit, TraceTypeOK, Stages
  <2>2. "shared" \in Sinks
    BY DEF Sinks
  <2>3. HolderIsMidLine /\ EndsMidLine
    BY <2>2 DEF TraceInit, HolderIsMidLine, MidLine, EndsMidLine
  <2>4. LinesAreWhole
    BY DEF TraceInit, LinesAreWhole
  <2> QED
    BY <2>1, <2>3, <2>4 DEF TraceInv
<1>2. TraceInv /\ [TraceNext]_traceVars => TraceInv'
  BY TraceStep
<1>3. TraceInv => LinesAreWhole
  BY DEF TraceInv
<1> QED
  BY <1>1, <1>2, <1>3, PTL DEF TraceSpec

-----------------------------------------------------------------------------
(* The rows of one request to the proxy, as the limits of an injection see *)
(* them.                                                                   *)
Verdicts == {"admitted", "clamped", "duplicate_source", "budget_full", "content_miss"}
ScoredRows == [id : Stubs, path : {SourceOf[s] : s \in Stubs} \cup {""}, disposition : Verdicts]

Given(q, verdict) == {i \in DOMAIN q : q[i].disposition = verdict}
CellsOf(q) == UNION {{i} \X (1 .. TokensOf[q[i].id]) : i \in Given(q, "admitted")}
OfPath(q, path) == {i \in Given(q, "admitted") : q[i].path = path}

InBudget(q) == \/ Cardinality(CellsOf(q)) <= MaxWorkspaceTokens
               \/ Cardinality(Given(q, "admitted")) = 1
InCap(q) == \A i \in Given(q, "admitted") : Cardinality(OfPath(q, q[i].path)) <= MaxChunksPerSource
Prefix(q) == \A i \in Given(q, "clamped"), j \in Given(q, "admitted") : j < i
WithinLimits(q) == InBudget(q) /\ InCap(q) /\ Prefix(q)

ProxyInv ==
    /\ hits \in [Requests -> Seq(Stubs)]
    /\ scored \in [Requests -> Seq(ScoredRows)]
    /\ \A r \in Requests : WithinLimits(scored[r])

-----------------------------------------------------------------------------
(* No rows, no injection.                                                  *)
LEMMA NoRows == << >> \in Seq(ScoredRows) /\ WithinLimits(<< >>)
<1>1. << >> \in Seq(ScoredRows) /\ DOMAIN << >> = {}
  BY EmptySeq
<1>2. Given(<< >>, "admitted") = {} /\ Given(<< >>, "clamped") = {}
  BY <1>1 DEF Given
<1>3. CellsOf(<< >>) = {}
  BY <1>2 DEF CellsOf
<1>4. InBudget(<< >>)
  <2>1. MaxWorkspaceTokens \in Nat
    BY ProxyAssumption
  <2>2. Cardinality(CellsOf(<< >>)) = 0
    BY <1>3, FS_EmptySet
  <2> QED
    BY <2>1, <2>2 DEF InBudget
<1> QED
  BY <1>1, <1>2, <1>4 DEF WithinLimits, InCap, Prefix

(* What is admitted is finite, and so are its tokens.                      *)
LEMMA AdmittedFinite ==
    ASSUME NEW q \in Seq(ScoredRows)
    PROVE  /\ IsFiniteSet(Given(q, "admitted")) /\ IsFiniteSet(CellsOf(q))
           /\ Cardinality(CellsOf(q)) \in Nat
           /\ Cardinality(Given(q, "admitted")) \in Nat
           /\ \A path : IsFiniteSet(OfPath(q, path)) /\ Cardinality(OfPath(q, path)) \in Nat
<1>1. IsFiniteSet(1 .. Len(q)) /\ DOMAIN q = 1 .. Len(q)
  BY CountTo, LenProperties
<1>2. IsFiniteSet(Given(q, "admitted"))
  BY <1>1, FS_Subset DEF Given
<1>3. \A path : IsFiniteSet(OfPath(q, path))
  BY <1>2, FS_Subset DEF OfPath
<1>4. IsFiniteSet(CellsOf(q))
  <2> DEFINE Cells(i) == {i} \X (1 .. TokensOf[q[i].id])
             All == {Cells(i) : i \in Given(q, "admitted")}
  <2>1. ASSUME NEW i \in Given(q, "admitted") PROVE IsFiniteSet(Cells(i))
    <3>1. q[i] \in ScoredRows
      BY <1>1, ElementOfSeq DEF Given
    <3>2. TokensOf[q[i].id] \in Nat
      BY <3>1, ProxyAssumption DEF ScoredRows
    <3>3. IsFiniteSet(1 .. TokensOf[q[i].id]) /\ IsFiniteSet({i})
      BY <3>2, CountTo, FS_Singleton
    <3> QED
      BY <3>3, FS_Product
  <2>2. IsFiniteSet(All)
    <3> DEFINE f == [i \in Given(q, "admitted") |-> Cells(i)]
    <3>1. f \in Surjection(Given(q, "admitted"), All)
      BY DEF Surjection
    <3> QED
      BY <1>2, <3>1, FS_Surjection
  <2> QED
    BY <2>1, <2>2, FS_UNION DEF CellsOf
<1> QED
  BY <1>2, <1>3, <1>4, FS_CardinalityType

(* One more row, which is not admitted, leaves the injection as it is.     *)
LEMMA OtherRow ==
    ASSUME NEW q \in Seq(ScoredRows), WithinLimits(q),
           NEW row \in ScoredRows, row.disposition # "admitted"
    PROVE  WithinLimits(Append(q, row))
<1> DEFINE p == Append(q, row)
<1>1. /\ p \in Seq(ScoredRows) /\ DOMAIN p = 1 .. Len(q) + 1
      /\ p[Len(q) + 1] = row /\ \A i \in 1 .. Len(q) : p[i] = q[i]
  BY AppendProperties, LenProperties
<1>2. DOMAIN q = 1 .. Len(q) /\ Len(q) \in Nat
  BY LenProperties
<1> HIDE DEF p
<1>3. Given(p, "admitted") = Given(q, "admitted")
  BY <1>1, <1>2 DEF Given
<1>4. \A i \in Given(q, "admitted") : p[i] = q[i] /\ i \in 1 .. Len(q)
  BY <1>1, <1>2 DEF Given
<1>5. CellsOf(p) = CellsOf(q)
  BY <1>3, <1>4 DEF CellsOf
<1>6. \A path : OfPath(p, path) = OfPath(q, path)
  BY <1>3, <1>4 DEF OfPath
<1>7. \A i \in Given(p, "clamped") : i \in Given(q, "clamped") \/ i = Len(q) + 1
  BY <1>1, <1>2 DEF Given
<1>8. Prefix(p)
  <2> SUFFICES ASSUME NEW i \in Given(p, "clamped"), NEW j \in Given(p, "admitted")
               PROVE  j < i
    BY DEF Prefix
  <2>1. j \in Given(q, "admitted") /\ j \in 1 .. Len(q)
    BY <1>3, <1>4
  <2> QED
    BY <1>2, <1>7, <2>1 DEF WithinLimits, Prefix
<1>9. InBudget(p) /\ InCap(p)
  BY <1>3, <1>4, <1>5, <1>6 DEF WithinLimits, InBudget, InCap
<1> QED
  BY <1>8, <1>9 DEF WithinLimits, p

(* One more admitted row adds its tokens and a chunk of its path.          *)
LEMMA AdmittedRow ==
    ASSUME NEW q \in Seq(ScoredRows), WithinLimits(q),
           NEW row \in ScoredRows, row.disposition = "admitted",
           Given(q, "clamped") = {},
           ~(Cardinality(OfPath(q, row.path)) >= MaxChunksPerSource),
           \/ ~(Cardinality(CellsOf(q)) + TokensOf[row.id] > MaxWorkspaceTokens)
           \/ Given(q, "admitted") = {}
    PROVE  WithinLimits(Append(q, row))
<1> DEFINE p == Append(q, row)
           n == Len(q) + 1
           t == TokensOf[row.id]
           new == {n} \X (1 .. t)
<1>1. /\ p \in Seq(ScoredRows) /\ DOMAIN p = 1 .. n
      /\ p[n] = row /\ \A i \in 1 .. Len(q) : p[i] = q[i]
  BY AppendProperties, LenProperties
<1>2. DOMAIN q = 1 .. Len(q) /\ Len(q) \in Nat /\ n \in Nat /\ n \notin 1 .. Len(q)
      /\ 1 .. n = (1 .. Len(q)) \cup {n}
  BY LenProperties
<1>3. t \in Nat /\ MaxWorkspaceTokens \in Nat /\ MaxChunksPerSource \in Nat
  BY ProxyAssumption DEF ScoredRows
<1>4. IsFiniteSet(new) /\ Cardinality(new) = t
  <2>1. IsFiniteSet({n}) /\ Cardinality({n}) = 1
    BY FS_Singleton
  <2>2. IsFiniteSet(1 .. t) /\ Cardinality(1 .. t) = t
    BY <1>3, CountTo
  <2>3. /\ IsFiniteSet(new)
        /\ Cardinality(new) = Cardinality({n}) * Cardinality(1 .. t)
    BY <2>1, <2>2, FS_Product
  <2> QED
    BY <1>3, <2>1, <2>2, <2>3
<1> HIDE DEF p, n
<1>5. Given(p, "admitted") = Given(q, "admitted") \cup {n} /\ n \notin Given(q, "admitted")
  BY <1>1, <1>2 DEF Given
<1>6. \A i \in Given(q, "admitted") : p[i] = q[i]
  BY <1>1, <1>2 DEF Given
<1>7. CellsOf(p) = CellsOf(q) \cup new
  BY <1>1, <1>5, <1>6 DEF CellsOf
<1> HIDE DEF new, t
<1>8. Given(p, "clamped") = {}
  BY <1>1, <1>2 DEF Given
<1>9. InBudget(p)
  <2>1. CASE Given(q, "admitted") = {}
    <3>1. Given(p, "admitted") = {n}
      BY <1>5, <2>1
    <3> QED
      BY <3>1, FS_Singleton DEF InBudget
  <2>2. CASE ~(Cardinality(CellsOf(q)) + TokensOf[row.id] > MaxWorkspaceTokens)
    <3>1. Cardinality(CellsOf(p)) =
            Cardinality(CellsOf(q)) + Cardinality(new) - Cardinality(CellsOf(q) \cap new)
      BY <1>4, <1>7, AdmittedFinite, FS_Union
    <3>2. Cardinality(CellsOf(q) \cap new) \in Nat
      BY <1>4, FS_Intersection, FS_CardinalityType
    <3>3. Cardinality(CellsOf(q)) \in Nat /\ Cardinality(CellsOf(q)) + t <= MaxWorkspaceTokens
      BY <1>3, <2>2, AdmittedFinite DEF t
    <3>4. Cardinality(CellsOf(p)) <= MaxWorkspaceTokens
      BY <1>3, <1>4, <3>1, <3>2, <3>3
    <3> QED
      BY <3>4 DEF InBudget
  <2> QED
    BY <2>1, <2>2
<1>10. InCap(p)
  <2> SUFFICES ASSUME NEW i \in Given(p, "admitted")
               PROVE  Cardinality(OfPath(p, p[i].path)) <= MaxChunksPerSource
    BY DEF InCap
  <2>1. CASE p[i].path = row.path
    <3>1. OfPath(p, row.path) = OfPath(q, row.path) \cup {n}
      BY <1>1, <1>5, <1>6 DEF OfPath
    <3>2. IsFiniteSet(OfPath(q, row.path)) /\ Cardinality(OfPath(q, row.path)) \in Nat
      BY AdmittedFinite
    <3>3. Cardinality(OfPath(p, row.path)) <= Cardinality(OfPath(q, row.path)) + 1
      <4>1. Cardinality(OfPath(q, row.path) \cup {n})
              = IF n \in OfPath(q, row.path) THEN Cardinality(OfPath(q, row.path))
                ELSE Cardinality(OfPath(q, row.path)) + 1
        BY <3>2, FS_AddElement
      <4> QED
        BY <3>1, <3>2, <4>1
    <3> QED
      BY <1>3, <2>1, <3>1, <3>2, <3>3, FS_AddElement, FS_CardinalityType
  <2>2. CASE p[i].path # row.path
    <3>1. i \in Given(q, "admitted") /\ p[i] = q[i]
      BY <1>1, <1>5, <1>6, <2>2
    <3>2. OfPath(p, p[i].path) = OfPath(q, q[i].path)
      BY <1>1, <1>5, <1>6, <2>2, <3>1 DEF OfPath
    <3> QED
      BY <3>1, <3>2 DEF WithinLimits, InCap
  <2> QED
    BY <2>1, <2>2
<1> QED
  BY <1>8, <1>9, <1>10 DEF WithinLimits, Prefix, p

-----------------------------------------------------------------------------
(* The rows a step can leave with a request.                               *)
LEMMA RowsKept ==
    ASSUME ProxyInv, NEW r \in Requests, NEW q \in Seq(ScoredRows), WithinLimits(q),
           hits' \in [Requests -> Seq(Stubs)], scored' = [scored EXCEPT ![r] = q]
    PROVE  ProxyInv'
<1>1. \A s \in Requests : scored'[s] = IF s = r THEN q ELSE scored[s]
  BY DEF ProxyInv
<1>2. scored' \in [Requests -> Seq(ScoredRows)]
  BY DEF ProxyInv
<1>3. \A s \in Requests : WithinLimits(scored'[s])
  BY <1>1 DEF ProxyInv
<1> QED
  BY <1>2, <1>3 DEF ProxyInv

(* A candidate gets the verdict the rows before it leave for it.           *)
LEMMA ConsiderStep ==
    ASSUME ProxyInv, NEW r \in Requests, Consider(r)
    PROVE  ProxyInv'
<1> DEFINE q == scored[r]
           id == Head(hits[r])
<1>1. q \in Seq(ScoredRows) /\ WithinLimits(q) /\ hits[r] \in Seq(Stubs) /\ hits[r] # << >>
  BY DEF ProxyInv, Consider
<1>2. id \in Stubs /\ Tail(hits[r]) \in Seq(Stubs)
  BY <1>1, HeadTailProperties
<1>3. hits' \in [Requests -> Seq(Stubs)]
  BY <1>2 DEF Consider, ProxyInv
<1>4. PICK row \in {Row(id, SourceOf[id], d) : d \in Disposition(r, id)} \cup {Row(id, "", "content_miss")} :
        scored' = [scored EXCEPT ![r] = Append(@, row)]
  BY DEF Consider
<1>5. scored' = [scored EXCEPT ![r] = Append(q, row)]
  BY <1>4
<1>6. \A d \in Disposition(r, id) : d \in Verdicts
  BY DEF Disposition, Verdicts
<1>7. /\ row \in ScoredRows
      /\ row.disposition = "admitted" =>
            row = Row(id, SourceOf[id], "admitted") /\ "admitted" \in Disposition(r, id)
  <2>1. CASE row = Row(id, "", "content_miss")
    BY <1>2, <2>1 DEF Row, ScoredRows, Verdicts
  <2>2. ASSUME NEW d \in Disposition(r, id), row = Row(id, SourceOf[id], d)
        PROVE  /\ row \in ScoredRows /\ row.disposition = d
    BY <1>2, <1>6, <2>2 DEF Row, ScoredRows
  <2> QED
    BY <1>4, <2>1, <2>2
<1>8. WithinLimits(Append(q, row))
  <2>1. CASE row.disposition # "admitted"
    BY <1>1, <1>7, <2>1, OtherRow
  <2>2. CASE row.disposition = "admitted"
    <3>1. row = Row(id, SourceOf[id], "admitted") /\ "admitted" \in Disposition(r, id)
      BY <1>7, <2>2
    <3>2. row.id = id /\ row.path = SourceOf[id]
      BY <3>1 DEF Row
    <3>3. /\ With(r, "clamped") = {}
          /\ ~(FromSource(r, SourceOf[id]) >= MaxChunksPerSource)
          /\ \/ ~(UsedTokens(r) + TokensOf[id] > MaxWorkspaceTokens)
             \/ Admitted(r) = {}
      BY <3>1 DEF Disposition
    <3>4. /\ With(r, "clamped") = Given(q, "clamped")
          /\ Admitted(r) = Given(q, "admitted")
          /\ FromSource(r, SourceOf[id]) = Cardinality(OfPath(q, SourceOf[id]))
          /\ UsedTokens(r) = Cardinality(CellsOf(q))
      BY DEF With, Admitted, FromSource, UsedTokens, InjectedCells, Given, OfPath, CellsOf
    <3> HIDE DEF q, id
    <3> QED
      BY <1>1, <1>7, <2>2, <3>2, <3>3, <3>4, AdmittedRow
  <2> QED
    BY <2>1, <2>2
<1>9. Append(q, row) \in Seq(ScoredRows)
  BY <1>1, <1>7, AppendProperties
<1> HIDE DEF q, id
<1> QED
  BY <1>3, <1>5, <1>8, <1>9, RowsKept

(* No other step of a request adds a row: rows are kept or dropped.        *)
LEMMA ProxyStep ==
    ASSUME ProxyInv, [ProxyNext]_proxyVars
    PROVE  ProxyInv'
<1>1. ASSUME UNCHANGED <<hits, scored>> PROVE ProxyInv'
  BY <1>1 DEF ProxyInv
<1>2. ASSUME NEW r \in Requests, UNCHANGED hits, scored' = [scored EXCEPT ![r] = << >>]
      PROVE  ProxyInv'
  <2>1. hits' \in [Requests -> Seq(Stubs)]
    BY <1>2 DEF ProxyInv
  <2> QED
    BY <1>2, <2>1, NoRows, RowsKept
<1>3. ASSUME NEW r \in Requests, Handle(r) PROVE ProxyInv'
  <2>1. CASE Arrive(r)
    BY <1>1, <2>1 DEF Arrive
  <2>2. CASE EmbedQuery(r)
    BY <1>1, <1>2, <2>2 DEF EmbedQuery, Panics
  <2>3. CASE SearchIndex(r)
    <3>1. CASE UNCHANGED scored
      <4>1. hits' \in [Requests -> Seq(Stubs)]
        BY <2>3, ProxyAssumption DEF SearchIndex, ProxyInv
      <4> QED
        BY <3>1, <4>1 DEF ProxyInv
    <3>2. CASE Panics(r, "index") /\ UNCHANGED hits
      BY <1>2, <3>2 DEF Panics
    <3> QED
      BY <2>3, <3>1, <3>2 DEF SearchIndex
  <2>4. CASE LockStore(r)
    BY <1>1, <2>4 DEF LockStore
  <2>5. CASE Consider(r)
    BY <2>5, ConsiderStep
  <2>6. CASE ScanPanics(r)
    BY <1>2, <2>6 DEF ScanPanics, Panics
  <2>7. CASE EndScan(r)
    BY <1>1, <1>2, <2>7 DEF EndScan
  <2>8. CASE Augment(r)
    BY <1>1, <2>8 DEF Augment
  <2>9. CASE Forward(r)
    BY <1>2, <2>9 DEF Forward
  <2> QED
    BY <1>3, <2>1, <2>2, <2>3, <2>4, <2>5, <2>6, <2>7, <2>8, <2>9 DEF Handle, Proceed
<1>4. CASE UNCHANGED proxyVars
  BY <1>1, <1>4 DEF proxyVars
<1> QED
  BY <1>3, <1>4 DEF ProxyNext

(* Whatever the ranking, the sizes and the panics of other requests: what  *)
(* a request injects keeps to max_workspace_tokens but for a first body    *)
(* larger than that, to the cap per source, and to the greedy prefix       *)
(* (caw-server, retrieve_scored).                                          *)
THEOREM InjectionsAreClamped == ProxySpec => []InjectionIsClamped
<1>1. ProxyInit => ProxyInv
  <2> SUFFICES ASSUME ProxyInit PROVE ProxyInv
    OBVIOUS
  <2>1. << >> \in Seq(Stubs)
    BY EmptySeq
  <2>2. /\ hits = [r \in Requests |-> << >>] /\ scored = [r \in Requests |-> << >>]
    BY DEF ProxyInit
  <2> QED
    BY <2>1, <2>2, NoRows DEF ProxyInv
<1>2. ProxyInv /\ [ProxyNext]_proxyVars => ProxyInv'
  BY ProxyStep
<1>3. ProxyInv => InjectionIsClamped
  <2> SUFFICES ASSUME ProxyInv PROVE InjectionIsClamped
    OBVIOUS
  <2>1. ASSUME NEW r \in Requests
        PROVE  /\ With(r, "clamped") = Given(scored[r], "clamped")
               /\ Admitted(r) = Given(scored[r], "admitted")
               /\ \A path : FromSource(r, path) = Cardinality(OfPath(scored[r], path))
               /\ UsedTokens(r) = Cardinality(CellsOf(scored[r]))
    BY DEF With, Admitted, FromSource, UsedTokens, InjectedCells, Given, OfPath, CellsOf
  <2>2. \A r \in Requests : WithinLimits(scored[r])
    BY DEF ProxyInv
  <2>3. InjectedWithinBudget
    BY <2>1, <2>2 DEF InjectedWithinBudget, WithinLimits, InBudget, InCap
  <2>4. NothingPastTheClamp
    BY <2>1, <2>2 DEF NothingPastTheClamp, WithinLimits, Prefix
  <2> QED
    BY <2>3, <2>4 DEF InjectionIsClamped
<1> QED
  BY <1>1, <1>2, <1>3, PTL DEF ProxySpec

-----------------------------------------------------------------------------
\* Session files

Tokens == [kind : TokenKinds, sample : BOOLEAN]
LogTexts == Seq(Tokens)

(* What a marked token has before it: the user marker of its turn, with no *)
(* section starting in between, an empty line, and the marker of an answer *)
(* that begins with the sentinel.                                          *)
Guards(text, i, u, r) ==
    /\ u \in 1 .. Len(text) /\ r \in u + 3 .. Len(text) /\ r + 1 < i
    /\ text[u].kind = "user" /\ text[r - 2].kind = "break" /\ text[r - 1].kind = "break"
    /\ text[r].kind = "assistant" /\ text[r + 1].kind = "degenerate"
Uncut(text, u, i) == \A s \in SectionStarts(text) : s < u \/ i < s

Guarded(text) ==
    \A i \in 1 .. Len(text) : text[i].sample => \E u, r \in 1 .. Len(text) : Guards(text, i, u, r) /\ Uncut(text, u, i)

LEMMA LogTextIs ==
    ASSUME NEW text \in LogTexts
    PROVE  /\ Len(text) \in Nat /\ DOMAIN text = 1 .. Len(text)
           /\ \A i \in 1 .. Len(text) : /\ text[i] \in Tokens /\ text[i].kind \in TokenKinds
                                        /\ text[i].sample \in BOOLEAN
<1>1. Len(text) \in Nat /\ DOMAIN text = 1 .. Len(text)
  BY LenProperties DEF LogTexts
<1>2. \A i \in 1 .. Len(text) : text[i] \in Tokens
  BY ElementOfSeq DEF LogTexts
<1>3. \A token \in Tokens : token.kind \in TokenKinds /\ token.sample \in BOOLEAN
  BY DEF Tokens
<1>4. QED
  BY <1>1, <1>2, <1>3

LEMMA StartsAre ==
    ASSUME NEW text \in LogTexts, NEW s
    PROVE  s \in SectionStarts(text) <=> /\ s \in 2 .. Len(text)
                                         /\ text[s].kind = "heading" /\ text[s - 1].kind = "break"
BY LogTextIs DEF SectionStarts, Places

LEMMA LogJoined ==
    ASSUME NEW text \in LogTexts, NEW more \in LogTexts
    PROVE  /\ text \o more \in LogTexts /\ Len(text \o more) = Len(text) + Len(more)
           /\ \A i \in 1 .. Len(text) : (text \o more)[i] = text[i]
           /\ \A i \in 1 .. Len(more) : (text \o more)[Len(text) + i] = more[i]
BY ConcatProperties DEF LogTexts

(* The file stays guarded when the next write is appended to whatever is   *)
(* there.                                                                  *)
LEMMA JoinIsGuarded ==
    ASSUME NEW text \in LogTexts, NEW more \in LogTexts, Guarded(text), Guarded(more)
    PROVE  Guarded(text \o more)
<1> DEFINE all == text \o more
           n == Len(text)
<1>1. /\ all \in LogTexts /\ Len(all) = n + Len(more) /\ n \in Nat /\ Len(more) \in Nat
      /\ \A i \in 1 .. n : all[i] = text[i]
      /\ \A i \in 1 .. Len(more) : all[n + i] = more[i]
  BY LogJoined, LogTextIs
<1> HIDE DEF all, n
<1>2. ASSUME NEW i \in 1 .. n, all[i].sample
      PROVE  \E u, r \in 1 .. Len(all) : Guards(all, i, u, r) /\ Uncut(all, u, i)
  <2>1. i \in 1 .. Len(text) /\ text[i].sample
    BY <1>1, <1>2 DEF n
  <2>2. PICK u \in 1 .. Len(text), r \in 1 .. Len(text) : Guards(text, i, u, r) /\ Uncut(text, u, i)
    BY <2>1 DEF Guarded
  <2>3. Guards(all, i, u, r)
    <3>1. u \in 1 .. n /\ r \in 1 .. n /\ r - 2 \in 1 .. n /\ r - 1 \in 1 .. n /\ r + 1 \in 1 .. n /\ u + 3 <= r
      <4>1. u \in 1 .. n /\ r \in 1 .. n /\ r \in u + 3 .. n /\ r + 1 < i
        BY <2>2 DEF Guards, n
      <4>2. QED
        BY <1>1, <1>2, <4>1
    <3>2. /\ text[u].kind = "user" /\ text[r - 2].kind = "break" /\ text[r - 1].kind = "break"
          /\ text[r].kind = "assistant" /\ text[r + 1].kind = "degenerate" /\ r + 1 < i
      BY <2>2 DEF Guards
    <3>3. /\ all[u].kind = "user" /\ all[r - 2].kind = "break" /\ all[r - 1].kind = "break"
          /\ all[r].kind = "assistant" /\ all[r + 1].kind = "degenerate"
      BY <1>1, <3>1, <3>2
    <3>4. u \in 1 .. Len(all) /\ r \in u + 3 .. Len(all)
      BY <1>1, <3>1
    <3>5. QED
      BY <3>2, <3>3, <3>4 DEF Guards
  <2>4. ASSUME NEW s \in SectionStarts(all) PROVE s < u \/ i < s
    <3>1. s \in 2 .. Len(all) /\ all[s].kind = "heading" /\ all[s - 1].kind = "break"
      BY <1>1, StartsAre
    <3>2. CASE s <= n
      <4>1. s \in 1 .. n /\ s - 1 \in 1 .. n
        BY <1>1, <3>1, <3>2
      <4>2. s \in SectionStarts(text)
        BY <1>1, <3>1, <3>2, <4>1, StartsAre DEF n
      <4>3. QED
        BY <2>2, <4>2 DEF Uncut
    <3>3. CASE s > n
      BY <1>1, <3>1, <3>3
    <3>4. QED
      BY <1>1, <3>1, <3>2, <3>3
  <2>5. Uncut(all, u, i)
    BY <2>4 DEF Uncut
  <2>6. u \in 1 .. Len(all) /\ r \in 1 .. Len(all)
    BY <1>1, <2>2 DEF n
  <2>7. QED
    BY <2>3, <2>5, <2>6
<1>3. ASSUME NEW j \in 1 .. Len(more), all[n + j].sample
      PROVE  \E u, r \in 1 .. Len(all) : Guards(all, n + j, u, r) /\ Uncut(all, u, n + j)
  <2>1. more[j].sample
    BY <1>1, <1>3
  <2>2. PICK u \in 1 .. Len(more), r \in 1 .. Len(more) : Guards(more, j, u, r) /\ Uncut(more, u, j)
    BY <2>1 DEF Guarded
  <2>3. /\ r - 2 \in 1 .. Len(more) /\ r - 1 \in 1 .. Len(more) /\ r + 1 \in 1 .. Len(more) /\ u + 3 <= r /\ r + 1 < j
        /\ more[u].kind = "user" /\ more[r - 2].kind = "break" /\ more[r - 1].kind = "break"
        /\ more[r].kind = "assistant" /\ more[r + 1].kind = "degenerate"
    BY <1>1, <1>3, <2>2 DEF Guards
  <2>4. /\ n + u \in 1 .. Len(all) /\ n + r \in n + u + 3 .. Len(all) /\ n + r + 1 < n + j
        /\ (n + r) - 2 = n + (r - 2) /\ (n + r) - 1 = n + (r - 1) /\ (n + r) + 1 = n + (r + 1)
    BY <1>1, <1>3, <2>2, <2>3
  <2>5. /\ all[n + u].kind = "user" /\ all[n + (r - 2)].kind = "break" /\ all[n + (r - 1)].kind = "break"
        /\ all[n + r].kind = "assistant" /\ all[n + (r + 1)].kind = "degenerate"
    BY <1>1, <2>2, <2>3
  <2>6. Guards(all, n + j, n + u, n + r)
    BY <2>4, <2>5 DEF Guards
  <2>7. ASSUME NEW s \in SectionStarts(all) PROVE s < n + u \/ n + j < s
    <3>1. s \in 2 .. Len(all) /\ all[s].kind = "heading" /\ all[s - 1].kind = "break"
      BY <1>1, StartsAre
    <3>2. CASE s <= n
      BY <1>1, <2>2, <3>1, <3>2
    <3>3. CASE s = n + 1
      <4>1. more[1].kind = "heading"
        BY <1>1, <1>3, <3>1, <3>3
      <4>2. u # 1
        BY <2>3, <4>1
      <4>3. QED
        BY <1>1, <2>2, <3>3, <4>2
    <3>4. CASE s > n + 1
      <4>1. PICK t \in 2 .. Len(more) : s = n + t
        <5>1. s - n \in 2 .. Len(more) /\ s = n + (s - n)
          BY <1>1, <3>1, <3>4
        <5>2. QED
          BY <5>1
      <4>2. t \in 1 .. Len(more) /\ t - 1 \in 1 .. Len(more) /\ s - 1 = n + (t - 1)
        BY <1>1, <4>1
      <4>3. more[t].kind = "heading" /\ more[t - 1].kind = "break"
        BY <1>1, <3>1, <4>1, <4>2
      <4>4. t \in SectionStarts(more)
        BY <4>1, <4>3, StartsAre
      <4>5. t < u \/ j < t
        BY <2>2, <4>4 DEF Uncut
      <4>6. QED
        BY <1>1, <1>3, <2>2, <4>1, <4>5
    <3>5. QED
      BY <1>1, <3>1, <3>2, <3>3, <3>4
  <2>8. Uncut(all, n + u, n + j)
    BY <2>7 DEF Uncut
  <2>9. n + u \in 1 .. Len(all) /\ n + r \in 1 .. Len(all)
    BY <1>1, <2>2
  <2>10. QED
    BY <2>6, <2>8, <2>9
<1>4. ASSUME NEW i \in 1 .. Len(all), all[i].sample
      PROVE  \E u, r \in 1 .. Len(all) : Guards(all, i, u, r) /\ Uncut(all, u, i)
  <2>1. CASE i <= n
    BY <1>1, <1>2, <1>4, <2>1
  <2>2. CASE i > n
    <3>1. i - n \in 1 .. Len(more) /\ n + (i - n) = i
      BY <1>1, <1>4, <2>2
    <3>2. PICK j \in 1 .. Len(more) : n + j = i
      BY <3>1
    <3>3. QED
      BY <1>3, <1>4, <3>2
  <2>3. QED
    BY <1>1, <1>4, <2>1, <2>2
<1>5. QED
  BY <1>4 DEF Guarded, all

(* What a write leaves of a text: a beginning, whose last token may be     *)
(* torn.                                                                   *)
Beginning(written, text, k) ==
    /\ Len(written) = k
    /\ \A i \in 1 .. k : written[i].sample = text[i].sample
    /\ \A i \in 1 .. k : written[i] = text[i] \/ (i = k /\ written[i].kind \in {"bracket", "numeral", "word"})

LEMMA TornIs ==
    ASSUME NEW token \in Tokens
    PROVE  /\ Torn(token) \in Tokens /\ Torn(token).sample = token.sample
           /\ Torn(token).kind \in {"bracket", "numeral", "word"}
<1> DEFINE torn == CASE token.kind \in Brackets -> "bracket" [] token.kind = "numeral" -> "numeral" [] OTHER -> "word"
<1>1. torn \in {"bracket", "numeral", "word"}
  OBVIOUS
<1>2. Torn(token) = [token EXCEPT !.kind = torn]
  BY DEF Torn
<1> HIDE DEF torn
<1>3. torn \in TokenKinds
  BY <1>1 DEF TokenKinds, Brackets
<1>4. QED
  BY <1>1, <1>2, <1>3 DEF Tokens

LEMMA PartsAre ==
    ASSUME NEW text \in LogTexts, NEW written \in Remains(text)
    PROVE  written \in LogTexts /\ \E k \in 0 .. Len(text) : Beginning(written, text, k)
<1>1. /\ Len(text) \in Nat /\ DOMAIN text = 1 .. Len(text) /\ \A i \in 1 .. Len(text) : text[i] \in Tokens
  BY LogTextIs
<1>2. ASSUME NEW k \in 0 .. Len(text)
      PROVE  /\ SubSeq(text, 1, k) \in LogTexts /\ Len(SubSeq(text, 1, k)) = k
             /\ \A i \in 1 .. k : SubSeq(text, 1, k)[i] = text[i]
  <2>1. 1 \in 1 .. Len(text) + 1 /\ k \in 1 - 1 .. Len(text)
    BY <1>1
  <2>2. /\ SubSeq(text, 1, k) \in Seq(Tokens) /\ Len(SubSeq(text, 1, k)) = k - 1 + 1
        /\ \A i \in 1 .. k - 1 + 1 : SubSeq(text, 1, k)[i] = text[1 + i - 1]
    BY <2>1, SubSeqProperties DEF LogTexts
  <2>3. \A i \in 1 .. k : 1 + i - 1 = i
    BY <1>1
  <2>4. QED
    BY <1>1, <2>2, <2>3 DEF LogTexts
<1>3. CASE \E k \in 0 .. Len(text) : written = SubSeq(text, 1, k)
  <2>1. PICK k \in 0 .. Len(text) : written = SubSeq(text, 1, k)
    BY <1>3
  <2>2. Beginning(written, text, k)
    BY <1>2, <2>1 DEF Beginning
  <2>3. QED
    BY <1>2, <2>1, <2>2
<1>4. CASE \E i \in NotBreaks(text) : written = Append(SubSeq(text, 1, i - 1), Torn(text[i]))
  <2>1. PICK k \in 1 .. Len(text) : written = Append(SubSeq(text, 1, k - 1), Torn(text[k]))
    BY <1>1, <1>4 DEF NotBreaks
  <2> DEFINE before == SubSeq(text, 1, k - 1)
             torn == Torn(text[k])
  <2>2. k - 1 \in 0 .. Len(text)
    BY <1>1
  <2>3. before \in LogTexts /\ Len(before) = k - 1 /\ \A i \in 1 .. k - 1 : before[i] = text[i]
    BY <1>2, <2>2
  <2>4. torn \in Tokens /\ torn.sample = text[k].sample /\ torn.kind \in {"bracket", "numeral", "word"}
    BY <1>1, TornIs
  <2>5. written = Append(before, torn)
    BY <2>1
  <2> HIDE DEF before, torn
  <2>6. /\ written \in LogTexts /\ Len(written) = (k - 1) + 1
        /\ \A i \in 1 .. k - 1 : written[i] = before[i] /\ written[(k - 1) + 1] = torn
    <3>1. before \in Seq(Tokens)
      BY <2>3 DEF LogTexts
    <3>2. QED
      BY <2>3, <2>4, <2>5, <3>1, AppendProperties DEF LogTexts
  <2>7. Len(written) = k /\ written[k] = torn
    <3>1. written[(k - 1) + 1] = torn
      BY <2>3, <2>4, <2>5 DEF LogTexts
    <3>2. QED
      BY <1>1, <2>6, <3>1
  <2>8. \A i \in 1 .. k : i = k \/ i \in 1 .. k - 1
    BY <1>1
  <2>9. Beginning(written, text, k)
    BY <2>3, <2>4, <2>6, <2>7, <2>8 DEF Beginning
  <2>10. QED
    BY <1>1, <2>6, <2>9
<1>5. QED
  BY <1>3, <1>4 DEF Remains

LEMMA PartIsGuarded ==
    ASSUME NEW text \in LogTexts, Guarded(text), NEW written \in Remains(text)
    PROVE  written \in LogTexts /\ Guarded(written)
<1>1. written \in LogTexts /\ Len(text) \in Nat
  BY PartsAre, LogTextIs
<1>2. PICK k \in 0 .. Len(text) : Beginning(written, text, k)
  BY PartsAre
<1>3. Len(written) = k
  BY <1>2 DEF Beginning
<1>4. ASSUME NEW i \in 1 .. k, written[i].sample
      PROVE  \E u, r \in 1 .. k : Guards(written, i, u, r) /\ Uncut(written, u, i)
  <2>1. i \in 1 .. Len(text) /\ text[i].sample
    BY <1>1, <1>2, <1>4 DEF Beginning
  <2>2. PICK u \in 1 .. Len(text), r \in 1 .. Len(text) : Guards(text, i, u, r) /\ Uncut(text, u, i)
    BY <2>1 DEF Guarded
  <2>3. /\ u + 3 <= r /\ r + 1 < i
        /\ text[u].kind = "user" /\ text[r - 2].kind = "break" /\ text[r - 1].kind = "break"
        /\ text[r].kind = "assistant" /\ text[r + 1].kind = "degenerate"
    BY <1>1, <2>2 DEF Guards
  <2>4. \A j \in 1 .. k : j < k => written[j] = text[j]
    BY <1>2 DEF Beginning
  <2>5. /\ u \in 1 .. k /\ r \in 1 .. k /\ r - 2 \in 1 .. k /\ r - 1 \in 1 .. k /\ r + 1 \in 1 .. k
        /\ u < k /\ r < k /\ r - 2 < k /\ r - 1 < k /\ r + 1 < k /\ r \in u + 3 .. k
    BY <1>1, <1>4, <2>2, <2>3
  <2>6. /\ written[u].kind = "user" /\ written[r - 2].kind = "break" /\ written[r - 1].kind = "break"
        /\ written[r].kind = "assistant" /\ written[r + 1].kind = "degenerate"
    BY <2>3, <2>4, <2>5
  <2>7. Guards(written, i, u, r)
    BY <1>3, <2>3, <2>5, <2>6 DEF Guards
  <2>8. ASSUME NEW s \in SectionStarts(written) PROVE s < u \/ i < s
    <3>1. s \in 2 .. k /\ written[s].kind = "heading" /\ written[s - 1].kind = "break"
      BY <1>1, <1>3, StartsAre
    <3>2. s \in 1 .. k /\ s - 1 \in 1 .. k /\ s - 1 < k /\ s \in 2 .. Len(text)
      BY <1>1, <3>1
    <3>3. written[s] = text[s] /\ written[s - 1] = text[s - 1]
      BY <1>2, <2>4, <3>1, <3>2 DEF Beginning
    <3>4. s \in SectionStarts(text)
      BY <3>1, <3>2, <3>3, StartsAre
    <3>5. QED
      BY <2>2, <3>4 DEF Uncut
  <2>9. Uncut(written, u, i)
    BY <2>8 DEF Uncut
  <2>10. QED
    BY <2>5, <2>7, <2>9
<1>5. QED
  BY <1>1, <1>3, <1>4 DEF Guarded

LEMMA MarkedIs ==
    ASSUME NEW kinds \in Seq(TokenKinds), NEW sample \in BOOLEAN
    PROVE  /\ Marked(kinds, sample) \in LogTexts /\ Len(Marked(kinds, sample)) = Len(kinds) /\ Len(kinds) \in Nat
           /\ \A i \in 1 .. Len(kinds) :
                 Marked(kinds, sample)[i].kind = kinds[i] /\ Marked(kinds, sample)[i].sample = sample
<1>1. Len(kinds) \in Nat /\ DOMAIN kinds = 1 .. Len(kinds) /\ \A i \in 1 .. Len(kinds) : kinds[i] \in TokenKinds
  BY LenProperties, ElementOfSeq
<1>2. Marked(kinds, sample) = [i \in 1 .. Len(kinds) |-> [kind |-> kinds[i], sample |-> sample]]
  BY <1>1 DEF Marked
<1>3. \A i \in 1 .. Len(kinds) : [kind |-> kinds[i], sample |-> sample] \in Tokens
  BY <1>1 DEF Tokens
<1>4. Marked(kinds, sample) \in [1 .. Len(kinds) -> Tokens]
  BY <1>2, <1>3
<1>5. Marked(kinds, sample) \in Seq(Tokens)
  BY <1>1, <1>4, SeqDef
<1>6. Len(Marked(kinds, sample)) = Len(kinds)
  <2>1. DOMAIN Marked(kinds, sample) = 1 .. Len(kinds)
    BY <1>4
  <2>2. QED
    BY <1>1, <1>5, <2>1, LenProperties
<1>7. QED
  BY <1>1, <1>2, <1>5, <1>6 DEF LogTexts

(* A turn, up to its answer and from there.                                *)
Opening(user) ==
  <<Token("heading"), Token("numeral")>> \o EmptyLine \o <<Token("user")>> \o Marked(user, FALSE)
  \o EmptyLine \o <<Token("assistant")>>

LEMMA OpeningIs ==
    ASSUME NEW user \in Seq(TokenKinds)
    PROVE  /\ Opening(user) \in LogTexts /\ Len(user) \in Nat /\ Len(Opening(user)) = Len(user) + 8
           /\ \A i \in 1 .. Len(user) + 8 : ~Opening(user)[i].sample
           /\ Opening(user)[5].kind = "user"
           /\ \A i \in 1 .. Len(user) : Opening(user)[5 + i].kind = user[i]
           /\ Opening(user)[Len(user) + 6].kind = "break" /\ Opening(user)[Len(user) + 7].kind = "break"
           /\ Opening(user)[Len(user) + 8].kind = "assistant"
<1> DEFINE n == Len(user)
           start == <<Token("heading"), Token("numeral")>> \o EmptyLine \o <<Token("user")>>
           asked == Marked(user, FALSE)
           empty == EmptyLine
           reply == <<Token("assistant")>>
<1>0. \A k \in {"heading", "numeral", "break", "user", "assistant"} :
         Token(k) \in Tokens /\ Token(k).kind = k /\ ~Token(k).sample
  <2>1. {"heading", "numeral", "break", "user", "assistant"} \subseteq TokenKinds
    BY DEF TokenKinds, Brackets
  <2>2. QED
    BY <2>1 DEF Token, Tokens
<1>1. /\ start \in LogTexts /\ Len(start) = 5 /\ \A i \in 1 .. 5 : ~start[i].sample
      /\ start[5].kind = "user"
  <2> DEFINE line == <<Token("heading"), Token("numeral")>>
             gap == EmptyLine
             mark == <<Token("user")>>
  <2>1. /\ line \in LogTexts /\ Len(line) = 2 /\ ~line[1].sample /\ ~line[2].sample
    BY <1>0 DEF LogTexts
  <2>2. gap \in LogTexts /\ Len(gap) = 2 /\ ~gap[1].sample /\ ~gap[2].sample
    BY <1>0 DEF EmptyLine, LogTexts
  <2>3. mark \in LogTexts /\ Len(mark) = 1 /\ mark[1].kind = "user" /\ ~mark[1].sample
    BY <1>0 DEF LogTexts
  <2>4. start = (line \o gap) \o mark
    OBVIOUS
  <2> HIDE DEF line, gap, mark, start
  <2> DEFINE both == line \o gap
  <2>5. /\ both \in LogTexts /\ Len(both) = 4
        /\ \A i \in 1 .. 2 : both[i] = line[i]
        /\ \A i \in 1 .. 2 : both[2 + i] = gap[i]
    <3>1. line \in LogTexts /\ gap \in LogTexts
      BY <2>1, <2>2
    <3>2. /\ line \o gap \in LogTexts /\ Len(line \o gap) = Len(line) + Len(gap)
          /\ \A i \in 1 .. Len(line) : (line \o gap)[i] = line[i]
          /\ \A i \in 1 .. Len(gap) : (line \o gap)[Len(line) + i] = gap[i]
      BY <3>1, LogJoined
    <3>3. QED
      BY <2>1, <2>2, <3>2
  <2> HIDE DEF both
  <2>6. /\ both \o mark \in LogTexts /\ Len(both \o mark) = 5
        /\ \A i \in 1 .. 4 : (both \o mark)[i] = both[i]
        /\ \A i \in 1 .. 1 : (both \o mark)[4 + i] = mark[i]
    <3>1. mark \in LogTexts /\ both \in LogTexts
      BY <2>3, <2>5
    <3>2. /\ both \o mark \in LogTexts /\ Len(both \o mark) = Len(both) + Len(mark)
          /\ \A i \in 1 .. Len(both) : (both \o mark)[i] = both[i]
          /\ \A i \in 1 .. Len(mark) : (both \o mark)[Len(both) + i] = mark[i]
      BY <3>1, LogJoined
    <3>3. QED
      BY <2>3, <2>5, <3>2
  <2>7. start = both \o mark
    BY <2>4 DEF both
  <2>8. /\ start[1] = line[1] /\ start[2] = line[2] /\ start[3] = gap[1] /\ start[4] = gap[2]
        /\ start[5] = mark[1]
    <3>1. both[1] = line[1] /\ both[2] = line[2] /\ both[2 + 1] = gap[1] /\ both[2 + 2] = gap[2]
      BY <2>5
    <3>2. /\ start[1] = both[1] /\ start[2] = both[2] /\ start[3] = both[3] /\ start[4] = both[4]
          /\ start[4 + 1] = mark[1]
      BY <2>6, <2>7
    <3>3. QED
      BY <3>1, <3>2
  <2>9. \A i \in 1 .. 5 : i = 1 \/ i = 2 \/ i = 3 \/ i = 4 \/ i = 5
    OBVIOUS
  <2>10. \A i \in 1 .. 5 : ~start[i].sample
    BY <2>1, <2>2, <2>3, <2>8, <2>9
  <2>11. QED
    BY <2>3, <2>6, <2>7, <2>8, <2>10
<1>2. /\ asked \in LogTexts /\ n \in Nat /\ Len(asked) = n
      /\ \A i \in 1 .. n : asked[i].kind = user[i] /\ ~asked[i].sample
  BY MarkedIs
<1>3. /\ empty \in LogTexts /\ Len(empty) = 2
      /\ empty[1].kind = "break" /\ empty[2].kind = "break" /\ ~empty[1].sample /\ ~empty[2].sample
  BY <1>0 DEF EmptyLine, LogTexts
<1>4. reply \in LogTexts /\ Len(reply) = 1 /\ reply[1].kind = "assistant" /\ ~reply[1].sample
  BY <1>0 DEF LogTexts
<1>5. Opening(user) = ((start \o asked) \o empty) \o reply
  BY DEF Opening
<1> HIDE DEF n, start, asked, empty, reply
<1> DEFINE one == start \o asked
           two == one \o empty
           all == two \o reply
<1>6. /\ one \in LogTexts /\ Len(one) = 5 + n
      /\ \A i \in 1 .. 5 : one[i] = start[i]
      /\ \A i \in 1 .. n : one[5 + i] = asked[i]
  <2>1. start \in LogTexts /\ asked \in LogTexts
    BY <1>1, <1>2
  <2>2. /\ start \o asked \in LogTexts /\ Len(start \o asked) = Len(start) + Len(asked)
        /\ \A i \in 1 .. Len(start) : (start \o asked)[i] = start[i]
        /\ \A i \in 1 .. Len(asked) : (start \o asked)[Len(start) + i] = asked[i]
    BY <2>1, LogJoined
  <2>3. QED
    BY <1>1, <1>2, <2>2
<1> HIDE DEF one
<1>7. /\ two \in LogTexts /\ Len(two) = 5 + n + 2
      /\ \A i \in 1 .. 5 + n : two[i] = one[i]
      /\ \A i \in 1 .. 2 : two[5 + n + i] = empty[i]
  <2>1. one \in LogTexts /\ empty \in LogTexts
    BY <1>2, <1>3, <1>6
  <2>2. /\ one \o empty \in LogTexts /\ Len(one \o empty) = Len(one) + Len(empty)
        /\ \A i \in 1 .. Len(one) : (one \o empty)[i] = one[i]
        /\ \A i \in 1 .. Len(empty) : (one \o empty)[Len(one) + i] = empty[i]
    BY <2>1, LogJoined
  <2>3. QED
    BY <1>2, <1>3, <1>6, <2>2
<1> HIDE DEF two
<1>8. /\ all \in LogTexts /\ Len(all) = 5 + n + 2 + 1
      /\ \A i \in 1 .. 5 + n + 2 : all[i] = two[i]
      /\ \A i \in 1 .. 1 : all[5 + n + 2 + i] = reply[i]
  <2>1. two \in LogTexts /\ reply \in LogTexts
    BY <1>2, <1>4, <1>7
  <2>2. /\ two \o reply \in LogTexts /\ Len(two \o reply) = Len(two) + Len(reply)
        /\ \A i \in 1 .. Len(two) : (two \o reply)[i] = two[i]
        /\ \A i \in 1 .. Len(reply) : (two \o reply)[Len(two) + i] = reply[i]
    BY <2>1, LogJoined
  <2>3. QED
    BY <1>2, <1>4, <1>7, <2>2
<1>9. Opening(user) = all
  BY <1>5 DEF one, two
<1> HIDE DEF all
<1>10. /\ \A i \in 1 .. 5 : all[i] = start[i]
       /\ \A i \in 1 .. n : all[5 + i] = asked[i]
       /\ all[n + 6] = empty[1] /\ all[n + 7] = empty[2] /\ all[n + 8] = reply[1]
  <2>1. \A i \in 1 .. 5 : all[i] = start[i]
    BY <1>2, <1>6, <1>7, <1>8
  <2>2. \A i \in 1 .. n : all[5 + i] = asked[i]
    BY <1>2, <1>6, <1>7, <1>8
  <2>3. all[5 + n + 1] = empty[1] /\ all[5 + n + 2] = empty[2]
    BY <1>2, <1>7, <1>8
  <2>4. all[5 + n + 2 + 1] = reply[1]
    BY <1>8
  <2>5. n + 6 = 5 + n + 1 /\ n + 7 = 5 + n + 2 /\ n + 8 = 5 + n + 2 + 1
    BY <1>2
  <2>6. QED
    BY <2>1, <2>2, <2>3, <2>4, <2>5
<1>11. Len(all) = n + 8
  BY <1>2, <1>8
<1>12. ASSUME NEW i \in 1 .. n + 8 PROVE ~all[i].sample
  <2>1. i \in 1 .. 5 \/ (i - 5 \in 1 .. n /\ i = 5 + (i - 5)) \/ i = n + 6 \/ i = n + 7 \/ i = n + 8
    BY <1>2
  <2>2. CASE i \in 1 .. 5
    BY <1>1, <1>10, <2>2
  <2>3. CASE i - 5 \in 1 .. n /\ i = 5 + (i - 5)
    BY <1>2, <1>10, <2>3
  <2>4. CASE i = n + 6 \/ i = n + 7 \/ i = n + 8
    BY <1>3, <1>4, <1>10, <2>4
  <2>5. QED
    BY <2>1, <2>2, <2>3, <2>4
<1>13. all[5].kind = "user" /\ \A i \in 1 .. n : all[5 + i].kind = user[i]
  BY <1>1, <1>2, <1>10
<1>14. all[n + 6].kind = "break" /\ all[n + 7].kind = "break" /\ all[n + 8].kind = "assistant"
  BY <1>3, <1>4, <1>10
<1>15. QED
  BY <1>2, <1>8, <1>9, <1>11, <1>12, <1>13, <1>14 DEF n

LEMMA PlainIsGuarded ==
    ASSUME NEW text, \A i \in 1 .. Len(text) : ~text[i].sample
    PROVE  Guarded(text)
BY DEF Guarded

LEMMA TurnIsGuarded ==
    ASSUME NEW user \in Seq(TokenKinds), NEW reply \in LogTexts, Guarded(Opening(user) \o reply)
    PROVE  TurnText(user, reply) \in LogTexts /\ Guarded(TurnText(user, reply))
<1> DEFINE turn == Opening(user) \o reply
           empty == EmptyLine
           rule == <<Token("rule")>>
<1>1. turn \in LogTexts /\ Guarded(turn)
  BY OpeningIs, LogJoined
<1>2. /\ Token("break") \in Tokens /\ Token("rule") \in Tokens
      /\ ~Token("break").sample /\ ~Token("rule").sample
  BY DEF Token, Tokens, TokenKinds, Brackets
<1>3. empty \in LogTexts /\ Guarded(empty)
  <2>1. empty \in LogTexts /\ Len(empty) = 2 /\ ~empty[1].sample /\ ~empty[2].sample
    BY <1>2 DEF EmptyLine, LogTexts
  <2>2. \A i \in 1 .. 2 : i = 1 \/ i = 2
    OBVIOUS
  <2> HIDE DEF empty
  <2>3. \A i \in 1 .. Len(empty) : ~empty[i].sample
    BY <2>1, <2>2
  <2>4. QED
    BY <2>1, <2>3, PlainIsGuarded
<1>4. rule \in LogTexts /\ Guarded(rule)
  <2>1. rule \in LogTexts /\ Len(rule) = 1 /\ ~rule[1].sample
    BY <1>2 DEF LogTexts
  <2> HIDE DEF rule
  <2>2. \A i \in 1 .. Len(rule) : ~rule[i].sample
    BY <2>1
  <2>3. QED
    BY <2>1, <2>2, PlainIsGuarded
<1>5. TurnText(user, reply) = ((turn \o empty) \o rule) \o empty
  BY DEF TurnText, Opening
<1> HIDE DEF turn, empty, rule
<1>6. turn \o empty \in LogTexts /\ Guarded(turn \o empty)
  BY <1>1, <1>3, LogJoined, JoinIsGuarded
<1>7. (turn \o empty) \o rule \in LogTexts /\ Guarded((turn \o empty) \o rule)
  BY <1>4, <1>6, LogJoined, JoinIsGuarded
<1>8. ((turn \o empty) \o rule) \o empty \in LogTexts /\ Guarded(((turn \o empty) \o rule) \o empty)
  BY <1>3, <1>7, LogJoined, JoinIsGuarded
<1>9. QED
  BY <1>5, <1>8

LEMMA PlainTurnIsGuarded ==
    ASSUME NEW user \in Seq(TokenKinds), NEW reply \in LogTexts, \A i \in 1 .. Len(reply) : ~reply[i].sample
    PROVE  TurnText(user, reply) \in LogTexts /\ Guarded(TurnText(user, reply))
<1>1. Guarded(reply)
  BY PlainIsGuarded
<1>2. Opening(user) \in LogTexts /\ \A i \in 1 .. Len(Opening(user)) : ~Opening(user)[i].sample
  BY OpeningIs
<1>3. Guarded(Opening(user))
  BY <1>2, PlainIsGuarded
<1>4. Guarded(Opening(user) \o reply)
  BY <1>1, <1>2, <1>3, JoinIsGuarded
<1>5. QED
  BY <1>4, TurnIsGuarded

LEMMA SampleIs ==
    ASSUME NEW sample \in Seq(TokenKinds), NEW plain \in BOOLEAN
    PROVE  LET reply == <<Token("degenerate")>> \o Marked(sample, plain) IN
           /\ reply \in LogTexts /\ Len(sample) \in Nat /\ Len(reply) = Len(sample) + 1
           /\ reply[1].kind = "degenerate" /\ ~reply[1].sample
           /\ \A i \in 1 .. Len(sample) : reply[1 + i].kind = sample[i] /\ reply[1 + i].sample = plain
<1> DEFINE said == Marked(sample, plain)
           mark == <<Token("degenerate")>>
<1>1. /\ said \in LogTexts /\ Len(said) = Len(sample) /\ Len(sample) \in Nat
      /\ \A i \in 1 .. Len(sample) : said[i].kind = sample[i] /\ said[i].sample = plain
  BY MarkedIs
<1>2. mark \in LogTexts /\ Len(mark) = 1 /\ mark[1].kind = "degenerate" /\ ~mark[1].sample
  BY DEF Token, LogTexts, Tokens, TokenKinds, Brackets
<1> HIDE DEF said, mark
<1>3. /\ mark \o said \in LogTexts /\ Len(mark \o said) = Len(mark) + Len(said)
      /\ \A i \in 1 .. Len(mark) : (mark \o said)[i] = mark[i]
      /\ \A i \in 1 .. Len(said) : (mark \o said)[Len(mark) + i] = said[i]
  BY <1>1, <1>2, LogJoined
<1> DEFINE all == mark \o said
<1> HIDE DEF all
<1>4. /\ all \in LogTexts /\ Len(all) = 1 + Len(sample) /\ all[1] = mark[1]
      /\ \A i \in 1 .. Len(sample) : all[1 + i] = said[i]
  BY <1>1, <1>2, <1>3 DEF all
<1>5. /\ all \in LogTexts /\ Len(sample) \in Nat /\ Len(all) = Len(sample) + 1
      /\ all[1].kind = "degenerate" /\ ~all[1].sample
      /\ \A i \in 1 .. Len(sample) : all[1 + i].kind = sample[i] /\ all[1 + i].sample = plain
  BY <1>1, <1>2, <1>4
<1>6. QED
  BY <1>5 DEF all, mark, said

LEMMA DegenerateTurnIsGuarded ==
    ASSUME NEW user \in Seq(TokenKinds), NEW sample \in Seq(TokenKinds)
    PROVE  DegenerateTurn(user, sample) \in LogTexts /\ Guarded(DegenerateTurn(user, sample))
<1> DEFINE plain == NoHeading(user) /\ NoHeading(sample)
           reply == <<Token("degenerate")>> \o Marked(sample, plain)
           n == Len(user)
           m == Len(sample)
<1>1. plain \in BOOLEAN
  BY DEF NoHeading
<1>2. DegenerateTurn(user, sample) = TurnText(user, reply)
  BY DEF DegenerateTurn
<1>3. plain => NoHeading(user) /\ NoHeading(sample)
  OBVIOUS
<1> HIDE DEF plain
<1>4. /\ reply \in LogTexts /\ m \in Nat /\ Len(reply) = m + 1
      /\ reply[1].kind = "degenerate" /\ ~reply[1].sample
      /\ \A i \in 1 .. m : reply[1 + i].kind = sample[i] /\ reply[1 + i].sample = plain
  BY <1>1, SampleIs
<1> HIDE DEF reply
<1>5. \A i \in 1 .. m + 1 : i = 1 \/ (i - 1 \in 1 .. m /\ i = 1 + (i - 1))
  BY <1>4
<1>6. CASE ~plain
  <2>0. \A j \in 1 .. m : ~reply[1 + j].sample
    BY <1>4, <1>6, Zenon
  <2>1. \A i \in 1 .. Len(reply) : ~reply[i].sample
    <3>1. ASSUME NEW i \in 1 .. m + 1 PROVE ~reply[i].sample
      <4>1. CASE i = 1
        BY <1>4, <4>1
      <4>2. CASE i - 1 \in 1 .. m /\ i = 1 + (i - 1)
        <5>1. PICK j \in 1 .. m : i = 1 + j
          BY <4>2
        <5>2. QED
          BY <2>0, <5>1
      <4>3. QED
        BY <1>5, <4>1, <4>2
    <3>2. QED
      BY <1>4, <3>1
  <2>2. QED
    BY <1>2, <1>4, <2>1, PlainTurnIsGuarded
<1>7. CASE plain
  <2> DEFINE open == Opening(user)
             turn == open \o reply
  <2>1. /\ open \in LogTexts /\ n \in Nat /\ Len(open) = n + 8
        /\ \A i \in 1 .. n + 8 : ~open[i].sample
        /\ open[5].kind = "user"
        /\ \A i \in 1 .. n : open[5 + i].kind = user[i]
        /\ open[n + 6].kind = "break" /\ open[n + 7].kind = "break" /\ open[n + 8].kind = "assistant"
    BY OpeningIs
  <2> HIDE DEF open
  <2>2. /\ turn \in LogTexts /\ Len(turn) = Len(open) + Len(reply)
        /\ \A i \in 1 .. Len(open) : turn[i] = open[i]
        /\ \A i \in 1 .. Len(reply) : turn[Len(open) + i] = reply[i]
    BY <1>4, <2>1, LogJoined
  <2> HIDE DEF turn, n, m
  <2>3. /\ Len(turn) = n + m + 9
        /\ \A i \in 1 .. n + 8 : turn[i] = open[i]
        /\ \A i \in 1 .. m + 1 : turn[n + 8 + i] = reply[i]
    <3>1. Len(open) = n + 8 /\ Len(reply) = m + 1
      BY <1>4, <2>1
    <3>2. /\ Len(turn) = (n + 8) + (m + 1)
          /\ \A i \in 1 .. n + 8 : turn[i] = open[i]
          /\ \A i \in 1 .. m + 1 : turn[(n + 8) + i] = reply[i]
      BY <2>2, <3>1
    <3>3. QED
      BY <1>4, <2>1, <3>2
  <2>4. /\ turn[5].kind = "user" /\ turn[n + 6].kind = "break" /\ turn[n + 7].kind = "break"
        /\ turn[n + 8].kind = "assistant"
        /\ \A i \in 1 .. n : turn[5 + i].kind = user[i]
    <3>1. /\ 5 \in 1 .. n + 8 /\ n + 6 \in 1 .. n + 8 /\ n + 7 \in 1 .. n + 8 /\ n + 8 \in 1 .. n + 8
          /\ \A i \in 1 .. n : 5 + i \in 1 .. n + 8
      BY <2>1
    <3>2. QED
      BY <2>1, <2>3, <3>1
  <2>5. /\ turn[n + 9].kind = "degenerate"
        /\ \A i \in 1 .. m : turn[n + 9 + i].kind = sample[i]
    <3>0. m \in Nat /\ n \in Nat
      BY <1>4, <2>1
    <3>1. /\ 1 \in 1 .. m + 1 /\ n + 8 + 1 = n + 9
          /\ \A i \in 1 .. m : 1 + i \in 1 .. m + 1 /\ n + 8 + (1 + i) = n + 9 + i
      BY <3>0
    <3>2. turn[n + 9] = reply[1] /\ \A i \in 1 .. m : turn[n + 9 + i] = reply[1 + i]
      BY <2>3, <3>1
    <3>3. QED
      BY <1>4, <3>2
  <2>6. \A i \in 1 .. n + 9 : ~turn[i].sample
    <3>1. ASSUME NEW i \in 1 .. n + 9 PROVE ~turn[i].sample
      <4>1. CASE i = n + 9
        <5>1. 1 \in 1 .. m + 1 /\ n + 8 + 1 = n + 9
          BY <1>4, <2>1
        <5>2. QED
          BY <1>4, <2>3, <4>1, <5>1
      <4>2. CASE i # n + 9
        <5>1. i \in 1 .. n + 8
          BY <2>1, <3>1, <4>2
        <5>2. QED
          BY <2>1, <2>3, <5>1
      <4>3. QED
        BY <4>1, <4>2
    <3>2. QED
      BY <3>1
  <2>7. ASSUME NEW s \in SectionStarts(turn) PROVE s < 5
    <3>1. s \in 2 .. Len(turn) /\ turn[s].kind = "heading" /\ turn[s - 1].kind = "break"
      BY <2>2, StartsAre
    <3>2. \/ s < 5 \/ s = 5 \/ s = n + 6 \/ s = n + 7 \/ s = n + 8 \/ s = n + 9
          \/ (s - 5 \in 1 .. n /\ s = 5 + (s - 5))
          \/ (s - (n + 9) \in 1 .. m /\ s = n + 9 + (s - (n + 9)))
      <4>1. m \in Nat /\ n \in Nat /\ s \in 2 .. n + m + 9
        BY <1>4, <2>1, <2>3, <3>1
      <4>2. QED
        BY <4>1
    <3>3. s # 5 /\ s # n + 6 /\ s # n + 7 /\ s # n + 8 /\ s # n + 9
      BY <2>4, <2>5, <3>1
    <3>4. ASSUME s - 5 \in 1 .. n /\ s = 5 + (s - 5) PROVE FALSE
      <4>1. PICK j \in 1 .. n : s = 5 + j
        BY <3>4
      <4>2. user[j] = "heading"
        BY <2>4, <3>1, <4>1
      <4>3. CASE j = 1
        <5>1. s - 1 = 5
          BY <4>1, <4>3
        <5>2. QED
          BY <2>4, <3>1, <5>1
      <4>4. CASE j # 1
        <5>1. j \in 2 .. n /\ j - 1 \in 1 .. n /\ s - 1 = 5 + (j - 1)
          BY <2>1, <4>1, <4>4
        <5>2. user[j - 1] = "break"
          BY <2>4, <3>1, <5>1
        <5>3. QED
          BY <1>3, <1>7, <4>2, <5>1, <5>2 DEF NoHeading, n
      <4>5. QED
        BY <4>3, <4>4
    <3>5. ASSUME s - (n + 9) \in 1 .. m /\ s = n + 9 + (s - (n + 9)) PROVE FALSE
      <4>1. PICK j \in 1 .. m : s = n + 9 + j
        BY <3>5
      <4>2. sample[j] = "heading"
        BY <2>5, <3>1, <4>1
      <4>3. CASE j = 1
        <5>1. s - 1 = n + 9
          BY <2>1, <4>1, <4>3
        <5>2. QED
          BY <2>5, <3>1, <5>1
      <4>4. CASE j # 1
        <5>1. j \in 2 .. m /\ j - 1 \in 1 .. m /\ s - 1 = n + 9 + (j - 1)
          BY <1>4, <2>1, <4>1, <4>4
        <5>2. sample[j - 1] = "break"
          BY <2>5, <3>1, <5>1
        <5>3. QED
          BY <1>3, <1>7, <4>2, <5>1, <5>2 DEF NoHeading, m
      <4>5. QED
        BY <4>3, <4>4
    <3>6. QED
      BY <3>2, <3>3, <3>4, <3>5
  <2>8. ASSUME NEW i \in 1 .. Len(turn), turn[i].sample
        PROVE  \E u, r \in 1 .. Len(turn) : Guards(turn, i, u, r) /\ Uncut(turn, u, i)
    <3>1. ~(i \in 1 .. n + 9)
      BY <2>6, <2>8
    <3>2. /\ 5 \in 1 .. Len(turn) /\ n + 8 \in 5 + 3 .. Len(turn) /\ n + 8 \in 1 .. Len(turn) /\ n + 8 + 1 < i
          /\ (n + 8) - 2 = n + 6 /\ (n + 8) - 1 = n + 7 /\ (n + 8) + 1 = n + 9
      BY <1>4, <2>1, <2>3, <3>1
    <3>3. Guards(turn, i, 5, n + 8)
      BY <2>4, <2>5, <3>2 DEF Guards
    <3>4. Uncut(turn, 5, i)
      BY <2>7 DEF Uncut
    <3>5. QED
      BY <3>2, <3>3, <3>4
  <2>9. Guarded(turn)
    BY <2>8 DEF Guarded
  <2>10. Guarded(Opening(user) \o reply)
    BY <2>9 DEF turn, open
  <2>11. QED
    BY <1>2, <1>4, <2>10, TurnIsGuarded
<1>8. QED
  BY <1>6, <1>7

(* The least of a set of places.                                           *)
LEMMA FirstPlace ==
    ASSUME NEW T \in SUBSET Nat, T # {}
    PROVE  Min(T) \in T /\ \A k \in T : Min(T) <= k
<1>1. PICK m \in T : \A k \in T : m <= k
  BY LeastNumber
<1>2. \A k \in T : m =< k
  BY <1>1
<1>3. QED
  BY <1>1, <1>2 DEF Min

LEMMA LogPart ==
    ASSUME NEW text \in LogTexts, NEW f \in 1 .. Len(text) + 1, NEW g \in f - 1 .. Len(text)
    PROVE  /\ SubSeq(text, f, g) \in LogTexts /\ Len(SubSeq(text, f, g)) = g - f + 1
           /\ \A i \in 1 .. g - f + 1 : SubSeq(text, f, g)[i] = text[f + i - 1]
<1>1. Len(text) \in Nat
  BY LogTextIs
<1>2. QED
  BY <1>1, SubSeqProperties DEF LogTexts

LEMMA TrimmedIs ==
    ASSUME NEW text \in LogTexts
    PROVE  /\ Trimmed(text) \in LogTexts
           /\ \/ Trimmed(text) = << >>
              \/ \E f \in 1 .. Len(text) : \E g \in f .. Len(text) :
                    /\ Len(Trimmed(text)) = g - f + 1
                    /\ \A i \in 1 .. g - f + 1 : Trimmed(text)[i] = text[f + i - 1]
                    /\ \A i \in 1 .. Len(text) : text[i].kind # "break" => f <= i
<1>1. CASE NotBreaks(text) = {}
  BY <1>1 DEF Trimmed, LogTexts
<1>2. CASE NotBreaks(text) # {}
  <2> DEFINE T == NotBreaks(text)
  <2>1. T \in SUBSET Nat /\ T # {} /\ Len(text) \in Nat /\ \A n \in T : n <= Len(text)
    BY <1>2, LogTextIs DEF NotBreaks
  <2>2. Max(T) \in T /\ \A n \in T : n <= Max(T)
    BY <2>1, MaxOfBounded
  <2>3. Min(T) \in T /\ \A n \in T : Min(T) <= n
    BY <2>1, FirstPlace
  <2>4. PICK f : f = Min(T)
    OBVIOUS
  <2>5. PICK g : g = Max(T)
    OBVIOUS
  <2>6. /\ f \in 1 .. Len(text) /\ g \in 1 .. Len(text) /\ f <= g
        /\ \A i \in 1 .. Len(text) : text[i].kind # "break" => f <= i
    BY <2>2, <2>3, <2>4, <2>5, LogTextIs DEF NotBreaks
  <2>7. Trimmed(text) = SubSeq(text, f, g)
    BY <1>2, <2>4, <2>5 DEF Trimmed, Trim
  <2>8. f \in 1 .. Len(text) + 1 /\ g \in f - 1 .. Len(text) /\ g \in f .. Len(text)
    BY <2>1, <2>6
  <2>9. /\ SubSeq(text, f, g) \in LogTexts /\ Len(SubSeq(text, f, g)) = g - f + 1
        /\ \A i \in 1 .. g - f + 1 : SubSeq(text, f, g)[i] = text[f + i - 1]
    BY <2>8, LogPart
  <2>10. QED
    BY <2>6, <2>7, <2>8, <2>9
<1>3. QED
  BY <1>1, <1>2

-----------------------------------------------------------------------------
\* What is left of a guard in a section.
Fenced(section) ==
    \A i \in 1 .. Len(section) : section[i].sample => \E u, r \in 1 .. Len(section) : Guards(section, i, u, r)

LEMMA SectionIsFenced ==
    ASSUME NEW text \in LogTexts, Guarded(text), readFrom = 0 \/ readFrom \in SectionStarts(text)
    PROVE  Section(text) \in LogTexts /\ Fenced(Section(text))
<1> DEFINE next == Later(text)
           e == IF next = {} THEN Len(text) ELSE Min(next) - 2
           section == SubSeq(text, readFrom + 1, e)
<1>1. Len(text) \in Nat
  BY LogTextIs
<1>2. readFrom \in 0 .. Len(text)
  BY <1>1, StartsAre
<1>3. e \in readFrom .. Len(text)
  <2>1. CASE next = {}
    BY <1>1, <1>2, <2>1
  <2>2. CASE next # {}
    <3>1. next \in SUBSET Nat
      BY StartsAre DEF Later
    <3>2. PICK k \in next : k = Min(next)
      BY <2>2, <3>1, FirstPlace
    <3>3. k \in SectionStarts(text) /\ k > readFrom
      BY DEF Later
    <3>4. k \in 2 .. Len(text) /\ text[k - 1].kind = "break"
      BY <3>3, StartsAre
    <3>5. readFrom + 1 = k => readFrom = 0
      <4>1. ASSUME readFrom + 1 = k, readFrom # 0 PROVE FALSE
        <5>1. text[readFrom].kind = "heading"
          BY <4>1, StartsAre
        <5>2. readFrom = k - 1
          BY <1>2, <3>4, <4>1
        <5>3. QED
          BY <3>4, <5>1, <5>2
      <4>2. QED
        BY <4>1
    <3>6. k - 2 \in readFrom .. Len(text)
      BY <1>1, <1>2, <3>3, <3>4, <3>5
    <3>7. QED
      BY <2>2, <3>2, <3>6
  <2>3. QED
    BY <2>1, <2>2
<1>4. Section(text) = section
  BY DEF Section
<1> HIDE DEF e, next
<1>5. /\ section \in LogTexts /\ Len(section) = e - readFrom
      /\ \A i \in 1 .. e - readFrom : section[i] = text[readFrom + i]
  <2>1. readFrom + 1 \in 1 .. Len(text) + 1 /\ e \in (readFrom + 1) - 1 .. Len(text)
    BY <1>1, <1>2, <1>3
  <2>2. /\ section \in LogTexts /\ Len(section) = e - (readFrom + 1) + 1
        /\ \A i \in 1 .. e - (readFrom + 1) + 1 : section[i] = text[(readFrom + 1) + i - 1]
    BY <2>1, LogPart
  <2>3. e - (readFrom + 1) + 1 = e - readFrom /\ \A i \in Nat : (readFrom + 1) + i - 1 = readFrom + i
    BY <1>2, <1>3
  <2>4. Len(section) = e - readFrom
    BY <2>2, <2>3
  <2>5. ASSUME NEW i \in 1 .. e - readFrom PROVE section[i] = text[readFrom + i]
    <3>1. i \in 1 .. e - (readFrom + 1) + 1 /\ i \in Nat
      BY <2>3
    <3>2. section[i] = text[(readFrom + 1) + i - 1] /\ (readFrom + 1) + i - 1 = readFrom + i
      BY <2>2, <2>3, <3>1
    <3>3. QED
      BY <3>2
  <2>6. QED
    BY <2>2, <2>4, <2>5
<1> HIDE DEF section
<1>6. ASSUME NEW i \in 1 .. Len(section), section[i].sample
      PROVE  \E u, r \in 1 .. Len(section) : Guards(section, i, u, r)
  <2>1. /\ i \in 1 .. e - readFrom /\ readFrom + i \in 1 .. Len(text) /\ readFrom + i <= e
        /\ text[readFrom + i].sample
    <3>1. i \in 1 .. e - readFrom /\ section[i] = text[readFrom + i]
      BY <1>5, <1>6
    <3>2. i <= e - readFrom
      BY <1>2, <1>3, <3>1
    <3>3. readFrom + i \in 1 .. Len(text) /\ readFrom + i <= e
      BY <1>1, <1>2, <1>3, <3>1, <3>2
    <3>4. QED
      BY <1>6, <3>1, <3>3
  <2>2. PICK u \in 1 .. Len(text), r \in 1 .. Len(text) :
            Guards(text, readFrom + i, u, r) /\ Uncut(text, u, readFrom + i)
    BY <2>1 DEF Guarded
  <2>3. readFrom < u
    <3>1. CASE readFrom = 0
      BY <2>2, <3>1
    <3>2. CASE readFrom \in SectionStarts(text)
      BY <1>2, <2>1, <2>2, <3>2 DEF Uncut
    <3>3. QED
      BY <3>1, <3>2
  <2>4. /\ u + 3 <= r /\ r + 1 < readFrom + i
        /\ text[u].kind = "user" /\ text[r - 2].kind = "break" /\ text[r - 1].kind = "break"
        /\ text[r].kind = "assistant" /\ text[r + 1].kind = "degenerate"
    BY <1>1, <2>2 DEF Guards
  <2> DEFINE v == u - readFrom
             t == r - readFrom
             w == e - readFrom
  <2>5. /\ v \in 1 .. w /\ t \in v + 3 .. w /\ t + 1 < i /\ t \in 1 .. w
        /\ t - 2 \in 1 .. w /\ t - 1 \in 1 .. w /\ t + 1 \in 1 .. w
        /\ readFrom + v = u /\ readFrom + (t - 2) = r - 2 /\ readFrom + (t - 1) = r - 1
        /\ readFrom + t = r /\ readFrom + (t + 1) = r + 1
    BY <1>1, <1>2, <1>3, <2>1, <2>2, <2>3, <2>4
  <2> HIDE DEF v, t
  <2>6. /\ section[v].kind = "user" /\ section[t - 2].kind = "break" /\ section[t - 1].kind = "break"
        /\ section[t].kind = "assistant" /\ section[t + 1].kind = "degenerate"
    BY <1>5, <2>4, <2>5
  <2>7. Guards(section, i, v, t)
    BY <1>5, <2>5, <2>6 DEF Guards
  <2>8. QED
    BY <1>5, <2>5, <2>7
<1>7. QED
  BY <1>4, <1>5, <1>6 DEF Fenced

\* No marked token.
Clean(text) == \A i \in 1 .. Len(text) : ~text[i].sample

LEMMA CleanPart ==
    ASSUME NEW text \in LogTexts, Clean(text), NEW k \in 0 .. Len(text)
    PROVE  SubSeq(text, 1, k) \in LogTexts /\ Len(SubSeq(text, 1, k)) = k /\ Clean(SubSeq(text, 1, k))
<1>1. Len(text) \in Nat /\ 1 \in 1 .. Len(text) + 1 /\ k \in 1 - 1 .. Len(text)
  BY LogTextIs
<1> DEFINE beginning == SubSeq(text, 1, k)
<1>2. /\ beginning \in LogTexts /\ Len(beginning) = k - 1 + 1
      /\ \A i \in 1 .. k - 1 + 1 : beginning[i] = text[1 + i - 1]
  BY <1>1, LogPart
<1> HIDE DEF beginning
<1>3. Len(beginning) = k /\ \A i \in 1 .. k : i \in 1 .. Len(text) /\ beginning[i] = text[i]
  BY <1>1, <1>2
<1>4. Clean(beginning)
  BY <1>3 DEF Clean
<1>5. QED
  BY <1>2, <1>3, <1>4 DEF beginning

LEMMA CleanTrimmed ==
    ASSUME NEW text \in LogTexts, Clean(text)
    PROVE  Trimmed(text) \in LogTexts /\ Clean(Trimmed(text))
<1>1. Len(text) \in Nat /\ Trimmed(text) \in LogTexts
  BY LogTextIs, TrimmedIs
<1>2. CASE Trimmed(text) = << >>
  BY <1>1, <1>2 DEF Clean
<1>3. CASE Trimmed(text) # << >>
  <2>1. PICK f \in 1 .. Len(text) : \E g \in f .. Len(text) :
           /\ Len(Trimmed(text)) = g - f + 1
           /\ \A i \in 1 .. g - f + 1 : Trimmed(text)[i] = text[f + i - 1]
    BY <1>3, TrimmedIs
  <2>2. PICK g \in f .. Len(text) :
           /\ Len(Trimmed(text)) = g - f + 1
           /\ \A i \in 1 .. g - f + 1 : Trimmed(text)[i] = text[f + i - 1]
    BY <2>1
  <2>3. \A i \in 1 .. g - f + 1 : f + i - 1 \in 1 .. Len(text)
    BY <1>1
  <2>4. QED
    BY <1>1, <2>2, <2>3 DEF Clean
<1>4. QED
  BY <1>2, <1>3

(* A field whose marker comes before the empty line of a guard ends there. *)
LEMMA FieldEndsBefore ==
    ASSUME NEW section \in LogTexts, NEW m \in 1 .. Len(section), NEW rest \in LogTexts,
           Len(rest) = Len(section) - m, \A q \in 1 .. Len(section) - m : rest[q] = section[m + q],
           NEW r \in 1 .. Len(section), m + 3 <= r,
           section[r - 2].kind = "break", section[r - 1].kind = "break", section[r].kind = "assistant"
    PROVE  FieldEnds(rest) # {} /\ Min(FieldEnds(rest)) <= r - 2 - m
<1>1. Len(section) \in Nat /\ DOMAIN rest = 1 .. Len(section) - m
  BY LogTextIs
<1> DEFINE t == r - 2 - m
<1>2. /\ t \in 1 .. Len(section) - m /\ t + 1 \in 1 .. Len(section) - m /\ t + 2 \in 1 .. Len(section) - m
      /\ m + t = r - 2 /\ m + (t + 1) = r - 1 /\ m + (t + 2) = r
  <2>1. m \in Nat /\ r \in Nat /\ r <= Len(section) /\ Len(section) \in Nat
    BY <1>1
  <2>2. m + t = r - 2 /\ m + (t + 1) = r - 1 /\ m + (t + 2) = r
    BY <2>1
  <2>3. t \in Nat /\ 1 <= t /\ t + 2 <= Len(section) - m
    BY <2>1
  <2> HIDE DEF t
  <2>4. t \in 1 .. Len(section) - m
    BY <2>1, <2>3
  <2>5. t + 1 \in 1 .. Len(section) - m
    BY <2>1, <2>3
  <2>6. t + 2 \in 1 .. Len(section) - m
    BY <2>1, <2>3
  <2>7. QED
    BY <2>2, <2>4, <2>5, <2>6
<1> HIDE DEF t
<1>3. rest[t].kind = "break" /\ rest[t + 1].kind = "break" /\ rest[t + 2].kind \in Brackets
  <2>1. rest[t] = section[r - 2] /\ rest[t + 1] = section[r - 1] /\ rest[t + 2] = section[r]
    BY <1>2
  <2>2. QED
    BY <2>1 DEF Brackets
<1>4. t \in FieldEnds(rest)
  BY <1>1, <1>2, <1>3 DEF FieldEnds, Gaps, Places
<1>5. FieldEnds(rest) \in SUBSET Nat
  BY <1>1 DEF FieldEnds, Gaps, Places
<1>6. QED
  BY <1>4, <1>5, FirstPlace DEF t

LEMMA FieldIsClean ==
    ASSUME NEW section \in LogTexts, Fenced(section), NEW marker \in {"user", "assistant"}
    PROVE  LET field == ExtractField(section, marker) IN
           /\ field \in LogTexts
           /\ \/ Clean(field)
              \/ marker = "assistant" /\ field # << >> /\ field[1].kind = "degenerate" /\ Len(field) > 1
<1> DEFINE field == ExtractField(section, marker)
<1>1. CASE Places(section, marker) = {}
  <2>1. field = << >>
    BY <1>1 DEF ExtractField
  <2>2. QED
    BY <2>1 DEF Clean, LogTexts
<1>2. CASE Places(section, marker) # {}
  <2> DEFINE n == Len(section)
             rest == After(section, Min(Places(section, marker)))
             e == IF FieldEnds(rest) = {} THEN Len(rest) ELSE Min(FieldEnds(rest)) - 1
             stretch == SubSeq(rest, 1, e)
  <2>1. n \in Nat /\ DOMAIN section = 1 .. n
    BY LogTextIs
  <2>2. Places(section, marker) \in SUBSET Nat
    BY <2>1 DEF Places
  <2>3. PICK m \in Places(section, marker) :
           m = Min(Places(section, marker)) /\ \A k \in Places(section, marker) : m <= k
    BY <1>2, <2>2, FirstPlace
  <2>4. m \in 1 .. n /\ section[m].kind = marker
    BY <2>1, <2>3 DEF Places
  <2>5. \A k \in 1 .. n : section[k].kind = marker => m <= k
    BY <2>1, <2>3 DEF Places
  <2>6. /\ rest \in LogTexts /\ Len(rest) = n - m
        /\ \A q \in 1 .. n - m : rest[q] = section[m + q]
    <3>1. m + 1 \in 1 .. Len(section) + 1 /\ Len(section) \in (m + 1) - 1 .. Len(section)
      BY <2>1, <2>4
    <3>2. rest = SubSeq(section, m + 1, Len(section))
      BY <2>3 DEF After
    <3>3. /\ rest \in LogTexts /\ Len(rest) = Len(section) - (m + 1) + 1
          /\ \A q \in 1 .. Len(section) - (m + 1) + 1 : rest[q] = section[(m + 1) + q - 1]
      BY <3>1, <3>2, LogPart
    <3>4. Len(section) - (m + 1) + 1 = n - m /\ \A q \in Nat : (m + 1) + q - 1 = m + q
      BY <2>1, <2>4
    <3>5. QED
      BY <2>1, <2>4, <3>3, <3>4
  <2> HIDE DEF rest
  <2>7. e \in 0 .. n - m
    <3>1. CASE FieldEnds(rest) = {}
      BY <2>1, <2>4, <2>6, <3>1
    <3>2. CASE FieldEnds(rest) # {}
      <4>1. FieldEnds(rest) \in SUBSET Nat /\ \A k \in FieldEnds(rest) : k \in 1 .. Len(rest)
        BY <2>6, LogTextIs DEF FieldEnds, Gaps, Places
      <4>2. PICK k \in FieldEnds(rest) : k = Min(FieldEnds(rest))
        BY <3>2, <4>1, FirstPlace
      <4>3. k \in 1 .. n - m
        BY <2>6, <4>1
      <4>4. QED
        BY <2>1, <2>4, <3>2, <4>2, <4>3
    <3>3. QED
      BY <3>1, <3>2
  <2>8. field = Trimmed(stretch)
    BY <1>2 DEF ExtractField, rest
  <2>9. /\ stretch \in LogTexts /\ Len(stretch) = e
        /\ \A q \in 1 .. e : stretch[q] = section[m + q] /\ m + q \in 1 .. n
    <3>1. 1 \in 1 .. Len(rest) + 1 /\ e \in 1 - 1 .. Len(rest)
      BY <2>1, <2>4, <2>6, <2>7
    <3>2. /\ stretch \in LogTexts /\ Len(stretch) = e - 1 + 1
          /\ \A q \in 1 .. e - 1 + 1 : stretch[q] = rest[1 + q - 1]
      BY <2>6, <3>1, LogPart
    <3>3. /\ e - 1 + 1 = e
          /\ \A q \in 1 .. e : 1 + q - 1 = q /\ q \in 1 .. n - m /\ m + q \in 1 .. n
      BY <2>1, <2>4, <2>7
    <3>4. QED
      BY <2>6, <3>2, <3>3
  <2>10. ASSUME NEW r \in 1 .. n, m + 3 <= r, FieldEnds(rest) # {}, Min(FieldEnds(rest)) <= r - 2 - m
         PROVE  e <= r - 3 - m
    <3>1. FieldEnds(rest) \in SUBSET Nat
      BY <2>6, LogTextIs DEF FieldEnds, Gaps, Places
    <3>2. PICK k \in FieldEnds(rest) : k = Min(FieldEnds(rest))
      BY <2>10, <3>1, FirstPlace
    <3>3. e = k - 1 /\ k \in Nat /\ k <= r - 2 - m
      BY <2>10, <3>1, <3>2
    <3>4. QED
      BY <2>1, <2>4, <3>3
  <2> HIDE DEF e, stretch, field
  <2>11. ASSUME NEW q \in 1 .. e, stretch[q].sample
         PROVE  marker = "assistant" /\ section[m + 1].kind = "degenerate" /\ q > 1
    <3>1. m + q \in 1 .. Len(section) /\ section[m + q].sample
      BY <2>9, <2>11
    <3>2. PICK u \in 1 .. Len(section), r \in 1 .. Len(section) : Guards(section, m + q, u, r)
      BY <3>1 DEF Fenced
    <3>3. /\ u \in 1 .. n /\ r \in 1 .. n /\ u + 3 <= r /\ r + 1 < m + q
          /\ section[u].kind = "user" /\ section[r - 2].kind = "break" /\ section[r - 1].kind = "break"
          /\ section[r].kind = "assistant" /\ section[r + 1].kind = "degenerate"
      BY <2>1, <3>2 DEF Guards
    <3>4. ~(m + 3 <= r)
      <4>1. ASSUME m + 3 <= r PROVE FALSE
        <5>1. FieldEnds(rest) # {} /\ Min(FieldEnds(rest)) <= r - 2 - m
          BY <2>4, <2>6, <3>3, <4>1, FieldEndsBefore
        <5>2. e <= r - 3 - m
          BY <2>10, <3>3, <4>1, <5>1
        <5>3. QED
          BY <2>1, <2>4, <2>7, <3>3, <5>2
      <4>2. QED
        BY <4>1
    <3>5. marker = "assistant"
      <4>1. ASSUME marker = "user" PROVE FALSE
        <5>1. m <= u
          BY <2>5, <3>3, <4>1
        <5>2. QED
          BY <2>1, <2>4, <3>3, <3>4, <5>1
      <4>2. QED
        BY <4>1
    <3>6. m <= r /\ m # r - 1 /\ m # r - 2
      BY <2>4, <2>5, <3>3, <3>5
    <3>7. m = r
      BY <2>1, <2>4, <3>3, <3>4, <3>6
    <3>8. q > 1
      BY <2>1, <2>4, <2>7, <3>3, <3>7
    <3>9. QED
      BY <3>3, <3>5, <3>7, <3>8
  <2>12. field \in LogTexts
    BY <2>8, <2>9, TrimmedIs
  <2>13. ASSUME ~Clean(field)
         PROVE  marker = "assistant" /\ field # << >> /\ field[1].kind = "degenerate" /\ Len(field) > 1
    <3>1. PICK i \in 1 .. Len(field) : field[i].sample
      BY <2>13 DEF Clean
    <3>2. field # << >>
      BY <3>1
    <3>3. PICK f \in 1 .. Len(stretch) : \E g \in f .. Len(stretch) :
             /\ Len(field) = g - f + 1
             /\ \A j \in 1 .. g - f + 1 : field[j] = stretch[f + j - 1]
             /\ \A j \in 1 .. Len(stretch) : stretch[j].kind # "break" => f <= j
      BY <2>8, <2>9, <3>2, TrimmedIs
    <3>4. PICK g \in f .. Len(stretch) :
             /\ Len(field) = g - f + 1
             /\ \A j \in 1 .. g - f + 1 : field[j] = stretch[f + j - 1]
             /\ \A j \in 1 .. Len(stretch) : stretch[j].kind # "break" => f <= j
      BY <3>3
    <3>5. e \in Nat /\ f \in 1 .. e /\ g \in f .. e /\ f + i - 1 \in 1 .. e /\ i \in 1 .. g - f + 1
      BY <2>1, <2>4, <2>7, <2>9, <3>1, <3>4
    <3>6. stretch[f + i - 1].sample
      BY <3>1, <3>4, <3>5
    <3>7. marker = "assistant" /\ section[m + 1].kind = "degenerate" /\ f + i - 1 > 1
      BY <2>11, <3>5, <3>6
    <3>8. 1 \in 1 .. e /\ stretch[1].kind = "degenerate"
      BY <2>9, <3>5, <3>7
    <3>9. f = 1
      BY <2>9, <3>4, <3>5, <3>8
    <3>10. i > 1 /\ Len(field) > 1
      BY <3>1, <3>4, <3>5, <3>7, <3>9
    <3>11. field[1] = stretch[1]
      <4>1. 1 \in 1 .. g - f + 1 /\ f + 1 - 1 = 1
        BY <3>5, <3>9
      <4>2. QED
        BY <3>4, <4>1
    <3>12. QED
      BY <3>2, <3>7, <3>8, <3>10, <3>11
  <2>14. QED
    BY <2>12, <2>13 DEF field
<1>3. QED
  BY <1>1, <1>2

LEMMA CompressedIsClean ==
    ASSUME SessionAssumption, NEW text \in LogTexts, Clean(text)
    PROVE  CompressAssistant(text) \in LogTexts /\ Clean(CompressAssistant(text))
<1> DEFINE kept == SubSeq(text, 1, MaxPriorAnswer - 1)
           stop == IF Places(kept, "stop") = {} THEN Len(kept) ELSE Max(Places(kept, "stop"))
<1>1. CASE Len(text) <= MaxPriorAnswer
  BY <1>1 DEF CompressAssistant
<1>2. CASE ~(Len(text) <= MaxPriorAnswer)
  <2>1. MaxPriorAnswer - 1 \in 0 .. Len(text)
    <3>1. Len(text) \in Nat /\ MaxPriorAnswer \in Nat \ {0}
      BY LogTextIs DEF SessionAssumption
    <3>2. QED
      BY <1>2, <3>1
  <2>2. kept \in LogTexts /\ Clean(kept)
    BY <2>1, CleanPart
  <2>3. CompressAssistant(text) = Trimmed(SubSeq(kept, 1, stop))
    BY <1>2 DEF CompressAssistant
  <2> HIDE DEF kept
  <2>4. stop \in 0 .. Len(kept)
    <3>1. Len(kept) \in Nat /\ DOMAIN kept = 1 .. Len(kept)
      BY <2>2, LogTextIs
    <3>2. CASE Places(kept, "stop") = {}
      BY <3>1, <3>2
    <3>3. CASE Places(kept, "stop") # {}
      <4>1. Places(kept, "stop") \in SUBSET Nat /\ \A k \in Places(kept, "stop") : k \in 1 .. Len(kept)
        BY <3>1 DEF Places
      <4>2. \A k \in Places(kept, "stop") : k <= Len(kept)
        BY <3>1, <4>1
      <4>3. Max(Places(kept, "stop")) \in Places(kept, "stop")
        BY <3>1, <3>3, <4>1, <4>2, MaxOfBounded
      <4>4. stop \in 1 .. Len(kept)
        BY <3>3, <4>1, <4>3
      <4>5. QED
        BY <3>1, <4>4
    <3>4. QED
      BY <3>2, <3>3
  <2> HIDE DEF stop
  <2>5. SubSeq(kept, 1, stop) \in LogTexts /\ Clean(SubSeq(kept, 1, stop))
    BY <2>2, <2>4, CleanPart
  <2>6. QED
    BY <2>3, <2>5, CleanTrimmed
<1>3. QED
  BY <1>1, <1>2

CleanTurn(turn) == Clean(turn.user) /\ Clean(turn.answer)
LoggedTurns == [user : LogTexts, answer : LogTexts]

LEMMA TurnIsClean ==
    ASSUME SessionAssumption, NEW section \in LogTexts, Fenced(section)
    PROVE  TurnOf(section) \in LoggedTurns /\ CleanTurn(TurnOf(section))
<1> DEFINE asked == ExtractField(section, "user")
           raw == ExtractField(section, "assistant")
<1>1. asked \in LogTexts /\ Clean(asked)
  <2>1. "user" \in {"user", "assistant"} /\ "user" # "assistant"
    OBVIOUS
  <2>2. QED
    BY <2>1, FieldIsClean
<1>2. /\ raw \in LogTexts
      /\ Clean(raw) \/ (raw # << >> /\ raw[1].kind = "degenerate" /\ Len(raw) > 1)
  <2>1. "assistant" \in {"user", "assistant"}
    OBVIOUS
  <2>2. QED
    BY <2>1, FieldIsClean
<1>3. TurnOf(section) = [user |-> asked, answer |-> AnswerKept(raw)]
  BY DEF TurnOf
<1> HIDE DEF asked, raw
<1>4. AnswerKept(raw) \in LogTexts /\ Clean(AnswerKept(raw))
  <2>1. CASE raw = << >> \/ (raw[1].kind = "degenerate" /\ Len(raw) > 1)
    <3>1. AnswerKept(raw) = << >>
      BY <2>1 DEF AnswerKept
    <3>2. QED
      BY <3>1 DEF Clean, LogTexts
  <2>2. CASE ~(raw = << >> \/ (raw[1].kind = "degenerate" /\ Len(raw) > 1))
    <3>1. AnswerKept(raw) = CompressAssistant(raw) /\ Clean(raw)
      BY <1>2, <2>2 DEF AnswerKept
    <3>2. QED
      BY <1>2, <3>1, CompressedIsClean
  <2>3. QED
    BY <2>1, <2>2
<1>5. QED
  BY <1>1, <1>3, <1>4 DEF LoggedTurns, CleanTurn

-----------------------------------------------------------------------------
SessionTypeOK ==
    /\ sessionDir \in Seq(LogTexts) /\ sessionDir # << >>
    /\ loading \in BOOLEAN /\ unread \subseteq DOMAIN sessionDir /\ openFile \in {0} \cup DOMAIN sessionDir
    /\ priorStubs \in Seq(LoggedTurns)
    /\ openFile = 0 => readFrom = 0
    /\ openFile # 0 => loading /\ (readFrom = 0 \/ readFrom \in SectionStarts(sessionDir[openFile]))

SessionInv ==
    /\ SessionTypeOK
    /\ \A f \in DOMAIN sessionDir : Guarded(sessionDir[f])
    /\ \A k \in DOMAIN priorStubs : CleanTurn(priorStubs[k])

LEMMA DirIs ==
    ASSUME SessionTypeOK
    PROVE  /\ Len(sessionDir) \in Nat \ {0} /\ DOMAIN sessionDir = 1 .. Len(sessionDir)
           /\ \A f \in 1 .. Len(sessionDir) : sessionDir[f] \in LogTexts
<1>1. sessionDir \in Seq(LogTexts) /\ sessionDir # << >>
  BY DEF SessionTypeOK
<1>2. Len(sessionDir) \in Nat /\ DOMAIN sessionDir = 1 .. Len(sessionDir)
  BY <1>1, LenProperties
<1>3. \A f \in 1 .. Len(sessionDir) : sessionDir[f] \in LogTexts
  BY <1>1, ElementOfSeq
<1>4. Len(sessionDir) # 0
  BY <1>1, EmptySeq
<1>5. QED
  BY <1>2, <1>3, <1>4

LEMMA SessionStarts == SessionInit => SessionInv
<1> SUFFICES ASSUME SessionInit PROVE SessionInv
  OBVIOUS
<1>1. << >> \in LogTexts /\ Guarded(<< >>)
  BY DEF LogTexts, Guarded
<1>2. sessionDir = <<<< >>>> /\ sessionDir # << >>
  BY DEF SessionInit
<1>3. sessionDir \in Seq(LogTexts) /\ DOMAIN sessionDir = {1} /\ sessionDir[1] = << >>
  BY <1>1, <1>2
<1>4. priorStubs = << >> /\ priorStubs \in Seq(LoggedTurns) /\ DOMAIN priorStubs = {}
  BY DEF SessionInit
<1>5. SessionTypeOK
  BY <1>2, <1>3, <1>4 DEF SessionInit, SessionTypeOK
<1>6. QED
  BY <1>1, <1>3, <1>4, <1>5 DEF SessionInv

LEMMA TurnTextsAreGuarded ==
    ASSUME SessionAssumption, NEW user \in Queries, NEW text \in TurnTexts(user)
    PROVE  text \in LogTexts /\ Guarded(text)
<1>1. user \in Seq(TokenKinds)
  BY DEF SessionAssumption
<1>2. CASE \E reply \in Answers : text = TurnText(user, Marked(reply, FALSE))
  <2>1. PICK reply \in Answers : text = TurnText(user, Marked(reply, FALSE))
    BY <1>2
  <2>2. reply \in Seq(TokenKinds) /\ FALSE \in BOOLEAN
    BY DEF SessionAssumption
  <2>3. /\ Marked(reply, FALSE) \in LogTexts
        /\ \A i \in 1 .. Len(Marked(reply, FALSE)) : ~Marked(reply, FALSE)[i].sample
    BY <2>2, MarkedIs
  <2>4. QED
    BY <1>1, <2>1, <2>3, PlainTurnIsGuarded
<1>3. CASE \E sample \in Samples : text = DegenerateTurn(user, sample)
  <2>1. PICK sample \in Samples : text = DegenerateTurn(user, sample)
    BY <1>3
  <2>2. sample \in Seq(TokenKinds)
    BY DEF SessionAssumption
  <2>3. QED
    BY <1>1, <2>1, <2>2, DegenerateTurnIsGuarded
<1>4. QED
  BY <1>2, <1>3 DEF TurnTexts

LEMMA LogTurn_Inv ==
    ASSUME SessionAssumption, SessionInv, LogTurn
    PROVE  SessionInv'
<1> DEFINE n == Len(sessionDir)
<1>1. /\ n \in Nat \ {0} /\ DOMAIN sessionDir = 1 .. n /\ \A f \in 1 .. n : sessionDir[f] \in LogTexts
      /\ sessionDir \in Seq(LogTexts) /\ \A f \in 1 .. n : Guarded(sessionDir[f])
  <2>1. SessionTypeOK /\ \A f \in DOMAIN sessionDir : Guarded(sessionDir[f])
    BY DEF SessionInv
  <2>2. QED
    BY <2>1, DirIs DEF SessionTypeOK
<1>2. PICK user \in Queries : \E text \in TurnTexts(user) : \E written \in Remains(text) :
         sessionDir' = [sessionDir EXCEPT ![Len(sessionDir)] = @ \o written]
  BY DEF LogTurn
<1>3. PICK text \in TurnTexts(user) : \E written \in Remains(text) :
         sessionDir' = [sessionDir EXCEPT ![Len(sessionDir)] = @ \o written]
  BY <1>2
<1>4. PICK written \in Remains(text) : sessionDir' = [sessionDir EXCEPT ![Len(sessionDir)] = @ \o written]
  BY <1>3
<1>5. written \in LogTexts /\ Guarded(written)
  BY TurnTextsAreGuarded, PartIsGuarded
<1> DEFINE grown == sessionDir[n] \o written
<1>6. grown \in LogTexts /\ Guarded(grown)
  <2>1. sessionDir[n] \in LogTexts /\ Guarded(sessionDir[n])
    BY <1>1
  <2>2. QED
    BY <1>5, <2>1, LogJoined, JoinIsGuarded
<1>7. sessionDir' = [sessionDir EXCEPT ![n] = grown]
  BY <1>4
<1> HIDE DEF grown, n
<1>8. /\ DOMAIN sessionDir' = 1 .. n /\ sessionDir'[n] = grown
      /\ \A f \in 1 .. n : f # n => sessionDir'[f] = sessionDir[f]
  BY <1>1, <1>7
<1>9. sessionDir' \in Seq(LogTexts) /\ sessionDir' # << >>
  <2>1. \A f \in 1 .. n : sessionDir'[f] \in LogTexts
    BY <1>1, <1>6, <1>8
  <2>2. sessionDir' \in [1 .. n -> LogTexts]
    BY <1>1, <1>7, <2>1
  <2>3. sessionDir' \in Seq(LogTexts)
    BY <1>1, <2>2, SeqDef
  <2>4. 1 \in DOMAIN sessionDir'
    BY <1>1, <1>8
  <2>5. QED
    BY <2>3, <2>4
<1>10. \A f \in DOMAIN sessionDir' : Guarded(sessionDir'[f])
  BY <1>1, <1>6, <1>8
<1>11. UNCHANGED <<loading, unread, openFile, readFrom, priorStubs>> /\ openFile = 0
  BY DEF LogTurn, SessionInv, SessionTypeOK
<1>12. SessionTypeOK'
  <2>1. /\ loading \in BOOLEAN /\ unread \subseteq DOMAIN sessionDir /\ readFrom = 0
        /\ priorStubs \in Seq(LoggedTurns)
    BY <1>11 DEF SessionInv, SessionTypeOK
  <2>2. DOMAIN sessionDir' = DOMAIN sessionDir
    BY <1>1, <1>8
  <2>3. QED
    BY <1>9, <1>11, <2>1, <2>2 DEF SessionTypeOK
<1>13. QED
  BY <1>10, <1>11, <1>12 DEF SessionInv, CleanTurn, Clean

LEMMA StartSession_Inv ==
    ASSUME SessionInv, StartSession
    PROVE  SessionInv'
<1> DEFINE n == Len(sessionDir)
<1>1. /\ n \in Nat \ {0} /\ DOMAIN sessionDir = 1 .. n /\ \A f \in 1 .. n : sessionDir[f] \in LogTexts
      /\ sessionDir \in Seq(LogTexts) /\ \A f \in 1 .. n : Guarded(sessionDir[f])
  <2>1. SessionTypeOK /\ \A f \in DOMAIN sessionDir : Guarded(sessionDir[f])
    BY DEF SessionInv
  <2>2. QED
    BY <2>1, DirIs DEF SessionTypeOK
<1>2. << >> \in LogTexts /\ Guarded(<< >>)
  BY DEF LogTexts, Guarded
<1>3. sessionDir' = Append(sessionDir, << >>)
  BY DEF StartSession
<1>4. /\ sessionDir' \in Seq(LogTexts) /\ DOMAIN sessionDir' = 1 .. n + 1
      /\ \A f \in 1 .. n : sessionDir'[f] = sessionDir[f]
      /\ sessionDir'[n + 1] = << >>
  BY <1>1, <1>2, <1>3, AppendProperties
<1> HIDE DEF n
<1>5. \A f \in 1 .. n + 1 : f = n + 1 \/ f \in 1 .. n
  BY <1>1
<1>6. \A f \in DOMAIN sessionDir' : Guarded(sessionDir'[f])
  BY <1>1, <1>2, <1>4, <1>5
<1>7. sessionDir' # << >> /\ DOMAIN sessionDir \subseteq DOMAIN sessionDir'
  <2>1. n + 1 \in DOMAIN sessionDir' /\ 1 .. n \subseteq 1 .. n + 1
    BY <1>1, <1>4
  <2>2. QED
    BY <1>1, <1>4, <2>1
<1>8. /\ loading' = TRUE /\ unread' = DOMAIN sessionDir /\ openFile' = 0 /\ readFrom' = 0
      /\ priorStubs' = << >>
  BY DEF StartSession
<1>9. priorStubs' \in Seq(LoggedTurns) /\ DOMAIN priorStubs' = {}
  BY <1>8
<1>10. SessionTypeOK'
  BY <1>4, <1>7, <1>8, <1>9 DEF SessionTypeOK
<1>11. QED
  BY <1>6, <1>9, <1>10 DEF SessionInv

LEMMA OpenFile_Inv ==
    ASSUME SessionInv, OpenFile
    PROVE  SessionInv'
<1>1. UNCHANGED <<sessionDir, loading, readFrom, priorStubs>> /\ loading /\ openFile = 0
  BY DEF OpenFile
<1>2. PICK name \in unread : unread' = unread \ {name} /\ openFile' \in {0, name}
  BY DEF OpenFile
<1>3. SessionTypeOK /\ readFrom = 0 /\ unread \subseteq DOMAIN sessionDir
  BY <1>1 DEF SessionInv, SessionTypeOK
<1>4. SessionTypeOK'
  BY <1>1, <1>2, <1>3 DEF SessionTypeOK
<1>5. QED
  BY <1>1, <1>4 DEF SessionInv, Guarded, Guards, Uncut, SectionStarts, Places, CleanTurn, Clean

LEMMA ReadSection_Inv ==
    ASSUME SessionAssumption, SessionInv, ReadSection
    PROVE  SessionInv'
<1> DEFINE text == sessionDir[openFile]
           next == Later(text)
           turn == TurnOf(Section(text))
<1>1. SessionTypeOK /\ openFile \in DOMAIN sessionDir /\ loading
  BY DEF SessionInv, SessionTypeOK, ReadSection
<1>2. /\ text \in LogTexts /\ Guarded(text)
      /\ readFrom = 0 \/ readFrom \in SectionStarts(text)
  BY <1>1, DirIs DEF SessionInv, SessionTypeOK, ReadSection
<1>3. UNCHANGED <<sessionDir, loading, unread>>
  BY DEF ReadSection
<1>4. priorStubs' = priorStubs \/ priorStubs' = Append(priorStubs, turn)
  BY DEF ReadSection
<1>5. /\ readFrom' = IF next = {} THEN 0 ELSE Min(next)
      /\ openFile' = IF next = {} THEN 0 ELSE openFile
  BY DEF ReadSection
<1> HIDE DEF text
<1>6. turn \in LoggedTurns /\ CleanTurn(turn)
  <2>1. Section(text) \in LogTexts /\ Fenced(Section(text))
    BY <1>2, SectionIsFenced
  <2>2. QED
    BY <2>1, TurnIsClean
<1> HIDE DEF turn
<1>7. next # {} => Min(next) \in SectionStarts(text)
  <2>1. next \in SUBSET Nat /\ next \subseteq SectionStarts(text)
    BY <1>2, StartsAre DEF Later
  <2>2. QED
    BY <2>1, FirstPlace
<1> HIDE DEF next
<1>8. priorStubs \in Seq(LoggedTurns) /\ \A k \in DOMAIN priorStubs : CleanTurn(priorStubs[k])
  BY DEF SessionInv, SessionTypeOK
<1>9. priorStubs' \in Seq(LoggedTurns) /\ \A k \in DOMAIN priorStubs' : CleanTurn(priorStubs'[k])
  <2>1. CASE priorStubs' = priorStubs
    BY <1>8, <2>1
  <2>2. CASE priorStubs' = Append(priorStubs, turn)
    <3>1. Len(priorStubs) \in Nat /\ DOMAIN priorStubs = 1 .. Len(priorStubs)
      BY <1>8, LenProperties
    <3>2. /\ priorStubs' \in Seq(LoggedTurns) /\ DOMAIN priorStubs' = 1 .. Len(priorStubs) + 1
          /\ \A k \in 1 .. Len(priorStubs) : priorStubs'[k] = priorStubs[k]
          /\ priorStubs'[Len(priorStubs) + 1] = turn
      BY <1>6, <1>8, <2>2, <3>1, AppendProperties
    <3>3. \A k \in 1 .. Len(priorStubs) + 1 : k = Len(priorStubs) + 1 \/ k \in 1 .. Len(priorStubs)
      BY <3>1
    <3>4. QED
      BY <1>6, <1>8, <3>1, <3>2, <3>3
  <2>3. QED
    BY <1>4, <2>1, <2>2
<1>10. SessionTypeOK'
  <2>1. /\ sessionDir' = sessionDir /\ sessionDir \in Seq(LogTexts) /\ sessionDir # << >>
        /\ loading' /\ loading' \in BOOLEAN /\ unread' \subseteq DOMAIN sessionDir'
    BY <1>1, <1>3 DEF SessionTypeOK
  <2>2. CASE next = {}
    BY <1>5, <1>9, <2>1, <2>2 DEF SessionTypeOK
  <2>3. CASE next # {}
    <3>1. openFile' = openFile /\ readFrom' \in SectionStarts(sessionDir'[openFile']) /\ openFile # 0
      <4>1. openFile # 0
        BY DEF ReadSection
      <4>2. QED
        BY <1>3, <1>5, <1>7, <2>3, <4>1 DEF text
    <3>2. QED
      BY <1>1, <1>9, <2>1, <3>1 DEF SessionTypeOK
  <2>4. QED
    BY <2>2, <2>3
<1>11. \A f \in DOMAIN sessionDir' : Guarded(sessionDir'[f])
  BY <1>3 DEF SessionInv
<1>12. QED
  BY <1>9, <1>10, <1>11 DEF SessionInv

LEMMA SessionSteps ==
    ASSUME SessionAssumption, SessionInv, [SessionNext]_logVars
    PROVE  SessionInv'
<1>1. CASE LogTurn
  BY <1>1, LogTurn_Inv
<1>2. CASE StartSession
  BY <1>2, StartSession_Inv
<1>3. CASE OpenFile
  BY <1>3, OpenFile_Inv
<1>4. CASE ReadSection
  BY <1>4, ReadSection_Inv
<1>5. CASE EndLoad
  <2>1. UNCHANGED <<sessionDir, unread, openFile, readFrom, priorStubs>> /\ loading' = FALSE /\ openFile = 0
    BY <1>5 DEF EndLoad
  <2>2. SessionTypeOK'
    BY <2>1 DEF SessionInv, SessionTypeOK
  <2>3. QED
    BY <2>1, <2>2 DEF SessionInv
<1>6. CASE UNCHANGED logVars
  BY <1>6 DEF logVars, SessionInv, SessionTypeOK
<1>7. QED
  BY <1>1, <1>2, <1>3, <1>4, <1>5, <1>6 DEF SessionNext

(* The sample of a degenerate answer never reaches a later session,        *)
(* whatever is asked, answered and cut short: session.rs.                  *)
THEOREM SamplesStayOut == SessionSpec => []DegenerateStaysOut
<1>1. SessionInv => DegenerateStaysOut
  <2> SUFFICES ASSUME SessionInv, NEW k \in DOMAIN priorStubs, NEW text \in {priorStubs[k].user, priorStubs[k].answer},
                      NEW i \in DOMAIN text
               PROVE  ~text[i].sample
    BY DEF DegenerateStaysOut
  <2>1. priorStubs[k] \in LoggedTurns /\ CleanTurn(priorStubs[k])
    BY LenProperties, ElementOfSeq DEF SessionInv, SessionTypeOK
  <2>2. text \in LogTexts /\ Clean(text)
    BY <2>1 DEF LoggedTurns, CleanTurn
  <2>3. i \in 1 .. Len(text)
    BY <2>2, LogTextIs
  <2>4. QED
    BY <2>2, <2>3 DEF Clean
<1>2. QED
  BY <1>1, SessionStarts, SessionSteps, SessionAssumption, PTL DEF SessionSpec
=============================================================================
