----------------------------- MODULE PagerProofs -----------------------------
(***************************************************************************)
(* Pager for every number of pages, of transactions, savepoints, I/O       *)
(* errors and power losses.  The first part is about savepoints: a         *)
(* rollback gives back the image that the two journals preserve.  The      *)
(* second part is about transactions: under the settings of                *)
(* PagerInvariant!Protected they are atomic, since every step takes each   *)
(* phase of the invariant to a phase.  The last part is about durability.  *)
(***************************************************************************)
EXTENDS PagerInvariant

-----------------------------------------------------------------------------
(* A rollback to a savepoint.                                              *)

\* Every record of a rollback comes from one of the two journals.
LEMMA SourcesAre ==
    ASSUME NEW i \in Nat, Replayable(i), NEW size \in Nat
    PROVE  \A r \in FirstRecords(Replay(i), size) :
              /\ r \in ReplayRecord /\ r.pg <= size
              /\ FromJournal(i, r) \/ \E j \in 1 .. Len(subJournal) : FromSubJournal(i, r, j)
<1> DEFINE list == Replay(i)
           m == Skip(i)
           n == Len(subJournal)
<1>1. PICK M \in Nat :
         /\ list \in Seq(ReplayRecord) /\ Len(list) = M + n - m
         /\ \A k \in 1 .. M : FromJournal(i, list[k])
         /\ \A j \in m + 1 .. n : FromSubJournal(i, list[M + j - m], j)
  BY ReplayIs
<1>2. m \in Nat /\ n \in Nat
  <2>1. subJournal \in Seq(SubRecord) /\ savepoint \in Seq(Savepoint)
    BY DEF Replayable
  <2>2. i # 0 => savepoint[i] \in Savepoint
    BY <2>1 DEF Replayable
  <2> QED
    BY <2>1, <2>2 DEF Skip, Savepoint
<1> HIDE DEF list, m, n
<1>3. ASSUME NEW r \in FirstRecords(list, size)
      PROVE  /\ r \in ReplayRecord /\ r.pg <= size
             /\ FromJournal(i, r) \/ \E j \in 1 .. n : FromSubJournal(i, r, j)
  <2> HIDE DEF ReplayRecord
  <2>1. PICK k \in 1 .. Len(list) : r = list[k] /\ r.pg <= size
    BY <1>1, FirstRecordsAre
  <2>2. r \in ReplayRecord
    BY <1>1, <2>1
  <2>3. CASE k <= M
    BY <1>1, <2>1, <2>2, <2>3
  <2>4. CASE ~(k <= M)
    <3> PICK j : j = k - M + m
      OBVIOUS
    <3>1. j \in m + 1 .. n /\ j \in 1 .. n /\ M + j - m = k
      BY <1>1, <1>2, <2>1, <2>4
    <3>2. FromSubJournal(i, list[M + j - m], j)
      BY <1>1, <3>1
    <3>3. FromSubJournal(i, r, j)
      BY <2>1, <3>1, <3>2
    <3> QED
      BY <2>1, <2>2, <3>1, <3>3
  <2> QED
    BY <2>3, <2>4
<1> QED
  BY <1>3 DEF list, n

\* A page that is not cached is written to the file: its record is in the synced
\* part of the journal, or the page did not need a sync.
LEMMA UncachedAreWritten ==
    ASSUME Types, NEW c \in BOOLEAN, Preserving(c), NEW i \in 0 .. Len(savepoint),
           AtRest \/ call.at = "failedWrite", eState \in Modified,
           NEW r \in ReplayRecord, cache[r.pg] = NotCached,
           FromJournal(i, r) \/ \E j \in 1 .. Len(subJournal) : FromSubJournal(i, r, j)
    PROVE  WritesToDb(r)
<1>1. PICK B \in Images : Keeping(B)
  BY RestsAt DEF Changing, Modified
<1>2. /\ \A p \in needSync : cache[p] # NotCached
      /\ \A k \in journalHdr + 2 .. journalOff : jrnl[k].pg \in needSync
      /\ eState = "WRITER_CACHEMOD" =>
            journalHdr = 0 /\ \A j \in 1 .. Len(subJournal) : cache[subJournal[j].pg] # NotCached
  BY <1>1 DEF Keeping, Modified, PagesLogged
<1>3. LaidOut(jrnl, journalOff, journalHdr) /\ journalHdr \in Nat /\ journalOff \in Nat
  BY RestsAt, FilesAre
<1>4. jrnl[journalHdr + 1].kind = "hdr"
  BY <1>3 DEF LaidOut
<1>5. Start(i) \in Nat /\ 1 <= Start(i)
  <2>1. Nested(savepoint, dbOrigSize, dbSize, Len(subJournal))
    BY <1>1 DEF Keeping
  <2>2. i # 0 => i \in 1 .. Len(savepoint)
    BY <2>1, NestedIs
  <2> QED
    BY <2>1, <2>2, NestedIs DEF Start
<1>6. CASE FromJournal(i, r)
  <2>1. /\ r.main /\ r.pos \in Start(i) + 1 .. journalOff
        /\ jrnl[r.pos].kind = "rec" /\ jrnl[r.pos].pg = r.pg
    BY <1>6 DEF FromJournal
  <2>2. r.pos \notin journalHdr + 2 .. journalOff
    BY <1>2, <2>1
  <2>3. r.pos # journalHdr + 1
    BY <1>4, <2>1
  <2>4. r.pos <= journalHdr /\ 2 <= r.pos /\ r.pos \in Nat
    BY <1>3, <1>5, <2>1, <2>2, <2>3
  <2>5. eState = "WRITER_DBMOD"
    <3>1. eState = "WRITER_CACHEMOD" => r.pos <= 0
      BY <1>2, <2>4
    <3>2. ~(r.pos <= 0)
      BY <2>4
    <3> QED
      BY <3>1, <3>2 DEF Modified
  <2> QED
    BY <2>1, <2>4, <2>5 DEF WritesToDb, MayWriteDb, isSynced
<1>7. CASE \E j \in 1 .. Len(subJournal) : FromSubJournal(i, r, j)
  <2>1. PICK j \in 1 .. Len(subJournal) : FromSubJournal(i, r, j)
    BY <1>7
  <2>2. ~r.main /\ cache[subJournal[j].pg] = NotCached
    BY <2>1 DEF FromSubJournal
  <2>3. eState = "WRITER_DBMOD"
    BY <1>2, <2>2 DEF Modified
  <2> QED
    BY <2>2, <2>3 DEF WritesToDb, MayWriteDb
<1> QED
  BY <1>6, <1>7

\* The contents of the pages, and what stays, after such records are played back.
LEMMA PlayedPages ==
    ASSUME Types, NEW records \in SUBSET ReplayRecord, OneEach(records), NEW open \in Seq(Savepoint),
           Played(records, open, {}), dbSize' \in Nat, dbSize' <= dbSize,
           \A r \in records : cache[r.pg] = NotCached => WritesToDb(r)
    PROVE  /\ \A r \in records : r.pg <= dbSize' => Contents'[r.pg] = r.val
           /\ \A p \in 1 .. dbSize' : (\A r \in records : r.pg # p) => Contents'[p] = Contents[p]
           /\ \A p \in Page : cache[p] # NotCached => cache'[p] # NotCached
           /\ dirty' = dirty /\ inJournal' = inJournal
           /\ Len(savepoint') = Len(open) /\ \A k \in 1 .. Len(open) : savepoint'[k] = open[k]
<1> HIDE DEF WritesToDb
<1>1. Added(records) = {}
  BY DEF Added
<1>2. /\ \A r \in records : r.pg \in PagesIn(records) /\ RecordOf(records, r.pg) = r
      /\ \A p \in PagesIn(records) : RecordOf(records, p) \in records /\ RecordOf(records, p).pg = p
      /\ PagesIn(records) \subseteq Page
      /\ Overwritten(records) \subseteq PagesIn(records)
  BY RecordsAre
<1>3. /\ Len(db') \in Nat /\ Len(db) \in Nat /\ Len(db) <= Len(db')
      /\ \A p \in Overwritten(records) : p <= Len(db')
      /\ \A p \in 1 .. Len(db') :
            db'[p] = IF p \in Overwritten(records) THEN RecordOf(records, p).val
                     ELSE IF p <= Len(db) THEN db[p] ELSE 0
      /\ \A p \in Page :
            cache'[p] = IF p \in PagesIn(records) /\ cache[p] # NotCached
                        THEN RecordOf(records, p).val ELSE cache[p]
      /\ dirty' = dirty /\ inJournal' = inJournal
      /\ Len(savepoint') = Len(open)
      /\ \A k \in 1 .. Len(open) :
            savepoint'[k] = [open[k] EXCEPT !.inSavepoint = @ \cup {p \in {} : p <= open[k].nOrig}]
  <2>1. {} \in SUBSET Page
    OBVIOUS
  <2>2. /\ db' \in Images /\ Len(db) <= Len(db')
        /\ \A p \in Overwritten(records) \cup {} : p <= Len(db')
        /\ \A p \in 1 .. Len(db') :
              db'[p] = IF p \in {} THEN Torn
                       ELSE IF p \in Overwritten(records) THEN RecordOf(records, p).val
                       ELSE IF p <= Len(db) THEN db[p] ELSE 0
        /\ \A p \in Page :
              cache'[p] = IF p \in PagesIn(records) /\ (cache[p] # NotCached \/ p \in Added(records))
                          THEN RecordOf(records, p).val ELSE cache[p]
        /\ dirty' = dirty \cup Added(records)
        /\ inJournal' = inJournal \cup {p \in Added(records) : p <= dbOrigSize}
        /\ Len(savepoint') = Len(open)
        /\ \A k \in 1 .. Len(open) :
              savepoint'[k] = [open[k] EXCEPT !.inSavepoint = @ \cup {p \in Added(records) : p <= open[k].nOrig}]
    BY <2>1, PlayedIs
  <2>3. Len(db') \in Nat /\ Len(db) \in Nat
    BY <2>2, FilesAre DEF Images
  <2> QED
    BY <1>1, <2>2, <2>3
<1>4. \A r \in records : r.pg \in Page /\ r.val # NotCached
  <2> SUFFICES ASSUME NEW r \in records PROVE r.pg \in Page /\ r.val # NotCached
    OBVIOUS
  <2>1. r.pg \in Page /\ r.val \in Content
    BY DEF ReplayRecord
  <2>2. NotCached \notin Content
    BY <2>1, PageContentIs
  <2> QED
    BY <2>1, <2>2
<1>5. \A p \in Page : cache[p] # NotCached => cache'[p] # NotCached
  BY <1>2, <1>3, <1>4
<1>6. \A p \in Page : Contents'[p] = PageContent(p)' /\ Contents[p] = PageContent(p)
  BY DEF Contents
<1>7. ASSUME NEW r \in records, r.pg <= dbSize' PROVE Contents'[r.pg] = r.val
  <2> PICK p : p = r.pg
    OBVIOUS
  <2>1. p \in Page /\ p \in PagesIn(records) /\ RecordOf(records, p) = r /\ p \in Nat \ {0}
    BY <1>2, <1>4 DEF Page
  <2>2. CASE cache[p] # NotCached
    <3>1. cache'[p] = r.val
      BY <1>3, <2>1, <2>2
    <3>2. PageContent(p)' = r.val
      BY <1>4, <3>1 DEF PageContent
    <3> QED
      BY <1>6, <2>1, <3>2
  <2>3. CASE cache[p] = NotCached
    <3>1. cache'[p] = NotCached
      BY <1>3, <2>1, <2>3
    <3>2. p \in Overwritten(records)
      BY <2>3 DEF Overwritten
    <3>3. p \in 1 .. Len(db') /\ p <= Len(db')
      BY <1>3, <2>1, <3>2
    <3>4. db'[p] = r.val
      BY <1>3, <2>1, <3>2, <3>3
    <3>5. PageContent(p)' = r.val
      BY <1>7, <3>1, <3>3, <3>4 DEF PageContent
    <3> QED
      BY <1>6, <2>1, <3>5
  <2> QED
    BY <2>2, <2>3
<1>8. ASSUME NEW p \in 1 .. dbSize', \A r \in records : r.pg # p PROVE Contents'[p] = Contents[p]
  <2>1. p \notin PagesIn(records)
    BY <1>8 DEF PagesIn
  <2>2. p \notin Overwritten(records)
    BY <1>2, <2>1
  <2>3. p \in Page /\ p <= dbSize' /\ p <= dbSize /\ p \in Nat \ {0}
    <3>1. dbSize \in Nat /\ 1 .. dbSize \subseteq Page
      BY ContentsAre
    <3> QED
      BY <3>1
  <2>4. cache'[p] = cache[p]
    BY <1>3, <2>1, <2>3
  <2>5. (IF p <= Len(db') /\ p <= dbSize' THEN db'[p] ELSE 0) = (IF p <= Len(db) /\ p <= dbSize THEN db[p] ELSE 0)
    <3>1. CASE p <= Len(db')
      <4>1. p \in 1 .. Len(db')
        BY <1>3, <2>3, <3>1
      <4>2. db'[p] = IF p <= Len(db) THEN db[p] ELSE 0
        BY <1>3, <2>2, <4>1
      <4> QED
        BY <2>3, <3>1, <4>2
    <3>2. CASE ~(p <= Len(db'))
      <4>1. ~(p <= Len(db))
        BY <1>3, <2>3, <3>2
      <4> QED
        BY <3>2, <4>1
    <3> QED
      BY <3>1, <3>2
  <2>6. PageContent(p)' = PageContent(p)
    BY <2>4, <2>5 DEF PageContent
  <2> QED
    BY <1>6, <2>3, <2>6
<1>9. ASSUME NEW k \in 1 .. Len(open) PROVE savepoint'[k] = open[k]
  <2>1. open[k] \in Savepoint
    OBVIOUS
  <2>2. [open[k] EXCEPT !.inSavepoint = @ \cup {p \in {} : p <= open[k].nOrig}] = open[k]
    BY <2>1 DEF Savepoint
  <2> QED
    BY <1>3, <2>2
<1> QED
  BY <1>3, <1>5, <1>7, <1>8, <1>9

\* A rollback to a savepoint that returns gives every page back what the journals
\* log of it, and leaves the other pages alone.
LEMMA RollbackRestores ==
    ASSUME Types, NEW c \in BOOLEAN, Preserving(c), NEW i \in 0 .. Len(savepoint),
           RollbackSavepoint(i), call'.at # "failed"
    PROVE  /\ \A p \in 1 .. SizeOf(i) : \A v :
                 Logs(jrnl, journalOff, subJournal, Start(i), Skip(i), p, v) => Contents'[p] = v
           /\ \A p \in 1 .. SizeOf(i) :
                 LogsNot(jrnl, journalOff, subJournal, Start(i), Skip(i), p) => Contents'[p] = Contents[p]
           /\ \A p \in Page : cache[p] # NotCached => cache'[p] # NotCached
           /\ dirty' = dirty /\ inJournal' = inJournal
           /\ Len(savepoint') = Len(Staying(i)) /\ \A k \in 1 .. Len(Staying(i)) : savepoint'[k] = Staying(i)[k]
           /\ call'.at = "restored" /\ call'.op = "none"
<1>1. /\ AtRest \/ call.at = "failedWrite"
      /\ eState \in Changing /\ dbSize' = SizeOf(i)
  BY RollbackLeaves
<1>2. /\ Played(FirstRecords(Playback(i), SizeOf(i)), Staying(i), {})
      /\ call'.at = "restored" /\ call'.op = "none"
  <2>1. \/ /\ Played(FirstRecords(Playback(i), SizeOf(i)), Staying(i), {})
           /\ call' = [Idle EXCEPT !.at = "restored"]
        \/ call' = [Idle EXCEPT !.at = "failed"]
    <3> HIDE DEF Played, Replay, FirstRecords
    <3> QED
      BY DEF RollbackSavepoint, Playback, SizeOf, Staying
  <2>2. call' # [Idle EXCEPT !.at = "failed"]
    BY CallIsAt
  <2>3. call' = [Idle EXCEPT !.at = "restored"]
    BY <2>1, <2>2
  <2>4. call'.at = "restored" /\ call'.op = "none"
    BY <2>3, CallIsAt
  <2> QED
    BY <2>1, <2>2, <2>4
<1>3. PICK B \in Images : Keeping(B)
  BY <1>1, RestsAt
<1>4. Nested(savepoint, dbOrigSize, dbSize, Len(subJournal))
  BY <1>3 DEF Keeping
<1>5. /\ SizeOf(i) \in Nat /\ SizeOf(i) <= dbSize /\ Staying(i) \in Seq(Savepoint) /\ i \in Nat
      /\ i # 0 => i \in 1 .. Len(savepoint)
  <2>1. SizeOf(i) \in Nat /\ Staying(i) \in Seq(Savepoint)
    BY RollbackIs, FilesAre
  <2>2. i \in Nat /\ (i # 0 => i \in 1 .. Len(savepoint))
    BY <1>4, NestedIs
  <2>3. SizeOf(i) <= dbSize
    BY <1>4, <2>2, NestedIs DEF SizeOf, Nested
  <2> QED
    BY <2>1, <2>2, <2>3
<1>6. CASE eState = "WRITER_LOCKED"
  <2>1. Playback(i) = <<>>
    BY <1>6 DEF Playback
  <2>2. FirstRecords(Playback(i), SizeOf(i)) = {}
    BY <2>1 DEF FirstRecords
  <2>3. Played({}, Staying(i), {})
    BY <1>2, <2>2
  <2> PICK R : R = {}
    OBVIOUS
  <2>4. /\ R \in SUBSET ReplayRecord /\ OneEach(R) /\ \A r \in R : FALSE
    BY DEF OneEach
  <2>5. Played(R, Staying(i), {})
    BY <2>3
  <2>6. /\ \A p \in 1 .. SizeOf(i) : Contents'[p] = Contents[p]
        /\ \A p \in Page : cache[p] # NotCached => cache'[p] # NotCached
        /\ dirty' = dirty /\ inJournal' = inJournal
        /\ Len(savepoint') = Len(Staying(i)) /\ \A k \in 1 .. Len(Staying(i)) : savepoint'[k] = Staying(i)[k]
    <3>1. dbSize' \in Nat /\ dbSize' <= dbSize
      BY <1>1, <1>5
    <3>2. \A r \in R : cache[r.pg] = NotCached => WritesToDb(r)
      BY <2>4
    <3>3. \A p : \A r \in R : r.pg # p
      BY <2>4
    <3>4. /\ \A p \in 1 .. dbSize' : (\A r \in R : r.pg # p) => Contents'[p] = Contents[p]
          /\ \A p \in Page : cache[p] # NotCached => cache'[p] # NotCached
          /\ dirty' = dirty /\ inJournal' = inJournal
          /\ Len(savepoint') = Len(Staying(i)) /\ \A k \in 1 .. Len(Staying(i)) : savepoint'[k] = Staying(i)[k]
      <4> HIDE DEF Played, WritesToDb, Contents, Staying
      <4> QED
        BY <1>5, <2>4, <2>5, <3>1, <3>2, PlayedPages
    <3> HIDE DEF SizeOf, Contents
    <3> QED
      BY <1>1, <3>3, <3>4
  <2>7. ASSUME NEW p, NEW v PROVE ~Logs(jrnl, journalOff, subJournal, Start(i), Skip(i), p, v)
    <3>1. journalOff \in Nat /\ journalOff <= 1 /\ subJournal = <<>> /\ Len(subJournal) = 0
      BY <1>3, <1>6, FilesAre DEF Keeping, NothingLogged
    <3>2. Start(i) = 1
      BY <1>3, <1>5, <1>6 DEF Keeping, NothingLogged, Start
    <3>3. Skip(i) \in Nat
      BY <1>4, <1>5, NestedIs DEF Skip
    <3>4. (\A x \in 1 + 1 .. journalOff : FALSE) /\ (\A j \in Skip(i) + 1 .. 0 : FALSE)
      BY <3>1, <3>3
    <3> QED
      BY <3>1, <3>2, <3>4 DEF Logs, RecordedAs
  <2> QED
    BY <1>2, <2>6, <2>7
<1>7. CASE eState # "WRITER_LOCKED"
  <2>1. eState \in Modified
    BY <1>1, <1>7 DEF Changing, Modified
  <2>2. Replayable(i) /\ Distinct(jrnl, journalOff) /\ jfdOpen
    BY <1>1, <2>1, RollbackReplays
  <2> PICK R : R = FirstRecords(Replay(i), SizeOf(i))
    OBVIOUS
  <2>3. Playback(i) = Replay(i)
    BY <1>7, <2>2 DEF Playback
  <2>4. Played(R, Staying(i), {})
    BY <1>2, <2>3
  <2>5. \A r \in R : /\ r \in ReplayRecord /\ r.pg <= SizeOf(i)
                     /\ FromJournal(i, r) \/ \E j \in 1 .. Len(subJournal) : FromSubJournal(i, r, j)
    <3> HIDE DEF SizeOf, ReplayRecord, FromJournal, FromSubJournal
    <3> QED
      BY <1>5, <2>2, SourcesAre
  <2>6. OneEach(R)
    <3>1. Replay(i) \in Seq(ReplayRecord)
      BY <1>5, <2>2, ReplayIs
    <3> HIDE DEF SizeOf, ReplayRecord
    <3> QED
      BY <1>5, <3>1, FirstRecordsAre DEF OneEach
  <2>7. \A r \in R : cache[r.pg] = NotCached => WritesToDb(r)
    <3> SUFFICES ASSUME NEW r \in R, cache[r.pg] = NotCached PROVE WritesToDb(r)
      OBVIOUS
    <3>1. /\ r \in ReplayRecord
          /\ FromJournal(i, r) \/ \E j \in 1 .. Len(subJournal) : FromSubJournal(i, r, j)
      BY <2>5
    <3> HIDE DEF WritesToDb, FromJournal, FromSubJournal, ReplayRecord
    <3> QED
      BY <1>1, <2>1, <3>1, UncachedAreWritten
  <2>8. /\ \A r \in R : r.pg <= dbSize' => Contents'[r.pg] = r.val
        /\ \A p \in 1 .. dbSize' : (\A r \in R : r.pg # p) => Contents'[p] = Contents[p]
        /\ \A p \in Page : cache[p] # NotCached => cache'[p] # NotCached
        /\ dirty' = dirty /\ inJournal' = inJournal
        /\ Len(savepoint') = Len(Staying(i)) /\ \A k \in 1 .. Len(Staying(i)) : savepoint'[k] = Staying(i)[k]
    <3>1. dbSize' \in Nat /\ dbSize' <= dbSize
      BY <1>1, <1>5
    <3>2. R \in SUBSET ReplayRecord
      BY <2>5
    <3> HIDE DEF Played, WritesToDb, Contents, Staying
    <3> QED
      BY ONLY Types, <1>5, <2>4, <2>6, <2>7, <3>1, <3>2, PlayedPages
  <2>9. SizeOf(i) \in Nat /\ (\A p \in 1 .. SizeOf(i) : p \in Page)
    BY <1>5, ContentsAre
  <2>10. /\ \A p \in Page : \A v :
               p <= SizeOf(i) /\ Logs(jrnl, journalOff, subJournal, Start(i), Skip(i), p, v) =>
                  \E r \in R : r.pg = p /\ r.val = v
         /\ \A p \in Page :
               LogsNot(jrnl, journalOff, subJournal, Start(i), Skip(i), p) => \A r \in R : r.pg # p
    <3> HIDE DEF SizeOf
    <3> QED
      BY <1>5, <2>2, ReplayRestores
  <2>11. ASSUME NEW p \in 1 .. SizeOf(i), NEW v,
                Logs(jrnl, journalOff, subJournal, Start(i), Skip(i), p, v)
         PROVE  Contents'[p] = v
    <3>1. p \in Page /\ p <= SizeOf(i)
      BY <2>9
    <3>2. PICK r \in R : r.pg = p /\ r.val = v
      BY <2>10, <2>11, <3>1
    <3> HIDE DEF SizeOf, Contents
    <3> QED
      BY <1>1, <2>8, <3>1, <3>2
  <2>12. ASSUME NEW p \in 1 .. SizeOf(i),
                LogsNot(jrnl, journalOff, subJournal, Start(i), Skip(i), p)
         PROVE  Contents'[p] = Contents[p]
    <3>1. \A r \in R : r.pg # p
      BY <2>9, <2>10, <2>12
    <3> HIDE DEF SizeOf, Contents
    <3> QED
      BY <1>1, <2>8, <3>1
  <2> QED
    BY <1>2, <2>8, <2>11, <2>12
<1> QED
  BY <1>6, <1>7

\* A rollback to a savepoint that fails leaves the transaction to its rollback.
LEMMA RollbackFails ==
    ASSUME Types, NEW c \in BOOLEAN, Preserving(c), NEW i \in 0 .. Len(savepoint),
           RollbackSavepoint(i), call'.at = "failed"
    PROVE  Control' /\ Left'
<1>1. /\ AtRest \/ call.at = "failedWrite"
      /\ eState \in Changing
      /\ call' \in {[Idle EXCEPT !.at = "restored"], [Idle EXCEPT !.at = "failed"]}
      /\ eState' = eState
  BY RollbackLeaves
<1>2. call' = [Idle EXCEPT !.at = "failed"]
  BY <1>1, CallIsAt
<1>3. call'.at = "failed" /\ call'.op = "none"
  BY <1>2, CallIsAt
<1>4. eState # "WRITER_LOCKED"
  <2>1. \/ call' = [Idle EXCEPT !.at = "restored"]
        \/ \E k \in DOMAIN Playback(i) : TRUE
    <3> HIDE DEF Played, Replay, FirstRecords
    <3> QED
      BY DEF RollbackSavepoint, Playback
  <2>2. call' # [Idle EXCEPT !.at = "restored"]
    BY <1>3, CallIsAt
  <2>3. Playback(i) # <<>>
    BY <2>1, <2>2
  <2> QED
    BY <2>3 DEF Playback
<1>5. Left'
  BY <1>3 DEF Left, Logging, Saving, Returned, Syncing
<1> QED
  BY <1>1, <1>3, <1>4, <1>5 DEF Control, Left, Changing, Modified, Returned, Syncing

\* The savepoints that stay open were opened earlier.
LEMMA StayingAre ==
    ASSUME Types, Nested(savepoint, dbOrigSize, dbSize, Len(subJournal)), NEW i \in 0 .. Len(savepoint)
    PROVE  /\ i \in Nat /\ Len(Staying(i)) = i
           /\ \A k \in 1 .. i : k \in 1 .. Len(savepoint) /\ Staying(i)[k] = savepoint[k]
           /\ SizeOf(i) \in Nat /\ SizeOf(i) <= dbSize /\ dbOrigSize <= SizeOf(i)
           /\ Start(i) \in Nat /\ 1 <= Start(i) /\ Skip(i) \in Nat /\ Skip(i) <= Len(subJournal)
           /\ \A k \in 1 .. i : /\ savepoint[k].nOrig <= SizeOf(i)
                                /\ savepoint[k].iOffset <= Start(i) /\ savepoint[k].iSubRec <= Skip(i)
<1>1. /\ savepoint \in Seq(Savepoint) /\ Len(savepoint) \in Nat /\ Len(subJournal) \in Nat
      /\ dbSize \in Nat /\ dbOrigSize \in Nat
  BY ContentsAre, NestedIs DEF Types, TypesOfSavepoints
<1>2. CASE i = 0
  <2>1. Len(Staying(i)) = 0
    BY <1>2 DEF Staying
  <2> QED
    BY <1>1, <1>2, <2>1 DEF SizeOf, Start, Skip, Nested
<1>3. CASE i # 0
  <2>1. i \in 1 .. Len(savepoint) /\ i \in Nat
    BY <1>1, <1>3
  <2>2. /\ savepoint[i].nOrig \in Nat /\ savepoint[i].iOffset \in Nat /\ savepoint[i].iSubRec \in Nat
        /\ savepoint[i].nOrig <= dbSize /\ dbOrigSize <= savepoint[i].nOrig
        /\ savepoint[i].iSubRec <= Len(subJournal) /\ 1 <= savepoint[i].iOffset
    BY <2>1, NestedIs
  <2>3. /\ Len(SubSeq(savepoint, 1, i)) = i
        /\ \A k \in 1 .. i : SubSeq(savepoint, 1, i)[k] = savepoint[k]
    BY <1>1, <2>1, SubSeqProperties
  <2>4. \A k \in 1 .. i : k \in 1 .. Len(savepoint)
    BY <1>1, <2>1
  <2>5. \A k \in 1 .. i : /\ savepoint[k].nOrig <= savepoint[i].nOrig
                          /\ savepoint[k].iOffset <= savepoint[i].iOffset
                          /\ savepoint[k].iSubRec <= savepoint[i].iSubRec
    BY <2>1 DEF Nested
  <2>6. /\ Staying(i) = SubSeq(savepoint, 1, i) /\ SizeOf(i) = savepoint[i].nOrig
        /\ Start(i) = savepoint[i].iOffset /\ Skip(i) = savepoint[i].iSubRec
    BY <1>3 DEF Staying, SizeOf, Start, Skip
  <2> QED
    BY <2>1, <2>2, <2>3, <2>4, <2>5, <2>6
<1> QED
  BY <1>2, <1>3

\* What an earlier savepoint has no record of, a later one has none of.
LEMMA LogsNotLater ==
    ASSUME NEW f, NEW e \in Nat, NEW sub, NEW a \in Nat, NEW m \in Nat, NEW b \in Nat, NEW n \in Nat,
           a <= b, m <= n, NEW p, LogsNot(f, e, sub, a, m, p), Len(sub) \in Nat
    PROVE  LogsNot(f, e, sub, b, n, p)
<1>1. \A i \in b + 1 .. e : i \in a + 1 .. e
  OBVIOUS
<1>2. \A j \in n + 1 .. Len(sub) : j \in m + 1 .. Len(sub)
  OBVIOUS
<1> QED
  BY <1>1, <1>2 DEF LogsNot, Recorded

\* An image is the one that its pages make up.
LEMMA ImageBecomes ==
    ASSUME Types', NEW I \in Images, Len(I) = dbSize', \A p \in 1 .. Len(I) : Contents'[p] = I[p]
    PROVE  Image' = I
<1>1. dbSize' \in Nat /\ 1 .. dbSize' \subseteq Page
  BY PagerAssumption DEF Types, TypesOfCache, Page
<1>2. ASSUME NEW p \in 1 .. dbSize' PROVE PageContent(p)' = I[p]
  <2>1. p \in Page
    BY <1>1
  <2>2. Contents'[p] = PageContent(p)'
    BY <2>1 DEF Contents
  <2> QED
    BY <2>2
<1>3. Image' = [p \in 1 .. dbSize' |-> PageContent(p)']
  BY DEF Image
<1>4. I = [p \in 1 .. dbSize' |-> I[p]]
  BY <1>1 DEF Images
<1> HIDE DEF PageContent
<1> QED
  BY <1>2, <1>3, <1>4

\* A rollback to a savepoint keeps what the transaction and the savepoints that stay
\* open need, and the image is that of the savepoint.
LEMMA RollbackKeeping ==
    ASSUME Types, Types', NEW c \in BOOLEAN, Preserving(c), NEW i \in 0 .. Len(savepoint),
           RollbackSavepoint(i), call'.at # "failed", NEW B \in Images, Keeping(B)
    PROVE  Keeping(B)'
<1>1. /\ dbSize' = SizeOf(i) /\ eState \in Changing
      /\ UNCHANGED <<eState, dbOrigSize, needSync, jfdOpen, journalOff, journalHdr, nRec, cksumInit, subJournal, jrnl>>
  BY RollbackLeaves DEF jfile
<1>2. /\ \A p \in 1 .. SizeOf(i) : \A v :
            Logs(jrnl, journalOff, subJournal, Start(i), Skip(i), p, v) => Contents'[p] = v
      /\ \A p \in 1 .. SizeOf(i) :
            LogsNot(jrnl, journalOff, subJournal, Start(i), Skip(i), p) => Contents'[p] = Contents[p]
      /\ \A p \in Page : cache[p] # NotCached => cache'[p] # NotCached
      /\ dirty' = dirty /\ inJournal' = inJournal
      /\ Len(savepoint') = Len(Staying(i)) /\ \A k \in 1 .. Len(Staying(i)) : savepoint'[k] = Staying(i)[k]
      /\ call'.at = "restored" /\ call'.op = "none"
  BY RollbackRestores
<1>3. /\ Len(B) = dbOrigSize /\ Nested(savepoint, dbOrigSize, dbSize, Len(subJournal))
      /\ Preserved(jrnl, journalOff, <<>>, 1, 0, inJournal, B, Contents)
      /\ \A k \in 1 .. Len(savepoint) :
            Preserved(jrnl, journalOff, subJournal, savepoint[k].iOffset, savepoint[k].iSubRec,
                      savepoint[k].inSavepoint, savepoint[k].image, Contents)
  BY DEF Keeping
<1>4. /\ i \in Nat /\ Len(Staying(i)) = i
      /\ \A k \in 1 .. i : k \in 1 .. Len(savepoint) /\ Staying(i)[k] = savepoint[k]
      /\ SizeOf(i) \in Nat /\ SizeOf(i) <= dbSize /\ dbOrigSize <= SizeOf(i)
      /\ Start(i) \in Nat /\ 1 <= Start(i) /\ Skip(i) \in Nat /\ Skip(i) <= Len(subJournal)
      /\ \A k \in 1 .. i : /\ savepoint[k].nOrig <= SizeOf(i)
                           /\ savepoint[k].iOffset <= Start(i) /\ savepoint[k].iSubRec <= Skip(i)
  BY <1>3, StayingAre
<1>5. Len(savepoint') = i /\ \A k \in 1 .. i : savepoint'[k] = savepoint[k]
  BY <1>2, <1>4
<1>6. \A k \in 1 .. i :
         /\ savepoint[k].nOrig \in Nat /\ savepoint[k].iOffset \in Nat /\ savepoint[k].iSubRec \in Nat
         /\ Len(savepoint[k].image) = savepoint[k].nOrig /\ Len(savepoint[k].image) \in Nat
         /\ Len(savepoint[k].image) <= SizeOf(i)
         /\ savepoint[k].image \in Images
  <2> SUFFICES ASSUME NEW k \in 1 .. i
               PROVE  /\ savepoint[k].nOrig \in Nat /\ savepoint[k].iOffset \in Nat /\ savepoint[k].iSubRec \in Nat
                      /\ Len(savepoint[k].image) = savepoint[k].nOrig /\ Len(savepoint[k].image) \in Nat
                      /\ Len(savepoint[k].image) <= SizeOf(i)
                      /\ savepoint[k].image \in Images
    OBVIOUS
  <2>1. k \in 1 .. Len(savepoint)
    BY <1>4
  <2>2. /\ savepoint[k] \in Savepoint
        /\ savepoint[k].nOrig \in Nat /\ savepoint[k].iOffset \in Nat /\ savepoint[k].iSubRec \in Nat
        /\ Len(savepoint[k].image) = savepoint[k].nOrig
    BY <1>3, <2>1, NestedIs
  <2>3. savepoint[k].image \in Images
    <3>1. savepoint[k].image \in Seq(Content) /\ Len(savepoint[k].image) \in Nat
      BY <2>2 DEF Savepoint
    <3> PICK I : I = savepoint[k].image
      OBVIOUS
    <3>2. Len(I) \in 0 .. MaxPage
      BY <2>2, <3>1 DEF Savepoint
    <3> QED
      BY <3>1, <3>2 DEF Images
  <2> HIDE DEF SizeOf
  <2> QED
    BY <1>4, <2>2, <2>3
<1>7. /\ journalOff \in Nat /\ journalHdr \in Nat /\ dbOrigSize \in Nat /\ dbSize \in Nat
      /\ Len(subJournal) \in Nat /\ \A p \in 1 .. dbSize : p \in Page
      /\ SameRecords(jrnl, journalOff, jrnl, journalOff)
  <2>1. journalOff \in Nat /\ journalHdr \in Nat /\ SameRecords(jrnl, journalOff, jrnl, journalOff)
    BY FilesAre DEF SameRecords
  <2> QED
    BY <1>3, <2>1, ContentsAre, NestedIs
<1>8. \A j \in 1 .. Len(subJournal) : subJournal[j].pg \in inJournal \/ subJournal[j].pg > dbOrigSize
  BY <1>1, Len(<<>>) = 0 DEF Keeping, NothingLogged, PagesLogged, Changing
<1> HIDE DEF Contents, SizeOf, Start, Skip, Staying
\* The transaction.
<1>9. ASSUME NEW p \in 1 .. Len(B), p \notin inJournal PROVE Contents'[p] = Contents[p]
  <2>1. LogsNot(jrnl, journalOff, <<>>, 1, 0, p)
    BY <1>3, <1>9 DEF Preserved
  <2>2. p \in 1 .. SizeOf(i) /\ p \in Nat /\ p <= dbOrigSize
    BY <1>3, <1>4, <1>7
  <2>3. \A j \in Skip(i) + 1 .. Len(subJournal) : subJournal[j].pg # p
    <3> SUFFICES ASSUME NEW j \in Skip(i) + 1 .. Len(subJournal), subJournal[j].pg = p PROVE FALSE
      OBVIOUS
    <3>1. j \in 1 .. Len(subJournal)
      BY <1>4, <1>7
    <3>2. p > dbOrigSize
      BY <1>8, <1>9, <3>1
    <3> QED
      BY <1>7, <2>2, <3>2
  <2>4. \A x \in Start(i) + 1 .. journalOff : x \in 1 + 1 .. journalOff
    BY <1>4, <1>7
  <2>5. LogsNot(jrnl, journalOff, subJournal, Start(i), Skip(i), p)
    BY <2>1, <2>3, <2>4 DEF LogsNot, Recorded
  <2> QED
    BY <1>2, <2>2, <2>5
<1>10. Preserved(jrnl, journalOff, <<>>, 1, 0, inJournal, B, Contents')
  <2>1. 1 \in Nat /\ \A p \in 1 .. Len(B) : p \notin inJournal => Contents'[p] = Contents[p]
    BY <1>9
  <2>2. journalOff \in Nat
    BY <1>7
  <2> QED
    BY ONLY <1>3, <1>7, <2>1, <2>2, PreservedAgain
\* The savepoints.
<1>11. ASSUME NEW k \in 1 .. i
       PROVE  Preserved(jrnl, journalOff, subJournal, savepoint[k].iOffset, savepoint[k].iSubRec,
                        savepoint[k].inSavepoint, savepoint[k].image, Contents')
  <2>1. /\ savepoint[k].iOffset \in Nat /\ savepoint[k].iSubRec \in Nat /\ Len(savepoint[k].image) \in Nat
        /\ Len(savepoint[k].image) <= SizeOf(i)
    BY <1>6
  <2>2. Preserved(jrnl, journalOff, subJournal, savepoint[k].iOffset, savepoint[k].iSubRec,
                  savepoint[k].inSavepoint, savepoint[k].image, Contents)
    BY <1>3, <1>4
  <2>3. savepoint[k].iOffset <= Start(i) /\ savepoint[k].iSubRec <= Skip(i)
    BY <1>4
  <2> PICK a, m, S, I : a = savepoint[k].iOffset /\ m = savepoint[k].iSubRec /\ S = savepoint[k].inSavepoint
                        /\ I = savepoint[k].image
    OBVIOUS
  <2>4. ASSUME NEW p \in 1 .. Len(I), p \notin S PROVE Contents'[p] = Contents[p]
    <3>1. LogsNot(jrnl, journalOff, subJournal, a, m, p)
      BY <2>2, <2>4 DEF Preserved
    <3>2. p \in 1 .. SizeOf(i)
      BY <1>4, <2>1
    <3>3. a \in Nat /\ m \in Nat /\ a <= Start(i) /\ m <= Skip(i) /\ Start(i) \in Nat /\ Skip(i) \in Nat
      BY <1>4, <2>1, <2>3
    <3>4. LogsNot(jrnl, journalOff, subJournal, Start(i), Skip(i), p)
      BY ONLY <1>7, <3>1, <3>3, LogsNotLater
    <3> QED
      BY <1>2, <3>2, <3>4
  <2>5. Preserved(jrnl, journalOff, subJournal, a, m, S, I, Contents)
    BY <2>2
  <2>6. a \in Nat
    BY <2>1
  <2>7. Preserved(jrnl, journalOff, subJournal, a, m, S, I, Contents')
    BY ONLY <1>7, <2>4, <2>5, <2>6, PreservedAgain
  <2> QED
    BY <2>7
\* What the rollback restores.
<1>12. i = 0 => Image' = B
  <2> SUFFICES ASSUME i = 0 PROVE Image' = B
    OBVIOUS
  <2>1. SizeOf(i) = dbOrigSize /\ Start(i) = 1 /\ Skip(i) = Len(subJournal)
    BY DEF SizeOf, Start, Skip
  <2>2. ASSUME NEW p \in 1 .. Len(B) PROVE Contents'[p] = B[p]
    <3>1. IF p \in inJournal THEN Logs(jrnl, journalOff, <<>>, 1, 0, p, B[p]) ELSE Contents[p] = B[p]
      BY <1>3 DEF Preserved
    <3>2. CASE p \in inJournal
      <4>1. Len(<<>>) = 0 /\ \A j \in 0 + 1 .. 0 : FALSE
        OBVIOUS
      <4>2. RecordedAs(jrnl, journalOff - journalOff + 1, journalOff, p, B[p])
        BY <1>7, <3>1, <3>2, <4>1 DEF Logs
      <4>3. Logs(jrnl, journalOff, subJournal, Start(i), Skip(i), p, B[p])
        BY <1>7, <2>1, <4>2 DEF Logs
      <4> QED
        BY <1>2, <1>3, <2>1, <4>3
    <3>3. CASE p \notin inJournal
      BY <1>9, <3>1, <3>3
    <3> QED
      BY <3>2, <3>3
  <2>3. Len(B) = dbSize'
    BY <1>1, <1>3, <2>1
  <2> QED
    BY <2>2, <2>3, ImageBecomes
<1>13. i # 0 => Image' = savepoint[i].image
  <2> SUFFICES ASSUME i # 0 PROVE Image' = savepoint[i].image
    OBVIOUS
  <2>1. i \in 1 .. i
    BY <1>4
  <2>2. SizeOf(i) = savepoint[i].nOrig /\ Start(i) = savepoint[i].iOffset /\ Skip(i) = savepoint[i].iSubRec
    BY DEF SizeOf, Start, Skip
  <2> PICK I, S : I = savepoint[i].image /\ S = savepoint[i].inSavepoint
    OBVIOUS
  <2>3. I \in Images /\ Len(I) = SizeOf(i)
    BY <1>6, <2>1, <2>2
  <2>4. Preserved(jrnl, journalOff, subJournal, Start(i), Skip(i), S, I, Contents')
    BY <1>11, <2>1, <2>2
  <2>5. ASSUME NEW p \in 1 .. Len(I) PROVE Contents'[p] = I[p]
    <3>1. IF p \in S THEN Logs(jrnl, journalOff, subJournal, Start(i), Skip(i), p, I[p]) ELSE Contents'[p] = I[p]
      BY <2>4 DEF Preserved
    <3> QED
      BY <1>2, <2>3, <3>1
  <2>6. Len(I) = dbSize'
    BY <1>1, <2>3
  <2> QED
    BY <2>3, <2>5, <2>6, ImageBecomes
<1>14. (call.at = "restored" => IF savepoint = <<>> THEN Image = B ELSE Image = savepoint[Len(savepoint)].image)'
  <2>1. CASE i = 0
    <3>1. savepoint' = <<>>
      <4>1. savepoint' \in Seq(Savepoint)
        BY DEF Types, TypesOfSavepoints
      <4> QED
        BY <1>5, <2>1, <4>1
    <3> QED
      BY <1>12, <2>1, <3>1
  <2>2. CASE i # 0
    <3>1. savepoint' # <<>>
      BY <1>5, <2>2
    <3>2. savepoint'[Len(savepoint')] = savepoint[i]
      BY <1>4, <1>5, <2>2
    <3> QED
      BY <1>13, <2>2, <3>1, <3>2
  <2> QED
    BY <2>1, <2>2
\* The journals.
<1>15. Nested(savepoint', dbOrigSize, SizeOf(i), Len(subJournal))
  <2>1. \A k \in 1 .. i : /\ k \in 1 .. Len(savepoint) /\ savepoint'[k] = savepoint[k]
                          /\ savepoint[k].nOrig <= SizeOf(i)
    BY <1>4, <1>5
  <2>2. \A k \in 1 .. i : /\ dbOrigSize <= savepoint'[k].nOrig /\ savepoint'[k].nOrig <= SizeOf(i)
                          /\ savepoint'[k].iSubRec <= Len(subJournal) /\ 1 <= savepoint'[k].iOffset
                          /\ Len(savepoint'[k].image) = savepoint'[k].nOrig
    BY <1>3, <2>1 DEF Nested
  <2>3. ASSUME NEW k \in 1 .. i, NEW j \in 1 .. k
        PROVE  /\ savepoint'[j].nOrig <= savepoint'[k].nOrig /\ savepoint'[j].iSubRec <= savepoint'[k].iSubRec
               /\ savepoint'[j].iOffset <= savepoint'[k].iOffset
    <3>1. j \in 1 .. i
      BY <1>4
    <3>2. /\ savepoint[j].nOrig <= savepoint[k].nOrig /\ savepoint[j].iSubRec <= savepoint[k].iSubRec
          /\ savepoint[j].iOffset <= savepoint[k].iOffset
      BY <1>3, <2>1 DEF Nested
    <3> QED
      BY <2>1, <3>1, <3>2
  <2> QED
    BY <1>4, <1>5, <2>2, <2>3 DEF Nested
<1>16. eState = "WRITER_LOCKED" => NothingLogged'
  BY <1>1, <1>2, <1>4, <1>5 DEF Keeping, NothingLogged
<1>17. eState # "WRITER_LOCKED" => PagesLogged'
  <2> SUFFICES ASSUME eState # "WRITER_LOCKED" PROVE PagesLogged'
    OBVIOUS
  <2>1. PagesLogged
    BY DEF Keeping
  <2>2. needSync \subseteq Page
    BY DEF Types, TypesOfCache
  <2>3. \A p \in needSync : cache'[p] # NotCached
    BY <1>2, <2>1, <2>2 DEF PagesLogged
  <2>4. eState = "WRITER_CACHEMOD" =>
           journalHdr = 0 /\ \A j \in 1 .. Len(subJournal) : cache'[subJournal[j].pg] # NotCached
    BY <1>2, <2>1, SubPages DEF PagesLogged
  <2>5. \A k \in 1 .. i : Points(jrnl, journalOff, journalHdr, savepoint'[k])
    BY <1>4, <1>5, <2>1 DEF PagesLogged
  <2>6. /\ \A k \in journalHdr + 2 .. journalOff : jrnl[k].pg \in needSync
        /\ \A k \in 1 .. journalOff : jrnl[k].kind = "rec" => jrnl[k].pg \in inJournal
        /\ Distinct(jrnl, journalOff)
    BY <2>1 DEF PagesLogged
  <2>7. call'.op # "Stress" /\ call'.at # "stressWrite"
    BY <1>2
  <2> QED
    BY <1>1, <1>2, <1>5, <1>8, <2>3, <2>4, <2>5, <2>6, <2>7 DEF PagesLogged
<1>18. \A k \in 1 .. i : Preserved(jrnl, journalOff, subJournal, savepoint'[k].iOffset, savepoint'[k].iSubRec,
                                   savepoint'[k].inSavepoint, savepoint'[k].image, Contents')
  BY <1>5, <1>11
<1> QED
  BY <1>1, <1>2, <1>3, <1>5, <1>10, <1>14, <1>15, <1>16, <1>17, <1>18 DEF Keeping

LEMMA RollbackPreserves ==
    ASSUME Types, Types', NEW c \in BOOLEAN, Preserving(c), NEW i \in 0 .. Len(savepoint),
           RollbackSavepoint(i)
    PROVE  Preserving(c)'
<1>1. /\ AtRest \/ call.at = "failedWrite"
      /\ eState \in Changing
      /\ UNCHANGED <<eState, jfdOpen, journalOff, journalHdr, nRec, cksumInit, jrnl, txn, outcomes>>
  BY RollbackLeaves DEF jfile, history
<1>2. CASE call'.at = "failed"
  BY <1>2, RollbackFails, LeftIsPreserving
<1>3. CASE call'.at # "failed"
  <2>1. PICK B \in Images : Keeping(B) /\ Finds(c, B)
    BY <1>1, RestsAt
  <2>2. Keeping(B)'
    BY <1>3, <2>1, RollbackKeeping
  <2>3. /\ \A p \in Page : cache[p] # NotCached => cache'[p] # NotCached
        /\ dirty' = dirty /\ call'.at = "restored" /\ call'.op = "none"
    BY <1>3, RollbackRestores
  <2>4. /\ Control /\ call.op = "none" /\ call.at \in Returned
        /\ eState \in Modified => Appending /\ \A p \in dirty : cache[p] # NotCached
        /\ eState = "WRITER_LOCKED" => dirty = {}
    BY <1>1, RestsAt DEF Preserving
  <2>5. eState \in Modified => \A p \in dirty' : cache'[p] # NotCached
    <3>1. dirty \subseteq Page
      BY DEF Types, TypesOfCache
    <3> QED
      BY <2>3, <2>4, <3>1
  <2>6. Control'
    <3>1. Logging' => eState \in Modified
      BY <1>1 DEF Logging
    <3> QED
      BY <1>1, <2>3, <2>4, <2>5, <3>1 DEF Control, Changing, Returned, Syncing, Modified
  <2>7. Logging' => Appending'
    <3>1. Logging' => eState \in Modified
      BY <1>1 DEF Logging
    <3> QED
      BY <1>1, <2>3, <2>4, <3>1, AppendingSame DEF Returned
  <2> QED
    BY <1>1, <2>1, <2>2, <2>6, <2>7, SavingIsPreserving DEF Finds
<1> QED
  BY <1>2, <1>3

-----------------------------------------------------------------------------
(* Every step.                                                             *)

LEMMA PreservingKept ==
    ASSUME Types, NEW c \in BOOLEAN, Preserving(c), c => AtomicCommit, Next
    PROVE  Types' /\ Preserving(c)'
<1>1. Types'
  BY TypesKept
<1>2. Control
  BY DEF Preserving
<1>3. CASE \/ sqlite3PagerSharedLock \/ pagerUnlockIfUnused \/ sqlite3PagerCommitPhaseTwo \/ sqlite3PagerRollback
           \/ sqlite3PagerClose \/ (\E l \in Levels : sqlite3PagerSetFlags(l)) \/ Crash
  BY <1>1, <1>2, <1>3, CallsLeave, LeftIsPreserving
<1>4. CASE sqlite3PagerBegin
  BY <1>1, <1>4, BeginPreserves
<1>5. CASE \E p \in Page : sqlite3PagerGet(p) \/ sqlite3PagerWrite(p) \/ pagerStress(p)
  BY <1>1, <1>5, GetPreserves, WritePreserves, StressPreserves
<1>6. CASE \E n \in Page : sqlite3PagerCommitPhaseOne(n)
  BY <1>1, <1>6, CommitPhaseOnePreserves
<1>7. CASE sqlite3PagerOpenSavepoint
  BY <1>1, <1>7, OpenSavepointPreserves
<1>8. CASE \E i \in 0 .. Len(savepoint) : RollbackSavepoint(i) \/ ReleaseSavepoint(i)
  <2>1. PICK i \in 0 .. Len(savepoint) : RollbackSavepoint(i) \/ ReleaseSavepoint(i)
    BY <1>8
  <2>2. CASE RollbackSavepoint(i)
    BY <1>1, <2>2, RollbackPreserves
  <2>3. CASE ReleaseSavepoint(i)
    BY <1>1, <2>3, ReleaseSavepointPreserves
  <2> QED
    BY <2>1, <2>2, <2>3
<1>9. CASE \E mode \in Modes : sqlite3PagerSetJournalMode(mode)
  BY <1>1, <1>9, JournalModePreserves
<1>10. CASE Continue
  <2>1. CASE \/ pagerSyncHotJournal \/ PlaybackHeader \/ PlaybackRecord \/ PlaybackSync
             \/ FinalizeJournal \/ SyncFinalized \/ TruncateAfterCommit
    BY <1>1, <1>2, <2>1, EndingLeaves, LeftIsPreserving
  <2>2. CASE SyncJournalRecords
    BY <1>1, <2>2, SyncRecordsPreserves
  <2>3. CASE SyncJournalCount
    BY <1>1, <2>3, SyncCountPreserves
  <2>4. CASE SyncJournalHeader
    BY <1>1, <2>4, SyncHeaderPreserves
  <2>5. CASE StressWrite
    BY <1>1, <2>5, StressWritePreserves
  <2>6. CASE CommitWriteList \/ CommitSync
    BY <1>1, <2>6, CommitWritesPreserves
  <2> QED
    BY <1>10, <2>1, <2>2, <2>3, <2>4, <2>5, <2>6 DEF Continue
<1> QED
  BY <1>1, <1>3, <1>4, <1>5, <1>6, <1>7, <1>8, <1>9, <1>10 DEF Next

LEMMA PreservingStutters ==
    ASSUME Types, NEW c \in BOOLEAN, Preserving(c), UNCHANGED vars
    PROVE  Types' /\ Preserving(c)'
<1>1. /\ UNCHANGED <<eState, call, journalMode, level, txn, fault, crash, outcomes, lost>>
      /\ UNCHANGED <<dbSize, dbOrigSize, dbFileSize, cache, dirty, needSync>>
      /\ UNCHANGED <<inJournal, jfdOpen, journalOff, journalHdr, nRec, cksumInit, left>>
      /\ UNCHANGED <<savepoint, subJournal, version, db, dbDur, jrnl, jrnlDur, jrnlNew>>
  BY DEF vars, settings, sizes, pcache, jstate, svpts, dbfile, jfile, bounds, history
<1>2. Types'
  BY <1>1 DEF Types, TypesOfCalls, TypesOfBounds, TypesOfCache, TypesOfJournal, TypesOfSavepoints, TypesOfFiles
<1>3. Contents' = Contents /\ Image' = Image
  BY <1>1 DEF Contents, Image, PageContent
<1>4. Control' /\ (Logging' => Logging) /\ (Saving' => Saving)
  BY <1>1 DEF Preserving, Control, Logging, Saving, Quiet
<1>5. Logging' => Appending'
  BY <1>1, <1>4 DEF Preserving, Appending
<1>6. ASSUME NEW B, Keeping(B) PROVE Keeping(B)'
  <2>1. NothingLogged' = NothingLogged /\ PagesLogged' = PagesLogged
    BY <1>1 DEF NothingLogged, PagesLogged
  <2> QED
    BY <1>1, <1>3, <1>6, <2>1 DEF Keeping
<1> QED
  BY <1>1, <1>2, <1>4, <1>5, <1>6 DEF Preserving

\* Nothing is logged before the first call.
LEMMA FirstPreserving ==
    ASSUME Init, NEW c \in BOOLEAN
    PROVE  Preserving(c)
<1>1. /\ call.op = "none" /\ call.at = "idle" /\ eState = "OPEN" /\ ~jfdOpen /\ dirty = {} /\ Quiet
  BY DEF Init, Idle, Quiet
<1>2. ~Logging /\ ~Saving
  BY <1>1 DEF Logging, Saving, Changing, Modified
<1> QED
  BY <1>1, <1>2 DEF Preserving, Control, Changing, Modified, Returned, Syncing

LEMMA FirstTypes ==
    ASSUME Init
    PROVE  Types
<1>1. PICK n \in InitSizes : db = [p \in 1 .. n |-> 0]
  BY DEF Init
<1>2. n \in Nat /\ n <= MaxPage /\ MaxPage \in Nat
  BY PagerAssumption
<1>3. db \in Images /\ Len(db) = n
  <2>1. 0 \in Content
    BY PagerAssumption DEF Content
  <2> QED
    BY <1>1, <1>2, <2>1 DEF Images
<1>4. NoFile \in Journals
  BY NoFileIsCold
<1>5. TypesOfCalls
  <2>1. 0 \in 0 .. MaxPage
    BY <1>2
  <2> QED
    BY <2>1 DEF Init, TypesOfCalls, State, Idle
<1>6. TypesOfBounds
  <2>1. 0 \in 0 .. MaxTxn /\ 0 \in 0 .. MaxVersion /\ 0 \in 0 .. MaxFault /\ 0 \in 0 .. MaxCrash
    BY PagerAssumption
  <2> QED
    BY <2>1 DEF Init, TypesOfBounds
<1>7. TypesOfCache
  <2>1. 0 \in 0 .. MaxPage
    BY <1>2
  <2>2. EmptyCache \in [Page -> Content \cup {NotCached}]
    BY DEF EmptyCache
  <2> QED
    BY <2>1, <2>2 DEF Init, TypesOfCache
<1>8. TypesOfJournal
  <2>1. <<0, 0>> \in Nonce
    BY PagerAssumption DEF Nonce
  <2> QED
    BY <2>1 DEF Init, TypesOfJournal
<1>9. TypesOfSavepoints
  <2>1. savepoint = <<>> /\ subJournal = <<>>
    BY DEF Init
  <2> QED
    BY <2>1, PagerAssumption DEF TypesOfSavepoints
<1>10. TypesOfFiles
  <2>1. Sound(NoFile, 0)
    BY DEF Sound, NoFile
  <2>2. Len(db) <= MaxPage /\ {db} \subseteq Images
    BY <1>2, <1>3
  <2>3. /\ dbDur = db /\ jrnl = NoFile /\ jrnlDur = NoFile /\ jrnlNew = FALSE /\ txn = 0
        /\ jfdOpen = FALSE /\ outcomes = {db} /\ lost = {}
    BY DEF Init
  <2> QED
    BY <1>3, <2>1, <2>2, <2>3 DEF TypesOfFiles
<1> QED
  BY <1>5, <1>6, <1>7, <1>8, <1>9, <1>10 DEF Types

\* In a state where the last call rolled back to a savepoint, the image is the
\* savepoint's, or the one that the transaction began with.
LEMMA PreservingRestores ==
    ASSUME Types, NEW c \in BOOLEAN, Preserving(c), call.at = "restored"
    PROVE  /\ savepoint # <<>> => Image = savepoint[Len(savepoint)].image
           /\ savepoint = <<>> /\ c => \E image \in outcomes : Holds(Image, image)
<1>1. Saving
  BY DEF Preserving, Control, Saving, Returned, Changing
<1>2. PICK B \in Images : Keeping(B) /\ (c => \E image \in outcomes : Holds(B, image))
  BY <1>1 DEF Preserving
<1> QED
  BY <1>2 DEF Keeping

LEMMA SavepointInvariant == Spec => [](Types /\ Preserving(FALSE))
<1>1. Init => Types /\ Preserving(FALSE)
  BY FirstTypes, FirstPreserving
<1>2. Types /\ Preserving(FALSE) /\ [Next]_vars => (Types /\ Preserving(FALSE))'
  BY PreservingKept, PreservingStutters
<1> QED
  BY <1>1, <1>2, PTL DEF Spec

-----------------------------------------------------------------------------
(* The phases, step by step.                                               *)

LEMMA FilesAreNext ==
    ASSUME Types'
    PROVE  /\ jrnl' \in Journals /\ jrnlDur' \in Journals
           /\ db' \in Images /\ dbDur' \in Images /\ jrnlNew' \in BOOLEAN
           /\ outcomes' \in SUBSET Images /\ lost' \in SUBSET Images /\ Found' \in SUBSET Images
           /\ txn' \in Nat /\ journalHdr' \in Nat /\ journalOff' \in Nat
           /\ txn' \in 0 .. MaxTxn
<1>1. txn' \in Nat /\ txn' \in 0 .. MaxTxn
  BY PagerAssumption DEF Types, TypesOfBounds
<1>2. jrnl' \in Journals /\ jrnlDur' \in Journals
  <2>1. Sound(jrnl', txn') /\ Sound(jrnlDur', txn')
    BY DEF Types, TypesOfFiles
  <2> QED
    BY <1>1, <2>1, SoundIs
<1>3. outcomes' \subseteq Images /\ lost' \subseteq Images
  BY DEF Types, TypesOfFiles
<1>4. Found' \in SUBSET Images
  BY <1>3 DEF Found, FoundIn
<1> QED
  BY <1>1, <1>2, <1>3, <1>4 DEF Types, TypesOfFiles, TypesOfJournal

\* The phases that a call can be in.
LEMMA PhaseInCall ==
    ASSUME Types, NEW O \in Images, Phase(O)
    PROVE  /\ call.at = "syncHot" =>
                 \/ PhaseOpen(O) /\ call.op = "SharedLock"
                 \/ call.op = "Close" /\ (PhaseReader(O) \/ PhaseLocked(O) \/ PhaseWriteClose(O) \/ PhaseError(O))
           /\ call.at \in {"readHdr", "playRec", "playSync"} =>
                 PhaseBack(O) \/ PhaseHot(O)
           /\ call.at = "finalize" => PhaseFinalize(O) \/ PhaseFinished(O)
           /\ call.at \in {"finalSync", "finalTruncate"} => PhaseDecided(O)
           /\ call.at \in {"syncRecords", "writeNRec", "syncHdr", "stressWrite", "writeList", "syncDb"} =>
                 PhaseWrite(O)
           /\ call.at \in {"failed", "failedWrite"} => PhaseWrite(O) \/ PhaseLocked(O)
<1>1. CASE PhaseOpen(O)
  BY <1>1 DEF PhaseOpen, Between
<1>2. CASE PhaseReader(O)
  BY <1>2 DEF PhaseReader, Between
<1>3. CASE PhaseLocked(O)
  BY <1>3 DEF PhaseLocked, Between
<1>4. CASE PhaseWrite(O)
  BY <1>4 DEF PhaseWrite, Between
<1>5. CASE PhaseFinished(O)
  BY <1>5 DEF PhaseFinished, Between
<1>6. CASE PhaseError(O)
  BY <1>6 DEF PhaseError, Between
<1>7. CASE PhaseBack(O)
  BY <1>7 DEF PhaseBack, Between
<1>8. CASE PhaseWriteClose(O)
  BY <1>8 DEF PhaseWriteClose, Between
<1>9. CASE PhaseHot(O)
  BY <1>9 DEF PhaseHot, Between
<1>10. CASE PhaseFinalize(O)
  BY <1>10 DEF PhaseFinalize
<1>11. CASE PhaseDecided(O)
  BY <1>11 DEF PhaseDecided
<1> QED
  BY <1>1, <1>2, <1>3, <1>4, <1>5, <1>6, <1>7, <1>8, <1>9, <1>10, <1>11 DEF Phase

\* pager_unlock after an error, with the database suspended.
LEMMA LandsOpen ==
    ASSUME Types', NEW O \in Images, StandsFor(O, outcomes'), Suspended(O)', pager_unlock(TRUE)
    PROVE  Consistent'
<1>1. /\ eState' = "OPEN" /\ call' = Idle /\ cache' = EmptyCache /\ dirty' = {} /\ needSync' = {}
      /\ inJournal' = {} /\ ~jfdOpen'
  BY DEF pager_unlock, UndeletableWhenOpen
<1>2. Coherent'
  BY <1>1 DEF Coherent, Cached, EmptyCache
<1>3. PhaseOpen(O)'
  BY <1>1, <1>2 DEF PhaseOpen, Suspended, Between, Idle, NothingDirty
<1> QED
  BY <1>3 DEF Consistent, Phase

\* A call other than the first phase of a commit is given up.
LEMMA LandsGivenUp ==
    ASSUME Types', NEW O \in Images, StandsFor(O, outcomes'), Suspended(O)', GiveUp,
           call.op # "CommitPhaseOne"
    PROVE  Consistent'
<1>1. CASE call.op \in {"SharedLock", "Close"}
  BY <1>1, LandsOpen DEF GiveUp
<1>2. CASE call.op \notin {"SharedLock", "Close"}
  <2>1. eState' = "ERROR" /\ call' = Idle
    BY <1>2 DEF GiveUp
  <2>2. PhaseError(O)'
    BY <2>1 DEF PhaseError, Between, Idle
  <2> QED
    BY <2>2 DEF Consistent, Phase
<1> QED
  BY <1>1, <1>2

\* What does not change the files leaves the database as it is.
LEMMA SameFiles ==
    ASSUME UNCHANGED <<dbfile, jfile, history>>, NEW O
    PROVE  /\ Settled(O) => Settled(O)'
           /\ Hot(O) => Hot(O)'
           /\ Suspended(O) => Suspended(O)'
           /\ StandsFor(O, outcomes) => StandsFor(O, outcomes')
BY DEF dbfile, jfile, history, Settled, Hot, Suspended, Found

LEMMA SharedLockStep ==
    ASSUME Types, Types', NEW O \in Images, StandsFor(O, outcomes), Phase(O), sqlite3PagerSharedLock
    PROVE  Consistent'
<1>1. PhaseOpen(O) /\ eState = "OPEN"
  BY PhaseAtRest DEF sqlite3PagerSharedLock
<1>2. Len(db) > 0 /\ call = [op |-> "none", pg |-> call.pg, at |-> "idle"]
  <2>1. Suspended(O) /\ AtRest /\ Between("none", {"idle"})
    BY <1>1 DEF PhaseOpen, Suspended, AtRest, Between, sqlite3PagerSharedLock
  <2>2. call \in [op : {"none", "SharedLock", "CommitPhaseOne", "CommitPhaseTwo",
                       "Stress", "Rollback", "Close"},
                 pg : 0 .. MaxPage,
                 at : {"idle", "restored", "failed", "failedWrite", "syncHot", "readHdr", "playRec",
                       "playSync", "finalize", "finalSync", "finalTruncate",
                       "syncRecords", "writeNRec", "syncHdr", "stressWrite",
                       "writeList", "syncDb"}]
    BY DEF Types, TypesOfCalls
  <2> QED
    BY <2>1, <2>2, SuspendedIsNotEmpty DEF Between
<1>3. CASE IsFile(jrnl) /\ StartsNonZero /\ ~BecomeReader
  <2>1. UNCHANGED <<eState, pcache, dbfile, jfile, history>> /\ jfdOpen' = TRUE
        /\ call' = [op |-> "SharedLock", pg |-> 0, at |-> "syncHot"]
    BY <1>2, <1>3 DEF sqlite3PagerSharedLock, Calling
  <2>3. inJournal' = inJournal
    BY <1>2, <1>3 DEF sqlite3PagerSharedLock, Calling
  <2>2. PhaseOpen(O)'
    <3>1. Settled(O) => Settled(O)'
      BY <2>1, SameFiles
    <3>2. Hot(O) => Hot(O)'
      BY <2>1, SameFiles
    <3>3. NothingDirty' /\ (Coherent => Coherent') /\ cache' = cache
      BY <1>1, <2>1 DEF PhaseOpen, NothingDirty, pcache, Coherent, Cached, dbfile
    <3> QED
      BY <1>1, <2>1, <2>3, <3>1, <3>2, <3>3 DEF PhaseOpen, Between
  <2> QED
    BY <2>1, <2>2, SameFiles DEF Consistent, Phase
<1>4. CASE BecomeReader
  <2>1. /\ eState' = "READER" /\ dbSize' = Len(db)
        /\ outcomes' = {image \in outcomes : Holds(db, image)}
        /\ UNCHANGED <<pcache, dbfile, lost, call, jfile, inJournal>>
    BY <1>2, <1>4 DEF sqlite3PagerSharedLock, BecomeReader, jstate
  <2>2. Settled(O)
    <3>1. CASE Cold(jrnl)
      BY <1>1, <3>1 DEF PhaseOpen, Hot, RollsBack
    <3>2. CASE ~Cold(jrnl)
      <4>1. IsFile(jrnl) /\ Len(jrnl) > 0 /\ HasMagic(jrnl[1])
        BY <3>2, NoFileIsCold DEF IsFile, Cold, Ends
      <4>2. ~StartsZero
        BY <4>1 DEF StartsZero
      <4> QED
        BY <1>2, <1>4, <4>1, <4>2 DEF sqlite3PagerSharedLock, BecomeReader
    <3> QED
      BY <3>1, <3>2
  <2>3. AllDurably(db, dbDur, O) /\ SyncedPrefix(db, dbDur)
    BY <2>2 DEF Settled, Settles
  <2>4. AllDurably(db, dbDur, db)
    BY <2>3 DEF SyncedPrefix, AllDurably, Durably
  <2>5. StandsFor(db, outcomes')
    BY <2>1, <2>3, StandsForFound
  <2>6. ASSUME NEW w \in Images, w = db
        PROVE  PhaseReader(w)' /\ StandsFor(w, outcomes')
    <3>1. {image \in outcomes : Holds(db, image)} = {image \in outcomes' : Holds(db, image)}
      BY <2>1
    <3>2. Found' = Found
      BY <2>1, <3>1 DEF Found, FoundIn, dbfile
    <3>3. Settles(db, dbDur, jrnl, jrnlDur, jrnlNew, Found, w)
      BY <2>2, <2>4, <2>6 DEF Settled, Settles
    <3>4. Settles(db', dbDur', jrnl', jrnlDur', jrnlNew', Found', w)
      BY <2>1, <3>2, <3>3 DEF dbfile, jfile
    <3>5. Settled(w)'
      BY <3>4 DEF Settled
    <3>6. Coherent'
      <4>1. Coherent
        BY <1>1 DEF PhaseOpen, Coherent, Cached, EmptyCache
      <4> QED
        BY <2>1, <4>1 DEF Coherent, Cached, pcache, dbfile
    <3>7. NothingDirty' /\ inJournal' = {} /\ Between("none", {"idle"})'
      BY <1>1, <1>2, <2>1 DEF PhaseOpen, NothingDirty, Between, pcache
    <3> QED
      BY <2>1, <2>5, <2>6, <3>5, <3>6, <3>7 DEF PhaseReader
  <2>7. db \in Images
    BY FilesAre
  <2> QED
    BY <2>6, <2>7 DEF Consistent, Phase
<1> QED
  BY <1>3, <1>4 DEF sqlite3PagerSharedLock

\* The images that a reader may find are the same when those that are not in the
\* file are left out.
LEMMA FilteredFound ==
    ASSUME outcomes' = {image \in outcomes : Holds(db, image)} \/ outcomes' = outcomes,
           UNCHANGED <<db, lost>>
    PROVE  Found' = Found
<1>1. {image \in outcomes : Holds(db, image)} = {image \in outcomes' : Holds(db, image)}
  OBVIOUS
<1> QED
  BY <1>1 DEF Found, FoundIn

LEMMA FilteredStandsFor ==
    ASSUME Types, NEW O \in Images, StandsFor(O, outcomes), Settled(O),
           outcomes' = {image \in outcomes : Holds(db, image)} \/ outcomes' = outcomes
    PROVE  StandsFor(O, outcomes')
BY StandsForFound DEF Settled, Settles

\* The deletion of a journal that is not hot.
LEMMA JournalDeleted ==
    ASSUME NEW O, Settled(O), jrnl' \in {jrnl, NoFile},
           UNCHANGED <<db, dbDur, jrnlDur, jrnlNew>>, Found' = Found
    PROVE  Settled(O)'
<1>1. CASE jrnl' = jrnl
  BY <1>1 DEF Settled
<1>2. CASE jrnl' = NoFile
  <2>1. Settles(db, dbDur, NoFile, jrnlDur, jrnlNew, Found, O)
    BY DeletionSettles DEF Settled, Settles, NoJournal
  <2> QED
    BY <1>2, <2>1 DEF Settled
<1> QED
  BY <1>1, <1>2

\* The same files, pages and call.
LEMMA SamePages ==
    ASSUME UNCHANGED <<db, cache, dbSize, dirty, needSync, call, inJournal>>
    PROVE  /\ Coherent => Coherent'
           /\ Current => Current'
           /\ Clean => Clean'
           /\ NothingDirty => NothingDirty'
           /\ \A op, at : Between(op, at) => Between(op, at)'
BY DEF Coherent, Current, Clean, Matches, Cached, NothingDirty, Between

LEMMA UnlockStep ==
    ASSUME Types, Types', NEW O \in Images, StandsFor(O, outcomes), Phase(O), pagerUnlockIfUnused
    PROVE  Consistent'
<1>1. AtRest /\ eState \in {"READER", "ERROR"} /\ UNCHANGED <<dbfile, jfile, history>>
  BY DEF pagerUnlockIfUnused
<1>2. StandsFor(O, outcomes') /\ (Suspended(O) => Suspended(O)') /\ (Settled(O) => Settled(O)')
  BY <1>1, SameFiles
<1>3. CASE eState = "ERROR"
  <2>1. Suspended(O)'
    BY <1>1, <1>2, <1>3, PhaseAtRest DEF PhaseError
  <2>2. pager_unlock(TRUE)
    BY <1>3 DEF pagerUnlockIfUnused, pager_unlock, UndeletableWhenOpen, releaseAllSavepoints
  <2> QED
    BY <1>2, <2>1, <2>2, LandsOpen
<1>4. CASE eState = "READER"
  <2>1. PhaseReader(O)
    BY <1>1, <1>4, PhaseAtRest
  <2>2. /\ eState' = "OPEN" /\ call' = Idle /\ cache' = cache /\ dirty' = dirty /\ needSync' = needSync
        /\ inJournal' = {} /\ ~jfdOpen'
    BY <1>4 DEF pagerUnlockIfUnused, pager_unlock, UndeletableWhenOpen
  <2>3. Coherent' /\ NothingDirty'
    BY <1>1, <2>1, <2>2 DEF PhaseReader, Coherent, Cached, NothingDirty, dbfile
  <2>4. PhaseOpen(O)'
    BY <1>2, <2>1, <2>2, <2>3 DEF PhaseReader, PhaseOpen, Between, Idle
  <2> QED
    BY <1>2, <2>4 DEF Consistent, Phase
<1> QED
  BY <1>1, <1>3, <1>4

LEMMA BeginStep ==
    ASSUME Types, Types', NEW O \in Images, StandsFor(O, outcomes), Phase(O), sqlite3PagerBegin
    PROVE  Consistent'
<1>1. /\ AtRest /\ eState = "READER" /\ eState' = "WRITER_LOCKED"
      /\ dbFileSize' = dbSize /\ dbOrigSize' = dbSize /\ txn' = txn + 1
      /\ UNCHANGED <<call, dbSize, pcache, inJournal, dbfile, jfile, history>>
  BY DEF sqlite3PagerBegin
<1>2. PhaseReader(O) /\ call.at = "idle"
  BY <1>1, PhaseAtRest
<1>3. StandsFor(O, outcomes') /\ Settled(O)'
  BY <1>1, <1>2, SameFiles DEF PhaseReader
<1>4. Untouched'
  <2>1. Sound(jrnl, txn) /\ txn \in Nat /\ jrnl' = jrnl
    BY <1>1, FilesAre DEF Types, TypesOfFiles, jfile
  <2>2. ASSUME NEW i \in 1 .. Len(jrnl), OfTxn(jrnl[i], txn + 1) PROVE FALSE
    BY <2>1, <2>2 DEF Sound, OfTxn
  <2> QED
    BY <1>1, <2>1, <2>2 DEF Untouched
<1>5. Current /\ dbSize \in Nat
  <2>1. dbSize \in Nat /\ dbSize <= MaxPage /\ MaxPage \in Nat
    BY FilesAre, PagerAssumption DEF Types, TypesOfCache
  <2>2. AllDurably(db, dbDur, O) /\ Len(O) = dbSize /\ Coherent
    BY <1>2 DEF PhaseReader, Settled, Settles
  <2>3. ASSUME NEW p \in 1 .. dbSize PROVE p <= Len(db) /\ (Cached(p) => cache[p] = db[p])
    BY <2>1, <2>2 DEF AllDurably, Durably, Coherent, Page
  <2> QED
    BY <2>1, <2>3 DEF Current, Matches
<1>6. Current' /\ NothingDirty' /\ Between("none", {"idle"})'
  BY <1>1, <1>2, <1>5 DEF Current, Matches, Cached, pcache, dbfile, NothingDirty, PhaseReader, Between
<1>7. PhaseLocked(O)'
  BY <1>1, <1>2, <1>3, <1>4, <1>5, <1>6 DEF PhaseReader, PhaseLocked, Between
<1> QED
  BY <1>3, <1>7 DEF Consistent, Phase

\* A page that is not cached is read from the file.
LEMMA PageRead ==
    ASSUME Types, NEW p \in Page, p <= dbSize, cache[p] = NotCached, p <= Len(db),
           cache' = [cache EXCEPT ![p] = PageContent(p)]
    PROVE  /\ cache'[p] = db[p]
           /\ \A q \in Page : q # p => cache'[q] = cache[q]
BY DEF Types, TypesOfCache, PageContent

LEMMA GetStep ==
    ASSUME Types, Types', NEW O \in Images, StandsFor(O, outcomes), Phase(O),
           NEW p \in Page, sqlite3PagerGet(p)
    PROVE  Consistent'
<1>1. /\ AtRest /\ eState \in {"READER"} \cup Writer /\ p <= dbSize /\ ~Cached(p)
      /\ cache[p] = NotCached
      /\ cache' = [cache EXCEPT ![p] = PageContent(p)]
      /\ UNCHANGED <<eState, call, sizes, dirty, needSync, jstate, left, svpts, dbfile, jfile,
                     settings, bounds, history>>
  BY DEF sqlite3PagerGet, Cached
<1>2. StandsFor(O, outcomes') /\ (Settled(O) => Settled(O)')
  BY <1>1, SameFiles
<1>3. dbSize \in Nat /\ dbSize <= MaxPage /\ MaxPage \in Nat /\ Len(db) \in Nat
  BY FilesAre, PagerAssumption DEF Types, TypesOfCache, TypesOfFiles, Images
<1>4. (NothingDirty => NothingDirty') /\ \A op, at : Between(op, at) => Between(op, at)'
  BY <1>1 DEF NothingDirty, Between
<1>5. ASSUME Matches(1 .. dbSize) PROVE Current'
  <2>1. p <= Len(db)
    BY <1>1, <1>3, <1>5 DEF Matches, Page
  <2>2. cache'[p] = db[p] /\ \A q \in Page : q # p => cache'[q] = cache[q]
    BY <1>1, <2>1, PageRead
  <2>3. dbSize' = dbSize /\ db' = db
    BY <1>1 DEF sizes, dbfile
  <2>4. \A q \in 1 .. dbSize : q <= Len(db) /\ (cache'[q] # NotCached => cache'[q] = db[q])
    BY <1>3, <1>5, <2>2 DEF Matches, Cached, Page
  <2> QED
    BY <2>3, <2>4 DEF Current, Matches, Cached
<1>6. CASE eState = "READER"
  <2>1. PhaseReader(O) /\ call.at = "idle"
    BY <1>1, <1>6, PhaseAtRest
  <2>2. AllDurably(db, dbDur, O) /\ Len(O) = dbSize
    BY <2>1 DEF PhaseReader, Settled, Settles
  <2>3. p <= Len(db)
    BY <1>1, <1>3, <2>2 DEF AllDurably, Durably, Page
  <2>4. Coherent'
    BY <1>1, <2>1, <2>3, PageRead DEF PhaseReader, Coherent, Cached, dbfile
  <2>5. PhaseReader(O)'
    BY <1>1, <1>2, <1>4, <2>1, <2>4 DEF PhaseReader, sizes, jstate
  <2> QED
    BY <1>2, <2>5 DEF Consistent, Phase
<1>7. CASE eState = "WRITER_LOCKED"
  <2>1. PhaseLocked(O) /\ call.at \in {"idle", "restored"}
    BY <1>1, <1>7, PhaseAtRest
  <2>2. Current'
    BY <1>5, <2>1 DEF PhaseLocked, Current
  <2>3. Untouched'
    BY <1>1, <2>1 DEF PhaseLocked, Untouched, jfile, bounds
  <2>4. PhaseLocked(O)'
    BY <1>1, <1>2, <1>4, <2>1, <2>2, <2>3 DEF PhaseLocked, sizes, jstate, Between
  <2> QED
    BY <1>2, <2>4 DEF Consistent, Phase
<1>8. CASE eState \in {"WRITER_CACHEMOD", "WRITER_DBMOD"}
  <2>1. PhaseWrite(O) /\ call.at \in {"idle", "restored"}
    BY <1>1, <1>8, PhaseAtRest
  <2>2. /\ Between("none", {"idle", "restored"}) /\ Steady(O) /\ Grown(O) /\ journalHdr < journalOff
        /\ Uncounted(jrnl, journalHdr) /\ Protects(O) /\ Writing(O)
    BY <2>1 DEF PhaseWrite, Between
  <2>3. p \notin dirty
    BY <1>1, <2>2 DEF Writing
  <2>4. p <= Len(db)
    BY <1>1, <1>3, <2>2, <2>3 DEF Steady, Clean, Matches, Page
  <2>5. cache'[p] = db[p] /\ \A q \in Page : q # p => cache'[q] = cache[q]
    BY <1>1, <2>4, PageRead
  <2>6. Clean'
    BY <1>1, <1>3, <2>2, <2>4, <2>5 DEF Steady, Clean, Matches, Cached, Page, sizes, dbfile
  <2>7. PagesOf(O)'
    <3>1. PagesOf(O)
      BY <2>2 DEF Writing
    <3>2. ASSUME NEW q \in 1 .. Len(O), q \notin inJournal, cache'[q] # NotCached
          PROVE  cache'[q] = O[q]
      <4>1. Durably(db, dbDur, O, q) /\ (Cached(q) => cache[q] = O[q])
        BY <3>1, <3>2 DEF PagesOf
      <4>2. q \in Page
        BY <1>3, <4>1, FilesAre DEF Durably, Page, Types, TypesOfFiles, Images
      <4> QED
        BY <2>5, <3>2, <4>1, <4>2 DEF Durably, Cached
    <3>3. UNCHANGED <<jrnl, journalOff, journalHdr, inJournal, needSync, db, dbDur>>
      BY <1>1 DEF jstate, jfile, dbfile
    <3> QED
      BY <3>1, <3>2, <3>3 DEF PagesOf, Cached
  <2>8. \A q \in dirty' : Cached(q)'
    <3>1. dirty \subseteq Page /\ dirty' = dirty
      BY <1>1 DEF Types, TypesOfCache
    <3>2. \A q \in dirty : q # p /\ Cached(q)
      BY <2>2, <2>3 DEF Writing
    <3> QED
      BY <2>5, <3>1, <3>2 DEF Cached
  <2>9. OwnJournal(O, journalOff)' /\ Protects(O)'
    <3>1. UNCHANGED <<jrnl, jrnlDur, jrnlNew, jfdOpen, journalOff, journalHdr, txn, dbOrigSize, db, dbDur,
                      eState, Found>>
      BY <1>1 DEF jstate, jfile, dbfile, bounds, sizes, Found, history
    <3> QED
      BY <2>2, <3>1 DEF Writing, OwnJournal, Protects, Guarded
  <2>10. Writing(O)'
    <3>1. UNCHANGED <<dbSize, dbFileSize, journalHdr, journalOff, nRec, cksumInit, txn, journalMode, level>>
      BY <1>1 DEF jstate, sizes, bounds, settings
    <3>2. MayShrink => MayShrink'
      BY <3>1 DEF MayShrink
    <3> QED
      BY <2>2, <2>7, <2>8, <2>9, <3>1, <3>2 DEF Writing
  <2>11. Steady(O)' /\ Grown(O)'
    BY <1>1, <2>2, <2>6 DEF Steady, Grown, sizes, jstate, svpts
  <2>12. PhaseWrite(O)'
    <3>1. UNCHANGED <<eState, call, journalHdr, journalOff, jrnl>>
      BY <1>1 DEF jstate, jfile
    <3>2. /\ Between("none", {"idle", "restored", "failedWrite"})' /\ call'.at \in {"idle", "restored"}
          /\ journalHdr' < journalOff' /\ Uncounted(jrnl, journalHdr)'
      BY <2>2, <3>1 DEF Between
    <3>3. eState' \in {"WRITER_CACHEMOD", "WRITER_DBMOD"} /\ Clean'
      BY <1>8, <2>6, <3>1
    <3> QED
      BY ONLY <2>9, <2>10, <2>11, <3>2, <3>3 DEF PhaseWrite
  <2> QED
    BY <1>2, <2>12 DEF Consistent, Phase
<1>9. CASE eState = "WRITER_FINISHED"
  <2>1. PhaseFinished(O) /\ call.at = "idle"
    BY <1>1, <1>9, PhaseAtRest
  <2>2. Current'
    BY <1>5, <2>1 DEF PhaseFinished, Current
  <2>3. p <= Len(db)
    BY <1>1, <1>3, <2>1 DEF PhaseFinished, Current, Matches, Page
  <2>4. cache'[p] = db[p] /\ \A q \in Page : q # p => cache'[q] = cache[q]
    BY <1>1, <2>3, PageRead
  <2>5. Remembered(cache', jrnl, O, 0, journalHdr)
    <3>1. Remembered(cache, jrnl, O, 0, journalHdr) /\ journalHdr > 0 /\ Guarded(O)
      BY <1>9, <2>1 DEF PhaseFinished, Protects
    <3>2. Covered(db, dbDur, jrnl, O, journalHdr)
      BY <3>1 DEF Guarded, Guards, Keeps
    <3>3. ASSUME NEW q \in 1 .. Len(O), cache'[q] # NotCached, ~Recorded(jrnl, 0, journalHdr, q)
          PROVE  cache'[q] = O[q]
      <4>1. Durably(db, dbDur, O, q)
        BY <3>2, <3>3 DEF Covered
      <4>2. q \in Page /\ db[q] = O[q]
        BY <1>3, <4>1, FilesAre DEF Durably, Page, Types, TypesOfFiles, Images
      <4> QED
        BY <2>4, <3>1, <3>3, <4>2 DEF Remembered
    <3> QED
      BY <3>3 DEF Remembered
  <2>6. PhaseFinished(O)'
    <3>1. UNCHANGED <<jrnl, jrnlDur, jrnlNew, jfdOpen, journalOff, journalHdr, txn, dbOrigSize, db, dbDur,
                      eState, Found, call, dirty, dbSize, dbFileSize, journalMode, level>>
      BY <1>1 DEF jstate, jfile, dbfile, bounds, sizes, Found, history, settings
    <3>2. OwnJournal(O, journalOff)' /\ Protects(O)' /\ (MayShrink => MayShrink')
      BY <2>1, <3>1 DEF PhaseFinished, OwnJournal, Protects, Guarded, MayShrink
    <3> QED
      BY <2>1, <2>2, <2>5, <3>1, <3>2 DEF PhaseFinished, Between
  <2> QED
    BY <1>2, <2>6 DEF Consistent, Phase
<1> QED
  BY <1>1, <1>6, <1>7, <1>8, <1>9 DEF Writer

\* The same files, and the same part of the journal is synced.
LEMMA SameTransaction ==
    ASSUME UNCHANGED <<eState, dbfile, jfile, history, txn, journalHdr, dbOrigSize, jfdOpen>>, NEW O, NEW e
    PROVE  /\ Protects(O) => Protects(O)'
           /\ OwnJournal(O, e) => OwnJournal(O, e)'
           /\ Guarded(O) => Guarded(O)'
<1>1. UNCHANGED <<eState, jrnl, jrnlDur, jrnlNew, db, dbDur, Found, txn, journalHdr, dbOrigSize, jfdOpen>>
  BY DEF dbfile, jfile, history, Found
<1> QED
  BY <1>1 DEF Protects, OwnJournal, Guarded

LEMMA CommitPhaseTwoStep ==
    ASSUME Types, Types', NEW O \in Images, StandsFor(O, outcomes), Phase(O), sqlite3PagerCommitPhaseTwo
    PROVE  Consistent'
<1>1. /\ AtRest /\ eState \in {"WRITER_LOCKED", "WRITER_FINISHED"}
      /\ call' = [op |-> "CommitPhaseTwo", pg |-> 0, at |-> "finalize"]
      /\ UNCHANGED <<eState, sizes, pcache, jstate, left, dbfile, jfile, settings, bounds, history>>
  BY DEF sqlite3PagerCommitPhaseTwo, Calling
<1>2. StandsFor(O, outcomes') /\ (Settled(O) => Settled(O)')
  BY <1>1, SameFiles
<1>3. Current => Current'
  BY <1>1 DEF Current, Matches, Cached, sizes, pcache, dbfile
<1>4. CASE eState = "WRITER_LOCKED"
  <2>1. PhaseLocked(O)
    BY <1>1, <1>4, PhaseAtRest
  <2>2. AllDurably(db, dbDur, O) /\ SyncedPrefix(db, dbDur)
    BY <2>1 DEF PhaseLocked, Settled, Settles
  <2>3. Ending(O)'
    BY <1>1, <1>3, <1>4, <2>1, <2>2 DEF Ending, PhaseLocked, sizes, dbfile
  <2>4. PhaseFinalize(O)'
    BY <1>1, <1>2, <1>4, <2>1, <2>3 DEF PhaseFinalize, PhaseLocked, Suspended, sizes
  <2> QED
    BY <1>2, <2>4 DEF Consistent, Phase
<1>5. CASE eState = "WRITER_FINISHED"
  <2>1. PhaseFinished(O) /\ call.at = "idle"
    BY <1>1, <1>5, PhaseAtRest
  <2>2. UNCHANGED <<jrnl, jfdOpen, journalOff, journalHdr, dbOrigSize, db, dbDur, eState, cache,
                    dirty, dbSize, dbFileSize, journalMode, level, txn>>
    BY <1>1 DEF jstate, jfile, dbfile, bounds, sizes, settings, pcache
  <2>3. Protects(O)' /\ OwnJournal(O, journalOff)' /\ (MayShrink => MayShrink')
    <3>1. Protects(O)'
      BY <1>1, <2>1, <2>2, SameTransaction DEF PhaseFinished
    <3> QED
      BY <2>1, <2>2, <3>1 DEF PhaseFinished, OwnJournal, MayShrink
  <2>4. PhaseFinished(O)'
    BY <1>1, <1>3, <2>1, <2>2, <2>3 DEF PhaseFinished, Between
  <2> QED
    BY <1>2, <2>4 DEF Consistent, Phase
<1> QED
  BY <1>1, <1>4, <1>5

\* The journal has what a rollback needs.
LEMMA ProtectsRestores ==
    ASSUME Types, NEW O \in Images, InTxn, Protects(O)
    PROVE  MayWriteDb => Restored(db, jrnl, O, 0, journalHdr)
<1> SUFFICES ASSUME MayWriteDb PROVE Restored(db, jrnl, O, 0, journalHdr)
  OBVIOUS
<1>1. journalHdr > 0 /\ Guarded(O) /\ journalHdr \in Nat
  BY FilesAre DEF InTxn, MayWriteDb, Protects
<1>2. Covered(db, dbDur, jrnl, O, journalHdr)
  BY <1>1 DEF Guarded, Guards, Keeps
<1> QED
  BY <1>2 DEF Covered, Restored, Durably

LEMMA RollbackStep ==
    ASSUME Types, Types', NEW O \in Images, StandsFor(O, outcomes), Phase(O), sqlite3PagerRollback
    PROVE  Consistent'
<1>1. /\ AtRest \/ call.at \in {"failed", "failedWrite"}
      /\ eState \in Writer
      /\ UNCHANGED <<eState, sizes, pcache, inJournal, jfdOpen, journalHdr, nRec,
                     cksumInit, left, dbfile, jfile, settings, bounds, history>>
  BY DEF sqlite3PagerRollback
<1>2. StandsFor(O, outcomes') /\ (Settled(O) => Settled(O)')
  BY <1>1, SameFiles
<1>3. CASE eState = "WRITER_LOCKED"
  <2>1. PhaseLocked(O)
    BY <1>1, <1>3, PhaseAtRest, PhaseInCall DEF PhaseWrite
  <2>2. AllDurably(db, dbDur, O) /\ SyncedPrefix(db, dbDur)
    BY <2>1 DEF PhaseLocked, Settled, Settles
  <2>3. call' = [op |-> "Rollback", pg |-> 0, at |-> "finalize"]
    BY <1>3 DEF sqlite3PagerRollback, Calling
  <2>4. Current' /\ Len(O) = dbSize'
    BY <1>1, <2>1 DEF PhaseLocked, Current, Matches, Cached, sizes, pcache, dbfile
  <2>5. Ending(O)'
    BY <1>1, <1>3, <2>2, <2>3, <2>4 DEF Ending, dbfile
  <2>6. PhaseFinalize(O)'
    BY <1>2, <2>1, <2>3, <2>5 DEF PhaseFinalize, PhaseLocked, Suspended
  <2> QED
    BY <1>2, <2>6 DEF Consistent, Phase
<1>4. CASE eState # "WRITER_LOCKED"
  <2>1. PhaseWrite(O) \/ PhaseFinished(O)
    <3>1. CASE AtRest
      BY <1>1, <1>4, <3>1, PhaseAtRest DEF Writer
    <3>2. CASE call.at \in {"failed", "failedWrite"}
      BY <1>4, <3>2, PhaseInCall DEF PhaseLocked
    <3> QED
      BY <1>1, <3>1, <3>2
  <2>2. InTxn /\ InTxn'
    BY <1>1, <2>1 DEF PhaseWrite, PhaseFinished, InTxn
  <2>3. call' = [op |-> "Rollback", pg |-> 0, at |-> "readHdr"] /\ journalOff' = 0
    BY <1>4 DEF sqlite3PagerRollback, Calling
  <2>4. Protects(O) /\ OwnJournal(O, journalOff) /\ Remembered(cache, jrnl, O, 0, journalOff)
    <3>1. CASE PhaseWrite(O)
      <4>1. Protects(O) /\ OwnJournal(O, journalOff) /\ PagesOf(O)
        BY <3>1 DEF PhaseWrite, Writing
      <4> QED
        BY <4>1 DEF PagesOf, Remembered, Cached
    <3>2. CASE PhaseFinished(O)
      BY <3>2 DEF PhaseFinished
    <3> QED
      BY <2>1, <3>1, <3>2
  <2>5. UNCHANGED <<jrnl, jfdOpen, journalHdr, dbOrigSize, db, cache, eState, txn>>
    BY <1>1 DEF jfile, dbfile, bounds, sizes, pcache
  <2>6. Protects(O)'
    BY <1>1, <2>4, <2>5, SameTransaction
  <2>7. ASSUME NEW e \in Nat, e = journalOff PROVE PlaysBack(O, e)'
    <3>1. OwnJournal(O, e)'
      BY <2>4, <2>5, <2>7 DEF OwnJournal
    <3>2. Remembered(cache', jrnl', O, journalOff', e)
      BY <2>3, <2>4, <2>5, <2>7
    <3>3. MayWriteDb' => Restored(db', jrnl', O, journalOff', journalHdr')
      BY <2>2, <2>3, <2>4, <2>5, ProtectsRestores DEF MayWriteDb
    <3>4. jrnl[1].kind = "hdr" /\ journalHdr \in Nat
      BY <2>4, FilesAre, OwnIsFile DEF OwnJournal
    <3> QED
      BY <2>3, <2>5, <3>1, <3>2, <3>3, <3>4 DEF PlaysBack
  <2>8. journalOff \in Nat
    BY FilesAre
  <2>9. PhaseBack(O)'
    BY <2>2, <2>3, <2>6, <2>7, <2>8 DEF PhaseBack, Between
  <2> QED
    BY <1>2, <2>9 DEF Consistent, Phase
<1> QED
  BY <1>3, <1>4

LEMMA CloseStep ==
    ASSUME Types, Types', NEW O \in Images, StandsFor(O, outcomes), Phase(O), sqlite3PagerClose
    PROVE  Consistent'
<1>1. /\ AtRest \/ call.at \in {"failed", "failedWrite"}
      /\ UNCHANGED <<dbfile, jfile, settings, bounds, history>>
  BY DEF sqlite3PagerClose
<1>2. StandsFor(O, outcomes') /\ (Settled(O) => Settled(O)') /\ (Suspended(O) => Suspended(O)')
  BY <1>1, SameFiles
<1>3. /\ call.at \in {"idle", "restored", "failed", "failedWrite"}
      /\ \/ PhaseOpen(O) \/ PhaseReader(O) \/ PhaseError(O) \/ PhaseLocked(O) \/ PhaseWrite(O)
         \/ PhaseFinished(O)
  <2>1. CASE AtRest
    <3>1. eState \in State
      BY DEF Types, TypesOfCalls
    <3> QED
      BY <2>1, <3>1, PhaseAtRest DEF State
  <2>2. CASE call.at \in {"failed", "failedWrite"}
    BY <2>2, PhaseInCall
  <2> QED
    BY <1>1, <2>1, <2>2
<1>4. CASE ~jfdOpen
  <2>1. pager_unlock(TRUE)
    BY <1>4 DEF sqlite3PagerClose
  <2>2. CASE PhaseWrite(O) \/ PhaseFinished(O)
    BY <1>4, <2>2 DEF PhaseWrite, PhaseFinished, Writing, OwnJournal
  <2>3. CASE ~(PhaseWrite(O) \/ PhaseFinished(O))
    <3>1. Suspended(O)
      BY <1>3, <2>3 DEF PhaseOpen, PhaseReader, PhaseError, PhaseLocked, Suspended
    <3> QED
      BY <1>2, <2>1, <3>1, LandsOpen
  <2> QED
    BY <2>2, <2>3
<1>5. CASE jfdOpen
  <2>1. /\ call' = [op |-> "Close", pg |-> 0, at |-> "syncHot"]
        /\ cache' = EmptyCache /\ dirty' = {} /\ needSync' = {}
        /\ UNCHANGED <<eState, sizes, jstate, left>>
    BY <1>5 DEF sqlite3PagerClose, Calling
  <2>2. Coherent' /\ NothingDirty' /\ Between("Close", {"syncHot"})'
    BY <2>1 DEF Coherent, Cached, EmptyCache, NothingDirty, Between
  <2>3. UNCHANGED <<dbSize, dbOrigSize, dbFileSize, inJournal, jfdOpen, jrnl, txn, db>>
    BY <1>1, <2>1 DEF sizes, jstate, jfile, bounds, dbfile
  <2>4. CASE PhaseOpen(O)
    BY <1>3, <1>5, <2>4 DEF PhaseOpen, Between
  <2>5. CASE PhaseReader(O)
    <3>1. PhaseReader(O)'
      BY <1>2, <2>1, <2>2, <2>3, <2>5 DEF PhaseReader
    <3> QED
      BY <1>2, <3>1 DEF Consistent, Phase
  <2>6. CASE PhaseError(O)
    <3>1. PhaseError(O)'
      BY <1>2, <2>1, <2>2, <2>6 DEF PhaseError
    <3> QED
      BY <1>2, <3>1 DEF Consistent, Phase
  <2>7. CASE PhaseLocked(O)
    <3>1. Current'
      <4>1. dbSize \in Nat /\ dbSize <= MaxPage /\ MaxPage \in Nat
        BY FilesAre DEF Types, TypesOfCache
      <4>2. \A p \in 1 .. dbSize : p <= Len(db) /\ cache'[p] = NotCached
        BY <2>1, <2>7, <4>1 DEF PhaseLocked, Current, Matches, EmptyCache, Page
      <4> QED
        BY <2>3, <4>2 DEF Current, Matches, Cached
    <3>2. PhaseLocked(O)'
      BY <1>2, <1>5, <2>1, <2>2, <2>3, <2>7, <3>1 DEF PhaseLocked, Untouched
    <3> QED
      BY <1>2, <3>2 DEF Consistent, Phase
  <2>8. CASE PhaseWrite(O) \/ PhaseFinished(O)
    <3>1. InTxn /\ Protects(O)
      BY <2>8 DEF PhaseWrite, PhaseFinished, InTxn
    <3>2. InTxn' /\ Protects(O)'
      <4>1. UNCHANGED <<eState, dbfile, jfile, history, txn, journalHdr, dbOrigSize, jfdOpen>>
        BY <1>1, <2>1, <2>3 DEF jstate
      <4> QED
        BY <2>1, <3>1, <4>1, SameTransaction DEF InTxn
    <3>3. PhaseWriteClose(O)'
      BY <1>5, <2>1, <2>2, <2>3, <3>2 DEF PhaseWriteClose
    <3> QED
      BY <1>2, <3>3 DEF Consistent, Phase
  <2> QED
    BY <1>3, <2>4, <2>5, <2>6, <2>7, <2>8
<1> QED
  BY <1>4, <1>5 DEF Types, TypesOfJournal

LEMMA FlagsStep ==
    ASSUME Types, Types', NEW O \in Images, StandsFor(O, outcomes), Phase(O),
           NEW l \in Levels, sqlite3PagerSetFlags(l)
    PROVE  Consistent'
<1>1. /\ AtRest /\ eState \in {"OPEN", "READER"}
      /\ UNCHANGED <<eState, call, sizes, pcache, jstate, left, dbfile, jfile, bounds, history>>
  BY DEF sqlite3PagerSetFlags
<1>2. StandsFor(O, outcomes') /\ (Settled(O) => Settled(O)') /\ (Hot(O) => Hot(O)')
  BY <1>1, SameFiles
<1>3. UNCHANGED <<dbSize, cache, dirty, needSync, inJournal, jfdOpen, db, call>>
  BY <1>1 DEF sizes, pcache, jstate, dbfile
<1>4. /\ Coherent => Coherent'
      /\ NothingDirty => NothingDirty'
      /\ \A op, at : Between(op, at) => Between(op, at)'
  BY <1>3 DEF Coherent, Cached, NothingDirty, Between
<1>5. CASE eState = "OPEN"
  <2>1. PhaseOpen(O)
    BY <1>1, <1>5, PhaseAtRest
  <2>2. PhaseOpen(O)'
    BY <1>1, <1>2, <1>3, <1>4, <2>1 DEF PhaseOpen
  <2> QED
    BY <1>2, <2>2 DEF Consistent, Phase
<1>6. CASE eState = "READER"
  <2>1. PhaseReader(O)
    BY <1>1, <1>6, PhaseAtRest
  <2>2. PhaseReader(O)'
    BY <1>1, <1>2, <1>3, <1>4, <2>1 DEF PhaseReader
  <2> QED
    BY <1>2, <2>2 DEF Consistent, Phase
<1> QED
  BY <1>1, <1>5, <1>6

\* A journal that a connection does not take for hot is none.
LEMMA ColdWhenNotHot ==
    ASSUME Types, NEW O \in Images, Suspended(O), Len(db) > 0,
           IsFile(jrnl) /\ Len(db) > 0 => StartsZero
    PROVE  Settled(O)
<1>1. CASE Cold(jrnl)
  BY <1>1 DEF Suspended, Hot, RollsBack
<1>2. CASE ~Cold(jrnl)
  <2>1. IsFile(jrnl) /\ Len(jrnl) > 0 /\ HasMagic(jrnl[1])
    BY <1>2, NoFileIsCold DEF IsFile, Cold, Ends
  <2>2. ~StartsZero
    BY <2>1 DEF StartsZero
  <2> QED
    BY <2>1, <2>2
<1> QED
  BY <1>1, <1>2

LEMMA JournalModeStep ==
    ASSUME Types, Types', NEW O \in Images, StandsFor(O, outcomes), Phase(O),
           NEW mode \in Modes, sqlite3PagerSetJournalMode(mode)
    PROVE  Consistent'
<1>1. /\ AtRest /\ eState \in {"OPEN", "READER", "WRITER_LOCKED"}
      /\ UNCHANGED <<eState, sizes, pcache, inJournal, journalOff, journalHdr,
                     nRec, cksumInit, left, jrnlDur, jrnlNew, dbfile, lost, bounds>>
  BY DEF sqlite3PagerSetJournalMode, jfile, jstate
<1>2. UNCHANGED <<dbSize, dbOrigSize, dbFileSize, cache, dirty, needSync, inJournal, db, dbDur, txn>>
  BY <1>1 DEF sizes, pcache, dbfile, bounds
<1>3. /\ Coherent => Coherent'
      /\ Current => Current'
      /\ NothingDirty => NothingDirty'
  BY <1>2 DEF Coherent, Current, Matches, Cached, NothingDirty
<1>4. /\ eState # "WRITER_LOCKED" => call.at = "idle"
      /\ eState = "OPEN" => PhaseOpen(O)
      /\ eState = "READER" => PhaseReader(O)
      /\ eState = "WRITER_LOCKED" => PhaseLocked(O)
  BY <1>1, PhaseAtRest
<1>5. Suspended(O)
  BY <1>1, <1>4 DEF PhaseOpen, PhaseReader, PhaseLocked, Suspended
<1>6. CASE UNCHANGED <<jrnl, outcomes>> /\ eState = "OPEN" /\ jfdOpen' = TRUE
           /\ call' = [op |-> "SharedLock", pg |-> 0, at |-> "syncHot"]
  <2>1. StandsFor(O, outcomes') /\ (Settled(O) => Settled(O)') /\ (Hot(O) => Hot(O)')
    BY <1>1, <1>6, SameFiles DEF jfile, history
  <2>2. PhaseOpen(O)'
    BY <1>1, <1>2, <1>3, <1>4, <1>6, <2>1 DEF PhaseOpen, Between
  <2> QED
    BY <2>1, <2>2 DEF Consistent, Phase
<1>7. CASE UNCHANGED <<call, jrnl, jfdOpen, outcomes>>
  <2>1. StandsFor(O, outcomes') /\ (Settled(O) => Settled(O)') /\ (Hot(O) => Hot(O)')
    BY <1>1, <1>7, SameFiles DEF jfile, history
  <2>2. CASE eState = "OPEN"
    <3>1. PhaseOpen(O)'
      BY <1>1, <1>2, <1>3, <1>4, <1>7, <2>1, <2>2 DEF PhaseOpen, Between
    <3> QED
      BY <2>1, <3>1 DEF Consistent, Phase
  <2>3. CASE eState = "READER"
    <3>1. PhaseReader(O)'
      BY <1>1, <1>2, <1>3, <1>4, <1>7, <2>1, <2>3 DEF PhaseReader, Between
    <3> QED
      BY <2>1, <3>1 DEF Consistent, Phase
  <2>4. CASE eState = "WRITER_LOCKED"
    <3>1. PhaseLocked(O)'
      BY <1>1, <1>2, <1>3, <1>4, <1>7, <2>1, <2>4 DEF PhaseLocked, Between, Untouched
    <3> QED
      BY <2>1, <3>1 DEF Consistent, Phase
  <2> QED
    BY <1>1, <2>2, <2>3, <2>4
<1>8. CASE /\ jrnl' \in {jrnl, NoFile} /\ ~jfdOpen' /\ UNCHANGED call
           /\ outcomes' = {image \in outcomes : eState = "OPEN" => Holds(db, image)}
           /\ eState # "OPEN" \/ (IsFile(jrnl) /\ Len(db) > 0 => StartsZero)
  <2>1. Settled(O)
    <3>1. CASE eState = "OPEN"
      <4>1. Len(db) > 0
        BY <1>5, SuspendedIsNotEmpty
      <4> QED
        BY <1>5, <1>8, <3>1, <4>1, ColdWhenNotHot
    <3>2. CASE eState # "OPEN"
      BY <1>1, <1>4, <3>2 DEF PhaseReader, PhaseLocked
    <3> QED
      BY <3>1, <3>2
  <2>2. outcomes' = {image \in outcomes : Holds(db, image)} \/ outcomes' = outcomes
    BY <1>8
  <2>3. Found' = Found
    BY <1>1, <1>2, <2>2, FilteredFound
  <2>4. Settled(O)' /\ StandsFor(O, outcomes')
    BY <1>1, <1>2, <1>8, <2>1, <2>2, <2>3, JournalDeleted, FilteredStandsFor
  <2>5. CASE eState = "OPEN"
    <3>1. Coherent
      BY <1>4, <2>5 DEF PhaseOpen, Coherent, Cached, EmptyCache
    <3>2. PhaseOpen(O)'
      BY <1>1, <1>2, <1>3, <1>4, <1>8, <2>4, <2>5, <3>1 DEF PhaseOpen, Between
    <3> QED
      BY <2>4, <3>2 DEF Consistent, Phase
  <2>6. CASE eState = "READER"
    <3>1. PhaseReader(O)'
      BY <1>1, <1>2, <1>3, <1>4, <1>8, <2>4, <2>6 DEF PhaseReader, Between
    <3> QED
      BY <2>4, <3>1 DEF Consistent, Phase
  <2>7. CASE eState = "WRITER_LOCKED"
    <3>1. Untouched'
      <4>1. CASE jrnl' = jrnl
        BY <1>2, <1>4, <2>7, <4>1 DEF PhaseLocked, Untouched
      <4>2. CASE jrnl' = NoFile
        BY <4>2 DEF Untouched, NoFile, OfTxn
      <4> QED
        BY <1>8, <4>1, <4>2
    <3>2. PhaseLocked(O)
      BY <1>4, <2>7
    <3>3. /\ UNCHANGED <<call, dbSize, dbOrigSize, dbFileSize, dirty, inJournal, cache, db>>
          /\ eState' = "WRITER_LOCKED" /\ call.at # "syncHot"
      BY <1>1, <1>2, <1>8, <2>7 DEF AtRest
    <3>4. Between("none", {"idle", "restored", "failedWrite"})'
      BY <3>2, <3>3 DEF PhaseLocked, Between
    <3>5. NothingDirty' /\ Current' /\ Settled(O)'
      BY <1>3, <2>4, <3>2 DEF PhaseLocked
    <3>6. inJournal' = {} /\ Len(O) = dbSize' /\ dbOrigSize' = dbSize' /\ dbFileSize' <= dbSize'
      BY <3>2, <3>3 DEF PhaseLocked
    <3>7. PhaseLocked(O)'
      BY ONLY <3>1, <3>3, <3>4, <3>5, <3>6 DEF PhaseLocked
    <3> QED
      BY <2>4, <3>7 DEF Consistent, Phase
  <2> QED
    BY <1>1, <2>5, <2>6, <2>7
<1> QED
  BY <1>6, <1>7, <1>8 DEF sqlite3PagerSetJournalMode, Calling, jfile, jstate

\* What a playback of the journal would do, whether it is hot or not.
LEMMA SuspendedPlays ==
    ASSUME Types, NEW O \in Images, StandsFor(O, outcomes), Suspended(O)
    PROVE  \E t \in Nat, k \in Nat :
              /\ Chain(jrnl, O, t, k) /\ Covered(db, dbDur, jrnl, O, k)
              /\ k = 0 => Settled(O)
              /\ k > 0 => Hot(O) /\ IsFile(jrnl)
<1>1. CASE Settled(O)
  <2>1. Cold(jrnl) /\ AllDurably(db, dbDur, O)
    BY <1>1 DEF Settled, Settles, NoJournal
  <2>2. Chain(jrnl, O, 0, 0)
    BY <2>1, FilesAre, NoSegments
  <2>3. Covered(db, dbDur, jrnl, O, 0)
    BY <2>1, FilesAre, AllDurablyCovers DEF StandsFor
  <2> QED
    BY <1>1, <2>2, <2>3
<1>2. CASE Hot(O)
  <2>1. PICK t \in Nat, n \in Nat : Keeps(db, dbDur, jrnl, jrnlDur, jrnlNew, O, t, n)
    BY <1>2 DEF Hot, RollsBack
  <2>2. PICK k \in Nat : n <= k /\ Chain(jrnl, O, t, k) /\ Covered(db, dbDur, jrnl, O, k)
    BY <2>1, FilesAre, KeptIsPlayedBack
  <2>3. k # 0
    BY <1>2, <2>2, FilesAre, NoSegments DEF Hot, RollsBack
  <2>4. IsFile(jrnl)
    BY <2>1 DEF Keeps
  <2> QED
    BY <1>2, <2>2, <2>3, <2>4
<1> QED
  BY <1>1, <1>2 DEF Suspended

\* The sync of a journal that is read as it is.
LEMMA JournalSynced ==
    ASSUME Types, NEW O \in Images, StandsFor(O, outcomes), Suspended(O),
           SyncedJournal(jrnl), UNCHANGED <<db, dbDur, outcomes>>
    PROVE  /\ StandsFor(O, outcomes') /\ jrnl' = jrnl /\ jrnlDur' = jrnl /\ ~jrnlNew' /\ lost' = {}
           /\ IF Settled(O) THEN Settled(O)' ELSE Hot(O)'
<1>1. jrnl' = jrnl /\ jrnlDur' = jrnl /\ jrnlNew' = FALSE /\ lost' = {}
  BY DEF SyncedJournal
<1>2. Found' = FoundIn(db, outcomes, {})
  BY <1>1 DEF Found
<1>3. CASE Settled(O)
  <2>1. AllDurably(db, dbDur, O) /\ SyncedPrefix(db, dbDur) /\ Cold(jrnl)
    BY <1>3 DEF Settled, Settles, NoJournal
  <2>2. Settles(db, dbDur, jrnl, jrnl, FALSE, FoundIn(db, outcomes, {}), O)
    BY <2>1, FilesAre, ColdIsSettled
  <2>3. Settled(O)'
    BY <1>1, <1>2, <2>2 DEF Settled
  <2> QED
    BY <1>1, <1>3, <2>3
<1>4. CASE ~Settled(O)
  <2>1. PICK t \in Nat, k \in Nat :
              /\ Chain(jrnl, O, t, k) /\ Covered(db, dbDur, jrnl, O, k)
              /\ k = 0 => Settled(O)
              /\ k > 0 => Hot(O) /\ IsFile(jrnl)
    BY SuspendedPlays
  <2>2. k > 0 /\ Hot(O) /\ IsFile(jrnl)
    BY <1>4, <2>1
  <2>3. RollsBack(db, dbDur, jrnl, jrnl, FALSE, O)
    <3>1. k # 0
      BY <2>2
    <3>2. IF k = 0 THEN Settles(db, dbDur, jrnl, jrnl, FALSE, FoundIn(db, outcomes, lost), O)
          ELSE RollsBack(db, dbDur, jrnl, jrnl, FALSE, O)
      BY <2>1, <2>2, <3>1, FilesAre, PlaybackSuspends
    <3> QED
      BY <3>1, <3>2
  <2>4. Hot(O)'
    BY <1>1, <2>3 DEF Hot
  <2> QED
    BY <1>1, <1>4, <2>4
<1> QED
  BY <1>3, <1>4

LEMMA SyncHotStep ==
    ASSUME Types, Types', NEW O \in Images, StandsFor(O, outcomes), Phase(O), pagerSyncHotJournal
    PROVE  Consistent'
<1>1. call.at = "syncHot" /\ UNCHANGED <<db, dbDur, outcomes, settings, txn, crash>>
  BY DEF pagerSyncHotJournal, dbfile
<1>2. \/ PhaseOpen(O) /\ call.op = "SharedLock"
      \/ call.op = "Close" /\ (PhaseReader(O) \/ PhaseLocked(O) \/ PhaseWriteClose(O) \/ PhaseError(O))
  BY <1>1, PhaseInCall
<1>3. Suspended(O)
  <2>1. CASE PhaseWriteClose(O)
    BY <2>1, GuardedIsSuspended DEF PhaseWriteClose, Protects
  <2> QED
    BY <1>2, <2>1 DEF PhaseOpen, PhaseReader, PhaseLocked, PhaseError, Suspended
<1>4. CASE GiveUp /\ UNCHANGED <<jfile, lost>>
  <2>1. StandsFor(O, outcomes') /\ Suspended(O)'
    BY <1>1, <1>3, <1>4, SameFiles DEF dbfile, history
  <2> QED
    BY <1>2, <1>4, <2>1, LandsGivenUp
<1>5. CASE SyncedJournal(jrnl) /\ eState \in {"READER", "ERROR"} /\ pager_unlock(TRUE)
  <2>1. StandsFor(O, outcomes') /\ Suspended(O)'
    BY <1>1, <1>3, <1>5, JournalSynced DEF Suspended
  <2> QED
    BY <1>5, <2>1, LandsOpen
<1>6. CASE /\ SyncedJournal(jrnl) /\ eState = "WRITER_LOCKED"
           /\ call' = [call EXCEPT !.at = "finalize"]
           /\ UNCHANGED <<eState, dbSize, cache, dirty, needSync, jfdOpen>>
  <2>1. PhaseLocked(O) /\ call.op = "Close"
    BY <1>2, <1>6 DEF PhaseOpen, PhaseReader, PhaseWriteClose, PhaseError, InTxn
  <2>2. Settled(O) /\ cache = EmptyCache /\ NothingDirty /\ jfdOpen
    BY <1>1, <2>1 DEF PhaseLocked, Between
  <2>3. Settled(O)' /\ StandsFor(O, outcomes')
    BY <1>1, <1>3, <1>6, <2>2, JournalSynced
  <2>4. call'.at = "finalize" /\ call'.op = "Close"
    BY <1>1, <1>6, <2>1 DEF Types, TypesOfCalls
  <2>5. Coherent' /\ NothingDirty'
    BY <1>6, <2>2 DEF Coherent, Cached, EmptyCache, NothingDirty
  <2>6. AllDurably(db, dbDur, O) /\ SyncedPrefix(db, dbDur)
    BY <2>2 DEF Settled, Settles
  <2>7. Ending(O)'
    BY <1>1, <1>6, <2>2, <2>4, <2>5, <2>6 DEF Ending
  <2>8. PhaseFinalize(O)'
    BY <2>3, <2>4, <2>7 DEF PhaseFinalize, Suspended
  <2> QED
    BY <2>3, <2>8 DEF Consistent, Phase
<1>7. CASE /\ SyncedJournal(jrnl) /\ eState \notin {"READER", "ERROR", "WRITER_LOCKED"}
           /\ call' = [call EXCEPT !.at = "readHdr"] /\ journalOff' = 0 /\ journalHdr' = Len(jrnl)
           /\ UNCHANGED <<eState, dbSize, cache, dirty, needSync, jfdOpen>>
  <2>1. (PhaseOpen(O) /\ call.op = "SharedLock") \/ (PhaseWriteClose(O) /\ call.op = "Close")
    BY <1>2, <1>7 DEF PhaseReader, PhaseLocked, PhaseError
  <2>2. /\ jfdOpen /\ NothingDirty /\ Coherent
        /\ (eState = "OPEN" /\ call.op = "SharedLock") \/ (InTxn /\ call.op = "Close")
    BY <1>1, <2>1 DEF PhaseOpen, PhaseWriteClose, Between, Coherent, Cached, EmptyCache
  <2>3. StandsFor(O, outcomes') /\ jrnl' = jrnl /\ jrnlDur' = jrnl /\ ~jrnlNew' /\ lost' = {}
    BY <1>1, <1>3, <1>7, JournalSynced
  <2>4. PICK t \in Nat, k \in Nat :
              /\ Chain(jrnl, O, t, k) /\ Covered(db, dbDur, jrnl, O, k)
              /\ k = 0 => Settled(O)
              /\ k > 0 => Hot(O) /\ IsFile(jrnl)
    BY <1>3, SuspendedPlays
  <2>5. k > 0 => cache = EmptyCache
    <3>1. Hot(O) => ~Settled(O)
      BY DEF Hot, Settled, RollsBack, Settles, NoJournal
    <3> QED
      BY <2>1, <2>4, <3>1 DEF PhaseOpen, PhaseWriteClose
  <2>6. k = 0 \/ ~MayWriteDb => SyncedPrefix(db, dbDur) /\ AllDurably(db, dbDur, O)
    <3>1. CASE k = 0
      BY <2>4, <3>1 DEF Settled, Settles
    <3>2. CASE ~MayWriteDb
      <4>1. PhaseWriteClose(O) /\ eState = "WRITER_CACHEMOD"
        BY <2>1, <3>2 DEF PhaseOpen, PhaseWriteClose, InTxn, MayWriteDb
      <4> QED
        BY <4>1 DEF PhaseWriteClose, Protects, Guarded, Guards
    <3> QED
      BY <3>1, <3>2
  <2>7. call'.at = "readHdr" /\ call'.op = call.op
    BY <1>1, <1>7 DEF Types, TypesOfCalls
  <2>8. PlaysHot(O, t, k)'
    <3>1. Restored(db, jrnl, O, 0, k)
      BY <2>4 DEF Covered, Restored, Durably
    <3>2. k = 0 \/ jrnl[1].kind = "hdr"
      BY <2>4 DEF Chain, Segments
    <3>3. MayWriteDb' = MayWriteDb
      BY <1>7 DEF MayWriteDb
    <3> QED
      BY <1>1, <1>7, <2>3, <2>4, <2>5, <2>6, <2>7, <3>1, <3>2, <3>3 DEF PlaysHot
  <2>9. Coherent' /\ NothingDirty' /\ (InTxn => InTxn')
    BY <1>1, <1>7, <2>2 DEF Coherent, Cached, NothingDirty, InTxn
  <2>10. PhaseHot(O)'
    BY <1>7, <2>2, <2>3, <2>7, <2>8, <2>9 DEF PhaseHot, Between
  <2> QED
    BY <2>3, <2>10 DEF Consistent, Phase
<1> QED
  BY <1>4, <1>5, <1>6, <1>7 DEF pagerSyncHotJournal, Goto, sizes, pcache

-----------------------------------------------------------------------------
(* Rolling back.                                                           *)

\* A page that the journal has is overwritten.
LEMMA RecordedPageWritten ==
    ASSUME NEW d \in Images, NEW m \in Images, NEW f \in Journals, NEW g, NEW new,
           NEW O \in Images, NEW t, NEW n \in Nat, n <= Len(f),
           NEW i \in 1 .. n, f[i].kind = "rec", f[i].pg \in Page, NEW v \in Content
    PROVE  /\ Keeps(d, m, f, g, new, O, t, n) =>
                 Keeps(WriteAt(d, f[i].pg, v, 0), m, f, g, new, O, t, n)
           /\ Covered(d, m, f, O, n) => Covered(WriteAt(d, f[i].pg, v, 0), m, f, O, n)
<1> DEFINE p == f[i].pg
           x == WriteAt(d, f[i].pg, v, 0)
<1>1. Len(x) > 0
  BY PageWritten
<1>2. ASSUME NEW q \in 1 .. Len(O), Durably(d, m, O, q)
      PROVE  Durably(x, m, O, q) \/ Recorded(f, 0, n, q)
  <2>1. CASE q = p
    BY <2>1 DEF Recorded
  <2>2. CASE q # p
    BY <1>2, <2>2, PageWriteKeeps
  <2> QED
    BY <2>1, <2>2
<1> HIDE DEF x
<1>3. Keeps(d, m, f, g, new, O, t, n) => Len(m) > 0
  BY DEF Keeps, Covered
<1>4. Covered(d, m, f, O, n) => Len(m) > 0
  BY DEF Covered
<1>5. Keeps(d, m, f, g, new, O, t, n) => Keeps(x, m, f, g, new, O, t, n)
  BY <1>1, <1>2, <1>3, WriteKeeps
<1>6. Covered(d, m, f, O, n) => Covered(x, m, f, O, n)
  BY <1>1, <1>2, <1>4, WriteKeepsCover
<1> QED
  BY <1>5, <1>6 DEF x

\* The file gets the size of the original.
LEMMA ResizedKeeps ==
    ASSUME NEW d \in Images, NEW m \in Images, NEW f, NEW g, NEW new,
           NEW O \in Images, Len(O) \in Page, NEW t, NEW n \in Nat, NEW x,
           x = IF Len(d) < Len(O) THEN WriteAt(d, Len(O), 0, 0) ELSE Cut(d, Len(O))
    PROVE  /\ Keeps(d, m, f, g, new, O, t, n) => Keeps(x, m, f, g, new, O, t, n)
           /\ Covered(d, m, f, O, n) => Covered(x, m, f, O, n)
<1>1. /\ x \in Images /\ Len(x) = Len(O)
      /\ Restored(d, f, O, 0, 0) => Restored(x, f, O, 0, 0)
      /\ \A p \in 1 .. Len(O) : Durably(d, m, O, p) => Durably(x, m, O, p)
  BY FileResized
<1>2. Len(x) > 0
  BY <1>1, PagerAssumption DEF Page
<1>3. Keeps(d, m, f, g, new, O, t, n) => Len(m) > 0
  BY DEF Keeps, Covered
<1>4. Covered(d, m, f, O, n) => Len(m) > 0
  BY DEF Covered
<1>5. Keeps(d, m, f, g, new, O, t, n) => Keeps(x, m, f, g, new, O, t, n)
  BY <1>1, <1>2, <1>3, WriteKeeps
<1>6. Covered(d, m, f, O, n) => Covered(x, m, f, O, n)
  BY <1>1, <1>2, <1>4, WriteKeepsCover
<1> QED
  BY <1>5, <1>6

\* A transaction that is given up after a step.
LEMMA GuardedNext ==
    ASSUME Types', NEW O \in Images, StandsFor(O, outcomes'), NEW t \in Nat, NEW n \in Nat,
           Guards(db', dbDur', jrnl', jrnlDur', jrnlNew', Found', O, t, n)
    PROVE  Suspended(O)'
<1>1. Found' = FoundIn(db', outcomes', lost')
  BY DEF Found
<1>2. \/ Settles(db', dbDur', jrnl', jrnlDur', jrnlNew', Found', O)
      \/ RollsBack(db', dbDur', jrnl', jrnlDur', jrnlNew', O)
  BY <1>1, FilesAreNext, GuardedSuspends
<1> QED
  BY <1>2 DEF Suspended, Settled, Hot

\* The same for a playback.
LEMMA PlaybackNext ==
    ASSUME Types', NEW O \in Images, StandsFor(O, outcomes'), NEW t \in Nat, NEW n \in Nat,
           IsFile(jrnl'), jrnlDur' = jrnl', ~jrnlNew',
           Chain(jrnl', O, t, n), Covered(db', dbDur', jrnl', O, n),
           n = 0 => SyncedPrefix(db', dbDur') /\ AllDurably(db', dbDur', O)
    PROVE  Suspended(O)' /\ (n = 0 => Settled(O)')
<1>1. Found' = FoundIn(db', outcomes', lost') /\ jrnlNew' = FALSE
  BY FilesAreNext DEF Found
<1>2. IF n = 0 THEN Settles(db', dbDur', jrnl', jrnl', FALSE, FoundIn(db', outcomes', lost'), O)
      ELSE RollsBack(db', dbDur', jrnl', jrnl', FALSE, O)
  BY <1>1, FilesAreNext, PlaybackSuspends
<1>3. IF n = 0 THEN Settles(db', dbDur', jrnl', jrnlDur', jrnlNew', Found', O)
      ELSE RollsBack(db', dbDur', jrnl', jrnlDur', jrnlNew', O)
  BY <1>1, <1>2
<1> QED
  BY <1>3 DEF Suspended, Settled, Hot

\* The header at which a rollback is.
LEMMA HeaderAt ==
    ASSUME Types, ~AlignedEnd, NEW O \in Images, InTxn, call.op = "Rollback", call.at = "readHdr",
           NEW e \in Nat, PlaysBack(O, e)
    PROVE  /\ NoHeader(journalOff + 1) => e <= journalOff
           /\ ~NoHeader(journalOff + 1) =>
                 /\ journalOff + 1 <= Len(jrnl) /\ journalOff + 1 <= e
                 /\ jrnl[journalOff + 1].kind = "hdr"
                 /\ jrnl[journalOff + 1].nonce = <<txn, journalOff>>
                 /\ jrnl[journalOff + 1].size = Len(O)
                 /\ journalOff <= journalHdr
                 /\ SegmentLength(journalOff + 1) =
                       IF journalOff < journalHdr THEN jrnl[journalOff + 1].nRec
                       ELSE IF jrnl[journalOff + 1].nRec = 0 THEN Len(jrnl) - (journalOff + 1)
                       ELSE e - (journalOff + 1)
<1> DEFINE pos == journalOff + 1
<1>1. /\ Own(jrnl, O, txn, journalHdr, e) /\ jrnl \in Journals /\ Len(jrnl) \in Nat
      /\ journalOff \in Nat /\ journalHdr \in Nat /\ txn \in Nat
  BY FilesAre DEF PlaysBack, OwnJournal, Journals
<1>2. /\ 0 < e /\ journalHdr <= e /\ e <= Len(jrnl) /\ Segments(jrnl, O, txn, journalHdr)
      /\ journalHdr < e => LastSegment(jrnl, O, txn, journalHdr, e)
      /\ journalHdr = e => Ends(jrnl, e)
      /\ \A i \in e + 1 .. Len(jrnl) : OfTxn(jrnl[i], txn) => jrnl[i].kind = "rec"
  BY <1>1 DEF Own
<1>3. ~IsHot /\ (AtJournalHdr(pos) <=> journalOff = journalHdr /\ jrnl[pos].kind = "hdr"
                                        /\ jrnl[pos].nonce = <<txn, journalOff>>)
  BY DEF IsHot, AtJournalHdr
<1>4. \/ journalOff = journalHdr
      \/ journalOff < journalHdr /\ jrnl[journalOff + 1].kind = "hdr"
      \/ journalOff > journalHdr /\ journalOff = Len(jrnl)
      \/ journalOff > journalHdr /\ journalOff = e /\ jrnl[journalHdr + 1].nRec # 0
  BY DEF PlaysBack
<1>5. CASE journalOff = journalHdr /\ journalHdr < e
  <2>1. /\ jrnl[pos].kind = "hdr" /\ jrnl[pos].nonce = <<txn, journalOff>> /\ jrnl[pos].size = Len(O)
        /\ jrnl[pos].nRec \in {0, e - pos}
    BY <1>1, <1>2, <1>5 DEF LastSegment
  <2>2. AtJournalHdr(pos)
    BY <1>3, <1>5, <2>1
  <2>3. pos <= Len(jrnl) /\ pos <= e /\ ~NoHeader(pos)
    BY <1>1, <1>2, <1>3, <1>5, <2>1, <2>2 DEF NoHeader
  <2>4. SegmentLength(pos) = IF jrnl[pos].nRec = 0 THEN Len(jrnl) - pos ELSE e - pos
    BY <1>3, <2>1, <2>2 DEF SegmentLength
  <2> QED
    BY <1>1, <1>5, <2>1, <2>3, <2>4
<1>6. CASE journalOff = journalHdr /\ journalHdr = e
  <2>1. pos <= Len(jrnl) => ~HasMagic(jrnl[pos])
    BY <1>1, <1>2, <1>6 DEF Ends
  <2>2. pos <= Len(jrnl) => ~AtJournalHdr(pos)
    <3> SUFFICES ASSUME pos <= Len(jrnl), AtJournalHdr(pos) PROVE FALSE
      OBVIOUS
    <3>1. OfTxn(jrnl[pos], txn)
      BY <1>3 DEF OfTxn
    <3> QED
      BY <1>1, <1>2, <1>3, <1>6, <3>1
  <2>3. NoHeader(pos)
    BY <2>1, <2>2 DEF NoHeader
  <2> QED
    BY <1>1, <1>6, <2>3
<1>7. CASE journalOff < journalHdr /\ jrnl[pos].kind = "hdr"
  <2>1. HasMagic(jrnl[pos]) /\ jrnl[pos].nonce = <<txn, journalOff>> /\ jrnl[pos].size = Len(O)
    <3>1. pos \in 1 .. journalHdr /\ pos - 1 = journalOff
      BY <1>1, <1>7
    <3> QED
      BY SMTT(40), <1>1, <1>2, <1>7, <3>1, SegmentsNext
  <2>2. pos <= Len(jrnl) /\ pos <= e /\ ~NoHeader(pos) /\ SegmentLength(pos) = jrnl[pos].nRec
    BY <1>1, <1>2, <1>3, <1>7, <2>1 DEF NoHeader, SegmentLength
  <2> QED
    BY <1>1, <1>7, <2>1, <2>2
<1>8. CASE journalOff > journalHdr /\ journalOff = Len(jrnl)
  BY <1>1, <1>2, <1>8 DEF NoHeader
<1>9. CASE journalOff > journalHdr /\ journalOff = e /\ jrnl[journalHdr + 1].nRec # 0
  <2>1. Ends(jrnl, e)
    BY <1>1, <1>2, <1>9 DEF LastSegment
  <2>2. NoHeader(pos)
    BY <1>1, <1>3, <1>9, <2>1 DEF NoHeader, Ends
  <2> QED
    BY <1>1, <1>9, <2>2
<1>10. journalHdr < e \/ journalHdr = e
  BY <1>1, <1>2
<1> QED
  BY <1>4, <1>5, <1>6, <1>7, <1>8, <1>9, <1>10

LEMMA GoesTo ==
    ASSUME Types, NEW at, call' = [call EXCEPT !.at = at]
    PROVE  call'.op = call.op /\ call'.at = at /\ call'.pg = call.pg
BY DEF Types, TypesOfCalls

\* A rollback that is given up leaves its journal behind.
LEMMA BackGivenUp ==
    ASSUME Types, Types', NEW O \in Images, StandsFor(O, outcomes), Protects(O), call.op = "Rollback",
           UNCHANGED <<dbfile, jfile, history>>, GiveUp
    PROVE  Consistent'
<1>1. Suspended(O)
  BY GuardedIsSuspended DEF Protects
<1>2. Suspended(O)' /\ StandsFor(O, outcomes')
  BY <1>1, SameFiles
<1> QED
  BY <1>2, LandsGivenUp

\* A rollback goes on.
LEMMA BackGoesOn ==
    ASSUME Types', NEW O \in Images, StandsFor(O, outcomes), InTxn, call.op = "Rollback",
           UNCHANGED <<eState, history, journalHdr>>, NEW at \in {"readHdr", "playRec", "playSync"},
           Types, call' = [call EXCEPT !.at = at],
           Guarded(O)', Protects(O), NEW e \in Nat, PlaysBack(O, e)'
    PROVE  Consistent'
<1>1. call'.op = "Rollback" /\ call'.at = at
  BY GoesTo
<1>2. InTxn' /\ Protects(O)' /\ StandsFor(O, outcomes')
  BY DEF InTxn, Protects, history
<1>3. PhaseBack(O)'
  BY <1>1, <1>2 DEF PhaseBack, Between
<1> QED
  BY <1>2, <1>3 DEF Consistent, Phase

LEMMA BackHeader ==
    ASSUME Types, Types', ~AlignedEnd, NEW O \in Images, StandsFor(O, outcomes), PhaseBack(O),
           PlaybackHeader
    PROVE  Consistent'
<1> DEFINE pos == journalOff + 1
<1>1. /\ call.at = "readHdr" /\ call.op = "Rollback" /\ InTxn /\ Protects(O)
      /\ UNCHANGED <<dbDur, jfile, history, settings, txn, crash>>
  BY DEF PhaseBack, PlaybackHeader, Between
<1>2. PICK e \in Nat : PlaysBack(O, e)
  BY DEF PhaseBack
<1>3. /\ Own(jrnl, O, txn, journalHdr, e) /\ jrnl \in Journals /\ Len(jrnl) \in Nat
      /\ journalOff \in Nat /\ journalHdr \in Nat /\ txn \in Nat /\ db \in Images /\ dbDur \in Images
      /\ Len(db) \in Nat /\ jrnlDur \in Journals
  BY <1>2, FilesAre DEF PlaysBack, OwnJournal, Journals, Images
<1>4. 0 < e /\ journalHdr <= e /\ e <= Len(jrnl) /\ Segments(jrnl, O, txn, journalHdr)
  BY <1>3 DEF Own
<1>5. Len(O) \in Page /\ jfdOpen /\ Len(O) = dbOrigSize
  <2>1. jfdOpen /\ Len(O) = dbOrigSize /\ Len(O) > 0
    BY <1>2 DEF PlaysBack, OwnJournal, StandsFor
  <2> QED
    BY <2>1, FilesAre DEF Types, TypesOfCache, Page
<1>6. CASE NoHeader(pos) /\ call' = [call EXCEPT !.at = "playSync"]
           /\ UNCHANGED <<eState, sizes, pcache, jstate, left, db>>
  <2>1. e <= journalOff
    BY <1>1, <1>2, <1>6, HeaderAt
  <2>2. UNCHANGED <<jrnl, txn, journalHdr, journalOff, jfdOpen, dbOrigSize, dbSize, cache, db, dbDur,
                    jrnlDur, jrnlNew, eState, Found>>
    BY <1>1, <1>6 DEF jfile, sizes, pcache, jstate, Found, history
  <2>3. call'.at = "playSync"
    BY <1>6, GoesTo
  <2>4. PlaysBack(O, e)'
    BY <1>2, <2>1, <2>2, <2>3 DEF PlaysBack, OwnJournal, MayWriteDb
  <2>5. Guarded(O)'
    BY <1>1, <2>2 DEF Protects, Guarded
  <2> QED
    BY <1>1, <1>6, <2>2, <2>4, <2>5, BackGoesOn
<1>7. CASE GiveUp /\ UNCHANGED db
  BY <1>1, <1>7, BackGivenUp DEF dbfile
<1>8. CASE /\ ~NoHeader(pos)
           /\ journalOff' = pos /\ cksumInit' = jrnl[pos].nonce /\ left' = SegmentLength(pos)
           /\ dbSize' = IF journalOff = 0 THEN jrnl[pos].size ELSE dbSize
           /\ db' = IF journalOff = 0 /\ MayWriteDb THEN Resized(jrnl[pos].size) ELSE db
           /\ cache' = IF IsHot /\ left' > 0 THEN EmptyCache ELSE cache
           /\ call' = [call EXCEPT !.at = IF left' = 0 THEN "readHdr" ELSE "playRec"]
           /\ UNCHANGED <<eState, dbOrigSize, dirty, needSync, inJournal, jfdOpen, journalHdr, nRec>>
  <2>1. /\ pos <= Len(jrnl) /\ pos <= e
        /\ jrnl[pos].kind = "hdr" /\ jrnl[pos].nonce = <<txn, journalOff>>
        /\ jrnl[pos].size = Len(O) /\ journalOff <= journalHdr
        /\ SegmentLength(pos) = IF journalOff < journalHdr THEN jrnl[pos].nRec
                                ELSE IF jrnl[pos].nRec = 0 THEN Len(jrnl) - pos
                                ELSE e - pos
    BY <1>1, <1>2, <1>8, HeaderAt
  <2>2. /\ UNCHANGED <<jrnl, txn, journalHdr, jfdOpen, dbOrigSize, dbDur, jrnlDur, jrnlNew, eState, cache>>
        /\ MayWriteDb' = MayWriteDb
    BY <1>1, <1>8 DEF jfile, MayWriteDb, IsHot
  <2>3. jrnl[pos].nRec \in Nat /\ left' \in Nat
    <3>1. jrnl[pos].nRec \in Nat
      BY <1>3, <2>1, JournalSlotIs
    <3> QED
      BY <1>3, <1>8, <2>1, <3>1
  <2>4. journalOff < journalHdr =>
           pos + jrnl[pos].nRec <= journalHdr
           /\ (pos + jrnl[pos].nRec < journalHdr => jrnl[pos + jrnl[pos].nRec + 1].kind = "hdr")
    <3>1. journalOff < journalHdr => pos \in 1 .. journalHdr
      BY <1>3
    <3> QED
      BY <1>3, <1>4, <2>1, <3>1, SegmentsNext
  <2>5. /\ dbSize' = Len(O)
        /\ MayWriteDb => Len(db') = Len(O)
        /\ MayWriteDb => Restored(db', jrnl, O, journalOff, journalHdr)
    <3>1. CASE journalOff = 0 /\ MayWriteDb
      <4>1. db' = IF Len(db) < Len(O) THEN WriteAt(db, Len(O), 0, 0) ELSE Cut(db, Len(O))
        BY <1>8, <2>1, <3>1 DEF Resized
      <4>2. /\ db' \in Images /\ Len(db') = Len(O)
            /\ Restored(db, jrnl, O, journalOff, journalHdr) => Restored(db', jrnl, O, journalOff, journalHdr)
            /\ \A p \in 1 .. Len(O) : Durably(db, dbDur, O, p) => Durably(db', dbDur, O, p)
        BY <1>3, <1>5, <4>1, FileResized
      <4> QED
        BY <1>2, <1>8, <2>1, <3>1, <4>2 DEF PlaysBack
    <3>2. CASE journalOff # 0
      BY <1>2, <1>3, <1>8, <3>2 DEF PlaysBack
    <3>3. CASE journalOff = 0 /\ ~MayWriteDb
      BY <1>8, <2>1, <3>3
    <3> QED
      BY <3>1, <3>2, <3>3
  <2>6. /\ MayWriteDb => Restored(db', jrnl, O, pos, journalHdr)
        /\ Remembered(cache, jrnl, O, pos, e)
    <3>1. Remembered(cache, jrnl, O, journalOff, e)
      BY <1>2 DEF PlaysBack
    <3>2. jrnl[journalOff + 1].kind # "rec"
      BY <2>1
    <3> QED
      BY <1>3, <2>5, <3>1, <3>2, SlotSkipped
  <2>7. Guarded(O)'
    <3>1. CASE journalOff = 0 /\ MayWriteDb
      <4>1. journalHdr > 0 /\ Guarded(O)
        BY <1>1, <1>3, <3>1 DEF Protects, InTxn, MayWriteDb
      <4>2. Keeps(db, dbDur, jrnl, jrnlDur, jrnlNew, O, txn, journalHdr)
        BY <4>1 DEF Guarded, Guards
      <4>3. db' = IF Len(db) < Len(O) THEN WriteAt(db, Len(O), 0, 0) ELSE Cut(db, Len(O))
        BY <1>8, <2>1, <3>1 DEF Resized
      <4>4. Keeps(db', dbDur, jrnl, jrnlDur, jrnlNew, O, txn, journalHdr)
        BY <1>3, <1>5, <4>2, <4>3, ResizedKeeps
      <4>5. Guards(db', dbDur', jrnl', jrnlDur', jrnlNew', Found', O, txn', journalHdr')
        BY <2>2, <4>1, <4>4 DEF Guards
      <4> QED
        BY <4>5 DEF Guarded
    <3>2. CASE ~(journalOff = 0 /\ MayWriteDb)
      <4>1. Found' = Found /\ db' = db
        BY <1>1, <1>8, <3>2 DEF Found, history
      <4> QED
        BY <1>1, <2>2, <4>1 DEF Guarded, Protects
    <3> QED
      BY <3>1, <3>2
  <2>8. call'.at = IF left' = 0 THEN "readHdr" ELSE "playRec"
    BY <1>8, GoesTo
  <2>9. OwnJournal(O, e)'
    BY <1>2, <2>2 DEF PlaysBack, OwnJournal
  <2>10. call'.at = "readHdr" =>
          \/ pos = journalHdr
          \/ pos < journalHdr /\ jrnl[pos + 1].kind = "hdr"
          \/ pos > journalHdr /\ pos = Len(jrnl)
          \/ pos > journalHdr /\ pos = e /\ jrnl[journalHdr + 1].nRec # 0
    <3> SUFFICES ASSUME left' = 0
                 PROVE  \/ pos = journalHdr
                        \/ pos < journalHdr /\ jrnl[pos + 1].kind = "hdr"
                        \/ pos > journalHdr /\ pos = Len(jrnl)
                        \/ pos > journalHdr /\ pos = e /\ jrnl[journalHdr + 1].nRec # 0
      BY <2>8
    <3>1. CASE journalOff < journalHdr
      BY SMTT(40), <1>3, <1>8, <2>1, <2>3, <2>4, <3>1
    <3>2. CASE journalOff = journalHdr
      BY <1>3, <1>8, <2>1, <2>3, <3>2
    <3> QED
      BY <1>3, <2>1, <3>1, <3>2
  <2>11. call'.at = "playRec" =>
          \E h \in 1 .. pos :
              /\ jrnl[h].kind = "hdr" /\ h <= journalHdr + 1 /\ h <= e
              /\ cksumInit' = <<txn, h - 1>>
              /\ left' = (IF h <= journalHdr THEN h + jrnl[h].nRec - pos
                          ELSE IF jrnl[h].nRec = 0 THEN Len(jrnl) - pos ELSE e - pos)
              /\ left' > 0
    <3> SUFFICES ASSUME left' # 0
                 PROVE  /\ pos \in 1 .. pos /\ jrnl[pos].kind = "hdr" /\ pos <= journalHdr + 1 /\ pos <= e
                        /\ cksumInit' = <<txn, pos - 1>>
                        /\ left' = (IF pos <= journalHdr THEN pos + jrnl[pos].nRec - pos
                                    ELSE IF jrnl[pos].nRec = 0 THEN Len(jrnl) - pos ELSE e - pos)
                        /\ left' > 0
      BY <2>8
    <3>1. left' > 0
      BY <2>3
    <3>2. pos \in 1 .. pos /\ pos - 1 = journalOff /\ pos <= journalHdr + 1
      BY <1>3, <2>1
    <3>3. left' = (IF pos <= journalHdr THEN pos + jrnl[pos].nRec - pos
                   ELSE IF jrnl[pos].nRec = 0 THEN Len(jrnl) - pos ELSE e - pos)
      BY <1>3, <1>8, <2>1, <2>3
    <3> QED
      BY <1>8, <2>1, <3>1, <3>2, <3>3
  <2>12. PlaysBack(O, e)'
    <3>1. journalOff' = pos
      BY <1>8
    <3> HIDE DEF pos
    <3> QED
      BY <2>2, <2>5, <2>6, <2>8, <2>9, <2>10, <2>11, <3>1 DEF PlaysBack, LeftOf
  <2> QED
    <3> DEFINE at == IF left' = 0 THEN "readHdr" ELSE "playRec"
    <3>1. at \in {"readHdr", "playRec", "playSync"} /\ call' = [call EXCEPT !.at = at]
      BY <1>8
    <3>2. UNCHANGED <<eState, history, journalHdr>>
      BY <1>1, <1>8
    <3> HIDE DEF at
    <3> QED
      BY <1>1, <2>7, <2>12, <3>1, <3>2, BackGoesOn
<1> QED
  BY <1>6, <1>7, <1>8 DEF PlaybackHeader, Goto, AfterHeader

\* What a playback of a journal that is on the medium has in its hands.
LEMMA HotIsSuspended ==
    ASSUME Types, NEW O \in Images, StandsFor(O, outcomes), PhaseHot(O)
    PROVE  Suspended(O)
<1>1. PICK t \in Nat, n \in Nat : PlaysHot(O, t, n)
  BY DEF PhaseHot
<1> QED
  BY <1>1, PlaysSuspended DEF PhaseHot, PlaysHot, Suspended

LEMMA HotGivenUp ==
    ASSUME Types, Types', NEW O \in Images, StandsFor(O, outcomes'), Suspended(O)', PhaseHot(O), GiveUp
    PROVE  Consistent'
<1>1. call.op # "CommitPhaseOne"
  BY DEF PhaseHot, Between
<1> QED
  BY <1>1, LandsGivenUp

\* A recovery goes on.
LEMMA HotGoesOn ==
    ASSUME Types, Types', NEW O \in Images, StandsFor(O, outcomes), PhaseHot(O),
           UNCHANGED <<eState, history, jfile, journalHdr, jfdOpen, dirty, needSync>>, Coherent',
           NEW at \in {"readHdr", "playRec", "playSync"},
           call' = [call EXCEPT !.at = at],
           NEW t \in Nat, NEW n \in Nat, PlaysHot(O, t, n)'
    PROVE  Consistent'
<1>1. call'.op = call.op /\ call'.at = at
  BY GoesTo
<1>2. (InTxn => InTxn') /\ StandsFor(O, outcomes') /\ (NothingDirty => NothingDirty')
  BY DEF InTxn, history, NothingDirty
<1>3. UNCHANGED <<jrnl, jrnlDur, jrnlNew, lost>>
  BY DEF jfile, history
<1>4. PhaseHot(O)'
  BY <1>1, <1>2, <1>3 DEF PhaseHot, Between
<1> QED
  BY <1>2, <1>4 DEF Consistent, Phase

LEMMA HotHeader ==
    ASSUME Types, Types', ~AlignedEnd, NEW O \in Images, StandsFor(O, outcomes), PhaseHot(O),
           PlaybackHeader
    PROVE  Consistent'
<1> DEFINE pos == journalOff + 1
<1>1. call.at = "readHdr" /\ UNCHANGED <<dbDur, jfile, history, settings, txn, crash>>
  BY DEF PlaybackHeader
<1>2. PICK t \in Nat, n \in Nat : PlaysHot(O, t, n)
  BY DEF PhaseHot
<1>3. /\ jrnl \in Journals /\ Len(jrnl) \in Nat /\ journalHdr = Len(jrnl)
      /\ journalOff \in Nat /\ db \in Images /\ dbDur \in Images /\ Len(db) \in Nat
      /\ jrnlDur = jrnl /\ ~jrnlNew /\ lost = {} /\ jfdOpen /\ Coherent /\ NothingDirty
  BY FilesAre DEF PhaseHot, Journals, Images
<1>4. /\ Segments(jrnl, O, t, n) /\ Ends(jrnl, n) /\ n <= Len(jrnl) /\ journalOff <= n
      /\ Covered(db, dbDur, jrnl, O, n)
      /\ journalOff = n \/ jrnl[pos].kind = "hdr"
  BY <1>1, <1>2 DEF PlaysHot, Chain, Segments
<1>5. AtJournalHdr(pos) => pos > Len(jrnl)
  BY <1>3 DEF AtJournalHdr
<1>6. journalOff < n => /\ pos \in 1 .. n /\ pos <= Len(jrnl) /\ jrnl[pos].kind = "hdr" /\ HasMagic(jrnl[pos])
                        /\ jrnl[pos].nonce = <<t, journalOff>> /\ jrnl[pos].size = Len(O)
                        /\ jrnl[pos].nRec \in Nat /\ pos + jrnl[pos].nRec <= n
                        /\ pos + jrnl[pos].nRec < n => jrnl[pos + jrnl[pos].nRec + 1].kind = "hdr"
  <2> SUFFICES ASSUME journalOff < n
               PROVE  /\ pos \in 1 .. n /\ pos <= Len(jrnl) /\ jrnl[pos].kind = "hdr" /\ HasMagic(jrnl[pos])
                      /\ jrnl[pos].nonce = <<t, journalOff>> /\ jrnl[pos].size = Len(O)
                      /\ jrnl[pos].nRec \in Nat /\ pos + jrnl[pos].nRec <= n
                      /\ pos + jrnl[pos].nRec < n => jrnl[pos + jrnl[pos].nRec + 1].kind = "hdr"
    OBVIOUS
  <2>1. pos \in 1 .. n /\ pos <= Len(jrnl) /\ jrnl[pos].kind = "hdr" /\ pos - 1 = journalOff
    BY <1>3, <1>4
  <2>2. /\ HasMagic(jrnl[pos]) /\ jrnl[pos].nonce = <<t, pos - 1>> /\ jrnl[pos].size = Len(O)
        /\ jrnl[pos].nRec \in Nat /\ pos + jrnl[pos].nRec <= n
        /\ \A i \in pos + 1 .. pos + jrnl[pos].nRec :
              jrnl[i].kind = "rec" /\ jrnl[i].nonce = <<t, pos - 1>> /\ Original(jrnl[i], O)
        /\ pos + jrnl[pos].nRec < n => jrnl[pos + jrnl[pos].nRec + 1].kind = "hdr"
    <3>1. jrnl \in Journals /\ Segments(jrnl, O, t, n)
      BY <1>3, <1>4
    <3> HIDE DEF pos
    <3> QED
      BY SMTT(40), <2>1, <3>1, SegmentsNext
  <2> QED
    BY <2>1, <2>2
<1>7. NoHeader(pos) => journalOff = n
  BY <1>3, <1>4, <1>5, <1>6 DEF NoHeader
<1>8. ~NoHeader(pos) => journalOff < n
  BY <1>3, <1>4, <1>5 DEF NoHeader, Ends
<1>9. CASE NoHeader(pos) /\ call' = [call EXCEPT !.at = "playSync"]
           /\ UNCHANGED <<eState, sizes, pcache, jstate, left, db>>
  <2>1. UNCHANGED <<jrnl, txn, journalHdr, journalOff, jfdOpen, dbSize, cache, db, dbDur, jrnlDur,
                    jrnlNew, eState, dirty, needSync>>
    BY <1>1, <1>9 DEF jfile, sizes, pcache, jstate
  <2>2. call'.at = "playSync"
    BY <1>9, GoesTo
  <2>3. PlaysHot(O, t, n)'
    BY <1>2, <1>7, <1>9, <2>1, <2>2 DEF PlaysHot, MayWriteDb
  <2>4. Coherent'
    BY <1>3, <2>1 DEF Coherent, Cached
  <2> QED
    BY <1>1, <1>9, <2>1, <2>3, <2>4, HotGoesOn
<1>10. CASE GiveUp /\ UNCHANGED db
  BY <1>1, <1>10, HotIsSuspended, SameFiles, HotGivenUp DEF dbfile
<1>11. CASE /\ ~NoHeader(pos)
            /\ journalOff' = pos /\ cksumInit' = jrnl[pos].nonce /\ left' = SegmentLength(pos)
            /\ dbSize' = IF journalOff = 0 THEN jrnl[pos].size ELSE dbSize
            /\ db' = IF journalOff = 0 /\ MayWriteDb THEN Resized(jrnl[pos].size) ELSE db
            /\ cache' = IF IsHot /\ left' > 0 THEN EmptyCache ELSE cache
            /\ call' = [call EXCEPT !.at = IF left' = 0 THEN "readHdr" ELSE "playRec"]
            /\ UNCHANGED <<eState, dirty, needSync, jfdOpen, journalHdr>>
  <2>1. /\ journalOff < n /\ n > 0
        /\ pos \in 1 .. n /\ pos <= Len(jrnl) /\ jrnl[pos].kind = "hdr" /\ HasMagic(jrnl[pos])
        /\ jrnl[pos].nonce = <<t, journalOff>> /\ jrnl[pos].size = Len(O)
        /\ jrnl[pos].nRec \in Nat /\ pos + jrnl[pos].nRec <= n
        /\ pos + jrnl[pos].nRec < n => jrnl[pos + jrnl[pos].nRec + 1].kind = "hdr"
    BY <1>3, <1>6, <1>8, <1>11
  <2>2. left' = jrnl[pos].nRec
    BY <1>5, <1>11, <2>1 DEF SegmentLength
  <2>3. cache' = EmptyCache
    BY <1>2, <1>11, <2>1 DEF PlaysHot
  <2>4. Len(O) \in Page
    BY <1>3, <1>4, <2>1, SegmentsSize DEF StandsFor, Page, Images
  <2>5. /\ UNCHANGED <<jrnl, jrnlDur, dbDur>> /\ MayWriteDb' = MayWriteDb
    BY <1>1, <1>11 DEF jfile, MayWriteDb
  <2>6. /\ dbSize' = Len(O)
        /\ MayWriteDb => Len(db') = Len(O)
        /\ MayWriteDb => Restored(db', jrnl, O, journalOff, n)
        /\ Covered(db', dbDur, jrnl, O, n)
        /\ ~MayWriteDb => db' = db
    <3>1. CASE journalOff = 0 /\ MayWriteDb
      <4>1. db' = IF Len(db) < Len(O) THEN WriteAt(db, Len(O), 0, 0) ELSE Cut(db, Len(O))
        BY <1>11, <2>1, <3>1 DEF Resized
      <4>2. /\ db' \in Images /\ Len(db') = Len(O)
            /\ Restored(db, jrnl, O, journalOff, n) => Restored(db', jrnl, O, journalOff, n)
            /\ \A p \in 1 .. Len(O) : Durably(db, dbDur, O, p) => Durably(db', dbDur, O, p)
        <5>1. db \in Images /\ dbDur \in Images
          BY <1>3
        <5> QED
          BY SMTT(40), <2>4, <4>1, <5>1, FileResized
      <4>3. /\ Keeps(db, dbDur, jrnl, jrnlDur, jrnlNew, O, t, n) => Keeps(db', dbDur, jrnl, jrnlDur, jrnlNew, O, t, n)
            /\ Covered(db, dbDur, jrnl, O, n) => Covered(db', dbDur, jrnl, O, n)
        BY <1>3, <2>4, <4>1, ResizedKeeps
      <4> QED
        BY <1>2, <1>4, <1>11, <2>1, <3>1, <4>2, <4>3 DEF PlaysHot
    <3>2. CASE journalOff # 0
      BY <1>2, <1>3, <1>4, <1>11, <3>2 DEF PlaysHot
    <3>3. CASE journalOff = 0 /\ ~MayWriteDb
      BY <1>4, <1>11, <2>1, <3>3
    <3> QED
      BY <3>1, <3>2, <3>3
  <2>7. MayWriteDb => Restored(db', jrnl, O, pos, n)
    <3>1. jrnl[journalOff + 1].kind # "rec"
      BY <2>1
    <3> QED
      BY <1>3, <2>6, <3>1, SlotSkipped
  <2>8. n = 0 \/ ~MayWriteDb => SyncedPrefix(db', dbDur) /\ AllDurably(db', dbDur, O)
    BY <1>2, <2>1, <2>6 DEF PlaysHot
  <2>9. call'.at = IF left' = 0 THEN "readHdr" ELSE "playRec"
    BY <1>11, GoesTo
  <2>10. call'.at = "readHdr" => pos = n \/ jrnl[pos + 1].kind = "hdr"
    BY <1>3, <2>1, <2>2, <2>9
  <2>11. call'.at = "playRec" =>
          \E h \in 1 .. pos :
              /\ jrnl[h].kind = "hdr" /\ cksumInit' = <<t, h - 1>>
              /\ left' = h + jrnl[h].nRec - pos /\ left' > 0
    <3>1. /\ pos \in 1 .. pos /\ pos - 1 = journalOff /\ cksumInit' = <<t, pos - 1>>
          /\ left' = pos + jrnl[pos].nRec - pos
      BY <1>3, <1>11, <2>1, <2>2
    <3>2. left' # 0 => left' > 0
      BY <2>1, <2>2
    <3> QED
      BY <2>1, <2>9, <3>1, <3>2
  <2>12. PlaysHot(O, t, n)'
    <3>1. journalOff' = pos /\ pos <= n /\ n \in Nat
      BY <1>3, <1>11, <2>1
    <3> HIDE DEF pos
    <3> QED
      BY <1>2, <2>3, <2>5, <2>6, <2>7, <2>8, <2>9, <2>10, <2>11, <3>1 DEF PlaysHot
  <2>13. Coherent'
    BY <2>3 DEF Coherent, Cached, EmptyCache
  <2> QED
    <3> DEFINE at == IF left' = 0 THEN "readHdr" ELSE "playRec"
    <3>1. at \in {"readHdr", "playRec", "playSync"} /\ call' = [call EXCEPT !.at = at]
      BY <1>11
    <3>2. UNCHANGED <<eState, history, jfile, journalHdr, jfdOpen, dirty, needSync>>
      BY <1>1, <1>11
    <3> HIDE DEF at
    <3> QED
      BY <2>12, <2>13, <3>1, <3>2, HotGoesOn
<1> QED
  BY <1>9, <1>10, <1>11 DEF PlaybackHeader, Goto, AfterHeader

\* Where a rollback goes on when the records of a segment are read.
NextHeader(e, off) ==
    \/ off = journalHdr
    \/ off < journalHdr /\ jrnl[off + 1].kind = "hdr"
    \/ off > journalHdr /\ off = Len(jrnl)
    \/ off > journalHdr /\ off = e /\ jrnl[journalHdr + 1].nRec # 0

\* The segment that a rollback reads.
ReadsSegment(e, off, n, h) ==
    /\ jrnl[h].kind = "hdr" /\ h <= journalHdr + 1 /\ h <= e
    /\ cksumInit = <<txn, h - 1>>
    /\ n = (IF h <= journalHdr THEN h + jrnl[h].nRec - off
            ELSE IF jrnl[h].nRec = 0 THEN Len(jrnl) - off ELSE e - off)
    /\ n > 0

\* The record at which a rollback is.
LEMMA RecordAt ==
    ASSUME Types, NEW O \in Images, NEW e \in Nat, PlaysBack(O, e), call.at = "playRec"
    PROVE  /\ journalOff + 1 <= Len(jrnl) /\ journalOff > 0
           /\ dbSize = Len(O) /\ (MayWriteDb => Len(db) = Len(O))
           /\ Restores(jrnl[journalOff + 1]) =>
                 jrnl[journalOff + 1].kind = "rec" /\ Original(jrnl[journalOff + 1], O)
           /\ Stops(jrnl[journalOff + 1]) \/ Skips(jrnl[journalOff + 1]) =>
                 e <= journalOff /\ journalHdr < journalOff
           /\ left = 1 => NextHeader(e, journalOff + 1)
           /\ left # 1 => \E h \in 1 .. journalOff : ReadsSegment(e, journalOff + 1, left - 1, h)
<1> DEFINE pos == journalOff + 1
<1>1. /\ Own(jrnl, O, txn, journalHdr, e) /\ jrnl \in Journals /\ Len(jrnl) \in Nat
      /\ journalOff \in Nat /\ journalHdr \in Nat /\ txn \in Nat /\ left \in Nat
  BY FilesAre DEF PlaysBack, OwnJournal, Journals, Types, TypesOfJournal
<1>2. /\ 0 < e /\ journalHdr <= e /\ e <= Len(jrnl) /\ Segments(jrnl, O, txn, journalHdr)
      /\ journalHdr < e => LastSegment(jrnl, O, txn, journalHdr, e)
      /\ \A i \in e + 1 .. Len(jrnl) : OfTxn(jrnl[i], txn) => jrnl[i].kind = "rec" /\ Original(jrnl[i], O)
  BY <1>1 DEF Own
<1>3. PICK h \in 1 .. journalOff :
              /\ jrnl[h].kind = "hdr" /\ h <= journalHdr + 1 /\ h <= e
              /\ cksumInit = <<txn, h - 1>>
              /\ left = LeftOf(e, h) /\ left > 0
  BY DEF PlaysBack
<1>4. journalOff > 0 /\ h \in Nat /\ h <= journalOff
  BY <1>1, <1>3
<1>5. dbSize = Len(O) /\ (MayWriteDb => Len(db) = Len(O))
  BY <1>4 DEF PlaysBack
<1>8. /\ left \in Nat /\ left > 0 /\ journalOff \in Nat /\ journalHdr \in Nat /\ h \in Nat
      /\ h <= journalOff /\ Len(jrnl) \in Nat /\ h <= journalHdr + 1 /\ h <= e
  BY <1>1, <1>3, <1>4
<1>6. CASE h <= journalHdr
  <2>1. /\ jrnl[h].nRec \in Nat /\ h + jrnl[h].nRec <= journalHdr
        /\ \A i \in h + 1 .. h + jrnl[h].nRec :
              jrnl[i].kind = "rec" /\ jrnl[i].nonce = <<txn, h - 1>> /\ Original(jrnl[i], O)
        /\ h + jrnl[h].nRec < journalHdr => jrnl[h + jrnl[h].nRec + 1].kind = "hdr"
    <3>1. h \in 1 .. journalHdr /\ jrnl[h].kind = "hdr"
      BY <1>1, <1>3, <1>4, <1>6
    <3> QED
      BY <1>1, <1>2, <3>1, SegmentsNext
  <2>2. left = h + jrnl[h].nRec - journalOff
    BY <1>3, <1>6 DEF LeftOf
  <2>9. jrnl[h].nRec \in Nat /\ h + jrnl[h].nRec <= journalHdr
    BY <2>1
  <2>3. pos \in h + 1 .. h + jrnl[h].nRec
    BY SMTT(40), <1>8, <2>2, <2>9
  <2>4. jrnl[pos].kind = "rec" /\ jrnl[pos].nonce = cksumInit /\ Original(jrnl[pos], O)
    BY <1>3, <2>1, <2>3
  <2>5. pos <= Len(jrnl)
    BY <1>1, <1>2, <2>1, <2>3
  <2>6. ~Stops(jrnl[pos]) /\ ~Skips(jrnl[pos])
    <3>1. jrnl[pos].pg <= dbSize /\ jrnl[pos].pg \in Page
      BY <1>1, <1>5, <2>4, <2>5, JournalSlotIs DEF Original
    <3>2. ~(jrnl[pos].pg > dbSize)
      BY <3>1, PagerAssumption DEF Page, Types, TypesOfCache
    <3> QED
      BY <2>4, <3>1, <3>2 DEF Stops, Skips, HasMagic
  <2>7. left = 1 => NextHeader(e, pos)
    <3>1. left = 1 => pos = h + jrnl[h].nRec
      <4> DEFINE c == h + jrnl[h].nRec
      <4>1. c \in Nat /\ left = c - journalOff /\ pos = journalOff + 1
        BY SMTT(40), <1>1, <1>8, <2>2, <2>9
      <4> HIDE DEF c
      <4>2. left = 1 => pos = c
        BY <1>8, <4>1
      <4> QED
        BY <4>2 DEF c
    <3> QED
      BY SMTT(40), <1>1, <2>1, <3>1 DEF NextHeader
  <2>8. left # 1 => ReadsSegment(e, pos, left - 1, h)
    <3>1. left # 1 => left - 1 > 0 /\ left - 1 = h + jrnl[h].nRec - pos
      <4> DEFINE c == h + jrnl[h].nRec
      <4>1. c \in Nat /\ left = c - journalOff
        BY SMTT(40), <1>8, <2>2, <2>9
      <4> HIDE DEF c
      <4>2. left # 1 => left - 1 > 0 /\ left - 1 = c - (journalOff + 1)
        BY <1>8, <4>1
      <4> QED
        BY <1>8, <2>9, <4>2 DEF c
    <3>2. jrnl[h].kind = "hdr" /\ cksumInit = <<txn, h - 1>>
      BY <1>3
    <3> QED
      BY <1>6, <1>8, <3>1, <3>2 DEF ReadsSegment
  <2> QED
    BY <1>3, <1>4, <1>5, <2>4, <2>5, <2>6, <2>7, <2>8
<1>7. CASE h = journalHdr + 1
  <2>1. /\ journalHdr < e
        /\ jrnl[h].nRec \in {0, e - h}
        /\ \A i \in h + 1 .. e :
              jrnl[i].kind = "rec" /\ jrnl[i].nonce = <<txn, journalHdr>> /\ Original(jrnl[i], O)
    <3>1. journalHdr < e
      BY <1>1, <1>3, <1>7
    <3>2. /\ jrnl[journalHdr + 1].nRec \in {0, e - journalHdr - 1}
          /\ \A i \in journalHdr + 2 .. e :
                jrnl[i].kind = "rec" /\ jrnl[i].nonce = <<txn, journalHdr>> /\ Original(jrnl[i], O)
      BY <1>2, <3>1 DEF LastSegment
    <3>3. h = journalHdr + 1 /\ h + 1 = journalHdr + 2 /\ e - h = e - journalHdr - 1
      BY <1>7, <1>8
    <3> QED
      BY ONLY <3>1, <3>2, <3>3
  <2>2. left = IF jrnl[h].nRec = 0 THEN Len(jrnl) - journalOff ELSE e - journalOff
    BY <1>1, <1>3, <1>7 DEF LeftOf
  <2>3. pos <= Len(jrnl) /\ pos >= h + 1 /\ journalHdr < journalOff /\ journalHdr < pos
    BY <1>1, <1>2, <1>3, <1>4, <1>7, <2>2
  <2>4. pos <= e => jrnl[pos].kind = "rec" /\ jrnl[pos].nonce = cksumInit /\ Original(jrnl[pos], O)
    <3>1. cksumInit = <<txn, journalHdr>>
      BY <1>1, <1>3, <1>7
    <3> QED
      BY <1>1, <2>1, <2>3, <3>1
  <2>5. Restores(jrnl[pos]) => jrnl[pos].kind = "rec" /\ Original(jrnl[pos], O)
    <3> SUFFICES ASSUME Restores(jrnl[pos]), ~(pos <= e)
                 PROVE  jrnl[pos].kind = "rec" /\ Original(jrnl[pos], O)
      BY <2>4
    <3>1. OfTxn(jrnl[pos], txn)
      BY <1>3 DEF Restores, OfTxn
    <3>2. pos \in e + 1 .. Len(jrnl)
      BY <1>1, <2>3
    <3> QED
      BY <1>2, <3>1, <3>2
  <2>6. Stops(jrnl[pos]) \/ Skips(jrnl[pos]) => e <= journalOff
    <3> SUFFICES ASSUME pos <= e PROVE ~Stops(jrnl[pos]) /\ ~Skips(jrnl[pos])
      BY <1>1
    <3>1. jrnl[pos].pg <= dbSize /\ jrnl[pos].pg \in Page
      BY <1>1, <1>5, <2>3, <2>4, JournalSlotIs DEF Original
    <3>2. ~(jrnl[pos].pg > dbSize)
      BY <3>1, PagerAssumption DEF Page, Types, TypesOfCache
    <3> QED
      BY <2>4, <3>1, <3>2 DEF Stops, Skips, HasMagic
  <2>9. (jrnl[h].nRec = 0 \/ jrnl[h].nRec # 0) /\ pos > journalHdr /\ h = journalHdr + 1
    BY <1>7, <1>8, <2>3
  <2>7. left = 1 => NextHeader(e, pos)
    <3>1. left = 1 => IF jrnl[h].nRec = 0 THEN pos = Len(jrnl) ELSE pos = e
      BY <1>8, <2>2
    <3> QED
      BY <2>9, <3>1 DEF NextHeader
  <2>8. left # 1 => ReadsSegment(e, pos, left - 1, h)
    <3>1. left # 1 => left - 1 > 0 /\ left - 1 = (IF jrnl[h].nRec = 0 THEN Len(jrnl) - pos ELSE e - pos)
      BY <1>8, <2>2
    <3>2. jrnl[h].kind = "hdr" /\ cksumInit = <<txn, h - 1>> /\ ~(h <= journalHdr)
      BY <1>3, <1>7, <1>8
    <3> QED
      BY <1>7, <1>8, <3>1, <3>2 DEF ReadsSegment
  <2> QED
    BY <1>3, <1>4, <1>5, <2>3, <2>5, <2>6, <2>7, <2>8
<1> QED
  BY <1>1, <1>3, <1>4, <1>6, <1>7

LEMMA BackRecord ==
    ASSUME Types, Types', NEW O \in Images, StandsFor(O, outcomes), PhaseBack(O), PlaybackRecord
    PROVE  Consistent'
<1> DEFINE pos == journalOff + 1
           writes == MayWriteDb /\ isSynced(pos)
<1>1. /\ call.at = "playRec" /\ call.op = "Rollback" /\ InTxn /\ Protects(O)
      /\ UNCHANGED <<dbDur, jfile, history, settings, txn, crash>>
  BY DEF PhaseBack, PlaybackRecord, Between
<1>2. PICK e \in Nat : PlaysBack(O, e)
  BY DEF PhaseBack
<1>3. /\ pos <= Len(jrnl) /\ journalOff > 0
      /\ dbSize = Len(O) /\ (MayWriteDb => Len(db) = Len(O))
      /\ Restores(jrnl[pos]) => jrnl[pos].kind = "rec" /\ Original(jrnl[pos], O)
      /\ Stops(jrnl[pos]) \/ Skips(jrnl[pos]) => e <= journalOff /\ journalHdr < journalOff
      /\ left = 1 => NextHeader(e, pos)
      /\ left # 1 => \E h \in 1 .. journalOff : ReadsSegment(e, pos, left - 1, h)
  BY <1>1, <1>2, RecordAt
<1>4. /\ jrnl \in Journals /\ Len(jrnl) \in Nat /\ jrnlDur \in Journals
      /\ journalOff \in Nat /\ journalHdr \in Nat /\ db \in Images /\ dbDur \in Images
      /\ Len(O) \in Nat /\ Len(O) <= MaxPage
      /\ cache \in [Page -> Content \cup {NotCached}]
  <2>1. Len(O) = dbSize /\ dbSize \in 0 .. MaxPage /\ MaxPage \in Nat
    BY <1>3, FilesAre DEF Types, TypesOfCache
  <2> QED
    BY <2>1, FilesAre DEF Journals, Types, TypesOfCache
<1>5. UNCHANGED <<jrnl, jrnlDur, jrnlNew>>
  BY <1>1 DEF jfile
\* The record at pos has been read.
<1>6. ASSUME UNCHANGED <<eState, journalHdr, jfdOpen, dbOrigSize, dbSize, cksumInit>>,
             journalOff' = pos, left' = left - 1,
             call' = [call EXCEPT !.at = IF left = 1 THEN "readHdr" ELSE "playRec"],
             Guarded(O)', Remembered(cache', jrnl, O, pos, e),
             MayWriteDb => Restored(db', jrnl, O, pos, journalHdr) /\ Len(db') = Len(O)
      PROVE  Consistent'
  <2> DEFINE at == IF left = 1 THEN "readHdr" ELSE "playRec"
  <2>1. at \in {"readHdr", "playRec", "playSync"} /\ call' = [call EXCEPT !.at = at]
    BY <1>6
  <2>2. call'.at = at
    BY <2>1, GoesTo
  <2>3. MayWriteDb' = MayWriteDb /\ OwnJournal(O, e)'
    BY <1>1, <1>2, <1>5, <1>6 DEF MayWriteDb, PlaysBack, OwnJournal
  <2>4. call'.at = "readHdr" => NextHeader(e, pos)
    BY <1>3, <2>2
  <2>5. call'.at = "playRec" => \E h \in 1 .. pos : ReadsSegment(e, pos, left - 1, h)
    <3>1. \A h \in 1 .. journalOff : h \in 1 .. pos
      BY <1>4
    <3> QED
      BY <1>3, <2>2, <3>1
  <2>6. call'.at # "playSync"
    BY <2>2
  <2>7. PlaysBack(O, e)'
    <3>1. UNCHANGED <<jrnl, journalHdr, dbSize, cksumInit, txn>> /\ journalOff' = pos /\ left' = left - 1
      BY <1>1, <1>5, <1>6
    <3> HIDE DEF pos, at
    <3>2. call'.at = "readHdr" =>
          \/ journalOff' = journalHdr'
          \/ journalOff' < journalHdr' /\ jrnl'[journalOff' + 1].kind = "hdr"
          \/ journalOff' > journalHdr' /\ journalOff' = Len(jrnl')
          \/ journalOff' > journalHdr' /\ journalOff' = e /\ jrnl'[journalHdr' + 1].nRec # 0
      BY <2>4, <3>1 DEF NextHeader
    <3>3. call'.at = "playRec" =>
          \E h \in 1 .. journalOff' :
              /\ jrnl'[h].kind = "hdr" /\ h <= journalHdr' + 1 /\ h <= e
              /\ cksumInit' = <<txn', h - 1>>
              /\ left' = LeftOf(e, h)' /\ left' > 0
      BY <2>5, <3>1 DEF ReadsSegment, LeftOf
    <3> QED
      BY <1>3, <1>6, <2>3, <2>6, <3>1, <3>2, <3>3 DEF PlaysBack
  <2>8. UNCHANGED <<eState, history, journalHdr>>
    BY <1>1, <1>6
  <2> HIDE DEF at
  <2> QED
    BY <1>1, <1>6, <2>1, <2>7, <2>8, BackGoesOn
<1>7. CASE pos > Len(jrnl)
  BY <1>3, <1>4, <1>7
<1>8. Remembered(cache, jrnl, O, journalOff, e) /\ (MayWriteDb => Restored(db, jrnl, O, journalOff, journalHdr))
  BY <1>2 DEF PlaysBack
\* Nothing is left to be read.
<1>9. e <= journalOff /\ journalHdr < journalOff =>
         \A k \in Nat : Remembered(cache, jrnl, O, k, e) /\ (MayWriteDb => Restored(db, jrnl, O, k, journalHdr))
  <2> SUFFICES ASSUME e <= journalOff, journalHdr < journalOff, NEW k \in Nat
               PROVE  Remembered(cache, jrnl, O, k, e) /\ (MayWriteDb => Restored(db, jrnl, O, k, journalHdr))
    OBVIOUS
  <2>1. journalOff \in Nat /\ journalHdr \in Nat /\ journalHdr <= journalOff
    BY <1>4
  <2>2. \A p : ~Recorded(jrnl, journalOff, e, p) /\ ~Recorded(jrnl, journalOff, journalHdr, p)
    BY <2>1 DEF Recorded
  <2>3. Remembered(cache, jrnl, O, k, e)
    BY <1>8, <2>2 DEF Remembered
  <2>4. MayWriteDb => Restored(db, jrnl, O, k, journalHdr)
    BY <1>8, <2>2 DEF Restored
  <2> QED
    BY <2>3, <2>4
<1>10. ASSUME UNCHANGED <<eState, db>> PROVE Guarded(O)'
  <2>1. UNCHANGED <<db, dbDur, jrnl, jrnlDur, jrnlNew, Found, txn, journalHdr>> \/ journalHdr' # journalHdr
    BY <1>1, <1>5, <1>10 DEF Found, history
  <2>2. journalHdr' = journalHdr
    <3>1. UNCHANGED journalHdr \/ GiveUp
      BY DEF PlaybackRecord, jstate
    <3> QED
      BY <1>1, <3>1 DEF GiveUp, jstate
  <2> QED
    BY <1>1, <2>1, <2>2 DEF Guarded, Protects
<1>11. CASE /\ Stops(jrnl[pos]) /\ journalOff' = Len(jrnl)
            /\ call' = [call EXCEPT !.at = "readHdr"]
            /\ UNCHANGED <<eState, dbOrigSize, dbSize, cache, jfdOpen, journalHdr, db>>
  <2>1. e <= journalOff /\ journalHdr < Len(jrnl)
    BY <1>3, <1>4, <1>11
  <2>2. call'.at = "readHdr"
    BY <1>11, GoesTo
  <2>3. OwnJournal(O, e)' /\ MayWriteDb' = MayWriteDb
    BY <1>1, <1>2, <1>5, <1>11 DEF MayWriteDb, PlaysBack, OwnJournal
  <2>4. Remembered(cache, jrnl, O, Len(jrnl), e) /\ (MayWriteDb => Restored(db, jrnl, O, Len(jrnl), journalHdr))
    BY <1>3, <1>4, <1>9, <1>11
  <2>5. PlaysBack(O, e)'
    BY <1>3, <1>4, <1>5, <1>11, <2>1, <2>2, <2>3, <2>4 DEF PlaysBack
  <2>6. UNCHANGED <<eState, history, journalHdr>>
    BY <1>1, <1>11
  <2> QED
    BY <1>1, <1>10, <1>11, <2>5, <2>6, BackGoesOn
<1>12. CASE /\ Skips(jrnl[pos])
            /\ journalOff' = pos /\ left' = left - 1
            /\ call' = [call EXCEPT !.at = IF left = 1 THEN "readHdr" ELSE "playRec"]
            /\ UNCHANGED <<eState, dbOrigSize, dbSize, cache, jfdOpen, journalHdr, db, cksumInit>>
  <2>1. Remembered(cache, jrnl, O, pos, e) /\ (MayWriteDb => Restored(db, jrnl, O, pos, journalHdr))
    BY <1>3, <1>4, <1>9, <1>12
  <2> QED
    BY <1>3, <1>6, <1>10, <1>12, <2>1
\* A record of the original that is overwritten may be written again.
<1>13. ASSUME Restores(jrnl[pos]), NEW v \in Content, MayWriteDb, isSynced(pos), journalHdr' = journalHdr,
              NEW x, x = WriteAt(db, jrnl[pos].pg, v, 0)
       PROVE  Guards(x, dbDur', jrnl', jrnlDur', jrnlNew', Found', O, txn', journalHdr')
  <2>1. pos \in 1 .. journalHdr /\ journalHdr > 0 /\ journalHdr <= Len(jrnl)
    <3>1. journalHdr <= Len(jrnl)
      BY <1>2, <1>4 DEF PlaysBack, OwnJournal, Own, Segments
    <3> QED
      BY <1>4, <1>13, <3>1 DEF isSynced
  <2>2. Keeps(db, dbDur, jrnl, jrnlDur, jrnlNew, O, txn, journalHdr)
    BY <1>1, <2>1 DEF Protects, Guarded, Guards
  <2>3. jrnl[pos].kind = "rec" /\ jrnl[pos].pg \in Page
    BY <1>3, <1>4, <1>13, JournalSlotIs
  <2>4. Keeps(WriteAt(db, jrnl[pos].pg, v, 0), dbDur, jrnl, jrnlDur, jrnlNew, O, txn, journalHdr)
    BY <1>4, <2>1, <2>2, <2>3, RecordedPageWritten
  <2> QED
    BY <1>1, <1>5, <1>13, <2>1, <2>4 DEF Guards
<1>14. CASE /\ Restores(jrnl[pos])
            /\ db' = IF writes THEN WriteAt(db, jrnl[pos].pg, jrnl[pos].val, 0) ELSE db
            /\ cache' = IF cache[jrnl[pos].pg] # NotCached
                        THEN [cache EXCEPT ![jrnl[pos].pg] = jrnl[pos].val] ELSE cache
            /\ journalOff' = pos /\ left' = left - 1
            /\ call' = [call EXCEPT !.at = IF left = 1 THEN "readHdr" ELSE "playRec"]
            /\ UNCHANGED <<eState, dbSize, dbOrigSize, jfdOpen, journalHdr, cksumInit>>
  <2>1. jrnl[pos].kind = "rec" /\ Original(jrnl[pos], O) /\ jrnl[pos].val \in Content /\ jrnl[pos].pg \in Page
    BY <1>3, <1>4, <1>14, JournalSlotIs
  <2>2. /\ jrnl[journalOff + 1].kind = "rec" /\ Original(jrnl[journalOff + 1], O)
        /\ journalOff + 1 <= Len(jrnl)
    BY <1>3, <1>4, <2>1
  <2>6. Restored(db, jrnl, O, journalOff, journalHdr) =>
           Restored(WriteAt(db, jrnl[journalOff + 1].pg, jrnl[journalOff + 1].val, 0), jrnl, O,
                    journalOff + 1, journalHdr)
    BY <1>4, <2>2, RecordPlayed
  <2>7. Len(db) = Len(O) =>
           Len(WriteAt(db, jrnl[journalOff + 1].pg, jrnl[journalOff + 1].val, 0)) = Len(O)
    <3>1. /\ jrnl[journalOff + 1].pg \in Page /\ jrnl[journalOff + 1].val \in Content
          /\ jrnl[journalOff + 1].pg <= Len(O)
      BY <2>1, <2>2 DEF Original
    <3>2. Len(WriteAt(db, jrnl[journalOff + 1].pg, jrnl[journalOff + 1].val, 0))
              = Larger(Len(db), jrnl[journalOff + 1].pg)
      BY SMTT(40), <1>4, <3>1, PageWritten
    <3>3. jrnl[journalOff + 1].pg \in Nat
      BY <3>1 DEF Page
    <3> QED
      BY <1>4, <3>1, <3>2, <3>3 DEF Larger
  <2>3. Remembered(cache', jrnl, O, pos, e)
    <3>1. Remembered(cache, jrnl, O, journalOff, e) =>
                  Remembered(IF cache[jrnl[journalOff + 1].pg] # NotCached
                             THEN [cache EXCEPT ![jrnl[journalOff + 1].pg] = jrnl[journalOff + 1].val]
                             ELSE cache, jrnl, O, journalOff + 1, e)
      BY <1>4, <2>2, RecordPlayed
    <3> QED
      BY <1>8, <1>14, <3>1
  <2>4. MayWriteDb => Restored(db', jrnl, O, pos, journalHdr) /\ Len(db') = Len(O)
    <3>1. CASE writes
      BY <1>3, <1>8, <1>14, <2>6, <2>7, <3>1
    <3>2. CASE MayWriteDb /\ ~isSynced(pos)
      <4>1. journalHdr <= journalOff /\ pos \in Nat
        BY <1>4, <3>2 DEF isSynced
      <4>2. Restored(db, jrnl, O, pos, journalHdr)
        BY <1>4, <1>8, <3>2, <4>1, NothingLeft
      <4> QED
        BY <1>3, <1>14, <3>2, <4>2
    <3> QED
      BY <3>1, <3>2
  <2>5. Guarded(O)'
    <3>1. CASE writes
      BY <1>13, <1>14, <2>1, <3>1 DEF Guarded
    <3>2. CASE ~writes
      BY <1>10, <1>14, <3>2
    <3> QED
      BY <3>1, <3>2
  <2> QED
    BY <1>6, <1>14, <2>3, <2>4, <2>5
<1>15. CASE /\ Restores(jrnl[pos]) /\ writes /\ GiveUp
            /\ db' \in {db, WriteAt(db, jrnl[pos].pg, Torn, 0)}
  <2>1. journalHdr' = journalHdr /\ StandsFor(O, outcomes')
    BY <1>1, <1>15 DEF GiveUp, jstate, history
  <2>2. Torn \in Content
    BY DEF Content
  <2>3. Guards(db', dbDur', jrnl', jrnlDur', jrnlNew', Found', O, txn', journalHdr')
    <3>1. CASE db' = db
      <4>1. Found' = Found
        BY <1>1, <3>1 DEF Found, history
      <4> QED
        BY <1>1, <1>5, <2>1, <3>1, <4>1 DEF Protects, Guarded
    <3>2. CASE db' = WriteAt(db, jrnl[pos].pg, Torn, 0)
      BY <1>13, <1>15, <2>1, <2>2, <3>2
    <3> QED
      BY <1>15, <3>1, <3>2
  <2>4. Suspended(O)'
    BY <2>1, <2>3, FilesAreNext, GuardedNext
  <2> QED
    BY <1>1, <1>15, <2>1, <2>4, LandsGivenUp
<1> QED
  BY <1>7, <1>11, <1>12, <1>14, <1>15 DEF PlaybackRecord, Goto, sizes, pcache, jstate

\* The record at which the playback of a journal on the medium is.
LEMMA HotRecordAt ==
    ASSUME Types, NEW O \in Images, PhaseHot(O), call.at = "playRec",
           NEW t \in Nat, NEW n \in Nat, PlaysHot(O, t, n)
    PROVE  /\ journalOff > 0 /\ journalOff + 1 <= n /\ n <= Len(jrnl)
           /\ jrnl[journalOff + 1].kind = "rec" /\ Original(jrnl[journalOff + 1], O)
           /\ jrnl[journalOff + 1].pg \in Page /\ jrnl[journalOff + 1].val \in Content
           /\ dbSize = Len(O) /\ (MayWriteDb => Len(db) = Len(O)) /\ cache = EmptyCache
           /\ ~Stops(jrnl[journalOff + 1]) /\ ~Skips(jrnl[journalOff + 1])
           /\ left = 1 => journalOff + 1 = n \/ jrnl[journalOff + 2].kind = "hdr"
           /\ left # 1 => \E h \in 1 .. journalOff + 1 :
                             /\ jrnl[h].kind = "hdr" /\ cksumInit = <<t, h - 1>>
                             /\ left - 1 = h + jrnl[h].nRec - (journalOff + 1) /\ left - 1 > 0
<1> DEFINE pos == journalOff + 1
<1>1. /\ jrnl \in Journals /\ Len(jrnl) \in Nat /\ journalOff \in Nat /\ left \in Nat
      /\ Segments(jrnl, O, t, n) /\ n <= Len(jrnl) /\ journalOff <= n
  <2>1. Segments(jrnl, O, t, n) /\ journalOff <= n
    BY DEF PlaysHot, Chain
  <2>2. n <= Len(jrnl)
    BY <2>1 DEF Segments
  <2> QED
    BY <2>1, <2>2, FilesAre DEF Journals, Types, TypesOfJournal
<1>2. PICK h \in 1 .. journalOff :
              /\ jrnl[h].kind = "hdr" /\ cksumInit = <<t, h - 1>>
              /\ left = h + jrnl[h].nRec - journalOff /\ left > 0
  BY DEF PlaysHot
<1>3. h \in 1 .. n /\ h \in Nat /\ h <= journalOff /\ journalOff > 0
  BY <1>1, <1>2
<1>4. /\ HasMagic(jrnl[h]) /\ jrnl[h].nonce = <<t, h - 1>> /\ jrnl[h].size = Len(O)
      /\ jrnl[h].nRec \in Nat /\ h + jrnl[h].nRec <= n
      /\ \A i \in h + 1 .. h + jrnl[h].nRec :
            jrnl[i].kind = "rec" /\ jrnl[i].nonce = <<t, h - 1>> /\ Original(jrnl[i], O)
      /\ h + jrnl[h].nRec < n => jrnl[h + jrnl[h].nRec + 1].kind = "hdr"
  <2>1. jrnl \in Journals /\ Segments(jrnl, O, t, n) /\ h \in 1 .. n /\ jrnl[h].kind = "hdr"
    BY <1>1, <1>2, <1>3
  <2> QED
    BY SMTT(40), <2>1, SegmentsNext
<1>13. /\ jrnl[h].nRec \in Nat /\ h + jrnl[h].nRec <= n /\ h \in Nat /\ journalOff \in Nat /\ h <= journalOff
       /\ left = h + jrnl[h].nRec - journalOff /\ left > 0
  BY <1>1, <1>2, <1>3, <1>4
<1>5. pos \in h + 1 .. h + jrnl[h].nRec /\ pos <= n /\ n > 0
  <2> DEFINE c == h + jrnl[h].nRec
  <2>1. c \in Nat /\ left = c - journalOff /\ c <= n /\ left > 0
    BY <1>13
  <2> HIDE DEF c
  <2>2. pos <= c /\ pos <= n /\ pos \in Nat /\ h + 1 <= pos
    BY <1>1, <1>3, <2>1
  <2> QED
    BY <1>3, <2>1, <2>2 DEF c
<1>6. jrnl[pos].kind = "rec" /\ jrnl[pos].nonce = cksumInit /\ Original(jrnl[pos], O)
  BY <1>2, <1>4, <1>5
<1>7. dbSize = Len(O) /\ (MayWriteDb => Len(db) = Len(O)) /\ cache = EmptyCache
  BY <1>3, <1>5 DEF PlaysHot
<1>8. jrnl[pos].pg \in Page /\ jrnl[pos].val \in Content
  BY <1>1, <1>5, <1>6, JournalSlotIs
<1>9. ~Stops(jrnl[pos]) /\ ~Skips(jrnl[pos])
  <2>1. jrnl[pos].pg <= dbSize /\ ~(jrnl[pos].pg > dbSize)
    BY <1>6, <1>7, <1>8, PagerAssumption DEF Original, Page, Types, TypesOfCache
  <2> QED
    BY <1>6, <2>1 DEF Stops, Skips, HasMagic
<1>10. left = 1 => pos = n \/ jrnl[pos + 1].kind = "hdr"
  <2> SUFFICES ASSUME left = 1 PROVE pos = n \/ jrnl[pos + 1].kind = "hdr"
    OBVIOUS
  <2>1. pos = h + jrnl[h].nRec
    BY <1>1, <1>2, <1>3, <1>4
  <2> QED
    BY <1>1, <1>4, <1>5, <2>1
<1>11. left # 1 => left - 1 = h + jrnl[h].nRec - pos /\ left - 1 > 0
  <2> DEFINE c == h + jrnl[h].nRec
  <2>1. c \in Nat /\ left = c - journalOff
    BY <1>13
  <2> HIDE DEF c
  <2>2. left # 1 => left - 1 = c - (journalOff + 1) /\ left - 1 > 0
    BY <1>1, <1>2, <2>1
  <2> QED
    BY <1>13, <2>2 DEF c
<1>12. h \in 1 .. pos /\ pos + 1 = journalOff + 2
  BY <1>1, <1>3
<1> QED
  BY <1>1, <1>2, <1>3, <1>5, <1>6, <1>7, <1>8, <1>9, <1>10, <1>11, <1>12

LEMMA HotRecord ==
    ASSUME Types, Types', NEW O \in Images, StandsFor(O, outcomes), PhaseHot(O), PlaybackRecord
    PROVE  Consistent'
<1> DEFINE pos == journalOff + 1
<1>1. call.at = "playRec" /\ UNCHANGED <<dbDur, jfile, history, settings, txn, crash>>
  BY DEF PlaybackRecord
<1>2. PICK t \in Nat, n \in Nat : PlaysHot(O, t, n)
  BY DEF PhaseHot
<1>3. /\ journalOff > 0 /\ pos <= n /\ n <= Len(jrnl)
      /\ jrnl[pos].kind = "rec" /\ Original(jrnl[pos], O)
      /\ jrnl[pos].pg \in Page /\ jrnl[pos].val \in Content
      /\ dbSize = Len(O) /\ (MayWriteDb => Len(db) = Len(O)) /\ cache = EmptyCache
      /\ ~Stops(jrnl[pos]) /\ ~Skips(jrnl[pos])
      /\ left = 1 => pos = n \/ jrnl[journalOff + 2].kind = "hdr"
      /\ left # 1 => \E h \in 1 .. pos :
                         /\ jrnl[h].kind = "hdr" /\ cksumInit = <<t, h - 1>>
                         /\ left - 1 = h + jrnl[h].nRec - pos /\ left - 1 > 0
  BY <1>1, <1>2, HotRecordAt
<1>4. /\ jrnl \in Journals /\ Len(jrnl) \in Nat /\ journalHdr = Len(jrnl)
      /\ journalOff \in Nat /\ db \in Images /\ dbDur \in Images /\ Len(db) \in Nat
      /\ jrnlDur = jrnl /\ ~jrnlNew /\ lost = {} /\ jfdOpen /\ Coherent /\ NothingDirty
      /\ Len(O) \in Nat /\ Len(O) <= MaxPage /\ cache \in [Page -> Content \cup {NotCached}]
  <2>1. Len(O) \in Nat /\ Len(O) <= MaxPage
    BY <1>3, FilesAre DEF Types, TypesOfCache
  <2> QED
    BY SMTT(40), <2>1, FilesAre DEF PhaseHot, Journals, Images, Types, TypesOfCache
<1>5. /\ Covered(db, dbDur, jrnl, O, n) /\ Chain(jrnl, O, t, n)
      /\ ~MayWriteDb => SyncedPrefix(db, dbDur) /\ AllDurably(db, dbDur, O)
      /\ MayWriteDb => Restored(db, jrnl, O, journalOff, n)
  BY <1>2 DEF PlaysHot
<1>6. UNCHANGED <<jrnl, jrnlDur, jrnlNew>> /\ IsFile(jrnl) /\ isSynced(pos)
  BY <1>1, <1>3, <1>4 DEF jfile, isSynced, Types, TypesOfFiles
<1>7. ASSUME NEW v \in Content
      PROVE  Covered(WriteAt(db, jrnl[pos].pg, v, 0), dbDur, jrnl, O, n)
  <2>1. pos \in 1 .. n
    BY <1>3, <1>4
  <2>2. /\ Keeps(db, dbDur, jrnl, jrnlDur, jrnlNew, O, t, n) =>
                 Keeps(WriteAt(db, jrnl[pos].pg, v, 0), dbDur, jrnl, jrnlDur, jrnlNew, O, t, n)
        /\ Covered(db, dbDur, jrnl, O, n) => Covered(WriteAt(db, jrnl[pos].pg, v, 0), dbDur, jrnl, O, n)
    <3> HIDE DEF pos
    <3> QED
      BY <1>3, <1>4, <2>1, RecordedPageWritten
  <2> QED
    BY <1>5, <2>2
<1>8. CASE /\ Restores(jrnl[pos])
           /\ db' = IF MayWriteDb /\ isSynced(pos) THEN WriteAt(db, jrnl[pos].pg, jrnl[pos].val, 0) ELSE db
           /\ cache' = IF cache[jrnl[pos].pg] # NotCached
                       THEN [cache EXCEPT ![jrnl[pos].pg] = jrnl[pos].val] ELSE cache
           /\ journalOff' = pos /\ left' = left - 1
           /\ call' = [call EXCEPT !.at = IF left = 1 THEN "readHdr" ELSE "playRec"]
           /\ UNCHANGED <<eState, dbSize, jfdOpen, journalHdr, cksumInit, dirty, needSync>>
  <2>1. cache' = EmptyCache
    BY <1>3, <1>8 DEF EmptyCache
  <2>2. MayWriteDb' = MayWriteDb
    BY <1>8 DEF MayWriteDb
  <2>3. db' = IF MayWriteDb THEN WriteAt(db, jrnl[pos].pg, jrnl[pos].val, 0) ELSE db
    BY <1>6, <1>8
  <2>4. Covered(db', dbDur, jrnl, O, n)
    BY <1>3, <1>5, <1>7, <2>3
  <2>5. MayWriteDb => Restored(db', jrnl, O, pos, n) /\ Len(db') = Len(O)
    <3> SUFFICES ASSUME MayWriteDb PROVE Restored(db', jrnl, O, pos, n) /\ Len(db') = Len(O)
      OBVIOUS
    <3>1. /\ jrnl[journalOff + 1].kind = "rec" /\ Original(jrnl[journalOff + 1], O)
          /\ journalOff + 1 <= Len(jrnl)
      BY <1>3, <1>4
    <3>2. Restored(db, jrnl, O, journalOff, n) =>
             Restored(WriteAt(db, jrnl[journalOff + 1].pg, jrnl[journalOff + 1].val, 0), jrnl, O,
                      journalOff + 1, n)
      BY <1>4, <3>1, RecordPlayed
    <3>3. Len(WriteAt(db, jrnl[pos].pg, jrnl[pos].val, 0)) = Larger(Len(db), jrnl[pos].pg)
      BY <1>3, <1>4, PageWritten
    <3>4. jrnl[pos].pg \in Nat /\ jrnl[pos].pg <= Len(O)
      BY <1>3 DEF Page, Original
    <3> QED
      BY <1>3, <1>4, <1>5, <2>3, <3>2, <3>3, <3>4 DEF Larger
  <2>6. ~MayWriteDb => SyncedPrefix(db', dbDur) /\ AllDurably(db', dbDur, O)
    BY <1>5, <2>3
  <2>7. call'.at = IF left = 1 THEN "readHdr" ELSE "playRec"
    BY <1>8, GoesTo
  <2>8. call'.at = "readHdr" => pos = n \/ jrnl[pos + 1].kind = "hdr"
    <3>1. pos + 1 = journalOff + 2
      BY <1>4
    <3> QED
      BY <1>3, <2>7, <3>1
  <2>9. call'.at = "playRec" =>
          \E h \in 1 .. pos :
              /\ jrnl[h].kind = "hdr" /\ cksumInit' = <<t, h - 1>>
              /\ left' = h + jrnl[h].nRec - pos /\ left' > 0
    BY <1>3, <1>8, <2>7
  <2>10. PlaysHot(O, t, n)'
    <3>1. journalOff' = pos /\ pos <= n /\ n \in Nat /\ n # 0 /\ UNCHANGED <<jrnl, dbDur, dbSize>>
      BY <1>1, <1>3, <1>4, <1>6, <1>8
    <3>2. call'.at # "playSync"
      BY <2>7
    <3> HIDE DEF pos
    <3> QED
      BY <1>3, <1>5, <2>1, <2>2, <2>4, <2>5, <2>6, <2>8, <2>9, <3>1, <3>2 DEF PlaysHot
  <2>11. Coherent'
    BY <2>1 DEF Coherent, Cached, EmptyCache
  <2> QED
    <3> DEFINE at == IF left = 1 THEN "readHdr" ELSE "playRec"
    <3>1. at \in {"readHdr", "playRec", "playSync"} /\ call' = [call EXCEPT !.at = at]
      BY <1>8
    <3>2. UNCHANGED <<eState, history, jfile, journalHdr, jfdOpen, dirty, needSync>>
      BY <1>1, <1>8
    <3> HIDE DEF at
    <3> QED
      BY <2>10, <2>11, <3>1, <3>2, HotGoesOn
<1>9. CASE GiveUp /\ db' \in {db, WriteAt(db, jrnl[pos].pg, Torn, 0)}
  <2>1. Torn \in Content /\ StandsFor(O, outcomes')
    BY <1>1 DEF Content, history
  <2>2. Covered(db', dbDur', jrnl', O, n)
    BY <1>1, <1>5, <1>6, <1>7, <1>9, <2>1
  <2>3. IsFile(jrnl') /\ jrnlDur' = jrnl' /\ ~jrnlNew' /\ Chain(jrnl', O, t, n) /\ n # 0
    BY <1>3, <1>4, <1>5, <1>6
  <2>4. Suspended(O)'
    BY <2>1, <2>2, <2>3, PlaybackNext
  <2> QED
    BY <1>9, <2>1, <2>4, HotGivenUp
<1>10. ~(pos > Len(jrnl))
  BY <1>3, <1>4
<1> QED
  BY <1>3, <1>8, <1>9, <1>10 DEF PlaybackRecord, Goto, sizes, pcache, jstate

LEMMA PlaybackStep ==
    ASSUME Types, Types', ~AlignedEnd, NEW O \in Images, StandsFor(O, outcomes), Phase(O),
           PlaybackHeader \/ PlaybackRecord
    PROVE  Consistent'
<1>1. call.at \in {"readHdr", "playRec", "playSync"}
  BY DEF PlaybackHeader, PlaybackRecord
<1>2. PhaseBack(O) \/ PhaseHot(O)
  BY <1>1, PhaseInCall
<1> QED
  BY <1>2, BackHeader, BackRecord, HotHeader, HotRecord

\* What is restored and remembered when everything has been read.
LEMMA PlayedBack ==
    ASSUME Types, NEW O \in Images, NEW a \in Nat, NEW b \in Nat, b <= a
    PROVE  /\ Restored(db, jrnl, O, a, b) => \A p \in 1 .. Len(O) : p <= Len(db) /\ db[p] = O[p]
           /\ Remembered(cache, jrnl, O, a, b) => \A p \in 1 .. Len(O) : Cached(p) => cache[p] = O[p]
<1>1. \A p : ~Recorded(jrnl, a, b, p)
  BY DEF Recorded
<1> QED
  BY <1>1 DEF Restored, Remembered, Cached

\* The end of a playback: the journal can be finalized.
LEMMA PlayedToFinalize ==
    ASSUME Types, NEW O \in Images, StandsFor(O, outcomes), UNCHANGED <<eState, history>>,
           call' = [call EXCEPT !.at = "finalize"], call.op \in {"SharedLock", "Close", "Rollback"},
           Ending(O)', Suspended(O)', HasJournal' \/ Settled(O)'
    PROVE  Consistent'
<1>1. call'.at = "finalize" /\ call'.op = call.op
  BY GoesTo
<1>2. StandsFor(O, outcomes')
  BY DEF history
<1>3. PhaseFinalize(O)'
  BY <1>1 DEF PhaseFinalize
<1> QED
  BY <1>2, <1>3 DEF Consistent, Phase

LEMMA BackSync ==
    ASSUME Types, Types', NEW O \in Images, StandsFor(O, outcomes), PhaseBack(O), PlaybackSync
    PROVE  Consistent'
<1>1. /\ call.at = "playSync" /\ call.op = "Rollback" /\ InTxn /\ Protects(O)
      /\ UNCHANGED <<db, jfile, history, settings, txn, crash>>
  BY DEF PhaseBack, PlaybackSync, Between
<1>2. PICK e \in Nat : PlaysBack(O, e)
  BY DEF PhaseBack
<1>3. /\ e <= journalOff /\ OwnJournal(O, e) /\ Remembered(cache, jrnl, O, journalOff, e)
      /\ MayWriteDb => Restored(db, jrnl, O, journalOff, journalHdr)
      /\ journalOff > 0 => dbSize = Len(O) /\ (MayWriteDb => Len(db) = Len(O))
  BY <1>1, <1>2 DEF PlaysBack
<1>4. /\ journalOff \in Nat /\ journalHdr \in Nat /\ db \in Images /\ dbDur \in Images
      /\ Len(O) \in Nat /\ Len(O) > 0 /\ Len(db) \in Nat
  BY FilesAre DEF StandsFor, Images
<1>5. 0 < e /\ journalHdr <= e /\ jfdOpen
  BY <1>3 DEF OwnJournal, Own
<1>6. dbSize = Len(O) /\ (MayWriteDb => Len(db) = Len(O)) /\ journalHdr <= journalOff /\ journalOff # 0
  BY <1>3, <1>4, <1>5
<1>7. CASE Ok /\ dbDur' = (IF MayWriteDb THEN db ELSE dbDur) /\ call' = [call EXCEPT !.at = "finalize"]
           /\ UNCHANGED <<eState, sizes, pcache, jstate, left>>
  <2>1. UNCHANGED <<db, jrnl, jrnlDur, jrnlNew, cache, dbSize, dbFileSize, jfdOpen, journalOff, journalHdr,
                    journalMode, eState, txn, Found>>
    BY <1>1, <1>7 DEF jfile, sizes, pcache, jstate, settings, Found, history
  <2>2. call'.at = "finalize" /\ call'.op = "Rollback"
    BY <1>1, <1>7, GoesTo
  <2>3. \A p \in 1 .. Len(O) : Cached(p) => cache[p] = O[p]
    BY <1>3, <1>4, PlayedBack
  <2>4. AllDurably(db, dbDur', O) /\ SyncedPrefix(db, dbDur') /\ (MayWriteDb \/ dbDur' = dbDur)
    <3>1. CASE MayWriteDb
      <4>1. \A p \in 1 .. Len(O) : p <= Len(db) /\ db[p] = O[p]
        BY <1>3, <1>4, <1>6, <3>1, PlayedBack
      <4> QED
        BY <1>4, <1>7, <3>1, <4>1 DEF AllDurably, Durably, SyncedPrefix
    <3>2. CASE ~MayWriteDb
      <4>1. journalHdr = 0 /\ Guarded(O)
        BY <1>1, <3>2 DEF Protects, InTxn, MayWriteDb
      <4> QED
        BY <1>7, <3>2, <4>1 DEF Guarded, Guards
    <3> QED
      BY <3>1, <3>2
  <2>5. Suspended(O)'
    <3>1. CASE MayWriteDb
      <4>1. journalHdr > 0 /\ Guarded(O)
        BY <1>1, <3>1 DEF Protects, InTxn, MayWriteDb
      <4>2. Keeps(db, dbDur, jrnl, jrnlDur, jrnlNew, O, txn, journalHdr)
        BY <4>1 DEF Guarded, Guards
      <4>3. \A p \in 1 .. Len(O) :
               Durably(db, dbDur, O, p) => Durably(db, db, O, p) \/ Recorded(jrnl, 0, journalHdr, p)
        BY SyncKeepsPages
      <4>4. Len(db) > 0
        BY <1>4, <1>6, <3>1
      <4>5. Keeps(db, db, jrnl, jrnlDur, jrnlNew, O, txn, journalHdr)
        BY <4>2, <4>3, <4>4, WriteKeeps
      <4>6. Guards(db', dbDur', jrnl', jrnlDur', jrnlNew', Found', O, txn', journalHdr')
        BY <1>7, <2>1, <3>1, <4>1, <4>5 DEF Guards
      <4>7. StandsFor(O, outcomes')
        BY <1>1 DEF history
      <4> QED
        BY <4>6, <4>7, FilesAreNext, GuardedNext
    <3>2. CASE ~MayWriteDb
      <4>1. Suspended(O)
        BY <1>1, GuardedIsSuspended DEF Protects
      <4>2. UNCHANGED <<dbfile, jfile, history>>
        BY <1>1, <1>7, <3>2 DEF dbfile
      <4> QED
        BY <4>1, <4>2, SameFiles
    <3> QED
      BY <3>1, <3>2
  <2>6. Current
    BY <1>4, <1>6, <2>3, <2>4 DEF Current, Matches, AllDurably, Durably
  <2>7. Ending(O)'
    <3>1. Current' /\ InTxn'
      BY <1>1, <2>1, <2>6 DEF Current, Matches, Cached, InTxn
    <3> QED
      BY <1>6, <2>1, <2>2, <2>4, <3>1 DEF Ending
  <2>8. HasJournal'
    BY <1>5, <1>6, <2>1 DEF HasJournal
  <2> QED
    BY <1>1, <1>7, <2>5, <2>7, <2>8, PlayedToFinalize
<1>8. CASE GiveUp /\ UNCHANGED dbDur
  BY <1>1, <1>8, BackGivenUp DEF dbfile
<1> QED
  BY <1>7, <1>8 DEF PlaybackSync, Goto

LEMMA HotSync ==
    ASSUME Types, Types', NEW O \in Images, StandsFor(O, outcomes), PhaseHot(O), PlaybackSync
    PROVE  Consistent'
<1>1. call.at = "playSync" /\ UNCHANGED <<db, jfile, history, settings, txn, crash>>
  BY DEF PlaybackSync
<1>2. PICK t \in Nat, n \in Nat : PlaysHot(O, t, n)
  BY DEF PhaseHot
<1>3. /\ journalOff = n /\ Chain(jrnl, O, t, n)
      /\ n = 0 \/ ~MayWriteDb => SyncedPrefix(db, dbDur) /\ AllDurably(db, dbDur, O)
      /\ MayWriteDb => Restored(db, jrnl, O, journalOff, n)
  BY <1>1, <1>2 DEF PlaysHot
<1>4. /\ journalOff \in Nat /\ db \in Images /\ dbDur \in Images /\ Len(O) > 0 /\ Len(db) \in Nat
      /\ jrnlDur = jrnl /\ ~jrnlNew /\ jfdOpen /\ Coherent /\ NothingDirty /\ IsFile(jrnl)
  BY FilesAre DEF StandsFor, Images, PhaseHot, Types, TypesOfFiles
<1>5. CASE Ok /\ dbDur' = (IF MayWriteDb THEN db ELSE dbDur) /\ call' = [call EXCEPT !.at = "finalize"]
           /\ UNCHANGED <<eState, sizes, pcache, jstate, left>>
  <2>1. UNCHANGED <<db, jrnl, jrnlDur, jrnlNew, cache, dirty, needSync, jfdOpen, journalOff, eState>>
    BY <1>1, <1>5 DEF jfile, pcache, jstate
  <2>2. call'.op = call.op /\ call.op \in {"SharedLock", "Close"}
        /\ (call.op = "SharedLock" => eState = "OPEN") /\ (call.op = "Close" => InTxn)
    BY <1>5, GoesTo DEF PhaseHot, Between
  <2>3. AllDurably(db, dbDur', O) /\ SyncedPrefix(db, dbDur')
    <3>1. CASE MayWriteDb
      <4>1. \A p \in 1 .. Len(O) : p <= Len(db) /\ db[p] = O[p]
        BY <1>3, <1>4, <3>1, PlayedBack
      <4> QED
        BY <1>4, <1>5, <3>1, <4>1 DEF AllDurably, Durably, SyncedPrefix
    <3>2. CASE ~MayWriteDb
      BY <1>3, <1>5, <3>2
    <3> QED
      BY <3>1, <3>2
  <2>4. Covered(db', dbDur', jrnl', O, n)
    BY <1>4, <2>1, <2>3, FilesAreNext, AllDurablyCovers
  <2>5. Suspended(O)' /\ (n = 0 => Settled(O)')
    <3>1. /\ IsFile(jrnl') /\ jrnlDur' = jrnl' /\ ~jrnlNew' /\ Chain(jrnl', O, t, n)
          /\ SyncedPrefix(db', dbDur') /\ AllDurably(db', dbDur', O) /\ StandsFor(O, outcomes')
      BY <1>1, <1>3, <1>4, <2>1, <2>3 DEF history
    <3> QED
      BY <2>4, <3>1, PlaybackNext
  <2>6. Ending(O)'
    <3>1. Coherent' /\ NothingDirty' /\ (InTxn => InTxn') /\ jfdOpen'
      BY <1>4, <2>1 DEF Coherent, Cached, NothingDirty, InTxn
    <3> QED
      BY <2>1, <2>2, <2>3, <3>1 DEF Ending
  <2>7. HasJournal' \/ Settled(O)'
    BY <1>3, <1>4, <2>1, <2>5 DEF HasJournal
  <2> QED
    BY <1>1, <1>5, <2>2, <2>5, <2>6, <2>7, PlayedToFinalize
<1>6. CASE GiveUp /\ UNCHANGED dbDur
  BY <1>1, <1>6, HotIsSuspended, SameFiles, HotGivenUp DEF dbfile
<1> QED
  BY <1>5, <1>6 DEF PlaybackSync, Goto

LEMMA PlaybackSyncStep ==
    ASSUME Types, Types', NEW O \in Images, StandsFor(O, outcomes), Phase(O), PlaybackSync
    PROVE  Consistent'
<1>1. call.at \in {"readHdr", "playRec", "playSync"}
  BY DEF PlaybackSync
<1>2. PhaseBack(O) \/ PhaseHot(O)
  BY <1>1, PhaseInCall
<1> QED
  BY <1>2, BackSync, HotSync

-----------------------------------------------------------------------------
(* The end of a transaction.                                               *)

\* What the tail of pager_end_transaction does, whatever it does with the journal.
Unlocked ==
    /\ eState' = "OPEN" /\ call' = Idle /\ cache' = EmptyCache /\ dirty' = {} /\ needSync' = {}
    /\ inJournal' = {} /\ ~jfdOpen'
Trimmed ==
    /\ dirty' = {} /\ needSync' = {}
    /\ cache' = [p \in Page |-> IF p <= dbSize THEN cache[p] ELSE NotCached]
Concludes ==
    \/ call.op = "Close" /\ Unlocked
    \/ /\ call.op # "Close" /\ eState' = "READER" /\ call' = Idle /\ inJournal' = {} /\ Trimmed
       /\ dbSize' = IF call.op = "SharedLock" THEN Len(db) ELSE dbSize
Aborts ==
    \/ call.op \in {"SharedLock", "Close"} /\ Unlocked
    \/ call.op \in {"CommitPhaseTwo", "Rollback"} /\ eState' = "ERROR" /\ call' = Idle
StillTruncates ==
    /\ call.op = "CommitPhaseTwo" /\ dbFileSize > dbSize /\ Trimmed
    /\ call' = [call EXCEPT !.at = "finalTruncate"]
    /\ UNCHANGED <<eState, dbSize>>

LEMMA EndingIs ==
    /\ \A open, off : EndTransaction(open, off) => Concludes
    /\ \A open, off : FailTransaction(open, off) => Aborts
    /\ \A open, off : AfterFinalize(open, off) =>
          StillTruncates \/ (Concludes /\ ~(call.op = "CommitPhaseTwo" /\ dbFileSize > dbSize))
<1>1. ASSUME NEW open, NEW off, EndTransaction(open, off) PROVE Concludes
  BY <1>1 DEF EndTransaction, Concludes, pager_unlock, UndeletableWhenOpen, Unlocked, Trimmed
<1>2. ASSUME NEW open, NEW off, FailTransaction(open, off) PROVE Aborts
  BY <1>2 DEF FailTransaction, Aborts, pager_unlock, UndeletableWhenOpen, Unlocked
<1>3. ASSUME NEW open, NEW off, AfterFinalize(open, off)
      PROVE  StillTruncates \/ (Concludes /\ ~(call.op = "CommitPhaseTwo" /\ dbFileSize > dbSize))
  BY <1>1, <1>3 DEF AfterFinalize, StillTruncates, Trimmed, Goto, sizes
<1> QED
  BY <1>1, <1>2, <1>3

LEMMA LandsUnlocked ==
    ASSUME Types', NEW O \in Images, StandsFor(O, outcomes'), Suspended(O)', Unlocked
    PROVE  Consistent'
<1>1. Coherent'
  BY DEF Coherent, Cached, EmptyCache, Unlocked
<1>2. PhaseOpen(O)'
  BY <1>1 DEF PhaseOpen, Suspended, Between, Idle, NothingDirty, Unlocked
<1> QED
  BY <1>2 DEF Consistent, Phase

\* The pager is through with the journal; in a recovery the database is now the
\* file as it is.
LEMMA LandsEnded ==
    ASSUME Types, Types', NEW O \in Images, StandsFor(O, outcomes'), Settled(O)', Concludes,
           call.op = "SharedLock" => db' = db /\ Coherent /\ StandsFor(db, outcomes'),
           call.op \notin {"SharedLock", "Close"} =>
              Len(O) = dbSize /\ \A p \in 1 .. dbSize : Cached(p) => p <= Len(db') /\ cache[p] = db'[p]
    PROVE  Consistent'
<1>1. CASE call.op = "Close"
  BY <1>1, LandsUnlocked DEF Concludes, Suspended
<1>2. CASE call.op # "Close"
  <2>1. /\ eState' = "READER" /\ call' = Idle /\ inJournal' = {} /\ dirty' = {} /\ needSync' = {}
        /\ cache' = [p \in Page |-> IF p <= dbSize THEN cache[p] ELSE NotCached]
        /\ dbSize' = IF call.op = "SharedLock" THEN Len(db) ELSE dbSize
    BY <1>2 DEF Concludes, Trimmed
  <2>2. Between("none", {"idle"})' /\ NothingDirty'
    BY <2>1 DEF Between, Idle, NothingDirty
  <2>3. dbSize \in Nat
    BY FilesAre DEF Types, TypesOfCache
  <2>4. CASE call.op = "SharedLock"
    <3>1. Coherent'
      <4> SUFFICES ASSUME NEW p \in Page, cache'[p] # NotCached PROVE p <= Len(db') /\ cache'[p] = db'[p]
        BY DEF Coherent, Cached
      <4>1. cache'[p] = cache[p]
        BY <2>1
      <4> QED
        BY <2>4, <4>1 DEF Coherent, Cached
    <3>2. ASSUME NEW w \in Images, w = db PROVE PhaseReader(w)'
      <4>1. Settled(w)'
        <5>1. SyncedPrefix(db', dbDur') /\ NoJournal(db', dbDur', jrnl', jrnlDur', jrnlNew', Found')
          BY DEF Settled, Settles
        <5>2. AllDurably(db', dbDur', w)
          <6>1. w = db' /\ Len(db') \in Nat /\ Len(dbDur') \in Nat
            BY <2>4, <3>2, FilesAreNext DEF Images
          <6> QED
            BY <5>1, <6>1 DEF SyncedPrefix, AllDurably, Durably
        <5> QED
          BY <5>1, <5>2 DEF Settled, Settles
      <4>2. Len(w) = dbSize'
        BY <2>1, <2>4, <3>2
      <4> QED
        BY <2>1, <2>2, <3>1, <4>1, <4>2 DEF PhaseReader
    <3>3. db \in Images
      BY FilesAre
    <3> QED
      BY <2>4, <3>2, <3>3 DEF Consistent, Phase
  <2>5. CASE call.op # "SharedLock"
    <3>1. Coherent'
      <4> SUFFICES ASSUME NEW p \in Page, cache'[p] # NotCached PROVE p <= Len(db') /\ cache'[p] = db'[p]
        BY DEF Coherent, Cached
      <4>1. p \in Nat /\ 1 <= p /\ p <= dbSize /\ cache'[p] = cache[p]
        BY <2>1, FilesAre DEF Page
      <4> QED
        BY <1>2, <2>3, <2>5, <4>1 DEF Cached
    <3>2. PhaseReader(O)'
      BY <1>2, <2>1, <2>2, <2>5, <3>1 DEF PhaseReader
    <3> QED
      BY <3>2 DEF Consistent, Phase
  <2> QED
    BY <2>4, <2>5
<1> QED
  BY <1>1, <1>2

\* A failed finalization.
LEMMA LandsFailed ==
    ASSUME Types', NEW O \in Images, StandsFor(O, outcomes'), Suspended(O)', Aborts
    PROVE  Consistent'
<1>1. CASE Unlocked
  BY <1>1, LandsUnlocked
<1>2. CASE eState' = "ERROR" /\ call' = Idle
  <2>1. PhaseError(O)'
    BY <1>2 DEF PhaseError, Between, Idle
  <2> QED
    BY <2>1 DEF Consistent, Phase
<1> QED
  BY <1>1, <1>2 DEF Aborts

\* The database is still to be truncated after a commit.
LEMMA LandsTruncating ==
    ASSUME Types, Types', NEW O \in Images, StandsFor(O, outcomes'), Settled(O)', StillTruncates,
           Cold(jrnl'), (lost' = {} /\ Cold(jrnlDur')) \/ Comeback', UNCHANGED db, eState \in {"WRITER_LOCKED", "WRITER_FINISHED"},
           Current, Len(O) = dbSize
    PROVE  Consistent'
<1>1. /\ call.op = "CommitPhaseTwo" /\ dirty' = {} /\ needSync' = {}
      /\ cache' = [p \in Page |-> IF p <= dbSize THEN cache[p] ELSE NotCached]
      /\ UNCHANGED <<eState, dbSize>>
  BY DEF StillTruncates, Trimmed
<1>2. call'.op = "CommitPhaseTwo" /\ call'.at = "finalTruncate"
  BY <1>1, GoesTo DEF StillTruncates
<1>3. dbSize \in Nat /\ dbSize <= MaxPage /\ MaxPage \in Nat
  BY FilesAre DEF Types, TypesOfCache
<1>4. Current'
  <2>1. ASSUME NEW p \in 1 .. dbSize PROVE p \in Page /\ cache'[p] = cache[p]
    BY <1>1, <1>3 DEF Page
  <2> QED
    BY <1>1, <2>1 DEF Current, Matches, Cached
<1>5. \A p \in Page : cache'[p] # NotCached => p <= dbSize'
  BY <1>1
<1>6. AllDurably(db', dbDur', O) /\ SyncedPrefix(db', dbDur')
  BY DEF Settled, Settles
<1>7. Ending(O)'
  BY <1>1, <1>2, <1>4, <1>6 DEF Ending
<1>8. PhaseDecided(O)'
  BY <1>1, <1>2, <1>5, <1>7 DEF PhaseDecided, NothingDirty, Cached
<1> QED
  BY <1>8 DEF Consistent, Phase

\* What the finalization of a journal decides about the images (Decide, Undecided).
LEMMA DecidedIs ==
    ASSUME Types, NEW durable, Decide(durable),
           ~(eState = "WRITER_FINISHED" /\ call.op = "CommitPhaseTwo")
    PROVE  /\ outcomes' = IF call.op = "SharedLock"
                          THEN {image \in outcomes : Holds(db, image)} ELSE outcomes
           /\ lost' = lost
BY DEF Decide

LEMMA FinalizeSuspended ==
    ASSUME Types, Types', "NORMAL" \notin Levels, FinalizeFails \subseteq {"DELETE"},
           NEW O \in Images, StandsFor(O, outcomes), PhaseFinalize(O), FinalizeJournal
    PROVE  Consistent'
<1>1. /\ call.at = "finalize" /\ Ending(O) /\ Suspended(O) /\ (HasJournal \/ Settled(O))
      /\ call.op = "CommitPhaseTwo" => eState = "WRITER_LOCKED" /\ dbFileSize <= dbSize
  BY DEF PhaseFinalize
<1>2. /\ AllDurably(db, dbDur, O) /\ SyncedPrefix(db, dbDur)
      /\ call.op \in {"SharedLock", "Close", "Rollback", "CommitPhaseTwo"}
      /\ call.op \in {"SharedLock", "Close"} => Coherent
      /\ call.op \notin {"SharedLock", "Close"} => Current /\ Len(O) = dbSize
  BY <1>1 DEF Ending
<1>3. UNCHANGED <<db, dbDur, settings, txn, crash>>
  BY DEF FinalizeJournal, dbfile
<1>4. /\ StandsFor(O, Found) /\ StandsFor(O, {image \in outcomes : Holds(db, image)})
      /\ StandsFor(db, {image \in outcomes : Holds(db, image)})
      /\ Len(db) > 0 /\ Len(dbDur) > 0
  BY <1>2, StandsForFound
<1>5. Restorable(db, dbDur, jrnlDur, Found)
  BY <1>1, <1>4, FilesAre, SuspendedRestores DEF Suspended, Settled, Hot
<1>5a. Settles(db, dbDur, NoFile, jrnlDur, jrnlNew, Found, O)
  <2>1. AllDurably(db, dbDur, O) /\ SyncedPrefix(db, dbDur)
    BY <1>2
  <2> QED
    BY <1>5, <2>1, NoFileIsCold DEF Settles, NoJournal, IsFile
<1>6. fullSync
  BY PagerAssumption DEF fullSync, Types, TypesOfBounds
<1>7. dbSize \in Nat /\ dbFileSize \in Nat
  BY FilesAre DEF Types, TypesOfCache
\* The image is decided for.
<1>8. ASSUME \E durable : Decide(durable)
      PROVE  /\ Found' = Found /\ StandsFor(O, outcomes')
             /\ call.op = "SharedLock" => StandsFor(db, outcomes')
  <2>1. /\ outcomes' = IF call.op = "SharedLock"
                       THEN {image \in outcomes : Holds(db, image)} ELSE outcomes
        /\ lost' = lost
    BY <1>1, <1>8, DecidedIs
  <2> QED
    BY <1>3, <1>4, <2>1, FilteredFound
<1>9. ASSUME Concludes \/ StillTruncates, StandsFor(O, outcomes'), Settled(O)',
             call.op = "SharedLock" => StandsFor(db, outcomes'),
             StillTruncates => call.op = "CommitPhaseTwo" /\ dbFileSize > dbSize
      PROVE  Consistent'
  <2>1. Concludes
    BY <1>1, <1>7, <1>9
  <2>2. /\ call.op = "SharedLock" => db' = db /\ Coherent /\ StandsFor(db, outcomes')
        /\ call.op \notin {"SharedLock", "Close"} =>
              Len(O) = dbSize /\ \A p \in 1 .. dbSize : Cached(p) => p <= Len(db') /\ cache[p] = db'[p]
    BY <1>2, <1>3, <1>9 DEF Current, Matches
  <2>3. StandsFor(O, outcomes') /\ Settled(O)'
    BY <1>9
  <2> QED
    BY <2>1, <2>2, <2>3, LandsEnded
<1>10. StillTruncates => call.op = "CommitPhaseTwo" /\ dbFileSize > dbSize
  BY DEF StillTruncates
<1>11. CASE /\ ~HasJournal /\ (Concludes \/ StillTruncates) /\ (\E durable : Decide(durable))
            /\ UNCHANGED jfile
  <2>1. Settled(O)'
    BY <1>1, <1>3, <1>8, <1>11 DEF jfile, Settled
  <2> QED
    BY <1>8, <1>9, <1>10, <1>11, <2>1
<1>12. CASE /\ jrnl' = NoFile /\ jrnlDur' \in {NoFile, jrnlDur} /\ UNCHANGED jrnlNew
            /\ (Concludes \/ StillTruncates) /\ (\E durable : Decide(durable))
  <2>1. Found' = Found
    BY <1>8, <1>12
  <2>2. CASE jrnlDur' = NoFile
    <3>1. Settles(db, dbDur, NoFile, NoFile, jrnlNew, Found, O)
      <4>1. AllDurably(db, dbDur, O) /\ SyncedPrefix(db, dbDur) /\ StandsFor(O, Found)
        BY <1>2, <1>4
      <4>2. db \in Images /\ dbDur \in Images
        BY FilesAre
      <4> QED
        BY <4>1, <4>2, NoFileIsCold, ColdSettles
    <3>2. Settled(O)'
      BY <1>3, <1>12, <2>1, <2>2, <3>1 DEF Settled
    <3> QED
      BY <1>8, <1>9, <1>10, <1>12, <3>2
  <2>3. CASE jrnlDur' = jrnlDur
    <3>2. Settled(O)'
      BY <1>3, <1>5a, <1>12, <2>1, <2>3 DEF Settled
    <3> QED
      BY <1>8, <1>9, <1>10, <1>12, <3>2
  <2> QED
    BY <1>12, <2>2, <2>3
<1>13. CASE /\ HasJournal /\ journalMode # "DELETE"
            /\ jrnl' \in {<<>>, WriteAt(jrnl, 1, ZeroHeader, Garbage)}
            /\ UNCHANGED <<jrnlDur, jrnlNew>> /\ (\E durable : Decide(durable))
            /\ call' = [call EXCEPT !.at = "finalSync"]
            /\ UNCHANGED <<eState, sizes, pcache, jstate, left>>
  <2>1. call'.op = call.op /\ call'.at = "finalSync"
    BY <1>13, GoesTo
  <2>2. UNCHANGED <<dbSize, cache, dirty, needSync, jfdOpen, eState, journalMode>>
    BY <1>3, <1>13 DEF sizes, pcache, jstate, settings
  <2>3. Ending(O)'
    <3>1. /\ (NothingDirty => NothingDirty') /\ (Coherent => Coherent') /\ (Current => Current')
          /\ (InTxn => InTxn')
      BY <1>3, <2>2 DEF NothingDirty, Coherent, Cached, Current, Matches, InTxn
    <3> QED
      BY <1>1, <1>3, <2>1, <2>2, <3>1 DEF Ending
  <2>4. jfdOpen /\ IsFile(jrnl)
    BY <1>13 DEF HasJournal, Types, TypesOfFiles
  <2>5. \/ NoJournal(db, dbDur, jrnl', jrnlDur, jrnlNew, Found)
        \/ Undone(db, dbDur, jrnl', jrnlDur, jrnlNew, Found)
    <3>1. /\ db \in Images /\ dbDur \in Images /\ jrnl \in Journals /\ jrnlDur \in Journals
          /\ IsFile(jrnl) /\ AllDurably(db, dbDur, O) /\ StandsFor(O, Found)
          /\ jrnl' \in {<<>>, WriteAt(jrnl, 1, ZeroHeader, Garbage)}
      BY <1>2, <1>4, <1>13, <2>4, FilesAre
    <3>2. Settles(db, dbDur, jrnl, jrnlDur, jrnlNew, Found, O) \/ RollsBack(db, dbDur, jrnl, jrnlDur, jrnlNew, O)
      BY <1>1 DEF Suspended, Settled, Hot
    <3> QED
      BY <3>1, <3>2, FinalizationDecides
  <2>6. Found' = Found
    BY <1>8, <1>13
  <2>7. PhaseDecided(O)'
    BY <1>3, <1>13, <2>1, <2>2, <2>3, <2>4, <2>5, <2>6 DEF PhaseDecided
  <2> QED
    BY <1>8, <1>13, <2>7 DEF Consistent, Phase
<1>14. CASE /\ jrnl' \in {jrnl, NoFile} /\ UNCHANGED <<jrnlDur, jrnlNew>> /\ Undecided /\ Aborts
  <2>1. outcomes' = outcomes /\ lost' = lost /\ Found' = Found
    <3>1. outcomes' = outcomes /\ lost' = lost
      BY <1>1, <1>14 DEF Undecided, history
    <3> QED
      BY <1>3, <3>1 DEF Found
  <2>2. CASE jrnl' = jrnl
    <3>1. Suspended(O)'
      BY <1>1, <1>3, <1>14, <2>1, <2>2 DEF Suspended, Settled, Hot
    <3> QED
      BY <1>14, <2>1, <3>1, LandsFailed
  <2>3. CASE jrnl' = NoFile
    <3>2. Suspended(O)'
      BY <1>3, <1>5a, <1>14, <2>1, <2>3 DEF Suspended, Settled
    <3> QED
      BY <1>14, <2>1, <3>2, LandsFailed
  <2> QED
    BY <1>14, <2>2, <2>3
<1>15. CASE ~HasJournal /\ AfterFinalize(jfdOpen, journalOff) /\ Decide(TRUE) /\ UNCHANGED jfile
  BY <1>11, <1>15, EndingIs
<1>16. CASE /\ HasJournal /\ journalMode = "DELETE"
            /\ jrnl' = FinalizedJournal
            /\ jrnlDur' = IF dirSync THEN FinalizedJournal ELSE jrnlDur
            /\ UNCHANGED jrnlNew
            /\ Decide(dirSync) /\ AfterFinalize(FALSE, journalOff)
  <2>1. Concludes \/ StillTruncates
    BY <1>16, EndingIs
  <2>2. FinalizedJournal = NoFile
    BY <1>16 DEF FinalizedJournal
  <2> QED
    BY <1>12, <1>16, <2>1, <2>2
<1>17. CASE /\ HasJournal /\ journalMode # "DELETE"
            /\ jrnl' = FinalizedJournal
            /\ UNCHANGED <<jrnlDur, jrnlNew>>
            /\ Decide(FALSE)
            /\ IF journalMode = "PERSIST" \/ fullSync
               THEN Goto("finalSync")
                    /\ UNCHANGED <<eState, sizes, pcache, jstate, left, svpts>>
               ELSE AfterFinalize(TRUE, 0)
  <2>1. FinalizedJournal \in {<<>>, WriteAt(jrnl, 1, ZeroHeader, Garbage)}
    BY <1>17, PagerAssumption DEF FinalizedJournal, Types, TypesOfBounds
  <2> QED
    BY <1>6, <1>13, <1>17, <2>1 DEF Goto
<1>18. CASE /\ HasJournal /\ journalMode \in FinalizeFails
            /\ jrnl' \in {jrnl, FinalizedJournal}
            /\ UNCHANGED <<jrnlDur, jrnlNew>>
            /\ Undecided
            /\ FailTransaction(journalMode # "DELETE",
                               IF journalMode = "DELETE" THEN journalOff ELSE 0)
  <2>1. FinalizedJournal = NoFile
    BY <1>18 DEF FinalizedJournal
  <2>2. Aborts
    BY <1>18, EndingIs
  <2> QED
    BY <1>14, <1>18, <2>1, <2>2
<1> QED
  BY <1>15, <1>16, <1>17, <1>18 DEF FinalizeJournal

\* The image that is committed.
LEMMA CommittedIs ==
    ASSUME Types, NEW O \in Images, PhaseFinished(O)
    PROVE  /\ Image \in Images /\ Len(Image) = dbSize /\ StandsFor(Image, {Image})
           /\ AllDurably(db, dbDur, Image) /\ SyncedPrefix(db, dbDur)
<1>1. dbDur = db /\ dbSize > 0 /\ Current
  BY DEF PhaseFinished
<1>2. db \in Images
  BY FilesAre
<1>3. /\ Image \in Images /\ Len(Image) = dbSize
      /\ \A p \in 1 .. dbSize : p <= Len(db) /\ Image[p] = db[p]
  BY <1>1, ImageIs
<1>4. AllDurably(db, dbDur, Image)
  BY <1>1, <1>3 DEF AllDurably, Durably
<1>5. SyncedPrefix(db, dbDur)
  BY <1>1, <1>2 DEF SyncedPrefix, Images
<1>6. StandsFor(Image, {Image})
  BY <1>1, <1>3 DEF StandsFor, Holds, Images
<1> QED
  BY <1>3, <1>4, <1>5, <1>6

\* The journal of the transaction, while it is committed.
LEMMA CommittedKeeps ==
    ASSUME Types, NEW O \in Images, PhaseFinished(O)
    PROVE  /\ Keeps(db, dbDur, jrnl, jrnlDur, jrnlNew, O, txn, journalHdr)
           /\ ~Cold(jrnl) /\ ~Cold(jrnlDur) /\ IsFile(jrnl) /\ IsFile(jrnlDur)
           /\ HasJournal
<1>1. /\ eState = "WRITER_FINISHED" /\ Protects(O) /\ OwnJournal(O, journalOff)
      /\ journalOff = journalHdr
  BY DEF PhaseFinished
<1>2. journalHdr > 0 /\ Guarded(O) /\ jfdOpen /\ journalHdr \in Nat
  BY <1>1, FilesAre DEF Protects, OwnJournal
<1>3. Keeps(db, dbDur, jrnl, jrnlDur, jrnlNew, O, txn, journalHdr)
  BY <1>2 DEF Guarded, Guards
<1>4. Survives(jrnl, jrnlDur, O, txn, journalHdr) /\ IsFile(jrnl) /\ IsFile(jrnlDur)
  BY <1>3 DEF Keeps
<1>5. jrnl \in Journals /\ jrnlDur \in Journals
  BY FilesAre
<1>6. ~Cold(jrnl)
  <2>1. Segments(jrnl, O, txn, journalHdr)
    BY <1>4 DEF Survives
  <2> QED
    BY <1>2, <1>5, <2>1, SegmentsAreHot
<1>7. ~Cold(jrnlDur)
  <2>1. \A i \in 1 .. journalHdr : jrnlDur[i] = jrnl[i]
    BY <1>4 DEF Survives
  <2>2. journalHdr <= Len(jrnlDur) /\ Segments(jrnl, O, txn, journalHdr)
    BY <1>4 DEF Survives
  <2>3. Segments(jrnlDur, O, txn, journalHdr)
    BY <1>2, <1>5, <2>1, <2>2, SegmentsAgree
  <2> QED
    BY <1>2, <1>5, <2>3, SegmentsAreHot
<1>8. HasJournal
  BY <1>1, <1>2 DEF HasJournal
<1> QED
  BY <1>3, <1>4, <1>6, <1>7, <1>8

\* The finalization of its journal commits the image N.
LEMMA FinalizeCommits ==
    ASSUME Types, Types', "NORMAL" \notin Levels, FinalizeFails \subseteq {"DELETE"}, AutoVacuum # "always",
           NEW O \in Images, StandsFor(O, outcomes), PhaseFinished(O), FinalizeJournal,
           NEW N, N = Image
    PROVE  Consistent'
<1>1. /\ call.at = "finalize" /\ call.op = "CommitPhaseTwo" /\ eState = "WRITER_FINISHED"
      /\ Current /\ (Len(O) <= dbSize \/ MayShrink)
  BY DEF PhaseFinished, FinalizeJournal, Between
<1>2. UNCHANGED <<db, dbDur, settings, txn, crash>>
  BY DEF FinalizeJournal, dbfile
<1>3. /\ N \in Images /\ Len(N) = dbSize /\ StandsFor(N, {N})
      /\ AllDurably(db, dbDur, N) /\ SyncedPrefix(db, dbDur)
  BY ONLY Types, O \in Images, PhaseFinished(O), N = Image, CommittedIs
<1>4. /\ Keeps(db, dbDur, jrnl, jrnlDur, jrnlNew, O, txn, journalHdr)
      /\ ~Cold(jrnl) /\ ~Cold(jrnlDur) /\ IsFile(jrnl) /\ IsFile(jrnlDur)
      /\ HasJournal
  BY CommittedKeeps
<1>5. /\ jrnl \in Journals /\ jrnlDur \in Journals /\ db \in Images /\ dbDur \in Images
      /\ txn \in Nat /\ journalHdr \in Nat
  BY FilesAre
<1>6. fullSync
  BY PagerAssumption DEF fullSync, Types, TypesOfBounds
<1>7. dbSize \in Nat /\ dbFileSize \in Nat
  BY FilesAre DEF Types, TypesOfCache
\* The new image is one that a reader may find.
<1>8. ASSUME N \in outcomes' PROVE StandsFor(N, outcomes') /\ StandsFor(N, Found')
  <2>1. StandsFor(N, outcomes')
    BY <1>3, <1>8 DEF StandsFor
  <2>2. Holds(db, N)
    BY <1>3, <1>5 DEF AllDurably, Durably, Holds
  <2>3. N \in Found'
    BY <1>2, <1>8, <2>2 DEF Found, FoundIn
  <2> QED
    BY <1>3, <2>1, <2>3 DEF StandsFor
<1>9. ASSUME lost' = outcomes PROVE StandsFor(O, Found')
  BY <1>9 DEF StandsFor, Found, FoundIn
<1>10. ASSUME jrnl' = NoFile, UNCHANGED <<jrnlDur, jrnlNew>>, lost' = outcomes
       PROVE  Settled(N)'
  <2>1. Restorable(db, dbDur, jrnlDur, Found')
    BY <1>4, <1>5, <1>9, <1>10, KeptRestores
  <2>2. Settles(db, dbDur, NoFile, jrnlDur, jrnlNew, Found', N)
    BY <1>3, <2>1, NoFileIsCold DEF Settles, NoJournal, IsFile
  <2> QED
    BY <1>2, <1>10, <2>2 DEF Settled
<1>11. ASSUME Concludes, Settled(N)', N \in outcomes' PROVE Consistent'
  <2>1. /\ call.op # "SharedLock"
        /\ Len(N) = dbSize /\ \A p \in 1 .. dbSize : Cached(p) => p <= Len(db') /\ cache[p] = db'[p]
    BY <1>1, <1>2, <1>3 DEF Current, Matches
  <2>2. StandsFor(N, outcomes') /\ N \in Images
    BY <1>3, <1>8, <1>11
  <2> QED
    BY <1>11, <2>1, <2>2, LandsEnded
<1>12. CASE /\ journalMode = "DELETE"
            /\ jrnl' = NoFile
            /\ jrnlDur' = IF dirSync THEN NoFile ELSE jrnlDur
            /\ UNCHANGED jrnlNew
            /\ outcomes' = {N} /\ lost' = IF dirSync THEN {} ELSE outcomes
            /\ StillTruncates \/ Concludes
  <2>1. Settled(N)'
    <3>1. CASE dirSync
      <4>1. StandsFor(N, Found') /\ jrnlDur' = NoFile
        BY <1>8, <1>12, <3>1
      <4>2. Settles(db, dbDur, NoFile, NoFile, jrnlNew, Found', N)
        BY <1>3, <1>5, <4>1, NoFileIsCold, ColdSettles
      <4> QED
        BY <1>2, <1>12, <4>1, <4>2 DEF Settled
    <3>2. CASE ~dirSync
      BY <1>10, <1>12, <3>2
    <3> QED
      BY <3>1, <3>2
  <2>2. CASE StillTruncates
    <3>1. N \in outcomes' /\ ~IsFile(jrnl') /\ dbSize' = dbSize
      BY <1>12, <2>2 DEF IsFile, StillTruncates, Trimmed
    <3>2. (lost' = {} /\ Cold(jrnlDur')) \/ Comeback'
      <4>1. CASE dirSync
        BY <1>12, <4>1, NoFileIsCold
      <4>2. CASE ~dirSync
        <5>1. Len(O) <= dbSize
          BY <1>1, <1>12, <4>2 DEF MayShrink, dirSync
        <5>2. PICK k \in Nat : Chain(jrnlDur, O, txn, k) /\ Covered(db, dbDur, jrnlDur, O, k)
          BY <1>4, <1>5, KeptIsRestorable
        <5>3. StandsFor(O, lost') /\ jrnlDur' = jrnlDur
          BY <1>12, <4>2
        <5> QED
          BY <1>2, <1>5, <3>1, <5>1, <5>2, <5>3 DEF Comeback
      <4> QED
        BY <4>1, <4>2
    <3>3. StandsFor(N, outcomes') /\ Cold(jrnl')
      BY <1>8, <1>12, <3>1, NoFileIsCold
    <3>4. db' = db /\ eState \in {"WRITER_LOCKED", "WRITER_FINISHED"} /\ Len(N) = dbSize /\ N \in Images
      BY <1>1, <1>2, <1>3
    <3> QED
      BY <1>1, <2>1, <2>2, <3>2, <3>3, <3>4, LandsTruncating
  <2>3. CASE Concludes
    BY <1>11, <1>12, <2>1, <2>3
  <2> QED
    BY <1>12, <2>2, <2>3
<1>13. CASE /\ journalMode # "DELETE"
            /\ jrnl' \in {<<>>, WriteAt(jrnl, 1, ZeroHeader, Garbage)}
            /\ UNCHANGED <<jrnlDur, jrnlNew>>
            /\ outcomes' = {N} /\ lost' = outcomes
            /\ call' = [call EXCEPT !.at = "finalSync"]
            /\ UNCHANGED <<eState, sizes, pcache, jstate, left>>
  <2>1. call'.op = call.op /\ call'.at = "finalSync"
    BY <1>13, GoesTo
  <2>2. UNCHANGED <<dbSize, cache, dirty, needSync, jfdOpen, eState, journalMode>>
    BY <1>2, <1>13 DEF sizes, pcache, jstate, settings
  <2>3. Current'
    BY <1>1, <1>2, <2>2 DEF Current, Matches, Cached
  <2>4. Ending(N)'
    BY <1>1, <1>2, <1>3, <2>1, <2>2, <2>3 DEF Ending
  <2>5. Undone(db, dbDur, jrnl', jrnlDur, jrnlNew, Found')
    <3>1. StandsFor(O, Found') /\ jrnl' \in {<<>>, WriteAt(jrnl, 1, ZeroHeader, Garbage)}
      BY <1>9, <1>13
    <3> QED
      BY <1>4, <1>5, <3>1, FinalizationUndoes
  <2>6. PhaseDecided(N)'
    BY <1>2, <1>4, <1>13, <2>1, <2>2, <2>4, <2>5 DEF PhaseDecided, HasJournal
  <2>7. StandsFor(N, outcomes') /\ N \in Images
    BY <1>3, <1>8, <1>13
  <2> QED
    BY <2>6, <2>7 DEF Consistent, Phase
<1>14. CASE /\ jrnl' \in {jrnl, NoFile} /\ UNCHANGED <<jrnlDur, jrnlNew>>
            /\ outcomes' = outcomes \cup {N} /\ lost' = outcomes
            /\ Aborts
  <2>1. CASE jrnl' = jrnl
    <3>1. StandsFor(O, outcomes')
      BY <1>14 DEF StandsFor
    <3>2. RollsBack(db, dbDur, jrnl, jrnlDur, jrnlNew, O)
      BY <1>4, <1>5 DEF RollsBack
    <3>3. Suspended(O)'
      BY <1>2, <1>14, <2>1, <3>2 DEF Suspended, Hot
    <3> QED
      BY <1>14, <3>1, <3>3, LandsFailed
  <2>2. CASE jrnl' = NoFile
    <3>1. Settled(N)' /\ N \in outcomes'
      BY <1>10, <1>14, <2>2
    <3>2. Suspended(N)' /\ StandsFor(N, outcomes') /\ N \in Images
      BY <1>3, <1>8, <3>1 DEF Suspended
    <3> QED
      BY <1>14, <3>2, LandsFailed
  <2> QED
    BY <1>14, <2>1, <2>2
<1>15. \A durable : Decide(durable) => outcomes' = {N} /\ lost' = IF durable THEN {} ELSE outcomes
  BY <1>1 DEF Decide
<1>16. Undecided => outcomes' = outcomes \cup {N} /\ lost' = outcomes
  BY <1>1 DEF Undecided
<1>17. CASE /\ HasJournal /\ journalMode = "DELETE"
            /\ jrnl' = FinalizedJournal
            /\ jrnlDur' = IF dirSync THEN FinalizedJournal ELSE jrnlDur
            /\ UNCHANGED jrnlNew
            /\ Decide(dirSync) /\ AfterFinalize(FALSE, journalOff)
  <2>1. StillTruncates \/ Concludes
    BY <1>17, EndingIs
  <2>2. FinalizedJournal = NoFile
    BY <1>17 DEF FinalizedJournal
  <2>3. outcomes' = {N} /\ lost' = IF dirSync THEN {} ELSE outcomes
    BY <1>15, <1>17
  <2> QED
    BY <1>12, <1>17, <2>1, <2>2, <2>3
<1>18. CASE /\ HasJournal /\ journalMode # "DELETE"
            /\ jrnl' = FinalizedJournal
            /\ UNCHANGED <<jrnlDur, jrnlNew>>
            /\ Decide(FALSE)
            /\ IF journalMode = "PERSIST" \/ fullSync
               THEN Goto("finalSync")
                    /\ UNCHANGED <<eState, sizes, pcache, jstate, left, svpts>>
               ELSE AfterFinalize(TRUE, 0)
  <2>1. FinalizedJournal \in {<<>>, WriteAt(jrnl, 1, ZeroHeader, Garbage)}
    BY <1>18, PagerAssumption DEF FinalizedJournal, Types, TypesOfBounds
  <2>2. outcomes' = {N} /\ lost' = outcomes
    BY <1>15, <1>18
  <2> QED
    BY <1>6, <1>13, <1>18, <2>1, <2>2 DEF Goto
<1>19. CASE /\ HasJournal /\ journalMode \in FinalizeFails
            /\ jrnl' \in {jrnl, FinalizedJournal}
            /\ UNCHANGED <<jrnlDur, jrnlNew>>
            /\ Undecided
            /\ FailTransaction(journalMode # "DELETE",
                               IF journalMode = "DELETE" THEN journalOff ELSE 0)
  <2>1. FinalizedJournal = NoFile
    BY <1>19 DEF FinalizedJournal
  <2>2. Aborts
    BY <1>19, EndingIs
  <2> QED
    BY <1>14, <1>16, <1>19, <2>1, <2>2
<1> QED
  BY <1>4, <1>17, <1>18, <1>19 DEF FinalizeJournal

LEMMA FinalizeCommitted ==
    ASSUME Types, Types', "NORMAL" \notin Levels, FinalizeFails \subseteq {"DELETE"}, AutoVacuum # "always",
           NEW O \in Images, StandsFor(O, outcomes), PhaseFinished(O), FinalizeJournal
    PROVE  Consistent'
<1>1. \A N : N = Image => Consistent'
  BY FinalizeCommits
<1> QED
  BY <1>1

LEMMA FinalizeStep ==
    ASSUME Types, Types', "NORMAL" \notin Levels, FinalizeFails \subseteq {"DELETE"}, AutoVacuum # "always",
           NEW O \in Images, StandsFor(O, outcomes), Phase(O), FinalizeJournal
    PROVE  Consistent'
<1>1. call.at = "finalize"
  BY DEF FinalizeJournal
<1>2. PhaseFinalize(O) \/ PhaseFinished(O)
  BY <1>1, PhaseInCall
<1> QED
  BY <1>2, FinalizeSuspended, FinalizeCommitted

LEMMA SyncFinalizedStep ==
    ASSUME Types, Types', FinalizeFails \subseteq {"DELETE"},
           NEW O \in Images, StandsFor(O, outcomes), Phase(O), SyncFinalized
    PROVE  Consistent'
<1>1. call.at = "finalSync" /\ PhaseDecided(O)
  BY PhaseInCall DEF SyncFinalized
<1>2. /\ Ending(O) /\ journalMode # "DELETE" /\ jfdOpen
      /\ NoJournal(db, dbDur, jrnl, jrnlDur, jrnlNew, Found) \/ Undone(db, dbDur, jrnl, jrnlDur, jrnlNew, Found)
  BY <1>1 DEF PhaseDecided
<1>3. /\ AllDurably(db, dbDur, O) /\ SyncedPrefix(db, dbDur)
      /\ call.op \in {"SharedLock", "Close"} => Coherent
      /\ call.op \notin {"SharedLock", "Close"} => Current /\ Len(O) = dbSize
      /\ call.op = "CommitPhaseTwo" => eState \in {"WRITER_LOCKED", "WRITER_FINISHED"}
  BY <1>2 DEF Ending
<1>4. Cold(jrnl)
  BY <1>2 DEF NoJournal, Undone
<1>5. UNCHANGED <<db, dbDur, outcomes>>
  BY DEF SyncFinalized, dbfile
<1>6. jrnl' = jrnl /\ jrnlDur' = jrnl /\ jrnlNew' = FALSE /\ lost' = {} /\ AfterFinalize(TRUE, 0)
  BY <1>2 DEF SyncFinalized, SyncedJournal
<1>7. StandsFor(O, outcomes') /\ StandsFor(db, outcomes')
  <2>1. StandsFor(db, {image \in outcomes : Holds(db, image)})
    BY <1>3, StandsForFound
  <2> QED
    BY <1>5, <2>1 DEF StandsFor
<1>8. Settled(O)'
  <2>1. /\ db \in Images /\ dbDur \in Images /\ jrnl \in Journals /\ outcomes \in SUBSET Images
        /\ AllDurably(db, dbDur, O) /\ SyncedPrefix(db, dbDur)
    BY <1>3, FilesAre
  <2>2. Settles(db, dbDur, jrnl, jrnl, FALSE, FoundIn(db, outcomes, {}), O)
    BY <1>4, <2>1, ColdIsSettled
  <2> QED
    BY <1>5, <1>6, <2>2 DEF Settled, Found
<1>9. CASE Concludes
  <2>1. /\ call.op = "SharedLock" => db' = db /\ Coherent /\ StandsFor(db, outcomes')
        /\ call.op \notin {"SharedLock", "Close"} =>
              Len(O) = dbSize /\ \A p \in 1 .. dbSize : Cached(p) => p <= Len(db') /\ cache[p] = db'[p]
    BY <1>3, <1>5, <1>7 DEF Current, Matches
  <2> QED
    BY <1>7, <1>8, <1>9, <2>1, LandsEnded
<1>10. CASE StillTruncates
  <2>1. /\ lost' = {} /\ Cold(jrnl') /\ Cold(jrnlDur') /\ db' = db
        /\ eState \in {"WRITER_LOCKED", "WRITER_FINISHED"} /\ Current /\ Len(O) = dbSize
    BY <1>3, <1>4, <1>5, <1>6, <1>10 DEF StillTruncates
  <2> QED
    BY <1>7, <1>8, <1>10, <2>1, LandsTruncating
<1> QED
  BY <1>6, <1>9, <1>10, EndingIs

\* The file is cut behind the image.
LEMMA CutKeeps ==
    ASSUME NEW d \in Images, NEW m \in Images, NEW O \in Images, NEW n \in Nat, Len(O) = n,
           AllDurably(d, m, O), SyncedPrefix(d, m)
    PROVE  /\ AllDurably(Cut(d, n), m, O) /\ SyncedPrefix(Cut(d, n), m)
           /\ \A p \in 1 .. n : p <= Len(Cut(d, n)) /\ Cut(d, n)[p] = d[p]
<1>1. AllDurably(Cut(d, n), m, O)
  BY TruncationKeeps DEF AllDurably, Images
<1>2. d \in Seq(Content) /\ m \in Seq(Content) /\ O \in Seq(Content)
  BY DEF Images
<1> DEFINE c == Cut(d, n)
<1>3. /\ Len(c) = Smaller(n, Len(d))
      /\ \A k \in 1 .. Smaller(n, Len(d)) : c[k] = d[k]
  BY <1>2, CutIs
<1>4. n <= Len(d)
  <2>1. CASE n = 0
    BY <1>2, <2>1
  <2>2. CASE n > 0
    BY <1>2, <2>2 DEF AllDurably, Durably
  <2> QED
    BY <2>1, <2>2
<1>5. Len(c) = n /\ \A k \in 1 .. n : c[k] = d[k]
  BY <1>2, <1>3, <1>4 DEF Smaller
<1> HIDE DEF c
<1>6. SyncedPrefix(c, m)
  BY <1>2, <1>4, <1>5 DEF SyncedPrefix
<1> QED
  BY <1>1, <1>5, <1>6 DEF c

LEMMA TruncateAfterCommitStep ==
    ASSUME Types, Types', NEW O \in Images, StandsFor(O, outcomes), Phase(O), TruncateAfterCommit
    PROVE  Consistent'
<1>1. call.at = "finalTruncate" /\ PhaseDecided(O)
  BY PhaseInCall DEF TruncateAfterCommit
<1>2. /\ Ending(O) /\ call.op = "CommitPhaseTwo" /\ Cold(jrnl)
      /\ (lost = {} /\ Cold(jrnlDur)) \/ Comeback
  BY <1>1 DEF PhaseDecided
<1>3. AllDurably(db, dbDur, O) /\ SyncedPrefix(db, dbDur) /\ Current /\ Len(O) = dbSize
  BY <1>2 DEF Ending
<1>4. UNCHANGED <<dbDur, jrnl, jrnlDur, jrnlNew, outcomes, lost>>
  BY DEF TruncateAfterCommit, jfile, history
<1>5. /\ db \in Images /\ dbDur \in Images /\ jrnl \in Journals /\ jrnlDur \in Journals
      /\ outcomes \in SUBSET Images /\ lost \in SUBSET Images /\ dbSize \in Nat
  BY FilesAre DEF Types, TypesOfCache
<1>6. CASE db' = Cut(db, dbSize) /\ EndTransaction(jfdOpen, journalOff)
  <2> DEFINE c == Cut(db, dbSize)
  <2>1. /\ AllDurably(c, dbDur, O) /\ SyncedPrefix(c, dbDur)
        /\ \A p \in 1 .. dbSize : p <= Len(c) /\ c[p] = db[p]
    BY <1>3, <1>5, CutKeeps
  <2>2. c \in Images
    BY <1>6, FilesAreNext
  <2> HIDE DEF c
  <2>3. Settles(c, dbDur, jrnl, jrnlDur, jrnlNew, FoundIn(c, outcomes, lost), O)
    <3>1. CASE Cold(jrnlDur)
      BY <1>2, <1>5, <2>1, <2>2, <3>1, ColdIsSettled
    <3>2. CASE Comeback
      <4>1. PICK Q \in Images, t \in Nat, n \in Nat :
                /\ StandsFor(Q, lost) /\ Len(Q) <= dbSize
                /\ Chain(jrnlDur, Q, t, n) /\ Covered(db, dbDur, jrnlDur, Q, n)
        BY <3>2 DEF Comeback
      <4>2. ASSUME NEW p \in 1 .. Len(Q), Durably(db, dbDur, Q, p) PROVE Durably(c, dbDur, Q, p)
        BY <1>5, <4>1, <4>2, TruncationKeeps DEF c
      <4>3. Len(c) > 0
        BY <1>3, <1>5, <2>1, <2>2 DEF StandsFor, Images
      <4>4. Covered(c, dbDur, jrnlDur, Q, n)
        BY <4>1, <4>2, <4>3 DEF Covered
      <4>5. StandsFor(Q, FoundIn(c, outcomes, lost))
        BY <4>1 DEF StandsFor, FoundIn
      <4>6. Restorable(c, dbDur, jrnlDur, FoundIn(c, outcomes, lost))
        BY <4>1, <4>4, <4>5 DEF Restorable
      <4> QED
        BY <1>2, <2>1, <3>2, <4>6 DEF Settles, NoJournal, Comeback
    <3> QED
      BY <1>2, <3>1, <3>2
  <2>4. db' = c
    BY <1>6 DEF c
  <2>5. Settled(O)' /\ StandsFor(O, outcomes')
    BY <1>4, <2>3, <2>4 DEF Settled, Found
  <2>6. Concludes
    BY <1>6, EndingIs
  <2>7. /\ call.op \notin {"SharedLock"} /\ Len(O) = dbSize
        /\ \A p \in 1 .. dbSize : Cached(p) => p <= Len(db') /\ cache[p] = db'[p]
    BY <1>2, <1>3, <2>1, <2>4 DEF Current, Matches
  <2> QED
    BY <2>5, <2>6, <2>7, LandsEnded
<1>7. CASE UNCHANGED db /\ GiveUp
  <2>1. Settled(O)
    BY <1>2, <1>3, NowSettled, ComebackSettled
  <2>2. UNCHANGED <<dbfile, jfile, history>>
    BY <1>4, <1>7 DEF dbfile, jfile, history
  <2>3. Suspended(O)' /\ StandsFor(O, outcomes')
    BY <2>1, <2>2, SameFiles DEF Suspended
  <2> QED
    BY <1>2, <1>7, <2>3, LandsGivenUp
<1> QED
  BY <1>6, <1>7 DEF TruncateAfterCommit

-----------------------------------------------------------------------------
(* Writing to pages.                                                       *)

\* A slot is written behind the journal of a transaction; a record joins it.
LEMMA JournalExtended ==
    ASSUME Types, NEW f \in Journals, NEW new \in BOOLEAN,
           NEW O \in Images, NEW h \in Nat, NEW e \in Nat,
           Own(f, O, txn, h, e), h < e, Uncounted(f, h),
           Guards(db, dbDur, f, jrnlDur, new, Found, O, txn, h),
           NEW s \in Slots, s = Garbage \/ (s.kind = "rec" /\ Original(s, O)),
           NEW x, x = WriteAt(f, e + 1, s, Garbage)
    PROVE  /\ x \in Journals /\ Own(x, O, txn, h, e) /\ Uncounted(x, h)
           /\ Guards(db, dbDur, x, jrnlDur, new, Found, O, txn, h)
           /\ \A i \in 1 .. e : x[i] = f[i]
           /\ x[e + 1] = s
           /\ s.kind = "rec" /\ s.nonce = <<txn, h>> => Own(x, O, txn, h, e + 1)
<1>1. /\ x \in Journals /\ IsFile(x) /\ e < Len(x) /\ x[e + 1] = s
      /\ Own(x, O, txn, h, e)
      /\ Uncounted(x, h)
      /\ \A i \in 1 .. e : x[i] = f[i]
  <2>1. txn \in 0 .. MaxTxn
    BY FilesAre
  <2> QED
    BY <2>1, JournalWritten
<1>2. IsFile(f) /\ Len(x) \in Nat
  BY <1>1, OwnIsFile DEF Journals
<1>3. Ends(f, h) /\ Ends(x, h) /\ h <= Len(x) /\ \A i \in 1 .. h : x[i] = f[i]
  <2>1. h <= Len(x) /\ \A i \in 1 .. h : x[i] = f[i]
    BY <1>1, <1>2
  <2> QED
    BY <1>1, <2>1, UncountedEnds
<1>4. Guards(db, dbDur, x, jrnlDur, new, Found, O, txn, h)
  <2>1. jrnlDur \in Journals /\ txn \in Nat
    BY FilesAre
  <2> QED
    BY <1>1, <1>2, <1>3, <2>1, GuardsBehind
<1>5. ASSUME s.kind = "rec", s.nonce = <<txn, h>> PROVE Own(x, O, txn, h, e + 1)
  <2>1. x[e + 1].kind = "rec" /\ x[e + 1].nonce = <<txn, h>> /\ Original(x[e + 1], O)
    <3>1. Original(s, O)
      BY <1>5 DEF Garbage
    <3> QED
      BY <1>1, <1>5, <3>1
  <2> QED
    BY <1>1, <2>1, FilesAre, RecordJoins
<1> QED
  BY <1>1, <1>4, <1>5

\* Where the original of each page is, when J are the pages in the journal, N those
\* whose records are not synced, and c is the cache (PagesOf).
PagesOfList(d, m, O, f, h, e, J, N, c) ==
    \A p \in 1 .. Len(O) :
        /\ p \in J => Recorded(f, 0, e, p)
        /\ p \in J \ N => Recorded(f, 0, h, p)
        /\ p \notin J => Durably(d, m, O, p) /\ (c[p] # NotCached => c[p] = O[p])

\* A write adds its page to those in the journal, or leaves it as it is.
LEMMA PagesNext ==
    ASSUME Types, Types', NEW O \in Images, NEW f \in Journals, NEW h \in Nat, NEW e \in Nat,
           h <= e, e <= journalOff', journalHdr' = h, \A i \in 1 .. e : jrnl'[i] = f[i],
           PagesOfList(db, dbDur, O, f, h, e, inJournal, needSync, cache), needSync \subseteq needSync',
           UNCHANGED <<db, dbDur>>, NEW p, \A q \in Page \ {p} : cache'[q] = cache[q],
           inJournal' = inJournal \/ inJournal' = inJournal \cup {p}, Len(O) <= MaxPage,
           p \in 1 .. Len(O) => \/ p \notin inJournal' /\ cache'[p] = O[p]
                                \/ p \in inJournal
                                \/ p \in inJournal' /\ p \in needSync' /\ Recorded(jrnl', 0, journalOff', p)
    PROVE  PagesOf(O)'
<1>1. jrnl' \in Journals /\ journalOff' \in Nat
  BY FilesAreNext
<1>2. ASSUME NEW q \in 1 .. Len(O)
      PROVE  /\ q \in inJournal' => Recorded(jrnl', 0, journalOff', q)
             /\ q \in inJournal' \ needSync' => Recorded(jrnl', 0, h, q)
             /\ q \notin inJournal' => Durably(db, dbDur, O, q) /\ (cache'[q] # NotCached => cache'[q] = O[q])
  <2>1. /\ q \in inJournal => Recorded(f, 0, e, q)
        /\ q \in inJournal \ needSync => Recorded(f, 0, h, q)
        /\ q \notin inJournal => Durably(db, dbDur, O, q) /\ (cache[q] # NotCached => cache[q] = O[q])
    BY <1>2 DEF PagesOfList
  <2>2. Recorded(f, 0, e, q) => Recorded(jrnl', 0, journalOff', q)
    BY <1>1, RecordedAgree
  <2>3. Recorded(f, 0, h, q) => Recorded(jrnl', 0, h, q)
    <3>1. \A i \in 1 .. h : jrnl'[i] = f[i]
      OBVIOUS
    <3> QED
      BY <1>1, <3>1, RecordedAgree
  <2>4. q \in Page
    BY <1>2, PagerAssumption DEF Page, Images
  <2>5. CASE q # p
    BY <2>1, <2>2, <2>3, <2>4, <2>5
  <2>6. CASE q = p /\ p \in inJournal
    BY <2>1, <2>2, <2>3, <2>6
  <2>7. CASE q = p /\ p \notin inJournal
    BY <1>2, <2>1, <2>7
  <2> QED
    BY <2>5, <2>6, <2>7
<1> QED
  BY <1>2 DEF PagesOf, Cached

\* What sqlite3PagerWrite starts from: a journal f, created if there was none, with
\* n records up to e in the segment behind h.
ReadyToLog(O, f, new, h, e, nonce, n) ==
    /\ f \in Journals /\ new \in BOOLEAN /\ h \in Nat /\ e \in Nat /\ n \in Nat
    /\ Own(f, O, txn, h, e) /\ h < e /\ Uncounted(f, h)
    /\ Guards(db, dbDur, f, jrnlDur, new, Found, O, txn, h)
    /\ nonce = <<txn, h>> /\ e = h + 1 + n
    /\ Len(O) = dbOrigSize
    /\ PagesOfList(db, dbDur, O, f, h, e, inJournal, needSync, cache)
    /\ Steady(O) /\ Grown(O)
    /\ eState # "WRITER_DBMOD" => \A j \in 1 .. Len(subJournal) : subJournal[j].pg \in dirty
    /\ \A p \in dirty : Cached(p)

LEMMA ReadyWriting ==
    ASSUME Types, NEW O \in Images, PhaseWrite(O), AtRest
    PROVE  ReadyToLog(O, jrnl, jrnlNew \/ ~IsFile(jrnl), journalHdr, journalOff, cksumInit, nRec)
<1>1. /\ Protects(O) /\ Writing(O) /\ Steady(O) /\ Grown(O)
      /\ journalHdr < journalOff /\ Uncounted(jrnl, journalHdr)
      /\ eState # "WRITER_DBMOD" => \A j \in 1 .. Len(subJournal) : subJournal[j].pg \in dirty
  BY DEF PhaseWrite, Between, AtRest, Grown
<1>2. /\ OwnJournal(O, journalOff) /\ PagesOf(O) /\ Guarded(O)
      /\ \A p \in dirty : Cached(p)
      /\ cksumInit = <<txn, journalHdr>> /\ journalOff = journalHdr + 1 + nRec
  BY <1>1 DEF Writing, Protects
<1>3. /\ jrnl \in Journals /\ jrnlNew \in BOOLEAN /\ journalHdr \in Nat /\ journalOff \in Nat /\ nRec \in Nat
  BY FilesAre DEF Types, TypesOfJournal
<1>4. Own(jrnl, O, txn, journalHdr, journalOff) /\ Len(O) = dbOrigSize
  BY <1>2 DEF OwnJournal
<1>5. IsFile(jrnl)
  BY <1>3, <1>4, OwnIsFile
<1>6. (jrnlNew \/ ~IsFile(jrnl)) = jrnlNew
  BY <1>3, <1>5
<1>7. PagesOfList(db, dbDur, O, jrnl, journalHdr, journalOff, inJournal, needSync, cache)
  BY <1>2 DEF PagesOfList, PagesOf, Cached
<1>8. Guards(db, dbDur, jrnl, jrnlDur, jrnlNew, Found, O, txn, journalHdr)
  BY <1>2 DEF Guarded
<1> HIDE DEF Own, Guards
<1> QED
  BY <1>1, <1>2, <1>3, <1>4, <1>6, <1>7, <1>8 DEF ReadyToLog

LEMMA ReadyLocked ==
    ASSUME Types, NEW O \in Images, StandsFor(O, outcomes), PhaseLocked(O), AtRest, subJournal = <<>>
    PROVE  ReadyToLog(O, OpenedJournal, jrnlNew \/ ~IsFile(jrnl), 0, 1, <<txn, 0>>, 0)
<1>1. /\ NothingDirty /\ inJournal = {} /\ Settled(O) /\ Len(O) = dbSize /\ dbOrigSize = dbSize
      /\ dbFileSize <= dbSize /\ Current /\ Untouched /\ eState = "WRITER_LOCKED"
      /\ \A j \in 1 .. Len(subJournal) : subJournal[j].pg \in dirty
  BY DEF PhaseLocked
<1>2. /\ jrnl \in Journals /\ jrnlDur \in Journals /\ jrnlNew \in BOOLEAN /\ txn \in 0 .. MaxTxn
      /\ dbSize \in 0 .. MaxPage
  BY FilesAre DEF Types, TypesOfCache
<1>3. CreatedJournal \in Journals /\ \A i \in 2 .. Len(CreatedJournal) : ~OfTxn(CreatedJournal[i], txn)
  <2>1. CASE IsFile(jrnl)
    BY <1>1, <1>2, <2>1 DEF CreatedJournal, Untouched, Journals
  <2>2. CASE ~IsFile(jrnl)
    BY <2>2, EmptyIsCold DEF CreatedJournal
  <2> QED
    BY <2>1, <2>2
<1> DEFINE x == OpenedJournal
<1>4. x = WriteAt(CreatedJournal, 1, Header(FALSE, 0, <<txn, 0>>, Len(O)), Garbage)
  BY <1>1 DEF OpenedJournal, NewHeader
<1>5. /\ x \in Journals /\ IsFile(x) /\ Cold(x) /\ Uncounted(x, 0) /\ Own(x, O, txn, 0, 1)
  <2>1. Len(O) \in 0 .. MaxPage
    BY <1>1, <1>2
  <2> HIDE DEF x
  <2> QED
    BY <1>2, <1>3, <1>4, <2>1, JournalBegins
<1> HIDE DEF x
<1>6. /\ AllDurably(db, dbDur, O) /\ SyncedPrefix(db, dbDur)
      /\ NoJournal(db, dbDur, jrnl, jrnlDur, jrnlNew, Found)
  BY <1>1 DEF Settled, Settles
<1>7. Guards(db, dbDur, x, jrnlDur, jrnlNew \/ ~IsFile(jrnl), Found, O, txn, 0)
  BY <1>5, <1>6 DEF Guards, NoJournal
<1>8. PagesOfList(db, dbDur, O, x, 0, 1, inJournal, needSync, cache)
  <2> SUFFICES ASSUME NEW p \in 1 .. Len(O)
               PROVE  Durably(db, dbDur, O, p) /\ (cache[p] # NotCached => cache[p] = O[p])
    BY <1>1 DEF PagesOfList
  <2>1. Durably(db, dbDur, O, p)
    BY <1>6 DEF AllDurably
  <2> QED
    BY <1>1, <2>1 DEF Current, Matches, Cached, Durably
<1>9. Steady(O) /\ Grown(O) /\ \A p \in dirty : Cached(p)
  BY <1>1, <1>2 DEF Steady, Grown, NothingDirty, Clean, Current
<1>10. ReadyToLog(O, x, jrnlNew \/ ~IsFile(jrnl), 0, 1, <<txn, 0>>, 0)
  BY <1>1, <1>2, <1>5, <1>7, <1>8, <1>9 DEF ReadyToLog
<1> QED
  BY <1>10 DEF x

\* The content that sqlite3PagerWrite finds in a page and writes to the journal.
LEMMA ContentRead ==
    ASSUME Types, NEW O \in Images, NEW f, NEW new, NEW h, NEW e, NEW nonce, NEW n,
           ReadyToLog(O, f, new, h, e, nonce, n), NEW p \in Page
    PROVE  /\ PageContent(p) \in Content /\ PageContent(p) # NotCached
           /\ p <= Len(O) /\ p \notin inJournal => PageContent(p) = O[p]
<1>1. /\ PagesOfList(db, dbDur, O, f, h, e, inJournal, needSync, cache) /\ Grown(O)
      /\ Len(O) <= dbSize
  BY DEF ReadyToLog, Grown
<1>2. /\ cache \in [Page -> Content \cup {NotCached}] /\ db \in Seq(Content) /\ dbSize \in Nat
      /\ O \in Seq(Content)
  BY DEF Types, TypesOfCache, TypesOfFiles, Images
<1>3. NotCached \notin Content /\ 0 \in Content
  BY PagerAssumption DEF NotCached, Content, Torn
<1>4. p \in Nat /\ p > 0
  BY DEF Page
<1>5. PageContent(p) \in Content
  BY <1>2, <1>3, <1>4 DEF PageContent
<1>6. ASSUME p <= Len(O), p \notin inJournal PROVE PageContent(p) = O[p]
  <2>1. p \in 1 .. Len(O)
    BY <1>2, <1>4, <1>6
  <2>2. Durably(db, dbDur, O, p) /\ (cache[p] # NotCached => cache[p] = O[p])
    BY <1>1, <1>6, <2>1 DEF PagesOfList
  <2>3. p <= Len(db) /\ db[p] = O[p] /\ p <= dbSize
    BY <1>1, <1>2, <1>4, <1>6, <2>2 DEF Durably
  <2> QED
    BY <2>2, <2>3 DEF PageContent
<1> QED
  BY <1>3, <1>5, <1>6

\* The files after a step of sqlite3PagerWrite.
LEMMA WriteKeepsFiles ==
    ASSUME Types, NEW O \in Images, StandsFor(O, outcomes), NEW new, NEW h \in Nat, NEW k \in Nat,
           Own(jrnl', O, txn, h, k),
           Guards(db, dbDur, jrnl', jrnlDur, new, Found, O, txn, h), Len(O) = dbOrigSize,
           UNCHANGED <<dbOrigSize, dbfile, jrnlDur, txn, history>>,
           jrnlNew' = new, jfdOpen' = TRUE, journalHdr' = h, journalOff' = k,
           (eState' = "WRITER_CACHEMOD" /\ h = 0) \/ (eState' = "WRITER_DBMOD" /\ h > 0)
    PROVE  /\ StandsFor(O, outcomes') /\ Protects(O)' /\ OwnJournal(O, journalOff)'
<1>1. UNCHANGED <<db, dbDur, outcomes, lost, Found>>
  BY DEF dbfile, history, Found
<1>2. Guarded(O)'
  BY <1>1 DEF Guarded
<1>3. Own(jrnl', O, txn', journalHdr', journalOff') /\ jfdOpen' /\ Len(O) = dbOrigSize'
  OBVIOUS
<1> QED
  BY <1>1, <1>2, <1>3 DEF Protects, OwnJournal

\* The other pages stay clean.
LEMMA CleanAfterWrite ==
    ASSUME Types, Types', Clean, NEW p \in Page, p <= dbSize + 1,
           dbSize' \in Nat, dbSize' <= Larger(dbSize, p), dirty' = dirty \cup {p}, db' = db,
           \A q \in Page \ {p} : cache'[q] = cache[q]
    PROVE  Clean'
<1>1. dbSize \in Nat /\ p \in Nat /\ p > 0 /\ dbSize' <= MaxPage /\ MaxPage \in Nat
  BY FilesAre DEF Types, TypesOfCache, Page
<1>2. ASSUME NEW q \in (1 .. dbSize') \ dirty'
      PROVE  q <= Len(db') /\ (Cached(q)' => cache'[q] = db'[q])
  <2>1. q # p /\ q \notin dirty /\ q \in Nat /\ q > 0 /\ q <= dbSize'
    BY <1>2
  <2>2. q <= dbSize /\ q \in Page
    BY <1>1, <2>1 DEF Larger, Page
  <2>3. q <= Len(db) /\ (Cached(q) => cache[q] = db[q])
    BY <1>1, <2>1, <2>2 DEF Clean, Matches
  <2> QED
    BY <2>1, <2>2, <2>3 DEF Cached
<1> QED
  BY <1>2 DEF Clean, Matches

\* sqlite3PagerWrite fails with the page in its hands.
LEMMA WriteFailed ==
    ASSUME Types, Types', NEW O \in Images, StandsFor(O, outcomes),
           NEW f, NEW new, NEW h, NEW e, NEW nonce, NEW n,
           ReadyToLog(O, f, new, h, e, nonce, n), NEW p \in Page,
           call'.op = "none", call'.at \in {"failed", "failedWrite"},
           Own(jrnl', O, txn, h, e), \A i \in 1 .. e : jrnl'[i] = f[i],
           Guards(db, dbDur, jrnl', jrnlDur, new, Found, O, txn, h),
           UNCHANGED <<dbOrigSize, dbFileSize, dbfile, jrnlDur, txn, history, settings, inJournal>>,
           jrnlNew' = new, jfdOpen' = TRUE, journalHdr' = h, journalOff' = e,
           (eState' = "WRITER_CACHEMOD" /\ h = 0) \/ (eState' = "WRITER_DBMOD" /\ h > 0),
           cksumInit' = nonce, nRec' = n, dirty' = dirty \cup {p}, needSync \subseteq needSync',
           needSync' \subseteq needSync \cup {p}, eState' = "WRITER_CACHEMOD" => eState # "WRITER_DBMOD",
           cache' = [cache EXCEPT ![p] = PageContent(p)],
           Len(O) <= dbSize' \/ MayShrink, Uncounted(jrnl', h),
           call'.at = "failedWrite" =>
              subJournal' = subJournal /\ p <= dbSize + 1 /\ dbSize' \in {dbSize, Larger(dbSize, p)}
    PROVE  Consistent'
<1>1. /\ f \in Journals /\ h \in Nat /\ e \in Nat /\ n \in Nat /\ h < e /\ nonce = <<txn, h>> /\ e = h + 1 + n
      /\ Len(O) = dbOrigSize /\ PagesOfList(db, dbDur, O, f, h, e, inJournal, needSync, cache)
      /\ Clean /\ Grown(O)
      /\ eState # "WRITER_DBMOD" => \A j \in 1 .. Len(subJournal) : subJournal[j].pg \in dirty
      /\ \A q \in dirty : Cached(q)
  BY DEF ReadyToLog, Steady
<1>2. StandsFor(O, outcomes') /\ Protects(O)' /\ OwnJournal(O, journalOff)'
  BY <1>1, WriteKeepsFiles
<1>3. /\ PageContent(p) \in Content /\ PageContent(p) # NotCached
      /\ p <= Len(O) /\ p \notin inJournal => PageContent(p) = O[p]
  BY ContentRead
<1>4. /\ cache'[p] = PageContent(p) /\ \A q \in Page \ {p} : cache'[q] = cache[q]
      /\ dirty \subseteq Page /\ Len(O) <= MaxPage
  <2>1. cache \in [Page -> Content \cup {NotCached}] /\ dirty \subseteq Page /\ Len(O) <= MaxPage
    BY <1>1 DEF Types, TypesOfCache
  <2> QED
    BY <2>1
<1>5. PagesOf(O)'
  <2>1. p \in 1 .. Len(O) => (p \notin inJournal /\ cache'[p] = O[p]) \/ p \in inJournal
    BY <1>3, <1>4
  <2>3. h <= e /\ e <= e
    BY <1>1
  <2>4. \A q \in Page \ {p} : cache'[q] = cache[q]
    BY <1>4
  <2>5. /\ f \in Journals /\ h \in Nat /\ e \in Nat /\ h <= e /\ e <= journalOff' /\ Len(O) <= MaxPage
        /\ PagesOfList(db, dbDur, O, f, h, e, inJournal, needSync, cache)
        /\ inJournal' = inJournal \/ inJournal' = inJournal \cup {p}
        /\ UNCHANGED <<db, dbDur>>
    BY <1>1, <1>4, <2>3 DEF dbfile
  <2> QED
    BY <2>1, <2>4, <2>5, PagesNext
<1>6. \A q \in dirty' : Cached(q)'
  BY <1>1, <1>3, <1>4 DEF Cached
<1>7. Len(O) <= dbSize' \/ MayShrink'
  BY DEF MayShrink, settings
<1>8. Writing(O)'
  BY <1>1, <1>2, <1>5, <1>6, <1>7 DEF Writing
<1>9. CASE call'.at = "failed"
  <2>1. PhaseWrite(O)'
    BY <1>2, <1>8, <1>9 DEF PhaseWrite, Between
  <2> QED
    BY <1>2, <2>1 DEF Consistent, Phase
<1>10. CASE call'.at = "failedWrite"
  <2>1. dbSize \in Nat /\ dbSize' \in Nat /\ p \in Nat /\ dbSize <= dbSize' /\ dbSize' <= Larger(dbSize, p)
        /\ Len(O) \in Nat
    BY <1>10 DEF Larger, Page, Types, TypesOfCache, Images
  <2>2. Clean'
    <3>1. db' = db /\ \A q \in Page \ {p} : cache'[q] = cache[q]
      BY <1>4 DEF dbfile
    <3> QED
      BY <1>1, <1>10, <2>1, <3>1, CleanAfterWrite
  <2>3. Grown(O)'
    <3>1. Len(O) <= dbSize' /\ needSync' \subseteq dirty'
      BY <1>1, <2>1 DEF Grown
    <3>2. eState' = "WRITER_CACHEMOD" => \A j \in 1 .. Len(subJournal') : subJournal'[j].pg \in dirty'
      BY <1>1, <1>10
    <3> QED
      BY <3>1, <3>2 DEF Grown
  <2>4. journalHdr' < journalOff' /\ Uncounted(jrnl', journalHdr')
    BY <1>1
  <2>5. PhaseWrite(O)'
    BY <1>2, <1>8, <1>10, <2>2, <2>3, <2>4 DEF PhaseWrite, Between
  <2> QED
    BY <1>2, <2>5 DEF Consistent, Phase
<1> QED
  BY <1>9, <1>10

\* The page is in the journal, if it must be, and is written.
LEMMA WriteDone ==
    ASSUME Types, Types', NEW O \in Images, StandsFor(O, outcomes),
           NEW f, NEW new, NEW h, NEW e, NEW nonce, NEW n,
           ReadyToLog(O, f, new, h, e, nonce, n), NEW p \in Page, NEW k \in Nat, NEW c \in Nat,
           \/ p \in inJournal' /\ p <= Len(O) => p \in inJournal
           \/ p \in needSync' /\ Recorded(jrnl', 0, k, p),
           p <= Len(O) => p \in inJournal',
           inJournal' \in {inJournal, inJournal \cup {p}},
           e <= k, k = h + 1 + c,
           Own(jrnl', O, txn, h, k), \A i \in 1 .. e : jrnl'[i] = f[i], Uncounted(jrnl', h),
           Guards(db, dbDur, jrnl', jrnlDur, new, Found, O, txn, h),
           UNCHANGED <<dbOrigSize, dbFileSize, dbfile, jrnlDur, txn, history, settings>>,
           jrnlNew' = new, jfdOpen' = TRUE, journalHdr' = h, journalOff' = k,
           (eState' = "WRITER_CACHEMOD" /\ h = 0) \/ (eState' = "WRITER_DBMOD" /\ h > 0),
           cksumInit' = nonce, nRec' = c, dirty' = dirty \cup {p}, needSync \subseteq needSync',
           needSync' \subseteq needSync \cup {p},
           cache' = [cache EXCEPT ![p] = version],
           NEW size \in Nat, size <= dbSize, dbSize' = Larger(size, p),
           Len(O) <= dbSize' \/ MayShrink,
           \/ /\ call' = Idle /\ size = dbSize
              /\ eState' = "WRITER_CACHEMOD" => \A j \in 1 .. Len(subJournal') : subJournal'[j].pg \in dirty'
           \/ call'.op = "CommitPhaseOne" /\ call'.at = "syncRecords" /\ p <= dbSize,
           p <= dbSize + 1
    PROVE  Consistent'
<1>1. /\ f \in Journals /\ h \in Nat /\ e \in Nat /\ n \in Nat /\ h < e /\ nonce = <<txn, h>> /\ e = h + 1 + n
      /\ Len(O) = dbOrigSize /\ PagesOfList(db, dbDur, O, f, h, e, inJournal, needSync, cache)
      /\ Steady(O) /\ Grown(O)
      /\ \A q \in dirty : Cached(q)
  BY DEF ReadyToLog
<1>2. StandsFor(O, outcomes') /\ Protects(O)' /\ OwnJournal(O, journalOff)'
  BY <1>1, WriteKeepsFiles
<1>3. /\ cache'[p] = version /\ \A q \in Page \ {p} : cache'[q] = cache[q]
      /\ dirty \subseteq Page /\ Len(O) <= MaxPage /\ Len(O) \in Nat /\ version # NotCached
      /\ dbSize \in Nat /\ p \in Nat /\ p > 0 /\ MaxPage \in Nat
  <2>1. /\ cache \in [Page -> Content \cup {NotCached}] /\ dirty \subseteq Page
        /\ Len(O) <= MaxPage /\ dbSize \in Nat /\ Len(O) \in Nat
    <3>1. /\ cache \in [Page -> Content \cup {NotCached}] /\ dirty \subseteq Page
          /\ dbSize \in 0 .. MaxPage /\ dbOrigSize \in 0 .. MaxPage
      BY DEF Types, TypesOfCache
    <3>2. Len(O) = dbOrigSize /\ MaxPage \in Nat
      BY <1>1, FilesAre
    <3> QED
      BY ONLY <3>1, <3>2
  <2>2. version # NotCached /\ MaxPage \in Nat
    BY PageContentIs, FilesAre
  <2>3. p \in Nat /\ p > 0
    BY DEF Page
  <2> QED
    BY <2>1, <2>2, <2>3
<1>4. PagesOf(O)'
  <2>1. p \in 1 .. Len(O) => \/ p \notin inJournal' /\ cache'[p] = O[p]
                             \/ p \in inJournal
                             \/ p \in inJournal' /\ p \in needSync' /\ Recorded(jrnl', 0, k, p)
    OBVIOUS
  <2>3. h <= e /\ e <= k
    BY <1>1
  <2>4. \A q \in Page \ {p} : cache'[q] = cache[q]
    BY <1>3
  <2>5. /\ f \in Journals /\ h \in Nat /\ e \in Nat /\ h <= e /\ e <= journalOff' /\ Len(O) <= MaxPage
        /\ PagesOfList(db, dbDur, O, f, h, e, inJournal, needSync, cache)
        /\ inJournal' = inJournal \/ inJournal' = inJournal \cup {p}
        /\ UNCHANGED <<db, dbDur>>
    BY <1>1, <1>3, <2>3 DEF dbfile
  <2> QED
    BY <2>1, <2>4, <2>5, PagesNext
<1>5. \A q \in dirty' : Cached(q)'
  BY <1>1, <1>3 DEF Cached
<1>6. Len(O) <= dbSize' \/ MayShrink'
  BY DEF MayShrink, settings
<1>7. Writing(O)'
  BY <1>1, <1>2, <1>4, <1>5, <1>6 DEF Writing
<1>8. Steady(O)'
  <2>1. Clean /\ \A q \in dirty : q <= Len(O) => q \in inJournal
    BY <1>1 DEF Steady
  <2>2. dbSize' \in Nat /\ dbSize' <= Larger(dbSize, p) /\ db' = db
    BY <1>3 DEF Larger, dbfile
  <2>3. Clean'
    BY <1>3, <2>1, <2>2, CleanAfterWrite
  <2>4. \A q \in dirty' : q <= Len(O) => q \in inJournal'
    BY <2>1
  <2> QED
    BY <2>3, <2>4 DEF Steady
<1>9. journalHdr' < journalOff' /\ Uncounted(jrnl', journalHdr')
  BY <1>1
<1>10. CASE /\ call' = Idle /\ size = dbSize
            /\ eState' = "WRITER_CACHEMOD" => \A j \in 1 .. Len(subJournal') : subJournal'[j].pg \in dirty'
  <2>1. Grown(O)'
    <3>1. Len(O) <= dbSize' /\ needSync' \subseteq dirty'
      BY <1>1, <1>3, <1>10 DEF Grown, Larger
    <3> QED
      BY <1>10, <3>1 DEF Grown
  <2>2. call'.op = "none" /\ call'.at = "idle"
    BY <1>10 DEF Idle
  <2>3. PhaseWrite(O)'
    BY <1>2, <1>7, <1>8, <1>9, <2>1, <2>2 DEF PhaseWrite, Between, Steady
  <2> QED
    BY <1>2, <2>3 DEF Consistent, Phase
<1>11. CASE call'.op = "CommitPhaseOne" /\ call'.at = "syncRecords"
  <2>1. dbSize' > 0
    BY <1>3 DEF Larger
  <2>2. PhaseWrite(O)'
    BY <1>2, <1>7, <1>8, <1>9, <1>11, <2>1 DEF PhaseWrite, Between
  <2> QED
    BY <1>2, <2>2 DEF Consistent, Phase
<1> QED
  BY <1>10, <1>11

\* pager_open_journal fails.
LEMMA OpeningFails ==
    ASSUME Types, Types', NEW O \in Images, StandsFor(O, outcomes), PhaseLocked(O), AtRest,
           NEW p \in Page, call'.op = "none", call'.at = "failedWrite",
           UNCHANGED <<eState, dirty, needSync, inJournal, dbSize, dbOrigSize, dbFileSize, dbfile, jrnlDur,
                       txn, history>>,
           cache' = [cache EXCEPT ![p] = PageContent(p)],
           \/ UNCHANGED <<jrnl, jrnlNew>>
           \/ /\ jrnl' \in {CreatedJournal, OpenedJournal, WriteAt(CreatedJournal, 1, Garbage, Garbage)}
              /\ jrnlNew' = (jrnlNew \/ ~IsFile(jrnl))
    PROVE  Consistent'
<1>1. /\ eState = "WRITER_LOCKED" /\ NothingDirty /\ inJournal = {} /\ Settled(O) /\ Len(O) = dbSize
      /\ dbOrigSize = dbSize /\ dbFileSize <= dbSize /\ Current /\ Untouched
  BY DEF PhaseLocked
<1>2. /\ jrnl \in Journals /\ jrnlNew \in BOOLEAN /\ txn \in 0 .. MaxTxn /\ dbSize \in 0 .. MaxPage
      /\ Len(jrnl) \in Nat
  BY FilesAre DEF Types, TypesOfCache, Journals
<1>3. UNCHANGED <<db, dbDur, Found>> /\ StandsFor(O, outcomes')
  BY DEF dbfile, history, Found
<1>4. Current'
  <2>1. cache \in [Page -> Content \cup {NotCached}]
    BY DEF Types, TypesOfCache
  <2>2. ASSUME NEW q \in 1 .. dbSize PROVE q <= Len(db) /\ (cache'[q] # NotCached => cache'[q] = db[q])
    <3>1. q <= Len(db) /\ (cache[q] # NotCached => cache[q] = db[q])
      BY <1>1, <2>2 DEF Current, Matches, Cached
    <3>2. q \in Page /\ q <= dbSize
      BY FilesAre, <1>2, <2>2 DEF Page
    <3>3. CASE q = p
      <4>1. PageContent(p) = db[p]
        BY <3>1, <3>2, <3>3 DEF PageContent
      <4> QED
        BY <2>1, <3>1, <3>3, <4>1
    <3>4. CASE q # p
      BY <2>1, <3>1, <3>2, <3>4
    <3> QED
      BY <3>3, <3>4
  <2> QED
    BY <1>3, <2>2 DEF Current, Matches, Cached
<1>5. ASSUME Settled(O)', Untouched' PROVE Consistent'
  <2>1. NothingDirty'
    BY <1>1 DEF NothingDirty
  <2>2. PhaseLocked(O)'
    BY <1>1, <1>4, <1>5, <2>1 DEF PhaseLocked, Between
  <2> QED
    BY <1>3, <2>2 DEF Consistent, Phase
<1>6. CASE UNCHANGED <<jrnl, jrnlNew>>
  <2>1. Settled(O)'
    BY <1>1, <1>3, <1>6 DEF Settled
  <2>2. Untouched'
    BY <1>1, <1>6 DEF Untouched
  <2> QED
    BY <1>5, <2>1, <2>2
\* The journal is there, perhaps with a header.
<1>7. ASSUME NEW f \in Journals, Cold(f), jrnl' = f, jrnlNew' = (jrnlNew \/ ~IsFile(jrnl)),
             \A i \in 1 .. Len(f) : OfTxn(f[i], txn) => i = 1 /\ f[i].kind = "hdr" /\ ~f[i].magic
      PROVE  Consistent'
  <2>1. /\ AllDurably(db, dbDur, O) /\ SyncedPrefix(db, dbDur)
        /\ NoJournal(db, dbDur, jrnl, jrnlDur, jrnlNew, Found)
    BY <1>1 DEF Settled, Settles
  <2>2. NoJournal(db, dbDur, f, jrnlDur, jrnlNew \/ ~IsFile(jrnl), Found)
    BY <1>7, <2>1 DEF NoJournal
  <2>3. Settled(O)'
    BY <1>3, <1>7, <2>1, <2>2 DEF Settled, Settles
  <2>4. Untouched'
    BY <1>7 DEF Untouched
  <2> QED
    BY <1>5, <2>3, <2>4
<1> DEFINE c == CreatedJournal
<1>8. /\ c \in Journals /\ Cold(c) /\ Len(c) \in Nat
      /\ \A i \in 1 .. Len(c) : OfTxn(c[i], txn) => i = 1 /\ c[i].kind = "hdr" /\ ~c[i].magic
  <2>1. CASE IsFile(jrnl)
    BY <1>1, <1>2, <2>1 DEF CreatedJournal, Untouched, Settled, Settles, NoJournal
  <2>2. CASE ~IsFile(jrnl)
    BY <2>2, EmptyIsCold DEF CreatedJournal
  <2> QED
    BY <2>1, <2>2
<1>9. CASE jrnl' = c /\ jrnlNew' = (jrnlNew \/ ~IsFile(jrnl))
  BY <1>7, <1>8, <1>9
\* A slot in its first place.
<1>10. ASSUME NEW s \in Slots, ~HasMagic(s), OfTxn(s, txn) => s.kind = "hdr" /\ ~s.magic,
              NEW x, x = WriteAt(c, 1, s, Garbage), jrnl' = x, jrnlNew' = (jrnlNew \/ ~IsFile(jrnl))
       PROVE  Consistent'
  <2> HIDE DEF c
  <2>1. /\ x \in Journals
        /\ 1 <= Len(x) /\ x[1] = s
        /\ \A i \in 1 .. Len(x) : i = 1 \/ (i <= Len(c) /\ x[i] = c[i]) \/ x[i] = Garbage
    <3> DEFINE w == WriteAt(c, 1, s, Garbage)
    <3>1. c \in Journals /\ s \in Slots /\ 1 \in Nat \ {0}
      BY <1>8, <1>10
    <3>2. /\ w \in Journals
          /\ Len(w) = Larger(Len(c), 1)
          /\ 1 <= Len(w) /\ w[1] = s
          /\ \A i \in 1 .. Len(c) : i <= Len(w) /\ (i # 1 => w[i] = c[i])
          /\ \A i \in 1 .. Len(w) :
                \/ i = 1
                \/ i <= Len(c) /\ w[i] = c[i]
                \/ w[i] = Garbage
      BY ONLY <3>1, SlotWritten
    <3>3. x = w
      BY <1>10
    <3> HIDE DEF w
    <3> QED
      BY <3>2, <3>3
  <2>2. Cold(x)
    BY <1>10, <2>1 DEF Cold, Ends
  <2>3. Len(x) \in Nat
    BY <2>1 DEF Journals
  <2>4. ASSUME NEW i \in 1 .. Len(x), OfTxn(x[i], txn) PROVE i = 1 /\ x[i].kind = "hdr" /\ ~x[i].magic
    BY <1>8, <1>10, <2>1, <2>3, <2>4, GarbageIs
  <2> QED
    BY <1>7, <1>10, <2>1, <2>2, <2>4
<1>11. CASE jrnl' = WriteAt(c, 1, Garbage, Garbage) /\ jrnlNew' = (jrnlNew \/ ~IsFile(jrnl))
  BY <1>10, <1>11, GarbageIs
<1>12. CASE jrnl' = OpenedJournal /\ jrnlNew' = (jrnlNew \/ ~IsFile(jrnl))
  <2>1. /\ NewHeader(0) \in Slots /\ ~HasMagic(NewHeader(0)) /\ NewHeader(0).kind = "hdr"
        /\ ~NewHeader(0).magic
    <3>1. txn \in 0 .. MaxTxn /\ 0 \in Nat /\ dbOrigSize \in 0 .. MaxPage
      BY <1>1, <1>2
    <3> QED
      BY ONLY <3>1, HeaderIs DEF NewHeader
  <2>2. jrnl' = WriteAt(c, 1, NewHeader(0), Garbage)
    BY <1>12 DEF OpenedJournal
  <2> QED
    BY <1>10, <1>12, <2>1, <2>2
<1> QED
  BY <1>6, <1>9, <1>11, <1>12 DEF c

\* Before the first change nothing is in the sub-journal.
LEMMA LockedLogsNothing ==
    ASSUME Types, Preserving(FALSE), AtRest, eState = "WRITER_LOCKED"
    PROVE  subJournal = <<>>
<1>1. PICK B \in Images : Keeping(B)
  <2>1. FALSE \in BOOLEAN
    OBVIOUS
  <2> QED
    BY <2>1, RestsAt DEF Changing
<1> QED
  BY <1>1 DEF Keeping, NothingLogged

LEMMA PagerWriteStep ==
    ASSUME Types, Types', Preserving(FALSE), NEW O \in Images, StandsFor(O, outcomes), Phase(O), AtRest,
           eState \in {"WRITER_LOCKED", "WRITER_CACHEMOD", "WRITER_DBMOD"},
           NEW p \in Page, p <= dbSize + 1, NEW size \in Nat, size <= dbSize, size < dbSize => MayShrink,
           NEW next, PagerWrite(p, size, next),
           \/ next = Idle /\ size = dbSize
           \/ /\ next = [op |-> "CommitPhaseOne", pg |-> 0, at |-> "syncRecords"]
              /\ p <= dbSize /\ eState # "WRITER_LOCKED"
    PROVE  Consistent'
<1> DEFINE opening == eState = "WRITER_LOCKED"
           base == IF opening THEN OpenedJournal ELSE jrnl
           off == IF opening THEN 1 ELSE journalOff
           hdr == IF opening THEN 0 ELSE journalHdr
           nonce == IF opening THEN <<txn, 0>> ELSE cksumInit
           count == IF opening THEN 0 ELSE nRec
           new == jrnlNew \/ ~IsFile(jrnl)
           journals == p \notin inJournal /\ p <= dbOrigSize
           rec == Record(p, PageContent(p), nonce)
           logged == WriteAt(base, off + 1, rec, Garbage)
           marked == needSync \cup
                     (IF journals \/ (p > dbOrigSize /\ eState # "WRITER_DBMOD") THEN {p} ELSE {})
           error == [Idle EXCEPT !.at = IF next = Idle THEN "failedWrite" ELSE "failed"]
           Opened == /\ jrnlNew' = new /\ jfdOpen' = TRUE /\ cksumInit' = nonce /\ journalHdr' = hdr
                     /\ eState' = IF opening THEN "WRITER_CACHEMOD" ELSE eState
                     /\ dirty' = dirty \cup {p} /\ needSync' = marked
<1>1. UNCHANGED <<dbOrigSize, dbFileSize, left, dbfile, jrnlDur, settings, txn, crash, history>>
  BY DEF PagerWrite
<1>2. /\ eState = "WRITER_LOCKED" => PhaseLocked(O)
      /\ eState # "WRITER_LOCKED" => PhaseWrite(O)
  BY PhaseAtRest
<1>3. ReadyToLog(O, base, new, hdr, off, nonce, count)
  BY <1>2, LockedLogsNothing, ReadyLocked, ReadyWriting
<1>4. call' = error => call'.op = "none" /\ call'.at \in {"failed", "failedWrite"}
                       /\ (opening => call'.at = "failedWrite")
                       /\ (call'.at = "failedWrite" => size = dbSize)
  BY DEF Idle
<1>5. /\ base \in Journals /\ new \in BOOLEAN /\ hdr \in Nat /\ off \in Nat /\ count \in Nat
      /\ Own(base, O, txn, hdr, off) /\ hdr < off /\ Uncounted(base, hdr)
      /\ Guards(db, dbDur, base, jrnlDur, new, Found, O, txn, hdr)
      /\ nonce = <<txn, hdr>> /\ off = hdr + 1 + count /\ Len(O) = dbOrigSize
      /\ Len(O) <= dbSize
      /\ eState # "WRITER_DBMOD" => \A j \in 1 .. Len(subJournal) : subJournal[j].pg \in dirty
  BY <1>3 DEF ReadyToLog, Grown
<1>6. (eState = "WRITER_CACHEMOD" /\ hdr = 0) \/ (eState = "WRITER_DBMOD" /\ hdr > 0) \/ opening
  <2>1. ~opening => Protects(O)
    BY <1>2 DEF PhaseWrite
  <2> QED
    BY <2>1 DEF Protects
<1>7. /\ PageContent(p) \in Content
      /\ p <= Len(O) /\ p \notin inJournal => PageContent(p) = O[p]
  BY <1>3, ContentRead
<1>8. /\ rec \in Slots /\ rec.kind = "rec" /\ rec.nonce = <<txn, hdr>> /\ rec.pg = p
      /\ journals => Original(rec, O)
  <2>1. txn \in 0 .. MaxTxn
    BY DEF Types, TypesOfBounds
  <2>2. rec = Record(p, PageContent(p), <<txn, hdr>>)
    BY <1>5
  <2>3. rec \in Slots /\ rec.kind = "rec" /\ rec.nonce = <<txn, hdr>> /\ rec.pg = p /\ rec.val = PageContent(p)
    <3> HIDE DEF rec, hdr
    <3> QED
      BY <1>5, <1>7, <2>1, <2>2, RecordIs
  <2> QED
    BY <1>5, <1>7, <2>3 DEF Original
\* What can be in the journal.
<1>9. ASSUME NEW s \in {rec, Garbage}, s = rec => journals
      PROVE  /\ Own(WriteAt(base, off + 1, s, Garbage), O, txn, hdr, off)
             /\ Uncounted(WriteAt(base, off + 1, s, Garbage), hdr)
             /\ Guards(db, dbDur, WriteAt(base, off + 1, s, Garbage), jrnlDur, new, Found, O, txn, hdr)
             /\ \A i \in 1 .. off : WriteAt(base, off + 1, s, Garbage)[i] = base[i]
             /\ WriteAt(base, off + 1, s, Garbage)[off + 1] = s
             /\ s.kind = "rec" => Own(WriteAt(base, off + 1, s, Garbage), O, txn, hdr, off + 1)
  <2>1. /\ s \in Slots /\ (s = Garbage \/ (s.kind = "rec" /\ Original(s, O)))
        /\ s.kind = "rec" => s.nonce = <<txn, hdr>>
    BY <1>8, <1>9, GarbageIs DEF Garbage
  <2>2. txn \in 0 .. MaxTxn /\ jrnlDur \in Journals
    BY FilesAre
  <2> DEFINE x == WriteAt(base, off + 1, s, Garbage)
  <2>3. x = WriteAt(base, off + 1, s, Garbage)
    OBVIOUS
  <2> HIDE DEF rec, hdr, off, base, new, journals, x
  <2>4. /\ base \in Journals /\ new \in BOOLEAN /\ hdr \in Nat /\ off \in Nat
        /\ Own(base, O, txn, hdr, off) /\ hdr < off /\ Uncounted(base, hdr)
        /\ Guards(db, dbDur, base, jrnlDur, new, Found, O, txn, hdr) /\ O \in Images
    BY <1>5
  <2>5. /\ x \in Journals /\ Own(x, O, txn, hdr, off) /\ Uncounted(x, hdr)
        /\ Guards(db, dbDur, x, jrnlDur, new, Found, O, txn, hdr)
        /\ \A i \in 1 .. off : x[i] = base[i]
        /\ x[off + 1] = s
        /\ s.kind = "rec" /\ s.nonce = <<txn, hdr>> => Own(x, O, txn, hdr, off + 1)
    BY ONLY Types, <2>1, <2>3, <2>4, JournalExtended
  <2> QED
    BY <2>1, <2>3, <2>5
<1>10. Opened => /\ jrnlNew' = new /\ jfdOpen' = TRUE /\ cksumInit' = nonce /\ journalHdr' = hdr
                 /\ (eState' = "WRITER_CACHEMOD" /\ hdr = 0) \/ (eState' = "WRITER_DBMOD" /\ hdr > 0)
                 /\ dirty' = dirty \cup {p} /\ needSync \subseteq needSync'
                 /\ needSync' \subseteq needSync \cup {p}
                 /\ eState' = "WRITER_CACHEMOD" => eState # "WRITER_DBMOD"
                 /\ journals => p \in needSync'
  BY <1>6
<1>11. CASE /\ opening
            /\ \/ UNCHANGED <<jrnl, jrnlNew>>
               \/ /\ jrnl' \in {CreatedJournal, OpenedJournal, WriteAt(CreatedJournal, 1, Garbage, Garbage)}
                  /\ jrnlNew' = new
            /\ cache' = [cache EXCEPT ![p] = PageContent(p)]
            /\ call' = error /\ dbSize' = size
            /\ UNCHANGED <<eState, dirty, needSync, inJournal>>
  <2>1. dbSize' = dbSize /\ PhaseLocked(O) /\ call'.op = "none" /\ call'.at = "failedWrite"
    BY <1>2, <1>4, <1>11
  <2> QED
    BY <1>1, <1>11, <2>1, OpeningFails
<1>12. CASE /\ Opened
            /\ jrnl' = base \/ (journals /\ jrnl' \in {logged, WriteAt(base, off + 1, Garbage, Garbage)})
            /\ journalOff' = off /\ nRec' = count
            /\ cache' = [cache EXCEPT ![p] = PageContent(p)]
            /\ call' = error /\ dbSize' \in {size, Larger(size, p)}
            /\ UNCHANGED <<inJournal, svpts>>
  <2>1. /\ Own(jrnl', O, txn, hdr, off) /\ \A i \in 1 .. off : jrnl'[i] = base[i]
        /\ Guards(db, dbDur, jrnl', jrnlDur, new, Found, O, txn, hdr)
        /\ Uncounted(jrnl', hdr)
    <3> HIDE DEF rec, hdr, off, base, new, journals
    <3> QED
      BY <1>5, <1>9, <1>12
  <2>2. Len(O) <= dbSize' \/ MayShrink
    <3>1. dbSize \in Nat /\ Len(O) <= dbSize /\ size <= dbSize' /\ dbSize' \in Nat /\ Len(O) \in Nat
      BY <1>5, <1>12 DEF Types, TypesOfCache, Larger, Page, Images
    <3> QED
      BY ONLY <3>1, size \in Nat, size <= dbSize, size < dbSize => MayShrink
  <2>3. /\ call'.op = "none" /\ call'.at \in {"failed", "failedWrite"}
        /\ call'.at = "failedWrite" =>
              subJournal' = subJournal /\ p <= dbSize + 1 /\ dbSize' \in {dbSize, Larger(dbSize, p)}
    BY <1>4, <1>12 DEF svpts
  <2>4. /\ jrnlNew' = new /\ jfdOpen' = TRUE /\ cksumInit' = nonce /\ journalHdr' = hdr
        /\ (eState' = "WRITER_CACHEMOD" /\ hdr = 0) \/ (eState' = "WRITER_DBMOD" /\ hdr > 0)
        /\ dirty' = dirty \cup {p} /\ needSync \subseteq needSync'
        /\ needSync' \subseteq needSync \cup {p}
        /\ eState' = "WRITER_CACHEMOD" => eState # "WRITER_DBMOD"
    BY <1>10, <1>12
  <2>5. /\ UNCHANGED inJournal /\ cache' = [cache EXCEPT ![p] = PageContent(p)]
        /\ journalOff' = off /\ nRec' = count
    BY <1>12
  <2> HIDE DEF rec, hdr, off, base, new, journals, nonce, count, error, Opened, opening
  <2> QED
    BY <1>1, <1>3, <2>1, <2>2, <2>3, <2>4, <2>5, WriteFailed
<1>13. CASE /\ Opened
            /\ jrnl' = IF journals THEN logged ELSE base
            /\ journalOff' = IF journals THEN off + 1 ELSE off
            /\ nRec' = IF journals THEN count + 1 ELSE count
            /\ inJournal' = IF journals THEN inJournal \cup {p} ELSE inJournal
            /\ cache' = [cache EXCEPT ![p] = version]
            /\ dbSize' = Larger(size, p)
            /\ call' = next
            /\ next = Idle => \/ subJournal' = subJournal
                              \/ \E v : subJournal' = Append(subJournal, [pg |-> p, val |-> v])
  <2> DEFINE k == journalOff'
             c == nRec'
  <2>1. /\ k \in Nat /\ c \in Nat /\ off <= k /\ k = hdr + 1 + c
    <3>0. /\ k = IF journals THEN off + 1 ELSE off
          /\ c = IF journals THEN count + 1 ELSE count
      BY <1>13
    <3>1. off \in Nat /\ count \in Nat /\ hdr \in Nat /\ off = hdr + 1 + count
      BY <1>5
    <3> HIDE DEF off, hdr, count, k, c
    <3>2. CASE journals
      BY ONLY <3>0, <3>1, <3>2
    <3>3. CASE ~journals
      BY ONLY <3>0, <3>1, <3>3
    <3> QED
      BY ONLY <3>2, <3>3
  <2>2. /\ Own(jrnl', O, txn, hdr, k) /\ \A i \in 1 .. off : jrnl'[i] = base[i]
        /\ Uncounted(jrnl', hdr)
        /\ Guards(db, dbDur, jrnl', jrnlDur, new, Found, O, txn, hdr)
        /\ journals => jrnl'[off + 1] = rec /\ k = off + 1
    <3>1. CASE journals
      BY <1>8, <1>9, <1>13, <3>1
    <3>2. CASE ~journals
      <4> HIDE DEF rec, hdr, off, base, new, journals
      <4> QED
        BY <1>5, <1>13, <3>2
    <3> QED
      BY <3>1, <3>2
  <2>3. \/ p \in inJournal' /\ p <= Len(O) => p \in inJournal
        \/ p \in needSync' /\ Recorded(jrnl', 0, k, p)
    <3>1. CASE journals
      <4>1. off + 1 \in 0 + 1 .. k
        BY <1>5, <2>2, <3>1
      <4> QED
        BY <1>8, <1>10, <1>13, <2>2, <3>1, <4>1 DEF Recorded
    <3>2. CASE ~journals
      BY <1>13, <3>2
    <3> QED
      BY <3>1, <3>2
  <2>4. /\ p <= Len(O) => p \in inJournal'
        /\ inJournal' \in {inJournal, inJournal \cup {p}}
    BY <1>5, <1>13
  <2>5. /\ jrnlNew' = new /\ jfdOpen' = TRUE /\ cksumInit' = nonce /\ journalHdr' = hdr
        /\ (eState' = "WRITER_CACHEMOD" /\ hdr = 0) \/ (eState' = "WRITER_DBMOD" /\ hdr > 0)
        /\ dirty' = dirty \cup {p} /\ needSync \subseteq needSync'
        /\ needSync' \subseteq needSync \cup {p}
        /\ eState' = "WRITER_CACHEMOD" => eState # "WRITER_DBMOD"
    BY <1>10, <1>13
  <2>6. Len(O) <= dbSize' \/ MayShrink
    <3>1. size <= dbSize' /\ dbSize \in Nat /\ dbSize' \in Nat /\ Len(O) <= dbSize /\ Len(O) \in Nat
      BY <1>5, <1>13 DEF Larger, Page, Types, TypesOfCache, Images
    <3> QED
      BY ONLY <3>1, size \in Nat, size <= dbSize, size < dbSize => MayShrink
  <2>7. \/ /\ call' = Idle /\ size = dbSize
           /\ eState' = "WRITER_CACHEMOD" => \A j \in 1 .. Len(subJournal') : subJournal'[j].pg \in dirty'
        \/ call'.op = "CommitPhaseOne" /\ call'.at = "syncRecords" /\ p <= dbSize
    <3>1. CASE next = Idle
      <4>1. ASSUME eState' = "WRITER_CACHEMOD", NEW j \in 1 .. Len(subJournal')
            PROVE  subJournal'[j].pg \in dirty'
        <5>1. \A l \in 1 .. Len(subJournal) : subJournal[l].pg \in dirty
          BY <1>5, <2>5, <4>1
        <5>2. subJournal \in Seq(SubRecord) /\ p \in dirty' /\ dirty \subseteq dirty'
          BY <2>5 DEF Types, TypesOfSavepoints
        <5>3. CASE subJournal' = subJournal
          BY <4>1, <5>1, <5>2, <5>3
        <5>4. ASSUME NEW v, subJournal' = Append(subJournal, [pg |-> p, val |-> v])
              PROVE  subJournal'[j].pg \in dirty'
          <6> PICK r : r = [pg |-> p, val |-> v]
            OBVIOUS
          <6>1. /\ Len(subJournal') = Len(subJournal) + 1 /\ r.pg = p /\ Len(subJournal) \in Nat
                /\ subJournal'[Len(subJournal) + 1] = r
                /\ \A l \in 1 .. Len(subJournal) : subJournal'[l] = subJournal[l]
            BY <5>2, <5>4
          <6>2. CASE j = Len(subJournal) + 1
            BY <5>2, <6>1, <6>2
          <6>3. CASE j # Len(subJournal) + 1
            <7>1. j \in 1 .. Len(subJournal)
              BY <4>1, <6>1, <6>3
            <7> QED
              BY <5>1, <5>2, <6>1, <7>1
          <6> QED
            BY <6>2, <6>3
        <5> QED
          BY <1>13, <3>1, <5>3, <5>4
      <4>2. size = dbSize /\ call' = Idle
        BY <1>13, <3>1 DEF Idle
      <4> QED
        BY <4>1, <4>2
    <3>2. CASE next # Idle
      BY <1>13, <3>2
    <3> QED
      BY <3>1, <3>2
  <2>8. /\ journalOff' = k /\ nRec' = c
        /\ cache' = [cache EXCEPT ![p] = version] /\ dbSize' = Larger(size, p)
    BY <1>13
  <2> HIDE DEF rec, hdr, off, base, new, journals, nonce, count, error, Opened, opening, k, c
  <2> QED
    BY <1>1, <1>3, <2>1, <2>2, <2>3, <2>4, <2>5, <2>6, <2>7, <2>8, WriteDone
<1> QED
  BY <1>11, <1>12, <1>13 DEF PagerWrite

LEMMA WriteStep ==
    ASSUME Types, Types', Preserving(FALSE), NEW O \in Images, StandsFor(O, outcomes), Phase(O),
           NEW p \in Page, sqlite3PagerWrite(p)
    PROVE  Consistent'
<1>1. /\ AtRest /\ eState \in {"WRITER_LOCKED", "WRITER_CACHEMOD", "WRITER_DBMOD"}
      /\ p <= dbSize + 1 /\ PagerWrite(p, dbSize, Idle)
  BY DEF sqlite3PagerWrite
<1>2. dbSize \in Nat /\ dbSize <= dbSize /\ (dbSize < dbSize => MayShrink)
  BY DEF Types, TypesOfCache
<1> QED
  BY <1>1, <1>2, PagerWriteStep

\* The connection is in a write transaction in which pages were changed.
LEMMA WritingAtRest ==
    ASSUME Types, NEW O \in Images, StandsFor(O, outcomes), Phase(O), AtRest,
           eState \in {"WRITER_CACHEMOD", "WRITER_DBMOD"}
    PROVE  /\ PhaseWrite(O) /\ Steady(O) /\ Grown(O) /\ journalHdr < journalOff
           /\ Uncounted(jrnl, journalHdr) /\ Len(O) > 0 /\ dbSize > 0
<1>1. PhaseWrite(O) /\ call.at \in {"idle", "restored"}
  BY PhaseAtRest
<1>2. Steady(O) /\ Grown(O) /\ journalHdr < journalOff /\ Uncounted(jrnl, journalHdr)
  BY <1>1 DEF PhaseWrite, Between
<1>3. Len(O) > 0
  BY DEF StandsFor
<1>4. Len(O) \in Nat /\ dbSize \in Nat
  BY DEF Images, Types, TypesOfCache
<1> QED
  BY <1>1, <1>2, <1>3, <1>4 DEF Grown

LEMMA CommitPhaseOneStep ==
    ASSUME Types, Types', Preserving(FALSE), NEW O \in Images, StandsFor(O, outcomes), Phase(O),
           NEW n \in Page, sqlite3PagerCommitPhaseOne(n)
    PROVE  Consistent'
<1> DEFINE next == [op |-> "CommitPhaseOne", pg |-> 0, at |-> "syncRecords"]
<1>1. /\ AtRest /\ eState \in {"WRITER_CACHEMOD", "WRITER_DBMOD"}
      /\ n <= dbSize /\ (n < dbSize => MayShrink) /\ PagerWrite(1, n, next)
  BY DEF sqlite3PagerCommitPhaseOne
<1>2. 1 \in Page /\ n \in Nat /\ dbSize \in Nat
  BY PagerAssumption DEF Page, Types, TypesOfCache
<1>3. 1 <= dbSize /\ 1 <= dbSize + 1
  BY <1>1, <1>2, WritingAtRest
<1>4. /\ eState \in {"WRITER_LOCKED", "WRITER_CACHEMOD", "WRITER_DBMOD"} /\ eState # "WRITER_LOCKED"
      /\ next = [op |-> "CommitPhaseOne", pg |-> 0, at |-> "syncRecords"]
  BY <1>1
<1> HIDE DEF next
<1> QED
  BY <1>1, <1>2, <1>3, <1>4, PagerWriteStep

\* What the transaction knows of the pages does not depend on the journal.
LEMMA SteadyNext ==
    ASSUME UNCHANGED <<db, dbSize, cache, dirty, needSync, inJournal, eState, subJournal>>, NEW O
    PROVE  (Steady(O) => Steady(O)') /\ (Grown(O) => Grown(O)')
BY DEF Steady, Grown, Clean, Matches, Cached

LEMMA StressStep ==
    ASSUME Types, Types', NEW O \in Images, StandsFor(O, outcomes), Phase(O),
           NEW p \in Page, pagerStress(p)
    PROVE  Consistent'
<1>1. /\ AtRest /\ eState \in {"WRITER_CACHEMOD", "WRITER_DBMOD"} /\ p \in dirty
      /\ call'.op = "Stress" /\ call'.pg = p
      /\ call'.at = IF p \in needSync \/ eState = "WRITER_CACHEMOD" THEN "syncRecords" ELSE "stressWrite"
      /\ UNCHANGED <<eState, sizes, pcache, jstate, dbfile, jfile, settings, bounds, history>>
  BY DEF pagerStress, Calling
<1>2. /\ PhaseWrite(O) /\ Steady(O) /\ Grown(O) /\ journalHdr < journalOff
      /\ Uncounted(jrnl, journalHdr)
  BY <1>1, WritingAtRest
<1>3. UNCHANGED <<dbSize, dbOrigSize, dbFileSize, cache, dirty, needSync, inJournal, jfdOpen,
                  journalOff, journalHdr, nRec, cksumInit, db, dbDur, jrnl, jrnlDur, jrnlNew,
                  journalMode, level, txn, eState>>
  BY <1>1 DEF sizes, pcache, jstate, dbfile, jfile, settings, bounds
<1>4. StandsFor(O, outcomes')
  BY <1>1 DEF history
<1>5. Protects(O)' /\ Writing(O)'
  <2>1. Protects(O) /\ Writing(O)
    BY <1>2 DEF PhaseWrite
  <2>2. Protects(O)' /\ OwnJournal(O, journalOff)'
    <3>1. Protects(O)'
      BY <1>1, <1>3, <2>1, SameTransaction
    <3> QED
      BY <1>3, <2>1, <3>1 DEF Writing, OwnJournal
  <2>3. PagesOf(O)'
    BY <1>3, <2>1 DEF Writing, PagesOf, Cached
  <2>4. MayShrink' = MayShrink
    BY <1>3 DEF MayShrink
  <2> QED
    BY <1>3, <2>1, <2>2, <2>3, <2>4 DEF Writing, Cached
<1>6. Steady(O)' /\ Grown(O)'
  <2>1. UNCHANGED subJournal
    BY DEF pagerStress, svpts
  <2> QED
    BY <1>2, <1>3, <2>1, SteadyNext
<1>7. Between("Stress", {"syncRecords", "writeNRec", "syncHdr", "stressWrite"})'
  BY <1>1 DEF Between
<1>8. call'.at \notin {"writeNRec", "syncHdr"}
      /\ (call'.at = "stressWrite" => eState' = "WRITER_DBMOD" /\ call'.pg \notin needSync')
  BY <1>1, <1>3
<1>9. PhaseWrite(O)'
  BY <1>1, <1>2, <1>3, <1>5, <1>6, <1>7, <1>8 DEF PhaseWrite, Between, Steady
<1> QED
  BY <1>4, <1>9 DEF Consistent, Phase

-----------------------------------------------------------------------------
(* The first phase of a commit, and a spill.                               *)

\* The journal and the database change where the transaction has no need of them.
LEMMA WritingNext ==
    ASSUME Types, Types', NEW O \in Images, PhaseWrite(O),
           UNCHANGED <<eState, sizes, pcache, jstate, settings, txn>>,
           Own(jrnl', O, txn, journalHdr, journalOff),
           \A i \in 1 .. journalOff : jrnl[i].kind = "rec" => jrnl'[i] = jrnl[i],
           Guards(db', dbDur', jrnl', jrnlDur', jrnlNew', Found', O, txn, journalHdr),
           \A p \in 1 .. Len(O) : p \notin inJournal => Durably(db', dbDur', O, p)
    PROVE  Protects(O)' /\ Writing(O)'
<1>1. Protects(O) /\ Writing(O)
  BY DEF PhaseWrite
<1>2. UNCHANGED <<dbSize, dbOrigSize, dbFileSize, cache, dirty, needSync, inJournal, jfdOpen,
                  journalOff, journalHdr, nRec, cksumInit, journalMode, level, txn, eState>>
  BY DEF sizes, pcache, jstate, settings
<1>3. Protects(O)'
  <2>1. Guards(db', dbDur', jrnl', jrnlDur', jrnlNew', Found', O, txn', journalHdr')
    BY <1>2
  <2>2. Guarded(O)'
    BY <2>1 DEF Guarded
  <2> QED
    BY <1>1, <1>2, <2>2 DEF Protects
<1>4. OwnJournal(O, journalOff)'
  <2>1. Own(jrnl', O, txn', journalHdr', journalOff')
    BY <1>2
  <2> QED
    BY <1>1, <1>2, <2>1 DEF Writing, OwnJournal
<1>5. PagesOf(O)'
  <2>1. journalHdr <= journalOff /\ journalHdr \in Nat /\ journalOff \in Nat
    BY <1>1, FilesAre DEF Writing, OwnJournal, Own
  <2>2. ASSUME NEW p, NEW n \in {journalHdr, journalOff}, Recorded(jrnl, 0, n, p)
        PROVE  Recorded(jrnl', 0, n, p)
    <3>1. PICK i \in 0 + 1 .. n : jrnl[i].kind = "rec" /\ jrnl[i].pg = p
      BY <2>2 DEF Recorded
    <3>2. i \in 1 .. journalOff
      BY <2>1, <2>2, <3>1
    <3> QED
      BY <3>1, <3>2 DEF Recorded
  <2>3. ASSUME NEW p \in 1 .. Len(O)
        PROVE  /\ p \in inJournal' => Recorded(jrnl', 0, journalOff', p)
               /\ p \in inJournal' \ needSync' => Recorded(jrnl', 0, journalHdr', p)
               /\ p \notin inJournal' =>
                     Durably(db', dbDur', O, p) /\ (cache'[p] # NotCached => cache'[p] = O[p])
    <3>1. /\ p \in inJournal => Recorded(jrnl, 0, journalOff, p)
          /\ p \in inJournal \ needSync => Recorded(jrnl, 0, journalHdr, p)
          /\ p \notin inJournal => (Cached(p) => cache[p] = O[p])
      BY <1>1, <2>3 DEF Writing, PagesOf
    <3>2. /\ p \in inJournal => Recorded(jrnl', 0, journalOff, p)
          /\ p \in inJournal \ needSync => Recorded(jrnl', 0, journalHdr, p)
      BY <2>2, <3>1
    <3> QED
      BY <1>2, <2>3, <3>1, <3>2 DEF Cached
  <2> QED
    BY <2>3 DEF PagesOf, Cached
<1>6. MayShrink' = MayShrink
  BY <1>2 DEF MayShrink
<1> QED
  BY <1>1, <1>2, <1>3, <1>4, <1>5, <1>6 DEF Writing, Cached

\* The call returns an error.
LEMMA WritingGivenUp ==
    ASSUME Types, Types', NEW O \in Images, StandsFor(O, outcomes), PhaseWrite(O),
           call.op \in {"Stress", "CommitPhaseOne"}, GiveUp,
           UNCHANGED <<settings, txn, outcomes>>,
           Own(jrnl', O, txn, journalHdr, journalOff),
           \A i \in 1 .. journalOff : jrnl[i].kind = "rec" => jrnl'[i] = jrnl[i],
           Guards(db', dbDur', jrnl', jrnlDur', jrnlNew', Found', O, txn, journalHdr),
           \A p \in 1 .. Len(O) : p \notin inJournal => Durably(db', dbDur', O, p)
    PROVE  Consistent'
<1>1. CASE call.op = "Stress"
  <2>1. txn \in Nat /\ journalHdr \in Nat /\ StandsFor(O, outcomes')
    BY FilesAre
  <2>2. Suspended(O)'
    BY <2>1, GuardedNext
  <2> QED
    BY <1>1, <2>1, <2>2, LandsGivenUp
<1>2. CASE call.op = "CommitPhaseOne"
  <2>1. /\ call'.op = "none" /\ call'.at = "failed"
        /\ UNCHANGED <<eState, sizes, pcache, jstate>>
    BY <1>2 DEF GiveUp, Idle
  <2>2. Protects(O)' /\ Writing(O)'
    BY <2>1, WritingNext
  <2>3. eState' \in {"WRITER_CACHEMOD", "WRITER_DBMOD"}
    BY <2>1 DEF PhaseWrite
  <2>4. PhaseWrite(O)'
    BY <2>1, <2>2, <2>3 DEF PhaseWrite, Between
  <2>5. StandsFor(O, outcomes')
    OBVIOUS
  <2> QED
    BY <2>4, <2>5 DEF Consistent, Phase
<1> QED
  BY <1>1, <1>2

\* A spill or a commit, up to where it writes to the database.
LEMMA SyncsJournal ==
    ASSUME Types, NEW O \in Images, Phase(O), call.at \in {"syncRecords", "writeNRec", "syncHdr"}
    PROVE  /\ PhaseWrite(O) /\ call.op \in {"Stress", "CommitPhaseOne"}
           /\ Steady(O) /\ journalHdr < journalOff /\ jfdOpen
           /\ Own(jrnl, O, txn, journalHdr, journalOff)
           /\ Guards(db, dbDur, jrnl, jrnlDur, jrnlNew, Found, O, txn, journalHdr)
           /\ \A p \in 1 .. Len(O) : p \notin inJournal => Durably(db, dbDur, O, p)
           /\ call.at # "syncHdr" => Uncounted(jrnl, journalHdr)
           /\ cksumInit = <<txn, journalHdr>> /\ journalOff = journalHdr + 1 + nRec
           /\ call.op = "Stress" => Grown(O) /\ call.pg \in dirty
           /\ call.op = "CommitPhaseOne" => dbSize > 0
<1>1. PhaseWrite(O)
  BY PhaseInCall
<1>2. /\ call.op \in {"Stress", "CommitPhaseOne"} /\ Steady(O) /\ journalHdr < journalOff
      /\ call.at # "syncHdr" => Uncounted(jrnl, journalHdr)
      /\ call.op = "Stress" => Grown(O) /\ call.pg \in dirty
      /\ call.op = "CommitPhaseOne" => dbSize > 0
  BY <1>1 DEF PhaseWrite, Between
<1>3. Protects(O) /\ Writing(O)
  BY <1>1 DEF PhaseWrite
<1> QED
  BY <1>1, <1>2, <1>3 DEF Protects, Guarded, Writing, OwnJournal, PagesOf

\* The spill or the commit goes on to the next step of syncJournal.
LEMMA SyncGoesOnIn ==
    ASSUME Types, Types', NEW O \in Images, StandsFor(O, outcomes), Phase(O),
           call.at \in {"syncRecords", "writeNRec"}, NEW at \in {"writeNRec", "syncHdr"},
           call' = [call EXCEPT !.at = at],
           UNCHANGED <<eState, sizes, pcache, jstate, svpts, settings, txn, dbfile, outcomes>>,
           Own(jrnl', O, txn, journalHdr, journalOff), Ends(jrnl', journalOff),
           \A i \in 1 .. journalOff : jrnl[i].kind = "rec" => jrnl'[i] = jrnl[i],
           Guards(db, dbDur, jrnl', jrnlDur', jrnlNew', Found', O, txn, journalHdr),
           ~jrnlNew', at = "writeNRec" => jrnlDur' = jrnl' /\ Uncounted(jrnl', journalHdr),
           at = "syncHdr" => /\ IsFile(jrnlDur')
                             /\ jrnl'[journalHdr + 1].magic /\ jrnl'[journalHdr + 1].nRec = nRec
    PROVE  Consistent'
<1>1. /\ PhaseWrite(O) /\ call.op \in {"Stress", "CommitPhaseOne"}
      /\ Steady(O) /\ journalHdr < journalOff
      /\ \A p \in 1 .. Len(O) : p \notin inJournal => Durably(db, dbDur, O, p)
      /\ call.op = "Stress" => Grown(O) /\ call.pg \in dirty
      /\ call.op = "CommitPhaseOne" => dbSize > 0
  BY SyncsJournal
<1>2. call'.op = call.op /\ call'.at = at /\ call'.pg = call.pg
  BY GoesTo
<1>3. UNCHANGED <<db, dbDur, dbSize, cache, dirty, needSync, inJournal, eState, subJournal, journalHdr,
                  journalOff, nRec>>
  BY DEF sizes, pcache, jstate, svpts, dbfile
<1>4. Protects(O)' /\ Writing(O)'
  <2>1. /\ Guards(db', dbDur', jrnl', jrnlDur', jrnlNew', Found', O, txn, journalHdr)
        /\ \A p \in 1 .. Len(O) : p \notin inJournal => Durably(db', dbDur', O, p)
    BY <1>1, <1>3
  <2> QED
    BY <1>1, <2>1, WritingNext
<1>5. Steady(O)' /\ (Grown(O) => Grown(O)')
  BY <1>1, <1>3, SteadyNext
<1>6. eState' \in {"WRITER_CACHEMOD", "WRITER_DBMOD"}
  BY <1>1, <1>3 DEF PhaseWrite
<1>7. /\ call'.at \in {"writeNRec", "syncHdr"} /\ call'.op \in {"Stress", "CommitPhaseOne"}
      /\ call'.at # "syncHdr" => Uncounted(jrnl', journalHdr')
      /\ call'.at = "writeNRec" => jrnlDur' = jrnl' /\ ~jrnlNew' /\ Ends(jrnl', journalOff')
      /\ call'.at = "syncHdr" =>
            /\ IsFile(jrnlDur') /\ ~jrnlNew'
            /\ jrnl'[journalHdr' + 1].magic /\ jrnl'[journalHdr' + 1].nRec = nRec'
            /\ Ends(jrnl', journalOff')
  BY <1>1, <1>2, <1>3
<1>8. journalHdr' < journalOff' /\ (call'.op = "Stress" => Grown(O)' /\ call'.pg \in dirty')
      /\ (call'.op = "CommitPhaseOne" => dbSize' > 0)
  BY <1>1, <1>2, <1>3, <1>5
<1>9. PhaseWrite(O)'
  BY <1>4, <1>5, <1>6, <1>7, <1>8 DEF PhaseWrite, Between, Steady
<1> QED
  BY <1>9 DEF Consistent, Phase

\* The records are synced, and no stale header is behind them.
LEMMA SyncRecordsStep ==
    ASSUME Types, Types', "NORMAL" \notin Levels,
           NEW O \in Images, StandsFor(O, outcomes), Phase(O), SyncJournalRecords
    PROVE  Consistent'
<1> DEFINE x == WithoutStaleHeader
<1>1. /\ call.at = "syncRecords"
      /\ UNCHANGED <<dbfile, outcomes, settings, txn>>
  BY DEF SyncJournalRecords
<1>2. /\ PhaseWrite(O) /\ call.op \in {"Stress", "CommitPhaseOne"}
      /\ Steady(O) /\ journalHdr < journalOff /\ jfdOpen
      /\ Own(jrnl, O, txn, journalHdr, journalOff)
      /\ Guards(db, dbDur, jrnl, jrnlDur, jrnlNew, Found, O, txn, journalHdr)
      /\ \A p \in 1 .. Len(O) : p \notin inJournal => Durably(db, dbDur, O, p)
      /\ Uncounted(jrnl, journalHdr)
  BY <1>1, SyncsJournal
<1>3. /\ jrnl \in Journals /\ jrnlDur \in Journals /\ db \in Images /\ dbDur \in Images
      /\ txn \in 0 .. MaxTxn /\ txn \in Nat /\ journalHdr \in Nat /\ journalOff \in Nat /\ Len(O) > 0
      /\ jrnlNew \in BOOLEAN
  BY FilesAre DEF StandsFor
<1>4. x = Unstale(jrnl, journalOff)
  BY DEF WithoutStaleHeader, Unstale
<1>5. /\ x \in Journals /\ IsFile(x)
      /\ Own(x, O, txn, journalHdr, journalOff) /\ Ends(x, journalOff)
      /\ Uncounted(x, journalHdr)
      /\ \A i \in 1 .. journalOff : x[i] = jrnl[i]
      /\ Len(x) = Len(jrnl)
  <2> HIDE DEF x
  <2> QED
    BY <1>2, <1>3, <1>4, StaleHeaderGone
<1>6. /\ journalHdr <= Len(x) /\ Ends(x, journalHdr) /\ Ends(jrnl, journalHdr)
      /\ \A i \in 1 .. journalHdr : x[i] = jrnl[i]
  <2> HIDE DEF x
  <2>1. journalOff <= Len(x) /\ Len(x) \in Nat
    BY <1>5 DEF Own, Journals
  <2>2. journalHdr <= Len(x)
    BY <1>2, <1>3, <2>1
  <2>3. \A i \in 1 .. journalHdr : x[i] = jrnl[i]
    BY <1>2, <1>3, <1>5
  <2> QED
    BY <1>2, <1>5, <2>2, <2>3, UncountedEnds
<1>7. UNCHANGED <<db, dbDur>>
  BY <1>1 DEF dbfile
<1>8. CASE /\ call' = [call EXCEPT !.at = "writeNRec"]
           /\ jrnl' = x /\ jrnlDur' = x /\ jrnlNew' = FALSE
           /\ UNCHANGED <<eState, sizes, pcache, jstate, svpts>>
  <2>1. /\ Guards(db, dbDur, jrnl, jrnlDur, jrnlNew, Found, O, txn, journalHdr)
        /\ x \in Journals /\ IsFile(x) /\ journalHdr <= Len(x) /\ Ends(x, journalHdr)
        /\ \A i \in 1 .. journalHdr : x[i] = jrnl[i]
    BY <1>2, <1>5, <1>6
  <2> HIDE DEF x
  <2>2. \A J : Guards(db, dbDur, x, x, FALSE, J, O, txn, journalHdr)
    BY ONLY <1>3, <2>1, O \in Images, GuardsSynced
  <2>3. Guards(db, dbDur, jrnl', jrnlDur', jrnlNew', Found', O, txn, journalHdr)
    BY <1>8, <2>2
  <2>4. \A i \in 1 .. journalOff : jrnl[i].kind = "rec" => jrnl'[i] = jrnl[i]
    BY <1>5, <1>8
  <2>5. "writeNRec" \in {"writeNRec", "syncHdr"} /\ "writeNRec" # "syncHdr"
    OBVIOUS
  <2> QED
    BY <1>1, <1>5, <1>8, <2>3, <2>4, <2>5, SyncGoesOnIn
<1>9. CASE jrnl' \in {jrnl, x} /\ UNCHANGED <<jrnlDur, jrnlNew, lost>> /\ GiveUp
  <2>1. UNCHANGED Found
    BY <1>1, <1>7, <1>9 DEF Found
  <2>2. /\ Own(jrnl', O, txn, journalHdr, journalOff)
        /\ \A i \in 1 .. journalOff : jrnl[i].kind = "rec" => jrnl'[i] = jrnl[i]
    BY <1>2, <1>5, <1>9
  <2>3. Guards(db, dbDur, x, jrnlDur, jrnlNew, Found, O, txn, journalHdr)
    <3>1. IsFile(jrnl)
      BY <1>2, <1>3, OwnIsFile
    <3>2. /\ x \in Journals /\ IsFile(x) /\ journalHdr <= Len(x) /\ Ends(x, journalHdr)
          /\ \A i \in 1 .. journalHdr : x[i] = jrnl[i]
          /\ Guards(db, dbDur, jrnl, jrnlDur, jrnlNew, Found, O, txn, journalHdr)
          /\ Ends(jrnl, journalHdr) /\ jrnlNew = (jrnlNew \/ ~IsFile(jrnl))
      BY <1>2, <1>3, <1>5, <1>6, <3>1
    <3> HIDE DEF x
    <3> QED
      BY ONLY <1>3, <3>2, O \in Images, GuardsBehind
  <2>4. Guards(db', dbDur', jrnl', jrnlDur', jrnlNew', Found', O, txn, journalHdr)
    BY <1>2, <1>7, <1>9, <2>1, <2>3
  <2>5. \A p \in 1 .. Len(O) : p \notin inJournal => Durably(db', dbDur', O, p)
    BY <1>2, <1>7
  <2> QED
    BY <1>1, <1>2, <1>9, <2>2, <2>4, <2>5, WritingGivenUp
<1>10. fullSync
  BY PagerAssumption DEF fullSync, Types, TypesOfBounds
<1> QED
  BY <1>8, <1>9, <1>10 DEF SyncJournalRecords, SyncedJournal, Goto

\* The header with its count, which has not been synced, guards as the one without.
LEMMA CountGuards ==
    ASSUME Types, NEW O \in Images, StandsFor(O, outcomes),
           Own(jrnl, O, txn, journalHdr, journalOff), journalHdr < journalOff,
           Uncounted(jrnl, journalHdr), Ends(jrnl, journalOff), jrnlDur = jrnl, ~jrnlNew,
           Guards(db, dbDur, jrnl, jrnlDur, jrnlNew, Found, O, txn, journalHdr),
           NEW c \in {0, journalOff - journalHdr - 1}, NEW x, x = Counting(jrnl, journalHdr, c)
    PROVE  /\ Own(x, O, txn, journalHdr, journalOff) /\ Ends(x, journalOff)
           /\ \A i \in 1 .. journalOff : jrnl[i].kind = "rec" => x[i] = jrnl[i]
           /\ x[journalHdr + 1].magic /\ x[journalHdr + 1].nRec = c
           /\ \A J : Guards(db, dbDur, x, jrnlDur, jrnlNew, J, O, txn, journalHdr)
<1>1. /\ jrnl \in Journals /\ db \in Images /\ dbDur \in Images /\ txn \in Nat
      /\ journalHdr \in Nat /\ journalOff \in Nat /\ Len(O) > 0
  BY FilesAre DEF StandsFor
<1>2. /\ x \in Journals /\ IsFile(x) /\ Len(x) = Len(jrnl)
      /\ \A i \in 1 .. Len(jrnl) : i # journalHdr + 1 => x[i] = jrnl[i]
      /\ x[journalHdr + 1].magic /\ x[journalHdr + 1].nRec = c
      /\ Own(x, O, txn, journalHdr, journalOff) /\ Ends(x, journalOff)
      /\ Segments(x, O, txn, journalHdr) /\ Counted(x, jrnl, O, txn, journalHdr)
  <2>1. /\ jrnl \in Journals /\ journalHdr \in Nat /\ journalOff \in Nat
        /\ Own(jrnl, O, txn, journalHdr, journalOff) /\ journalHdr < journalOff
        /\ Uncounted(jrnl, journalHdr) /\ Ends(jrnl, journalOff)
        /\ x = Counting(jrnl, journalHdr, c) /\ c \in {0, journalOff - journalHdr - 1}
    BY <1>1
  <2>2. Own(x, O, txn, journalHdr, journalOff)
    BY ONLY ZenonT(40), <2>1, CountWritten
  <2>3. Counted(x, jrnl, O, txn, journalHdr)
    BY ONLY ZenonT(40), <2>1, CountWritten
  <2>5. journalHdr + 1 <= Len(jrnl) /\ jrnl[journalHdr + 1].kind = "hdr" /\ c \in Nat
    BY <2>1 DEF Own, LastSegment, Journals
  <2>6. /\ Counting(jrnl, journalHdr, c) \in Journals /\ Len(Counting(jrnl, journalHdr, c)) = Len(jrnl)
        /\ \A i \in 1 .. Len(jrnl) : i # journalHdr + 1 => Counting(jrnl, journalHdr, c)[i] = jrnl[i]
        /\ Counting(jrnl, journalHdr, c)[journalHdr + 1].kind = "hdr" /\ Counting(jrnl, journalHdr, c)[journalHdr + 1].magic
        /\ Counting(jrnl, journalHdr, c)[journalHdr + 1].nRec = c
        /\ Counting(jrnl, journalHdr, c)[journalHdr + 1].nonce = jrnl[journalHdr + 1].nonce
        /\ Counting(jrnl, journalHdr, c)[journalHdr + 1].size = jrnl[journalHdr + 1].size
    BY ONLY <2>1, <2>5, CountingIs
  <2>4. Ends(x, journalOff)
    <3> SUFFICES ASSUME journalOff < Len(x) PROVE ~HasMagic(x[journalOff + 1])
      BY DEF Ends
    <3>1. journalOff + 1 \in 1 .. Len(jrnl) /\ journalOff + 1 # journalHdr + 1 /\ journalOff < Len(jrnl)
      BY <2>1, <2>6 DEF Journals
    <3> QED
      BY <2>1, <2>6, <3>1 DEF Ends
  <2>7. x \in Journals
    BY <2>1, <2>6
  <2>8. IsFile(x)
    BY ONLY <2>1, <2>2, <2>7, OwnIsFile
  <2>9. Segments(x, O, txn, journalHdr)
    BY <2>2 DEF Own
  <2> QED
    BY <2>1, <2>2, <2>3, <2>4, <2>6, <2>8, <2>9
<1>3. /\ jrnl[journalHdr + 1].kind = "hdr" /\ journalOff <= Len(jrnl)
      /\ IsFile(jrnl) /\ Len(jrnl) \in Nat
  BY <1>1, OwnIsFile DEF Own, LastSegment
<1>4. \A i \in 1 .. journalOff : jrnl[i].kind = "rec" => x[i] = jrnl[i]
  <2>1. ASSUME NEW i \in 1 .. journalOff, jrnl[i].kind = "rec" PROVE x[i] = jrnl[i]
    <3>1. i \in 1 .. Len(jrnl) /\ i # journalHdr + 1
      BY <1>1, <1>3, <2>1
    <3> QED
      BY <1>2, <3>1
  <2> QED
    BY <2>1
<1>5. /\ journalHdr <= Len(jrnl) /\ \A i \in 1 .. journalHdr : jrnl[i] = x[i]
  <2>1. \A i \in 1 .. journalHdr : i \in 1 .. Len(jrnl) /\ i # journalHdr + 1
    BY <1>1, <1>3
  <2> QED
    BY <1>1, <1>2, <1>3, <2>1
<1>6. Survives(x, jrnl, O, txn, journalHdr)
  BY <1>2, <1>5 DEF Survives
<1>7. Covered(db, dbDur, x, O, journalHdr)
  <2>1. Covered(db, dbDur, jrnl, O, journalHdr)
    <3>1. CASE AllDurably(db, dbDur, O)
      BY <1>1, <3>1, AllDurablyCovers
    <3>2. CASE Keeps(db, dbDur, jrnl, jrnlDur, jrnlNew, O, txn, journalHdr)
      BY <3>2 DEF Keeps
    <3> QED
      BY <3>1, <3>2 DEF Guards
  <2>2. ASSUME NEW p, Recorded(jrnl, 0, journalHdr, p) PROVE Recorded(x, 0, journalHdr, p)
    BY <1>5, <2>2 DEF Recorded
  <2> QED
    BY <2>1, <2>2 DEF Covered
<1>8. Keeps(db, dbDur, x, jrnlDur, jrnlNew, O, txn, journalHdr)
  BY <1>2, <1>3, <1>6, <1>7 DEF Keeps
<1>9. \A J : Guards(db, dbDur, x, jrnlDur, jrnlNew, J, O, txn, journalHdr)
  <2>1. journalHdr = 0 => AllDurably(db, dbDur, O) /\ SyncedPrefix(db, dbDur)
    BY DEF Guards
  <2>2. journalHdr = 0 \/ journalHdr > 0
    BY <1>1
  <2> QED
    BY <1>8, <2>1, <2>2 DEF Guards
<1> QED
  BY <1>2, <1>4, <1>9

LEMMA SyncCountStep ==
    ASSUME Types, Types', NEW O \in Images, StandsFor(O, outcomes), Phase(O), SyncJournalCount
    PROVE  Consistent'
<1>1. /\ call.at = "writeNRec"
      /\ UNCHANGED <<dbfile, jrnlDur, jrnlNew, outcomes, lost, settings, txn>>
  BY DEF SyncJournalCount
<1>2. /\ PhaseWrite(O) /\ call.op \in {"Stress", "CommitPhaseOne"}
      /\ journalHdr < journalOff
      /\ Own(jrnl, O, txn, journalHdr, journalOff)
      /\ Guards(db, dbDur, jrnl, jrnlDur, jrnlNew, Found, O, txn, journalHdr)
      /\ \A p \in 1 .. Len(O) : p \notin inJournal => Durably(db, dbDur, O, p)
      /\ Uncounted(jrnl, journalHdr)
      /\ journalOff = journalHdr + 1 + nRec
  BY <1>1, SyncsJournal
<1>3. jrnlDur = jrnl /\ ~jrnlNew /\ Ends(jrnl, journalOff)
  BY <1>1, <1>2 DEF PhaseWrite
<1>4. UNCHANGED <<db, dbDur, Found>>
  BY <1>1 DEF dbfile, Found
<1>5. nRec = journalOff - journalHdr - 1 /\ jrnl \in Journals
  BY <1>2, FilesAre DEF Types, TypesOfJournal
<1>6. ASSUME NEW c \in {0, nRec}, jrnl' = WithCount(c)
      PROVE  /\ Own(jrnl', O, txn, journalHdr, journalOff) /\ Ends(jrnl', journalOff)
             /\ \A i \in 1 .. journalOff : jrnl[i].kind = "rec" => jrnl'[i] = jrnl[i]
             /\ jrnl'[journalHdr + 1].magic /\ jrnl'[journalHdr + 1].nRec = c
             /\ Guards(db, dbDur, jrnl', jrnlDur', jrnlNew', Found', O, txn, journalHdr)
  <2>1. jrnl' = Counting(jrnl, journalHdr, c) /\ c \in {0, journalOff - journalHdr - 1}
    BY <1>5, <1>6 DEF WithCount, Counting
  <2>2. /\ Own(jrnl', O, txn, journalHdr, journalOff) /\ Ends(jrnl', journalOff)
        /\ \A i \in 1 .. journalOff : jrnl[i].kind = "rec" => jrnl'[i] = jrnl[i]
        /\ jrnl'[journalHdr + 1].magic /\ jrnl'[journalHdr + 1].nRec = c
        /\ \A J : Guards(db, dbDur, jrnl', jrnlDur, jrnlNew, J, O, txn, journalHdr)
    BY <1>2, <1>3, <2>1, CountGuards
  <2> QED
    BY <1>1, <2>2
<1>7. CASE /\ jrnl' = WithCount(nRec) /\ call' = [call EXCEPT !.at = "syncHdr"]
           /\ UNCHANGED <<eState, sizes, pcache, jstate, svpts>>
  <2>1. /\ Own(jrnl', O, txn, journalHdr, journalOff) /\ Ends(jrnl', journalOff)
        /\ \A i \in 1 .. journalOff : jrnl[i].kind = "rec" => jrnl'[i] = jrnl[i]
        /\ jrnl'[journalHdr + 1].magic /\ jrnl'[journalHdr + 1].nRec = nRec
        /\ Guards(db, dbDur, jrnl', jrnlDur', jrnlNew', Found', O, txn, journalHdr)
    BY <1>6, <1>7
  <2>2. IsFile(jrnlDur') /\ ~jrnlNew'
    <3>1. IsFile(jrnl)
      BY <1>2, <1>5, FilesAre, OwnIsFile
    <3> QED
      BY <1>1, <1>3, <3>1
  <2>3. "syncHdr" \in {"writeNRec", "syncHdr"} /\ "syncHdr" # "writeNRec"
    OBVIOUS
  <2> QED
    BY <1>1, <1>7, <2>1, <2>2, <2>3, SyncGoesOnIn
<1>8. CASE jrnl' \in {jrnl, WithCount(0), WithCount(nRec)} /\ GiveUp
  <2>1. /\ Own(jrnl', O, txn, journalHdr, journalOff)
        /\ \A i \in 1 .. journalOff : jrnl[i].kind = "rec" => jrnl'[i] = jrnl[i]
        /\ Guards(db', dbDur', jrnl', jrnlDur', jrnlNew', Found', O, txn, journalHdr)
    <3>1. CASE jrnl' = jrnl
      BY <1>1, <1>2, <1>4, <3>1
    <3>2. CASE jrnl' \in {WithCount(0), WithCount(nRec)}
      BY <1>4, <1>6, <3>2
    <3> QED
      BY <1>8, <3>1, <3>2
  <2>2. \A p \in 1 .. Len(O) : p \notin inJournal => Durably(db', dbDur', O, p)
    BY <1>2, <1>4
  <2> QED
    BY <1>1, <1>2, <1>8, <2>1, <2>2, WritingGivenUp
<1> QED
  BY <1>7, <1>8 DEF SyncJournalCount, Goto

\* The segment is on the medium with its count; what may follow it is no segment.
LEMMA SegmentSynced ==
    ASSUME Types, NEW O \in Images, StandsFor(O, outcomes), Phase(O), call.at = "syncHdr",
           NEW x \in Journals, IsFile(x), journalOff <= Len(x), Ends(x, journalOff),
           \A i \in 1 .. journalOff : x[i] = jrnl[i]
    PROVE  /\ journalOff > 0 /\ Own(jrnl, O, txn, journalOff, journalOff)
           /\ \A J : Guards(db, dbDur, x, jrnl, FALSE, J, O, txn, journalOff)
<1>1. /\ PhaseWrite(O) /\ journalHdr < journalOff
      /\ Own(jrnl, O, txn, journalHdr, journalOff)
      /\ Guards(db, dbDur, jrnl, jrnlDur, jrnlNew, Found, O, txn, journalHdr)
      /\ journalOff = journalHdr + 1 + nRec
  BY SyncsJournal
<1>2. /\ jrnl[journalHdr + 1].magic /\ jrnl[journalHdr + 1].nRec = nRec /\ Ends(jrnl, journalOff)
  BY <1>1 DEF PhaseWrite
<1>3. /\ jrnl \in Journals /\ db \in Images /\ dbDur \in Images /\ txn \in Nat
      /\ journalHdr \in Nat /\ journalOff \in Nat /\ nRec \in Nat /\ Len(O) > 0 /\ Len(jrnl) \in Nat
  BY FilesAre DEF StandsFor, Types, TypesOfJournal, Journals
<1>4. nRec = journalOff - journalHdr - 1 /\ journalOff > 0
  BY <1>1, <1>3
<1>5. /\ Completes(jrnl, O, txn, journalHdr, journalOff)
      /\ Segments(jrnl, O, txn, journalOff) /\ Own(jrnl, O, txn, journalOff, journalOff)
  BY <1>1, <1>2, <1>3, <1>4, SegmentCompleted
<1>6. IsFile(jrnl) /\ journalOff <= Len(jrnl)
  BY <1>1, <1>3, OwnIsFile DEF Own
<1>7. Segments(x, O, txn, journalOff)
  BY <1>3, <1>5, SegmentsAgree
<1>8. Survives(x, jrnl, O, txn, journalOff)
  BY <1>2, <1>6, <1>7 DEF Survives
<1>9. Covered(db, dbDur, x, O, journalOff)
  <2>1. Len(db) > 0 /\ Len(dbDur) > 0
    <3>1. CASE AllDurably(db, dbDur, O)
      BY <1>3, <3>1, AllDurablyCovers DEF Covered
    <3>2. CASE Keeps(db, dbDur, jrnl, jrnlDur, jrnlNew, O, txn, journalHdr)
      BY <3>2 DEF Keeps, Covered
    <3> QED
      BY <1>1, <3>1, <3>2 DEF Guards
  <2>2. ASSUME NEW p \in 1 .. Len(O)
        PROVE  Durably(db, dbDur, O, p) \/ Recorded(x, 0, journalOff, p)
    <3>1. Recorded(jrnl, 0, journalOff, p) \/ Durably(db, dbDur, O, p)
      BY <1>1, <2>2 DEF PhaseWrite, Writing, PagesOf
    <3>2. Recorded(jrnl, 0, journalOff, p) => Recorded(x, 0, journalOff, p)
      BY DEF Recorded
    <3> QED
      BY <3>1, <3>2
  <2> QED
    BY <2>1, <2>2 DEF Covered
<1>10. Keeps(db, dbDur, x, jrnl, FALSE, O, txn, journalOff)
  BY <1>6, <1>8, <1>9 DEF Keeps
<1> QED
  BY <1>4, <1>5, <1>10 DEF Guards

\* syncJournal is done; what follows writes to the database.
LEMMA SyncEnds ==
    ASSUME Types, Types', NEW O \in Images, StandsFor(O, outcomes), Phase(O), call.at = "syncHdr",
           UNCHANGED <<sizes, cache, dirty, inJournal, jfdOpen, dbfile, outcomes, settings, txn>>,
           jrnlDur' = jrnl, jrnlNew' = FALSE, journalHdr' = journalOff, journalOff <= journalOff',
           Own(jrnl', O, txn, journalOff, journalOff'), Ends(jrnl', journalOff),
           \A i \in 1 .. journalOff : jrnl'[i] = jrnl[i],
           needSync' = {}, eState' = "WRITER_DBMOD",
           journalOff < journalOff' => cksumInit' = <<txn, journalOff>> /\ journalOff' = journalOff + 1 + nRec'
    PROVE  /\ Protects(O)' /\ Writing(O)' /\ Steady(O)' /\ (Grown(O) => Grown(O)')
           /\ StandsFor(O, outcomes')
<1>1. /\ PhaseWrite(O) /\ Steady(O)
  BY SyncsJournal
<1>2. UNCHANGED <<dbSize, dbOrigSize, dbFileSize, cache, dirty, inJournal, jfdOpen, db, dbDur,
                  journalMode, level, txn>>
  BY DEF sizes, dbfile, settings
<1>3. jrnl' \in Journals /\ IsFile(jrnl') /\ journalOff \in Nat /\ journalOff' \in Nat /\ Len(jrnl') \in Nat
  BY FilesAre, FilesAreNext, OwnIsFile
<1>4. journalOff <= Len(jrnl')
  BY <1>3 DEF Own
<1>5. journalOff > 0 /\ \A J : Guards(db, dbDur, jrnl', jrnl, FALSE, J, O, txn, journalOff)
  BY <1>3, <1>4, SegmentSynced
<1>6. Protects(O)'
  <2>1. Guards(db', dbDur', jrnl', jrnlDur', jrnlNew', Found', O, txn', journalHdr')
    BY <1>2, <1>5
  <2> QED
    BY <1>5, <2>1 DEF Protects, Guarded
<1>7. Writing(O) /\ OwnJournal(O, journalOff)
  BY <1>1 DEF PhaseWrite, Writing
<1>8. OwnJournal(O, journalOff)'
  <2>1. Own(jrnl', O, txn', journalHdr', journalOff')
    BY <1>2
  <2> QED
    BY <1>2, <1>7, <2>1 DEF OwnJournal
<1>9. PagesOf(O)'
  <2>1. ASSUME NEW p, Recorded(jrnl, 0, journalOff, p), NEW n \in {journalOff, journalOff'}
        PROVE  Recorded(jrnl', 0, n, p)
    <3>1. PICK i \in 0 + 1 .. journalOff : jrnl[i].kind = "rec" /\ jrnl[i].pg = p
      BY <2>1 DEF Recorded
    <3>2. i \in 1 .. journalOff /\ i \in 0 + 1 .. n
      BY <1>3, <2>1, <3>1
    <3> QED
      BY <3>1, <3>2 DEF Recorded
  <2>2. ASSUME NEW p \in 1 .. Len(O)
        PROVE  /\ p \in inJournal' => Recorded(jrnl', 0, journalOff', p)
               /\ p \in inJournal' \ needSync' => Recorded(jrnl', 0, journalHdr', p)
               /\ p \notin inJournal' =>
                     Durably(db', dbDur', O, p) /\ (cache'[p] # NotCached => cache'[p] = O[p])
    <3>1. /\ p \in inJournal => Recorded(jrnl, 0, journalOff, p)
          /\ p \notin inJournal => Durably(db, dbDur, O, p) /\ (Cached(p) => cache[p] = O[p])
      BY <1>7, <2>2 DEF Writing, PagesOf
    <3>2. /\ p \in inJournal => Recorded(jrnl', 0, journalOff, p) /\ Recorded(jrnl', 0, journalOff', p)
      BY <2>1, <3>1
    <3> QED
      BY <1>2, <3>1, <3>2 DEF Cached
  <2> QED
    BY <2>2 DEF PagesOf, Cached
<1>10. Writing(O)'
  <2>1. MayShrink' = MayShrink
    BY <1>2 DEF MayShrink
  <2> QED
    BY <1>2, <1>7, <1>8, <1>9, <2>1 DEF Writing, Cached
<1>11. Steady(O)' /\ (Grown(O) => Grown(O)')
  BY <1>1, <1>2 DEF Steady, Grown, Clean, Matches, Cached
<1> QED
  BY <1>6, <1>10, <1>11

LEMMA SyncHeaderStep ==
    ASSUME Types, Types', NEW O \in Images, StandsFor(O, outcomes), Phase(O), SyncJournalHeader
    PROVE  Consistent'
<1> DEFINE x == WriteAt(jrnl, journalOff + 1, NewHeader(journalOff), Garbage)
           g == WriteAt(jrnl, journalOff + 1, Garbage, Garbage)
<1>1. /\ call.at = "syncHdr"
      /\ UNCHANGED <<dbfile, outcomes, settings, txn>>
  BY DEF SyncJournalHeader
<1>2. /\ PhaseWrite(O) /\ call.op \in {"Stress", "CommitPhaseOne"}
      /\ Own(jrnl, O, txn, journalHdr, journalOff)
      /\ Guards(db, dbDur, jrnl, jrnlDur, jrnlNew, Found, O, txn, journalHdr)
      /\ \A p \in 1 .. Len(O) : p \notin inJournal => Durably(db, dbDur, O, p)
      /\ call.op = "Stress" => Grown(O) /\ call.pg \in dirty
      /\ call.op = "CommitPhaseOne" => dbSize > 0
  BY <1>1, SyncsJournal
<1>3. /\ jrnl \in Journals /\ txn \in Nat /\ txn \in 0 .. MaxTxn /\ journalHdr \in Nat
      /\ journalOff \in Nat /\ Len(jrnl) \in Nat
  BY FilesAre DEF Journals
<1>4. /\ Ends(jrnl, journalOff) /\ IsFile(jrnl) /\ Len(jrnl) > 0 /\ journalOff <= Len(jrnl)
      /\ Len(O) = dbOrigSize
  BY <1>1, <1>2, <1>3, OwnIsFile DEF PhaseWrite, Own, Writing, OwnJournal
<1>5. /\ journalOff > 0 /\ Own(jrnl, O, txn, journalOff, journalOff)
      /\ \A J : Guards(db, dbDur, jrnl, jrnl, FALSE, J, O, txn, journalOff)
  <2>1. \A i \in 1 .. journalOff : jrnl[i] = jrnl[i]
    OBVIOUS
  <2> QED
    BY <1>1, <1>3, <1>4, <2>1, SegmentSynced
<1>6. UNCHANGED <<db, dbDur>>
  BY <1>1 DEF dbfile
<1>7. /\ x \in Journals /\ IsFile(x) /\ journalOff < Len(x)
      /\ Own(x, O, txn, journalOff, journalOff + 1) /\ Uncounted(x, journalOff) /\ Ends(x, journalOff)
      /\ \A i \in 1 .. journalOff : x[i] = jrnl[i]
  <2>1. x = WriteAt(jrnl, journalOff + 1, Header(FALSE, 0, <<txn, journalOff>>, Len(O)), Garbage)
    BY <1>4 DEF NewHeader
  <2>2. Len(O) \in 0 .. MaxPage
    BY <1>4 DEF Types, TypesOfCache
  <2>3. /\ jrnl \in Journals /\ O \in Images /\ txn \in 0 .. MaxTxn /\ journalOff \in Nat
        /\ Own(jrnl, O, txn, journalOff, journalOff)
    BY <1>3, <1>5
  <2> HIDE DEF x
  <2>4. Own(x, O, txn, journalOff, journalOff + 1)
    BY ONLY <2>1, <2>2, <2>3, HeaderWritten
  <2>5. Uncounted(x, journalOff)
    BY ONLY <2>1, <2>2, <2>3, HeaderWritten
  <2>6. Ends(x, journalOff)
    BY ONLY <2>5, UncountedEnds
  <2>7. x \in Journals
    BY ONLY <2>1, <2>2, <2>3, HeaderWritten
  <2>8. \A i \in 1 .. journalOff : x[i] = jrnl[i]
    <3> DEFINE s == Header(FALSE, 0, <<txn, journalOff>>, Len(O))
               w == WriteAt(jrnl, journalOff + 1, s, Garbage)
    <3>1. s \in Slots
      BY ONLY <2>2, <2>3, HeaderIs
    <3> HIDE DEF s
    <3>0. journalOff + 1 \in Nat \ {0}
      BY <1>3
    <3>2. \A i \in 1 .. Len(jrnl) : i <= Len(w) /\ (i # journalOff + 1 => w[i] = jrnl[i])
      BY ONLY <2>3, <3>0, <3>1, SlotWritten
    <3>3. \A i \in 1 .. journalOff : i \in 1 .. Len(jrnl) /\ i # journalOff + 1
      BY <1>3, <1>4
    <3>4. x = w
      BY <2>1 DEF s
    <3> HIDE DEF w
    <3> QED
      BY <3>2, <3>3, <3>4
  <2>9. IsFile(x) /\ journalOff < Len(x)
    BY <1>3, <2>4, <2>7, OwnIsFile DEF Own
  <2> QED
    BY <2>4, <2>5, <2>6, <2>7, <2>8, <2>9
<1>8. /\ g \in Journals /\ IsFile(g) /\ journalOff < Len(g) /\ Ends(g, journalOff)
      /\ \A i \in 1 .. journalOff : g[i] = jrnl[i]
  <2>1. /\ WriteAt(jrnl, journalOff + 1, Garbage, Garbage) \in Journals
        /\ journalOff > 0 => IsFile(WriteAt(jrnl, journalOff + 1, Garbage, Garbage))
        /\ journalOff < Len(WriteAt(jrnl, journalOff + 1, Garbage, Garbage))
        /\ Ends(WriteAt(jrnl, journalOff + 1, Garbage, Garbage), journalOff)
        /\ \A i \in 1 .. journalOff : WriteAt(jrnl, journalOff + 1, Garbage, Garbage)[i] = jrnl[i]
    BY ONLY <1>3, <1>4, GarbageWritten
  <2> QED
    BY <1>5, <2>1
<1> HIDE DEF x, g
\* The spill writes the header of the next segment.
<1>9. CASE /\ call.op = "Stress"
           /\ jrnlDur' = jrnl /\ jrnlNew' = FALSE /\ jrnl' = x
           /\ journalHdr' = journalOff /\ journalOff' = journalOff + 1
           /\ nRec' = 0 /\ cksumInit' = <<txn, journalOff>>
           /\ needSync' = {} /\ eState' = "WRITER_DBMOD"
           /\ call' = [call EXCEPT !.at = "stressWrite"]
           /\ UNCHANGED <<sizes, cache, dirty, inJournal, jfdOpen>>
  <2>1. /\ journalOff <= journalOff' /\ journalOff < journalOff' /\ journalOff' = journalOff + 1 + nRec'
        /\ Own(jrnl', O, txn, journalOff, journalOff') /\ Ends(jrnl', journalOff)
        /\ \A i \in 1 .. journalOff : jrnl'[i] = jrnl[i]
    BY <1>3, <1>7, <1>9
  <2>2. /\ Protects(O)' /\ Writing(O)' /\ Steady(O)' /\ (Grown(O) => Grown(O)')
        /\ StandsFor(O, outcomes')
    BY <1>1, <1>9, <2>1, SyncEnds
  <2>3. call'.op = "Stress" /\ call'.at = "stressWrite" /\ call'.pg = call.pg
    BY <1>9, GoesTo
  <2>4. Uncounted(jrnl', journalHdr')
    BY <1>7, <1>9
  <2>5. Clean' /\ Grown(O)' /\ call'.pg \in dirty' /\ call'.pg \notin needSync'
    BY <1>2, <1>9, <2>2, <2>3 DEF Steady
  <2>6. PhaseWrite(O)'
    BY <1>2, <1>9, <2>1, <2>2, <2>3, <2>4, <2>5 DEF PhaseWrite, Between
  <2> QED
    BY <2>2, <2>6 DEF Consistent, Phase
\* The commit goes on to write all pages.
<1>10. CASE /\ call.op = "CommitPhaseOne"
            /\ jrnlDur' = jrnl /\ jrnlNew' = FALSE /\ jrnl' = jrnl
            /\ journalHdr' = journalOff /\ journalOff' = journalOff
            /\ needSync' = {} /\ eState' = "WRITER_DBMOD"
            /\ call' = [call EXCEPT !.at = "writeList"]
            /\ UNCHANGED <<sizes, cache, dirty, inJournal, jfdOpen>>
  <2>1. /\ journalOff <= journalOff' /\ ~(journalOff < journalOff')
        /\ Own(jrnl', O, txn, journalOff, journalOff') /\ Ends(jrnl', journalOff)
        /\ \A i \in 1 .. journalOff : jrnl'[i] = jrnl[i]
    BY <1>3, <1>4, <1>5, <1>10
  <2>2. /\ Protects(O)' /\ Writing(O)' /\ Steady(O)'
        /\ StandsFor(O, outcomes')
    BY <1>1, <1>10, <2>1, SyncEnds
  <2>3. call'.op = "CommitPhaseOne" /\ call'.at = "writeList"
    BY <1>10, GoesTo
  <2>4. dbSize' > 0 /\ journalHdr' = journalOff'
    BY <1>2, <1>10 DEF sizes
  <2>5. PhaseWrite(O)'
    BY <1>10, <2>2, <2>3, <2>4 DEF PhaseWrite, Between
  <2> QED
    BY <2>2, <2>5 DEF Consistent, Phase
<1>11. CASE UNCHANGED <<jfile, lost>> /\ GiveUp
  <2>1. /\ Guards(db', dbDur', jrnl', jrnlDur', jrnlNew', Found', O, txn, journalHdr)
        /\ Own(jrnl', O, txn, journalHdr, journalOff)
        /\ \A i \in 1 .. journalOff : jrnl[i].kind = "rec" => jrnl'[i] = jrnl[i]
        /\ \A p \in 1 .. Len(O) : p \notin inJournal => Durably(db', dbDur', O, p)
    BY <1>1, <1>2, <1>6, <1>11 DEF jfile, Found
  <2> QED
    BY <1>1, <1>2, <1>11, <2>1, WritingGivenUp
<1>12. CASE /\ call.op = "Stress"
            /\ jrnlDur' = jrnl /\ jrnlNew' = FALSE /\ jrnl' \in {jrnl, g}
            /\ GiveUp
  <2>1. Guards(db, dbDur, jrnl', jrnl, FALSE, Found', O, txn, journalOff)
    <3>1. journalOff <= Len(g)
      BY <1>3, <1>8 DEF Journals
    <3>2. \A J : Guards(db, dbDur, g, jrnl, FALSE, J, O, txn, journalOff)
      BY <1>1, <1>8, <3>1, SegmentSynced
    <3> QED
      BY <1>5, <1>12, <3>2
  <2>2. Guards(db', dbDur', jrnl', jrnlDur', jrnlNew', Found', O, txn, journalOff) /\ StandsFor(O, outcomes')
    BY <1>1, <1>6, <1>12, <2>1
  <2>3. Suspended(O)'
    BY <1>3, <2>2, GuardedNext
  <2> QED
    BY <1>12, <2>2, <2>3, LandsGivenUp
<1> QED
  BY <1>2, <1>9, <1>10, <1>11, <1>12 DEF SyncJournalHeader, Goto, x, g

\* Pages whose originals are in the synced part of the journal are overwritten.
LEMMA PagesWritten ==
    ASSUME Types, NEW O \in Images, Len(O) > 0,
           Guards(db, dbDur, jrnl, jrnlDur, jrnlNew, Found, O, txn, journalHdr), journalHdr > 0,
           NEW e \in Images, NEW S, \A q \in 1 .. Len(db) : q <= Len(e) /\ (q \notin S => e[q] = db[q]),
           \A q \in 1 .. Len(O) : q \in S => Recorded(jrnl, 0, journalHdr, q)
    PROVE  /\ \A J : Guards(e, dbDur, jrnl, jrnlDur, jrnlNew, J, O, txn, journalHdr)
           /\ \A q \in 1 .. Len(O) : q \notin S /\ Durably(db, dbDur, O, q) => Durably(e, dbDur, O, q)
           /\ Len(e) > 0
<1>1. Keeps(db, dbDur, jrnl, jrnlDur, jrnlNew, O, txn, journalHdr)
  BY FilesAre DEF Guards
<1>2. /\ Len(db) > 0 /\ Len(dbDur) > 0 /\ Len(db) \in Nat /\ Len(e) \in Nat /\ db \in Images
      /\ Len(O) \in Nat
  BY <1>1, FilesAre DEF Keeps, Covered, Images
<1>3. Len(e) > 0
  BY <1>2
<1>4. ASSUME NEW q \in 1 .. Len(O), q \notin S, Durably(db, dbDur, O, q)
      PROVE  Durably(e, dbDur, O, q)
  <2>1. q <= Len(db) /\ q \in 1 .. Len(db)
    BY <1>2, <1>4 DEF Durably
  <2> QED
    BY <1>4, <2>1 DEF Durably
<1>5. Keeps(e, dbDur, jrnl, jrnlDur, jrnlNew, O, txn, journalHdr)
  <2>1. \A q \in 1 .. Len(O) :
           Durably(db, dbDur, O, q) => Durably(e, dbDur, O, q) \/ Recorded(jrnl, 0, journalHdr, q)
    BY <1>4
  <2> QED
    BY <1>1, <1>2, <1>3, <2>1, WriteKeeps
<1> QED
  BY <1>3, <1>4, <1>5 DEF Guards

\* The original of a dirty page is in the journal, in its synced part when the page
\* does not need a sync.
LEMMA DirtyIsRecorded ==
    ASSUME Types, NEW O \in Images, Writing(O), Steady(O), NEW q \in dirty, q \notin needSync,
           q \in 1 .. Len(O)
    PROVE  Recorded(jrnl, 0, journalHdr, q) /\ q \in inJournal
BY DEF Writing, Steady, PagesOf

LEMMA StressWriteStep ==
    ASSUME Types, Types', NEW O \in Images, StandsFor(O, outcomes), Phase(O), StressWrite
    PROVE  Consistent'
<1> DEFINE p == call.pg
<1>1. /\ call.at = "stressWrite"
      /\ UNCHANGED <<dbDur, jfile, history, settings, txn>>
  BY DEF StressWrite
<1>2. /\ PhaseWrite(O) /\ call.op = "Stress" /\ p \in dirty /\ Steady(O) /\ Grown(O)
      /\ journalHdr < journalOff /\ Uncounted(jrnl, journalHdr)
      /\ eState = "WRITER_DBMOD" /\ p \notin needSync
      /\ Protects(O) /\ Writing(O)
  <2>1. PhaseWrite(O)
    BY <1>1, PhaseInCall
  <2> QED
    BY <1>1, <2>1 DEF PhaseWrite, Between
<1>3. /\ p \in Page /\ dbSize \in Nat
      /\ db \in Images /\ Len(db) \in Nat /\ Len(O) > 0
      /\ cache \in [Page -> Content \cup {NotCached}] /\ MaxPage \in Nat
  <2>1. /\ MaxPage \in Nat /\ db \in Images /\ Len(db) \in Nat /\ Len(O) > 0
    BY FilesAre DEF Images, StandsFor
  <2>2. /\ dbSize \in 0 .. MaxPage
        /\ cache \in [Page -> Content \cup {NotCached}] /\ dirty \subseteq Page
    BY DEF Types, TypesOfCache
  <2>3. p \in Page
    BY <1>2, <2>2
  <2> HIDE DEF p
  <2> QED
    BY <2>1, <2>2, <2>3
<1>4. cache[p] \in Content /\ Cached(p)
  BY <1>2, <1>3 DEF Writing, Cached
<1>5. /\ journalHdr > 0 /\ Guards(db, dbDur, jrnl, jrnlDur, jrnlNew, Found, O, txn, journalHdr)
  BY <1>2 DEF Protects, Guarded
<1>6. /\ \A q \in 1 .. Len(O) : q \in {p} => Recorded(jrnl, 0, journalHdr, q) /\ q \in inJournal
      /\ \A J : Guards(db, dbDur, jrnl, jrnlDur, jrnlNew, J, O, txn, journalHdr)
  <2>1. \A q \in 1 .. Len(O) : q \in {p} => Recorded(jrnl, 0, journalHdr, q) /\ q \in inJournal
    BY <1>2, DirtyIsRecorded
  <2>2. \A J : Guards(db, dbDur, jrnl, jrnlDur, jrnlNew, J, O, txn, journalHdr)
    BY <1>5, FilesAre DEF Guards
  <2> QED
    BY <2>1, <2>2
\* Whatever is written, the journal guards it.
<1>7. ASSUME NEW v \in Content
      PROVE  /\ WriteAt(db, p, v, 0) \in Images
             /\ \A J : Guards(WriteAt(db, p, v, 0), dbDur, jrnl, jrnlDur, jrnlNew, J, O, txn, journalHdr)
             /\ \A q \in 1 .. Len(O) :
                   q \notin {p} /\ Durably(db, dbDur, O, q) => Durably(WriteAt(db, p, v, 0), dbDur, O, q)
             /\ p <= Len(WriteAt(db, p, v, 0)) /\ WriteAt(db, p, v, 0)[p] = v
             /\ \A q \in 1 .. Len(db) :
                   /\ q <= Len(WriteAt(db, p, v, 0))
                   /\ q \notin {p} => WriteAt(db, p, v, 0)[q] = db[q]
  <2> DEFINE e == WriteAt(db, p, v, 0)
  <2>1. p \in Page /\ v \in Content /\ db \in Images
    BY <1>3
  <2>2. e \in Images /\ p <= Len(e) /\ e[p] = v
        /\ \A q \in 1 .. Len(db) : q <= Len(e) /\ (q # p => e[q] = db[q])
    <3> HIDE DEF p
    <3> QED
      BY ONLY <2>1, PageWritten
  <2>3. \A q \in 1 .. Len(db) : q <= Len(e) /\ (q \notin {p} => e[q] = db[q])
    BY <2>2
  <2>4. \A q \in 1 .. Len(O) : q \in {p} => Recorded(jrnl, 0, journalHdr, q)
    BY <1>6
  <2> HIDE DEF e, p
  <2>5. /\ \A J : Guards(e, dbDur, jrnl, jrnlDur, jrnlNew, J, O, txn, journalHdr)
        /\ \A q \in 1 .. Len(O) : q \notin {p} /\ Durably(db, dbDur, O, q) => Durably(e, dbDur, O, q)
        /\ Len(e) > 0
    BY <1>3, <1>5, <2>2, <2>3, <2>4, PagesWritten
  <2> QED
    BY <2>2, <2>3, <2>5 DEF e
<1>8. CASE /\ db' = IF p <= dbSize THEN WriteAt(db, p, cache[p], 0) ELSE db
           /\ dirty' = dirty \ {p}
           /\ cache' \in {cache, [cache EXCEPT ![p] = NotCached]}
           /\ call' = Idle
           /\ UNCHANGED <<eState, dbSize, dbOrigSize, needSync, jstate>>
  <2>1. /\ Guards(db', dbDur', jrnl', jrnlDur', jrnlNew', Found', O, txn', journalHdr')
        /\ \A q \in 1 .. Len(O) : q # p /\ Durably(db, dbDur, O, q) => Durably(db', dbDur', O, q)
        /\ p <= dbSize => p <= Len(db') /\ db'[p] = cache[p]
        /\ \A q \in 1 .. Len(db) : q <= Len(db') /\ (q # p => db'[q] = db[q])
    <3>1. UNCHANGED <<dbDur, jrnl, jrnlDur, jrnlNew, txn, journalHdr>>
      BY <1>1, <1>8 DEF jfile, jstate
    <3>2. CASE p <= dbSize
      <4> HIDE DEF p
      <4> QED
        BY <1>4, <1>7, <1>8, <3>1, <3>2
    <3>3. CASE ~(p <= dbSize)
      <4>1. db' = db
        BY <1>8, <3>3
      <4>2. \A q \in 1 .. Len(db) : q <= Len(db)
        BY <1>3
      <4> QED
        BY <1>6, <3>1, <3>3, <4>1, <4>2
    <3> QED
      BY <3>2, <3>3
  <2>2. UNCHANGED <<eState, dbSize, dbOrigSize, needSync, inJournal, jfdOpen, journalOff, journalHdr,
                    nRec, cksumInit, jrnl, txn, journalMode, level, outcomes>>
    BY <1>1, <1>8 DEF jstate, jfile, settings, history
  <2>3. /\ \A q \in Page : q # p => cache'[q] = cache[q]
        /\ cache'[p] # NotCached => cache'[p] = cache[p]
    BY <1>3, <1>8
  <2>4. Protects(O)'
    BY <1>2, <2>1, <2>2 DEF Protects, Guarded
  <2>5. PagesOf(O)'
    <3>1. ASSUME NEW q \in 1 .. Len(O)
          PROVE  /\ q \in inJournal' => Recorded(jrnl', 0, journalOff', q)
                 /\ q \in inJournal' \ needSync' => Recorded(jrnl', 0, journalHdr', q)
                 /\ q \notin inJournal' =>
                       Durably(db', dbDur', O, q) /\ (cache'[q] # NotCached => cache'[q] = O[q])
      <4>1. /\ q \in inJournal => Recorded(jrnl, 0, journalOff, q)
            /\ q \in inJournal \ needSync => Recorded(jrnl, 0, journalHdr, q)
            /\ q \notin inJournal => Durably(db, dbDur, O, q) /\ (cache[q] # NotCached => cache[q] = O[q])
        BY <1>2, <3>1 DEF Writing, PagesOf, Cached
      <4>2. q \notin inJournal => q # p
        BY <1>6, <3>1
      <4>3. q \in Page
        <5>1. Len(O) <= dbSize /\ Len(O) \in Nat /\ dbSize <= MaxPage
          BY <1>2, <1>3 DEF Grown, Types, TypesOfCache, Images
        <5> QED
          BY <1>3, <3>1, <5>1 DEF Page
      <4> QED
        BY <2>1, <2>2, <2>3, <3>1, <4>1, <4>2, <4>3
    <3> QED
      BY <3>1 DEF PagesOf, Cached
  <2>6. \A q \in dirty' : cache'[q] # NotCached
    <3>1. \A q \in dirty : q \in Page /\ cache[q] # NotCached
      BY <1>2 DEF Writing, Cached, Types, TypesOfCache
    <3> QED
      BY <1>8, <2>3, <3>1
  <2>7. Len(O) <= dbSize'
    BY <1>2, <2>2 DEF Grown
  <2>8. Writing(O)'
    <3>1. OwnJournal(O, journalOff)'
      BY <1>2, <2>2 DEF Writing, OwnJournal
    <3>2. journalHdr' < journalOff' =>
             cksumInit' = <<txn', journalHdr'>> /\ journalOff' = journalHdr' + 1 + nRec'
      BY <1>2, <2>2 DEF Writing
    <3> QED
      BY <2>5, <2>6, <2>7, <3>1, <3>2 DEF Writing, Cached
  <2>9. Steady(O)'
    <3>1. ASSUME NEW q \in (1 .. dbSize) \ dirty'
          PROVE  q <= Len(db') /\ (cache'[q] # NotCached => cache'[q] = db'[q])
      <4>1. CASE q = p
        BY <2>1, <2>3, <4>1
      <4>2. CASE q # p
        <5>1. q \in (1 .. dbSize) \ dirty /\ q \in Page
          BY <1>3, <1>8, <3>1, <4>2 DEF Page, Types, TypesOfCache
        <5>2. q <= Len(db) /\ (cache[q] # NotCached => cache[q] = db[q])
          BY <1>2, <5>1 DEF Steady, Clean, Matches, Cached
        <5>3. q \in 1 .. Len(db)
          BY <1>3, <5>1, <5>2 DEF Page
        <5> QED
          BY <2>1, <2>3, <4>2, <5>1, <5>2, <5>3
      <4> QED
        BY <4>1, <4>2
    <3>2. Clean'
      BY <2>2, <3>1 DEF Clean, Matches, Cached
    <3>3. \A q \in dirty' : q <= Len(O) => q \in inJournal'
      BY <1>2, <1>8, <2>2 DEF Steady
    <3> QED
      BY <3>2, <3>3 DEF Steady
  <2>10. Grown(O)'
    BY <1>2, <1>8, <2>2 DEF Grown
  <2>11. PhaseWrite(O)'
    <3>1. call'.op = "none" /\ call'.at = "idle"
      BY <1>8 DEF Idle
    <3> QED
      BY <1>2, <2>2, <2>4, <2>8, <2>9, <2>10, <3>1 DEF PhaseWrite, Between, Steady
  <2> QED
    BY <2>2, <2>11 DEF Consistent, Phase
<1>9. CASE db' \in {db, WriteAt(db, p, Torn, 0)} /\ GiveUp
  <2>1. \A J : Guards(db', dbDur, jrnl, jrnlDur, jrnlNew, J, O, txn, journalHdr)
    <3>1. CASE db' = db
      BY <1>6, <3>1
    <3>2. CASE db' = WriteAt(db, p, Torn, 0)
      <4>1. Torn \in Content
        BY DEF Content
      <4> QED
        BY <1>7, <3>2, <4>1
    <3> QED
      BY <1>9, <3>1, <3>2
  <2>2. /\ Guards(db', dbDur', jrnl', jrnlDur', jrnlNew', Found', O, txn, journalHdr)
        /\ txn \in Nat /\ journalHdr \in Nat /\ StandsFor(O, outcomes')
    BY <1>1, <2>1, FilesAre DEF jfile, history
  <2>3. Suspended(O)'
    BY <2>2, GuardedNext
  <2> QED
    BY <1>2, <1>9, <2>2, <2>3, LandsGivenUp
<1> QED
  BY <1>8, <1>9 DEF StressWrite

\* The commit writes to the database.
LEMMA CommitWrites ==
    ASSUME Types, NEW O \in Images, Phase(O), call.at \in {"writeList", "syncDb"}
    PROVE  /\ PhaseWrite(O) /\ call.op = "CommitPhaseOne" /\ Steady(O) /\ Protects(O) /\ Writing(O)
           /\ dbSize > 0 /\ journalHdr = journalOff /\ eState = "WRITER_DBMOD" /\ needSync = {}
           /\ call.at = "syncDb" => dirty = {}
           /\ Own(jrnl, O, txn, journalHdr, journalOff)
           /\ Guards(db, dbDur, jrnl, jrnlDur, jrnlNew, Found, O, txn, journalHdr) /\ journalHdr > 0
           /\ \A p \in 1 .. Len(O) :
                 /\ p \in dirty => Recorded(jrnl, 0, journalHdr, p) /\ p \in inJournal
                 /\ p \notin inJournal => Durably(db, dbDur, O, p)
<1>1. PhaseWrite(O)
  BY PhaseInCall
<1>2. /\ call.op = "CommitPhaseOne" /\ Steady(O) /\ Protects(O) /\ Writing(O)
      /\ dbSize > 0 /\ journalHdr = journalOff /\ eState = "WRITER_DBMOD" /\ needSync = {}
      /\ call.at = "syncDb" => dirty = {}
  BY <1>1 DEF PhaseWrite, Between
<1>3. Own(jrnl, O, txn, journalHdr, journalOff)
  BY <1>2 DEF Writing, OwnJournal
<1>4. Guards(db, dbDur, jrnl, jrnlDur, jrnlNew, Found, O, txn, journalHdr) /\ journalHdr > 0
  BY <1>2 DEF Protects, Guarded
<1>5. \A p \in 1 .. Len(O) :
         /\ p \in dirty => Recorded(jrnl, 0, journalHdr, p) /\ p \in inJournal
         /\ p \notin inJournal => Durably(db, dbDur, O, p)
  BY <1>2 DEF Steady, Writing, PagesOf
<1> QED
  BY <1>1, <1>2, <1>3, <1>4, <1>5

\* Some of the dirty pages are written.
LEMMA SomeWritten ==
    ASSUME Types, NEW O \in Images, Len(O) > 0, Phase(O), call.at = "writeList",
           NEW e \in Images, NEW S, S \subseteq dirty,
           \A q \in 1 .. Len(db) : q <= Len(e) /\ (q \notin S => e[q] = db[q])
    PROVE  /\ \A J : Guards(e, dbDur, jrnl, jrnlDur, jrnlNew, J, O, txn, journalHdr)
           /\ \A q \in 1 .. Len(O) : q \notin inJournal => Durably(e, dbDur, O, q)
<1>1. /\ Guards(db, dbDur, jrnl, jrnlDur, jrnlNew, Found, O, txn, journalHdr) /\ journalHdr > 0
      /\ \A p \in 1 .. Len(O) :
            /\ p \in dirty => Recorded(jrnl, 0, journalHdr, p) /\ p \in inJournal
            /\ p \notin inJournal => Durably(db, dbDur, O, p)
  BY CommitWrites
<1>2. \A q \in 1 .. Len(O) : q \in S => Recorded(jrnl, 0, journalHdr, q)
  BY <1>1
<1>3. /\ \A J : Guards(e, dbDur, jrnl, jrnlDur, jrnlNew, J, O, txn, journalHdr)
      /\ \A q \in 1 .. Len(O) : q \notin S /\ Durably(db, dbDur, O, q) => Durably(e, dbDur, O, q)
      /\ Len(e) > 0
  BY <1>1, <1>2, PagesWritten
<1>4. \A q \in 1 .. Len(O) : q \notin inJournal => q \notin S
  BY <1>1
<1> QED
  BY <1>1, <1>3, <1>4

LEMMA CommitWriteListStep ==
    ASSUME Types, Types', NEW O \in Images, StandsFor(O, outcomes), Phase(O), CommitWriteList
    PROVE  Consistent'
<1>1. /\ call.at = "writeList"
      /\ UNCHANGED <<dbDur, jrnl, jrnlDur, jrnlNew, outcomes, lost, journalMode, level, txn>>
  BY DEF CommitWriteList, jfile, history, settings
<1>2. /\ PhaseWrite(O) /\ call.op = "CommitPhaseOne" /\ Steady(O) /\ Protects(O) /\ Writing(O)
      /\ dbSize > 0 /\ journalHdr = journalOff /\ eState = "WRITER_DBMOD" /\ needSync = {}
      /\ Own(jrnl, O, txn, journalHdr, journalOff)
      /\ \A p \in 1 .. Len(O) : p \in dirty => p \in inJournal
  BY <1>1, CommitWrites
<1>3. /\ dbSize \in 0 .. MaxPage /\ dbFileSize \in 0 .. MaxPage /\ MaxPage \in Nat
      /\ cache \in [Page -> Content \cup {NotCached}] /\ dirty \subseteq Page
      /\ db \in Images /\ Len(db) \in Nat /\ Len(O) \in Nat /\ Len(O) > 0 /\ O \in Images
  BY SMTT(40), FilesAre DEF Types, TypesOfCache, Images, StandsFor
<1>4. \A p \in dirty : cache[p] \in Content
  BY <1>2, <1>3 DEF Writing, Cached
\* Pages that are written are as they are in the cache.
<1>5. ASSUME NEW S \in SUBSET DirtyList
      PROVE  /\ WithPages(S) \in Images
             /\ \A p \in S : p <= Len(WithPages(S)) /\ WithPages(S)[p] = cache[p]
             /\ \A p \in 1 .. Len(db) :
                   p <= Len(WithPages(S)) /\ (p \notin S => WithPages(S)[p] = db[p])
  <2>1. db \in Images /\ S \in SUBSET Page /\ \A p \in S : cache[p] \in Content
    BY <1>3, <1>4 DEF DirtyList
  <2>2. WithPages(S) = Filled(db, cache, S)
    BY DEF WithPages, Filled
  <2>3. /\ Filled(db, cache, S) \in Images
        /\ \A p \in S : p <= Len(Filled(db, cache, S)) /\ Filled(db, cache, S)[p] = cache[p]
        /\ \A p \in 1 .. Len(db) :
              p <= Len(Filled(db, cache, S)) /\ (p \notin S => Filled(db, cache, S)[p] = db[p])
    BY <2>1, FilledIs, ZenonT(60)
  <2> HIDE DEF WithPages
  <2> QED
    BY ONLY <2>2, <2>3
<1>6. CASE /\ db' = WithPages(DirtyList)
           /\ dbFileSize' = Larger(dbFileSize, LastPage(DirtyList))
           /\ dirty' = {}
           /\ call' = [call EXCEPT !.at = "syncDb"]
           /\ UNCHANGED <<eState, dbSize, dbOrigSize, cache, needSync, jstate>>
  <2>1. /\ db' \in Images
        /\ \A p \in DirtyList : p <= Len(db') /\ db'[p] = cache[p]
        /\ \A p \in 1 .. Len(db) : p <= Len(db') /\ (p \notin DirtyList => db'[p] = db[p])
    BY <1>5, <1>6
  <2>2. /\ Guards(db', dbDur', jrnl', jrnlDur', jrnlNew', Found', O, txn', journalHdr')
        /\ \A q \in 1 .. Len(O) : q \notin inJournal => Durably(db', dbDur', O, q)
    <3>1. DirtyList \subseteq dirty
      BY DEF DirtyList
    <3>2. /\ \A J : Guards(db', dbDur, jrnl, jrnlDur, jrnlNew, J, O, txn, journalHdr)
          /\ \A q \in 1 .. Len(O) : q \notin inJournal => Durably(db', dbDur, O, q)
      BY <1>1, <1>3, <2>1, <3>1, SomeWritten
    <3>3. journalHdr' = journalHdr
      BY <1>6 DEF jstate
    <3> QED
      BY <1>1, <3>2, <3>3
  <2>3. UNCHANGED <<eState, dbSize, dbOrigSize, needSync, cache, inJournal, jfdOpen, journalOff,
                    journalHdr, nRec, cksumInit, jrnl, txn, journalMode, level, outcomes>>
    BY <1>1, <1>6 DEF jstate
  <2>4. Protects(O)'
    BY <1>2, <2>2, <2>3 DEF Protects, Guarded
  <2>5. PagesOf(O)'
    <3>1. ASSUME NEW q \in 1 .. Len(O)
          PROVE  /\ q \in inJournal' => Recorded(jrnl', 0, journalOff', q)
                 /\ q \in inJournal' \ needSync' => Recorded(jrnl', 0, journalHdr', q)
                 /\ q \notin inJournal' =>
                       Durably(db', dbDur', O, q) /\ (cache'[q] # NotCached => cache'[q] = O[q])
      <4>1. /\ q \in inJournal => Recorded(jrnl, 0, journalOff, q)
            /\ q \in inJournal \ needSync => Recorded(jrnl, 0, journalHdr, q)
            /\ q \notin inJournal => (cache[q] # NotCached => cache[q] = O[q])
        BY <1>2, <3>1 DEF Writing, PagesOf, Cached
      <4> QED
        BY <2>2, <2>3, <3>1, <4>1
    <3> QED
      BY <3>1 DEF PagesOf, Cached
  <2>6. Len(O) <= dbSize' \/ MayShrink'
    BY <1>2, <2>3 DEF MayShrink, Writing
  <2>7. Writing(O)'
    <3>1. OwnJournal(O, journalOff)'
      BY <1>2, <2>3 DEF Writing, OwnJournal
    <3>2. journalHdr' < journalOff' =>
             cksumInit' = <<txn', journalHdr'>> /\ journalOff' = journalHdr' + 1 + nRec'
      BY <1>2, <2>3 DEF Writing
    <3> QED
      BY <1>6, <2>5, <2>6, <3>1, <3>2 DEF Writing, Cached
  <2>8. Steady(O)'
    <3>1. ASSUME NEW q \in 1 .. dbSize
          PROVE  q <= Len(db') /\ (cache'[q] # NotCached => cache'[q] = db'[q])
      <4>1. CASE q \in dirty
        <5>1. q \in DirtyList
          BY <1>3, <3>1, <4>1 DEF DirtyList
        <5> QED
          BY <2>1, <2>3, <5>1
      <4>2. CASE q \notin dirty
        <5>1. q <= Len(db) /\ (cache[q] # NotCached => cache[q] = db[q])
          BY <1>2, <3>1, <4>2 DEF Steady, Clean, Matches, Cached
        <5>2. q \in 1 .. Len(db) /\ q \notin DirtyList
          BY <1>3, <3>1, <4>2, <5>1 DEF DirtyList
        <5> QED
          BY <2>1, <2>3, <5>1, <5>2
      <4> QED
        BY <4>1, <4>2
    <3>2. Clean'
      BY <2>3, <3>1 DEF Clean, Matches, Cached
    <3> QED
      BY <1>6, <3>2 DEF Steady
  <2>9. call'.op = "CommitPhaseOne" /\ call'.at = "syncDb"
    BY <1>2, <1>6, GoesTo
  <2>10. PhaseWrite(O)'
    BY <1>2, <1>6, <2>3, <2>4, <2>7, <2>8, <2>9 DEF PhaseWrite, Between
  <2> QED
    BY <2>3, <2>10 DEF Consistent, Phase
<1>7. CASE /\ \E p \in DirtyList :
                 LET before == WithPages({q \in DirtyList : q < p})
                 IN  db' \in {before, WriteAt(before, p, Torn, 0)}
           /\ GiveUp
  <2>1. PICK p \in DirtyList :
           LET before == WithPages({q \in DirtyList : q < p})
           IN  db' \in {before, WriteAt(before, p, Torn, 0)}
    BY <1>7
  <2> DEFINE S == {q \in DirtyList : q < p}
             before == WithPages(S)
  <2>2. p \in Page /\ p \in dirty /\ S \in SUBSET DirtyList
    BY <1>3 DEF DirtyList
  <2>3. /\ before \in Images
        /\ \A q \in 1 .. Len(db) : q <= Len(before) /\ (q \notin S => before[q] = db[q])
    BY <1>5, <2>2
  <2> HIDE DEF before, S
  <2>4. /\ db' \in Images
        /\ \A q \in 1 .. Len(db) : q <= Len(db') /\ (q \notin S \cup {p} => db'[q] = db[q])
    <3>1. db' \in {before, WriteAt(before, p, Torn, 0)}
      BY <2>1 DEF before, S
    <3>2. CASE db' = before
      BY <2>3, <3>2
    <3>3. CASE db' = WriteAt(before, p, Torn, 0)
      <4>1. Torn \in Content
        BY DEF Content
      <4> DEFINE w == WriteAt(before, p, Torn, 0)
      <4>2. /\ w \in Images
            /\ \A q \in 1 .. Len(before) : q <= Len(w) /\ (q # p => w[q] = before[q])
        BY ONLY <2>2, <2>3, <4>1, PageWritten
      <4>3. Len(before) \in Nat
        BY <2>3 DEF Images
      <4>4. db' = w
        BY <3>3
      <4> HIDE DEF w
      <4>5. \A q \in 1 .. Len(db) : q \in 1 .. Len(before)
        BY <1>3, <2>3, <4>3
      <4> QED
        BY <2>3, <4>2, <4>4, <4>5
    <3> QED
      BY <3>1, <3>2, <3>3
  <2>5. S \cup {p} \subseteq dirty
    BY <2>2 DEF DirtyList
  <2>6. /\ \A J : Guards(db', dbDur, jrnl, jrnlDur, jrnlNew, J, O, txn, journalHdr)
        /\ \A q \in 1 .. Len(O) : q \notin inJournal => Durably(db', dbDur, O, q)
    BY <1>1, <1>3, <2>4, <2>5, SomeWritten
  <2>7. /\ Guards(db', dbDur', jrnl', jrnlDur', jrnlNew', Found', O, txn, journalHdr)
        /\ Own(jrnl', O, txn, journalHdr, journalOff)
        /\ \A i \in 1 .. journalOff : jrnl[i].kind = "rec" => jrnl'[i] = jrnl[i]
        /\ \A q \in 1 .. Len(O) : q \notin inJournal => Durably(db', dbDur', O, q)
        /\ UNCHANGED <<settings, txn, outcomes>>
    BY <1>1, <1>2, <2>6 DEF settings
  <2> QED
    BY <1>2, <1>7, <2>7, WritingGivenUp
<1> QED
  BY <1>6, <1>7 DEF CommitWriteList, Goto

LEMMA CommitSyncStep ==
    ASSUME Types, Types', NEW O \in Images, StandsFor(O, outcomes), Phase(O), CommitSync
    PROVE  Consistent'
<1>1. /\ call.at = "syncDb"
      /\ UNCHANGED <<db, jrnl, jrnlDur, jrnlNew, outcomes, lost, journalMode, level, txn>>
  BY DEF CommitSync, jfile, history, settings
<1>2. /\ PhaseWrite(O) /\ call.op = "CommitPhaseOne" /\ Steady(O) /\ Protects(O) /\ Writing(O)
      /\ dbSize > 0 /\ journalHdr = journalOff /\ eState = "WRITER_DBMOD" /\ needSync = {}
      /\ dirty = {} /\ journalHdr > 0
      /\ Own(jrnl, O, txn, journalHdr, journalOff)
      /\ Guards(db, dbDur, jrnl, jrnlDur, jrnlNew, Found, O, txn, journalHdr)
      /\ \A p \in 1 .. Len(O) : p \notin inJournal => Durably(db, dbDur, O, p)
  BY <1>1, CommitWrites
<1>3. CASE /\ dbDur' = db
           /\ eState' = "WRITER_FINISHED"
           /\ call' = Idle
           /\ UNCHANGED <<sizes, pcache, jstate>>
  <2>1. UNCHANGED <<dbSize, dbOrigSize, dbFileSize, cache, dirty, needSync, inJournal, jfdOpen,
                    journalOff, journalHdr>>
    BY <1>3 DEF sizes, pcache, jstate
  <2>2. Protects(O)'
    <3>1. Keeps(db, dbDur, jrnl, jrnlDur, jrnlNew, O, txn, journalHdr) /\ Len(db) > 0
      BY <1>2, FilesAre DEF Guards, Keeps, Covered
    <3>2. \A p \in 1 .. Len(O) : Durably(db, dbDur, O, p) => Durably(db, db, O, p)
      BY DEF Durably
    <3>3. Keeps(db, db, jrnl, jrnlDur, jrnlNew, O, txn, journalHdr)
      BY <3>1, <3>2, WriteKeeps
    <3>4. \A J : Guards(db, db, jrnl, jrnlDur, jrnlNew, J, O, txn, journalHdr)
      BY <1>2, <3>3 DEF Guards
    <3>5. Guards(db', dbDur', jrnl', jrnlDur', jrnlNew', Found', O, txn', journalHdr')
      BY <1>1, <1>3, <2>1, <3>4
    <3> QED
      BY <1>2, <1>3, <2>1, <3>5 DEF Protects, Guarded
  <2>3. OwnJournal(O, journalOff)'
    BY <1>1, <1>2, <2>1 DEF Writing, OwnJournal
  <2>4. Current'
    BY <1>1, <1>2, <2>1 DEF Steady, Clean, Current, Matches, Cached
  <2>5. Remembered(cache, jrnl, O, 0, journalHdr)'
    <3>1. ASSUME NEW p \in 1 .. Len(O), cache[p] # NotCached
          PROVE  cache[p] = O[p] \/ Recorded(jrnl, 0, journalHdr, p)
      BY <1>2, <3>1 DEF Writing, PagesOf, Cached
    <3> QED
      BY <1>1, <2>1, <3>1 DEF Remembered
  <2>6. Len(O) <= dbSize' \/ MayShrink'
    BY <1>1, <1>2, <2>1 DEF Writing, MayShrink
  <2>7. PhaseFinished(O)'
    BY <1>1, <1>2, <1>3, <2>1, <2>2, <2>3, <2>4, <2>5, <2>6 DEF PhaseFinished, Between, Idle
  <2> QED
    BY <1>1, <2>7 DEF Consistent, Phase
<1>4. CASE UNCHANGED dbDur /\ GiveUp
  <2>1. /\ Guards(db', dbDur', jrnl', jrnlDur', jrnlNew', Found', O, txn, journalHdr)
        /\ Own(jrnl', O, txn, journalHdr, journalOff)
        /\ \A i \in 1 .. journalOff : jrnl[i].kind = "rec" => jrnl'[i] = jrnl[i]
        /\ \A p \in 1 .. Len(O) : p \notin inJournal => Durably(db', dbDur', O, p)
        /\ UNCHANGED <<settings, txn, outcomes>>
    BY <1>1, <1>2, <1>4 DEF Found, settings
  <2> QED
    BY <1>2, <1>4, <2>1, WritingGivenUp
<1> QED
  BY <1>3, <1>4 DEF CommitSync

-----------------------------------------------------------------------------
(* A power loss.                                                           *)

LEMMA JournalLost ==
    ASSUME Types, NEW x \in LeftoverJournal
    PROVE  x \in Journals /\ LossOf(x, jrnl, jrnlDur, jrnlNew)
<1>1. jrnl \in Seq(Slots) /\ jrnlDur \in Seq(Slots) /\ Garbage \in Slots /\ <<>> \in Seq(Slots)
      /\ NoFile \in Journals
  BY FilesAre, GarbageIs, NoFileIsCold DEF Journals
<1>2. CASE x = jrnlDur
  BY <1>1, <1>2 DEF LossOf, Journals
<1>3. CASE x = NoFile /\ (jrnlNew \/ ~IsFile(jrnl) \/ ~IsFile(jrnlDur))
  BY <1>1, <1>3 DEF LossOf
<1>4. CASE IsFile(jrnl) /\ (jrnlNew \/ ~IsFile(jrnlDur)) /\ x \in Leftover(jrnl, <<>>, Garbage)
  BY <1>1, <1>4, LeftoverMixes DEF LossOf, Journals
<1>5. CASE IsFile(jrnl) /\ IsFile(jrnlDur) /\ ~jrnlNew /\ x \in Leftover(jrnl, jrnlDur, Garbage)
  <2>1. /\ x \in Seq(Slots) /\ Mixes(x, jrnl, jrnlDur, Garbage)
        /\ jrnl = <<>> => x = <<>> \/ x = jrnlDur
    BY <1>1, <1>5, LeftoverMixes
  <2> QED
    BY <1>5, <2>1 DEF LossOf, Journals
<1> QED
  BY <1>2, <1>3, <1>4, <1>5 DEF LeftoverJournal

\* The files that a power loss may leave are the database, or restore it.
LEMMA LossSuspends ==
    ASSUME Types, NEW O \in Images, StandsFor(O, outcomes), Phase(O),
           NEW e \in Images, Mixes(e, db, dbDur, Torn),
           NEW x \in Journals, LossOf(x, jrnl, jrnlDur, jrnlNew),
           NEW K \in SUBSET Images, K = outcomes \cup lost
    PROVE  Leaves(e, x, K)
<1>1. Found \in SUBSET K /\ StandsFor(O, K)
  BY FilesAre DEF Found, FoundIn, StandsFor
<1>2. Safe(db, dbDur, jrnl, jrnlDur, jrnlNew, Found, O)
  BY PhaseIsSafe
<1>3. /\ db \in Images /\ dbDur \in Images /\ jrnl \in Journals /\ jrnlDur \in Journals
      /\ jrnlNew \in BOOLEAN
  BY FilesAre
<1>4. /\ e \in Images /\ Mixes(e, db, dbDur, Torn) /\ x \in Journals
      /\ LossOf(x, jrnl, jrnlDur, jrnlNew) /\ K \in SUBSET Images /\ O \in Images
  OBVIOUS
<1> QED
  BY ONLY <1>1, <1>2, <1>3, <1>4, LossRecovers

LEMMA CrashStep ==
    ASSUME Types, Types', NEW O \in Images, StandsFor(O, outcomes), Phase(O), Crash
    PROVE  Consistent'
<1>1. /\ db' \in Leftover(db, dbDur, Torn) /\ dbDur' = db'
      /\ jrnl' \in LeftoverJournal /\ jrnlDur' = jrnl' /\ jrnlNew' = FALSE
      /\ eState' = "OPEN" /\ call' = Idle /\ cache' = EmptyCache /\ dirty' = {} /\ needSync' = {}
      /\ inJournal' = {} /\ jfdOpen' = FALSE
      /\ outcomes' = outcomes \cup lost /\ lost' = {}
  BY DEF Crash
<1>2. db' \in Images /\ Mixes(db', db, dbDur, Torn)
  <2>1. db \in Seq(Content) /\ dbDur \in Seq(Content) /\ Torn \in Content
    BY FilesAre DEF Images, Content
  <2> QED
    BY <1>1, <2>1, LeftoverMixes DEF Images
<1>3. jrnl' \in Journals /\ LossOf(jrnl', jrnl, jrnlDur, jrnlNew)
  BY <1>1, JournalLost
<1> DEFINE K == outcomes \cup lost
<1>4. K \in SUBSET Images
  BY FilesAre
<1>7. Leaves(db', jrnl', K)
  <2>1. K = outcomes \cup lost
    OBVIOUS
  <2> HIDE DEF K
  <2> QED
    BY <1>2, <1>3, <1>4, <2>1, LossSuspends
<1>8. PICK P \in Images :
         /\ StandsFor(P, K)
         /\ \/ Settles(db', db', jrnl', jrnl', FALSE, FoundIn(db', K, {}), P)
            \/ RollsBack(db', db', jrnl', jrnl', FALSE, P)
  BY <1>7 DEF Leaves
<1>9. Found' = FoundIn(db', K, {})
  BY <1>1 DEF Found, FoundIn
<1>10. (Settled(P) \/ Hot(P))'
  BY <1>1, <1>8, <1>9 DEF Settled, Hot
<1>11. Coherent'
  BY <1>1 DEF Coherent, Cached, EmptyCache
<1>12. PhaseOpen(P)'
  BY <1>1, <1>10, <1>11 DEF PhaseOpen, Between, Idle, NothingDirty
<1> QED
  BY <1>1, <1>8, <1>12 DEF Consistent, Phase

-----------------------------------------------------------------------------
(* Savepoints in the phases.                                               *)

\* No phase is about the savepoints that are open.
LEMMA SamePhase ==
    ASSUME UNCHANGED <<eState, call, journalMode, level, txn, outcomes, lost>>,
           UNCHANGED <<dbSize, dbOrigSize, dbFileSize, cache, dirty, needSync>>,
           UNCHANGED <<inJournal, jfdOpen, journalOff, journalHdr, nRec, cksumInit, left>>,
           UNCHANGED <<subJournal, db, dbDur, jrnl, jrnlDur, jrnlNew>>,
           NEW O, Phase(O)
    PROVE  Phase(O)'
<1> USE DEF Found, Settled, Hot, Suspended, Guarded, Cached, Coherent, Matches, Current, Clean,
     NothingDirty, Between, InTxn, Untouched, OwnJournal, Protects, PagesOf, Writing, Steady, Grown,
     LeftOf, PlaysBack, PlaysHot, Ending, MayShrink, MayWriteDb, HasJournal, Comeback
<1>1. PhaseOpen(O) => PhaseOpen(O)'
  BY SMTT(40) DEF PhaseOpen
<1>2. PhaseReader(O) => PhaseReader(O)'
  BY SMTT(40) DEF PhaseReader
<1>3. PhaseLocked(O) => PhaseLocked(O)'
  BY SMTT(40) DEF PhaseLocked
<1>4. PhaseWrite(O) => PhaseWrite(O)'
  BY SMTT(40) DEF PhaseWrite
<1>5. PhaseFinished(O) => PhaseFinished(O)'
  BY SMTT(40) DEF PhaseFinished
<1>6. PhaseBack(O) => PhaseBack(O)'
  BY SMTT(40) DEF PhaseBack
<1>7. PhaseWriteClose(O) => PhaseWriteClose(O)'
  BY SMTT(40) DEF PhaseWriteClose
<1>8. PhaseHot(O) => PhaseHot(O)'
  BY SMTT(40) DEF PhaseHot
<1>9. PhaseFinalize(O) => PhaseFinalize(O)'
  BY SMTT(40) DEF PhaseFinalize
<1>10. PhaseDecided(O) => PhaseDecided(O)'
  BY SMTT(40) DEF PhaseDecided
<1>11. PhaseError(O) => PhaseError(O)'
  BY SMTT(40) DEF PhaseError
<1> QED
  BY <1>1, <1>2, <1>3, <1>4, <1>5, <1>6, <1>7, <1>8, <1>9, <1>10, <1>11 DEF Phase

LEMMA OpenSavepointStep ==
    ASSUME Consistent, sqlite3PagerOpenSavepoint
    PROVE  Consistent'
<1>1. /\ UNCHANGED <<eState, call, journalMode, level, txn, outcomes, lost>>
      /\ UNCHANGED <<dbSize, dbOrigSize, dbFileSize, cache, dirty, needSync>>
      /\ UNCHANGED <<inJournal, jfdOpen, journalOff, journalHdr, nRec, cksumInit, left>>
      /\ UNCHANGED <<subJournal, db, dbDur, jrnl, jrnlDur, jrnlNew>>
  BY DEF sqlite3PagerOpenSavepoint, settings, sizes, pcache, jstate, dbfile, jfile, bounds, history
<1>2. PICK O \in Images : StandsFor(O, outcomes) /\ Phase(O)
  BY DEF Consistent
<1>3. Phase(O)'
  BY <1>1, <1>2, SamePhase
<1> QED
  BY <1>1, <1>2, <1>3 DEF Consistent

LEMMA ReleaseSavepointStep ==
    ASSUME Types, Types', NEW O \in Images, StandsFor(O, outcomes), Phase(O),
           NEW i, ReleaseSavepoint(i)
    PROVE  Consistent'
<1>1. /\ AtRest /\ eState \in {"WRITER_LOCKED", "WRITER_CACHEMOD", "WRITER_DBMOD"}
      /\ call' = Idle /\ (subJournal' = <<>> \/ subJournal' = subJournal)
      /\ UNCHANGED <<eState, sizes, pcache, jstate, dbfile, jfile, settings, bounds, history>>
  BY DEF ReleaseSavepoint
<1>2. UNCHANGED <<dbSize, dbOrigSize, dbFileSize, cache, dirty, needSync, inJournal, jfdOpen,
                  journalOff, journalHdr, nRec, cksumInit, db, dbDur, jrnl, jrnlDur, jrnlNew,
                  journalMode, level, txn, eState, outcomes, lost>>
  BY <1>1 DEF sizes, pcache, jstate, dbfile, jfile, settings, bounds, history
<1>3. StandsFor(O, outcomes') /\ call'.op = "none" /\ call'.at = "idle" /\ Between("none", {"idle"})'
  BY <1>1, <1>2 DEF Idle, Between
<1>4. CASE eState = "WRITER_LOCKED"
  <2>1. PhaseLocked(O)
    BY <1>1, <1>4, PhaseAtRest
  <2>2. Settled(O)' /\ Current' /\ Untouched' /\ NothingDirty'
    BY <1>2, <2>1 DEF PhaseLocked, Settled, Found, Current, Matches, Cached, Untouched, NothingDirty
  <2>3. PhaseLocked(O)'
    BY <1>2, <1>3, <1>4, <2>1, <2>2 DEF PhaseLocked, Between
  <2> QED
    BY <1>3, <2>3 DEF Consistent, Phase
<1>5. CASE eState \in {"WRITER_CACHEMOD", "WRITER_DBMOD"}
  <2>1. /\ PhaseWrite(O) /\ Steady(O) /\ Grown(O) /\ journalHdr < journalOff
        /\ Uncounted(jrnl, journalHdr)
    BY <1>1, <1>5, WritingAtRest
  <2>2. Protects(O) /\ Writing(O)
    BY <2>1 DEF PhaseWrite
  <2>3. Protects(O)'
    BY <1>1, <1>2, <2>2, SameTransaction
  <2>4. Writing(O)'
    <3>1. OwnJournal(O, journalOff)' /\ PagesOf(O)' /\ MayShrink' = MayShrink
      BY <1>2, <2>2 DEF Writing, OwnJournal, PagesOf, Cached, MayShrink
    <3> QED
      BY <1>2, <2>2, <3>1 DEF Writing, Cached
  <2>5. Steady(O)'
    BY <1>2, <2>1 DEF Steady, Clean, Matches, Cached
  <2>6. Grown(O)'
    <3>1. \A j \in 1 .. Len(<<>>) : FALSE
      OBVIOUS
    <3>2. eState' = "WRITER_CACHEMOD" => \A j \in 1 .. Len(subJournal') : subJournal'[j].pg \in dirty'
      BY <1>1, <1>2, <2>1, <3>1 DEF Grown
    <3> QED
      BY <1>2, <2>1, <3>2 DEF Grown
  <2>7. PhaseWrite(O)'
    BY <1>2, <1>3, <1>5, <2>1, <2>3, <2>4, <2>5, <2>6 DEF PhaseWrite, Between, Steady
  <2> QED
    BY <1>3, <2>7 DEF Consistent, Phase
<1> QED
  BY <1>1, <1>4, <1>5

\* The journal or the sub-journal has the record r of a rollback.
Source(i, r) == FromJournal(i, r) \/ \E j \in 1 .. Len(subJournal) : FromSubJournal(i, r, j)

\* The records that come first in the beginning of a list come first in the list.
LEMMA FirstOfPrefix ==
    ASSUME NEW list \in Seq(ReplayRecord), NEW size \in Nat, NEW k \in 1 .. Len(list)
    PROVE  FirstRecords(SubSeq(list, 1, k - 1), size) \subseteq FirstRecords(list, size)
<1> DEFINE part == SubSeq(list, 1, k - 1)
           First(l, n) == {m \in 1 .. n : l[m].pg <= size /\ \A j \in 1 .. m - 1 : l[j].pg # l[m].pg}
<1>1. /\ part \in Seq(ReplayRecord) /\ Len(part) = k - 1 /\ k \in Nat /\ Len(list) \in Nat
      /\ \A m \in 1 .. k - 1 : part[m] = list[m]
  <2>1. k - 1 \in 0 .. Len(list) /\ 1 <= k /\ Len(list) \in Nat /\ k \in Nat
    OBVIOUS
  <2> HIDE DEF ReplayRecord
  <2> QED
    BY <2>1, SubSeqProperties
<1>2. /\ FirstRecords(part, size) = {part[m] : m \in First(part, k - 1)}
      /\ FirstRecords(list, size) = {list[m] : m \in First(list, Len(list))}
  <2>1. DOMAIN part = 1 .. k - 1 /\ DOMAIN list = 1 .. Len(list)
    BY <1>1
  <2> HIDE DEF part
  <2> QED
    BY <2>1 DEF FirstRecords
<1> HIDE DEF part
<1>3. ASSUME NEW m \in First(part, k - 1)
      PROVE  m \in First(list, Len(list)) /\ part[m] = list[m]
  <2>1. m \in 1 .. k - 1 /\ m \in 1 .. Len(list) /\ \A j \in 1 .. m - 1 : j \in 1 .. k - 1
    BY <1>1
  <2> QED
    BY <1>1, <2>1
<1> HIDE DEF First
<1> QED
  BY <1>2, <1>3 DEF part

\* A rollback to a savepoint sets a size.
LEMMA SizeOfIs ==
    ASSUME Types, Preserving(FALSE), NEW i \in 0 .. Len(savepoint), RollbackSavepoint(i)
    PROVE  i \in Nat /\ SizeOf(i) \in Nat
<1>1. SizeOf(i) \in 0 .. MaxPage
  BY RollbackIs
<1>2. MaxPage \in Nat /\ Len(savepoint) \in Nat
  BY FilesAre DEF Types, TypesOfSavepoints
<1> HIDE DEF SizeOf
<1> QED
  BY ONLY <1>1, <1>2, i \in 0 .. Len(savepoint)

\* A rollback to a savepoint, done or failed, plays records back that the journals
\* have; a write that fails may garble the page of such a record.
LEMMA RollbackPlays ==
    ASSUME Types, Preserving(FALSE), NEW i \in 0 .. Len(savepoint), RollbackSavepoint(i),
           eState \in Modified
    PROVE  \E R \in SUBSET ReplayRecord, torn \in SUBSET Page :
              /\ OneEach(R) /\ Played(R, Staying(i), torn)
              /\ \A r \in R : r.pg <= SizeOf(i) /\ Source(i, r)
              /\ \A p \in torn : \E r \in ReplayRecord : r.pg = p /\ Source(i, r) /\ WritesToDb(r)
              /\ call'.at = "restored" => torn = {}
<1> DEFINE list == Replay(i)
           size == SizeOf(i)
<1>1. AtRest \/ call.at = "failedWrite"
  BY RollbackLeaves
<1>2. Replayable(i) /\ jfdOpen
  BY <1>1, RollbackReplays
<1>3. i \in Nat /\ size \in Nat
  BY SizeOfIs
<1>4. list \in Seq(ReplayRecord)
  BY <1>2, <1>3, ReplayIs
<1>5. \A r \in FirstRecords(list, size) : r \in ReplayRecord /\ r.pg <= size /\ Source(i, r)
  <2> HIDE DEF FromJournal, FromSubJournal, ReplayRecord
  <2> QED
    BY <1>2, <1>3, SourcesAre DEF Source
<1>6. /\ \A r, q \in FirstRecords(list, size) : r.pg = q.pg => r = q
  <2> HIDE DEF ReplayRecord, list, size
  <2> QED
    BY <1>3, <1>4, FirstRecordsAre
<1>7. \/ /\ Played(FirstRecords(list, size), Staying(i), {})
      \/ /\ \E k \in DOMAIN list :
               /\ list[k] \in FirstRecords(list, size) /\ WritesToDb(list[k])
               /\ \E torn \in SUBSET {list[k].pg} :
                     Played(FirstRecords(SubSeq(list, 1, k - 1), size), Staying(i), torn)
         /\ call' = [Idle EXCEPT !.at = "failed"]
  <2>1. Playback(i) = list
    BY <1>2 DEF Playback, Modified
  <2> HIDE DEF Played, Replay, FirstRecords, WritesToDb
  <2> QED
    BY <1>2 DEF RollbackSavepoint, SizeOf, Staying, Modified
<1> HIDE DEF list, size
<1>8. CASE Played(FirstRecords(list, size), Staying(i), {})
  <2> PICK R : R = FirstRecords(list, size)
    OBVIOUS
  <2>1. R \in SUBSET ReplayRecord /\ OneEach(R) /\ {} \in SUBSET Page
    BY <1>5, <1>6 DEF OneEach
  <2>2. Played(R, Staying(i), {}) /\ \A r \in R : r.pg <= SizeOf(i) /\ Source(i, r)
    BY <1>5, <1>8 DEF size
  <2> HIDE DEF Played, Staying, SizeOf, ReplayRecord, Page, OneEach, Source
  <2> QED
    BY <2>1, <2>2
<1>9. ASSUME NEW k \in DOMAIN list, list[k] \in FirstRecords(list, size), WritesToDb(list[k]),
             NEW torn \in SUBSET {list[k].pg},
             Played(FirstRecords(SubSeq(list, 1, k - 1), size), Staying(i), torn),
             call' = [Idle EXCEPT !.at = "failed"]
      PROVE  \E R \in SUBSET ReplayRecord, t \in SUBSET Page :
              /\ OneEach(R) /\ Played(R, Staying(i), t)
              /\ \A r \in R : r.pg <= SizeOf(i) /\ Source(i, r)
              /\ \A p \in t : \E r \in ReplayRecord : r.pg = p /\ Source(i, r) /\ WritesToDb(r)
              /\ call'.at = "restored" => t = {}
  <2> PICK R : R = FirstRecords(SubSeq(list, 1, k - 1), size)
    OBVIOUS
  <2>1. R \subseteq FirstRecords(list, size)
    <3>1. k \in 1 .. Len(list)
      BY <1>4, <1>9
    <3> HIDE DEF ReplayRecord
    <3> QED
      BY <1>3, <1>4, <3>1, FirstOfPrefix
  <2>2. R \in SUBSET ReplayRecord /\ OneEach(R) /\ \A r \in R : r.pg <= SizeOf(i) /\ Source(i, r)
    BY <1>5, <1>6, <2>1 DEF OneEach, size
  <2> PICK r : r = list[k]
    OBVIOUS
  <2>3. r \in ReplayRecord /\ Source(i, r) /\ WritesToDb(r) /\ torn \subseteq {r.pg}
    BY <1>5, <1>9
  <2>4. torn \in SUBSET Page /\ \A p \in torn : r.pg = p
    <3>1. r.pg \in Page
      BY <2>3 DEF ReplayRecord
    <3> QED
      BY <2>3, <3>1
  <2>5. call'.at = "failed"
    BY <1>9, CallIsAt
  <2>6. Played(R, Staying(i), torn)
    BY <1>9
  <2> HIDE DEF Played, Staying, SizeOf, ReplayRecord, Page, OneEach, Source, WritesToDb
  <2> QED
    BY <2>2, <2>3, <2>4, <2>5, <2>6
<1> QED
  BY ONLY <1>7, <1>8, <1>9

\* A record that is written to the file is in the synced part of the journal, or the
\* page that the sub-journal has is, if the original has it.
LEMMA WrittenIsRecorded ==
    ASSUME Types, Preserving(FALSE), NEW i \in 0 .. Len(savepoint),
           AtRest \/ call.at = "failedWrite", eState \in Modified, NEW O \in Images, Writing(O),
           NEW r \in ReplayRecord, Source(i, r)
    PROVE  /\ r.pg \in 1 .. Len(O) => r.pg \in inJournal
           /\ r.pg \in 1 .. Len(O) /\ WritesToDb(r) => Recorded(jrnl, 0, journalHdr, r.pg)
<1>1. PICK B \in Images : Keeping(B)
  BY RestsAt DEF Changing, Modified
<1>2. /\ \A p \in needSync : cache[p] # NotCached
      /\ \A x \in 1 .. journalOff : jrnl[x].kind = "rec" => jrnl[x].pg \in inJournal
      /\ \A j \in 1 .. Len(subJournal) : subJournal[j].pg \in inJournal \/ subJournal[j].pg > dbOrigSize
      /\ Nested(savepoint, dbOrigSize, dbSize, Len(subJournal))
  BY <1>1 DEF Keeping, Modified, PagesLogged
<1>3. Start(i) \in Nat /\ 1 <= Start(i) /\ Skip(i) \in Nat
  BY <1>2, StayingAre
<1>4. journalHdr \in Nat /\ journalOff \in Nat /\ Len(subJournal) \in Nat /\ dbOrigSize \in Nat
  BY <1>2, FilesAre, NestedIs, ContentsAre
<1>5. /\ PagesOf(O) /\ Len(O) = dbOrigSize
  BY DEF Writing, OwnJournal
<1>6. CASE FromJournal(i, r)
  <2>1. /\ r.main /\ r.pos \in 1 .. journalOff /\ jrnl[r.pos].kind = "rec" /\ jrnl[r.pos].pg = r.pg
    BY <1>3, <1>4, <1>6 DEF FromJournal
  <2>2. r.pg \in inJournal
    BY <1>2, <2>1
  <2>3. ASSUME WritesToDb(r) PROVE Recorded(jrnl, 0, journalHdr, r.pg)
    <3>1. r.pos \in 0 + 1 .. journalHdr
      BY <1>4, <2>1, <2>3 DEF WritesToDb, isSynced
    <3> QED
      BY <2>1, <3>1 DEF Recorded
  <2> QED
    BY <2>2, <2>3
<1>7. CASE \E j \in 1 .. Len(subJournal) : FromSubJournal(i, r, j)
  <2>1. PICK j \in 1 .. Len(subJournal) : ~r.main /\ subJournal[j].pg = r.pg
    BY <1>7 DEF FromSubJournal
  <2>2. ASSUME r.pg \in 1 .. Len(O) PROVE r.pg \in inJournal
    BY <1>2, <1>4, <1>5, <2>1, <2>2
  <2>3. ASSUME r.pg \in 1 .. Len(O), WritesToDb(r) PROVE Recorded(jrnl, 0, journalHdr, r.pg)
    <3>1. r.pg \notin needSync
      BY <1>2, <2>1, <2>3 DEF WritesToDb
    <3> QED
      BY <1>5, <2>2, <2>3, <3>1 DEF PagesOf
  <2> QED
    BY <2>2, <2>3
<1> QED
  BY <1>6, <1>7 DEF Source

\* A record that is not written to the file is that of a dirty page.
LEMMA UnwrittenIsDirty ==
    ASSUME Types, Preserving(FALSE), NEW i \in 0 .. Len(savepoint),
           AtRest \/ call.at = "failedWrite", eState \in Modified, NEW O, Grown(O),
           NEW r \in ReplayRecord, Source(i, r), ~WritesToDb(r)
    PROVE  r.pg \in dirty
<1>1. PICK B \in Images : Keeping(B)
  BY RestsAt DEF Changing, Modified
<1>2. /\ \A x \in journalHdr + 2 .. journalOff : jrnl[x].pg \in needSync
      /\ eState = "WRITER_CACHEMOD" => journalHdr = 0
      /\ Nested(savepoint, dbOrigSize, dbSize, Len(subJournal))
  BY <1>1 DEF Keeping, Modified, PagesLogged
<1>3. LaidOut(jrnl, journalOff, journalHdr) /\ journalHdr \in Nat /\ journalOff \in Nat
  BY RestsAt, FilesAre
<1>4. jrnl[journalHdr + 1].kind = "hdr" /\ Start(i) \in Nat /\ 1 <= Start(i)
  BY <1>2, <1>3, StayingAre DEF LaidOut
<1>5. needSync \subseteq dirty
  BY DEF Grown
<1>6. CASE FromJournal(i, r)
  <2>1. /\ r.main /\ r.pos \in Start(i) + 1 .. journalOff
        /\ jrnl[r.pos].kind = "rec" /\ jrnl[r.pos].pg = r.pg
    BY <1>6 DEF FromJournal
  <2>2. ~(r.pos <= journalHdr)
    <3>1. CASE eState = "WRITER_CACHEMOD"
      <4>1. r.pos \in Nat /\ r.pos >= 2 /\ journalHdr = 0
        BY <1>2, <1>3, <1>4, <2>1, <3>1
      <4> QED
        BY <4>1
    <3>2. CASE eState = "WRITER_DBMOD"
      BY <2>1, <3>2 DEF WritesToDb, MayWriteDb, isSynced
    <3> QED
      BY <3>1, <3>2 DEF Modified
  <2>3. r.pos # journalHdr + 1
    BY <1>4, <2>1
  <2>4. r.pos \in journalHdr + 2 .. journalOff
    BY <1>3, <1>4, <2>1, <2>2, <2>3
  <2> QED
    BY <1>2, <1>5, <2>1, <2>4
<1>7. CASE \E j \in 1 .. Len(subJournal) : FromSubJournal(i, r, j)
  <2>1. PICK j \in 1 .. Len(subJournal) : ~r.main /\ subJournal[j].pg = r.pg
    BY <1>7 DEF FromSubJournal
  <2>2. CASE eState = "WRITER_CACHEMOD"
    BY <2>1, <2>2 DEF Grown
  <2>3. CASE eState = "WRITER_DBMOD"
    BY <1>5, <2>1, <2>3 DEF WritesToDb, MayWriteDb
  <2> QED
    BY <2>2, <2>3 DEF Modified
<1> QED
  BY <1>6, <1>7 DEF Source

\* The files and the cache after a rollback to a savepoint.
LEMMA RollbackLeavesPages ==
    ASSUME Types, Preserving(FALSE), NEW i \in 0 .. Len(savepoint), RollbackSavepoint(i),
           eState \in Modified, NEW O \in Images, Writing(O)
    PROVE  \E S \in SUBSET Page, P \in SUBSET Page :
              /\ db' \in Images /\ Len(db) <= Len(db')
              /\ \A q \in 1 .. Len(db) : q \notin S => db'[q] = db[q]
              /\ \A q \in 1 .. Len(O) : q \in S => Recorded(jrnl, 0, journalHdr, q)
              /\ \A q \in 1 .. Len(O) : q \in S \cup P => q \in inJournal
              /\ \A q \in Page : q \notin P => cache'[q] = cache[q]
              /\ \A q \in Page : Cached(q)' <=> Cached(q)
              /\ dirty' = dirty /\ inJournal' = inJournal
              /\ ~MayWriteDb => db' = db
              /\ call'.at = "restored" /\ Clean /\ Grown(O) /\ dbSize' <= dbSize => Clean'
<1>1. AtRest \/ call.at = "failedWrite"
  BY RollbackLeaves
<1>2. PICK R \in SUBSET ReplayRecord, torn \in SUBSET Page :
              /\ OneEach(R) /\ Played(R, Staying(i), torn)
              /\ \A r \in R : r.pg <= SizeOf(i) /\ Source(i, r)
              /\ \A p \in torn : \E r \in ReplayRecord : r.pg = p /\ Source(i, r) /\ WritesToDb(r)
              /\ call'.at = "restored" => torn = {}
  <2> HIDE DEF Played, Staying, SizeOf, ReplayRecord, Page, OneEach, Source, WritesToDb
  <2> QED
    BY RollbackPlays
<1>3. Staying(i) \in Seq(Savepoint)
  BY RollbackIs
<1> PICK W : W = Overwritten(R)
  OBVIOUS
<1> PICK P : P = PagesIn(R)
  OBVIOUS
<1>4. \A r \in R : cache[r.pg] = NotCached => WritesToDb(r)
  <2> SUFFICES ASSUME NEW r \in R, cache[r.pg] = NotCached PROVE WritesToDb(r)
    OBVIOUS
  <2>1. r \in ReplayRecord /\ (FromJournal(i, r) \/ \E j \in 1 .. Len(subJournal) : FromSubJournal(i, r, j))
    BY <1>2 DEF Source
  <2> HIDE DEF WritesToDb, FromJournal, FromSubJournal, ReplayRecord
  <2> QED
    BY <1>1, <2>1, UncachedAreWritten
<1>5. Added(R) = {}
  BY <1>4 DEF Added
<1>6. /\ db' \in Images /\ Len(db) <= Len(db')
      /\ \A p \in W \cup torn : p <= Len(db')
      /\ \A p \in 1 .. Len(db') :
            db'[p] = IF p \in torn THEN Torn
                     ELSE IF p \in W THEN RecordOf(R, p).val
                     ELSE IF p <= Len(db) THEN db[p] ELSE 0
      /\ cache' \in [Page -> Content \cup {NotCached}]
      /\ \A p \in Page :
            cache'[p] = IF p \in P /\ cache[p] # NotCached THEN RecordOf(R, p).val ELSE cache[p]
      /\ dirty' = dirty /\ inJournal' = inJournal
  <2>1. /\ db' \in Images /\ Len(db) <= Len(db')
        /\ \A p \in Overwritten(R) \cup torn : p <= Len(db')
        /\ \A p \in 1 .. Len(db') :
              db'[p] = IF p \in torn THEN Torn
                       ELSE IF p \in Overwritten(R) THEN RecordOf(R, p).val
                       ELSE IF p <= Len(db) THEN db[p] ELSE 0
        /\ cache' \in [Page -> Content \cup {NotCached}]
        /\ \A p \in Page :
              cache'[p] = IF p \in PagesIn(R) /\ (cache[p] # NotCached \/ p \in Added(R))
                          THEN RecordOf(R, p).val ELSE cache[p]
        /\ dirty' = dirty \cup Added(R)
        /\ inJournal' = inJournal \cup {p \in Added(R) : p <= dbOrigSize}
    BY <1>2, <1>3, PlayedIs
  <2> QED
    BY <1>5, <2>1
<1>7. /\ P \subseteq Page /\ W \subseteq P
      /\ \A p \in P : RecordOf(R, p) \in R /\ RecordOf(R, p).pg = p
      /\ \A r \in R : r.pg \in P
  BY <1>2, RecordsAre
<1>8. \A p \in P : RecordOf(R, p).val \in Content /\ RecordOf(R, p).val # NotCached
  <2> SUFFICES ASSUME NEW r \in ReplayRecord PROVE r.val \in Content /\ r.val # NotCached
    BY <1>7
  <2>1. r.pg \in Page /\ r.val \in Content
    BY DEF ReplayRecord
  <2>2. NotCached \notin Content
    BY <2>1, PageContentIs
  <2> QED
    BY <2>1, <2>2
<1>9. \A q \in 1 .. Len(O) : q \in W \cup torn => Recorded(jrnl, 0, journalHdr, q)
  <2> SUFFICES ASSUME NEW q \in 1 .. Len(O), q \in W \cup torn PROVE Recorded(jrnl, 0, journalHdr, q)
    OBVIOUS
  <2>1. PICK r \in ReplayRecord : r.pg = q /\ Source(i, r) /\ WritesToDb(r)
    <3>1. CASE q \in torn
      BY <1>2, <3>1
    <3>2. CASE q \in W
      BY <1>2, <3>2 DEF Overwritten
    <3> QED
      BY <3>1, <3>2
  <2> HIDE DEF WritesToDb, Source, ReplayRecord
  <2> QED
    BY <1>1, <2>1, WrittenIsRecorded
<1>10. \A q \in 1 .. Len(O) : q \in W \cup torn \cup P => q \in inJournal
  <2> SUFFICES ASSUME NEW q \in 1 .. Len(O), q \in W \cup torn \cup P PROVE q \in inJournal
    OBVIOUS
  <2>1. PICK r \in ReplayRecord : r.pg = q /\ Source(i, r)
    <3>1. CASE q \in torn
      BY <1>2, <3>1
    <3>2. CASE q \in P
      BY <1>2, <1>7, <3>2
    <3> QED
      BY <1>7, <3>1, <3>2
  <2> HIDE DEF WritesToDb, Source, ReplayRecord
  <2> QED
    BY <1>1, <2>1, WrittenIsRecorded
<1>11. /\ Len(db) \in Nat /\ Len(db') \in Nat /\ db \in Images
  BY <1>6, FilesAre DEF Images
<1>12. \A q \in 1 .. Len(db) : q \notin W \cup torn => db'[q] = db[q]
  BY <1>6, <1>11
<1>13. \A q \in Page : q \notin P => cache'[q] = cache[q]
  BY <1>6
<1>14. \A q \in Page : Cached(q)' <=> Cached(q)
  BY <1>6, <1>8 DEF Cached
<1>15. ASSUME ~MayWriteDb PROVE db' = db
  <2>1. W = {} /\ torn = {}
    BY <1>2, <1>15 DEF WritesToDb, Overwritten
  <2>2. db' = [p \in 1 .. Larger(Len(db), LastPage({})) |-> IF p <= Len(db) THEN db[p] ELSE 0]
    <3>1. W = {r.pg : r \in {q \in R : WritesToDb(q)}}
      BY DEF Overwritten
    <3> HIDE DEF WritesToDb
    <3>2. db' = [p \in 1 .. Larger(Len(db), LastPage(W \cup torn)) |->
                    IF p \in torn THEN Torn
                    ELSE IF p \in W THEN (CHOOSE r \in R : r.pg = p).val
                    ELSE IF p <= Len(db) THEN db[p] ELSE 0]
      BY <1>2, <3>1 DEF Played
    <3> QED
      BY <2>1, <3>2
  <2>3. Larger(Len(db), LastPage({})) = Len(db)
    BY <1>11 DEF Larger, LastPage
  <2>4. db = [p \in 1 .. Len(db) |-> db[p]]
    BY <1>11 DEF Images
  <2> QED
    BY <2>2, <2>3, <2>4
<1>16. ASSUME call'.at = "restored", Clean, Grown(O), dbSize' <= dbSize PROVE Clean'
  <2>1. torn = {} /\ dbSize \in Nat /\ dbSize' \in Nat
    <3>1. dbSize' = SizeOf(i) /\ SizeOf(i) \in Nat
      BY RollbackLeaves, SizeOfIs
    <3> QED
      BY <1>2, <1>16, <3>1, ContentsAre
  <2>2. ASSUME NEW p \in (1 .. dbSize') \ dirty PROVE p <= Len(db') /\ (Cached(p)' => cache'[p] = db'[p])
    <3>1. p \in (1 .. dbSize) \ dirty /\ p \in Page /\ p \in Nat \ {0}
      BY <1>16, <2>1, ContentsAre
    <3>2. p <= Len(db) /\ (Cached(p) => cache[p] = db[p])
      BY <1>16, <3>1 DEF Clean, Matches
    <3>3. p <= Len(db') /\ p \in 1 .. Len(db) /\ p \in 1 .. Len(db')
      BY <1>6, <1>11, <3>1, <3>2
    <3>4. CASE p \in P
      <4>1. RecordOf(R, p) \in R /\ RecordOf(R, p).pg = p
        BY <1>7, <3>4
      <4>2. RecordOf(R, p) \in ReplayRecord /\ Source(i, RecordOf(R, p))
        BY <1>2, <4>1
      <4>3. WritesToDb(RecordOf(R, p))
        <5> HIDE DEF WritesToDb, Source, ReplayRecord, RecordOf
        <5> QED
          BY <1>1, <1>16, <3>1, <4>1, <4>2, UnwrittenIsDirty
      <4>4. p \in W
        BY <4>1, <4>3 DEF Overwritten
      <4>5. db'[p] = RecordOf(R, p).val
        BY <1>6, <2>1, <3>3, <4>4
      <4> QED
        BY <1>6, <1>14, <3>1, <3>3, <3>4, <4>5 DEF Cached
    <3>5. CASE p \notin P
      BY <1>7, <1>12, <1>13, <1>14, <2>1, <3>1, <3>2, <3>3, <3>5
    <3> QED
      BY <3>4, <3>5
  <2> QED
    BY <1>6, <2>2 DEF Clean, Matches
<1> PICK S : S = W \cup torn
  OBVIOUS
<1>17. S \in SUBSET Page /\ P \in SUBSET Page
  BY <1>7
<1>18. /\ \A q \in 1 .. Len(db) : q \notin S => db'[q] = db[q]
       /\ \A q \in 1 .. Len(O) : q \in S => Recorded(jrnl, 0, journalHdr, q)
       /\ \A q \in 1 .. Len(O) : q \in S \cup P => q \in inJournal
  BY <1>9, <1>10, <1>12
<1>19. /\ db' \in Images /\ Len(db) <= Len(db')
       /\ dirty' = dirty /\ inJournal' = inJournal
  BY <1>6
<1> HIDE DEF Cached, Clean, Recorded, Page, Images, Grown, MayWriteDb
<1> QED
  BY ONLY <1>13, <1>14, <1>15, <1>16, <1>17, <1>18, <1>19

\* A rollback to a savepoint in which a page was changed keeps what protects the
\* transaction; an error in it leaves the rest to the rollback of the transaction.
LEMMA RollbackWritingStep ==
    ASSUME Types, Types', Preserving(FALSE), NEW O \in Images, StandsFor(O, outcomes), Phase(O),
           NEW i \in 0 .. Len(savepoint), RollbackSavepoint(i), eState \in Modified,
           call.at = "failedWrite" /\ call'.at = "restored" => DirtyLogged'
    PROVE  Consistent'
<1>1. /\ AtRest \/ call.at = "failedWrite"
      /\ dbSize' = SizeOf(i)
      /\ call' \in {[Idle EXCEPT !.at = "restored"], [Idle EXCEPT !.at = "failed"]}
      /\ UNCHANGED <<eState, dbOrigSize, needSync, jfdOpen, journalOff, journalHdr, nRec, cksumInit,
                     left, subJournal, dbDur, jrnl, jrnlDur, jrnlNew, journalMode, level, txn, outcomes, lost>>
  BY RollbackLeaves DEF jfile, settings, history
<1>2. call.op = "none" /\ call.at \in Returned
  BY <1>1, RestsAt
<1>3. /\ PhaseWrite(O) /\ Clean /\ Grown(O) /\ journalHdr < journalOff
      /\ call.at # "failedWrite" => Steady(O)
      /\ Uncounted(jrnl, journalHdr)
  <2>1. PhaseWrite(O)
    <3>1. CASE AtRest
      BY <3>1, WritingAtRest DEF Modified
    <3>2. CASE call.at = "failedWrite"
      <4>1. ~PhaseLocked(O)
        BY DEF PhaseLocked, Modified
      <4> QED
        BY <3>2, <4>1, PhaseInCall
    <3> QED
      BY <1>1, <3>1, <3>2
  <2> QED
    BY <1>2, <2>1 DEF PhaseWrite, Between, Returned
<1>4. Protects(O) /\ Writing(O)
  BY <1>3 DEF PhaseWrite
<1>5. Len(O) = dbOrigSize /\ Len(O) \in Nat /\ Len(O) > 0
  BY <1>4 DEF Writing, OwnJournal, StandsFor, Images
<1>6. SizeOf(i) \in Nat /\ SizeOf(i) <= dbSize /\ dbOrigSize <= SizeOf(i)
  <2>1. PICK B \in Images : Keeping(B)
    BY <1>1, RestsAt DEF Changing, Modified
  <2>2. Nested(savepoint, dbOrigSize, dbSize, Len(subJournal))
    BY <2>1 DEF Keeping
  <2> QED
    BY <2>2, StayingAre
<1>7. PICK S \in SUBSET Page, P \in SUBSET Page :
              /\ db' \in Images /\ Len(db) <= Len(db')
              /\ \A q \in 1 .. Len(db) : q \notin S => db'[q] = db[q]
              /\ \A q \in 1 .. Len(O) : q \in S => Recorded(jrnl, 0, journalHdr, q)
              /\ \A q \in 1 .. Len(O) : q \in S \cup P => q \in inJournal
              /\ \A q \in Page : q \notin P => cache'[q] = cache[q]
              /\ \A q \in Page : Cached(q)' <=> Cached(q)
              /\ dirty' = dirty /\ inJournal' = inJournal
              /\ ~MayWriteDb => db' = db
              /\ call'.at = "restored" /\ Clean /\ Grown(O) /\ dbSize' <= dbSize => Clean'
  BY <1>4, RollbackLeavesPages
<1>8. db \in Images /\ Len(db) \in Nat /\ Len(db') \in Nat
  BY <1>7, FilesAre DEF Images
<1>9. Guarded(O)' /\ \A q \in 1 .. Len(O) : q \notin S /\ Durably(db, dbDur, O, q) => Durably(db', dbDur, O, q)
  <2>1. CASE MayWriteDb
    <3>1. eState = "WRITER_DBMOD" /\ journalHdr > 0 /\ Guarded(O)
      BY <1>4, <2>1 DEF Protects, MayWriteDb, Modified
    <3>2. \A q \in 1 .. Len(db) : q <= Len(db') /\ (q \notin S => db'[q] = db[q])
      BY <1>7, <1>8
    <3> PICK e : e = db'
      OBVIOUS
    <3>3. /\ e \in Images /\ \A q \in 1 .. Len(db) : q <= Len(e) /\ (q \notin S => e[q] = db[q])
          /\ \A q \in 1 .. Len(O) : q \in S => Recorded(jrnl, 0, journalHdr, q)
          /\ Guards(db, dbDur, jrnl, jrnlDur, jrnlNew, Found, O, txn, journalHdr)
      BY <1>7, <3>1, <3>2 DEF Guarded
    <3>4. /\ \A J : Guards(e, dbDur, jrnl, jrnlDur, jrnlNew, J, O, txn, journalHdr)
          /\ \A q \in 1 .. Len(O) : q \notin S /\ Durably(db, dbDur, O, q) => Durably(e, dbDur, O, q)
      BY ONLY Types, O \in Images, <1>5, <3>1, <3>3, PagesWritten
    <3>5. Guards(e, dbDur, jrnl, jrnlDur, jrnlNew, Found', O, txn, journalHdr)
      BY ONLY <3>4
    <3> QED
      BY <1>1, <3>4, <3>5 DEF Guarded
  <2>2. CASE ~MayWriteDb
    <3>1. db' = db /\ Found' = Found
      BY <1>1, <1>7, <2>2 DEF Found
    <3> QED
      BY <1>1, <1>4, <3>1 DEF Protects, Guarded
  <2> QED
    BY <2>1, <2>2
<1>10. Protects(O)'
  BY <1>1, <1>4, <1>9 DEF Protects
<1>11. Writing(O)'
  <2>1. OwnJournal(O, journalOff)'
    BY <1>1, <1>4 DEF Writing, OwnJournal
  <2>2. PagesOf(O)'
    <3>1. ASSUME NEW q \in 1 .. Len(O), q \notin inJournal
          PROVE  Durably(db', dbDur, O, q) /\ (Cached(q)' => cache'[q] = O[q])
      <4>1. Durably(db, dbDur, O, q) /\ (Cached(q) => cache[q] = O[q]) /\ q \notin S /\ q \notin P
        BY <1>4, <1>7, <3>1 DEF Writing, PagesOf
      <4>2. q \in Page
        <5>1. dbOrigSize \in 0 .. MaxPage /\ MaxPage \in Nat
          BY PagerAssumption DEF Types, TypesOfCache
        <5> QED
          BY ONLY <1>5, <3>1, <5>1 DEF Page
      <4> QED
        BY <1>7, <1>9, <4>1, <4>2
    <3> QED
      BY <1>1, <1>4, <1>7, <3>1 DEF Writing, PagesOf
  <2>3. \A p \in dirty' : Cached(p)'
    <3>1. dirty \subseteq Page
      BY DEF Types, TypesOfCache
    <3> QED
      BY <1>4, <1>7, <3>1 DEF Writing
  <2>4. Len(O) <= dbSize'
    BY <1>1, <1>5, <1>6
  <2> QED
    BY <1>1, <1>4, <2>1, <2>2, <2>3, <2>4 DEF Writing
<1>12. eState' \in {"WRITER_CACHEMOD", "WRITER_DBMOD"} /\ StandsFor(O, outcomes')
  BY <1>1 DEF Modified
<1>13. CASE call' = [Idle EXCEPT !.at = "failed"]
  <2>1. call'.op = "none" /\ call'.at = "failed"
    BY <1>13, CallIsAt
  <2>2. PhaseWrite(O)'
    BY <1>10, <1>11, <1>12, <2>1 DEF PhaseWrite, Between
  <2> QED
    BY <1>12, <2>2 DEF Consistent, Phase
<1>14. CASE call' = [Idle EXCEPT !.at = "restored"]
  <2>1. call'.op = "none" /\ call'.at = "restored"
    BY <1>14, CallIsAt
  <2>2. Clean'
    BY <1>1, <1>3, <1>6, <1>7, <2>1
  <2>3. Grown(O)'
    BY <1>1, <1>3, <1>5, <1>6, <1>7 DEF Grown
  <2>4. Steady(O)'
    <3>1. \A p \in dirty' : p <= Len(O) => p \in inJournal'
      <4>1. CASE call.at = "failedWrite"
        BY <1>1, <1>5, <2>1, <4>1 DEF DirtyLogged
      <4>2. CASE call.at # "failedWrite"
        BY <1>3, <1>7, <4>2 DEF Steady
      <4> QED
        BY <4>1, <4>2
    <3> QED
      BY <2>2, <3>1 DEF Steady
  <2>5. PhaseWrite(O)'
    <3>1. Between("none", {"idle", "restored", "failedWrite"})'
      BY <2>1 DEF Between
    <3> QED
      BY <1>1, <1>3, <1>10, <1>11, <1>12, <2>1, <2>2, <2>3, <2>4, <3>1 DEF PhaseWrite
  <2> QED
    BY <1>12, <2>5 DEF Consistent, Phase
<1> QED
  BY <1>1, <1>13, <1>14

\* ... and one before anything was changed leaves everything as it is.
LEMMA RollbackSavepointStep ==
    ASSUME Types, Types', Preserving(FALSE), NEW O \in Images, StandsFor(O, outcomes), Phase(O),
           NEW i \in 0 .. Len(savepoint), RollbackSavepoint(i),
           call.at = "failedWrite" /\ call'.at = "restored" => DirtyLogged'
    PROVE  Consistent'
<1>1. /\ AtRest \/ call.at = "failedWrite"
      /\ eState \in Changing
      /\ dbSize' = SizeOf(i)
      /\ UNCHANGED <<eState, dbOrigSize, needSync, jfdOpen, journalOff, journalHdr, nRec, cksumInit,
                     left, subJournal, dbDur, jrnl, jrnlDur, jrnlNew, journalMode, level, txn, outcomes, lost>>
  BY RollbackLeaves DEF jfile, settings, history
<1>2. CASE eState \in Modified
  BY <1>2, RollbackWritingStep
<1>3. CASE eState = "WRITER_LOCKED"
  <2>1. PhaseLocked(O)
    <3>1. CASE AtRest
      BY <1>3, <3>1, PhaseAtRest
    <3>2. CASE call.at = "failedWrite"
      <4>1. ~PhaseWrite(O)
        BY <1>3 DEF PhaseWrite
      <4> QED
        BY <3>2, <4>1, PhaseInCall
    <3> QED
      BY <1>1, <3>1, <3>2
  <2>2. Playback(i) = <<>> /\ DOMAIN Playback(i) = {}
    BY <1>3 DEF Playback
  <2>3. Played(FirstRecords(Playback(i), SizeOf(i)), Staying(i), {}) /\ call' = [Idle EXCEPT !.at = "restored"]
    <3>1. \/ /\ Played(FirstRecords(Playback(i), SizeOf(i)), Staying(i), {})
             /\ call' = [Idle EXCEPT !.at = "restored"]
          \/ \E k \in DOMAIN Playback(i) : TRUE
      BY DEF RollbackSavepoint, Playback, SizeOf, Staying
    <3> QED
      BY <2>2, <3>1
  <2>4. FirstRecords(Playback(i), SizeOf(i)) = {}
    BY <2>2 DEF FirstRecords
  <2>5. Played({}, Staying(i), {})
    BY <2>3, <2>4
  <2>6. db \in Images /\ Len(db) \in Nat /\ dbFileSize \in Nat /\ cache \in [Page -> Content \cup {NotCached}]
    BY FilesAre DEF Images, Types, TypesOfCache
  <2>7. /\ db' = [p \in 1 .. Larger(Len(db), LastPage({})) |-> IF p <= Len(db) THEN db[p] ELSE 0]
        /\ dbFileSize' = Larger(dbFileSize, LastPage({}))
        /\ cache' = [p \in Page |-> cache[p]]
        /\ dirty' = dirty \cup {} /\ inJournal' = inJournal \cup {}
    <3>1. PICK E : E = {}
      OBVIOUS
    <3>2. /\ {r.pg : r \in E} = E /\ {r.pg : r \in {q \in E : WritesToDb(q)}} = E
          /\ {r.pg : r \in {q \in E : ~q.main /\ ~WritesToDb(q) /\ cache[q.pg] = NotCached}} = E
          /\ {p \in E : p <= dbOrigSize} = E /\ E \cup E = E
      BY <3>1
    <3>3. Played(E, Staying(i), E)
      BY <2>5, <3>1
    <3> QED
      BY <3>1, <3>2, <3>3 DEF Played
  <2>8. LastPage({}) = 0 /\ Larger(Len(db), 0) = Len(db) /\ Larger(dbFileSize, 0) = dbFileSize
    BY <2>6 DEF LastPage, Larger
  <2>9. db' = db /\ dbFileSize' = dbFileSize /\ cache' = cache /\ dirty' = dirty /\ inJournal' = inJournal
    <3>1. db = [p \in 1 .. Len(db) |-> db[p]] /\ cache = [p \in Page |-> cache[p]]
      BY <2>6 DEF Images
    <3> QED
      BY <2>7, <2>8, <3>1
  <2>10. dbSize' = dbSize
    <3>1. PICK B \in Images : Keeping(B)
      BY <1>1, RestsAt
    <3>2. Nested(savepoint, dbOrigSize, dbSize, Len(subJournal))
      BY <3>1 DEF Keeping
    <3>3. SizeOf(i) \in Nat /\ SizeOf(i) <= dbSize /\ dbOrigSize <= SizeOf(i) /\ dbSize \in Nat
      BY <3>2, StayingAre, ContentsAre
    <3> QED
      BY <1>1, <2>1, <3>3 DEF PhaseLocked
  <2>11. Between("none", {"idle", "restored", "failedWrite"})'
    BY <2>3, CallIsAt DEF Between
  <2>12. Settled(O)' /\ Current' /\ Untouched' /\ NothingDirty'
    BY <1>1, <2>1, <2>9, <2>10 DEF PhaseLocked, Settled, Found, Current, Matches, Cached, Untouched, NothingDirty
  <2>13. PhaseLocked(O)'
    BY <1>1, <1>3, <2>1, <2>9, <2>10, <2>11, <2>12 DEF PhaseLocked
  <2> QED
    BY <1>1, <2>13 DEF Consistent, Phase
<1> QED
  BY <1>1, <1>2, <1>3 DEF Changing, Modified

-----------------------------------------------------------------------------
(* The invariant holds.                                                    *)

LEMMA ContinueStep ==
    ASSUME Protected, Types, Types', NEW O \in Images, StandsFor(O, outcomes), Phase(O), Continue
    PROVE  Consistent'
<1>1. /\ ~AlignedEnd /\ "NORMAL" \notin Levels /\ FinalizeFails \subseteq {"DELETE"}
      /\ AutoVacuum # "always"
  BY DEF Protected
<1>2. CASE pagerSyncHotJournal
  BY <1>2, SyncHotStep
<1>3. CASE PlaybackHeader \/ PlaybackRecord
  BY <1>1, <1>3, PlaybackStep
<1>4. CASE PlaybackSync
  BY <1>4, PlaybackSyncStep
<1>5. CASE FinalizeJournal
  BY <1>1, <1>5, FinalizeStep
<1>6. CASE SyncFinalized
  BY <1>1, <1>6, SyncFinalizedStep
<1>7. CASE TruncateAfterCommit
  BY <1>7, TruncateAfterCommitStep
<1>8. CASE SyncJournalRecords
  BY <1>1, <1>8, SyncRecordsStep
<1>9. CASE SyncJournalCount
  BY <1>9, SyncCountStep
<1>10. CASE SyncJournalHeader
  BY <1>10, SyncHeaderStep
<1>11. CASE StressWrite
  BY <1>11, StressWriteStep
<1>12. CASE CommitWriteList
  BY <1>12, CommitWriteListStep
<1>13. CASE CommitSync
  BY <1>13, CommitSyncStep
<1> QED
  BY <1>2, <1>3, <1>4, <1>5, <1>6, <1>7, <1>8, <1>9, <1>10, <1>11, <1>12, <1>13 DEF Continue

LEMMA ConsistentKept ==
    ASSUME Protected, Types, Types', Preserving(FALSE), Consistent, Next,
           MaxSavepoint > 0 /\ call.at = "failedWrite" /\ call'.at = "restored" => DirtyLogged'
    PROVE  Consistent'
<1>1. PICK O \in Images : StandsFor(O, outcomes) /\ Phase(O)
  BY DEF Consistent
<1>2. CASE sqlite3PagerOpenSavepoint
  BY <1>2, OpenSavepointStep
<1>3. CASE sqlite3PagerSharedLock
  BY <1>1, <1>3, SharedLockStep
<1>4. CASE pagerUnlockIfUnused
  BY <1>1, <1>4, UnlockStep
<1>5. CASE sqlite3PagerBegin
  BY <1>1, <1>5, BeginStep
<1>6. CASE \E p \in Page : sqlite3PagerGet(p) \/ sqlite3PagerWrite(p) \/ pagerStress(p)
  <2>1. PICK p \in Page : sqlite3PagerGet(p) \/ sqlite3PagerWrite(p) \/ pagerStress(p)
    BY <1>6
  <2> QED
    BY <1>1, <2>1, GetStep, WriteStep, StressStep
<1>7. CASE \E n \in Page : sqlite3PagerCommitPhaseOne(n)
  <2>1. PICK n \in Page : sqlite3PagerCommitPhaseOne(n)
    BY <1>7
  <2> QED
    BY <1>1, <2>1, CommitPhaseOneStep
<1>8. CASE sqlite3PagerCommitPhaseTwo
  BY <1>1, <1>8, CommitPhaseTwoStep
<1>9. CASE sqlite3PagerRollback
  BY <1>1, <1>9, RollbackStep
<1>10. CASE sqlite3PagerClose
  BY <1>1, <1>10, CloseStep
<1>11. CASE \E mode \in Modes : sqlite3PagerSetJournalMode(mode)
  <2>1. PICK mode \in Modes : sqlite3PagerSetJournalMode(mode)
    BY <1>11
  <2> QED
    BY <1>1, <2>1, JournalModeStep
<1>12. CASE \E l \in Levels : sqlite3PagerSetFlags(l)
  <2>1. PICK l \in Levels : sqlite3PagerSetFlags(l)
    BY <1>12
  <2> QED
    BY <1>1, <2>1, FlagsStep
<1>13. CASE Continue
  BY <1>1, <1>13, ContinueStep
<1>14. CASE Crash
  BY <1>1, <1>14, CrashStep
<1>15. CASE \E i \in 0 .. Len(savepoint) : RollbackSavepoint(i) \/ ReleaseSavepoint(i)
  <2>1. PICK i \in 0 .. Len(savepoint) : RollbackSavepoint(i) \/ ReleaseSavepoint(i)
    BY <1>15
  <2>2. CASE RollbackSavepoint(i)
    <3>1. MaxSavepoint > 0
      BY <2>2 DEF RollbackSavepoint
    <3> QED
      BY <1>1, <2>2, <3>1, RollbackSavepointStep
  <2>3. CASE ReleaseSavepoint(i)
    BY <1>1, <2>3, ReleaseSavepointStep
  <2> QED
    BY <2>1, <2>2, <2>3
<1> QED
  BY <1>2, <1>3, <1>4, <1>5, <1>6, <1>7, <1>8, <1>9, <1>10, <1>11, <1>12, <1>13, <1>14, <1>15 DEF Next

LEMMA StutterKept ==
    ASSUME Consistent, UNCHANGED vars
    PROVE  Consistent'
<1>1. /\ UNCHANGED <<eState, call, journalMode, level, txn, fault, crash, outcomes, lost>>
      /\ UNCHANGED <<dbSize, dbOrigSize, dbFileSize, cache, dirty, needSync>>
      /\ UNCHANGED <<inJournal, jfdOpen, journalOff, journalHdr, nRec, cksumInit, left>>
      /\ UNCHANGED <<subJournal, db, dbDur, jrnl, jrnlDur, jrnlNew>>
  BY DEF vars, settings, sizes, pcache, jstate, svpts, dbfile, jfile, bounds, history
<1>2. PICK O \in Images : StandsFor(O, outcomes) /\ Phase(O)
  BY DEF Consistent
<1>3. Phase(O)'
  BY <1>1, <1>2, SamePhase
<1> QED
  BY <1>1, <1>2, <1>3 DEF Consistent

LEMMA FirstState ==
    ASSUME Protected, Init
    PROVE  Consistent
<1>1. PICK n \in InitSizes : db = [p \in 1 .. n |-> 0]
  BY DEF Init
<1>2. n \in 1 .. MaxPage /\ n \in Nat /\ MaxPage \in Nat
  BY PagerAssumption DEF Protected
<1>3. db \in Images /\ Len(db) = n
  <2>1. 0 \in Content
    BY PagerAssumption DEF Content
  <2> QED
    BY <1>1, <1>2, <2>1 DEF Images
<1>4. NoFile \in Journals /\ Cold(NoFile)
  BY NoFileIsCold
<1>5. Types
  BY FirstTypes
<1>6. ASSUME NEW O \in Images, O = db PROVE StandsFor(O, outcomes) /\ Phase(O)
  <2>0. outcomes = {db} /\ dbDur = db /\ Len(db) \in Nat /\ Len(db) > 0
    <3>1. outcomes = {db} /\ dbDur = db
      BY DEF Init
    <3>2. Len(db) \in Nat /\ Len(db) > 0
      BY <1>2, <1>3
    <3> QED
      BY <3>1, <3>2
  <2>1. StandsFor(O, outcomes)
    BY <1>6, <2>0 DEF StandsFor, Holds
  <2>2. AllDurably(db, dbDur, O) /\ SyncedPrefix(db, dbDur)
    BY <1>6, <2>0 DEF AllDurably, Durably, SyncedPrefix
  <2>3. Cold(jrnl) /\ Cold(jrnlDur)
    BY <1>4 DEF Init
  <2>4. Settled(O)
    BY <1>5, <2>1, <2>2, <2>3, NowSettled
  <2>5. Coherent
    BY DEF Init, Coherent, Cached, EmptyCache
  <2> QED
    BY <2>1, <2>4, <2>5 DEF Init, Phase, PhaseOpen, Between, Idle, NothingDirty
<1> QED
  BY <1>3, <1>6 DEF Consistent

LEMMA InvariantHolds == Protected /\ Spec /\ []DirtyLogged => [](Types /\ Consistent)
<1> SUFFICES ASSUME Protected PROVE Spec /\ []DirtyLogged => [](Types /\ Consistent)
  OBVIOUS
<1>1. Init => Consistent
  BY FirstState
<1>2. Types /\ Types' /\ Preserving(FALSE) /\ Consistent /\ DirtyLogged' /\ [Next]_vars => Consistent'
  BY ConsistentKept, StutterKept
<1>3. Spec => [](Types /\ Preserving(FALSE))
  BY SavepointInvariant
<1> QED
  BY <1>1, <1>2, <1>3, PTL DEF Spec

\* No write fails when no I/O call does.
NoneFailed == MaxFault = 0 => call.at # "failedWrite"

LEMMA NoneFailedKept ==
    ASSUME Types, NoneFailed, [Next]_vars
    PROVE  NoneFailed'
<1> DEFINE Good == call'.at # "failedWrite"
<1> SUFFICES ASSUME MaxFault = 0 PROVE Good
  BY DEF NoneFailed
<1>1. call.at # "failedWrite" /\ ~Fails
  <2>1. fault \in 0 .. MaxFault
    BY DEF Types, TypesOfBounds
  <2> QED
    BY <2>1 DEF NoneFailed, Fails
<1>2. /\ \A at : Goto(at) => call'.at = at
      /\ \A op, pg, at : Calling(op, pg, at) => call'.at = at
      /\ \A at : call' = [Idle EXCEPT !.at = at] => call'.at = at
      /\ call' = Idle => call'.at = "idle"
      /\ call' = call => Good
  <2>1. /\ \A at : Goto(at) => call'.at = at
        /\ \A op, pg, at : Calling(op, pg, at) => call'.at = at
    BY ONLY Types, CallIsAt
  <2>2. /\ \A at : call' = [Idle EXCEPT !.at = at] => call'.at = at
        /\ call' = Idle => call'.at = "idle"
    BY ONLY Types, CallIsAt
  <2>3. call' = call => Good
    BY <1>1
  <2> QED
    BY ONLY <2>1, <2>2, <2>3
<1> HIDE DEF Good
<1>3. ASSUME NEW at, call'.at = at, at # "failedWrite" PROVE Good
  BY <1>3 DEF Good
<1>4. /\ \A at : Goto(at) /\ at # "failedWrite" => Good
      /\ \A op, pg, at : Calling(op, pg, at) /\ at # "failedWrite" => Good
      /\ \A at : call' = [Idle EXCEPT !.at = at] /\ at # "failedWrite" => Good
      /\ call' = Idle => Good
      /\ call' = call => Good
  BY <1>2, <1>3
<1>5. ASSUME \E error \in BOOLEAN : pager_unlock(error) PROVE Good
  BY <1>4, <1>5 DEF pager_unlock, UndeletableWhenOpen
<1>6. ASSUME GiveUp PROVE Good
  BY <1>4, <1>5, <1>6 DEF GiveUp
<1>7. ASSUME NEW open, NEW off, AfterFinalize(open, off) \/ FailTransaction(open, off) \/ EndTransaction(open, off)
      PROVE  Good
  BY <1>4, <1>5, <1>7 DEF AfterFinalize, EndTransaction, FailTransaction
<1>8. CASE sqlite3PagerSharedLock \/ pagerUnlockIfUnused \/ sqlite3PagerBegin
  BY <1>4, <1>5, <1>8 DEF sqlite3PagerSharedLock, pagerUnlockIfUnused, sqlite3PagerBegin
<1>9. ASSUME NEW p, NEW size, NEW next, PagerWrite(p, size, next) PROVE call' = next
  BY <1>1, <1>9 DEF PagerWrite
<1>10. CASE \/ \E p \in Page : sqlite3PagerGet(p) \/ sqlite3PagerWrite(p) \/ pagerStress(p)
            \/ \E n \in Page : sqlite3PagerCommitPhaseOne(n)
  <2>1. call' = [op |-> "CommitPhaseOne", pg |-> 0, at |-> "syncRecords"] => Good
    BY DEF Good
  <2> QED
    BY <1>4, <1>9, <1>10, <2>1 DEF sqlite3PagerGet, sqlite3PagerWrite, pagerStress, sqlite3PagerCommitPhaseOne
<1>11. CASE sqlite3PagerCommitPhaseTwo \/ sqlite3PagerRollback \/ sqlite3PagerClose \/ sqlite3PagerOpenSavepoint
  BY <1>4, <1>5, <1>11 DEF sqlite3PagerCommitPhaseTwo, sqlite3PagerRollback, sqlite3PagerClose, sqlite3PagerOpenSavepoint
<1>12. CASE \E i \in 0 .. Len(savepoint) : RollbackSavepoint(i) \/ ReleaseSavepoint(i)
  BY <1>4, <1>12 DEF RollbackSavepoint, ReleaseSavepoint
<1>13. CASE (\E mode \in Modes : sqlite3PagerSetJournalMode(mode)) \/ \E l \in Levels : sqlite3PagerSetFlags(l)
  BY <1>4, <1>13 DEF sqlite3PagerSetJournalMode, sqlite3PagerSetFlags
<1>14. CASE pagerSyncHotJournal \/ PlaybackHeader \/ PlaybackRecord \/ PlaybackSync
  BY <1>4, <1>5, <1>6, <1>14 DEF pagerSyncHotJournal, PlaybackHeader, PlaybackRecord, PlaybackSync
<1>15. CASE FinalizeJournal \/ SyncFinalized \/ TruncateAfterCommit
  BY <1>4, <1>6, <1>7, <1>15 DEF FinalizeJournal, SyncFinalized, TruncateAfterCommit
<1>16. CASE SyncJournalRecords \/ SyncJournalCount \/ SyncJournalHeader
  BY <1>4, <1>6, <1>16 DEF SyncJournalRecords, SyncJournalCount, SyncJournalHeader
<1>17. CASE StressWrite \/ CommitWriteList \/ CommitSync \/ Crash
  BY <1>4, <1>6, <1>17 DEF StressWrite, CommitWriteList, CommitSync, Crash
<1>18. CASE UNCHANGED vars
  BY <1>4, <1>18 DEF vars
<1> QED
  BY <1>8, <1>10, <1>11, <1>12, <1>13, <1>14, <1>15, <1>16, <1>17, <1>18 DEF Next, Continue

LEMMA InvariantHoldsAlone ==
    Protected /\ (MaxSavepoint = 0 \/ MaxFault = 0) /\ Spec => [](Types /\ Consistent)
<1> SUFFICES ASSUME Protected, MaxSavepoint = 0 \/ MaxFault = 0
             PROVE  Spec => [](Types /\ Consistent)
  OBVIOUS
<1>1. Init => Consistent /\ NoneFailed
  <2>1. Init => NoneFailed
    BY DEF Init, Idle, NoneFailed
  <2> QED
    BY <2>1, FirstState
<1>2. Types /\ NoneFailed /\ [Next]_vars => NoneFailed'
  BY NoneFailedKept
<1>3. Types /\ Types' /\ Preserving(FALSE) /\ Consistent /\ NoneFailed /\ [Next]_vars => Consistent'
  <2>1. NoneFailed => ~(MaxSavepoint > 0 /\ call.at = "failedWrite")
    BY PagerAssumption DEF NoneFailed
  <2> QED
    BY <2>1, ConsistentKept, StutterKept
<1>4. Spec => [](Types /\ Preserving(FALSE))
  BY SavepointInvariant
<1> QED
  BY <1>1, <1>2, <1>3, <1>4, PTL DEF Spec

-----------------------------------------------------------------------------
(* What it means for the program.                                          *)

\* Either there are no savepoints, or no I/O call fails, or no rollback of a
\* statement leaves a page dirty whose original is in no journal (pager.c 6508).
SavepointsAreLogged == MaxSavepoint = 0 \/ MaxFault = 0 \/ []DirtyLogged

LEMMA SpecIsCorrect ==
    Protected /\ Spec /\ SavepointsAreLogged
        => [](AtomicCommit /\ NoHotJournal /\ CacheCoherent /\ Recoverable)
<1>1. Types /\ Consistent => AtomicCommit /\ NoHotJournal /\ CacheCoherent /\ Recoverable
  BY ConsistentIsCorrect
<1> QED
  BY <1>1, InvariantHolds, InvariantHoldsAlone, PTL DEF SavepointsAreLogged

\* The pager stays within its types: no page is written behind MaxPage, no slot of
\* the journal is read that is none, no offset is negative (pager_playback,
\* pager_write_pagelist, writeJournalHdr, pagerPlaybackSavepoint).
THEOREM PagerTypeOK == Spec => []TypeOK
<1>1. Types /\ Preserving(FALSE) => TypeOK
  BY TypesAreTypeOK
<1> QED
  BY <1>1, SavepointInvariant, PTL

\* While a savepoint is open, a rollback to it that returns gives back the database
\* that it was opened on, whatever was spilled, rolled back or released before
\* (pagerPlaybackSavepoint, pager_playback_one_page).
THEOREM OpenSavepointsAreRestored ==
    Spec => [](call.at = "restored" /\ savepoint # <<>> => Image = savepoint[Len(savepoint)].image)
<1>1. Types /\ Preserving(FALSE) =>
         (call.at = "restored" /\ savepoint # <<>> => Image = savepoint[Len(savepoint)].image)
  BY PreservingRestores
<1> QED
  BY <1>1, SavepointInvariant, PTL

\* A rollback to a savepoint, or of a whole transaction, that returns restores the
\* database of that time, if the transaction found one that a reader may find
\* (pagerPlaybackSavepoint, sqlite3PagerSavepoint).
THEOREM SavepointsAreRestored == Spec /\ []AtomicCommit => []SavepointRestored
<1>1. Init => Types /\ Preserving(TRUE)
  BY FirstTypes, FirstPreserving
<1>2. Types /\ Preserving(TRUE) /\ AtomicCommit /\ [Next]_vars => (Types /\ Preserving(TRUE))'
  BY PreservingKept, PreservingStutters
<1>3. Types /\ Preserving(TRUE) => SavepointRestored
  BY PreservingRestores DEF SavepointRestored
<1> QED
  BY <1>1, <1>2, <1>3, PTL DEF Spec

\* After any sequence of calls, I/O errors and power losses, in any call, a reader
\* finds the database of one transaction, whole: the one before a commit that did
\* not return, or the one after it (sqlite3PagerSharedLock, pager_playback).
THEOREM TransactionsAreAtomic == Protected /\ Spec /\ SavepointsAreLogged => []AtomicCommit
BY SpecIsCorrect, PTL

\* No connection reads beside a journal that a later one would roll back
\* (hasHotJournal, pager_end_transaction).
THEOREM ReadersHaveNoHotJournal == Protected /\ Spec /\ SavepointsAreLogged => []NoHotJournal
BY SpecIsCorrect, PTL

\* A cached page that is not dirty is the page of the file, after every spill,
\* rollback and recovery (pager_playback_one_page, pager_unlock).
THEOREM CacheIsCoherent == Protected /\ Spec /\ SavepointsAreLogged => []CacheCoherent
BY SpecIsCorrect, PTL

\* Write-ahead logging: in every state of every call each page of some image that a
\* reader may find is in the file and on the medium, or else in a synced segment
\* of the journal (syncJournal, pagerStress, pager_write_pagelist).
THEOREM WriteAheadLogging == Protected /\ Spec /\ SavepointsAreLogged => []Recoverable
BY SpecIsCorrect, PTL

-----------------------------------------------------------------------------
(* Durability, which needs neither the invariant nor its settings.         *)

\* The end of every transaction is synced: the deletion of a journal at level EXTRA,
\* its truncation and the zeroing of its header at FULL.  An error in it
\* (FinalizeFails) leaves the commit undecided.
Synced ==
    /\ Levels \subseteq {"EXTRA"} \/ ("DELETE" \notin Modes /\ "NORMAL" \notin Levels)
    /\ FinalizeFails = {}

IsCall == call = [op |-> call.op, pg |-> call.pg, at |-> call.at]

SyncInv ==
    /\ journalMode \in Modes /\ level \in Levels /\ IsCall
    /\ lost # {} => call.at = "finalSync"

LEMMA CallIs ==
    ASSUME IsCall
    PROVE  /\ \A at : Goto(at) => IsCall' /\ call'.at = at
           /\ \A op, pg, at : Calling(op, pg, at) => IsCall'
           /\ call' = Idle => IsCall'
           /\ \A at : call' = [Idle EXCEPT !.at = at] => IsCall'
           /\ call' = call => IsCall'
BY DEF IsCall, Goto, Calling, Idle

\* Every call stays one.
LEMMA CallKept ==
    ASSUME IsCall, Next
    PROVE  IsCall'
<1>1. ASSUME \E error \in BOOLEAN : pager_unlock(error) PROVE IsCall'
  BY <1>1, CallIs DEF pager_unlock, UndeletableWhenOpen
<1>2. ASSUME GiveUp PROVE IsCall'
  BY <1>1, <1>2, CallIs DEF GiveUp
<1>3. ASSUME NEW open, NEW off, AfterFinalize(open, off) \/ FailTransaction(open, off) \/ EndTransaction(open, off)
      PROVE  IsCall'
  BY <1>1, <1>3, CallIs DEF AfterFinalize, EndTransaction, FailTransaction
<1>4. CASE sqlite3PagerSharedLock \/ pagerUnlockIfUnused \/ sqlite3PagerBegin
  BY <1>1, <1>4, CallIs DEF sqlite3PagerSharedLock, pagerUnlockIfUnused, sqlite3PagerBegin
<1>5. ASSUME NEW p, NEW size, NEW next, PagerWrite(p, size, next), next = Idle \/ next = [op |-> "CommitPhaseOne", pg |-> 0, at |-> "syncRecords"]
      PROVE  IsCall'
  <2>1. \/ call' = next
        \/ call' = [Idle EXCEPT !.at = IF next = Idle THEN "failedWrite" ELSE "failed"]
    BY <1>5 DEF PagerWrite
  <2>2. call' = [op |-> "CommitPhaseOne", pg |-> 0, at |-> "syncRecords"] => IsCall'
    BY DEF IsCall
  <2> QED
    BY <1>5, <2>1, <2>2, CallIs
<1>6. CASE \/ \E p \in Page : sqlite3PagerGet(p) \/ sqlite3PagerWrite(p) \/ pagerStress(p)
           \/ \E n \in Page : sqlite3PagerCommitPhaseOne(n)
  BY <1>5, <1>6, CallIs DEF sqlite3PagerGet, sqlite3PagerWrite, pagerStress, sqlite3PagerCommitPhaseOne
<1>7. CASE sqlite3PagerCommitPhaseTwo \/ sqlite3PagerRollback \/ sqlite3PagerClose \/ sqlite3PagerOpenSavepoint
  BY <1>1, <1>7, CallIs DEF sqlite3PagerCommitPhaseTwo, sqlite3PagerRollback, sqlite3PagerClose, sqlite3PagerOpenSavepoint
<1>8. CASE \E i \in 0 .. Len(savepoint) : RollbackSavepoint(i) \/ ReleaseSavepoint(i)
  BY <1>8, CallIs DEF RollbackSavepoint, ReleaseSavepoint
<1>9. CASE (\E mode \in Modes : sqlite3PagerSetJournalMode(mode)) \/ \E l \in Levels : sqlite3PagerSetFlags(l)
  BY <1>9, CallIs DEF sqlite3PagerSetJournalMode, sqlite3PagerSetFlags
<1>10. CASE pagerSyncHotJournal \/ PlaybackHeader \/ PlaybackRecord \/ PlaybackSync
  BY <1>1, <1>2, <1>10, CallIs DEF pagerSyncHotJournal, PlaybackHeader, PlaybackRecord, PlaybackSync
<1>11. CASE FinalizeJournal \/ SyncFinalized \/ TruncateAfterCommit
  BY <1>2, <1>3, <1>11, CallIs DEF FinalizeJournal, SyncFinalized, TruncateAfterCommit
<1>12. CASE SyncJournalRecords \/ SyncJournalCount \/ SyncJournalHeader
  BY <1>2, <1>12, CallIs DEF SyncJournalRecords, SyncJournalCount, SyncJournalHeader
<1>13. CASE StressWrite \/ CommitWriteList \/ CommitSync \/ Crash
  BY <1>2, <1>13, CallIs DEF StressWrite, CommitWriteList, CommitSync, Crash
<1> QED
  BY <1>4, <1>6, <1>7, <1>8, <1>9, <1>10, <1>11, <1>12, <1>13 DEF Next, Continue

\* Only the end of a transaction has something to lose, until it is synced.
LEMMA SyncKept ==
    ASSUME Synced, SyncInv, [Next]_vars
    PROVE  SyncInv'
<1>1. CASE UNCHANGED vars
  BY <1>1 DEF vars, settings, history, SyncInv, IsCall
<1>2. CASE Next
  <2>1. IsCall'
    BY <1>2, CallKept DEF SyncInv
  <2>2. journalMode' \in Modes /\ level' \in Levels
    <3>1. CASE \E mode \in Modes : sqlite3PagerSetJournalMode(mode)
      BY <3>1 DEF sqlite3PagerSetJournalMode, SyncInv
    <3>2. CASE \E l \in Levels : sqlite3PagerSetFlags(l)
      BY <3>2 DEF sqlite3PagerSetFlags, SyncInv
    <3>3. ASSUME ~\E mode \in Modes : sqlite3PagerSetJournalMode(mode),
                 ~\E l \in Levels : sqlite3PagerSetFlags(l)
          PROVE  UNCHANGED settings
      <4>1. ASSUME NEW p, NEW size, NEW next, PagerWrite(p, size, next) PROVE UNCHANGED settings
        BY <4>1 DEF PagerWrite
      <4>2. CASE \/ \E p \in Page : sqlite3PagerWrite(p)
                 \/ \E n \in Page : sqlite3PagerCommitPhaseOne(n)
        BY <4>1, <4>2 DEF sqlite3PagerWrite, sqlite3PagerCommitPhaseOne
      <4> QED
        BY <1>2, <3>3, <4>2 DEF Next, Continue, sqlite3PagerSharedLock, pagerUnlockIfUnused,
           sqlite3PagerBegin, sqlite3PagerGet, pagerStress, sqlite3PagerCommitPhaseTwo, sqlite3PagerRollback,
           sqlite3PagerClose, sqlite3PagerOpenSavepoint, RollbackSavepoint, ReleaseSavepoint,
           pagerSyncHotJournal, PlaybackHeader, PlaybackRecord, PlaybackSync, FinalizeJournal, SyncFinalized,
           TruncateAfterCommit, SyncJournalRecords, SyncJournalCount, SyncJournalHeader, StressWrite,
           CommitWriteList, CommitSync, Crash
    <3> QED
      BY <3>1, <3>2, <3>3 DEF SyncInv, settings
  <2>3. lost' # {} => call'.at = "finalSync"
    <3>1. CASE call.at = "finalSync"
      <4>1. SyncFinalized \/ Crash
        BY <1>2, <3>1 DEF Next, Continue, AtRest, sqlite3PagerSharedLock, pagerUnlockIfUnused,
           sqlite3PagerBegin, sqlite3PagerGet, sqlite3PagerWrite, pagerStress, sqlite3PagerCommitPhaseOne,
           sqlite3PagerCommitPhaseTwo, sqlite3PagerRollback, sqlite3PagerClose, sqlite3PagerOpenSavepoint,
           RollbackSavepoint, ReleaseSavepoint, sqlite3PagerSetJournalMode, sqlite3PagerSetFlags,
           pagerSyncHotJournal, PlaybackHeader, PlaybackRecord, PlaybackSync, FinalizeJournal,
           TruncateAfterCommit, SyncJournalRecords, SyncJournalCount, SyncJournalHeader, StressWrite,
           CommitWriteList, CommitSync
      <4> QED
        BY <4>1 DEF SyncFinalized, SyncedJournal, Crash, Synced
    <3>2. CASE call.at # "finalSync" /\ ~FinalizeJournal
      <4>1. lost = {}
        BY <3>2 DEF SyncInv
      <4>2. lost' \in {lost, {}}
        <5>1. ASSUME NEW p, NEW size, NEW next, PagerWrite(p, size, next) PROVE lost' = lost
          BY <5>1 DEF PagerWrite, history
        <5>2. CASE \/ \E p \in Page : sqlite3PagerWrite(p)
                   \/ \E n \in Page : sqlite3PagerCommitPhaseOne(n)
          BY <5>1, <5>2 DEF sqlite3PagerWrite, sqlite3PagerCommitPhaseOne
        <5> QED
          BY <1>2, <3>2, <5>2 DEF Next, Continue, sqlite3PagerSharedLock, BecomeReader,
           pagerUnlockIfUnused, sqlite3PagerBegin, sqlite3PagerGet, pagerStress,
           sqlite3PagerCommitPhaseTwo, sqlite3PagerRollback, sqlite3PagerClose, sqlite3PagerOpenSavepoint,
           RollbackSavepoint, ReleaseSavepoint, sqlite3PagerSetJournalMode, sqlite3PagerSetFlags,
           pagerSyncHotJournal, PlaybackHeader, PlaybackRecord, PlaybackSync, SyncFinalized,
           TruncateAfterCommit, SyncJournalRecords, SyncJournalCount, SyncJournalHeader, StressWrite,
           CommitWriteList, CommitSync, Crash, SyncedJournal, history
      <4> QED
        BY <4>1, <4>2
    <3>3. CASE FinalizeJournal /\ call.at # "finalSync"
      <4>1. lost = {} /\ IsCall
        BY <3>3 DEF SyncInv
      <4>2. Decide(TRUE) => lost' = {}
        BY <4>1 DEF Decide
      <4>3. CASE ~HasJournal /\ Decide(TRUE)
        BY <4>2, <4>3
      <4>4. CASE HasJournal /\ journalMode = "DELETE" /\ Decide(dirSync)
        <5>1. level = "EXTRA"
          BY <4>4 DEF Synced, SyncInv
        <5>2. Decide(TRUE)
          BY <4>4, <5>1 DEF dirSync, Decide
        <5> QED
          BY <4>2, <5>2
      <4>5. CASE /\ journalMode # "DELETE"
                 /\ journalMode = "PERSIST" \/ fullSync => Goto("finalSync")
        <5>1. fullSync
          BY PagerAssumption DEF fullSync, Synced, SyncInv
        <5> QED
          BY <4>1, <4>5, <5>1, CallIs
      <4>6. journalMode \notin FinalizeFails
        BY DEF Synced
      <4> QED
        BY <3>3, <4>3, <4>4, <4>5, <4>6 DEF FinalizeJournal
    <3> QED
      BY <3>1, <3>2, <3>3
  <2> QED
    BY <2>1, <2>2, <2>3 DEF SyncInv
<1> QED
  BY <1>1, <1>2

\* When a commit has returned no power loss undoes it (pager_end_transaction,
\* zeroJournalHdr, sqlite3OsDelete).
THEOREM CommitsAreDurable == Synced /\ Spec => []Durable
<1> SUFFICES ASSUME Synced PROVE Spec => []Durable
  OBVIOUS
<1>1. Init => SyncInv
  BY DEF Init, SyncInv, IsCall, Idle
<1>2. SyncInv /\ [Next]_vars => SyncInv'
  BY SyncKept
<1>3. SyncInv => Durable
  BY DEF SyncInv, Durable, AtRest
<1> QED
  BY <1>1, <1>2, <1>3, PTL DEF Spec

==============================================================================
