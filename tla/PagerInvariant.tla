--------------------------- MODULE PagerInvariant ---------------------------
(***************************************************************************)
(* The inductive invariant of Pager, and what its proof rests on.          *)
(*                                                                         *)
(* The first part is about arbitrary files: which journals a recovery can  *)
(* play back, with which journals a database file restores an image, and   *)
(* what a power loss leaves of them.  The second part is the invariant: in *)
(* which phase a connection is and, for each phase, where the pages of the *)
(* database are: in the file, on the medium, in the cache, in the journal. *)
(* The third part is about savepoints: what the journals have for each of  *)
(* them, and that every step keeps it.  PagerProofs has the rollbacks to a *)
(* savepoint, the steps of the phases and the theorems.                    *)
(***************************************************************************)
EXTENDS Pager, TLAPS, SequenceTheorems, WellFoundedInduction

\* The settings under which a transaction is atomic.  The hazards that the others
\* have are in MCPagerStaleHeader (AlignedEnd), pager.c 2179 (FinalizeFails), 2250
\* (AutoVacuum "always"), 5511 (an empty database) and 3843 (NORMAL, which syncs a
\* header with the records that it counts, over the remains of another journal).
Protected ==
    /\ ~AlignedEnd
    /\ "NORMAL" \notin Levels
    /\ FinalizeFails \subseteq {"DELETE"}
    /\ AutoVacuum # "always"
    /\ 0 \notin InitSizes

\* The rollback of a statement leaves no page dirty whose original is in no journal.
\* It does when pager_write failed to journal a page that it had marked dirty
\* (pager.c 6494 and 6508): a later spill may then garble the only copy.
DirtyLogged ==
    call.at = "restored" => \A p \in dirty : p <= dbOrigSize => p \in inJournal

Images == Seq(Content)
Slots == Slot \cup {[kind |-> "nofile"]}
Journals == Seq(Slots)

-----------------------------------------------------------------------------
(* Journals.  O is the database as the transaction found it, t the         *)
(* transaction; n and e are offsets, the number of slots before them.      *)

\* A record of the original.
Original(s, O) == s.pg <= Len(O) /\ s.val = O[s.pg]

\* A header that has been given its count, with its records; segments follow each
\* other up to n.
Segment(f, O, t, n, h) ==
    /\ f[h].magic
    /\ f[h].nonce = <<t, h - 1>>
    /\ f[h].size = Len(O)
    /\ h + f[h].nRec <= n
    /\ \A i \in h + 1 .. h + f[h].nRec : f[i].kind = "rec" /\ f[i].nonce = f[h].nonce
    /\ h + f[h].nRec < n => f[h + f[h].nRec + 1].kind = "hdr"

InSegment(f, i) ==
    \E h \in 1 .. i - 1 : f[h].kind = "hdr" /\ i <= h + f[h].nRec

Segments(f, O, t, n) ==
    /\ n <= Len(f)
    /\ n > 0 => f[1].kind = "hdr"
    /\ \A i \in 1 .. n :
          \/ f[i].kind = "rec" /\ Original(f[i], O) /\ InSegment(f, i)
          \/ f[i].kind = "hdr" /\ Segment(f, O, t, n, i)

\* No segment begins at n.
Ends(f, n) == n < Len(f) => ~HasMagic(f[n + 1])
Cold(f) == Ends(f, 0)

\* What a recovery plays back of f is the segments up to n.
Chain(f, O, t, n) == Segments(f, O, t, n) /\ Ends(f, n)

\* The journal has a record of page p between the offsets a and b.
Recorded(f, a, b, p) == \E i \in a + 1 .. b : f[i].kind = "rec" /\ f[i].pg = p

\* A header at n with the records up to m.
Completes(f, O, t, n, m) ==
    /\ m <= Len(f) /\ n < m
    /\ HasMagic(f[n + 1]) /\ f[n + 1].nonce = <<t, n>> /\ f[n + 1].size = Len(O)
    /\ n + 1 + f[n + 1].nRec = m
    /\ \A i \in n + 2 .. m :
          f[i].kind = "rec" /\ f[i].nonce = <<t, n>> /\ Original(f[i], O)

\* The header at n has its count in the file f, perhaps not on the medium (g),
\* where all of its records are.
Counted(f, g, O, t, n) ==
    \E m \in Nat :
        /\ Completes(f, O, t, n, m)
        /\ m <= Len(g) /\ \A i \in n + 2 .. m : g[i] = f[i]
        /\ Ends(f, m) /\ Ends(g, m)
        /\ Ends(g, n) \/ g[n + 1] = f[n + 1]

\* The segments up to n are on the medium, and whatever a power loss leaves behind
\* them is no segment or another one of the same transaction.
Survives(f, g, O, t, n) ==
    /\ Segments(f, O, t, n)
    /\ n <= Len(g) /\ \A i \in 1 .. n : g[i] = f[i]
    /\ (Ends(f, n) /\ Ends(g, n)) \/ Counted(f, g, O, t, n)

-----------------------------------------------------------------------------
(* Files: d and m are a database file and what is on its medium, f and g   *)
(* the same of the journal, I the images that a reader may find.           *)

\* O is one of the images, perhaps without its last pages.
StandsFor(O, I) == Len(O) > 0 /\ \E image \in I : Holds(O, image)

\* Page p of O is in the file and on the medium.
Durably(d, m, O, p) ==
    /\ p <= Len(d) /\ d[p] = O[p]
    /\ p <= Len(m) /\ m[p] = O[p]

AllDurably(d, m, O) == \A p \in 1 .. Len(O) : Durably(d, m, O, p)

\* The file has nothing that the medium does not have.
SyncedPrefix(d, m) == Len(d) <= Len(m) /\ \A p \in 1 .. Len(d) : d[p] = m[p]

\* Every page of O is there or in the segments up to n.
Covered(d, m, f, O, n) ==
    /\ Len(d) > 0 /\ Len(m) > 0
    /\ \A p \in 1 .. Len(O) : Durably(d, m, O, p) \/ Recorded(f, 0, n, p)

\* The journal g, if a power loss brings it back, restores an image.
Restorable(d, m, g, I) ==
    \E O \in Images, t \in Nat, n \in Nat :
        StandsFor(O, I) /\ Chain(g, O, t, n) /\ Covered(d, m, g, O, n)

\* There is no journal to roll back, except perhaps one that was deleted.
NoJournal(d, m, f, g, new, I) ==
    /\ Cold(f)
    /\ new \/ ~IsFile(f) \/ Cold(g)
    /\ Restorable(d, m, g, I)

\* A journal that restores O.
Keeps(d, m, f, g, new, O, t, n) ==
    /\ IsFile(f) /\ IsFile(g) /\ ~new
    /\ Survives(f, g, O, t, n)
    /\ Covered(d, m, f, O, n)

\* The journal as it was before it was truncated or its header was zeroed, which
\* has not been synced.
OldJournal(f, g) == IF f = <<>> THEN g ELSE [f EXCEPT ![1] = g[1]]

Undone(d, m, f, g, new, I) ==
    /\ IsFile(f) /\ IsFile(g) /\ ~new
    /\ Cold(f) /\ ~Cold(g)
    /\ \E O \in Images, t \in Nat, n \in Nat :
        /\ StandsFor(O, I)
        /\ Survives(OldJournal(f, g), g, O, t, n)
        /\ Covered(d, m, OldJournal(f, g), O, n)

\* x may be what a power loss leaves of file f when g has reached the medium.
Mixes(x, f, g, junk) ==
    /\ \A i \in 1 .. Len(x) :
          \/ i <= Len(f) /\ x[i] = f[i]
          \/ i <= Len(g) /\ x[i] = g[i]
          \/ x[i] = junk
    /\ \A i \in Nat \ {0} :
          i <= Len(f) /\ i <= Len(g) => i <= Len(x) /\ (f[i] = g[i] => x[i] = f[i])

-----------------------------------------------------------------------------
(* What the operations of the VFS do to a file.                            *)

\* OsWrite changes one position, and makes the file longer if it must.
LEMMA WriteAtIs ==
    ASSUME NEW S, NEW f \in Seq(S), NEW i \in Nat \ {0}, NEW v \in S, NEW hole \in S
    PROVE  /\ WriteAt(f, i, v, hole) \in Seq(S)
           /\ Len(WriteAt(f, i, v, hole)) = Larger(Len(f), i)
           /\ \A k \in 1 .. Larger(Len(f), i) :
                 WriteAt(f, i, v, hole)[k] =
                     IF k = i THEN v ELSE IF k <= Len(f) THEN f[k] ELSE hole
<1> DEFINE n == Larger(Len(f), i)
           e(k) == IF k = i THEN v ELSE IF k <= Len(f) THEN f[k] ELSE hole
<1>1. n \in Nat
  BY DEF Larger
<1>2. ASSUME NEW k \in 1 .. n PROVE e(k) \in S
  BY <1>1
<1>3. WriteAt(f, i, v, hole) = [k \in 1 .. n |-> e(k)]
  BY DEF WriteAt
<1>4. [k \in 1 .. n |-> e(k)] \in Seq(S) /\ Len([k \in 1 .. n |-> e(k)]) = n
  <2> HIDE DEF e, n
  <2>1. [k \in 1 .. n |-> e(k)] \in [1 .. n -> S]
    BY <1>2
  <2> QED
    BY <1>1, <2>1
<1> QED
  BY <1>1, <1>3, <1>4

\* A truncation keeps what is before the new end.
LEMMA CutIs ==
    ASSUME NEW S, NEW f \in Seq(S), NEW n \in Nat
    PROVE  /\ Cut(f, n) \in Seq(S)
           /\ Len(Cut(f, n)) = Smaller(n, Len(f))
           /\ \A k \in 1 .. Smaller(n, Len(f)) : Cut(f, n)[k] = f[k]
BY DEF Cut, Smaller

\* A power loss keeps each position as it was with or without the last writes.
LEMMA LeftoverMixes ==
    ASSUME NEW S, NEW f \in Seq(S), NEW g \in Seq(S), NEW junk \in S,
           NEW x \in Leftover(f, g, junk)
    PROVE  /\ x \in Seq(S)
           /\ Mixes(x, f, g, junk)
           /\ f = <<>> => x = <<>> \/ x = g
           /\ Len(x) <= Larger(Len(f), Len(g))
<1> DEFINE At(i) == IF i <= Len(g) THEN g[i] ELSE junk
           Differ(n) == {i \in 1 .. Smaller(n, Len(f)) : f[i] # At(i)}
           Length == IF Len(f) < Len(g) THEN {Len(f), Len(g)} ELSE Len(g) .. Len(f)
           Value(n, pick, i) ==
              CASE i \notin Differ(n) -> At(i)
                [] i \in Differ(n) -> CASE pick[i] = "new" -> f[i]
                                        [] pick[i] = "old" -> At(i)
                                        [] pick[i] = "junk" -> junk
<1>1. PICK n \in Length : \E pick \in [Differ(n) -> {"new", "old", "junk"}] :
            x = [i \in 1 .. n |-> Value(n, pick, i)]
  <2> DEFINE Left(n) == {[i \in 1 .. n |-> Value(n, pick, i)] :
                             pick \in [Differ(n) -> {"new", "old", "junk"}]}
  <2>1. Leftover(f, g, junk) = UNION {Left(n) : n \in Length}
    BY DEF Leftover
  <2>2. PICK n \in Length : x \in Left(n)
    <3> HIDE DEF Left, Length
    <3> QED
      BY <2>1
  <2> HIDE DEF Value, Differ
  <2> QED
    BY <2>2
<1>2. PICK pick \in [Differ(n) -> {"new", "old", "junk"}] :
            x = [i \in 1 .. n |-> Value(n, pick, i)]
  BY <1>1
<1>3. n \in Nat /\ Len(f) \in Nat /\ Len(g) \in Nat
  BY <1>1
<1>4. ASSUME NEW i \in 1 .. n
      PROVE  /\ Value(n, pick, i) \in {At(i), junk} \/ (i <= Len(f) /\ Value(n, pick, i) = f[i])
             /\ f[i] = At(i) => Value(n, pick, i) = At(i)
             /\ i > Len(f) => Value(n, pick, i) = At(i)
  <2>1. CASE i \notin Differ(n)
    BY <2>1
  <2>2. CASE i \in Differ(n)
    <3>1. i <= Len(f) /\ f[i] # At(i)
      BY <1>3, <2>2 DEF Smaller
    <3>2. pick[i] \in {"new", "old", "junk"}
      BY <1>2, <2>2
    <3> HIDE DEF Differ, At
    <3> QED
      BY <1>3, <2>2, <3>1, <3>2
  <2> QED
    BY <2>1, <2>2
<1> HIDE DEF Value, Differ
<1>5. ASSUME NEW i \in 1 .. n PROVE Value(n, pick, i) \in S
  BY <1>3, <1>4
<1>6. x \in Seq(S) /\ Len(x) = n /\ \A i \in 1 .. n : x[i] = Value(n, pick, i)
  <2>1. x \in [1 .. n -> S]
    BY <1>2, <1>5
  <2> QED
    BY <1>2, <1>3, <2>1
<1>7. \A i \in 1 .. Len(x) :
          \/ i <= Len(f) /\ x[i] = f[i]
          \/ i <= Len(g) /\ x[i] = g[i]
          \/ x[i] = junk
  BY <1>3, <1>4, <1>6
<1>8. ASSUME NEW i \in Nat \ {0}, i <= Len(f), i <= Len(g)
      PROVE  i <= Len(x) /\ (f[i] = g[i] => x[i] = f[i])
  <2>1. i \in 1 .. n
    BY <1>1, <1>3, <1>8
  <2> QED
    BY <1>4, <1>6, <1>8, <2>1
<1>9. ASSUME f = <<>> PROVE x = <<>> \/ x = g
  <2>1. n = 0 \/ n = Len(g)
    BY <1>1, <1>3, <1>9
  <2>2. CASE n = 0
    BY <1>6, <2>2
  <2>3. CASE n = Len(g)
    <3>1. \A i \in 1 .. Len(g) : x[i] = g[i]
      BY <1>3, <1>4, <1>6, <1>9, <2>3
    <3> QED
      BY <1>6, <2>3, <3>1
  <2> QED
    BY <2>1, <2>2, <2>3
<1>10. Len(x) <= Larger(Len(f), Len(g))
  BY <1>1, <1>3, <1>6 DEF Larger
<1> QED
  BY <1>6, <1>7, <1>8, <1>9, <1>10 DEF Mixes

-----------------------------------------------------------------------------
(* Slots and segments of a journal.                                        *)

\* The kind of a slot tells its fields.
LEMMA SlotIs ==
    ASSUME NEW s \in Slots
    PROVE  /\ HasMagic(s) => s.kind = "hdr"
           /\ s.kind = "hdr" =>
                 s.magic \in BOOLEAN /\ s.nRec \in Nat /\ s.nonce \in Nonce /\ s.size \in 0 .. MaxPage
           /\ s.kind = "rec" =>
                 /\ s.pg \in Page /\ s.val \in Content /\ s.nonce \in Nonce
                 /\ s = Record(s.pg, s.val, s.nonce)
           /\ s.kind \in {"hdr", "rec", "junk", "nofile"}
<1>1. CASE s \in [kind : {"hdr"}, magic : BOOLEAN, nRec : Nat, nonce : Nonce, size : 0 .. MaxPage]
  BY <1>1 DEF HasMagic
<1>2. CASE s \in [kind : {"rec"}, pg : Page, val : Content, nonce : Nonce]
  BY <1>2 DEF HasMagic, Record
<1>3. CASE s \in {Garbage, [kind |-> "nofile"]}
  BY <1>3 DEF HasMagic, Garbage
<1> QED
  BY <1>1, <1>2, <1>3 DEF Slots, Slot

\* The slots up to n are all that segments up to n depend on.
LEMMA SegmentsAgree ==
    ASSUME NEW f \in Journals, NEW g \in Journals, NEW O, NEW t, NEW n \in Nat,
           Segments(f, O, t, n), n <= Len(g), \A i \in 1 .. n : g[i] = f[i]
    PROVE  Segments(g, O, t, n)
<1>1. n > 0 => g[1].kind = "hdr"
  BY DEF Segments
<1>2. ASSUME NEW i \in 1 .. n
      PROVE  \/ g[i].kind = "rec" /\ Original(g[i], O) /\ InSegment(g, i)
             \/ g[i].kind = "hdr" /\ Segment(g, O, t, n, i)
  <2>1. g[i] = f[i]
    OBVIOUS
  <2>2. CASE f[i].kind = "rec" /\ Original(f[i], O) /\ InSegment(f, i)
    <3>1. InSegment(g, i)
      BY <2>2 DEF InSegment
    <3> QED
      BY <2>1, <2>2, <3>1
  <2>3. CASE f[i].kind = "hdr" /\ Segment(f, O, t, n, i)
    <3>1. f[i].nRec \in Nat
      <4>1. f[i] \in Slots
        BY DEF Journals, Segments
      <4> QED
        BY <2>3, <4>1, SlotIs
    <3>2. Segment(g, O, t, n, i)
      <4>1. i + f[i].nRec <= n
        BY <2>3 DEF Segment
      <4>2. \A k \in i + 1 .. i + f[i].nRec : g[k] = f[k]
        BY <3>1, <4>1
      <4>3. i + f[i].nRec < n => g[i + f[i].nRec + 1] = f[i + f[i].nRec + 1]
        BY <3>1, <4>1
      <4> QED
        BY <2>1, <2>3, <4>1, <4>2, <4>3 DEF Segment
    <3> QED
      BY <2>1, <2>3, <3>2
  <2> QED
    BY <1>2, <2>2, <2>3 DEF Segments
<1> QED
  BY <1>1, <1>2 DEF Segments

\* A journal without segments.
LEMMA NoSegments ==
    ASSUME NEW f \in Journals, NEW O, NEW t
    PROVE  /\ Segments(f, O, t, 0)
           /\ Chain(f, O, t, 0) <=> Cold(f)
BY DEF Segments, Chain, Cold, Journals

\* A journal with segments is hot.
LEMMA SegmentsAreHot ==
    ASSUME NEW f \in Journals, NEW O, NEW t, NEW n \in Nat, Segments(f, O, t, n), n > 0
    PROVE  Len(f) > 0 /\ HasMagic(f[1]) /\ ~Cold(f)
<1>1. f[1].kind = "hdr" /\ Segment(f, O, t, n, 1) /\ Len(f) > 0
  BY DEF Segments, Journals
<1> QED
  BY <1>1 DEF Segment, HasMagic, Cold, Ends

\* One more segment.
LEMMA SegmentsGrow ==
    ASSUME NEW f \in Journals, NEW O, NEW t, NEW n \in Nat, NEW m \in Nat,
           Segments(f, O, t, n), Completes(f, O, t, n, m)
    PROVE  Segments(f, O, t, m)
<1> USE DEF Completes
<1>1. f[n + 1].kind = "hdr" /\ f[n + 1].magic /\ n + 1 \in 1 .. Len(f)
  BY DEF HasMagic, Journals
<1>2. m > 0 => f[1].kind = "hdr"
  BY <1>1 DEF Segments
<1>3. ASSUME NEW i \in 1 .. m
      PROVE  \/ f[i].kind = "rec" /\ Original(f[i], O) /\ InSegment(f, i)
             \/ f[i].kind = "hdr" /\ Segment(f, O, t, m, i)
  <2>1. CASE i > n + 1
    <3>1. f[i].kind = "rec" /\ Original(f[i], O)
      BY <2>1
    <3>2. InSegment(f, i)
      BY <1>1, <2>1 DEF InSegment
    <3> QED
      BY <3>1, <3>2
  <2>2. CASE i = n + 1
    <3>1. Segment(f, O, t, m, n + 1)
      BY <1>1 DEF Segment
    <3> QED
      BY <1>1, <2>2, <3>1
  <2>3. CASE i <= n
    <3>1. CASE f[i].kind = "rec" /\ Original(f[i], O) /\ InSegment(f, i)
      BY <3>1
    <3>2. CASE f[i].kind = "hdr" /\ Segment(f, O, t, n, i)
      <4>1. f[i].nRec \in Nat
        <5>1. f[i] \in Slots
          BY DEF Journals
        <5> QED
          BY <3>2, <5>1, SlotIs
      <4>2. i + f[i].nRec <= n
        BY <3>2 DEF Segment
      <4>3. i + f[i].nRec < m => f[i + f[i].nRec + 1].kind = "hdr"
        <5>1. CASE i + f[i].nRec < n
          BY <3>2, <5>1 DEF Segment
        <5>2. CASE i + f[i].nRec = n
          BY <1>1, <5>2
        <5> QED
          BY SMTT(40), <4>1, <4>2, <5>1, <5>2
      <4>4. i + f[i].nRec <= m
        BY <4>1, <4>2
      <4>5. Segment(f, O, t, m, i)
        BY <3>2, <4>3, <4>4 DEF Segment
      <4> QED
        BY <3>2, <4>5
    <3> QED
      BY <2>3, <3>1, <3>2 DEF Segments
  <2> QED
    BY <2>1, <2>2, <2>3
<1> QED
  BY <1>2, <1>3 DEF Segments

\* What a power loss leaves of a journal that survives one restores the same
\* database, from the segments up to n and perhaps one more.
LEMMA SurvivorsRestore ==
    ASSUME NEW f \in Journals, NEW g \in Journals, NEW x \in Journals, NEW O, NEW t,
           NEW n \in Nat, Survives(f, g, O, t, n), Mixes(x, f, g, Garbage)
    PROVE  \E m \in Nat : n <= m /\ Chain(x, O, t, m) /\ \A i \in 1 .. n : x[i] = f[i]
<1>1. Segments(f, O, t, n) /\ n <= Len(f) /\ n <= Len(g) /\ \A i \in 1 .. n : g[i] = f[i]
  BY DEF Survives, Segments
<1>2. n <= Len(x) /\ \A i \in 1 .. n : x[i] = f[i]
  <2>1. \A i \in 1 .. n : i <= Len(f) /\ i <= Len(g)
    BY <1>1
  <2>2. \A i \in 1 .. n : i <= Len(x) /\ x[i] = f[i]
    BY <1>1, <2>1 DEF Mixes
  <2> QED
    BY <2>2
<1>3. Segments(x, O, t, n)
  BY <1>1, <1>2, SegmentsAgree
<1>4. ASSUME NEW k \in Nat, Ends(f, k), Ends(g, k) PROVE Ends(x, k)
  <2> SUFFICES ASSUME k < Len(x) PROVE ~HasMagic(x[k + 1])
    BY DEF Ends
  <2>1. Len(f) \in Nat /\ Len(g) \in Nat /\ Len(x) \in Nat
    BY DEF Journals
  <2>2. ~HasMagic(Garbage)
    BY DEF HasMagic, Garbage
  <2>3. k + 1 \in 1 .. Len(x)
    BY <2>1
  <2>4. \/ k < Len(f) /\ x[k + 1] = f[k + 1]
        \/ k < Len(g) /\ x[k + 1] = g[k + 1]
        \/ x[k + 1] = Garbage
    BY <2>1, <2>3 DEF Mixes
  <2> QED
    BY <1>4, <2>2, <2>4 DEF Ends
<1>5. CASE Ends(f, n) /\ Ends(g, n)
  BY <1>2, <1>3, <1>4, <1>5 DEF Chain
<1>6. CASE Counted(f, g, O, t, n)
  <2>1. PICK m \in Nat :
            /\ Completes(f, O, t, n, m)
            /\ m <= Len(g) /\ \A i \in n + 2 .. m : g[i] = f[i]
            /\ Ends(f, m) /\ Ends(g, m)
            /\ Ends(g, n) \/ g[n + 1] = f[n + 1]
    BY <1>6 DEF Counted
  <2>2. n < m /\ m <= Len(f) /\ Len(f) \in Nat /\ Len(g) \in Nat
    BY <2>1 DEF Completes, Journals
  <2>3. \A i \in 1 .. m : i \in Nat \ {0} /\ i <= Len(f) /\ i <= Len(g)
    BY <2>1, <2>2
  <2>4. \A i \in n + 2 .. m : i \in 1 .. m
    BY <2>2
  <2>5. \A i \in n + 2 .. m : x[i] = f[i]
    BY <2>1, <2>3, <2>4 DEF Mixes
  <2>6. m \in 1 .. m /\ n + 1 \in 1 .. m
    BY <2>2
  <2>7. m <= Len(x) /\ n + 1 <= Len(x)
    BY <2>3, <2>6 DEF Mixes
  <2>8. CASE x[n + 1] = f[n + 1]
    <3>1. Completes(x, O, t, n, m)
      <4> HIDE DEF Ends
      <4> QED
        BY <2>1, <2>5, <2>7, <2>8 DEF Completes
    <3>2. Segments(x, O, t, m)
      BY <1>3, <3>1, SegmentsGrow
    <3>3. Ends(x, m)
      BY <1>4, <2>1
    <3> QED
      BY <1>2, <2>2, <3>2, <3>3 DEF Chain
  <2>9. CASE x[n + 1] # f[n + 1]
    <3>1. n + 1 <= Len(g) /\ n + 1 <= Len(f) /\ n + 1 \in Nat \ {0}
      BY <2>3, <2>6
    <3>2. Ends(g, n)
      BY <2>1, <2>9, <3>1 DEF Mixes
    <3>3. n + 1 \in 1 .. Len(x)
      BY <2>7, <3>1 DEF Journals
    <3>4. x[n + 1] = g[n + 1] \/ x[n + 1] = Garbage
      BY <2>9, <3>3 DEF Mixes
    <3>5. ~HasMagic(x[n + 1])
      BY <3>1, <3>2, <3>4, <2>2 DEF Ends, HasMagic, Garbage
    <3> QED
      BY <1>2, <1>3, <3>5 DEF Chain, Ends
  <2> QED
    BY <2>8, <2>9
<1> QED
  BY <1>5, <1>6 DEF Survives

\* A journal is one of the things that a power loss may leave of it.
LEMMA MixesItself ==
    ASSUME NEW f \in Journals, NEW g \in Journals
    PROVE  Mixes(f, f, g, Garbage) /\ Mixes(g, f, g, Garbage)
BY DEF Mixes, Journals

\* A journal that is on the medium as it is survives.
LEMMA ChainSurvives ==
    ASSUME NEW f \in Journals, NEW O, NEW t, NEW n \in Nat, Chain(f, O, t, n)
    PROVE  Survives(f, f, O, t, n)
BY DEF Chain, Survives, Segments

\* A recovery from segments up to n gives a recorded page its original content.
LEMMA RecordedIsLogged ==
    ASSUME NEW f \in Journals, NEW O, NEW t, NEW n \in Nat, Segments(f, O, t, n), IsFile(f),
           NEW p, Recorded(f, 0, n, p)
    PROVE  Logged(f, p, O[p])
<1>1. PICK i \in 1 .. n : f[i].kind = "rec" /\ f[i].pg = p
  BY DEF Recorded
<1>2. n <= Len(f) /\ Len(f) \in Nat
  BY DEF Segments, Journals
<1>3. InSegment(f, i) /\ f[i].val = O[p]
  BY <1>1 DEF Segments, Original
<1>4. PICK h \in 1 .. i - 1 : f[h].kind = "hdr" /\ i <= h + f[h].nRec
  BY <1>3 DEF InSegment
<1>5. h \in 1 .. n
  OBVIOUS
<1>6. Segment(f, O, t, n, h)
  BY <1>4, <1>5 DEF Segments
<1>7. f[h] \in Slots /\ f[i] \in Slots
  BY <1>2, <1>5 DEF Journals
<1>8. f[h].nRec \in Nat /\ HasMagic(f[h])
  BY <1>4, <1>6, <1>7, SlotIs DEF HasMagic, Segment
<1>9. f[i].nonce = f[h].nonce
  BY <1>4, <1>6, <1>8 DEF Segment
<1>10. f[i] = Record(p, O[p], f[h].nonce)
  BY <1>1, <1>3, <1>7, <1>9, SlotIs
<1>11. h \in DOMAIN f /\ i \in DOMAIN f /\ h < i
  BY <1>2, <1>5 DEF Journals
<1> QED
  BY <1>4, <1>8, <1>10, <1>11 DEF Logged

-----------------------------------------------------------------------------
(* A database file and its journal.                                        *)

\* O is the database, and no journal would change it.
Settles(d, m, f, g, new, I, O) ==
    AllDurably(d, m, O) /\ SyncedPrefix(d, m) /\ NoJournal(d, m, f, g, new, I)

\* The journal is hot, and a recovery makes the database O.
RollsBack(d, m, f, g, new, O) ==
    ~Cold(f) /\ \E t \in Nat, n \in Nat : Keeps(d, m, f, g, new, O, t, n)

\* What a file in place of the image holds, it holds of the images too.
LEMMA DurablyHolds ==
    ASSUME NEW d \in Images, NEW m \in Images, NEW O \in Images, NEW K \in SUBSET Images,
           AllDurably(d, m, O), StandsFor(O, K)
    PROVE  /\ StandsFor(O, {image \in K : Holds(d, image)})
           /\ Len(d) > 0 /\ Len(m) > 0
           /\ StandsFor(d, {image \in K : Holds(d, image)})
<1>1. PICK image \in K : Holds(O, image)
  BY DEF StandsFor
<1>2. Len(image) \in Nat /\ Len(O) \in Nat /\ Len(d) \in Nat /\ Len(m) \in Nat /\ Len(O) > 0
  BY DEF Images, StandsFor
<1>3. Len(O) \in 1 .. Len(O)
  BY <1>2
<1>4. Len(O) <= Len(d) /\ Len(O) <= Len(m)
  BY <1>3 DEF AllDurably, Durably
<1>5. \A p \in 1 .. Len(image) : p \in 1 .. Len(O) /\ O[p] = image[p]
  BY <1>1, <1>2 DEF Holds
<1>6. Holds(d, image)
  BY <1>1, <1>2, <1>4, <1>5 DEF Holds, AllDurably, Durably
<1> QED
  BY <1>1, <1>2, <1>4, <1>6 DEF StandsFor

\* A page that is in the file and on the medium is there after a power loss.
LEMMA LossKeepsPages ==
    ASSUME NEW d \in Images, NEW m \in Images, NEW x \in Images, Mixes(x, d, m, Torn),
           NEW O \in Images, NEW p \in 1 .. Len(O), Durably(d, m, O, p)
    PROVE  Durably(x, x, O, p)
<1>1. p \in Nat \ {0} /\ p <= Len(d) /\ p <= Len(m) /\ d[p] = O[p] /\ m[p] = O[p]
  BY DEF Durably, Images
<1> QED
  BY <1>1 DEF Mixes, Durably

LEMMA LossKeepsFile ==
    ASSUME NEW d \in Images, NEW m \in Images, NEW x \in Images, Mixes(x, d, m, Torn),
           Len(d) > 0, Len(m) > 0
    PROVE  Len(x) > 0
<1>1. 1 \in Nat \ {0} /\ 1 <= Len(d) /\ 1 <= Len(m)
  BY DEF Images
<1>2. 1 <= Len(x)
  BY <1>1 DEF Mixes
<1> QED
  BY <1>2 DEF Images

\* A record is found in whatever agrees with the journal so far.
LEMMA RecordedAgree ==
    ASSUME NEW f \in Journals, NEW x \in Journals, NEW n \in Nat, NEW k \in Nat, n <= k,
           \A i \in 1 .. n : x[i] = f[i], NEW p, Recorded(f, 0, n, p)
    PROVE  Recorded(x, 0, k, p)
<1>1. PICK i \in 1 .. n : f[i].kind = "rec" /\ f[i].pg = p
  BY DEF Recorded
<1>2. i \in 0 + 1 .. k
  OBVIOUS
<1> QED
  BY <1>1, <1>2 DEF Recorded

LEMMA LossKeepsCover ==
    ASSUME NEW d \in Images, NEW m \in Images, NEW x \in Images, Mixes(x, d, m, Torn),
           NEW O \in Images, NEW f \in Journals, NEW g \in Journals, NEW n \in Nat, NEW k \in Nat,
           n <= k, \A i \in 1 .. n : g[i] = f[i], Covered(d, m, f, O, n)
    PROVE  Covered(x, x, g, O, k)
<1>1. Len(x) > 0
  BY LossKeepsFile DEF Covered
<1>2. ASSUME NEW p \in 1 .. Len(O) PROVE Durably(x, x, O, p) \/ Recorded(g, 0, k, p)
  BY LossKeepsPages, RecordedAgree DEF Covered
<1> QED
  BY <1>1, <1>2 DEF Covered

\* When all of it is in place no record is needed.
LEMMA AllDurablyCovers ==
    ASSUME NEW d \in Images, NEW m \in Images, NEW O \in Images, AllDurably(d, m, O), Len(O) > 0,
           NEW f, NEW n
    PROVE  Covered(d, m, f, O, n)
<1>1. Len(O) \in Nat /\ Len(d) \in Nat /\ Len(m) \in Nat /\ Len(O) \in 1 .. Len(O)
  BY DEF Images
<1>2. Len(d) > 0 /\ Len(m) > 0
  BY <1>1 DEF AllDurably, Durably
<1> QED
  BY <1>2 DEF Covered, AllDurably

LEMMA NothingRecorded ==
    ASSUME NEW d, NEW m, NEW O, NEW f
    PROVE  Covered(d, m, f, O, 0) => AllDurably(d, m, O)
BY DEF Covered, AllDurably, Recorded

LEMMA NoFileIsCold == NoFile \in Journals /\ Cold(NoFile)
BY DEF NoFile, Journals, Slots, Cold, Ends, HasMagic

LEMMA EmptyIsCold == <<>> \in Journals /\ Cold(<<>>)
BY DEF Journals, Cold, Ends

\* When the files are as they are on the medium, a journal that restores the
\* database is hot, or has nothing to restore.
LEMMA AtRestSettledOrHot ==
    ASSUME NEW d \in Images, NEW x \in Journals, NEW O \in Images, NEW t \in Nat, NEW m \in Nat,
           Chain(x, O, t, m), Covered(d, d, x, O, m), NEW K \in SUBSET Images, StandsFor(O, K)
    PROVE  \/ Settles(d, d, x, x, FALSE, {image \in K : Holds(d, image)}, O)
           \/ RollsBack(d, d, x, x, FALSE, O)
<1>1. CASE m = 0
  <2>1. AllDurably(d, d, O)
    BY <1>1, NothingRecorded
  <2>2. SyncedPrefix(d, d)
    BY DEF SyncedPrefix, Images
  <2>3. Cold(x)
    BY <1>1 DEF Chain, Cold
  <2>4. Restorable(d, d, x, {image \in K : Holds(d, image)})
    BY <1>1, <2>1, DurablyHolds DEF Restorable
  <2> QED
    BY <2>1, <2>2, <2>3, <2>4 DEF Settles, NoJournal
<1>2. CASE m > 0
  <2>1. ~Cold(x)
    BY <1>2, SegmentsAreHot DEF Chain
  <2>2. IsFile(x)
    BY <2>1, NoFileIsCold DEF IsFile
  <2>3. Keeps(d, d, x, x, FALSE, O, t, m)
    BY <2>2, ChainSurvives DEF Keeps
  <2> QED
    BY <2>1, <2>3 DEF RollsBack
<1>3. m = 0 \/ m > 0
  OBVIOUS
<1> QED
  BY ONLY <1>1, <1>2, <1>3

\* What a power loss may leave of a journal.
LossOf(x, f, g, new) ==
    \/ x = g
    \/ x = NoFile /\ (new \/ ~IsFile(f) \/ ~IsFile(g))
    \/ IsFile(f) /\ (new \/ ~IsFile(g)) /\ Mixes(x, f, <<>>, Garbage)
    \/ IsFile(f) /\ IsFile(g) /\ ~new /\ Mixes(x, f, g, Garbage) /\ (f = <<>> => x \in {f, g})

\* The files are such that a power loss leaves one of the images.
Safe(d, m, f, g, new, I, O) ==
    \/ AllDurably(d, m, O) /\ (NoJournal(d, m, f, g, new, I) \/ Undone(d, m, f, g, new, I))
    \/ \E t \in Nat, n \in Nat : Keeps(d, m, f, g, new, O, t, n)

\* A hot journal is not among the mixtures of cold ones.
LEMMA ColdMixes ==
    ASSUME NEW f \in Journals, NEW g \in Journals, NEW x \in Journals, Mixes(x, f, g, Garbage),
           Cold(f), Cold(g)
    PROVE  Cold(x)
<1> SUFFICES ASSUME 0 < Len(x) PROVE ~HasMagic(x[1])
  BY DEF Cold, Ends
<1>1. ~HasMagic(Garbage)
  BY DEF HasMagic, Garbage
<1>2. 1 \in 1 .. Len(x)
  BY DEF Journals
<1>3. \/ 1 <= Len(f) /\ x[1] = f[1]
      \/ 1 <= Len(g) /\ x[1] = g[1]
      \/ x[1] = Garbage
  BY <1>2 DEF Mixes
<1>4. Len(f) \in Nat /\ Len(g) \in Nat
  BY DEF Journals
<1> QED
  BY <1>1, <1>3, <1>4 DEF Cold, Ends

\* The images found in a file d: those of L, and of K those that the file holds.
FoundIn(d, K, L) == L \cup {image \in K : Holds(d, image)}

\* Files at rest hold one of the images of K, or a recovery makes it of them.
Leaves(e, x, K) ==
    \E P \in Images :
        /\ StandsFor(P, K)
        /\ \/ Settles(e, e, x, x, FALSE, FoundIn(e, K, {}), P)
           \/ RollsBack(e, e, x, x, FALSE, P)

\* Whatever a power loss leaves of files that are safe is one of the images, or
\* becomes one of them when the journal that is left is rolled back.
LEMMA LossRecovers ==
    ASSUME NEW d \in Images, NEW m \in Images, NEW e \in Images, Mixes(e, d, m, Torn),
           NEW f \in Journals, NEW g \in Journals, NEW x \in Journals, NEW new \in BOOLEAN,
           LossOf(x, f, g, new), NEW K \in SUBSET Images, NEW I \in SUBSET K,
           NEW O \in Images, StandsFor(O, K), Safe(d, m, f, g, new, I, O)
    PROVE  Leaves(e, x, K)
<1> DEFINE Goal == Leaves(e, x, K)
<1>0. FoundIn(e, K, {}) = {image \in K : Holds(e, image)}
  BY DEF FoundIn
<1>1. ASSUME NEW P \in Images, NEW t \in Nat, NEW k \in Nat, StandsFor(P, K),
             Chain(x, P, t, k), Covered(e, e, x, P, k)
      PROVE  Goal
  <2>1. \/ Settles(e, e, x, x, FALSE, FoundIn(e, K, {}), P)
        \/ RollsBack(e, e, x, x, FALSE, P)
    BY <1>1, <1>0, AtRestSettledOrHot
  <2> QED
    BY <1>1, <2>1 DEF Leaves
<1>2. ASSUME NEW h \in Journals, NEW P \in Images, NEW t \in Nat, NEW n \in Nat, StandsFor(P, K),
             Survives(h, g, P, t, n), Mixes(x, h, g, Garbage), Covered(d, m, h, P, n)
      PROVE  Goal
  <2>1. PICK k \in Nat : n <= k /\ Chain(x, P, t, k) /\ \A i \in 1 .. n : x[i] = h[i]
    BY <1>2, SurvivorsRestore
  <2>2. Covered(e, e, x, P, k)
    BY <1>2, <2>1, LossKeepsCover
  <2> HIDE DEF Goal
  <2> QED
    BY <1>1, <1>2, <2>1, <2>2
<1>3. ASSUME AllDurably(d, m, O), Cold(x) PROVE Goal
  <2>1. Covered(d, m, x, O, 0)
    BY <1>3, AllDurablyCovers DEF StandsFor
  <2>2. Covered(e, e, x, O, 0)
    BY <2>1, LossKeepsCover
  <2>3. Chain(x, O, 0, 0)
    BY <1>3, NoSegments
  <2> HIDE DEF Goal
  <2> QED
    BY <1>1, <2>2, <2>3
<1> SUFFICES Goal
  BY DEF Goal
<1> HIDE DEF Goal
<1>4. CASE AllDurably(d, m, O) /\ NoJournal(d, m, f, g, new, I)
  <2>1. CASE x = g
    <3>1. PICK P \in Images, t \in Nat, n \in Nat :
              StandsFor(P, I) /\ Chain(g, P, t, n) /\ Covered(d, m, g, P, n)
      BY <1>4 DEF NoJournal, Restorable
    <3>2. StandsFor(P, K)
      BY <3>1 DEF StandsFor
    <3>3. Covered(e, e, x, P, n)
      BY <2>1, <3>1, LossKeepsCover
    <3> QED
      BY <1>1, <2>1, <3>1, <3>2, <3>3
  <2>2. CASE x # g
    <3>1. CASE x = NoFile
      BY <1>3, <1>4, <3>1, NoFileIsCold
    <3>2. CASE Mixes(x, f, <<>>, Garbage)
      BY <1>3, <1>4, <3>2, EmptyIsCold, ColdMixes DEF NoJournal
    <3>3. CASE IsFile(f) /\ ~new /\ Mixes(x, f, g, Garbage)
      BY <1>3, <1>4, <3>3, ColdMixes DEF NoJournal
    <3> QED
      BY <2>2, <3>1, <3>2, <3>3 DEF LossOf
  <2> QED
    BY <2>1, <2>2
<1>5. CASE AllDurably(d, m, O) /\ Undone(d, m, f, g, new, I)
  <2> DEFINE h == OldJournal(f, g)
  <2>1. IsFile(f) /\ IsFile(g) /\ ~new /\ Cold(f) /\ ~Cold(g)
    BY <1>5 DEF Undone
  <2>2. PICK P \in Images, t \in Nat, n \in Nat :
            StandsFor(P, I) /\ Survives(h, g, P, t, n) /\ Covered(d, m, h, P, n)
    BY <1>5 DEF Undone
  <2>3. StandsFor(P, K)
    BY <2>2 DEF StandsFor
  <2>4. Len(g) \in Nat /\ Len(g) > 0 /\ 1 \in 1 .. Len(g)
    BY <2>1 DEF Cold, Ends, Journals
  <2>5. h \in Journals
    BY <2>4 DEF OldJournal, Journals
  <2>6. ASSUME ~Cold(x), x # g, f # <<>> PROVE Mixes(x, h, g, Garbage)
    <3>1. Mixes(x, f, g, Garbage)
      BY <2>1, <2>6, NoFileIsCold DEF LossOf
    <3>2. Len(f) \in Nat /\ Len(f) > 0 /\ Len(x) \in Nat /\ Len(x) > 0 /\ HasMagic(x[1])
      BY <2>6 DEF Journals, Cold, Ends
    <3>3. x[1] = g[1]
      <4>1. ~HasMagic(Garbage) /\ ~HasMagic(f[1])
        BY <2>1, <3>2 DEF HasMagic, Garbage, Cold, Ends
      <4>2. 1 \in 1 .. Len(x)
        BY <3>2
      <4> QED
        BY <3>1, <3>2, <4>1, <4>2 DEF Mixes
    <3>4. Len(h) = Len(f) /\ h[1] = g[1] /\ \A i \in 2 .. Len(f) : h[i] = f[i]
      BY <2>6, <3>2 DEF OldJournal, Journals
    <3>5. \A i \in 1 .. Len(x) :
              \/ i <= Len(h) /\ x[i] = h[i]
              \/ i <= Len(g) /\ x[i] = g[i]
              \/ x[i] = Garbage
      BY <2>4, <3>1, <3>2, <3>3, <3>4 DEF Mixes
    <3>6. \A i \in Nat \ {0} :
              i <= Len(h) /\ i <= Len(g) => i <= Len(x) /\ (h[i] = g[i] => x[i] = h[i])
      <4> TAKE i \in Nat \ {0}
      <4> HAVE i <= Len(h) /\ i <= Len(g)
      <4>1. i <= Len(x) /\ (f[i] = g[i] => x[i] = f[i])
        BY <3>1, <3>4 DEF Mixes
      <4>2. CASE i = 1
        BY <3>3, <3>4, <4>1, <4>2
      <4>3. CASE i # 1
        <5>1. i \in 2 .. Len(f)
          BY <3>2, <3>4, <4>3
        <5> QED
          BY <3>4, <4>1, <5>1
      <4> QED
        BY <4>2, <4>3
    <3> HIDE DEF h
    <3> QED
      BY <3>5, <3>6 DEF Mixes
  <2> HIDE DEF h
  <2>7. CASE Cold(x)
    BY <1>3, <1>5, <2>7
  <2>8. CASE x = g
    BY <1>2, <2>2, <2>3, <2>5, <2>8, MixesItself
  <2>9. CASE ~Cold(x) /\ x # g
    <3>1. f # <<>>
      BY <2>1, <2>9, EmptyIsCold, NoFileIsCold DEF LossOf
    <3> QED
      BY <1>2, <2>2, <2>3, <2>5, <2>6, <2>9, <3>1
  <2> QED
    BY <2>7, <2>8, <2>9
<1>6. CASE \E t \in Nat, n \in Nat : Keeps(d, m, f, g, new, O, t, n)
  <2>1. PICK t \in Nat, n \in Nat : Keeps(d, m, f, g, new, O, t, n)
    BY <1>6
  <2>2. Mixes(x, f, g, Garbage)
    BY <2>1, MixesItself DEF Keeps, LossOf
  <2> QED
    BY <1>2, <2>1, <2>2 DEF Keeps
<1> QED
  BY <1>4, <1>5, <1>6 DEF Safe

\* Files that are safe hold an image, page for page in the file or in the journal.
LEMMA SafeIsRecoverable ==
    ASSUME NEW d \in Images, NEW m \in Images, NEW f \in Journals, NEW g \in Journals, NEW new,
           NEW I, NEW K \in SUBSET Images, NEW O \in Images, StandsFor(O, K),
           Safe(d, m, f, g, new, I, O)
    PROVE  \E image \in K : \A p \in 1 .. Len(image) :
              \/ \A h \in {d, m} : p <= Len(h) /\ h[p] = image[p]
              \/ \A h \in {f, g} : Logged(h, p, image[p])
<1>1. PICK image \in K : Holds(O, image)
  BY DEF StandsFor
<1>2. \A p \in 1 .. Len(image) : p \in 1 .. Len(O) /\ O[p] = image[p]
  <2>1. Len(image) \in Nat /\ Len(O) \in Nat
    BY DEF Images
  <2> QED
    BY <1>1, <2>1 DEF Holds
<1> SUFFICES ASSUME NEW p \in 1 .. Len(image)
             PROVE  \/ Durably(d, m, O, p)
                    \/ \A h \in {f, g} : Logged(h, p, O[p])
  BY <1>2 DEF Durably
<1>3. CASE AllDurably(d, m, O)
  BY <1>2, <1>3 DEF AllDurably
<1>4. CASE \E t \in Nat, n \in Nat : Keeps(d, m, f, g, new, O, t, n)
  <2>1. PICK t \in Nat, n \in Nat : Keeps(d, m, f, g, new, O, t, n)
    BY <1>4
  <2>2. Segments(f, O, t, n) /\ n <= Len(g) /\ \A i \in 1 .. n : g[i] = f[i]
    BY <2>1 DEF Keeps, Survives
  <2>3. Segments(g, O, t, n)
    BY <2>2, SegmentsAgree
  <2>4. ASSUME Recorded(f, 0, n, p) PROVE \A h \in {f, g} : Logged(h, p, O[p])
    <3>1. Recorded(g, 0, n, p)
      BY <2>2, <2>4, RecordedAgree
    <3>2. IsFile(f) /\ IsFile(g)
      BY <2>1 DEF Keeps
    <3>3. Logged(f, p, O[p])
      BY <2>2, <2>4, <3>2, RecordedIsLogged
    <3>4. Logged(g, p, O[p])
      BY <2>3, <3>1, <3>2, RecordedIsLogged
    <3> QED
      BY <3>3, <3>4
  <2>5. Durably(d, m, O, p) \/ Recorded(f, 0, n, p)
    BY <1>2, <2>1 DEF Keeps, Covered
  <2> QED
    BY <2>4, <2>5
<1> QED
  BY <1>3, <1>4 DEF Safe

\* A transaction t that has not written to the database, or whose original the
\* segments up to n keep.
Guards(d, m, f, g, new, I, O, t, n) ==
    \/ /\ n = 0
       /\ AllDurably(d, m, O) /\ SyncedPrefix(d, m)
       /\ NoJournal(d, m, f, g, new, I) \/ Keeps(d, m, f, g, new, O, t, 0)
    \/ /\ n > 0
       /\ Keeps(d, m, f, g, new, O, t, n)

LEMMA GuardedIsSafe ==
    ASSUME NEW d, NEW m, NEW f, NEW g, NEW new, NEW I, NEW O, NEW t \in Nat, NEW n \in Nat,
           Guards(d, m, f, g, new, I, O, t, n)
    PROVE  Safe(d, m, f, g, new, I, O)
BY DEF Guards, Safe

LEMMA SettledIsSafe ==
    ASSUME NEW d, NEW m, NEW f, NEW g, NEW new, NEW I, NEW O,
           Settles(d, m, f, g, new, I, O) \/ RollsBack(d, m, f, g, new, O)
    PROVE  Safe(d, m, f, g, new, I, O)
BY DEF Settles, RollsBack, Safe

\* With no hot journal, in the file or on the medium, the database is settled.
LEMMA ColdSettles ==
    ASSUME NEW d \in Images, NEW m \in Images, NEW f \in Journals, NEW g \in Journals, NEW new,
           NEW I, NEW O \in Images, AllDurably(d, m, O), SyncedPrefix(d, m), StandsFor(O, I),
           Cold(f), Cold(g)
    PROVE  Settles(d, m, f, g, new, I, O)
<1>1. Chain(g, O, 0, 0)
  BY NoSegments
<1>2. Covered(d, m, g, O, 0)
  BY AllDurablyCovers DEF StandsFor
<1>3. Restorable(d, m, g, I)
  BY <1>1, <1>2 DEF Restorable
<1> QED
  BY <1>3 DEF Settles, NoJournal

\* What the medium has of a journal that is kept restores the database.
LEMMA KeptIsRestorable ==
    ASSUME NEW d, NEW m, NEW f \in Journals, NEW g \in Journals, NEW new, NEW I,
           NEW O \in Images, StandsFor(O, I), NEW t \in Nat, NEW n \in Nat,
           Keeps(d, m, f, g, new, O, t, n)
    PROVE  \E k \in Nat : n <= k /\ Chain(g, O, t, k) /\ Covered(d, m, g, O, k)
<1>1. PICK k \in Nat : n <= k /\ Chain(g, O, t, k) /\ \A i \in 1 .. n : g[i] = f[i]
  BY SurvivorsRestore, MixesItself DEF Keeps
<1>2. \A p : Recorded(f, 0, n, p) => Recorded(g, 0, k, p)
  BY <1>1, RecordedAgree
<1>3. Covered(d, m, g, O, k)
  BY <1>2 DEF Keeps, Covered
<1> QED
  BY <1>1, <1>3

\* ... and so does the journal as the program reads it.
LEMMA KeptIsPlayedBack ==
    ASSUME NEW d, NEW m, NEW f \in Journals, NEW g \in Journals, NEW new,
           NEW O \in Images, NEW t \in Nat, NEW n \in Nat,
           Keeps(d, m, f, g, new, O, t, n)
    PROVE  \E k \in Nat : n <= k /\ Chain(f, O, t, k) /\ Covered(d, m, f, O, k)
<1>1. PICK k \in Nat : n <= k /\ Chain(f, O, t, k)
  BY SurvivorsRestore, MixesItself DEF Keeps
<1>2. \A p : Recorded(f, 0, n, p) => Recorded(f, 0, k, p)
  BY <1>1, RecordedAgree
<1>3. Covered(d, m, f, O, k)
  BY <1>2 DEF Keeps, Covered
<1> QED
  BY <1>1, <1>3

\* A kept journal that is cold has nothing of its own behind it either.
LEMMA ColdIsCold ==
    ASSUME NEW d, NEW m, NEW f \in Journals, NEW g \in Journals, NEW new,
           NEW O \in Images, NEW t \in Nat, NEW n \in Nat,
           Keeps(d, m, f, g, new, O, t, n), Ends(f, n)
    PROVE  Ends(g, n)
<1>1. ~Counted(f, g, O, t, n)
  <2> SUFFICES ASSUME NEW k \in Nat, Completes(f, O, t, n, k) PROVE FALSE
    BY DEF Counted
  <2>1. n < Len(f) /\ HasMagic(f[n + 1])
    BY DEF Completes, Journals
  <2> QED
    BY <2>1 DEF Ends
<1> QED
  BY <1>1 DEF Keeps, Survives

\* A transaction that is given up leaves a settled database or a hot journal.
LEMMA GuardedSettlesOrRollsBack ==
    ASSUME NEW d \in Images, NEW m \in Images, NEW f \in Journals, NEW g \in Journals, NEW new,
           NEW I, NEW O \in Images, StandsFor(O, I), NEW t \in Nat, NEW n \in Nat,
           Guards(d, m, f, g, new, I, O, t, n)
    PROVE  Settles(d, m, f, g, new, I, O) \/ RollsBack(d, m, f, g, new, O)
<1>1. CASE n = 0 /\ NoJournal(d, m, f, g, new, I)
  BY <1>1 DEF Guards, Settles
<1>2. CASE n = 0 /\ Keeps(d, m, f, g, new, O, t, 0)
  <2>1. CASE Cold(f)
    <3>1. Cold(g)
      BY <1>2, <2>1, ColdIsCold DEF Cold
    <3> QED
      BY <1>2, <2>1, <3>1, ColdSettles DEF Guards
  <2>2. CASE ~Cold(f)
    BY <1>2, <2>2 DEF RollsBack
  <2> QED
    BY <2>1, <2>2
<1>3. CASE n > 0
  <2>1. Keeps(d, m, f, g, new, O, t, n)
    BY <1>3 DEF Guards
  <2>2. ~Cold(f)
    BY <1>3, <2>1, SegmentsAreHot DEF Keeps, Survives
  <2> QED
    BY <2>1, <2>2 DEF RollsBack
<1> QED
  BY <1>1, <1>2, <1>3 DEF Guards

-----------------------------------------------------------------------------
(* The end of a transaction.                                               *)

LEMMA RestorableGrows ==
    ASSUME NEW d, NEW m, NEW g, NEW I, NEW J, I \subseteq J, Restorable(d, m, g, I)
    PROVE  Restorable(d, m, g, J)
BY DEF Restorable, StandsFor

LEMMA KeptRestores ==
    ASSUME NEW d, NEW m, NEW f \in Journals, NEW g \in Journals, NEW new, NEW I,
           NEW O \in Images, StandsFor(O, I), NEW t \in Nat, NEW n \in Nat,
           Keeps(d, m, f, g, new, O, t, n)
    PROVE  Restorable(d, m, g, I)
<1>1. PICK k \in Nat : Chain(g, O, t, k) /\ Covered(d, m, g, O, k)
  BY KeptIsRestorable
<1> QED
  BY <1>1 DEF Restorable

LEMMA SuspendedRestores ==
    ASSUME NEW d, NEW m, NEW f \in Journals, NEW g \in Journals, NEW new, NEW I,
           NEW O \in Images, StandsFor(O, I),
           Settles(d, m, f, g, new, I, O) \/ RollsBack(d, m, f, g, new, O)
    PROVE  Restorable(d, m, g, I)
BY KeptRestores DEF Settles, NoJournal, RollsBack

\* The deletion of the journal decides for the image that the file has.
LEMMA DeletionSettles ==
    ASSUME NEW d, NEW m, NEW g, NEW new, NEW I, NEW O,
           AllDurably(d, m, O), SyncedPrefix(d, m), Restorable(d, m, g, I)
    PROVE  Settles(d, m, NoFile, g, new, I, O)
BY NoFileIsCold DEF Settles, NoJournal, IsFile

\* A journal whose first header is zeroed.
LEMMA ZeroedIs ==
    ASSUME NEW f \in Journals
    PROVE  /\ WriteAt(f, 1, ZeroHeader, Garbage) \in Journals
           /\ Cold(WriteAt(f, 1, ZeroHeader, Garbage))
           /\ IsFile(WriteAt(f, 1, ZeroHeader, Garbage))
           /\ WriteAt(f, 1, ZeroHeader, Garbage) # <<>>
           /\ Len(f) > 0 => WriteAt(f, 1, ZeroHeader, Garbage) = [f EXCEPT ![1] = ZeroHeader]
<1> DEFINE z == WriteAt(f, 1, ZeroHeader, Garbage)
<1>1. ZeroHeader \in Slots /\ Garbage \in Slots
  BY PagerAssumption DEF ZeroHeader, Header, Garbage, Slots, Slot, Nonce
<1>2. z \in Seq(Slots) /\ Len(z) = Larger(Len(f), 1)
      /\ \A k \in 1 .. Larger(Len(f), 1) :
            z[k] = IF k = 1 THEN ZeroHeader ELSE IF k <= Len(f) THEN f[k] ELSE Garbage
  BY <1>1, WriteAtIs DEF Journals
<1>3. Len(f) \in Nat /\ f \in Seq(Slots)
  BY DEF Journals
<1>4. Len(z) >= 1 /\ z[1] = ZeroHeader
  BY <1>2, <1>3 DEF Larger
<1>5. ~HasMagic(ZeroHeader) /\ ZeroHeader.kind = "hdr"
  BY DEF HasMagic, ZeroHeader, Header
<1>6. Cold(z)
  BY <1>4, <1>5 DEF Cold, Ends
<1>7. IsFile(z) /\ z # <<>>
  BY <1>4, <1>5 DEF IsFile, NoFile
<1>8. ASSUME Len(f) > 0 PROVE z = [f EXCEPT ![1] = ZeroHeader]
  <2>1. Len(z) = Len(f)
    BY <1>2, <1>3, <1>8 DEF Larger
  <2>2. \A k \in 1 .. Len(f) : z[k] = [f EXCEPT ![1] = ZeroHeader][k]
    BY <1>2, <1>3, <2>1
  <2>3. [f EXCEPT ![1] = ZeroHeader] \in Seq(Slots) /\ Len([f EXCEPT ![1] = ZeroHeader]) = Len(f)
    <3>1. 1 \in 1 .. Len(f)
      BY <1>3, <1>8
    <3> QED
      BY ONLY <1>1, <1>3, <3>1, ExceptSeq
  <2> HIDE DEF z
  <2> QED
    BY <1>2, <2>1, <2>2, <2>3
<1> HIDE DEF z
<1>9. z \in Journals /\ Cold(z) /\ IsFile(z) /\ z # <<>>
      /\ (Len(f) > 0 => z = [f EXCEPT ![1] = ZeroHeader])
  BY <1>2, <1>6, <1>7, <1>8 DEF Journals
<1> QED
  BY <1>9 DEF z

\* A journal that is truncated or whose header is zeroed, until that is synced.
LEMMA FinalizationUndoes ==
    ASSUME NEW d, NEW m, NEW f \in Journals, NEW g \in Journals, NEW new, NEW I,
           NEW O \in Images, StandsFor(O, I), NEW t \in Nat, NEW n \in Nat,
           Keeps(d, m, f, g, new, O, t, n), ~Cold(g),
           NEW z \in {<<>>, WriteAt(f, 1, ZeroHeader, Garbage)}
    PROVE  Undone(d, m, z, g, new, I)
<1>1. IsFile(f) /\ IsFile(g) /\ ~new /\ Survives(f, g, O, t, n) /\ Covered(d, m, f, O, n)
  BY DEF Keeps
<1>2. CASE z = <<>>
  <2>1. IsFile(z) /\ Cold(z)
    BY <1>2, EmptyIsCold DEF IsFile, NoFile
  <2>2. PICK k \in Nat : Chain(g, O, t, k) /\ Covered(d, m, g, O, k)
    BY KeptIsRestorable
  <2>3. Survives(g, g, O, t, k)
    BY <2>2, ChainSurvives
  <2>4. OldJournal(z, g) = g
    BY <1>2 DEF OldJournal
  <2> QED
    BY <1>1, <2>1, <2>2, <2>3, <2>4 DEF Undone
<1>3. CASE z = WriteAt(f, 1, ZeroHeader, Garbage)
  <2>1. z \in Journals /\ IsFile(z) /\ Cold(z) /\ z # <<>>
    BY <1>3, ZeroedIs
  <2>2. Len(f) \in Nat /\ Len(g) \in Nat /\ Len(g) > 0
    BY DEF Journals, Cold, Ends
  <2>3. Len(f) > 0 /\ g[1] = f[1]
    <3>1. CASE n > 0
      <4>1. Segments(f, O, t, n) /\ \A i \in 1 .. n : g[i] = f[i]
        BY <1>1 DEF Survives
      <4> QED
        BY <3>1, <4>1, SegmentsAreHot
    <3>2. CASE n = 0
      <4>1. ~Ends(g, 0)
        BY DEF Cold
      <4>2. PICK k \in Nat : Completes(f, O, t, 0, k) /\ (Ends(g, 0) \/ g[0 + 1] = f[0 + 1])
        BY <1>1, <3>2, <4>1 DEF Survives, Counted
      <4>3. 0 < Len(f)
        BY <2>2, <4>2 DEF Completes
      <4>4. g[0 + 1] = f[0 + 1]
        BY <4>1, <4>2
      <4> QED
        BY ONLY <4>3, <4>4, 0 + 1 = 1
    <3>3. n > 0 \/ n = 0
      OBVIOUS
    <3> QED
      BY ONLY <3>1, <3>2, <3>3
  <2>4. OldJournal(z, g) = f
    <3>1. z = [f EXCEPT ![1] = ZeroHeader]
      BY <1>3, <2>3, ZeroedIs
    <3>2. [z EXCEPT ![1] = g[1]] = [f EXCEPT ![1] = f[1]]
      BY <2>2, <2>3, <3>1 DEF Journals
    <3>3. [f EXCEPT ![1] = f[1]] = f
      BY DEF Journals
    <3> QED
      BY <2>1, <3>2, <3>3 DEF OldJournal
  <2> QED
    BY <1>1, <2>1, <2>4 DEF Undone
<1> QED
  BY <1>2, <1>3

LEMMA FinalizationDecides ==
    ASSUME NEW d \in Images, NEW m \in Images, NEW f \in Journals, NEW g \in Journals, NEW new,
           NEW I, NEW O \in Images, StandsFor(O, I), AllDurably(d, m, O), IsFile(f),
           Settles(d, m, f, g, new, I, O) \/ RollsBack(d, m, f, g, new, O),
           NEW z \in {<<>>, WriteAt(f, 1, ZeroHeader, Garbage)}
    PROVE  IsFile(z) /\ Cold(z) /\ (NoJournal(d, m, z, g, new, I) \/ Undone(d, m, z, g, new, I))
<1>1. IsFile(z) /\ Cold(z)
  BY ZeroedIs, EmptyIsCold DEF IsFile, NoFile
<1>2. Restorable(d, m, g, I)
  BY SuspendedRestores
<1>3. CASE Cold(g)
  BY <1>1, <1>2, <1>3 DEF NoJournal
<1>4. CASE Settles(d, m, f, g, new, I, O) /\ ~Cold(g)
  BY <1>1, <1>2, <1>4 DEF NoJournal, Settles
<1>5. CASE RollsBack(d, m, f, g, new, O) /\ ~Cold(g)
  <2>1. PICK t \in Nat, n \in Nat : Keeps(d, m, f, g, new, O, t, n)
    BY <1>5 DEF RollsBack
  <2> QED
    BY <1>1, <1>5, <2>1, FinalizationUndoes
<1> QED
  BY <1>1, <1>3, <1>4, <1>5

-----------------------------------------------------------------------------
(* Writing to the database.                                                *)

\* A write is safe when it leaves alone what is in place, or has its record.
LEMMA WriteKeepsCover ==
    ASSUME NEW d, NEW m, NEW d2, NEW m2, NEW f, NEW O, NEW n, Covered(d, m, f, O, n),
           Len(d2) > 0, Len(m2) > 0,
           \A p \in 1 .. Len(O) :
              Durably(d, m, O, p) => Durably(d2, m2, O, p) \/ Recorded(f, 0, n, p)
    PROVE  Covered(d2, m2, f, O, n)
BY DEF Covered

LEMMA WriteKeeps ==
    ASSUME NEW d, NEW m, NEW d2, NEW m2, NEW f, NEW g, NEW new, NEW O, NEW t, NEW n,
           Keeps(d, m, f, g, new, O, t, n), Len(d2) > 0, Len(m2) > 0,
           \A p \in 1 .. Len(O) :
              Durably(d, m, O, p) => Durably(d2, m2, O, p) \/ Recorded(f, 0, n, p)
    PROVE  Keeps(d2, m2, f, g, new, O, t, n)
BY WriteKeepsCover DEF Keeps

\* A sync of the database keeps what is in place.
LEMMA SyncKeepsPages ==
    ASSUME NEW d, NEW m, NEW O, NEW p, Durably(d, m, O, p)
    PROVE  Durably(d, d, O, p)
BY DEF Durably

\* OsWrite of a page.
LEMMA PageWritten ==
    ASSUME NEW d \in Images, NEW p \in Page, NEW v \in Content
    PROVE  /\ WriteAt(d, p, v, 0) \in Images
           /\ Len(WriteAt(d, p, v, 0)) = Larger(Len(d), p)
           /\ Len(WriteAt(d, p, v, 0)) > 0
           /\ p <= Len(WriteAt(d, p, v, 0)) /\ WriteAt(d, p, v, 0)[p] = v
           /\ Len(d) <= MaxPage => Len(WriteAt(d, p, v, 0)) <= MaxPage
           /\ \A q \in 1 .. Len(d) :
                 q <= Len(WriteAt(d, p, v, 0)) /\ (q # p => WriteAt(d, p, v, 0)[q] = d[q])
<1>1. 0 \in Content
  BY PagerAssumption DEF Content
<1>2. p \in Nat \ {0} /\ p <= MaxPage /\ MaxPage \in Nat /\ Len(d) \in Nat
  BY PagerAssumption DEF Page, Images
<1> DEFINE w == WriteAt(d, p, v, 0)
<1>3. /\ w \in Seq(Content) /\ Len(w) = Larger(Len(d), p)
      /\ \A k \in 1 .. Larger(Len(d), p) :
            w[k] = IF k = p THEN v ELSE IF k <= Len(d) THEN d[k] ELSE 0
  BY <1>1, <1>2, WriteAtIs DEF Images
<1>4. Larger(Len(d), p) \in Nat /\ Larger(Len(d), p) >= p /\ Larger(Len(d), p) >= Len(d)
      /\ (Len(d) <= MaxPage => Larger(Len(d), p) <= MaxPage)
  BY <1>2 DEF Larger
<1> HIDE DEF w
<1>5. w \in Images /\ Len(w) = Larger(Len(d), p) /\ Len(w) > 0 /\ p <= Len(w) /\ w[p] = v
      /\ (Len(d) <= MaxPage => Len(w) <= MaxPage)
  BY <1>2, <1>3, <1>4 DEF Images
<1>6. ASSUME NEW q \in 1 .. Len(d) PROVE q <= Len(w) /\ (q # p => w[q] = d[q])
  <2>1. q \in 1 .. Larger(Len(d), p) /\ q <= Len(d)
    BY <1>2, <1>4
  <2> QED
    BY <1>3, <1>4, <2>1
<1> QED
  BY <1>5, <1>6 DEF w

\* The write of a page changes no other page that is in place.
LEMMA PageWriteKeeps ==
    ASSUME NEW d \in Images, NEW m \in Images, NEW p \in Page, NEW v \in Content,
           NEW O \in Images, NEW q \in 1 .. Len(O), Durably(d, m, O, q), q # p
    PROVE  Durably(WriteAt(d, p, v, 0), m, O, q)
<1>1. q \in 1 .. Len(d)
  BY DEF Durably, Images
<1> QED
  BY <1>1, PageWritten DEF Durably

\* A truncation that is not shorter than the original keeps it.
LEMMA TruncationKeeps ==
    ASSUME NEW d \in Images, NEW m \in Images, NEW O \in Images, NEW n \in Nat, Len(O) <= n,
           NEW p \in 1 .. Len(O), Durably(d, m, O, p)
    PROVE  Durably(Cut(d, n), m, O, p)
<1>1. p \in 1 .. Smaller(n, Len(d))
  BY DEF Durably, Images, Smaller
<1> QED
  BY <1>1, CutIs DEF Durably, Images

-----------------------------------------------------------------------------
(* The journal that transaction t writes.                                  *)

OfTxn(s, t) == s.kind \in {"hdr", "rec"} /\ s.nonce[1] = t

\* The segment whose header is behind h goes on; it may lack its count.
LastSegment(f, O, t, h, e) ==
    /\ f[h + 1].kind = "hdr" /\ f[h + 1].nonce = <<t, h>> /\ f[h + 1].size = Len(O)
    /\ f[h + 1].nRec \in {0, e - h - 1}
    /\ f[h + 1].nRec # 0 => f[h + 1].magic /\ Ends(f, e)
    /\ \A i \in h + 2 .. e :
          f[i].kind = "rec" /\ f[i].nonce = <<t, h>> /\ Original(f[i], O)

\* Segments up to h, then one with records up to e, or none.  What an attempt to
\* write to the journal has left behind e is a record of the original too.
Own(f, O, t, h, e) ==
    /\ 0 < e /\ h <= e /\ e <= Len(f)
    /\ Segments(f, O, t, h)
    /\ h < e => LastSegment(f, O, t, h, e)
    /\ h = e => Ends(f, e)
    /\ \A i \in e + 1 .. Len(f) : OfTxn(f[i], t) => f[i].kind = "rec" /\ Original(f[i], O)

Uncounted(f, h) == ~f[h + 1].magic /\ f[h + 1].nRec = 0

\* OsWrite of a slot.
LEMMA SlotWritten ==
    ASSUME NEW f \in Journals, NEW k \in Nat \ {0}, NEW s \in Slots
    PROVE  /\ WriteAt(f, k, s, Garbage) \in Journals
           /\ Len(WriteAt(f, k, s, Garbage)) = Larger(Len(f), k)
           /\ k <= Len(WriteAt(f, k, s, Garbage)) /\ WriteAt(f, k, s, Garbage)[k] = s
           /\ \A i \in 1 .. Len(f) :
                 i <= Len(WriteAt(f, k, s, Garbage)) /\ (i # k => WriteAt(f, k, s, Garbage)[i] = f[i])
           /\ \A i \in 1 .. Len(WriteAt(f, k, s, Garbage)) :
                 \/ i = k
                 \/ i <= Len(f) /\ WriteAt(f, k, s, Garbage)[i] = f[i]
                 \/ WriteAt(f, k, s, Garbage)[i] = Garbage
<1> DEFINE w == WriteAt(f, k, s, Garbage)
<1>1. Garbage \in Slots
  BY DEF Garbage, Slots, Slot
<1>2. /\ w \in Seq(Slots) /\ Len(w) = Larger(Len(f), k)
      /\ \A i \in 1 .. Larger(Len(f), k) :
            w[i] = IF i = k THEN s ELSE IF i <= Len(f) THEN f[i] ELSE Garbage
  BY <1>1, WriteAtIs DEF Journals
<1>3. Len(f) \in Nat
  BY DEF Journals
<1>4. Larger(Len(f), k) \in Nat /\ Larger(Len(f), k) >= k /\ Larger(Len(f), k) >= Len(f)
  BY <1>3 DEF Larger
<1> HIDE DEF w
<1>5. w \in Journals /\ Len(w) = Larger(Len(f), k) /\ k <= Len(w) /\ w[k] = s
  BY <1>2, <1>4 DEF Journals
<1>6. ASSUME NEW i \in 1 .. Len(f) PROVE i <= Len(w) /\ (i # k => w[i] = f[i])
  <2>1. i \in 1 .. Larger(Len(f), k) /\ i <= Len(f)
    BY <1>3, <1>4
  <2> QED
    BY <1>2, <1>4, <2>1
<1>7. ASSUME NEW i \in 1 .. Len(w) PROVE i = k \/ (i <= Len(f) /\ w[i] = f[i]) \/ w[i] = Garbage
  BY <1>2
<1> QED
  BY <1>5, <1>6, <1>7 DEF w

LEMMA GarbageIs == Garbage \in Slots /\ ~HasMagic(Garbage) /\ \A t : ~OfTxn(Garbage, t)
BY DEF Garbage, Slots, Slot, HasMagic, OfTxn

LEMMA HeaderIs ==
    ASSUME NEW t \in 0 .. MaxTxn, NEW h \in Nat, NEW n \in 0 .. MaxPage
    PROVE  /\ Header(FALSE, 0, <<t, h>>, n) \in Slots
           /\ ~HasMagic(Header(FALSE, 0, <<t, h>>, n))
           /\ Header(FALSE, 0, <<t, h>>, n).kind = "hdr"
           /\ Header(FALSE, 0, <<t, h>>, n).nonce = <<t, h>>
           /\ Header(FALSE, 0, <<t, h>>, n).size = n
           /\ Header(FALSE, 0, <<t, h>>, n).nRec = 0
           /\ ~Header(FALSE, 0, <<t, h>>, n).magic
           /\ OfTxn(Header(FALSE, 0, <<t, h>>, n), t)
BY DEF Header, Slots, Slot, Nonce, HasMagic, OfTxn

LEMMA RecordIs ==
    ASSUME NEW t \in 0 .. MaxTxn, NEW h \in Nat, NEW p \in Page, NEW v \in Content
    PROVE  /\ Record(p, v, <<t, h>>) \in Slots
           /\ ~HasMagic(Record(p, v, <<t, h>>))
           /\ Record(p, v, <<t, h>>).kind = "rec"
           /\ Record(p, v, <<t, h>>).nonce = <<t, h>>
           /\ Record(p, v, <<t, h>>).pg = p
           /\ Record(p, v, <<t, h>>).val = v
BY DEF Record, Slots, Slot, Nonce, HasMagic

LEMMA OwnIsFile ==
    ASSUME NEW f \in Journals, NEW O, NEW t, NEW h \in Nat, NEW e \in Nat, Own(f, O, t, h, e)
    PROVE  IsFile(f) /\ Len(f) > 0 /\ Len(f) \in Nat /\ f[1].kind = "hdr"
<1>1. f[1].kind = "hdr"
  <2>1. CASE h > 0
    BY <2>1 DEF Own, Segments
  <2>2. CASE h = 0
    <3>1. f[0 + 1].kind = "hdr"
      BY <2>2 DEF Own, LastSegment
    <3> QED
      BY ONLY <3>1, 0 + 1 = 1
  <2>3. h > 0 \/ h = 0
    OBVIOUS
  <2> QED
    BY ONLY <2>1, <2>2, <2>3
<1>2. Len(f) \in Nat /\ Len(f) > 0
  BY DEF Own, Journals
<1> QED
  BY <1>1, <1>2 DEF IsFile, NoFile

\* A header without its magic number ends the segments before it.
LEMMA UncountedEnds ==
    ASSUME NEW f, NEW h, Uncounted(f, h)
    PROVE  Ends(f, h)
BY DEF Uncounted, Ends, HasMagic

\* The journal does not depend on what is behind it.
LEMMA OwnAgree ==
    ASSUME NEW f \in Journals, NEW x \in Journals, NEW O, NEW t, NEW h \in Nat, NEW e \in Nat,
           Own(f, O, t, h, e), e <= Len(x), \A i \in 1 .. e : x[i] = f[i],
           (h < e /\ f[h + 1].nRec = 0) \/ Ends(x, e),
           \A i \in e + 1 .. Len(x) : OfTxn(x[i], t) => x[i].kind = "rec" /\ Original(x[i], O)
    PROVE  Own(x, O, t, h, e)
<1>1. 0 < e /\ h <= e /\ h <= Len(x)
  BY DEF Own, Journals
<1>2. Segments(x, O, t, h)
  BY <1>1, SegmentsAgree DEF Own
<1>3. ASSUME h < e PROVE LastSegment(x, O, t, h, e)
  <2>1. x[h + 1] = f[h + 1]
    BY <1>3
  <2>2. \A i \in h + 2 .. e : x[i] = f[i]
    OBVIOUS
  <2>3. LastSegment(f, O, t, h, e)
    BY <1>3 DEF Own
  <2> HIDE DEF Ends
  <2> QED
    BY <2>1, <2>2, <2>3 DEF LastSegment
<1>4. h = e => Ends(x, e)
  OBVIOUS
<1> QED
  BY <1>1, <1>2, <1>3, <1>4 DEF Own

\* pager_open_journal begins with a header in place of whatever was there.
LEMMA JournalBegins ==
    ASSUME NEW f \in Journals, NEW O \in Images, Len(O) \in 0 .. MaxPage, NEW t \in 0 .. MaxTxn,
           \A i \in 2 .. Len(f) : ~OfTxn(f[i], t),
           NEW x, x = WriteAt(f, 1, Header(FALSE, 0, <<t, 0>>, Len(O)), Garbage)
    PROVE  x \in Journals /\ IsFile(x) /\ Cold(x) /\ Uncounted(x, 0) /\ Own(x, O, t, 0, 1)
<1> DEFINE s == Header(FALSE, 0, <<t, 0>>, Len(O))
<1>1. /\ s \in Slots /\ ~HasMagic(s) /\ s.kind = "hdr" /\ s.nonce = <<t, 0>> /\ s.size = Len(O)
      /\ s.nRec = 0 /\ ~s.magic
  BY ZenonT(40), HeaderIs
<1> HIDE DEF s
<1>2. /\ x \in Journals /\ 1 <= Len(x) /\ x[1] = s /\ Len(x) \in Nat
      /\ \A i \in 1 .. Len(x) : i = 1 \/ (i <= Len(f) /\ x[i] = f[i]) \/ x[i] = Garbage
  <2>1. x = WriteAt(f, 1, s, Garbage)
    BY DEF s
  <2>2. f \in Journals /\ s \in Slots /\ 1 \in Nat \ {0}
    BY <1>1
  <2>3. /\ x \in Journals /\ 1 <= Len(x) /\ x[1] = s
        /\ \A i \in 1 .. Len(x) : i = 1 \/ (i <= Len(f) /\ x[i] = f[i]) \/ x[i] = Garbage
    <3> DEFINE w == WriteAt(f, 1, s, Garbage)
    <3>1. /\ w \in Journals /\ 1 <= Len(w) /\ w[1] = s
          /\ \A i \in 1 .. Len(w) : i = 1 \/ (i <= Len(f) /\ w[i] = f[i]) \/ w[i] = Garbage
      BY ONLY <2>2, SlotWritten
    <3> QED
      BY ONLY <2>1, <3>1
  <2>4. Len(x) \in Nat
    BY ONLY <2>3 DEF Journals
  <2> QED
    BY ONLY <2>3, <2>4
<1>3. IsFile(x)
  BY ONLY <1>1, <1>2 DEF IsFile, NoFile
<1>4. Cold(x) /\ Uncounted(x, 0)
  BY ONLY <1>1, <1>2 DEF Cold, Ends, Uncounted
<1>5. LastSegment(x, O, t, 0, 1)
  BY ONLY <1>1, <1>2 DEF LastSegment
<1>6. \A i \in 1 + 1 .. Len(x) : ~OfTxn(x[i], t)
  <2>1. ASSUME NEW i \in 2 .. Len(x) PROVE ~OfTxn(x[i], t)
    <3>1. i \in 1 .. Len(x) /\ i # 1
      BY ONLY <1>2, i \in 2 .. Len(x)
    <3>2. (i <= Len(f) /\ x[i] = f[i]) \/ x[i] = Garbage
      BY ONLY <1>2, <3>1
    <3>3. i <= Len(f) => i \in 2 .. Len(f)
      BY ONLY i \in 2 .. Len(x), f \in Journals DEF Journals
    <3> QED
      BY ONLY <3>2, <3>3, GarbageIs, \A j \in 2 .. Len(f) : ~OfTxn(f[j], t)
  <2> QED
    BY ONLY <2>1, 1 + 1 = 2
<1>7. Segments(x, O, t, 0)
  BY ONLY <1>2, NoSegments
<1>8. Own(x, O, t, 0, 1)
  BY ONLY <1>2, <1>5, <1>6, <1>7 DEF Own
<1> QED
  BY <1>2, <1>3, <1>4, <1>8

\* A write behind the journal, of a record of the original or of garbage ...
LEMMA JournalWritten ==
    ASSUME NEW f \in Journals, NEW O \in Images, NEW t \in 0 .. MaxTxn, NEW h \in Nat, NEW e \in Nat,
           Own(f, O, t, h, e), h < e, Uncounted(f, h),
           NEW s \in Slots, s = Garbage \/ (s.kind = "rec" /\ Original(s, O)),
           NEW x, x = WriteAt(f, e + 1, s, Garbage)
    PROVE  /\ x \in Journals /\ IsFile(x) /\ e < Len(x) /\ x[e + 1] = s
           /\ Own(x, O, t, h, e)
           /\ Uncounted(x, h)
           /\ \A i \in 1 .. e : x[i] = f[i]
<1>1. e <= Len(f) /\ Len(f) \in Nat
  BY DEF Own, Journals
<1>2. /\ x \in Journals /\ e < Len(x) /\ x[e + 1] = s /\ Len(x) \in Nat
      /\ \A i \in 1 .. e : x[i] = f[i]
      /\ \A i \in 1 .. Len(x) : i = e + 1 \/ (i <= Len(f) /\ x[i] = f[i]) \/ x[i] = Garbage
  <2>1. x = WriteAt(f, e + 1, s, Garbage)
    OBVIOUS
  <2>0. f \in Journals /\ s \in Slots /\ e + 1 \in Nat \ {0}
    OBVIOUS
  <2>2. /\ x \in Journals /\ e + 1 <= Len(x) /\ x[e + 1] = s
        /\ \A i \in 1 .. Len(f) : i <= Len(x) /\ (i # e + 1 => x[i] = f[i])
        /\ \A i \in 1 .. Len(x) : i = e + 1 \/ (i <= Len(f) /\ x[i] = f[i]) \/ x[i] = Garbage
    <3> DEFINE w == WriteAt(f, e + 1, s, Garbage)
    <3>1. /\ w \in Journals /\ e + 1 <= Len(w) /\ w[e + 1] = s
          /\ \A i \in 1 .. Len(f) : i <= Len(w) /\ (i # e + 1 => w[i] = f[i])
          /\ \A i \in 1 .. Len(w) : i = e + 1 \/ (i <= Len(f) /\ w[i] = f[i]) \/ w[i] = Garbage
      BY ONLY <2>0, SlotWritten
    <3> QED
      BY ONLY <2>1, <3>1
  <2>3. Len(x) \in Nat
    BY ONLY <2>2 DEF Journals
  <2>4. e \in Nat
    OBVIOUS
  <2>5. \A i \in 1 .. e : i \in 1 .. Len(f) /\ i # e + 1
    BY ONLY <1>1, <2>4
  <2>6. e < Len(x)
    BY ONLY <2>2, <2>3, <2>4
  <2>7. \A i \in 1 .. e : x[i] = f[i]
    BY ONLY <2>2, <2>5
  <2> QED
    BY ONLY <2>2, <2>3, <2>6, <2>7
<1>3. f[h + 1].nRec = 0 /\ x[h + 1] = f[h + 1]
  BY <1>2 DEF Uncounted
<1>4. ASSUME NEW i \in e + 1 .. Len(x), OfTxn(x[i], t)
      PROVE  x[i].kind = "rec" /\ Original(x[i], O)
  <2>1. CASE i = e + 1
    BY <1>2, <1>4, <2>1, GarbageIs
  <2>2. CASE i # e + 1
    <3>1. i <= Len(f) /\ x[i] = f[i]
      BY <1>1, <1>2, <1>4, <2>2, GarbageIs
    <3>2. i \in e + 1 .. Len(f)
      BY <1>1, <3>1
    <3> QED
      BY <1>4, <3>1, <3>2 DEF Own
  <2> QED
    BY <2>1, <2>2
<1>5. Own(x, O, t, h, e)
  BY SMTT(40), <1>2, <1>3, <1>4, OwnAgree
<1>6. Uncounted(x, h)
  BY <1>3 DEF Uncounted
<1> QED
  BY <1>2, <1>5, <1>6, OwnIsFile

\* ... and the record joins the last segment when it counts.
LEMMA RecordJoins ==
    ASSUME NEW f \in Journals, NEW O \in Images, NEW t \in 0 .. MaxTxn, NEW h \in Nat, NEW e \in Nat,
           Own(f, O, t, h, e), h < e, Uncounted(f, h), e < Len(f),
           f[e + 1].kind = "rec", f[e + 1].nonce = <<t, h>>, Original(f[e + 1], O)
    PROVE  Own(f, O, t, h, e + 1)
<1>1. LastSegment(f, O, t, h, e) /\ f[h + 1].nRec = 0
  BY DEF Own, Uncounted
<1>2. ASSUME NEW i \in h + 2 .. e + 1
      PROVE  f[i].kind = "rec" /\ f[i].nonce = <<t, h>> /\ Original(f[i], O)
  <2>1. CASE i = e + 1
    BY <2>1
  <2>2. CASE i # e + 1
    <3>1. i \in h + 2 .. e
      BY <2>2
    <3> QED
      BY <1>1, <3>1 DEF LastSegment
  <2> QED
    BY <2>1, <2>2
<1>3. LastSegment(f, O, t, h, e + 1)
  BY <1>1, <1>2 DEF LastSegment
<1>4. 0 < e + 1 /\ h < e + 1 /\ e + 1 <= Len(f) /\ h # e + 1
  BY DEF Journals
<1>5. \A i \in e + 1 + 1 .. Len(f) : i \in e + 1 .. Len(f)
  BY DEF Journals
<1> QED
  BY <1>3, <1>4, <1>5 DEF Own

\* Without the magic number of a stale header behind it (WithoutStaleHeader).
Unstale(f, e) ==
    IF e + 1 <= Len(f) /\ HasMagic(f[e + 1]) THEN [f EXCEPT ![e + 1].magic = FALSE] ELSE f

LEMMA StaleHeaderGone ==
    ASSUME NEW f \in Journals, NEW O \in Images, NEW t \in 0 .. MaxTxn, NEW h \in Nat, NEW e \in Nat,
           Own(f, O, t, h, e), h < e, Uncounted(f, h),
           NEW x, x = Unstale(f, e)
    PROVE  /\ x \in Journals /\ IsFile(x)
           /\ Own(x, O, t, h, e) /\ Ends(x, e)
           /\ Uncounted(x, h)
           /\ \A i \in 1 .. e : x[i] = f[i]
           /\ Len(x) = Len(f)
           /\ \A i \in 1 .. Len(x) : x[i].kind \in {"hdr", "rec"} => f[i].kind \in {"hdr", "rec"} /\ x[i].nonce = f[i].nonce
<1>1. e <= Len(f) /\ Len(f) \in Nat
  BY DEF Own, Journals
<1>2. CASE ~(e + 1 <= Len(f) /\ HasMagic(f[e + 1]))
  <2>1. x = f
    BY <1>2 DEF Unstale
  <2>2. Ends(f, e)
    BY <1>1, <1>2 DEF Ends
  <2> QED
    BY <2>1, <2>2, OwnIsFile
<1>3. CASE e + 1 <= Len(f) /\ HasMagic(f[e + 1])
  <2> DEFINE s == [f[e + 1] EXCEPT !.magic = FALSE]
  <2>1. x = [f EXCEPT ![e + 1] = s]
    BY <1>3 DEF Unstale
  <2>2. e + 1 \in 1 .. Len(f) /\ f[e + 1] \in Slots
    BY <1>1, <1>3 DEF Journals
  <2>3. f[e + 1].kind = "hdr"
    BY <1>3 DEF HasMagic
  <2>4. s \in Slots /\ s.kind = "hdr" /\ ~s.magic /\ s.nonce = f[e + 1].nonce
    <3>1. f[e + 1] \in [kind : {"hdr"}, magic : BOOLEAN, nRec : Nat, nonce : Nonce, size : 0 .. MaxPage]
      <4>1. ASSUME f[e + 1] \in [kind : {"rec"}, pg : Page, val : Content, nonce : Nonce] PROVE FALSE
        BY <2>3, <4>1
      <4>2. ASSUME f[e + 1] \in {Garbage, [kind |-> "nofile"]} PROVE FALSE
        BY <2>3, <4>2 DEF Garbage
      <4> QED
        BY <2>2, <4>1, <4>2 DEF Slots, Slot
    <3>2. s \in [kind : {"hdr"}, magic : BOOLEAN, nRec : Nat, nonce : Nonce, size : 0 .. MaxPage]
          /\ s.kind = "hdr" /\ ~s.magic /\ s.nonce = f[e + 1].nonce
      BY <3>1
    <3> QED
      BY <3>2 DEF Slots, Slot
  <2> HIDE DEF s
  <2>5. x \in Seq(Slots) /\ Len(x) = Len(f) /\ \A i \in 1 .. Len(f) : x[i] = IF i = e + 1 THEN s ELSE f[i]
    BY ONLY <2>1, <2>2, <2>4, ExceptSeq, f \in Seq(Slots) DEF Journals
  <2>6. x \in Journals
    BY <2>5 DEF Journals
  <2>7. \A i \in 1 .. e : x[i] = f[i]
    BY <1>1, <2>5
  <2>8. x[e + 1] = s /\ ~HasMagic(s)
    BY <2>2, <2>4, <2>5 DEF HasMagic
  <2>9. Ends(x, e)
    BY <2>8 DEF Ends
  <2>10. ASSUME NEW i \in e + 1 .. Len(x), OfTxn(x[i], t)
         PROVE  x[i].kind = "rec" /\ Original(x[i], O)
    <3>1. i \in e + 1 .. Len(f) /\ i \in 1 .. Len(f)
      BY <1>1, <2>5
    <3>2. OfTxn(f[i], t) => f[i].kind = "rec" /\ Original(f[i], O)
      BY <3>1 DEF Own
    <3>3. CASE i = e + 1
      <4>1. OfTxn(f[e + 1], t)
        BY <2>3, <2>4, <2>8, <2>10, <3>3 DEF OfTxn
      <4> QED
        BY <2>3, <3>2, <3>3, <4>1
    <3>4. CASE i # e + 1
      <4>1. x[i] = f[i]
        BY <2>5, <3>1, <3>4
      <4> QED
        BY <2>10, <3>2, <4>1
    <3> QED
      BY <3>3, <3>4
  <2>11. e <= Len(x)
    BY <1>1, <2>5
  <2>12. Own(x, O, t, h, e)
    BY <2>6, <2>7, <2>9, <2>10, <2>11, OwnAgree
  <2>13. Uncounted(x, h)
    BY <2>7 DEF Uncounted
  <2>14. ASSUME NEW i \in 1 .. Len(x), x[i].kind \in {"hdr", "rec"}
         PROVE  f[i].kind \in {"hdr", "rec"} /\ x[i].nonce = f[i].nonce
    BY <2>3, <2>4, <2>5, <2>14
  <2> QED
    BY <2>5, <2>6, <2>7, <2>9, <2>12, <2>13, <2>14, OwnIsFile
<1> QED
  BY <1>2, <1>3

\* With magic number and count in the header behind h (WithCount).
Counting(f, h, c) == [f EXCEPT ![h + 1].magic = TRUE, ![h + 1].nRec = c]

LEMMA CountingIs ==
    ASSUME NEW f \in Journals, NEW h \in Nat, h + 1 <= Len(f), f[h + 1].kind = "hdr", NEW c \in Nat
    PROVE  /\ Counting(f, h, c) \in Journals /\ Len(Counting(f, h, c)) = Len(f)
           /\ \A i \in 1 .. Len(f) : i # h + 1 => Counting(f, h, c)[i] = f[i]
           /\ Counting(f, h, c)[h + 1].kind = "hdr" /\ Counting(f, h, c)[h + 1].magic
           /\ Counting(f, h, c)[h + 1].nRec = c
           /\ Counting(f, h, c)[h + 1].nonce = f[h + 1].nonce
           /\ Counting(f, h, c)[h + 1].size = f[h + 1].size
<1> DEFINE s == [[f[h + 1] EXCEPT !.magic = TRUE] EXCEPT !.nRec = c]
<1>1. h + 1 \in 1 .. Len(f) /\ f[h + 1] \in Slots
  BY DEF Journals
<1>2. Counting(f, h, c) = [f EXCEPT ![h + 1] = s]
  <2>1. f \in [1 .. Len(f) -> Slots]
    BY DEF Journals
  <2> QED
    BY <1>1, <2>1 DEF Counting
<1>3. /\ s \in Slots /\ s.kind = "hdr" /\ s.magic /\ s.nRec = c
      /\ s.nonce = f[h + 1].nonce /\ s.size = f[h + 1].size
  <2>1. f[h + 1] \in [kind : {"hdr"}, magic : BOOLEAN, nRec : Nat, nonce : Nonce, size : 0 .. MaxPage]
    <3>1. ASSUME f[h + 1] \in [kind : {"rec"}, pg : Page, val : Content, nonce : Nonce] PROVE FALSE
      BY <3>1
    <3>2. ASSUME f[h + 1] \in {Garbage, [kind |-> "nofile"]} PROVE FALSE
      BY <3>2 DEF Garbage
    <3> QED
      BY <1>1, <3>1, <3>2 DEF Slots, Slot
  <2>2. /\ s \in [kind : {"hdr"}, magic : BOOLEAN, nRec : Nat, nonce : Nonce, size : 0 .. MaxPage]
        /\ s.kind = "hdr" /\ s.magic /\ s.nRec = c
        /\ s.nonce = f[h + 1].nonce /\ s.size = f[h + 1].size
    BY <2>1
  <2> QED
    BY <2>2 DEF Slots, Slot
<1> HIDE DEF s
<1> DEFINE x == Counting(f, h, c)
<1>4. x \in Seq(Slots) /\ Len(x) = Len(f) /\ \A i \in 1 .. Len(f) : x[i] = IF i = h + 1 THEN s ELSE f[i]
  BY ONLY <1>1, <1>2, <1>3, ExceptSeq, f \in Seq(Slots) DEF Journals
<1> QED
  BY <1>1, <1>3, <1>4 DEF Journals

\* The count, of all of the records or of none, can survive a power loss or not.
LEMMA CountWritten ==
    ASSUME NEW f \in Journals, NEW O, NEW t, NEW h \in Nat, NEW e \in Nat,
           Own(f, O, t, h, e), h < e, Uncounted(f, h), Ends(f, e),
           NEW c \in {0, e - h - 1}, NEW x, x = Counting(f, h, c)
    PROVE  /\ x \in Journals /\ IsFile(x) /\ Len(x) = Len(f)
           /\ \A i \in 1 .. Len(f) : i # h + 1 => x[i] = f[i]
           /\ x[h + 1].magic /\ x[h + 1].nRec = c
           /\ x[h + 1].kind = "hdr" /\ x[h + 1].nonce = f[h + 1].nonce
           /\ Own(x, O, t, h, e) /\ Ends(x, e)
           /\ Segments(x, O, t, h) /\ Counted(x, f, O, t, h)
<1>1. h + 1 <= e /\ e <= Len(f) /\ Len(f) \in Nat /\ c \in Nat /\ 0 < e
  BY DEF Own, Journals
<1>2. LastSegment(f, O, t, h, e)
  BY DEF Own
<1>3. f[h + 1].kind = "hdr" /\ f[h + 1].nonce = <<t, h>> /\ f[h + 1].size = Len(O)
  BY <1>2 DEF LastSegment
<1>4. /\ x \in Journals /\ Len(x) = Len(f)
      /\ \A i \in 1 .. Len(f) : i # h + 1 => x[i] = f[i]
      /\ x[h + 1].kind = "hdr" /\ x[h + 1].magic /\ x[h + 1].nRec = c
      /\ x[h + 1].nonce = f[h + 1].nonce /\ x[h + 1].size = f[h + 1].size
  BY <1>1, <1>3, CountingIs
<1>5. Ends(x, e)
  <2> SUFFICES ASSUME e < Len(x) PROVE ~HasMagic(x[e + 1])
    BY DEF Ends
  <2>1. e + 1 \in 1 .. Len(f) /\ e + 1 # h + 1
    BY <1>1, <1>4
  <2> QED
    BY <1>4, <2>1 DEF Ends
<1>6. Segments(x, O, t, h)
  <2>1. \A i \in 1 .. h : i \in 1 .. Len(f) /\ i # h + 1
    BY <1>1
  <2> QED
    BY <1>1, <1>4, <2>1, SegmentsAgree DEF Own
<1>7. \A i \in h + 2 .. e : x[i] = f[i] /\ f[i].kind = "rec" /\ f[i].nonce = <<t, h>> /\ Original(f[i], O)
  BY <1>1, <1>2, <1>4 DEF LastSegment
<1>8. LastSegment(x, O, t, h, e)
  <2> HIDE DEF Ends
  <2> QED
    BY <1>3, <1>4, <1>5, <1>7 DEF LastSegment
<1>9. ASSUME NEW i \in e + 1 .. Len(x), OfTxn(x[i], t)
      PROVE  x[i].kind = "rec" /\ Original(x[i], O)
  <2>1. i \in e + 1 .. Len(f) /\ x[i] = f[i]
    BY <1>1, <1>4
  <2> QED
    BY <1>9, <2>1 DEF Own
<1>10. Own(x, O, t, h, e)
  BY <1>1, <1>4, <1>6, <1>8, <1>9 DEF Own
<1>11. Counted(x, f, O, t, h)
  <2> DEFINE m == h + 1 + c
  <2>1. m \in Nat /\ h < m /\ m <= e
    BY <1>1
  <2>2. Completes(x, O, t, h, m)
    <3>1. \A i \in h + 2 .. m : i \in h + 2 .. e
      BY <2>1, <1>1
    <3> HIDE DEF m
    <3>2. h + 1 + x[h + 1].nRec = m
      BY <1>4 DEF m
    <3>3. m <= Len(x)
      BY <1>1, <1>4, <2>1
    <3>4. HasMagic(x[h + 1]) /\ x[h + 1].nonce = <<t, h>> /\ x[h + 1].size = Len(O)
      BY <1>3, <1>4 DEF HasMagic
    <3>5. \A i \in h + 2 .. m : x[i].kind = "rec" /\ x[i].nonce = <<t, h>> /\ Original(x[i], O)
      BY <1>7, <3>1
    <3> QED
      BY ONLY <2>1, <3>2, <3>3, <3>4, <3>5 DEF Completes
  <2>3. \A i \in h + 2 .. m : f[i] = x[i]
    BY <1>1, <1>7, <2>1
  <2>4. Ends(x, m) /\ Ends(f, m)
    <3>1. CASE m = e
      BY <1>5, <3>1
    <3>2. CASE m < e
      <4>1. m + 1 \in h + 2 .. e
        BY <1>1, <2>1, <3>2
      <4>2. f[m + 1].kind = "rec" /\ x[m + 1] = f[m + 1]
        BY <1>7, <4>1
      <4> QED
        BY <4>2 DEF Ends, HasMagic
    <3> QED
      BY <1>1, <2>1, <3>1, <3>2
  <2>5. Ends(f, h)
    BY UncountedEnds
  <2>6. m <= Len(f)
    BY <1>1, <2>1
  <2> HIDE DEF m
  <2> QED
    BY <2>1, <2>2, <2>3, <2>4, <2>5, <2>6 DEF Counted
<1>12. IsFile(x)
  BY <1>4, <1>10, OwnIsFile
<1> QED
  BY <1>4, <1>5, <1>6, <1>10, <1>11, <1>12

\* A segment that has its count.
LEMMA SegmentCompleted ==
    ASSUME NEW f \in Journals, NEW O, NEW t, NEW h \in Nat, NEW e \in Nat,
           Own(f, O, t, h, e), h < e, f[h + 1].magic, f[h + 1].nRec = e - h - 1, Ends(f, e)
    PROVE  Completes(f, O, t, h, e) /\ Segments(f, O, t, e) /\ Own(f, O, t, e, e)
<1>1. Completes(f, O, t, h, e)
  <2>1. h + 1 + f[h + 1].nRec = e
    OBVIOUS
  <2> HIDE DEF Ends
  <2> QED
    BY <2>1 DEF Own, LastSegment, Completes, HasMagic
<1>2. Segments(f, O, t, e)
  BY <1>1, SegmentsGrow DEF Own
<1> QED
  BY <1>1, <1>2 DEF Own

\* The header of the next segment.
LEMMA HeaderWritten ==
    ASSUME NEW f \in Journals, NEW O \in Images, Len(O) \in 0 .. MaxPage, NEW t \in 0 .. MaxTxn,
           NEW e \in Nat, Own(f, O, t, e, e),
           NEW x, x = WriteAt(f, e + 1, Header(FALSE, 0, <<t, e>>, Len(O)), Garbage)
    PROVE  /\ x \in Journals /\ IsFile(x) /\ e < Len(x)
           /\ Own(x, O, t, e, e + 1) /\ Uncounted(x, e) /\ Ends(x, e)
           /\ \A i \in 1 .. e : x[i] = f[i]
<1> DEFINE s == Header(FALSE, 0, <<t, e>>, Len(O))
<1>1. /\ s \in Slots /\ s.kind = "hdr" /\ s.nonce = <<t, e>> /\ s.size = Len(O)
      /\ s.nRec = 0 /\ ~s.magic
  BY HeaderIs
<1> HIDE DEF s
<1>2. 0 < e /\ e <= Len(f) /\ Len(f) \in Nat /\ e + 1 \in Nat \ {0}
  BY DEF Own, Journals
<1> DEFINE w == WriteAt(f, e + 1, s, Garbage)
<1>3. w = x
  BY DEF s
<1>4. /\ w \in Journals /\ Len(w) = Larger(Len(f), e + 1) /\ w[e + 1] = s
      /\ \A i \in 1 .. Len(f) : i # e + 1 => w[i] = f[i]
      /\ \A i \in 1 .. Len(w) :
            i = e + 1 \/ (i <= Len(f) /\ w[i] = f[i]) \/ w[i] = Garbage
  <2>1. f \in Journals /\ s \in Slots /\ e + 1 \in Nat \ {0}
    BY <1>1, <1>2
  <2> HIDE DEF w
  <2>2. /\ WriteAt(f, e + 1, s, Garbage) \in Journals
        /\ Len(WriteAt(f, e + 1, s, Garbage)) = Larger(Len(f), e + 1)
        /\ WriteAt(f, e + 1, s, Garbage)[e + 1] = s
        /\ \A i \in 1 .. Len(f) : i # e + 1 => WriteAt(f, e + 1, s, Garbage)[i] = f[i]
    BY ONLY <2>1, SlotWritten
  <2>3. \A i \in 1 .. Len(WriteAt(f, e + 1, s, Garbage)) :
            \/ i = e + 1
            \/ i <= Len(f) /\ WriteAt(f, e + 1, s, Garbage)[i] = f[i]
            \/ WriteAt(f, e + 1, s, Garbage)[i] = Garbage
    BY ONLY <2>1, SlotWritten
  <2> QED
    BY ONLY <2>2, <2>3 DEF w
<1> HIDE DEF w
<1>5. e < Len(w) /\ Len(w) \in Nat
  BY <1>2, <1>4 DEF Larger
<1>6. \A i \in 1 .. e : w[i] = f[i]
  BY <1>2, <1>4
<1>7. Segments(w, O, t, e)
  BY <1>4, <1>5, <1>6, SegmentsAgree DEF Own
<1>8. LastSegment(w, O, t, e, e + 1)
  <2>1. \A i \in e + 2 .. e + 1 : FALSE
    BY <1>2
  <2>2. w[e + 1].nRec = 0
    BY <1>1, <1>4
  <2> QED
    BY <1>1, <1>4, <2>1, <2>2 DEF LastSegment
<1>9. ASSUME NEW i \in e + 1 + 1 .. Len(w), OfTxn(w[i], t)
      PROVE  w[i].kind = "rec" /\ Original(w[i], O)
  <2>1. i \in 1 .. Len(w) /\ i # e + 1 /\ i > e
    BY <1>2, <1>5
  <2>2. w[i] # Garbage
    BY <1>9, GarbageIs
  <2>3. i <= Len(f) /\ w[i] = f[i]
    BY <1>4, <2>1, <2>2
  <2>4. i \in e + 1 .. Len(f)
    BY <1>2, <2>1, <2>3
  <2> QED
    BY <1>9, <2>3, <2>4 DEF Own
<1>10. Own(w, O, t, e, e + 1)
  <2>1. 0 < e + 1 /\ e <= e + 1 /\ e + 1 <= Len(w) /\ e # e + 1
    BY <1>2, <1>5
  <2> QED
    BY <1>7, <1>8, <1>9, <2>1 DEF Own
<1>11. Uncounted(w, e)
  BY <1>1, <1>4 DEF Uncounted
<1>12. IsFile(w)
  BY <1>4, <1>10, OwnIsFile
<1>13. Ends(w, e)
  BY <1>11, UncountedEnds
<1> QED
  BY ONLY <1>3, <1>4, <1>5, <1>6, <1>10, <1>11, <1>12, <1>13

\* What else may follow the segments is garbage.
LEMMA GarbageWritten ==
    ASSUME NEW f \in Journals, NEW e \in Nat, e <= Len(f), IsFile(f), Len(f) > 0
    PROVE  /\ WriteAt(f, e + 1, Garbage, Garbage) \in Journals
           /\ e > 0 => IsFile(WriteAt(f, e + 1, Garbage, Garbage))
           /\ e < Len(WriteAt(f, e + 1, Garbage, Garbage))
           /\ Ends(WriteAt(f, e + 1, Garbage, Garbage), e)
           /\ \A i \in 1 .. e : WriteAt(f, e + 1, Garbage, Garbage)[i] = f[i]
<1> DEFINE w == WriteAt(f, e + 1, Garbage, Garbage)
<1>1. Len(f) \in Nat /\ e + 1 \in Nat \ {0}
  BY DEF Journals
<1>2. /\ w \in Journals /\ Len(w) = Larger(Len(f), e + 1) /\ w[e + 1] = Garbage
      /\ \A i \in 1 .. Len(f) : i # e + 1 => w[i] = f[i]
  <2>1. Garbage \in Slots
    BY GarbageIs
  <2> QED
    BY ONLY <1>1, <2>1, SlotWritten, f \in Journals
<1> HIDE DEF w
<1>3. e < Len(w) /\ Len(w) \in Nat
  BY <1>1, <1>2 DEF Larger
<1>4. Ends(w, e)
  BY <1>2, GarbageIs DEF Ends
<1>5. \A i \in 1 .. e : w[i] = f[i]
  BY <1>1, <1>2
<1>6. e > 0 => IsFile(w)
  <2> SUFFICES ASSUME e > 0, w = NoFile PROVE FALSE
    BY DEF IsFile
  <2>1. Len(w) = 1
    BY DEF NoFile
  <2> QED
    BY <1>3, <2>1
<1> QED
  BY <1>2, <1>3, <1>4, <1>5, <1>6 DEF w

\* A transaction stays guarded when the journal changes behind its segments.
LEMMA KeepsBehind ==
    ASSUME NEW d, NEW m, NEW f \in Journals, NEW g \in Journals, NEW new,
           NEW O \in Images, NEW t \in Nat, NEW n \in Nat,
           Keeps(d, m, f, g, new, O, t, n), Ends(f, n),
           NEW x \in Journals, IsFile(x), n <= Len(x), Ends(x, n), \A i \in 1 .. n : x[i] = f[i]
    PROVE  Keeps(d, m, x, g, new, O, t, n)
<1>1. Ends(g, n)
  BY ColdIsCold
<1>2. Segments(x, O, t, n)
  BY SegmentsAgree DEF Keeps, Survives
<1>3. \A i \in 1 .. n : g[i] = x[i]
  BY DEF Keeps, Survives
<1>4. Survives(x, g, O, t, n)
  BY <1>1, <1>2, <1>3 DEF Keeps, Survives
<1>5. \A p : Recorded(f, 0, n, p) => Recorded(x, 0, n, p)
  BY RecordedAgree
<1> QED
  BY <1>4, <1>5 DEF Keeps, Covered

LEMMA GuardsBehind ==
    ASSUME NEW d, NEW m, NEW f \in Journals, NEW g \in Journals, NEW new \in BOOLEAN, NEW I,
           NEW O \in Images, NEW t \in Nat, NEW n \in Nat,
           Guards(d, m, f, g, new, I, O, t, n), Ends(f, n),
           NEW x \in Journals, IsFile(x), n <= Len(x), Ends(x, n), \A i \in 1 .. n : x[i] = f[i],
           NEW also \in BOOLEAN, also = (new \/ ~IsFile(f))
    PROVE  Guards(d, m, x, g, also, I, O, t, n)
<1>1. ASSUME Keeps(d, m, f, g, new, O, t, n) PROVE Keeps(d, m, x, g, also, O, t, n)
  <2>1. also = new
    BY <1>1 DEF Keeps
  <2> QED
    BY <1>1, <2>1, KeepsBehind
<1>2. ASSUME n = 0, NoJournal(d, m, f, g, new, I) PROVE NoJournal(d, m, x, g, also, I)
  BY <1>2 DEF NoJournal, Cold
<1>3. CASE n = 0
  BY <1>1, <1>2, <1>3 DEF Guards
<1>4. CASE n > 0
  BY <1>1, <1>4 DEF Guards
<1> QED
  BY <1>3, <1>4

\* Once it is synced, the journal keeps the original for what its segments cover.
LEMMA GuardsSynced ==
    ASSUME NEW d \in Images, NEW m \in Images, NEW f \in Journals, NEW g \in Journals, NEW new,
           NEW I, NEW O \in Images, Len(O) > 0, NEW t \in Nat, NEW n \in Nat,
           Guards(d, m, f, g, new, I, O, t, n),
           NEW x \in Journals, IsFile(x), n <= Len(x), Ends(x, n), \A i \in 1 .. n : x[i] = f[i],
           NEW J
    PROVE  Keeps(d, m, x, x, FALSE, O, t, n) /\ Guards(d, m, x, x, FALSE, J, O, t, n)
<1>1. CASE n = 0
  <2>1. Chain(x, O, t, 0)
    BY <1>1, NoSegments DEF Cold
  <2>2. Survives(x, x, O, t, 0)
    BY <2>1, ChainSurvives
  <2>3. Covered(d, m, x, O, 0)
    BY <1>1, AllDurablyCovers DEF Guards
  <2> QED
    BY <1>1, <2>2, <2>3 DEF Guards, Keeps
<1>2. CASE n > 0
  <2>1. Keeps(d, m, f, g, new, O, t, n)
    BY <1>2 DEF Guards
  <2>2. Segments(x, O, t, n)
    BY <2>1, SegmentsAgree DEF Keeps, Survives
  <2>3. Survives(x, x, O, t, n)
    BY <2>2, ChainSurvives DEF Chain
  <2>4. \A p : Recorded(f, 0, n, p) => Recorded(x, 0, n, p)
    BY RecordedAgree
  <2> QED
    BY <1>2, <2>1, <2>3, <2>4 DEF Guards, Keeps, Covered
<1>3. n = 0 \/ n > 0
  OBVIOUS
<1> QED
  BY ONLY <1>1, <1>2, <1>3

-----------------------------------------------------------------------------
(* Writing all dirty pages.                                                *)

\* The last of some pages is the greatest of their numbers.
LEMMA LastPageIs ==
    ASSUME NEW S \in SUBSET Page
    PROVE  /\ LastPage(S) \in 0 .. MaxPage
           /\ \A q \in S : q <= LastPage(S)
           /\ S # {} => LastPage(S) \in S
<1>1. CASE S = {}
  BY <1>1, PagerAssumption DEF LastPage
<1>2. CASE S # {}
  <2> DEFINE T == {MaxPage - q : q \in S}
  <2>0. MaxPage \in Nat
    BY PagerAssumption
  <2>1. T \subseteq Nat /\ T # {}
    <3>1. \A q \in S : MaxPage - q \in Nat
      BY <2>0 DEF Page
    <3> QED
      BY <1>2, <3>1
  <2> DEFINE R == OpToRel(<, Nat)
  <2>2. IsWellFoundedOn(R, Nat)
    BY NatLessThanWellFounded
  <2>3. \E x \in T : \A y \in T : ~(<<y, x>> \in R)
    <3> HIDE DEF R, T
    <3> QED
      BY <2>1, <2>2, WFMin
  <2>4. PICK x \in T : \A y \in T : ~(<<y, x>> \in R)
    BY <2>3
  <2>5. PICK p \in S : x = MaxPage - p
    BY <2>4
  <2>6. ASSUME NEW q \in S PROVE q <= p
    <3>1. MaxPage - q \in T
      OBVIOUS
    <3>2. ~(<<MaxPage - q, MaxPage - p>> \in R)
      BY <2>4, <2>5, <3>1
    <3>3. MaxPage - q \in Nat /\ MaxPage - p \in Nat
      BY PagerAssumption DEF Page
    <3>4. ~(MaxPage - q < MaxPage - p)
      BY <3>2, <3>3 DEF OpToRel
    <3> QED
      BY <3>4, PagerAssumption DEF Page
  <2>7. LastPage(S) = CHOOSE r \in S : \A q \in S : q <= r
    BY <1>2 DEF LastPage
  <2>8. LastPage(S) \in S /\ \A q \in S : q <= LastPage(S)
    BY <2>6, <2>7
  <2>9. LastPage(S) \in 0 .. MaxPage
    <3>1. \A q \in Page : q \in 0 .. MaxPage
      BY ONLY <2>0 DEF Page
    <3>2. LastPage(S) \in Page
      BY ONLY <2>8, S \in SUBSET Page
    <3> QED
      BY ONLY <3>1, <3>2
  <2> QED
    BY ONLY <2>8, <2>9
<1> QED
  BY <1>1, <1>2

\* A file with the pages S of a cache c (WithPages).
Filled(d, c, S) ==
    [i \in 1 .. Larger(Len(d), LastPage(S)) |->
        IF i \in S THEN c[i] ELSE IF i <= Len(d) THEN d[i] ELSE 0]

LEMMA FilledIs ==
    ASSUME NEW d \in Images, NEW S \in SUBSET Page, NEW c, \A p \in S : c[p] \in Content
    PROVE  /\ Filled(d, c, S) \in Images
           /\ Len(Filled(d, c, S)) = Larger(Len(d), LastPage(S))
           /\ Len(d) <= Len(Filled(d, c, S))
           /\ Len(d) <= MaxPage => Len(Filled(d, c, S)) <= MaxPage
           /\ \A p \in S : p <= Len(Filled(d, c, S)) /\ Filled(d, c, S)[p] = c[p]
           /\ \A p \in 1 .. Len(d) :
                 p <= Len(Filled(d, c, S)) /\ (p \notin S => Filled(d, c, S)[p] = d[p])
<1> DEFINE n == Larger(Len(d), LastPage(S))
           e(i) == IF i \in S THEN c[i] ELSE IF i <= Len(d) THEN d[i] ELSE 0
           x == [i \in 1 .. n |-> e(i)]
<1>1. n \in Nat /\ Len(d) \in Nat /\ Len(d) <= n /\ LastPage(S) <= n /\ MaxPage \in Nat
  BY LastPageIs, PagerAssumption DEF Larger, Images
<1>2. Len(d) <= MaxPage => n <= MaxPage
  BY <1>1, LastPageIs DEF Larger
<1>3. ASSUME NEW i \in 1 .. n PROVE e(i) \in Content
  <2>1. i \in Nat \ {0}
    BY <1>1
  <2>2. 0 \in Content
    BY PagerAssumption DEF Content
  <2> QED
    BY <1>1, <2>1, <2>2 DEF Images
<1>4. Filled(d, c, S) = x
  BY DEF Filled
<1>5. x \in Images /\ Len(x) = n /\ \A i \in 1 .. n : x[i] = e(i)
  <2> HIDE DEF e, n
  <2>1. x \in [1 .. n -> Content]
    BY <1>3
  <2> QED
    BY <1>1, <2>1 DEF Images
<1> HIDE DEF x
<1>6. ASSUME NEW p \in S PROVE p <= Len(x) /\ x[p] = c[p]
  <2>1. p \in 1 .. n
    BY <1>1, LastPageIs DEF Page
  <2> QED
    BY <1>1, <1>5, <2>1
<1>7. ASSUME NEW p \in 1 .. Len(d) PROVE p <= Len(x) /\ (p \notin S => x[p] = d[p])
  <2>1. p \in 1 .. n
    BY <1>1
  <2> QED
    BY <1>1, <1>5, <2>1
<1> QED
  BY <1>1, <1>2, <1>4, <1>5, <1>6, <1>7

-----------------------------------------------------------------------------
(* Playing a journal back.                                                 *)

\* Each page of O is in the file, or in the cache if it is cached, or in a record
\* that is still to be read, which is between a and b.
Restored(d, f, O, a, b) ==
    \A p \in 1 .. Len(O) : (p <= Len(d) /\ d[p] = O[p]) \/ Recorded(f, a, b, p)
Remembered(c, f, O, a, b) ==
    \A p \in 1 .. Len(O) : c[p] # NotCached => c[p] = O[p] \/ Recorded(f, a, b, p)

LEMMA RecordedNext ==
    ASSUME NEW f, NEW a \in Nat, NEW b \in Nat, NEW p, Recorded(f, a, b, p)
    PROVE  /\ a < b
           /\ Recorded(f, a + 1, b, p) \/ (f[a + 1].kind = "rec" /\ f[a + 1].pg = p)
<1>1. PICK i \in a + 1 .. b : f[i].kind = "rec" /\ f[i].pg = p
  BY DEF Recorded
<1>2. i = a + 1 \/ i \in a + 1 + 1 .. b
  OBVIOUS
<1>3. a < b
  OBVIOUS
<1> QED
  BY <1>1, <1>2, <1>3 DEF Recorded

\* Reading a slot that is no record of a page of O, or is behind b.
LEMMA SlotSkipped ==
    ASSUME NEW d, NEW c, NEW f, NEW O \in Images, NEW a \in Nat, NEW b \in Nat,
           b <= a \/ f[a + 1].kind # "rec" \/ f[a + 1].pg \notin 1 .. Len(O)
    PROVE  /\ Restored(d, f, O, a, b) => Restored(d, f, O, a + 1, b)
           /\ Remembered(c, f, O, a, b) => Remembered(c, f, O, a + 1, b)
<1>1. \A p \in 1 .. Len(O) : Recorded(f, a, b, p) => Recorded(f, a + 1, b, p)
  BY RecordedNext
<1> QED
  BY <1>1 DEF Restored, Remembered

\* When there is nothing to read any more it does not matter where the end is.
LEMMA NothingLeft ==
    ASSUME NEW d, NEW c, NEW f, NEW O, NEW a \in Nat, NEW b \in Nat, b <= a, NEW k, NEW l
    PROVE  /\ Restored(d, f, O, a, b) => \A p \in 1 .. Len(O) : p <= Len(d) /\ d[p] = O[p]
           /\ Remembered(c, f, O, a, b) => \A p \in 1 .. Len(O) : c[p] # NotCached => c[p] = O[p]
           /\ Restored(d, f, O, a, b) => Restored(d, f, O, k, l)
           /\ Remembered(c, f, O, a, b) => Remembered(c, f, O, k, l)
<1>1. \A p : ~Recorded(f, a, b, p)
  BY RecordedNext
<1> QED
  BY <1>1 DEF Restored, Remembered

\* Reading a record of O, whose page is written to the file and to the cache.
LEMMA RecordPlayed ==
    ASSUME NEW d \in Images, NEW c \in [Page -> Content \cup {NotCached}], NEW f \in Journals,
           NEW O \in Images, Len(O) <= MaxPage, NEW a \in Nat, NEW b \in Nat, a + 1 <= Len(f),
           f[a + 1].kind = "rec", Original(f[a + 1], O)
    PROVE  /\ Restored(d, f, O, a, b) =>
                 Restored(WriteAt(d, f[a + 1].pg, f[a + 1].val, 0), f, O, a + 1, b)
           /\ Len(d) = Len(O) => Len(WriteAt(d, f[a + 1].pg, f[a + 1].val, 0)) = Len(O)
           /\ Remembered(c, f, O, a, b) =>
                 Remembered(IF c[f[a + 1].pg] # NotCached
                            THEN [c EXCEPT ![f[a + 1].pg] = f[a + 1].val] ELSE c, f, O, a + 1, b)
<1> DEFINE pg == f[a + 1].pg
           val == f[a + 1].val
<1>1. pg \in Page /\ val \in Content /\ pg <= Len(O) /\ val = O[pg]
  <2>1. f[a + 1] \in Slots
    BY DEF Journals
  <2> QED
    BY <2>1, SlotIs DEF Original
<1>2. pg \in 1 .. Len(O) /\ Len(O) \in Nat
  BY <1>1 DEF Page, Images
<1>3. \A p : Recorded(f, a, b, p) => Recorded(f, a + 1, b, p) \/ pg = p
  BY RecordedNext
<1> HIDE DEF pg, val
<1> DEFINE w == WriteAt(d, pg, val, 0)
<1>4. /\ Len(w) = Larger(Len(d), pg) /\ pg <= Len(w) /\ w[pg] = val
      /\ \A q \in 1 .. Len(d) : q <= Len(w) /\ (q # pg => w[q] = d[q])
  BY <1>1, PageWritten
<1> HIDE DEF w
<1>5. ASSUME Restored(d, f, O, a, b) PROVE Restored(w, f, O, a + 1, b)
  <2> SUFFICES ASSUME NEW p \in 1 .. Len(O)
               PROVE  (p <= Len(w) /\ w[p] = O[p]) \/ Recorded(f, a + 1, b, p)
    BY DEF Restored
  <2>1. CASE p = pg
    BY <1>1, <1>4, <2>1
  <2>2. CASE p # pg
    <3>1. (p <= Len(d) /\ d[p] = O[p]) \/ Recorded(f, a + 1, b, p)
      BY <1>3, <1>5, <2>2 DEF Restored
    <3>2. p <= Len(d) => p \in 1 .. Len(d)
      BY <1>2 DEF Images
    <3> QED
      BY <1>4, <2>2, <3>1, <3>2
  <2> QED
    BY <2>1, <2>2
<1>6. Len(d) = Len(O) => Len(w) = Len(O)
  BY <1>1, <1>2, <1>4 DEF Larger
<1>7. ASSUME Remembered(c, f, O, a, b), NEW k \in {c, [c EXCEPT ![pg] = val]},
             c[pg] # NotCached => k = [c EXCEPT ![pg] = val],
             c[pg] = NotCached => k = c
      PROVE  Remembered(k, f, O, a + 1, b)
  <2> SUFFICES ASSUME NEW p \in 1 .. Len(O), k[p] # NotCached
               PROVE  k[p] = O[p] \/ Recorded(f, a + 1, b, p)
    BY DEF Remembered
  <2>1. p \in Page
    BY <1>2, PagerAssumption DEF Page
  <2>2. CASE p = pg
    BY <1>1, <1>7, <2>1, <2>2
  <2>3. CASE p # pg
    <3>1. k[p] = c[p]
      BY <1>7, <2>1, <2>3
    <3> QED
      BY <1>3, <1>7, <2>3, <3>1 DEF Remembered
  <2> QED
    BY <2>2, <2>3
<1>8. Remembered(c, f, O, a, b) =>
         Remembered(IF c[pg] # NotCached THEN [c EXCEPT ![pg] = val] ELSE c, f, O, a + 1, b)
  BY <1>7
<1> QED
  BY <1>5, <1>6, <1>8 DEF w, pg, val

\* pager_truncate gives the file the size of O.
LEMMA FileResized ==
    ASSUME NEW d \in Images, NEW m \in Images, NEW f, NEW O \in Images, Len(O) \in Page,
           NEW a, NEW b, NEW x,
           x = IF Len(d) < Len(O) THEN WriteAt(d, Len(O), 0, 0) ELSE Cut(d, Len(O))
    PROVE  /\ x \in Images /\ Len(x) = Len(O)
           /\ \A p \in 1 .. Len(O) : p <= Len(d) => x[p] = d[p]
           /\ Restored(d, f, O, a, b) => Restored(x, f, O, a, b)
           /\ \A p \in 1 .. Len(O) : Durably(d, m, O, p) => Durably(x, m, O, p)
<1>1. Len(d) \in Nat /\ Len(O) \in Nat /\ Len(O) > 0 /\ 0 \in Content
  BY PagerAssumption DEF Images, Page, Content
<1>2. x \in Images /\ Len(x) = Len(O) /\ \A p \in 1 .. Len(O) : p <= Len(d) => x[p] = d[p]
  <2>1. CASE Len(d) < Len(O)
    <3> DEFINE w == WriteAt(d, Len(O), 0, 0)
    <3>1. /\ w \in Images /\ Len(w) = Larger(Len(d), Len(O))
          /\ \A q \in 1 .. Len(d) : q # Len(O) => w[q] = d[q]
      BY <1>1, PageWritten
    <3>2. w = x
      BY <2>1
    <3> HIDE DEF w
    <3>3. Len(w) = Len(O)
      BY <1>1, <2>1, <3>1 DEF Larger
    <3>4. ASSUME NEW p \in 1 .. Len(O), p <= Len(d) PROVE w[p] = d[p]
      BY <1>1, <2>1, <3>1, <3>4
    <3> QED
      BY ONLY <3>1, <3>2, <3>3, <3>4
  <2>2. CASE ~(Len(d) < Len(O))
    <3> DEFINE w == Cut(d, Len(O))
    <3>1. /\ w \in Images /\ Len(w) = Smaller(Len(O), Len(d))
          /\ \A k \in 1 .. Smaller(Len(O), Len(d)) : w[k] = d[k]
      BY <1>1, CutIs DEF Images
    <3>2. w = x
      BY <2>2
    <3> HIDE DEF w
    <3>3. Smaller(Len(O), Len(d)) = Len(O)
      BY <1>1, <2>2 DEF Smaller
    <3> QED
      BY ONLY <3>1, <3>2, <3>3
  <2> QED
    BY <2>1, <2>2
<1>3. Restored(d, f, O, a, b) => Restored(x, f, O, a, b)
  BY <1>1, <1>2 DEF Restored
<1>4. \A p \in 1 .. Len(O) : Durably(d, m, O, p) => Durably(x, m, O, p)
  BY <1>1, <1>2 DEF Durably
<1> QED
  BY ONLY <1>2, <1>3, <1>4

\* The size that a header records.
LEMMA SegmentsSize ==
    ASSUME NEW f \in Journals, NEW O \in Images, NEW t, NEW n \in Nat, Segments(f, O, t, n), n > 0
    PROVE  Len(O) <= MaxPage
<1>1. 1 \in 1 .. n /\ 1 <= Len(f) /\ f[1].kind = "hdr"
  BY DEF Segments, Journals
<1>2. f[1].size = Len(O)
  BY <1>1 DEF Segments, Segment
<1>3. f[1] \in Slots
  BY <1>1 DEF Journals
<1> QED
  BY <1>1, <1>2, <1>3, SlotIs

\* The slot behind a header or a record of a segment, up to n.
LEMMA SegmentsNext ==
    ASSUME NEW f \in Journals, NEW O \in Images, NEW t, NEW n \in Nat, Segments(f, O, t, n),
           NEW h \in 1 .. n, f[h].kind = "hdr"
    PROVE  /\ HasMagic(f[h]) /\ f[h].nonce = <<t, h - 1>> /\ f[h].size = Len(O)
           /\ f[h].nRec \in Nat /\ h + f[h].nRec <= n
           /\ \A i \in h + 1 .. h + f[h].nRec :
                 f[i].kind = "rec" /\ f[i].nonce = <<t, h - 1>> /\ Original(f[i], O)
           /\ h + f[h].nRec < n => f[h + f[h].nRec + 1].kind = "hdr"
<1>1. Segment(f, O, t, n, h)
  BY DEF Segments
<1>2. f[h] \in Slots
  BY DEF Journals, Segments
<1>3. f[h].nRec \in Nat
  BY <1>2, SlotIs
<1>4. \A i \in h + 1 .. h + f[h].nRec : i \in 1 .. n /\ f[i].kind = "rec" /\ f[i].nonce = <<t, h - 1>>
  BY <1>1, <1>3 DEF Segment
<1>5. \A i \in h + 1 .. h + f[h].nRec : Original(f[i], O)
  BY <1>4 DEF Segments
<1> QED
  BY <1>1, <1>3, <1>4, <1>5 DEF Segment, HasMagic

-----------------------------------------------------------------------------
(* The types of a journal.                                                 *)

\* A file of slots, whose nonces are those of the transactions up to t, or none.
Sound(f, t) ==
    /\ f = NoFile \/ f \in Seq(Slot)
    /\ \A i \in 1 .. Len(f) : f[i].kind \in {"hdr", "rec"} => f[i].nonce[1] <= t

LEMMA SoundIs ==
    ASSUME NEW f, NEW t \in Nat, Sound(f, t)
    PROVE  f \in Journals /\ \A u \in Nat : t <= u => Sound(f, u)
<1>1. NoFile \in Journals
  BY NoFileIsCold
<1>2. f \in Seq(Slot) => f \in Journals
  BY DEF Journals, Slots
<1>3. f \in Journals
  BY <1>1, <1>2 DEF Sound
<1>4. ASSUME NEW i \in 1 .. Len(f), f[i].kind \in {"hdr", "rec"} PROVE f[i].nonce[1] \in Nat
  <2>1. f[i] \in Slots
    BY <1>3 DEF Journals
  <2>2. f[i].nonce \in Nonce
    BY <1>4, <2>1, SlotIs
  <2> QED
    BY <2>2, PagerAssumption DEF Nonce
<1>5. ASSUME NEW u \in Nat, t <= u PROVE Sound(f, u)
  BY <1>4, <1>5 DEF Sound
<1> QED
  BY <1>3, <1>5

LEMMA NoFileIsSound ==
    ASSUME NEW t \in Nat
    PROVE  Sound(NoFile, t) /\ Sound(<<>>, t)
<1>1. Sound(NoFile, t)
  BY DEF Sound, NoFile
<1>2. Sound(<<>>, t)
  BY DEF Sound
<1> QED
  BY <1>1, <1>2

LEMMA SoundWritten ==
    ASSUME NEW f, NEW t \in Nat, Sound(f, t), IsFile(f), NEW k \in Nat \ {0}, NEW s \in Slot,
           s.kind \in {"hdr", "rec"} => s.nonce[1] <= t
    PROVE  Sound(WriteAt(f, k, s, Garbage), t)
<1> DEFINE w == WriteAt(f, k, s, Garbage)
<1>1. f \in Seq(Slot) /\ Garbage \in Slot
  BY DEF Sound, IsFile, Slot
<1>2. w \in Seq(Slot) /\ Len(w) = Larger(Len(f), k)
      /\ \A i \in 1 .. Larger(Len(f), k) :
            w[i] = IF i = k THEN s ELSE IF i <= Len(f) THEN f[i] ELSE Garbage
  <2>1. WriteAt(f, k, s, Garbage) \in Seq(Slot)
        /\ Len(WriteAt(f, k, s, Garbage)) = Larger(Len(f), k)
    BY ONLY <1>1, WriteAtIs, k \in Nat \ {0}, s \in Slot
  <2>2. \A i \in 1 .. Larger(Len(f), k) :
            WriteAt(f, k, s, Garbage)[i] = IF i = k THEN s ELSE IF i <= Len(f) THEN f[i] ELSE Garbage
    BY ONLY <1>1, WriteAtIs, k \in Nat \ {0}, s \in Slot
  <2> QED
    BY <2>1, <2>2
<1> HIDE DEF w
<1>3. ASSUME NEW i \in 1 .. Len(w), w[i].kind \in {"hdr", "rec"} PROVE w[i].nonce[1] <= t
  <2>1. CASE i = k
    BY <1>2, <1>3, <2>1
  <2>2. CASE i # k /\ i <= Len(f)
    <3>1. w[i] = f[i] /\ i \in 1 .. Len(f)
      BY <1>1, <1>2, <2>2
    <3> QED
      BY <1>3, <3>1 DEF Sound
  <2>3. CASE i # k /\ ~(i <= Len(f))
    <3>1. w[i] = Garbage
      BY <1>2, <2>3
    <3> QED
      BY <1>3, <3>1 DEF Garbage
  <2> QED
    BY <2>1, <2>2, <2>3
<1> QED
  BY <1>2, <1>3 DEF Sound, w

\* Changing a slot in place.
LEMMA SoundChanged ==
    ASSUME NEW f, NEW t \in Nat, Sound(f, t), NEW x \in Journals, Len(x) = Len(f),
           IsFile(x), IsFile(f),
           \A i \in 1 .. Len(f) :
              x[i] = f[i] \/ (x[i].kind = "hdr" /\ f[i].kind = "hdr" /\ x[i].nonce = f[i].nonce)
    PROVE  Sound(x, t)
<1>1. f \in Seq(Slot)
  BY DEF Sound, IsFile
<1>2. ASSUME NEW i \in 1 .. Len(x) PROVE x[i] \in Slot
  <2>1. x[i] \in Slots /\ f[i] \in Slot
    BY <1>1 DEF Journals
  <2> QED
    BY <2>1 DEF Slots
<1>3. x \in Seq(Slot)
  <2>1. x \in [1 .. Len(x) -> Slot] /\ Len(x) \in Nat
    BY <1>2 DEF Journals
  <2> QED
    BY <2>1
<1>4. \A i \in 1 .. Len(x) : x[i].kind \in {"hdr", "rec"} => x[i].nonce[1] <= t
  BY DEF Sound
<1> QED
  BY <1>3, <1>4 DEF Sound

\* What a power loss leaves.
LEMMA SoundLeft ==
    ASSUME NEW f, NEW g, NEW t \in Nat, Sound(f, t), Sound(g, t), IsFile(f), IsFile(g),
           NEW x \in Leftover(f, g, Garbage)
    PROVE  Sound(x, t)
<1>1. f \in Seq(Slot) /\ g \in Seq(Slot) /\ Garbage \in Slot
  BY DEF Sound, IsFile, Slot
<1>2. x \in Seq(Slot) /\ Mixes(x, f, g, Garbage)
  BY <1>1, LeftoverMixes
<1>3. ASSUME NEW i \in 1 .. Len(x), x[i].kind \in {"hdr", "rec"} PROVE x[i].nonce[1] <= t
  <2>1. x[i] # Garbage
    BY <1>3 DEF Garbage
  <2>2. (i <= Len(f) /\ x[i] = f[i]) \/ (i <= Len(g) /\ x[i] = g[i])
    BY <1>2, <2>1 DEF Mixes
  <2>3. i \in Nat /\ i >= 1 /\ Len(f) \in Nat /\ Len(g) \in Nat
    BY <1>1, <1>2
  <2>4. (i \in 1 .. Len(f) /\ x[i] = f[i]) \/ (i \in 1 .. Len(g) /\ x[i] = g[i])
    BY <2>2, <2>3
  <2> QED
    BY <1>3, <2>4 DEF Sound
<1> QED
  BY <1>2, <1>3 DEF Sound

-----------------------------------------------------------------------------
(* The same with the images that are found in a file.                      *)

LEMMA DurablyFound ==
    ASSUME NEW d \in Images, NEW m \in Images, NEW K \in SUBSET Images, NEW L \in SUBSET Images,
           NEW O \in Images, StandsFor(O, K), AllDurably(d, m, O)
    PROVE  StandsFor(O, FoundIn(d, K, L)) /\ FoundIn(d, K, L) \in SUBSET Images
           /\ Len(d) > 0 /\ Len(m) > 0
<1>1. StandsFor(O, {image \in K : Holds(d, image)}) /\ Len(d) > 0 /\ Len(m) > 0
  BY DurablyHolds
<1> QED
  BY <1>1 DEF StandsFor, FoundIn

LEMMA ColdIsSettled ==
    ASSUME NEW d \in Images, NEW m \in Images, NEW K \in SUBSET Images, NEW L \in SUBSET Images,
           NEW O \in Images, StandsFor(O, K), AllDurably(d, m, O), SyncedPrefix(d, m),
           NEW f \in Journals, NEW g \in Journals, NEW new, Cold(f), Cold(g)
    PROVE  Settles(d, m, f, g, new, FoundIn(d, K, L), O)
BY DurablyFound, ColdSettles

\* A transaction that is given up.
LEMMA GuardedSuspends ==
    ASSUME NEW d \in Images, NEW m \in Images, NEW K \in SUBSET Images, NEW L \in SUBSET Images,
           NEW O \in Images, StandsFor(O, K), NEW f \in Journals, NEW g \in Journals, NEW new,
           NEW t \in Nat, NEW n \in Nat, Guards(d, m, f, g, new, FoundIn(d, K, L), O, t, n)
    PROVE  Settles(d, m, f, g, new, FoundIn(d, K, L), O) \/ RollsBack(d, m, f, g, new, O)
<1>1. CASE n = 0
  <2>1. AllDurably(d, m, O)
    BY <1>1 DEF Guards
  <2> QED
    BY <2>1, DurablyFound, GuardedSettlesOrRollsBack
<1>2. CASE n > 0
  <2>1. Keeps(d, m, f, g, new, O, t, n)
    BY <1>2 DEF Guards
  <2>2. ~Cold(f)
    BY <1>2, <2>1, SegmentsAreHot DEF Keeps, Survives
  <2> QED
    BY <2>1, <2>2 DEF RollsBack
<1>3. n = 0 \/ n > 0
  OBVIOUS
<1> QED
  BY ONLY <1>1, <1>2, <1>3

\* A playback that is given up: the journal is on the medium as it is in the file.
LEMMA PlaybackSuspends ==
    ASSUME NEW d \in Images, NEW m \in Images, NEW K \in SUBSET Images, NEW L \in SUBSET Images,
           NEW O \in Images, StandsFor(O, K), NEW f \in Journals, IsFile(f),
           NEW t \in Nat, NEW n \in Nat, Chain(f, O, t, n), Covered(d, m, f, O, n),
           n = 0 => SyncedPrefix(d, m) /\ AllDurably(d, m, O)
    PROVE  IF n = 0 THEN Settles(d, m, f, f, FALSE, FoundIn(d, K, L), O)
           ELSE RollsBack(d, m, f, f, FALSE, O)
<1>1. CASE n = 0
  <2>1. Cold(f)
    BY <1>1 DEF Chain, Cold
  <2>2. Settles(d, m, f, f, FALSE, FoundIn(d, K, L), O)
    BY <1>1, <2>1, ColdIsSettled
  <2> QED
    BY <1>1, <2>2
<1>2. CASE n # 0
  <2>1. ~Cold(f)
    BY <1>2, SegmentsAreHot DEF Chain
  <2>2. Survives(f, f, O, t, n)
    BY ChainSurvives
  <2>3. Keeps(d, m, f, f, FALSE, O, t, n)
    BY <2>2 DEF Keeps
  <2>4. RollsBack(d, m, f, f, FALSE, O)
    BY <2>1, <2>3 DEF RollsBack
  <2> QED
    BY <1>2, <2>4
<1> QED
  BY <1>1, <1>2

-----------------------------------------------------------------------------
(* The invariant.                                                          *)

\* The types of the variables.
TypesOfCalls ==
    /\ eState \in State
    /\ call \in [op : {"none", "SharedLock", "CommitPhaseOne", "CommitPhaseTwo",
                       "Stress", "Rollback", "Close"},
                 pg : 0 .. MaxPage,
                 at : {"idle", "restored", "failed", "failedWrite", "syncHot", "readHdr", "playRec",
                       "playSync", "finalize", "finalSync", "finalTruncate",
                       "syncRecords", "writeNRec", "syncHdr", "stressWrite",
                       "writeList", "syncDb"}]

\* A record of the sub-journal.
SubRecord == [pg : Page, val : Content]

TypesOfSavepoints ==
    /\ savepoint \in Seq(Savepoint) /\ Len(savepoint) <= MaxSavepoint
    /\ subJournal \in Seq(SubRecord)

TypesOfBounds ==
    /\ journalMode \in Modes /\ level \in Levels
    /\ version \in 0 .. MaxVersion
    /\ txn \in 0 .. MaxTxn /\ fault \in 0 .. MaxFault /\ crash \in 0 .. MaxCrash

TypesOfCache ==
    /\ dbSize \in 0 .. MaxPage /\ dbOrigSize \in 0 .. MaxPage /\ dbFileSize \in 0 .. MaxPage
    /\ cache \in [Page -> Content \cup {NotCached}]
    /\ dirty \subseteq Page /\ needSync \subseteq Page

TypesOfJournal ==
    /\ inJournal \subseteq Page
    /\ jfdOpen \in BOOLEAN
    /\ journalOff \in Nat /\ journalHdr \in Nat /\ nRec \in Nat /\ left \in Nat
    /\ cksumInit \in Nonce

TypesOfFiles ==
    /\ db \in Images /\ dbDur \in Images /\ Len(db) <= MaxPage /\ Len(dbDur) <= MaxPage
    /\ Sound(jrnl, txn) /\ Sound(jrnlDur, txn) /\ jrnlNew \in BOOLEAN
    /\ jfdOpen => IsFile(jrnl)
    /\ outcomes \subseteq Images /\ lost \subseteq Images

Types ==
    /\ TypesOfCalls /\ TypesOfSavepoints /\ TypesOfBounds
    /\ TypesOfCache /\ TypesOfJournal /\ TypesOfFiles

\* The images that a reader may find after a power loss.
Found == FoundIn(db, outcomes, lost)

\* O is the database, which no journal would change; it is what a recovery makes
\* of the database; nothing that the transaction has done so far endangers it.
Settled(O) == Settles(db, dbDur, jrnl, jrnlDur, jrnlNew, Found, O)
Hot(O) == RollsBack(db, dbDur, jrnl, jrnlDur, jrnlNew, O)
Suspended(O) == Settled(O) \/ Hot(O)
Guarded(O) == Guards(db, dbDur, jrnl, jrnlDur, jrnlNew, Found, O, txn, journalHdr)

-----------------------------------------------------------------------------
(* The cache.                                                              *)

Cached(p) == cache[p] # NotCached

\* Every cached page is the page of the file.
Coherent == \A p \in Page : Cached(p) => p <= Len(db) /\ cache[p] = db[p]

\* The same of pages that the file has.
Matches(pages) == \A p \in pages : p <= Len(db) /\ (Cached(p) => cache[p] = db[p])
Current == Matches(1 .. dbSize)
Clean == Matches((1 .. dbSize) \ dirty)

NothingDirty == dirty = {} /\ needSync = {}

-----------------------------------------------------------------------------
(* The phases of a connection.  O is the database that a reader would find. *)

Between(op, at) == call.op = op /\ call.at \in at

InTxn == eState \in {"WRITER_CACHEMOD", "WRITER_DBMOD", "WRITER_FINISHED"}

PhaseOpen(O) ==
    /\ eState = "OPEN"
    /\ \/ Between("none", {"idle"}) /\ ~jfdOpen
       \/ Between("SharedLock", {"syncHot"}) /\ jfdOpen
    /\ NothingDirty /\ inJournal = {}
    /\ (Settled(O) /\ Coherent) \/ (Hot(O) /\ cache = EmptyCache)

PhaseReader(O) ==
    /\ eState = "READER"
    /\ Between("none", {"idle"}) \/ Between("Close", {"syncHot"})
    /\ NothingDirty /\ inJournal = {}
    /\ Settled(O) /\ Len(O) = dbSize /\ Coherent

\* Nothing of the transaction is in the journal, except perhaps its header.
Untouched ==
    \A i \in 1 .. Len(jrnl) :
        OfTxn(jrnl[i], txn) => i = 1 /\ jrnl[i].kind = "hdr" /\ ~jrnl[i].magic

PhaseLocked(O) ==
    /\ eState = "WRITER_LOCKED"
    /\ \/ Between("none", {"idle", "restored", "failedWrite"})
       \/ Between("Close", {"syncHot"}) /\ jfdOpen /\ cache = EmptyCache
    /\ NothingDirty /\ inJournal = {}
    /\ Settled(O) /\ Len(O) = dbSize /\ dbOrigSize = dbSize /\ dbFileSize <= dbSize
    /\ Current
    /\ Untouched

\* The journal that the transaction has written, up to e.
OwnJournal(O, e) ==
    jfdOpen /\ Len(O) = dbOrigSize /\ Own(jrnl, O, txn, journalHdr, e)

\* What protects the original while the transaction goes on.
Protects(O) ==
    /\ \/ eState = "WRITER_CACHEMOD" /\ journalHdr = 0
       \/ eState \in {"WRITER_DBMOD", "WRITER_FINISHED"} /\ journalHdr > 0
    /\ Guarded(O)

\* Where the original of each page is: a page that is not in the journal is in
\* the file, and in the cache if it is cached.
PagesOf(O) ==
    \A p \in 1 .. Len(O) :
        /\ p \in inJournal => Recorded(jrnl, 0, journalOff, p)
        /\ p \in inJournal \ needSync => Recorded(jrnl, 0, journalHdr, p)
        /\ p \notin inJournal =>
              Durably(db, dbDur, O, p) /\ (Cached(p) => cache[p] = O[p])

Writing(O) ==
    /\ OwnJournal(O, journalOff) /\ PagesOf(O)
    /\ \A p \in dirty : Cached(p)
    /\ Len(O) <= dbSize \/ MayShrink
    /\ journalHdr < journalOff =>
          cksumInit = <<txn, journalHdr>> /\ journalOff = journalHdr + 1 + nRec

\* Between two calls, and in the calls up to where they write to the database.
Steady(O) == Clean /\ \A p \in dirty : p <= Len(O) => p \in inJournal

\* No page of the original is behind the end of the database, and what has to be synced
\* first has not left the cache.
Grown(O) ==
    /\ Len(O) <= dbSize
    /\ needSync \subseteq dirty
    /\ eState = "WRITER_CACHEMOD" => \A j \in 1 .. Len(subJournal) : subJournal[j].pg \in dirty

PhaseWrite(O) ==
    /\ eState \in {"WRITER_CACHEMOD", "WRITER_DBMOD"}
    /\ Protects(O) /\ Writing(O)
    /\ \/ Between("none", {"failed"})
       \/ /\ \/ Between("none", {"idle", "restored", "failedWrite"})
             \/ Between("Stress", {"syncRecords", "writeNRec", "syncHdr", "stressWrite"})
                /\ call.pg \in dirty
          /\ Clean /\ Grown(O) /\ journalHdr < journalOff
          /\ call.at # "failedWrite" => Steady(O)
          /\ call.at # "syncHdr" => Uncounted(jrnl, journalHdr)
          /\ call.at = "stressWrite" => eState = "WRITER_DBMOD" /\ call.pg \notin needSync
       \/ /\ Between("CommitPhaseOne", {"syncRecords", "writeNRec", "syncHdr"})
          /\ Steady(O) /\ dbSize > 0 /\ journalHdr < journalOff
          /\ call.at # "syncHdr" => Uncounted(jrnl, journalHdr)
       \/ /\ Between("CommitPhaseOne", {"writeList", "syncDb"})
          /\ Steady(O) /\ dbSize > 0 /\ journalHdr = journalOff
          /\ eState = "WRITER_DBMOD" /\ needSync = {}
          /\ call.at = "syncDb" => dirty = {}
    /\ call.at = "writeNRec" => jrnlDur = jrnl /\ ~jrnlNew /\ Ends(jrnl, journalOff)
    /\ call.at = "syncHdr" =>
          /\ IsFile(jrnlDur) /\ ~jrnlNew
          /\ jrnl[journalHdr + 1].magic /\ jrnl[journalHdr + 1].nRec = nRec
          /\ Ends(jrnl, journalOff)

\* The first phase of a commit is done: the new image is in the file.
PhaseFinished(O) ==
    /\ eState = "WRITER_FINISHED"
    /\ Between("none", {"idle"}) \/ Between("CommitPhaseTwo", {"finalize"})
    /\ Protects(O) /\ OwnJournal(O, journalOff) /\ journalOff = journalHdr
    /\ Current /\ dbDur = db /\ dbSize > 0 /\ dirty = {}
    /\ Len(O) <= dbSize \/ MayShrink
    /\ Remembered(cache, jrnl, O, 0, journalHdr)

\* Records that pager_playback has still to read in the segment of header h.
LeftOf(e, h) ==
    IF h <= journalHdr THEN h + jrnl[h].nRec - journalOff
    ELSE IF jrnl[h].nRec = 0 THEN Len(jrnl) - journalOff ELSE e - journalOff

\* A rollback plays the journal back that the transaction has written.
PlaysBack(O, e) ==
    /\ OwnJournal(O, e)
    /\ Remembered(cache, jrnl, O, journalOff, e)
    /\ MayWriteDb => Restored(db, jrnl, O, journalOff, journalHdr)
    /\ journalOff > 0 => dbSize = Len(O) /\ (MayWriteDb => Len(db) = Len(O))
    /\ call.at = "readHdr" =>
          \/ journalOff = journalHdr
          \/ journalOff < journalHdr /\ jrnl[journalOff + 1].kind = "hdr"
          \/ journalOff > journalHdr /\ journalOff = Len(jrnl)
          \/ journalOff > journalHdr /\ journalOff = e /\ jrnl[journalHdr + 1].nRec # 0
    /\ call.at = "playRec" =>
          \E h \in 1 .. journalOff :
              /\ jrnl[h].kind = "hdr" /\ h <= journalHdr + 1 /\ h <= e
              /\ cksumInit = <<txn, h - 1>>
              /\ left = LeftOf(e, h) /\ left > 0
    /\ call.at = "playSync" => e <= journalOff

PhaseBack(O) ==
    /\ InTxn /\ Between("Rollback", {"readHdr", "playRec", "playSync"})
    /\ Protects(O)
    /\ \E e \in Nat : PlaysBack(O, e)

PhaseWriteClose(O) ==
    /\ InTxn /\ Between("Close", {"syncHot"}) /\ jfdOpen
    /\ Protects(O)
    /\ cache = EmptyCache /\ NothingDirty

\* A recovery, or the rollback of a close, plays back a journal that is on the
\* medium as it is in the file.
PlaysHot(O, t, n) ==
    /\ Chain(jrnl, O, t, n) /\ Covered(db, dbDur, jrnl, O, n)
    /\ n > 0 => cache = EmptyCache
    /\ n = 0 \/ ~MayWriteDb => SyncedPrefix(db, dbDur) /\ AllDurably(db, dbDur, O)
    /\ MayWriteDb => Restored(db, jrnl, O, journalOff, n)
    /\ journalOff <= n
    /\ journalOff > 0 => dbSize = Len(O) /\ (MayWriteDb => Len(db) = Len(O))
    /\ call.at = "readHdr" => journalOff = n \/ jrnl[journalOff + 1].kind = "hdr"
    /\ call.at = "playRec" =>
          \E h \in 1 .. journalOff :
              /\ jrnl[h].kind = "hdr" /\ cksumInit = <<t, h - 1>>
              /\ left = h + jrnl[h].nRec - journalOff /\ left > 0
    /\ call.at = "playSync" => journalOff = n

PhaseHot(O) ==
    /\ \/ eState = "OPEN" /\ Between("SharedLock", {"readHdr", "playRec", "playSync"})
       \/ InTxn /\ Between("Close", {"readHdr", "playRec", "playSync"})
    /\ jrnlDur = jrnl /\ ~jrnlNew /\ lost = {}
    /\ jfdOpen /\ journalHdr = Len(jrnl)
    /\ NothingDirty /\ Coherent
    /\ \E t \in Nat, n \in Nat : PlaysHot(O, t, n)

\* The call whose end it is, once the database is as it shall be.
Ending(O) ==
    /\ AllDurably(db, dbDur, O) /\ SyncedPrefix(db, dbDur)
    /\ \/ call.op = "SharedLock" /\ eState = "OPEN"
       \/ call.op = "Close" /\ (eState = "WRITER_LOCKED" \/ InTxn)
       \/ call.op = "Rollback" /\ (eState = "WRITER_LOCKED" \/ InTxn)
       \/ call.op = "CommitPhaseTwo" /\ eState \in {"WRITER_LOCKED", "WRITER_FINISHED"}
    /\ IF call.op \in {"SharedLock", "Close"}
       THEN NothingDirty /\ Coherent /\ jfdOpen
       ELSE Current /\ Len(O) = dbSize

PhaseFinalize(O) ==
    /\ call.at = "finalize"
    /\ Ending(O) /\ Suspended(O)
    /\ call.op = "CommitPhaseTwo" => eState = "WRITER_LOCKED" /\ dbFileSize <= dbSize
    /\ HasJournal \/ Settled(O)

\* The journal may come back: its deletion is not synced.  The file is not truncated
\* below what it restores.
Comeback ==
    /\ jrnlNew \/ ~IsFile(jrnl)
    /\ \E Q \in Images, t \in Nat, n \in Nat :
          /\ StandsFor(Q, lost) /\ Len(Q) <= dbSize
          /\ Chain(jrnlDur, Q, t, n) /\ Covered(db, dbDur, jrnlDur, Q, n)

PhaseDecided(O) ==
    /\ Ending(O)
    /\ \/ /\ call.at = "finalSync" /\ journalMode # "DELETE" /\ jfdOpen
          /\ \/ NoJournal(db, dbDur, jrnl, jrnlDur, jrnlNew, Found)
             \/ Undone(db, dbDur, jrnl, jrnlDur, jrnlNew, Found)
       \/ /\ call.at = "finalTruncate" /\ call.op = "CommitPhaseTwo"
          /\ Cold(jrnl) /\ NothingDirty
          /\ (lost = {} /\ Cold(jrnlDur)) \/ Comeback
          /\ \A p \in Page : Cached(p) => p <= dbSize

PhaseError(O) ==
    /\ eState = "ERROR"
    /\ Between("none", {"idle"}) \/ Between("Close", {"syncHot"})
    /\ Suspended(O)

Phase(O) ==
    \/ PhaseOpen(O) \/ PhaseReader(O) \/ PhaseLocked(O) \/ PhaseWrite(O)
    \/ PhaseFinished(O) \/ PhaseBack(O) \/ PhaseWriteClose(O) \/ PhaseHot(O)
    \/ PhaseFinalize(O) \/ PhaseDecided(O) \/ PhaseError(O)

Consistent == \E O \in Images : StandsFor(O, outcomes) /\ Phase(O)

-----------------------------------------------------------------------------
(* What the invariant says.                                                *)

LEMMA TypesAreTypeOK ==
    ASSUME Types
    PROVE  TypeOK
<1>1. \A f \in {jrnl, jrnlDur} : f = NoFile \/ f \in Seq(Slot)
  BY DEF Types, TypesOfFiles, Sound
<1>2. savepoint \in Seq(Savepoint) /\ Len(savepoint) <= MaxSavepoint
      /\ subJournal \in Seq([pg : Page, val : Content])
  BY DEF Types, TypesOfSavepoints, SubRecord
<1> QED
  BY <1>1, <1>2 DEF Types, TypesOfCalls, TypesOfBounds, TypesOfCache, TypesOfJournal,
                    TypesOfFiles, TypeOK, Images

LEMMA FilesAre ==
    ASSUME Types
    PROVE  /\ jrnl \in Journals /\ jrnlDur \in Journals
           /\ db \in Images /\ dbDur \in Images /\ jrnlNew \in BOOLEAN
           /\ outcomes \in SUBSET Images /\ lost \in SUBSET Images /\ Found \in SUBSET Images
           /\ txn \in Nat /\ journalHdr \in Nat /\ journalOff \in Nat
           /\ MaxPage \in Nat /\ txn \in 0 .. MaxTxn
<1>1. txn \in Nat /\ txn \in 0 .. MaxTxn /\ MaxPage \in Nat
  BY PagerAssumption DEF Types, TypesOfBounds
<1>2. jrnl \in Journals /\ jrnlDur \in Journals
  BY <1>1, SoundIs DEF Types, TypesOfFiles
<1> QED
  BY <1>1, <1>2 DEF Types, TypesOfFiles, TypesOfJournal, Found, FoundIn

LEMMA StandsForFound ==
    ASSUME Types, NEW O \in Images, StandsFor(O, outcomes), AllDurably(db, dbDur, O)
    PROVE  /\ StandsFor(O, Found) /\ StandsFor(O, {image \in outcomes : Holds(db, image)})
           /\ StandsFor(db, {image \in outcomes : Holds(db, image)})
           /\ Len(db) > 0 /\ Len(dbDur) > 0
<1>1. /\ StandsFor(O, {image \in outcomes : Holds(db, image)})
      /\ StandsFor(db, {image \in outcomes : Holds(db, image)})
      /\ Len(db) > 0 /\ Len(dbDur) > 0
  BY FilesAre, DurablyHolds
<1>2. StandsFor(O, Found)
  BY <1>1 DEF StandsFor, Found, FoundIn
<1> QED
  BY <1>1, <1>2

\* When neither journal is hot the database is settled.
LEMMA NowSettled ==
    ASSUME Types, NEW O \in Images, StandsFor(O, outcomes), AllDurably(db, dbDur, O),
           SyncedPrefix(db, dbDur), Cold(jrnl), Cold(jrnlDur)
    PROVE  Settled(O)
BY FilesAre, ColdIsSettled DEF Settled, Found

\* So it is when the journal that may come back restores what a reader may find.
LEMMA ComebackSettled ==
    ASSUME Types, NEW O \in Images, AllDurably(db, dbDur, O), SyncedPrefix(db, dbDur),
           Cold(jrnl), Comeback
    PROVE  Settled(O)
<1>1. PICK Q \in Images, t \in Nat, n \in Nat :
          StandsFor(Q, lost) /\ Chain(jrnlDur, Q, t, n) /\ Covered(db, dbDur, jrnlDur, Q, n)
  BY DEF Comeback
<1>2. StandsFor(Q, Found)
  BY <1>1 DEF StandsFor, Found, FoundIn
<1>3. Restorable(db, dbDur, jrnlDur, Found)
  BY <1>1, <1>2 DEF Restorable
<1> QED
  BY <1>3 DEF Comeback, Settled, Settles, NoJournal

\* What a playback has in its hands is settled or hot.
LEMMA PlaysSuspended ==
    ASSUME Types, NEW O \in Images, StandsFor(O, outcomes), NEW t \in Nat, NEW n \in Nat,
           Chain(jrnl, O, t, n), Covered(db, dbDur, jrnl, O, n),
           n = 0 => SyncedPrefix(db, dbDur) /\ AllDurably(db, dbDur, O),
           jrnlDur = jrnl, ~jrnlNew, jfdOpen
    PROVE  IF n = 0 THEN Settled(O) ELSE Hot(O)
<1>1. jrnlNew = FALSE /\ IsFile(jrnl)
  BY DEF Types, TypesOfFiles
<1> QED
  BY <1>1, FilesAre, PlaybackSuspends DEF Settled, Hot, Found

\* A power loss in any phase leaves the database or a journal that restores it.
LEMMA PhaseIsSafe ==
    ASSUME Types, NEW O \in Images, StandsFor(O, outcomes), Phase(O)
    PROVE  Safe(db, dbDur, jrnl, jrnlDur, jrnlNew, Found, O)
<1>1. ASSUME Suspended(O) PROVE Safe(db, dbDur, jrnl, jrnlDur, jrnlNew, Found, O)
  BY <1>1, SettledIsSafe DEF Suspended, Settled, Hot
<1>2. ASSUME Guarded(O) PROVE Safe(db, dbDur, jrnl, jrnlDur, jrnlNew, Found, O)
  BY <1>2, FilesAre, GuardedIsSafe DEF Guarded
<1>3. ASSUME PhaseHot(O) PROVE Suspended(O)
  <2>1. PICK t \in Nat, n \in Nat : PlaysHot(O, t, n)
    BY <1>3 DEF PhaseHot
  <2> QED
    BY <1>3, <2>1, PlaysSuspended DEF PhaseHot, PlaysHot, Suspended
<1>4. ASSUME PhaseDecided(O) PROVE Safe(db, dbDur, jrnl, jrnlDur, jrnlNew, Found, O)
  <2>1. CASE call.at = "finalSync"
    BY <1>4, <2>1 DEF PhaseDecided, Ending, Safe
  <2>2. CASE call.at = "finalTruncate"
    <3>1. Settled(O)
      BY <1>4, <2>2, NowSettled, ComebackSettled DEF PhaseDecided, Ending
    <3> QED
      BY <1>1, <3>1 DEF Suspended
  <2> QED
    BY <1>4, <2>1, <2>2 DEF PhaseDecided
<1>5. ASSUME PhaseOpen(O) \/ PhaseReader(O) \/ PhaseLocked(O) \/ PhaseFinalize(O) \/ PhaseError(O)
      PROVE  Suspended(O)
  BY <1>5 DEF PhaseOpen, PhaseReader, PhaseLocked, PhaseFinalize, PhaseError, Suspended
<1>6. ASSUME PhaseWrite(O) \/ PhaseFinished(O) \/ PhaseBack(O) \/ PhaseWriteClose(O)
      PROVE  Guarded(O)
  BY <1>6 DEF PhaseWrite, PhaseFinished, PhaseBack, PhaseWriteClose, Protects
<1> QED
  BY <1>1, <1>2, <1>3, <1>4, <1>5, <1>6 DEF Phase

\* A transaction that is given up leaves the database suspended.
LEMMA GuardedIsSuspended ==
    ASSUME Types, NEW O \in Images, StandsFor(O, outcomes), Guarded(O)
    PROVE  Suspended(O)
BY FilesAre, GuardedSuspends DEF Guarded, Suspended, Settled, Hot, Found

\* What each phase means for a connection that is at rest.
LEMMA PhaseAtRest ==
    ASSUME Types, NEW O \in Images, Phase(O), AtRest
    PROVE  /\ call.at \in {"idle", "restored"}
           /\ eState \notin {"WRITER_LOCKED", "WRITER_CACHEMOD", "WRITER_DBMOD"} => call.at = "idle"
           /\ eState = "OPEN" => PhaseOpen(O)
           /\ eState = "READER" => PhaseReader(O)
           /\ eState = "WRITER_LOCKED" => PhaseLocked(O)
           /\ eState \in {"WRITER_CACHEMOD", "WRITER_DBMOD"} => PhaseWrite(O)
           /\ eState = "WRITER_FINISHED" => PhaseFinished(O)
           /\ eState = "ERROR" => PhaseError(O)
<1>1. CASE PhaseOpen(O)
  BY <1>1 DEF PhaseOpen, AtRest, Between
<1>2. CASE PhaseReader(O)
  BY <1>2 DEF PhaseReader, AtRest, Between
<1>3. CASE PhaseLocked(O)
  BY <1>3 DEF PhaseLocked, AtRest, Between
<1>4. CASE PhaseWrite(O)
  BY <1>4 DEF PhaseWrite, AtRest, Between
<1>5. CASE PhaseFinished(O)
  BY <1>5 DEF PhaseFinished, AtRest, Between
<1>6. CASE PhaseError(O)
  BY <1>6 DEF PhaseError, AtRest, Between
<1>7. CASE PhaseBack(O) \/ PhaseWriteClose(O) \/ PhaseHot(O)
  BY <1>7 DEF PhaseBack, PhaseWriteClose, PhaseHot, AtRest, Between
<1>8. CASE PhaseFinalize(O) \/ PhaseDecided(O)
  BY <1>8 DEF PhaseFinalize, PhaseDecided, AtRest
<1> QED
  BY <1>1, <1>2, <1>3, <1>4, <1>5, <1>6, <1>7, <1>8 DEF Phase

LEMMA SuspendedIsNotEmpty ==
    ASSUME Types, NEW O \in Images, StandsFor(O, outcomes), Suspended(O)
    PROVE  Len(db) > 0 /\ Len(dbDur) > 0
BY StandsForFound DEF Suspended, Settled, Settles, Hot, RollsBack, Keeps, Covered

\* The image of the pager, when the file has all of its pages.
LEMMA ImageIs ==
    ASSUME Types
    PROVE  /\ Len(Image) = dbSize
           /\ Image \in Images
           /\ Current => \A p \in 1 .. dbSize : p <= Len(db) /\ Image[p] = db[p]
<1>1. dbSize \in Nat /\ dbSize <= MaxPage /\ MaxPage \in Nat /\ db \in Seq(Content) /\ 0 \in Content
  BY PagerAssumption DEF Types, TypesOfCache, TypesOfFiles, Images, Content
<1>2. ASSUME NEW p \in 1 .. dbSize PROVE p \in Page /\ PageContent(p) \in Content
  BY <1>1 DEF Types, TypesOfCache, Page, PageContent
<1>3. Image \in Seq(Content) /\ Len(Image) = dbSize /\ \A p \in 1 .. dbSize : Image[p] = PageContent(p)
  <2>1. [p \in 1 .. dbSize |-> PageContent(p)] \in [1 .. dbSize -> Content]
    BY <1>2
  <2> HIDE DEF PageContent
  <2> QED
    BY <1>1, <2>1 DEF Image
<1>4. ASSUME Current, NEW p \in 1 .. dbSize PROVE p <= Len(db) /\ Image[p] = db[p]
  BY <1>1, <1>3, <1>4 DEF Current, Matches, Cached, PageContent
<1> QED
  BY <1>3, <1>4 DEF Images

LEMMA ConsistentIsCorrect ==
    ASSUME Types, Consistent
    PROVE  AtomicCommit /\ NoHotJournal /\ CacheCoherent /\ Recoverable
<1>1. PICK O \in Images : StandsFor(O, outcomes) /\ Phase(O)
  BY DEF Consistent
<1>2. dbSize \in Nat /\ dbSize <= MaxPage /\ Len(db) \in Nat /\ MaxPage \in Nat /\ dirty \subseteq Page
  BY PagerAssumption DEF Types, TypesOfCache, TypesOfFiles, Images
<1>3. AtomicCommit
  <2> SUFFICES ASSUME eState = "READER", AtRest PROVE \E image \in outcomes : Holds(Image, image)
    BY DEF AtomicCommit
  <2>1. PhaseReader(O)
    BY <1>1, PhaseAtRest
  <2>2. AllDurably(db, dbDur, O) /\ Len(O) = dbSize /\ Coherent
    BY <2>1 DEF PhaseReader, Settled, Settles
  <2>3. ASSUME NEW p \in 1 .. dbSize PROVE p \in Page /\ p <= Len(db) /\ db[p] = O[p]
    BY <1>2, <2>2 DEF AllDurably, Durably, Page
  <2>4. Current
    BY <2>2, <2>3 DEF Current, Matches, Coherent
  <2>5. PICK image \in outcomes : Holds(O, image)
    BY <1>1 DEF StandsFor
  <2>6. image \in Images
    BY <2>5, FilesAre
  <2>7. Holds(Image, image)
    <3>1. Len(image) <= Len(Image) /\ Len(image) \in Nat
      BY <2>2, <2>5, <2>6, ImageIs DEF Holds, Images
    <3>2. ASSUME NEW p \in 1 .. Len(image) PROVE Image[p] = image[p]
      <4>1. p \in 1 .. dbSize
        BY <1>2, <3>1, ImageIs
      <4>2. O[p] = image[p]
        BY <2>5 DEF Holds
      <4> QED
        BY <2>3, <2>4, <4>1, <4>2, ImageIs
    <3> QED
      BY <3>1, <3>2 DEF Holds
  <2> QED
    BY <2>5, <2>7
<1>4. NoHotJournal
  <2> SUFFICES ASSUME eState = "READER", AtRest, Len(jrnl) > 0 PROVE ~HasMagic(jrnl[1])
    BY DEF NoHotJournal
  <2>1. PhaseReader(O)
    BY <1>1, PhaseAtRest
  <2>2. Cold(jrnl)
    BY <2>1 DEF PhaseReader, Settled, Settles, NoJournal
  <2> QED
    BY <2>2 DEF Cold, Ends
<1>5. CacheCoherent
  <2> SUFFICES ASSUME AtRest, eState \in {"READER"} \cup Writer, NEW p \in 1 .. dbSize,
                      cache[p] # NotCached, p \notin dirty
               PROVE  p <= Len(db) /\ cache[p] = db[p]
    BY DEF CacheCoherent
  <2>1. p \in Page
    BY <1>2 DEF Page
  <2>2. CASE eState = "READER"
    <3>1. PhaseReader(O)
      BY <1>1, <2>2, PhaseAtRest
    <3> QED
      BY <2>1, <3>1 DEF PhaseReader, Coherent, Cached
  <2>3. CASE eState = "WRITER_LOCKED"
    <3>1. PhaseLocked(O)
      BY <1>1, <2>3, PhaseAtRest
    <3> QED
      BY <3>1 DEF PhaseLocked, Current, Matches, Cached
  <2>4. CASE eState \in {"WRITER_CACHEMOD", "WRITER_DBMOD"}
    <3>1. PhaseWrite(O) /\ call.at \in {"idle", "restored"}
      BY <1>1, <2>4, PhaseAtRest
    <3>2. Clean
      BY <3>1 DEF PhaseWrite, Between
    <3> QED
      BY <3>2 DEF Clean, Matches, Cached
  <2>5. CASE eState = "WRITER_FINISHED"
    <3>1. PhaseFinished(O)
      BY <1>1, <2>5, PhaseAtRest
    <3> QED
      BY <3>1 DEF PhaseFinished, Current, Matches, Cached
  <2> QED
    BY <2>2, <2>3, <2>4, <2>5 DEF Writer
<1>6. Recoverable
  <2>1. Safe(db, dbDur, jrnl, jrnlDur, jrnlNew, Found, O)
    BY <1>1, PhaseIsSafe
  <2>2. \E image \in outcomes : \A p \in 1 .. Len(image) :
              \/ \A f \in {db, dbDur} : p <= Len(f) /\ f[p] = image[p]
              \/ \A f \in {jrnl, jrnlDur} : Logged(f, p, image[p])
    BY <1>1, <2>1, FilesAre, SafeIsRecoverable
  <2> QED
    BY <2>2 DEF Recoverable
<1> QED
  BY <1>3, <1>4, <1>5, <1>6

-----------------------------------------------------------------------------
(* Playing back to a savepoint.                                            *)

\* A set of numbers has a least one.
LEMMA LeastOf ==
    ASSUME NEW T \in SUBSET Nat, T # {}
    PROVE  \E x \in T : \A y \in T : x <= y
<1> DEFINE R == OpToRel(<, Nat)
<1>1. IsWellFoundedOn(R, Nat)
  BY NatLessThanWellFounded
<1>2. \E x \in T : \A y \in T : ~(<<y, x>> \in R)
  <2> HIDE DEF R
  <2> QED
    BY <1>1, WFMin
<1>3. PICK x \in T : \A y \in T : ~(<<y, x>> \in R)
  BY <1>2
<1>4. ASSUME NEW y \in T PROVE x <= y
  <2>1. x \in Nat /\ y \in Nat /\ ~(<<y, x>> \in R)
    BY <1>3
  <2>2. ~(y < x)
    BY <2>1 DEF OpToRel
  <2> HIDE DEF R
  <2> QED
    BY <2>1, <2>2
<1> QED
  BY <1>4

\* A function on 0 .. N whose value at a position depends on that at a later one.
Forward(N, stop, head, next) ==
    \A i \in (0 .. N) \ stop : head[i] \in Seq(Nat) /\ next[i] \in i + 1 .. N

Follows(g, N, stop, head, next) ==
    /\ g \in [0 .. N -> Seq(Nat)]
    /\ \A i \in 0 .. N : g[i] = IF i \in stop THEN <<>> ELSE head[i] \o g[next[i]]

\* There is one.
LEMMA ForwardFunctionExists ==
    ASSUME NEW N \in Nat, NEW stop, NEW head, NEW next, Forward(N, stop, head, next)
    PROVE  \E g : Follows(g, N, stop, head, next)
<1> USE DEF Forward, Follows
<1> DEFINE Fits(g, k) ==
              /\ g \in [N + 1 - k .. N -> Seq(Nat)]
              /\ \A i \in N + 1 - k .. N : g[i] = IF i \in stop THEN <<>> ELSE head[i] \o g[next[i]]
           Unfit == {k \in 0 .. N + 1 : ~ \E g : Fits(g, k)}
<1>1. Unfit = {}
  <2> SUFFICES ASSUME Unfit # {} PROVE FALSE
    OBVIOUS
  <2>1. PICK k \in Unfit : \A j \in Unfit : k <= j
    <3>1. Unfit \in SUBSET Nat
      OBVIOUS
    <3> HIDE DEF Unfit
    <3> QED
      BY <3>1, LeastOf
  <2>2. k \in 0 .. N + 1
    OBVIOUS
  <2>3. k # 0
    <3>1. N + 1 - 0 .. N = {}
      OBVIOUS
    <3>2. Fits([i \in {} |-> <<>>], 0)
      BY <3>1
    <3> QED
      BY <3>2
  <2>4. PICK g : Fits(g, k - 1)
    <3>1. k - 1 \in 0 .. N + 1 /\ ~(k <= k - 1)
      BY <2>2, <2>3
    <3>2. k - 1 \notin Unfit
      BY <2>1, <3>1
    <3> HIDE DEF Fits
    <3> QED
      BY <3>1, <3>2
  <2> DEFINE n == N + 1 - k
             v == IF n \in stop THEN <<>> ELSE head[n] \o g[next[n]]
             g2 == [i \in n .. N |-> IF i = n THEN v ELSE g[i]]
  <2>5. n \in 0 .. N /\ N + 1 - (k - 1) = n + 1
    BY <2>2, <2>3
  <2>6. g \in [n + 1 .. N -> Seq(Nat)]
        /\ \A i \in n + 1 .. N : g[i] = IF i \in stop THEN <<>> ELSE head[i] \o g[next[i]]
    BY <2>4, <2>5
  <2> HIDE DEF n, Fits
  <2>7. v \in Seq(Nat)
    <3>1. CASE n \in stop
      BY <3>1
    <3>2. CASE n \notin stop
      <4>1. head[n] \in Seq(Nat) /\ next[n] \in n + 1 .. N
        BY <2>5, <3>2
      <4>2. g[next[n]] \in Seq(Nat)
        BY <2>6, <4>1
      <4> QED
        BY <3>2, <4>1, <4>2
    <3> QED
      BY <3>1, <3>2
  <2>8. g2[n] = v /\ \A i \in n + 1 .. N : g2[i] = g[i]
    <3> HIDE DEF v
    <3> QED
      BY <2>5
  <2>9. g2 \in [n .. N -> Seq(Nat)]
    <3> HIDE DEF v
    <3> QED
      BY <2>5, <2>6, <2>7
  <2>10. ASSUME NEW i \in n .. N
         PROVE  g2[i] = IF i \in stop THEN <<>> ELSE head[i] \o g2[next[i]]
    <3>1. i \in 0 .. N
      BY <2>5
    <3>2. i \notin stop => next[i] \in i + 1 .. N
      BY <3>1
    <3>3. i \notin stop => g2[next[i]] = g[next[i]]
      <4> HIDE DEF g2
      <4> QED
        BY <2>5, <2>8, <3>1, <3>2
    <3>4. CASE i = n
      <4> HIDE DEF g2
      <4> QED
        BY <2>8, <3>3, <3>4
    <3>5. CASE i \in n + 1 .. N
      <4> HIDE DEF g2
      <4> QED
        BY <2>6, <2>8, <3>3, <3>5
    <3> QED
      BY <2>5, <3>4, <3>5
  <2>11. Fits(g2, k)
    <3> HIDE DEF g2
    <3> QED
      BY <2>9, <2>10 DEF Fits, n
  <2> HIDE DEF g2
  <2> QED
    BY <2>1, <2>11
<1>2. N + 1 \in 0 .. N + 1 /\ N + 1 - (N + 1) = 0
  OBVIOUS
<1>3. \E g : Fits(g, N + 1)
  <2> HIDE DEF Fits
  <2> QED
    BY <1>1, <1>2
<1> QED
  BY <1>2, <1>3

\* The numbers from a to b, in their order.
LEMMA PositionsAre ==
    ASSUME NEW a \in Nat, NEW b \in Nat, a <= b + 1
    PROVE  /\ Positions(a, b) \in Seq(Nat)
           /\ Len(Positions(a, b)) = b - a + 1
           /\ \A k \in 1 .. b - a + 1 : Positions(a, b)[k] = a + k - 1
<1> DEFINE n == b - a + 1
<1>1. n \in Nat /\ Larger(n, 0) = n
  BY DEF Larger
<1> HIDE DEF n
<1>2. Positions(a, b) = [k \in 1 .. n |-> a + k - 1]
  BY <1>1 DEF Positions, n
<1>3. \A k \in 1 .. n : a + k - 1 \in Nat
  BY <1>1
<1>4. [k \in 1 .. n |-> a + k - 1] \in [1 .. n -> Nat]
  BY <1>3
<1> QED
  BY <1>1, <1>2, <1>4 DEF n

\* What is in a sequence of numbers.
Elements(s) == {s[k] : k \in DOMAIN s}

LEMMA PositionsElements ==
    ASSUME NEW a \in Nat, NEW b \in Nat, a <= b + 1
    PROVE  Positions(a, b) \in Seq(Nat) /\ Elements(Positions(a, b)) = a .. b
<1> DEFINE s == Positions(a, b)
<1>1. s \in Seq(Nat) /\ Len(s) = b - a + 1 /\ \A k \in 1 .. b - a + 1 : s[k] = a + k - 1
  BY PositionsAre
<1> HIDE DEF s
<1>2. DOMAIN s = 1 .. b - a + 1
  BY <1>1
<1>3. ASSUME NEW x \in a .. b PROVE x \in Elements(s)
  <2>1. x - a + 1 \in 1 .. b - a + 1 /\ s[x - a + 1] = x
    BY <1>1
  <2> QED
    BY <1>2, <2>1 DEF Elements
<1>4. ASSUME NEW k \in 1 .. b - a + 1 PROVE s[k] \in a .. b
  BY <1>1
<1> QED
  BY <1>1, <1>2, <1>3, <1>4 DEF Elements, s

LEMMA ConcatElements ==
    ASSUME NEW s \in Seq(Nat), NEW t \in Seq(Nat)
    PROVE  s \o t \in Seq(Nat) /\ Elements(s \o t) = Elements(s) \cup Elements(t)
<1> DEFINE u == s \o t
           m == Len(s)
           n == Len(t)
<1>1. /\ m \in Nat /\ n \in Nat /\ u \in Seq(Nat) /\ Len(u) = m + n
      /\ \A i \in 1 .. m + n : u[i] = IF i <= m THEN s[i] ELSE t[i - m]
  BY ConcatProperties
<1>2. DOMAIN s = 1 .. m /\ DOMAIN t = 1 .. n /\ DOMAIN u = 1 .. m + n
  BY <1>1
<1> HIDE DEF u, m, n
<1>3. ASSUME NEW i \in 1 .. m + n PROVE u[i] \in Elements(s) \cup Elements(t)
  <2>1. CASE i <= m
    <3>1. i \in 1 .. m /\ u[i] = s[i]
      BY <1>1, <2>1
    <3> QED
      BY <1>2, <3>1 DEF Elements
  <2>2. CASE ~(i <= m)
    <3>1. i - m \in 1 .. n /\ u[i] = t[i - m]
      BY <1>1, <2>2
    <3> QED
      BY <1>2, <3>1 DEF Elements
  <2> QED
    BY <2>1, <2>2
<1>4. ASSUME NEW i \in 1 .. m PROVE s[i] \in Elements(u)
  <2>1. i \in 1 .. m + n /\ u[i] = s[i]
    BY <1>1
  <2> QED
    BY <1>2, <2>1 DEF Elements
<1>5. ASSUME NEW i \in 1 .. n PROVE t[i] \in Elements(u)
  <2>1. m + i \in 1 .. m + n /\ ~(m + i <= m) /\ m + i - m = i
    BY <1>1
  <2>2. u[m + i] = t[i]
    BY <1>1, <2>1
  <2> QED
    BY <1>2, <2>1, <2>2 DEF Elements
<1>6. Elements(u) \subseteq Elements(s) \cup Elements(t)
  BY <1>2, <1>3 DEF Elements
<1>7. Elements(s) \subseteq Elements(u) /\ Elements(t) \subseteq Elements(u)
  BY <1>2, <1>4, <1>5 DEF Elements
<1> QED
  BY <1>1, <1>6, <1>7 DEF u

\* A header of a segment that was synced, with its records; another header follows.
FullSegment(f, h, i) ==
    /\ f[i].magic
    /\ i + f[i].nRec <= h
    /\ \A k \in i + 1 .. i + f[i].nRec : f[k].kind = "rec"
    /\ f[i + f[i].nRec + 1].kind = "hdr"

\* The journal up to e: full segments up to the last header, which is at h, and
\* the records behind it.
LaidOut(f, e, h) ==
    /\ h < e /\ e <= Len(f)
    /\ f[1].kind = "hdr" /\ f[h + 1].kind = "hdr"
    /\ \A i \in h + 2 .. e : f[i].kind = "rec"
    /\ \A i \in 1 .. h : f[i].kind = "rec" \/ (f[i].kind = "hdr" /\ FullSegment(f, h, i))

\* The positions from the header at off on: what SegmentRecords is defined by.
LEMMA SegmentRecordsExist ==
    ASSUME jrnl \in Journals, journalOff \in Nat, journalHdr \in Nat, journalOff <= Len(jrnl)
    PROVE  SegmentRecords =
             [off \in 0 .. journalOff |->
                IF off >= journalOff \/ ~(IF off = journalHdr THEN jrnl[off + 1].kind = "hdr"
                                          ELSE HasMagic(jrnl[off + 1])) THEN <<>>
                ELSE Positions(off + 2, off + 1 + (IF off = journalHdr /\ jrnl[off + 1].nRec = 0
                                                   THEN journalOff - off - 1
                                                   ELSE Smaller(jrnl[off + 1].nRec, journalOff - off - 1)))
                     \o SegmentRecords[off + 1 + (IF off = journalHdr /\ jrnl[off + 1].nRec = 0
                                                  THEN journalOff - off - 1
                                                  ELSE Smaller(jrnl[off + 1].nRec, journalOff - off - 1))]]
<1> DEFINE valid(off) == IF off = journalHdr THEN jrnl[off + 1].kind = "hdr"
                         ELSE HasMagic(jrnl[off + 1])
           count(off) == IF off = journalHdr /\ jrnl[off + 1].nRec = 0
                         THEN journalOff - off - 1
                         ELSE Smaller(jrnl[off + 1].nRec, journalOff - off - 1)
           stop == {off \in 0 .. journalOff : off >= journalOff \/ ~valid(off)}
           head == [off \in 0 .. journalOff |-> Positions(off + 2, off + 1 + count(off))]
           next == [off \in 0 .. journalOff |-> off + 1 + count(off)]
<1>1. ASSUME NEW off \in (0 .. journalOff) \ stop
      PROVE  head[off] \in Seq(Nat) /\ next[off] \in off + 1 .. journalOff
  <2>1. off \in 0 .. journalOff /\ off < journalOff /\ valid(off)
    OBVIOUS
  <2>2. jrnl[off + 1] \in Slots /\ jrnl[off + 1].kind = "hdr"
    <3>1. off + 1 \in 1 .. Len(jrnl) /\ Len(jrnl) \in Nat
      BY <2>1 DEF Journals
    <3> QED
      BY <2>1, <3>1 DEF Journals, HasMagic
  <2>3. jrnl[off + 1].nRec \in Nat
    BY <2>2, SlotIs
  <2>4. count(off) \in 0 .. journalOff - off - 1
    BY <2>1, <2>3 DEF Smaller
  <2> HIDE DEF count, stop
  <2>5. Positions(off + 2, off + 1 + count(off)) \in Seq(Nat)
    <3>1. off + 2 \in Nat /\ off + 1 + count(off) \in Nat /\ off + 2 <= off + 1 + count(off) + 1
      BY <2>1, <2>4
    <3> QED
      BY <3>1, PositionsAre
  <2>6. head[off] = Positions(off + 2, off + 1 + count(off)) /\ next[off] = off + 1 + count(off)
    BY <2>1
  <2>7. off + 1 + count(off) \in off + 1 .. journalOff
    BY <2>1, <2>4
  <2> QED
    BY <2>5, <2>6, <2>7
<1>2. PICK g : Follows(g, journalOff, stop, head, next)
  <2>1. Forward(journalOff, stop, head, next)
    BY <1>1 DEF Forward
  <2> HIDE DEF stop, head, next
  <2> QED
    BY <2>1, ForwardFunctionExists
<1>3. g = [off \in 0 .. journalOff |->
              IF off >= journalOff \/ ~valid(off) THEN <<>>
              ELSE Positions(off + 2, off + 1 + count(off)) \o g[off + 1 + count(off)]]
  <2>1. ASSUME NEW off \in 0 .. journalOff
        PROVE  g[off] = IF off >= journalOff \/ ~valid(off) THEN <<>>
                        ELSE Positions(off + 2, off + 1 + count(off)) \o g[off + 1 + count(off)]
    <3> HIDE DEF valid, count
    <3> QED
      BY <1>2 DEF Follows
  <2> HIDE DEF valid, count
  <2> QED
    BY <1>2, <2>1 DEF Follows
<1> HIDE DEF stop, head, next
<1> QED
  BY <1>3 DEF SegmentRecords

\* They are the positions of the records.
LEMMA SegmentRecordsAre ==
    ASSUME jrnl \in Journals, journalOff \in Nat, journalHdr \in Nat,
           LaidOut(jrnl, journalOff, journalHdr), jrnl[journalHdr + 1].nRec = 0,
           NEW off \in 0 .. journalOff,
           off = journalOff \/ (off <= journalHdr /\ jrnl[off + 1].kind = "hdr")
    PROVE  /\ SegmentRecords[off] \in Seq(Nat)
           /\ Elements(SegmentRecords[off]) = {i \in off + 1 .. journalOff : jrnl[i].kind = "rec"}
<1> DEFINE Starts(o) == o = journalOff \/ (o <= journalHdr /\ jrnl[o + 1].kind = "hdr")
           Right(o) == /\ SegmentRecords[o] \in Seq(Nat)
                       /\ Elements(SegmentRecords[o]) = {i \in o + 1 .. journalOff : jrnl[i].kind = "rec"}
           Wrong == {k \in 0 .. journalOff : Starts(journalOff - k) /\ ~Right(journalOff - k)}
<1>0. journalHdr < journalOff /\ journalOff <= Len(jrnl) /\ Len(jrnl) \in Nat
  BY DEF LaidOut, Journals
<1>1. ASSUME NEW o \in 0 .. journalOff, Starts(o),
             \A o2 \in o + 1 .. journalOff : Starts(o2) => Right(o2)
      PROVE  Right(o)
  <2> DEFINE valid == IF o = journalHdr THEN jrnl[o + 1].kind = "hdr" ELSE HasMagic(jrnl[o + 1])
             count == IF o = journalHdr /\ jrnl[o + 1].nRec = 0 THEN journalOff - o - 1
                      ELSE Smaller(jrnl[o + 1].nRec, journalOff - o - 1)
             end == o + 1 + count
  <2>1. SegmentRecords[o] = IF o >= journalOff \/ ~valid THEN <<>>
                            ELSE Positions(o + 2, end) \o SegmentRecords[end]
    <3> HIDE DEF Right, Starts
    <3> QED
      BY <1>0, SegmentRecordsExist
  <2>2. CASE o = journalOff
    <3>1. SegmentRecords[o] = <<>>
      BY <2>1, <2>2
    <3>2. Elements(<<>>) = {}
      BY DEF Elements
    <3>3. o + 1 .. journalOff = {}
      BY <2>2
    <3>4. <<>> \in Seq(Nat)
      OBVIOUS
    <3> QED
      BY <3>1, <3>2, <3>3, <3>4
  <2>3. CASE o # journalOff
    <3>1. o <= journalHdr /\ jrnl[o + 1].kind = "hdr" /\ o < journalOff
      BY <1>0, <1>1, <2>3
    <3>2. valid /\ count \in 0 .. journalOff - o - 1 /\ Starts(end)
          /\ \A i \in o + 2 .. end : jrnl[i].kind = "rec"
      <4>1. CASE o = journalHdr
        <5>1. valid /\ count = journalOff - o - 1 /\ end = journalOff
          BY <1>0, <3>1, <4>1
        <5>2. \A i \in o + 2 .. journalOff : jrnl[i].kind = "rec"
          BY <4>1 DEF LaidOut
        <5> HIDE DEF valid, count, end
        <5> QED
          BY <1>0, <3>1, <5>1, <5>2
      <4>2. CASE o # journalHdr
        <5>1. o + 1 \in 1 .. journalHdr
          BY <3>1, <4>2
        <5>2. FullSegment(jrnl, journalHdr, o + 1)
          BY <3>1, <5>1 DEF LaidOut
        <5>3. jrnl[o + 1] \in Slots
          BY <1>0, <3>1 DEF Journals
        <5>4. jrnl[o + 1].nRec \in Nat
          BY <3>1, <5>3, SlotIs
        <5>5. /\ jrnl[o + 1].magic /\ o + 1 + jrnl[o + 1].nRec <= journalHdr
              /\ \A k \in o + 2 .. o + 1 + jrnl[o + 1].nRec : jrnl[k].kind = "rec"
              /\ jrnl[o + 1 + jrnl[o + 1].nRec + 1].kind = "hdr"
          <6>1. o + 1 + 1 = o + 2
            OBVIOUS
          <6> QED
            BY <5>2, <6>1 DEF FullSegment
        <5>6. count = jrnl[o + 1].nRec
          BY <1>0, <3>1, <4>2, <5>4, <5>5 DEF Smaller
        <5>7. valid
          BY <3>1, <4>2, <5>5 DEF HasMagic
        <5> HIDE DEF valid, count
        <5> QED
          BY <1>0, <3>1, <5>4, <5>5, <5>6, <5>7
      <4> QED
        BY <4>1, <4>2
    <3> HIDE DEF valid, count, Starts
    <3>3. end \in o + 1 .. journalOff
      BY <3>1, <3>2
    <3>4. Right(end)
      BY <1>1, <3>2, <3>3
    <3>5. Positions(o + 2, end) \in Seq(Nat) /\ Elements(Positions(o + 2, end)) = o + 2 .. end
      <4>1. o + 2 \in Nat /\ end \in Nat /\ o + 2 <= end + 1
        BY <3>1, <3>3
      <4> HIDE DEF end
      <4> QED
        BY <4>1, PositionsElements
    <3>6. SegmentRecords[o] = Positions(o + 2, end) \o SegmentRecords[end]
      <4>1. ~(o >= journalOff)
        BY <3>1
      <4> QED
        BY ONLY <2>1, <3>2, <4>1
    <3> HIDE DEF end
    <3>7. SegmentRecords[o] \in Seq(Nat)
          /\ Elements(SegmentRecords[o]) = (o + 2 .. end) \cup Elements(SegmentRecords[end])
      <4>1. SegmentRecords[end] \in Seq(Nat)
        BY <3>4
      <4>2. PICK s : s = Positions(o + 2, end)
        OBVIOUS
      <4>3. PICK t : t = SegmentRecords[end]
        OBVIOUS
      <4>4. s \in Seq(Nat) /\ t \in Seq(Nat) /\ Elements(s) = o + 2 .. end /\ SegmentRecords[o] = s \o t
        BY ONLY <3>5, <3>6, <4>1, <4>2, <4>3
      <4>5. s \o t \in Seq(Nat) /\ Elements(s \o t) = Elements(s) \cup Elements(t)
        BY ONLY <4>4, ConcatElements
      <4> QED
        BY ONLY <4>3, <4>4, <4>5
    <3>8. (o + 2 .. end) \cup {i \in end + 1 .. journalOff : jrnl[i].kind = "rec"}
             = {i \in o + 1 .. journalOff : jrnl[i].kind = "rec"}
      <4>1. \A i \in o + 2 .. end : jrnl[i].kind = "rec"
        BY <3>2 DEF end
      <4>2. jrnl[o + 1].kind # "rec"
        BY <3>1
      <4>3. ASSUME NEW i, i \in (o + 2 .. end) \cup {k \in end + 1 .. journalOff : jrnl[k].kind = "rec"}
            PROVE  i \in {k \in o + 1 .. journalOff : jrnl[k].kind = "rec"}
        BY <3>1, <3>3, <4>1, <4>3
      <4>4. ASSUME NEW i \in o + 1 .. journalOff, jrnl[i].kind = "rec"
            PROVE  i \in (o + 2 .. end) \cup {k \in end + 1 .. journalOff : jrnl[k].kind = "rec"}
        BY <3>1, <3>3, <4>2, <4>4
      <4> QED
        BY <4>3, <4>4
    <3> QED
      BY <3>4, <3>7, <3>8
  <2> QED
    BY <2>2, <2>3
<1> HIDE DEF Starts, Right
<1>2. Wrong = {}
  <2> SUFFICES ASSUME Wrong # {} PROVE FALSE
    OBVIOUS
  <2>1. PICK k \in Wrong : \A j \in Wrong : k <= j
    <3>1. Wrong \in SUBSET Nat
      OBVIOUS
    <3> HIDE DEF Wrong
    <3> QED
      BY <3>1, LeastOf
  <2>2. k \in 0 .. journalOff /\ journalOff - k \in 0 .. journalOff
    OBVIOUS
  <2>3. ASSUME NEW o2 \in journalOff - k + 1 .. journalOff, Starts(o2) PROVE Right(o2)
    <3>1. journalOff - o2 \in 0 .. journalOff /\ ~(k <= journalOff - o2)
          /\ journalOff - (journalOff - o2) = o2
      BY <2>2
    <3>2. journalOff - o2 \notin Wrong
      BY <2>1, <3>1
    <3> QED
      BY <2>3, <3>1, <3>2
  <2>4. Starts(journalOff - k) /\ ~Right(journalOff - k)
    OBVIOUS
  <2> QED
    BY <1>1, <2>2, <2>3, <2>4
<1>3. journalOff - off \in 0 .. journalOff /\ journalOff - (journalOff - off) = off
  OBVIOUS
<1>4. Starts(off)
  BY DEF Starts
<1>5. Right(off)
  BY <1>2, <1>3, <1>4
<1> QED
  BY <1>5 DEF Right

\* The journal has a record of page p with the content v between the offsets a and b.
RecordedAs(f, a, b, p, v) == \E i \in a + 1 .. b : f[i].kind = "rec" /\ f[i].pg = p /\ f[i].val = v

\* Page p has the content v in the first record that a rollback plays back, of those
\* behind offset a of the journal and then of those behind the first m of the
\* sub-journal.
Logs(f, e, sub, a, m, p, v) ==
    \/ RecordedAs(f, a, e, p, v)
    \/ /\ ~Recorded(f, a, e, p)
       /\ \E j \in m + 1 .. Len(sub) :
             sub[j].pg = p /\ sub[j].val = v /\ \A l \in m + 1 .. j - 1 : sub[l].pg # p

\* There is none.
LogsNot(f, e, sub, a, m, p) ==
    ~Recorded(f, a, e, p) /\ \A j \in m + 1 .. Len(sub) : sub[j].pg # p

\* A page is journalled once.
Distinct(f, e) ==
    \A i, j \in 1 .. e : f[i].kind = "rec" /\ f[j].kind = "rec" /\ f[i].pg = f[j].pg => i = j

\* Where the records of a savepoint begin and where their first segment ends.
Points(f, e, h, s) ==
    IF s.iHdrOffset = 0 THEN h < s.iOffset /\ s.iOffset <= e
    ELSE /\ s.iOffset <= s.iHdrOffset /\ s.iHdrOffset <= h
         /\ f[s.iHdrOffset + 1].kind = "hdr"
         /\ \A i \in s.iOffset + 1 .. s.iHdrOffset : f[i].kind = "rec"

\* The offsets in the journal and in the sub-journal of the savepoint i, or of the
\* transaction (i = 0).
Start(i) == IF i = 0 THEN 1 ELSE savepoint[i].iOffset
Skip(i) == IF i = 0 THEN Len(subJournal) ELSE savepoint[i].iSubRec

\* The journals are as a savepoint i needs them.
Replayable(i) ==
    /\ jrnl \in Journals /\ journalOff \in Nat /\ journalHdr \in Nat
    /\ subJournal \in Seq(SubRecord) /\ savepoint \in Seq(Savepoint)
    /\ LaidOut(jrnl, journalOff, journalHdr) /\ jrnl[journalHdr + 1].nRec = 0
    /\ i = 0 \/ (/\ i \in 1 .. Len(savepoint)
                 /\ Points(jrnl, journalOff, journalHdr, savepoint[i])
                 /\ savepoint[i].iSubRec <= Len(subJournal))

LEMMA MainRecordsAre ==
    ASSUME NEW i \in Nat, Replayable(i)
    PROVE  /\ MainRecords(i) \in Seq(Nat)
           /\ Elements(MainRecords(i)) = {k \in Start(i) + 1 .. journalOff : jrnl[k].kind = "rec"}
<1> USE DEF Replayable
<1>0. journalHdr < journalOff
  BY DEF LaidOut
<1>1. CASE i = 0
  <2>1. jrnl[1].kind = "hdr" /\ 0 \in 0 .. journalOff /\ 0 <= journalHdr /\ 0 + 1 = 1
    BY DEF LaidOut
  <2>2. SegmentRecords[0] \in Seq(Nat)
        /\ Elements(SegmentRecords[0]) = {k \in 0 + 1 .. journalOff : jrnl[k].kind = "rec"}
    BY <2>1, SegmentRecordsAre
  <2>3. {k \in 0 + 1 .. journalOff : jrnl[k].kind = "rec"} = {k \in 1 + 1 .. journalOff : jrnl[k].kind = "rec"}
    <3>1. \A k \in 0 + 1 .. journalOff : jrnl[k].kind = "rec" => k # 1
      BY <2>1
    <3> QED
      BY <3>1
  <2>4. MainRecords(i) = SegmentRecords[0] /\ Start(i) = 1
    BY <1>1 DEF MainRecords, Start
  <2> QED
    BY <2>2, <2>3, <2>4
<1>2. CASE i # 0
  <2> DEFINE s == savepoint[i]
             end == IF s.iHdrOffset # 0 THEN s.iHdrOffset ELSE journalOff
  <2>1. s.iOffset \in Nat /\ s.iHdrOffset \in Nat /\ Points(jrnl, journalOff, journalHdr, s)
    <3>1. s \in Savepoint
      BY <1>2
    <3>2. Points(jrnl, journalOff, journalHdr, s)
      BY <1>2
    <3> HIDE DEF s
    <3> QED
      BY <3>1, <3>2 DEF Savepoint
  <2> HIDE DEF s
  <2>2. /\ end \in 0 .. journalOff /\ s.iOffset <= end
        /\ end = journalOff \/ (end <= journalHdr /\ jrnl[end + 1].kind = "hdr")
        /\ \A k \in s.iOffset + 1 .. end : jrnl[k].kind = "rec"
    <3>1. CASE s.iHdrOffset = 0
      <4>1. end = journalOff /\ journalHdr < s.iOffset /\ s.iOffset <= journalOff
        BY <2>1, <3>1 DEF Points
      <4>2. \A k \in journalHdr + 2 .. journalOff : jrnl[k].kind = "rec"
        BY DEF LaidOut
      <4> HIDE DEF end
      <4> QED
        BY <2>1, <4>1, <4>2
    <3>2. CASE s.iHdrOffset # 0
      <4>1. /\ end = s.iHdrOffset /\ s.iOffset <= end /\ end <= journalHdr
            /\ jrnl[end + 1].kind = "hdr" /\ \A k \in s.iOffset + 1 .. end : jrnl[k].kind = "rec"
        BY <2>1, <3>2 DEF Points
      <4> HIDE DEF end
      <4> QED
        BY <1>0, <2>1, <4>1
    <3> QED
      BY <3>1, <3>2
  <2>3. MainRecords(i) = Positions(s.iOffset + 1, end) \o SegmentRecords[end]
    BY <1>2 DEF MainRecords, s
  <2> HIDE DEF end
  <2>4. Positions(s.iOffset + 1, end) \in Seq(Nat) /\ Elements(Positions(s.iOffset + 1, end)) = s.iOffset + 1 .. end
    <3>1. s.iOffset + 1 \in Nat /\ end \in Nat /\ s.iOffset + 1 <= end + 1
      BY <2>1, <2>2
    <3> QED
      BY <3>1, PositionsElements
  <2>5. SegmentRecords[end] \in Seq(Nat)
        /\ Elements(SegmentRecords[end]) = {k \in end + 1 .. journalOff : jrnl[k].kind = "rec"}
    BY <2>2, SegmentRecordsAre
  <2>6. PICK u, w : u = Positions(s.iOffset + 1, end) /\ w = SegmentRecords[end]
    OBVIOUS
  <2>7. MainRecords(i) = u \o w /\ u \o w \in Seq(Nat) /\ Elements(u \o w) = Elements(u) \cup Elements(w)
    <3>1. u \in Seq(Nat) /\ w \in Seq(Nat) /\ MainRecords(i) = u \o w
      BY ONLY <2>3, <2>4, <2>5, <2>6
    <3> QED
      BY ONLY <3>1, ConcatElements
  <2>8. (s.iOffset + 1 .. end) \cup {k \in end + 1 .. journalOff : jrnl[k].kind = "rec"}
            = {k \in s.iOffset + 1 .. journalOff : jrnl[k].kind = "rec"}
    <3>1. ASSUME NEW k, k \in (s.iOffset + 1 .. end) \cup {x \in end + 1 .. journalOff : jrnl[x].kind = "rec"}
          PROVE  k \in {x \in s.iOffset + 1 .. journalOff : jrnl[x].kind = "rec"}
      BY <2>1, <2>2, <3>1
    <3>2. ASSUME NEW k \in s.iOffset + 1 .. journalOff, jrnl[k].kind = "rec"
          PROVE  k \in (s.iOffset + 1 .. end) \cup {x \in end + 1 .. journalOff : jrnl[x].kind = "rec"}
      BY <2>1, <2>2, <3>2
    <3> QED
      BY <3>1, <3>2
  <2>9. Start(i) = s.iOffset
    BY <1>2 DEF Start, s
  <2> QED
    BY ONLY <2>4, <2>5, <2>6, <2>7, <2>8, <2>9
<1> QED
  BY <1>1, <1>2

\* The records of a rollback.
ReplayRecord == [main : BOOLEAN, pos : Nat, pg : Page, val : Content]

FromJournal(i, r) ==
    /\ r.main /\ r.pos \in Start(i) + 1 .. journalOff
    /\ jrnl[r.pos].kind = "rec" /\ jrnl[r.pos].pg = r.pg /\ jrnl[r.pos].val = r.val

FromSubJournal(i, r, j) ==
    /\ ~r.main /\ j \in Skip(i) + 1 .. Len(subJournal)
    /\ subJournal[j].pg = r.pg /\ subJournal[j].val = r.val

\* First those of the journal, then those of the sub-journal, which keep their order.
LEMMA ReplayIs ==
    ASSUME NEW i \in Nat, Replayable(i)
    PROVE  \E M \in Nat :
             /\ Replay(i) \in Seq(ReplayRecord)
             /\ Len(Replay(i)) = M + Len(subJournal) - Skip(i)
             /\ \A k \in 1 .. M : FromJournal(i, Replay(i)[k])
             /\ \A x \in Start(i) + 1 .. journalOff : jrnl[x].kind = "rec" =>
                   \E k \in 1 .. M : Replay(i)[k].pos = x
             /\ \A j \in Skip(i) + 1 .. Len(subJournal) :
                   FromSubJournal(i, Replay(i)[M + j - Skip(i)], j)
<1> DEFINE main == MainRecords(i)
           M == Len(main)
           n == Len(subJournal) - Skip(i)
           A == [k \in DOMAIN main |->
                    [main |-> TRUE, pos |-> main[k], pg |-> jrnl[main[k]].pg, val |-> jrnl[main[k]].val]]
           B == [k \in 1 .. n |->
                    [main |-> FALSE, pos |-> 0,
                     pg |-> subJournal[Skip(i) + k].pg, val |-> subJournal[Skip(i) + k].val]]
<1>1. Replay(i) = A \o B
  BY DEF Replay, Skip
<1>2. main \in Seq(Nat) /\ Elements(main) = {k \in Start(i) + 1 .. journalOff : jrnl[k].kind = "rec"}
  BY MainRecordsAre
<1>3. Skip(i) \in Nat /\ Len(subJournal) \in Nat /\ Skip(i) <= Len(subJournal) /\ Start(i) \in Nat
      /\ journalOff <= Len(jrnl) /\ Len(jrnl) \in Nat
  <2>1. i # 0 => savepoint[i].iSubRec \in Nat /\ savepoint[i].iOffset \in Nat /\ savepoint[i].iSubRec <= Len(subJournal)
    <3>1. i # 0 => savepoint[i] \in Savepoint /\ savepoint[i].iSubRec <= Len(subJournal)
      BY DEF Replayable
    <3> QED
      BY <3>1 DEF Savepoint
  <2>2. Len(subJournal) \in Nat /\ Len(jrnl) \in Nat /\ journalOff <= Len(jrnl)
    BY DEF Replayable, LaidOut, Journals
  <2> QED
    BY <2>1, <2>2 DEF Replayable, Skip, Start
<1> HIDE DEF main
<1>4. M \in Nat /\ DOMAIN main = 1 .. M
  BY <1>2
<1>5. ASSUME NEW k \in 1 .. M
      PROVE  /\ main[k] \in Start(i) + 1 .. journalOff /\ jrnl[main[k]].kind = "rec"
             /\ jrnl[main[k]].pg \in Page /\ jrnl[main[k]].val \in Content
  <2>1. main[k] \in Elements(main)
    BY <1>4 DEF Elements
  <2>2. main[k] \in Start(i) + 1 .. journalOff /\ jrnl[main[k]].kind = "rec"
    BY <1>2, <2>1
  <2>3. jrnl[main[k]] \in Slots
    BY <1>3, <2>2 DEF Replayable, Journals
  <2> QED
    BY <2>2, <2>3, SlotIs
<1>6. \A x \in Start(i) + 1 .. journalOff : jrnl[x].kind = "rec" => \E k \in 1 .. M : main[k] = x
  BY <1>2, <1>4 DEF Elements
<1> HIDE DEF M
<1>7. A \in Seq(ReplayRecord) /\ Len(A) = M
  <2>1. A \in [1 .. M -> ReplayRecord]
    <3>1. \A k \in 1 .. M : main[k] \in Nat
      BY <1>3, <1>5
    <3> QED
      BY <1>4, <1>5, <3>1 DEF ReplayRecord
  <2> HIDE DEF A
  <2> QED
    BY <1>4, <2>1
<1>8. n \in Nat /\ B \in Seq(ReplayRecord) /\ Len(B) = n
  <2>1. n \in Nat
    BY <1>3
  <2>2. \A k \in 1 .. n : subJournal[Skip(i) + k] \in SubRecord
    <3>1. \A k \in 1 .. n : Skip(i) + k \in 1 .. Len(subJournal)
      BY <1>3
    <3> QED
      BY <3>1 DEF Replayable
  <2> HIDE DEF n
  <2>3. B \in [1 .. n -> ReplayRecord]
    BY <2>2 DEF ReplayRecord, SubRecord
  <2> HIDE DEF B
  <2> QED
    BY <2>1, <2>3
<1>9. /\ \A k \in 1 .. M : A[k] = [main |-> TRUE, pos |-> main[k], pg |-> jrnl[main[k]].pg, val |-> jrnl[main[k]].val]
      /\ \A k \in 1 .. n : B[k] = [main |-> FALSE, pos |-> 0,
                     pg |-> subJournal[Skip(i) + k].pg, val |-> subJournal[Skip(i) + k].val]
  BY <1>4
<1> HIDE DEF A, B, n
<1>10. /\ A \o B \in Seq(ReplayRecord) /\ Len(A \o B) = M + n
       /\ \A k \in 1 .. M + n : (A \o B)[k] = IF k <= M THEN A[k] ELSE B[k - M]
  BY <1>7, <1>8, ConcatProperties
<1>11. Replay(i) \in Seq(ReplayRecord) /\ Len(Replay(i)) = M + Len(subJournal) - Skip(i)
  BY <1>1, <1>3, <1>4, <1>10 DEF n
<1>12. ASSUME NEW k \in 1 .. M PROVE FromJournal(i, Replay(i)[k]) /\ Replay(i)[k].pos = main[k]
  <2>1. k \in 1 .. M + n /\ k <= M
    BY <1>4, <1>8
  <2>2. Replay(i)[k] = A[k]
    BY <1>1, <1>10, <2>1
  <2>3. Replay(i)[k] = [main |-> TRUE, pos |-> main[k], pg |-> jrnl[main[k]].pg, val |-> jrnl[main[k]].val]
    BY <1>9, <2>2
  <2>4. Replay(i)[k].main
    BY <2>3
  <2>5. Replay(i)[k].pos = main[k] /\ Replay(i)[k].pg = jrnl[main[k]].pg /\ Replay(i)[k].val = jrnl[main[k]].val
    BY <2>3
  <2> QED
    BY <1>5, <2>4, <2>5 DEF FromJournal
<1>13. ASSUME NEW j \in Skip(i) + 1 .. Len(subJournal)
       PROVE  FromSubJournal(i, Replay(i)[M + j - Skip(i)], j)
  <2> DEFINE k == M + j - Skip(i)
             l == j - Skip(i)
  <2>1. k \in 1 .. M + n /\ ~(k <= M) /\ k - M = l /\ l \in 1 .. n /\ Skip(i) + l = j
    BY SMTT(40), <1>3, <1>4, <1>8 DEF n
  <2>2. Replay(i)[k] = B[l]
    BY <1>1, <1>10, <2>1
  <2>3. B[l] = [main |-> FALSE, pos |-> 0, pg |-> subJournal[j].pg, val |-> subJournal[j].val]
    BY <1>9, <2>1
  <2> HIDE DEF k, l
  <2>4. FromSubJournal(i, Replay(i)[k], j)
    BY <2>2, <2>3 DEF FromSubJournal
  <2> QED
    BY <2>4 DEF k
<1> QED
  BY <1>4, <1>6, <1>11, <1>12, <1>13

\* The k-th record of a list is the first one of its page.
FirstAt(list, k) == \A j \in 1 .. k - 1 : list[j].pg # list[k].pg

\* The first records of a list are one for each page of the list.
LEMMA FirstRecordsAre ==
    ASSUME NEW list \in Seq(ReplayRecord), NEW size \in Nat
    PROVE  /\ \A r \in FirstRecords(list, size) :
                 \E k \in 1 .. Len(list) : r = list[k] /\ r.pg <= size /\ FirstAt(list, k)
           /\ \A r, q \in FirstRecords(list, size) : r.pg = q.pg => r = q
           /\ \A k \in 1 .. Len(list) : list[k].pg <= size =>
                 \E r \in FirstRecords(list, size) : r.pg = list[k].pg
<1> DEFINE n == Len(list)
<1>1. n \in Nat /\ DOMAIN list = 1 .. n /\ \A k \in 1 .. n : list[k] \in ReplayRecord
  OBVIOUS
<1>2. FirstRecords(list, size) = {list[k] : k \in {k \in 1 .. n : list[k].pg <= size /\ FirstAt(list, k)}}
  BY <1>1 DEF FirstRecords, FirstAt
<1> HIDE DEF n
<1>3. ASSUME NEW r \in FirstRecords(list, size)
      PROVE  \E k \in 1 .. n : r = list[k] /\ r.pg <= size /\ FirstAt(list, k)
  BY <1>2
<1>4. ASSUME NEW r \in FirstRecords(list, size), NEW q \in FirstRecords(list, size), r.pg = q.pg
      PROVE  r = q
  <2>1. PICK k \in 1 .. n : r = list[k] /\ FirstAt(list, k)
    BY <1>3
  <2>2. PICK l \in 1 .. n : q = list[l] /\ FirstAt(list, l)
    BY <1>3
  <2>3. ~(k < l) /\ ~(l < k)
    <3>1. k \in Nat /\ l \in Nat /\ k >= 1 /\ l >= 1
      BY <1>1
    <3>2. ASSUME k < l PROVE FALSE
      <4>1. k \in 1 .. l - 1
        BY <3>1, <3>2
      <4> QED
        BY <1>4, <2>1, <2>2, <4>1 DEF FirstAt
    <3>3. ASSUME l < k PROVE FALSE
      <4>1. l \in 1 .. k - 1
        BY <3>1, <3>3
      <4> QED
        BY <1>4, <2>1, <2>2, <4>1 DEF FirstAt
    <3> QED
      BY <3>2, <3>3
  <2>4. k = l
    BY <1>1, <2>3
  <2> QED
    BY <2>1, <2>2, <2>4
<1>5. ASSUME NEW k \in 1 .. n, list[k].pg <= size
      PROVE  \E r \in FirstRecords(list, size) : r.pg = list[k].pg
  <2> DEFINE T == {l \in 1 .. n : list[l].pg = list[k].pg}
  <2>1. PICK l \in T : \A j \in T : l <= j
    <3>1. k \in T /\ T \in SUBSET Nat
      BY <1>1
    <3> HIDE DEF T
    <3> QED
      BY <3>1, LeastOf
  <2>2. l \in 1 .. n /\ list[l].pg = list[k].pg
    BY <2>1
  <2>3. FirstAt(list, l)
    <3>1. ASSUME NEW j \in 1 .. l - 1 PROVE list[j].pg # list[l].pg
      <4>1. j \in 1 .. n /\ ~(l <= j)
        BY <1>1, <2>2
      <4> QED
        BY <2>1, <2>2, <4>1
    <3> QED
      BY <3>1 DEF FirstAt
  <2>4. list[l] \in FirstRecords(list, size)
    BY <1>2, <1>5, <2>2, <2>3
  <2> QED
    BY <2>2, <2>4
<1> QED
  BY <1>3, <1>4, <1>5 DEF n

\* A rollback plays back of each page what the journals log of it.
LEMMA ReplayRestores ==
    ASSUME NEW i \in Nat, Replayable(i), Distinct(jrnl, journalOff), NEW size \in Nat
    PROVE  /\ \A p \in Page : \A v :
                 p <= size /\ Logs(jrnl, journalOff, subJournal, Start(i), Skip(i), p, v) =>
                    \E r \in FirstRecords(Replay(i), size) : r.pg = p /\ r.val = v
           /\ \A p \in Page :
                 LogsNot(jrnl, journalOff, subJournal, Start(i), Skip(i), p) =>
                    \A r \in FirstRecords(Replay(i), size) : r.pg # p
<1> DEFINE list == Replay(i)
           a == Start(i)
           m == Skip(i)
           n == Len(subJournal)
<1>1. PICK M \in Nat :
         /\ list \in Seq(ReplayRecord) /\ Len(list) = M + n - m
         /\ \A k \in 1 .. M : FromJournal(i, list[k])
         /\ \A x \in a + 1 .. journalOff : jrnl[x].kind = "rec" => \E k \in 1 .. M : list[k].pos = x
         /\ \A j \in m + 1 .. n : FromSubJournal(i, list[M + j - m], j)
  BY ReplayIs
<1>3. m \in Nat /\ n \in Nat /\ m <= n /\ a \in Nat /\ journalOff \in Nat
  <2>1. i # 0 => savepoint[i] \in Savepoint /\ savepoint[i].iSubRec <= n
    BY DEF Replayable
  <2>2. i # 0 => savepoint[i].iSubRec \in Nat /\ savepoint[i].iOffset \in Nat /\ savepoint[i].iSubRec <= n
    BY <2>1 DEF Savepoint
  <2>3. n \in Nat /\ journalOff \in Nat
    BY DEF Replayable
  <2> QED
    BY <2>2, <2>3 DEF Skip, Start
<1>4. ASSUME NEW k \in 1 .. Len(list), ~(k <= M)
      PROVE  k - M + m \in m + 1 .. n /\ FromSubJournal(i, list[k], k - M + m)
  <2>1. k - M + m \in m + 1 .. n /\ M + (k - M + m) - m = k
    BY <1>1, <1>3, <1>4
  <2> QED
    BY <1>1, <2>1
<1>5. /\ \A r \in FirstRecords(list, size) :
            \E k \in 1 .. Len(list) : r = list[k] /\ r.pg <= size /\ FirstAt(list, k)
      /\ \A k \in 1 .. Len(list) : list[k].pg <= size =>
            \E r \in FirstRecords(list, size) : r.pg = list[k].pg
  BY <1>1, FirstRecordsAre
<1> HIDE DEF list, a, m, n
<1>6. ASSUME NEW p \in Page, LogsNot(jrnl, journalOff, subJournal, a, m, p),
             NEW k \in 1 .. Len(list)
      PROVE  list[k].pg # p
  <2>1. CASE k <= M
    <3>1. FromJournal(i, list[k])
      BY <1>1, <2>1
    <3>2. list[k].pos \in a + 1 .. journalOff /\ jrnl[list[k].pos].kind = "rec" /\ jrnl[list[k].pos].pg = list[k].pg
      BY <3>1 DEF FromJournal, a
    <3> QED
      BY <1>6, <3>2 DEF LogsNot, Recorded
  <2>2. CASE ~(k <= M)
    <3>1. k - M + m \in m + 1 .. n /\ FromSubJournal(i, list[k], k - M + m)
      BY <1>4, <2>2
    <3>2. subJournal[k - M + m].pg = list[k].pg
      BY <3>1 DEF FromSubJournal
    <3> QED
      BY <1>6, <3>1, <3>2 DEF LogsNot, n
  <2> QED
    BY <2>1, <2>2
<1>7. ASSUME NEW p \in Page, NEW v, p <= size, Logs(jrnl, journalOff, subJournal, a, m, p, v)
      PROVE  \E r \in FirstRecords(list, size) : r.pg = p /\ r.val = v
  <2>1. CASE \E x \in a + 1 .. journalOff : jrnl[x].kind = "rec" /\ jrnl[x].pg = p /\ jrnl[x].val = v
    <3>1. PICK x \in a + 1 .. journalOff : jrnl[x].kind = "rec" /\ jrnl[x].pg = p /\ jrnl[x].val = v
      BY <2>1
    <3>2. PICK k \in 1 .. M : list[k].pos = x
      BY <1>1, <3>1
    <3>3. k \in 1 .. Len(list) /\ list[k].pg = p
      <4>1. k \in 1 .. Len(list)
        BY <1>1, <1>3
      <4>2. FromJournal(i, list[k])
        BY <1>1
      <4> QED
        BY <3>1, <3>2, <4>1, <4>2 DEF FromJournal
    <3>4. PICK r \in FirstRecords(list, size) : r.pg = p
      BY <1>5, <1>7, <3>3
    <3>5. PICK l \in 1 .. Len(list) : r = list[l] /\ FirstAt(list, l)
      BY <1>5
    <3>6. l <= k
      <4>1. ASSUME ~(l <= k) PROVE FALSE
        <5>1. k \in 1 .. l - 1
          BY <3>3, <4>1
        <5> QED
          BY <3>3, <3>4, <3>5, <5>1 DEF FirstAt
      <4> QED
        BY <4>1
    <3>7. FromJournal(i, list[l])
      <4>1. l \in 1 .. M
        BY <3>6
      <4> QED
        BY <1>1, <4>1
    <3>8. /\ list[l].pos \in a + 1 .. journalOff /\ jrnl[list[l].pos].kind = "rec"
          /\ jrnl[list[l].pos].pg = p /\ jrnl[list[l].pos].val = r.val
      BY <3>4, <3>5, <3>7 DEF FromJournal, a
    <3>9. list[l].pos = x
      <4>1. list[l].pos \in 1 .. journalOff /\ x \in 1 .. journalOff
        BY <1>3, <3>1, <3>8
      <4> QED
        BY <3>1, <3>8, <4>1 DEF Distinct
    <3> QED
      BY <3>1, <3>4, <3>8, <3>9
  <2>2. CASE /\ ~Recorded(jrnl, a, journalOff, p)
             /\ \E j \in m + 1 .. n :
                   subJournal[j].pg = p /\ subJournal[j].val = v /\ \A l \in m + 1 .. j - 1 : subJournal[l].pg # p
    <3>1. PICK j \in m + 1 .. n :
             subJournal[j].pg = p /\ subJournal[j].val = v /\ \A l \in m + 1 .. j - 1 : subJournal[l].pg # p
      BY <2>2
    <3> DEFINE k == M + j - m
    <3>2. k \in 1 .. Len(list) /\ list[k].pg = p
      <4>1. k \in 1 .. Len(list)
        BY <1>1, <1>3
      <4>2. FromSubJournal(i, list[k], j)
        BY <1>1
      <4> QED
        BY <3>1, <4>1, <4>2 DEF FromSubJournal
    <3>3. k - M + m = j
      BY <1>3
    <3> HIDE DEF k
    <3>4. PICK r \in FirstRecords(list, size) : r.pg = p
      BY <1>5, <1>7, <3>2
    <3>5. PICK l \in 1 .. Len(list) : r = list[l] /\ FirstAt(list, l)
      BY <1>5
    <3>6. l <= k
      <4>1. ASSUME ~(l <= k) PROVE FALSE
        <5>1. k \in 1 .. l - 1
          BY <3>2, <4>1
        <5> QED
          BY <3>2, <3>4, <3>5, <5>1 DEF FirstAt
      <4> QED
        BY <4>1
    <3>7. ~(l <= M)
      <4>1. ASSUME l <= M PROVE FALSE
        <5>1. FromJournal(i, list[l])
          BY <1>1, <4>1
        <5>2. list[l].pos \in a + 1 .. journalOff /\ jrnl[list[l].pos].kind = "rec" /\ jrnl[list[l].pos].pg = p
          BY <3>4, <3>5, <5>1 DEF FromJournal, a
        <5> QED
          BY <2>2, <5>2 DEF Recorded
      <4> QED
        BY <4>1
    <3>8. l - M + m \in m + 1 .. n /\ FromSubJournal(i, list[l], l - M + m)
      BY <1>4, <3>7
    <3>9. subJournal[l - M + m].pg = p /\ subJournal[l - M + m].val = r.val
      BY <3>4, <3>5, <3>8 DEF FromSubJournal
    <3>10. l - M + m = j
      <4>1. l - M + m \notin m + 1 .. j - 1
        BY <3>1, <3>9
      <4>2. l - M + m <= j
        BY <1>3, <3>2, <3>3, <3>6
      <4> QED
        BY <1>3, <3>8, <4>1, <4>2
    <3> QED
      BY <3>1, <3>4, <3>9, <3>10
  <2> QED
    BY <1>7, <2>1, <2>2 DEF Logs, RecordedAs, n
<1>8. ASSUME NEW p \in Page, LogsNot(jrnl, journalOff, subJournal, a, m, p), NEW r \in FirstRecords(list, size)
      PROVE  r.pg # p
  BY <1>5, <1>6, <1>8
<1> QED
  BY <1>7, <1>8 DEF list, a, m

\* The pages S of the image I are logged, the others have their content c, and no
\* record would change them.
Preserved(f, e, sub, a, m, S, I, c) ==
    \A p \in 1 .. Len(I) :
        IF p \in S THEN Logs(f, e, sub, a, m, p, I[p])
        ELSE LogsNot(f, e, sub, a, m, p) /\ c[p] = I[p]

\* The journal g has up to e2 the records that f has up to e.
SameRecords(f, e, g, e2) ==
    /\ e <= e2
    /\ \A i \in 1 .. e : (f[i].kind = "rec" <=> g[i].kind = "rec") /\ (f[i].kind = "rec" => g[i] = f[i])
    /\ \A i \in e + 1 .. e2 : g[i].kind # "rec"

LEMMA SameRecordsLog ==
    ASSUME NEW f, NEW e \in Nat, NEW g, NEW e2 \in Nat, SameRecords(f, e, g, e2), NEW a \in Nat, NEW p
    PROVE  /\ Recorded(g, a, e2, p) <=> Recorded(f, a, e, p)
           /\ \A v : RecordedAs(f, a, e, p, v) => RecordedAs(g, a, e2, p, v)
<1>1. ASSUME NEW i \in a + 1 .. e2, g[i].kind = "rec" PROVE i \in a + 1 .. e /\ f[i].kind = "rec" /\ g[i] = f[i]
  <2>1. i \in a + 1 .. e /\ i \in 1 .. e
    BY <1>1 DEF SameRecords
  <2> QED
    BY <1>1, <2>1 DEF SameRecords
<1>2. ASSUME NEW i \in a + 1 .. e, f[i].kind = "rec" PROVE i \in a + 1 .. e2 /\ g[i].kind = "rec" /\ g[i] = f[i]
  <2>1. i \in a + 1 .. e2 /\ i \in 1 .. e
    BY DEF SameRecords
  <2> QED
    BY <1>2, <2>1 DEF SameRecords
<1>3. Recorded(g, a, e2, p) => Recorded(f, a, e, p)
  BY <1>1 DEF Recorded
<1>4. Recorded(f, a, e, p) => Recorded(g, a, e2, p)
  BY <1>2 DEF Recorded
<1>5. ASSUME NEW v, RecordedAs(f, a, e, p, v) PROVE RecordedAs(g, a, e2, p, v)
  BY <1>2, <1>5 DEF RecordedAs
<1> QED
  BY <1>3, <1>4, <1>5

\* Nothing is journalled, and the pages that are not logged keep their content.
LEMMA PreservedAgain ==
    ASSUME NEW f, NEW e \in Nat, NEW g, NEW e2 \in Nat, SameRecords(f, e, g, e2),
           NEW sub, NEW a \in Nat, NEW m, NEW S, NEW I, NEW c, NEW d,
           Preserved(f, e, sub, a, m, S, I, c),
           \A p \in 1 .. Len(I) : p \notin S => d[p] = c[p]
    PROVE  Preserved(g, e2, sub, a, m, S, I, d)
<1> SUFFICES ASSUME NEW p \in 1 .. Len(I)
             PROVE  IF p \in S THEN Logs(g, e2, sub, a, m, p, I[p])
                    ELSE LogsNot(g, e2, sub, a, m, p) /\ d[p] = I[p]
  BY DEF Preserved
<1>1. /\ Recorded(g, a, e2, p) <=> Recorded(f, a, e, p)
      /\ \A v : RecordedAs(f, a, e, p, v) => RecordedAs(g, a, e2, p, v)
  BY SameRecordsLog
<1>2. IF p \in S THEN Logs(f, e, sub, a, m, p, I[p])
      ELSE LogsNot(f, e, sub, a, m, p) /\ c[p] = I[p]
  BY DEF Preserved
<1>3. CASE p \in S
  BY <1>1, <1>2, <1>3 DEF Logs
<1>4. CASE p \notin S
  BY <1>1, <1>2, <1>4 DEF LogsNot
<1> QED
  BY <1>3, <1>4

\* Page q, with the content v, is journalled before it is changed.
LEMMA PreservedJournalled ==
    ASSUME NEW f, NEW e \in Nat, NEW g, NEW sub, NEW a \in Nat, a <= e, NEW m, NEW S, NEW T, NEW I,
           NEW c, NEW d, NEW q, NEW v,
           Preserved(f, e, sub, a, m, S, I, c),
           \A i \in 1 .. e : g[i] = f[i],
           g[e + 1].kind = "rec" /\ g[e + 1].pg = q /\ g[e + 1].val = v,
           q \notin S,
           \A p \in 1 .. Len(I) : /\ p \in T <=> p \in S \/ p = q
                                  /\ p = q => c[p] = v
                                  /\ p # q => d[p] = c[p]
    PROVE  Preserved(g, e + 1, sub, a, m, T, I, d)
<1> SUFFICES ASSUME NEW p \in 1 .. Len(I)
             PROVE  IF p \in T THEN Logs(g, e + 1, sub, a, m, p, I[p])
                    ELSE LogsNot(g, e + 1, sub, a, m, p) /\ d[p] = I[p]
  BY DEF Preserved
<1>1. IF p \in S THEN Logs(f, e, sub, a, m, p, I[p])
      ELSE LogsNot(f, e, sub, a, m, p) /\ c[p] = I[p]
  BY DEF Preserved
<1>2. \A i \in a + 1 .. e : i \in a + 1 .. e + 1 /\ g[i] = f[i]
  OBVIOUS
<1>3. CASE p = q
  <2>1. e + 1 \in a + 1 .. e + 1
    OBVIOUS
  <2>2. p \in T /\ p \notin S /\ c[p] = v
    BY <1>3
  <2>3. g[e + 1].kind = "rec" /\ g[e + 1].pg = p /\ g[e + 1].val = I[p]
    BY <1>1, <1>3, <2>2
  <2> QED
    BY <2>1, <2>2, <2>3 DEF Logs, RecordedAs
<1>4. CASE p # q
  <2>1. p \in T <=> p \in S
    BY <1>4
  <2>2. \A i \in a + 1 .. e + 1 : g[i].pg = p => i \in a + 1 .. e /\ g[i] = f[i]
    BY <1>4
  <2>3. Recorded(g, a, e + 1, p) <=> Recorded(f, a, e, p)
    BY <1>2, <2>2 DEF Recorded
  <2>4. CASE p \in S
    <3>1. Logs(f, e, sub, a, m, p, I[p])
      BY <1>1, <2>4
    <3>2. Logs(g, e + 1, sub, a, m, p, I[p])
      BY <1>2, <2>3, <3>1 DEF Logs, RecordedAs
    <3> QED
      BY <2>1, <2>4, <3>2
  <2>5. CASE p \notin S
    <3>1. LogsNot(f, e, sub, a, m, p) /\ c[p] = I[p] /\ d[p] = c[p]
      BY <1>1, <1>4, <2>5
    <3>2. LogsNot(g, e + 1, sub, a, m, p)
      BY <2>3, <3>1 DEF LogsNot
    <3> QED
      BY <2>1, <2>5, <3>1, <3>2
  <2> QED
    BY <2>4, <2>5
<1> QED
  BY <1>3, <1>4

\* Page q, with the content v, is copied to the sub-journal before it is changed.
LEMMA PreservedCopied ==
    ASSUME NEW f, NEW e \in Nat, NEW sub \in Seq(SubRecord), NEW a \in Nat, NEW m \in Nat, m <= Len(sub),
           NEW S, NEW T, NEW I, NEW c, NEW d, NEW q \in Page, NEW v \in Content,
           Preserved(f, e, sub, a, m, S, I, c),
           \A p \in 1 .. Len(I) : /\ p \in T <=> p \in S \/ p = q
                                  /\ p = q /\ p \notin S => c[p] = v
                                  /\ p # q => d[p] = c[p]
    PROVE  Preserved(f, e, Append(sub, [pg |-> q, val |-> v]), a, m, T, I, d)
<1> DEFINE r == [pg |-> q, val |-> v]
           new == Append(sub, r)
           n == Len(sub)
<1>0. r \in SubRecord /\ r.pg = q /\ r.val = v
  BY DEF SubRecord
<1> HIDE DEF r
<1>1. Len(new) = n + 1 /\ n \in Nat /\ new[n + 1] = r /\ \A j \in 1 .. n : new[j] = sub[j]
  BY <1>0
<1> HIDE DEF new, n
<1> SUFFICES ASSUME NEW p \in 1 .. Len(I)
             PROVE  IF p \in T THEN Logs(f, e, new, a, m, p, I[p])
                    ELSE LogsNot(f, e, new, a, m, p) /\ d[p] = I[p]
  BY DEF Preserved, new, r
<1>2. IF p \in S THEN Logs(f, e, sub, a, m, p, I[p])
      ELSE LogsNot(f, e, sub, a, m, p) /\ c[p] = I[p]
  BY DEF Preserved
<1>3. m <= n /\ \A j \in m + 1 .. n : j \in m + 1 .. n + 1 /\ new[j] = sub[j]
  BY <1>1 DEF n
<1>4. CASE p \in S
  <2>1. Logs(f, e, sub, a, m, p, I[p]) /\ p \in T
    BY <1>2, <1>4
  <2>2. ASSUME NEW j \in m + 1 .. n, sub[j].pg = p, sub[j].val = I[p], \A l \in m + 1 .. j - 1 : sub[l].pg # p
        PROVE  j \in m + 1 .. n + 1 /\ new[j].pg = p /\ new[j].val = I[p] /\ \A l \in m + 1 .. j - 1 : new[l].pg # p
    <3>1. \A l \in m + 1 .. j - 1 : l \in m + 1 .. n
      BY <1>1
    <3> QED
      BY <1>3, <2>2, <3>1
  <2>3. Logs(f, e, new, a, m, p, I[p])
    <3>1. (\E j \in m + 1 .. n : sub[j].pg = p /\ sub[j].val = I[p] /\ \A l \in m + 1 .. j - 1 : sub[l].pg # p)
       => (\E j \in m + 1 .. n + 1 : new[j].pg = p /\ new[j].val = I[p] /\ \A l \in m + 1 .. j - 1 : new[l].pg # p)
      BY <2>2
    <3>2. Len(new) = n + 1
      BY <1>1
    <3> QED
      BY <2>1, <3>1, <3>2 DEF Logs, n
  <2> QED
    BY <2>1, <2>3
<1>5. CASE p \notin S /\ p = q
  <2>1. LogsNot(f, e, sub, a, m, p) /\ c[p] = I[p] /\ c[p] = v /\ p \in T
    BY <1>2, <1>5
  <2>2. n + 1 \in m + 1 .. n + 1 /\ new[n + 1].pg = p /\ new[n + 1].val = I[p]
    BY <1>0, <1>1, <1>3, <1>5, <2>1
  <2>3. \A l \in m + 1 .. n + 1 - 1 : new[l].pg # p
    <3>1. n + 1 - 1 = n
      BY <1>1
    <3>2. \A l \in m + 1 .. n : sub[l].pg # p
      BY <2>1 DEF LogsNot, n
    <3> QED
      BY <1>3, <3>1, <3>2
  <2>4. ~Recorded(f, a, e, p)
    BY <2>1 DEF LogsNot
  <2>5. Logs(f, e, new, a, m, p, I[p])
    BY <1>1, <2>2, <2>3, <2>4 DEF Logs
  <2> QED
    BY <2>1, <2>5
<1>6. CASE p \notin S /\ p # q
  <2>1. LogsNot(f, e, sub, a, m, p) /\ c[p] = I[p] /\ d[p] = c[p] /\ p \notin T
    BY <1>2, <1>6
  <2>2. \A l \in m + 1 .. n : sub[l].pg # p
    BY <2>1 DEF LogsNot, n
  <2>3. ASSUME NEW l \in m + 1 .. n + 1 PROVE new[l].pg # p
    <3>1. l = n + 1 \/ l \in m + 1 .. n
      BY <1>1
    <3> QED
      BY <1>0, <1>1, <1>3, <1>6, <2>2, <3>1
  <2>4. LogsNot(f, e, new, a, m, p)
    BY <1>1, <2>1, <2>3 DEF LogsNot
  <2> QED
    BY <2>1, <2>4
<1> QED
  BY <1>4, <1>5, <1>6

-----------------------------------------------------------------------------
(* What holds while savepoints may be open.  It is about what the program  *)
(* sees, and needs neither the syncs nor the settings of Protected.        *)

Changing == {"WRITER_LOCKED", "WRITER_CACHEMOD", "WRITER_DBMOD"}
Modified == {"WRITER_CACHEMOD", "WRITER_DBMOD"}

\* No call is in progress, and its rollback to a savepoint is possible.
Returned == {"idle", "restored", "failedWrite"}

\* The steps of a spill, and of a commit up to its second sync.
Syncing == {"syncRecords", "writeNRec", "syncHdr", "stressWrite"}

\* The journal is being written.
Logging == eState \in Modified /\ call.at \in Returned \cup Syncing

\* The transaction may still be rolled back to a savepoint.
Saving == eState \in Changing /\ (call.at \in Returned \/ call.op = "Stress")

Quiet == savepoint = <<>> /\ subJournal = <<>> /\ inJournal = {} /\ needSync = {}

\* Where a call may be, and what is at rest then.
Control ==
    /\ call.op = "none" <=> call.at \in Returned \cup {"failed"}
    /\ call.at \in {"restored", "failedWrite"} => eState \in Changing
    /\ call.at \in Syncing => eState \in Modified /\ call.op \in {"Stress", "CommitPhaseOne"}
    /\ call.op = "Stress" => call.at \in Syncing
    /\ call.op = "CommitPhaseOne" => eState \in Modified
    /\ call.at = "stressWrite" => call.op = "Stress" /\ eState = "WRITER_DBMOD"
    /\ call.at = "playRec" => left > 0
    /\ call.at = "finalSync" => jfdOpen
    /\ eState = "OPEN" /\ call.op = "none" => ~jfdOpen
    /\ eState \in {"OPEN", "READER"} => Quiet
    /\ eState \in {"OPEN", "READER", "WRITER_LOCKED"} => dirty = {}
    /\ Logging \/ call.at = "writeList" => \A p \in dirty : cache[p] # NotCached

\* The journal that is being written.
Appending ==
    /\ jfdOpen /\ cksumInit = <<txn, journalHdr>>
    /\ LaidOut(jrnl, journalOff, journalHdr)
    /\ nRec = journalOff - journalHdr - 1
    /\ IF call.at = "syncHdr" THEN jrnl[journalHdr + 1].magic /\ jrnl[journalHdr + 1].nRec = nRec
       ELSE jrnl[journalHdr + 1].nRec = 0

Contents == [p \in Page |-> PageContent(p)]

\* Savepoints that were opened later begin later; o and s are the sizes of the
\* database at the start of the transaction and now, n that of the sub-journal.
Nested(sv, o, s, n) ==
    /\ o <= s
    /\ \A k \in 1 .. Len(sv) :
          /\ o <= sv[k].nOrig /\ sv[k].nOrig <= s /\ sv[k].iSubRec <= n /\ 1 <= sv[k].iOffset
          /\ Len(sv[k].image) = sv[k].nOrig
    /\ \A k \in 1 .. Len(sv) : \A j \in 1 .. k :
          sv[j].nOrig <= sv[k].nOrig /\ sv[j].iSubRec <= sv[k].iSubRec /\ sv[j].iOffset <= sv[k].iOffset

\* Before the first change.
NothingLogged ==
    /\ journalOff <= 1 /\ inJournal = {} /\ needSync = {} /\ subJournal = <<>>
    /\ \A k \in 1 .. Len(savepoint) :
          savepoint[k].iOffset = 1 /\ savepoint[k].iHdrOffset = 0 /\ savepoint[k].inSavepoint = {}

\* Which pages the journals have, which of them are in the cache because their
\* records are not synced, and where the savepoints begin.
PagesLogged ==
    /\ \A p \in needSync : cache[p] # NotCached
    /\ \A i \in journalHdr + 2 .. journalOff : jrnl[i].pg \in needSync
    /\ \A i \in 1 .. journalOff : jrnl[i].kind = "rec" => jrnl[i].pg \in inJournal
    /\ Distinct(jrnl, journalOff)
    /\ eState = "WRITER_CACHEMOD" =>
          journalHdr = 0 /\ \A j \in 1 .. Len(subJournal) : cache[subJournal[j].pg] # NotCached
    /\ \A j \in 1 .. Len(subJournal) : subJournal[j].pg \in inJournal \/ subJournal[j].pg > dbOrigSize
    /\ call.op = "Stress" => call.pg \in Page /\ cache[call.pg] # NotCached
    /\ call.at = "stressWrite" => call.pg \notin needSync
    /\ \A k \in 1 .. Len(savepoint) : Points(jrnl, journalOff, journalHdr, savepoint[k])

\* The journals preserve B, the database as the transaction found it, and the image
\* of every savepoint.
Keeping(B) ==
    /\ Len(B) = dbOrigSize
    /\ Nested(savepoint, dbOrigSize, dbSize, Len(subJournal))
    /\ IF eState = "WRITER_LOCKED" THEN NothingLogged ELSE PagesLogged
    /\ Preserved(jrnl, journalOff, <<>>, 1, 0, inJournal, B, Contents)
    /\ \A k \in 1 .. Len(savepoint) :
          Preserved(jrnl, journalOff, subJournal, savepoint[k].iOffset, savepoint[k].iSubRec,
                    savepoint[k].inSavepoint, savepoint[k].image, Contents)
    /\ call.at = "restored" =>
          IF savepoint = <<>> THEN Image = B ELSE Image = savepoint[Len(savepoint)].image

\* c is TRUE if the database that a transaction finds is one that a reader may find.
Preserving(c) ==
    /\ Control
    /\ Logging => Appending
    /\ Saving => \E B \in Images : Keeping(B) /\ (c => \E image \in outcomes : Holds(B, image))


-----------------------------------------------------------------------------
(* What a rollback to a savepoint plays back.                              *)

SizeOf(i) == IF i = 0 THEN dbOrigSize ELSE savepoint[i].nOrig
Staying(i) == IF i = 0 THEN <<>> ELSE SubSeq(savepoint, 1, i)
Playback(i) == IF jfdOpen /\ eState # "WRITER_LOCKED" THEN Replay(i) ELSE <<>>

OneEach(records) == \A r, q \in records : r.pg = q.pg => r = q
RecordOf(records, p) == CHOOSE r \in records : r.pg = p
PagesIn(records) == {r.pg : r \in records}
Overwritten(records) == {r.pg : r \in {q \in records : WritesToDb(q)}}
Added(records) == {r.pg : r \in {q \in records : /\ ~q.main /\ ~WritesToDb(q)
                                                 /\ cache[q.pg] = NotCached}}

LEMMA RecordsAre ==
    ASSUME NEW records \in SUBSET ReplayRecord, OneEach(records)
    PROVE  /\ \A r \in records : r.pg \in PagesIn(records) /\ RecordOf(records, r.pg) = r
           /\ \A p \in PagesIn(records) :
                 RecordOf(records, p) \in records /\ RecordOf(records, p).pg = p
           /\ PagesIn(records) \subseteq Page
           /\ Overwritten(records) \subseteq PagesIn(records) /\ Added(records) \subseteq PagesIn(records)
<1>1. ASSUME NEW p \in PagesIn(records)
      PROVE  RecordOf(records, p) \in records /\ RecordOf(records, p).pg = p
  BY <1>1 DEF PagesIn, RecordOf
<1>2. ASSUME NEW r \in records PROVE r.pg \in PagesIn(records) /\ RecordOf(records, r.pg) = r
  <2>1. r.pg \in PagesIn(records)
    BY DEF PagesIn
  <2> QED
    BY <1>1, <2>1 DEF OneEach
<1>3. PagesIn(records) \subseteq Page
  BY DEF PagesIn, ReplayRecord
<1>4. Overwritten(records) \subseteq PagesIn(records) /\ Added(records) \subseteq PagesIn(records)
  <2> HIDE DEF WritesToDb
  <2> QED
    BY DEF Overwritten, Added, PagesIn
<1> QED
  BY <1>1, <1>2, <1>3, <1>4

\* The files, the cache and the savepoints after the records are played back.
LEMMA PlayedIs ==
    ASSUME Types, NEW records \in SUBSET ReplayRecord, OneEach(records), NEW open \in Seq(Savepoint),
           NEW torn \in SUBSET Page, Played(records, open, torn)
    PROVE  /\ db' \in Images /\ Len(db') <= MaxPage /\ Len(db) <= Len(db')
           /\ \A p \in Overwritten(records) \cup torn : p <= Len(db')
           /\ \A p \in 1 .. Len(db') :
                 db'[p] = IF p \in torn THEN Torn
                          ELSE IF p \in Overwritten(records) THEN RecordOf(records, p).val
                          ELSE IF p <= Len(db) THEN db[p] ELSE 0
           /\ dbFileSize' \in 0 .. MaxPage
           /\ cache' \in [Page -> Content \cup {NotCached}]
           /\ \A p \in Page :
                 cache'[p] = IF p \in PagesIn(records) /\ (cache[p] # NotCached \/ p \in Added(records))
                             THEN RecordOf(records, p).val ELSE cache[p]
           /\ dirty' = dirty \cup Added(records)
           /\ inJournal' = inJournal \cup {p \in Added(records) : p <= dbOrigSize}
           /\ savepoint' \in Seq(Savepoint) /\ Len(savepoint') = Len(open)
           /\ \A k \in 1 .. Len(open) :
                 savepoint'[k] = [open[k] EXCEPT !.inSavepoint =
                                     @ \cup {p \in Added(records) : p <= open[k].nOrig}]
<1> DEFINE A == Added(records)
           W == Overwritten(records)
           P == PagesIn(records)
           R(p) == RecordOf(records, p)
           n == Larger(Len(db), LastPage(W \cup torn))
<1>1. /\ db' = [p \in 1 .. n |-> IF p \in torn THEN Torn ELSE IF p \in W THEN R(p).val
                                 ELSE IF p <= Len(db) THEN db[p] ELSE 0]
      /\ dbFileSize' = Larger(dbFileSize, LastPage(W))
      /\ cache' = [p \in Page |-> IF p \in P /\ (cache[p] # NotCached \/ p \in A) THEN R(p).val ELSE cache[p]]
      /\ dirty' = dirty \cup A
      /\ inJournal' = inJournal \cup {p \in A : p <= dbOrigSize}
      /\ savepoint' = [k \in DOMAIN open |-> [open[k] EXCEPT !.inSavepoint = @ \cup {p \in A : p <= open[k].nOrig}]]
  BY DEF Played, PagesIn, Overwritten, Added, RecordOf
<1>2. /\ P \subseteq Page /\ W \subseteq P /\ A \subseteq P
      /\ \A p \in P : R(p) \in ReplayRecord
  BY RecordsAre
<1>3. \A p \in P : R(p).val \in Content
  <2> HIDE DEF R, P
  <2> QED
    BY <1>2 DEF ReplayRecord
<1>4. /\ db \in Images /\ Len(db) \in Nat /\ Len(db) <= MaxPage /\ MaxPage \in Nat
      /\ dbFileSize \in 0 .. MaxPage /\ cache \in [Page -> Content \cup {NotCached}]
      /\ Torn \in Content /\ 0 \in Content
  BY FilesAre, PagerAssumption DEF Types, TypesOfFiles, TypesOfCache, Images, Content
<1>5. /\ LastPage(W \cup torn) \in 0 .. MaxPage /\ LastPage(W) \in 0 .. MaxPage
      /\ \A p \in W \cup torn : p <= LastPage(W \cup torn)
  <2>1. W \cup torn \in SUBSET Page /\ W \in SUBSET Page
    BY <1>2
  <2> HIDE DEF W
  <2> QED
    BY <2>1, LastPageIs
<1> HIDE DEF A, W, P, R
<1>6. n \in Nat /\ n <= MaxPage /\ Len(db) <= n /\ \A p \in W \cup torn : p <= n
  <2> HIDE DEF Page
  <2>1. \A p \in W \cup torn : p \in Nat
    BY <1>2 DEF Page
  <2>2. PICK l : l = LastPage(W \cup torn)
    OBVIOUS
  <2>3. l \in 0 .. MaxPage /\ (\A p \in W \cup torn : p <= l) /\ n = Larger(Len(db), l)
    BY <1>5, <2>2
  <2>4. n \in Nat /\ n <= MaxPage /\ Len(db) <= n /\ l <= n
    BY <1>4, <2>3 DEF Larger
  <2> HIDE DEF n
  <2> QED
    BY <1>4, <2>1, <2>3, <2>4
<1> HIDE DEF n
<1>7. db' \in Images /\ Len(db') = n
  <2>1. \A p \in 1 .. n : (IF p \in torn THEN Torn ELSE IF p \in W THEN R(p).val
                            ELSE IF p <= Len(db) THEN db[p] ELSE 0) \in Content
    BY <1>2, <1>3, <1>4 DEF Images
  <2>2. db' \in [1 .. n -> Content]
    BY <1>1, <2>1
  <2> QED
    BY <1>6, <2>2 DEF Images
<1>8. dbFileSize' \in 0 .. MaxPage
  BY <1>1, <1>4, <1>5 DEF Larger
<1>9. cache' \in [Page -> Content \cup {NotCached}]
  BY <1>1, <1>3, <1>4
<1>10. /\ \A p \in 1 .. Len(db') :
             db'[p] = IF p \in torn THEN Torn ELSE IF p \in W THEN R(p).val
                      ELSE IF p <= Len(db) THEN db[p] ELSE 0
       /\ \A p \in Page :
             cache'[p] = IF p \in P /\ (cache[p] # NotCached \/ p \in A) THEN R(p).val ELSE cache[p]
  BY <1>1, <1>7
<1>11. savepoint' \in Seq(Savepoint) /\ Len(savepoint') = Len(open)
       /\ \A k \in 1 .. Len(open) :
             savepoint'[k] = [open[k] EXCEPT !.inSavepoint = @ \cup {p \in A : p <= open[k].nOrig}]
  <2>1. ASSUME NEW s \in Savepoint
        PROVE  [s EXCEPT !.inSavepoint = @ \cup {p \in A : p <= s.nOrig}] \in Savepoint
    <3>1. {p \in A : p <= s.nOrig} \subseteq Page
      BY <1>2
    <3> QED
      BY <3>1 DEF Savepoint
  <2>2. open \in [1 .. Len(open) -> Savepoint] /\ DOMAIN open = 1 .. Len(open) /\ Len(open) \in Nat
    OBVIOUS
  <2>3. savepoint' \in [1 .. Len(open) -> Savepoint]
    BY <1>1, <2>1, <2>2
  <2> QED
    BY <1>1, <2>2, <2>3
<1> QED
  BY <1>1, <1>6, <1>7, <1>8, <1>9, <1>10, <1>11 DEF A, W, P, R

\* What a rollback leaves alone.
LEMMA RollbackLeaves ==
    ASSUME NEW i, RollbackSavepoint(i)
    PROVE  /\ AtRest \/ call.at = "failedWrite"
           /\ eState \in Changing
           /\ dbSize' = SizeOf(i)
           /\ call' \in {[Idle EXCEPT !.at = "restored"], [Idle EXCEPT !.at = "failed"]}
           /\ Ok \/ Fails
           /\ UNCHANGED <<eState, dbOrigSize, needSync, jfdOpen, journalOff,
                          journalHdr, nRec, cksumInit, left, subJournal, version,
                          dbDur, jfile, settings, txn, crash, history>>
<1> HIDE DEF Played, Replay
<1> QED
  BY DEF RollbackSavepoint, SizeOf, Changing

\* What the journals have for savepoint i.
LEMMA RollbackReplays ==
    ASSUME Types, NEW c \in BOOLEAN, Preserving(c), NEW i \in 0 .. Len(savepoint),
           AtRest \/ call.at = "failedWrite", eState \in Modified
    PROVE  Replayable(i) /\ Distinct(jrnl, journalOff) /\ jfdOpen
<1>1. call.at \in Returned
  BY DEF AtRest, Returned
<1>2. Logging /\ Saving
  BY <1>1 DEF Logging, Saving, Changing, Modified
<1>3. PICK B \in Images : Keeping(B)
  BY <1>2 DEF Preserving
<1>4. Appending /\ Control
  BY <1>2 DEF Preserving
<1>5. PagesLogged /\ Nested(savepoint, dbOrigSize, dbSize, Len(subJournal))
  BY <1>3 DEF Keeping, Modified
<1>6. jrnl[journalHdr + 1].nRec = 0 /\ LaidOut(jrnl, journalOff, journalHdr) /\ jfdOpen
  BY <1>1, <1>4 DEF Appending, Returned
<1>7. /\ jrnl \in Journals /\ journalOff \in Nat /\ journalHdr \in Nat
      /\ subJournal \in Seq(SubRecord) /\ savepoint \in Seq(Savepoint)
  BY FilesAre DEF Types, TypesOfSavepoints
<1>8. i = 0 \/ (/\ i \in 1 .. Len(savepoint)
                /\ Points(jrnl, journalOff, journalHdr, savepoint[i])
                /\ savepoint[i].iSubRec <= Len(subJournal))
  <2>1. i = 0 \/ i \in 1 .. Len(savepoint)
    BY <1>7
  <2> QED
    BY <1>5, <2>1 DEF PagesLogged, Nested
<1> QED
  BY <1>5, <1>6, <1>7, <1>8 DEF Replayable, PagesLogged

\* The types of what a rollback plays back.
LEMMA RollbackIs ==
    ASSUME Types, NEW c \in BOOLEAN, Preserving(c), NEW i \in 0 .. Len(savepoint),
           RollbackSavepoint(i)
    PROVE  /\ SizeOf(i) \in 0 .. MaxPage /\ Staying(i) \in Seq(Savepoint) /\ Len(Staying(i)) <= Len(savepoint)
           /\ Playback(i) \in Seq(ReplayRecord)
           /\ \E records \in SUBSET ReplayRecord, torn \in SUBSET Page :
                 OneEach(records) /\ Played(records, Staying(i), torn)
<1>1. /\ savepoint \in Seq(Savepoint) /\ Len(savepoint) \in Nat /\ dbOrigSize \in 0 .. MaxPage
      /\ i = 0 \/ i \in 1 .. Len(savepoint)
  BY DEF Types, TypesOfSavepoints, TypesOfCache
<1>2. SizeOf(i) \in 0 .. MaxPage
  <2>1. i # 0 => savepoint[i] \in Savepoint
    BY <1>1
  <2> QED
    BY <1>1, <2>1 DEF SizeOf, Savepoint
<1>3. Staying(i) \in Seq(Savepoint) /\ Len(Staying(i)) <= Len(savepoint)
  <2>1. CASE i = 0
    BY <1>1, <2>1 DEF Staying
  <2>2. CASE i # 0
    <3>1. SubSeq(savepoint, 1, i) \in Seq(Savepoint) /\ Len(SubSeq(savepoint, 1, i)) = i
      BY <1>1, <2>2, SubSeqProperties
    <3> QED
      BY <1>1, <2>2, <3>1 DEF Staying
  <2> QED
    BY <2>1, <2>2
<1>4. Playback(i) \in Seq(ReplayRecord)
  <2>1. CASE jfdOpen /\ eState # "WRITER_LOCKED"
    <3>1. eState \in Modified /\ (AtRest \/ call.at = "failedWrite")
      BY <2>1 DEF RollbackSavepoint, Modified
    <3>2. Replayable(i) /\ i \in Nat
      BY <1>1, <3>1, RollbackReplays
    <3> QED
      BY <2>1, <3>2, ReplayIs DEF Playback
  <2>2. CASE ~(jfdOpen /\ eState # "WRITER_LOCKED")
    <3>1. Playback(i) = <<>>
      BY <2>2 DEF Playback
    <3> QED
      BY <3>1
  <2> QED
    BY <2>1, <2>2
<1>5. \E records \in SUBSET ReplayRecord, torn \in SUBSET Page :
         OneEach(records) /\ Played(records, Staying(i), torn)
  <2>1. ASSUME NEW list \in Seq(ReplayRecord)
        PROVE  FirstRecords(list, SizeOf(i)) \in SUBSET ReplayRecord /\ OneEach(FirstRecords(list, SizeOf(i)))
    <3>1. SizeOf(i) \in Nat
      BY <1>2, FilesAre
    <3> HIDE DEF SizeOf
    <3>2. /\ \A r \in FirstRecords(list, SizeOf(i)) : \E k \in 1 .. Len(list) : r = list[k]
          /\ \A r, q \in FirstRecords(list, SizeOf(i)) : r.pg = q.pg => r = q
      BY <3>1, FirstRecordsAre
    <3>3. \A k \in 1 .. Len(list) : list[k] \in ReplayRecord
      OBVIOUS
    <3> QED
      BY <3>2, <3>3 DEF OneEach
  <2>2. \/ Played(FirstRecords(Playback(i), SizeOf(i)), Staying(i), {})
        \/ \E k \in DOMAIN Playback(i) : \E torn \in SUBSET {Playback(i)[k].pg} :
              Played(FirstRecords(SubSeq(Playback(i), 1, k - 1), SizeOf(i)), Staying(i), torn)
    BY DEF RollbackSavepoint, Playback, SizeOf, Staying
  <2>3. CASE Played(FirstRecords(Playback(i), SizeOf(i)), Staying(i), {})
    BY <1>4, <2>1, <2>3
  <2>4. CASE \E k \in DOMAIN Playback(i) : \E torn \in SUBSET {Playback(i)[k].pg} :
                Played(FirstRecords(SubSeq(Playback(i), 1, k - 1), SizeOf(i)), Staying(i), torn)
    <3>0. PICK k \in DOMAIN Playback(i) : \E torn \in SUBSET {Playback(i)[k].pg} :
                Played(FirstRecords(SubSeq(Playback(i), 1, k - 1), SizeOf(i)), Staying(i), torn)
      BY <2>4
    <3>1. PICK torn \in SUBSET {Playback(i)[k].pg} :
                Played(FirstRecords(SubSeq(Playback(i), 1, k - 1), SizeOf(i)), Staying(i), torn)
      BY <3>0
    <3>2. SubSeq(Playback(i), 1, k - 1) \in Seq(ReplayRecord)
      <4>1. k \in 1 .. Len(Playback(i)) /\ k - 1 \in 0 .. Len(Playback(i))
        BY <1>4
      <4> HIDE DEF Playback, ReplayRecord
      <4> QED
        BY <1>4, <4>1, SubSeqProperties
    <3>3. torn \in SUBSET Page
      <4>1. Playback(i)[k] \in ReplayRecord
        BY <1>4
      <4>2. Playback(i)[k].pg \in Page
        BY <4>1 DEF ReplayRecord
      <4> QED
        BY <4>2
    <3> QED
      BY <2>1, <3>1, <3>2, <3>3
  <2> QED
    BY <2>2, <2>3, <2>4
<1> QED
  BY <1>2, <1>3, <1>4, <1>5

-----------------------------------------------------------------------------
(* The types, step by step.                                                *)

\* What the types of some steps depend on.
LEMMA CallFacts ==
    ASSUME Types, NEW c \in BOOLEAN, Preserving(c)
    PROVE  /\ call.at = "playRec" => left > 0
           /\ call.at \in {"stressWrite", "writeList"} => \A p \in dirty : cache[p] # NotCached
           /\ call.at = "stressWrite" => call.pg \in Page /\ cache[call.pg] # NotCached
           /\ call.at \in {"syncRecords", "writeNRec", "syncHdr"} => jfdOpen /\ LaidOut(jrnl, journalOff, journalHdr)
           /\ AtRest /\ eState \in Modified =>
                 jfdOpen /\ cksumInit = <<txn, journalHdr>> /\ LaidOut(jrnl, journalOff, journalHdr)
           /\ AtRest /\ eState = "OPEN" => ~jfdOpen
           /\ call.at = "finalSync" => jfdOpen
<1>1. Control /\ (Logging => Appending)
  BY DEF Preserving
<1>2. call.at = "playRec" => left > 0
  BY <1>1 DEF Control
<1>3. call.at \in {"stressWrite", "writeList"} => \A p \in dirty : cache[p] # NotCached
  BY <1>1 DEF Control, Logging, Syncing, Modified
<1>4. call.at = "stressWrite" => call.pg \in Page /\ cache[call.pg] # NotCached
  <2> SUFFICES ASSUME call.at = "stressWrite" PROVE call.pg \in Page /\ cache[call.pg] # NotCached
    OBVIOUS
  <2>1. call.op = "Stress" /\ eState = "WRITER_DBMOD"
    BY <1>1 DEF Control
  <2>2. Saving
    BY <2>1 DEF Saving, Changing
  <2>3. PICK B \in Images : Keeping(B)
    BY <2>2 DEF Preserving
  <2>4. PagesLogged
    BY <2>1, <2>3 DEF Keeping
  <2> QED
    BY <2>1, <2>4 DEF PagesLogged
<1>5. call.at \in {"syncRecords", "writeNRec", "syncHdr"} => jfdOpen /\ LaidOut(jrnl, journalOff, journalHdr)
  BY <1>1 DEF Control, Logging, Appending, Syncing
<1>6. AtRest /\ eState \in Modified =>
         jfdOpen /\ cksumInit = <<txn, journalHdr>> /\ LaidOut(jrnl, journalOff, journalHdr)
  BY <1>1 DEF Logging, Appending, AtRest, Returned
<1>7. AtRest /\ eState = "OPEN" => ~jfdOpen
  BY <1>1 DEF Control, AtRest, Returned
<1>8. call.at = "finalSync" => jfdOpen
  BY <1>1 DEF Control
<1> QED
  BY <1>2, <1>3, <1>4, <1>5, <1>6, <1>7, <1>8

LEMMA SavepointsStay ==
    ASSUME Types, releaseAllSavepoints \/ UNCHANGED svpts
    PROVE  TypesOfSavepoints' /\ version' = version
<1>1. CASE releaseAllSavepoints
  BY <1>1, PagerAssumption DEF releaseAllSavepoints, TypesOfSavepoints
<1>2. CASE UNCHANGED svpts
  BY <1>2 DEF svpts, Types, TypesOfSavepoints
<1> QED
  BY <1>1, <1>2

\* Leaving a call.
LEMMA UnlockTypes ==
    ASSUME Types, NEW error \in BOOLEAN, pager_unlock(error)
    PROVE  TypesOfCalls' /\ TypesOfSavepoints' /\ TypesOfCache' /\ TypesOfJournal' /\ ~jfdOpen' /\ version' = version
<1>1. TypesOfCalls'
  BY PagerAssumption DEF Types, TypesOfCalls, State, pager_unlock, UndeletableWhenOpen, releaseAllSavepoints, Idle
<1>2. TypesOfCache'
  BY DEF Types, TypesOfCache, pager_unlock, UndeletableWhenOpen, sizes, EmptyCache
<1>3. TypesOfJournal' /\ ~jfdOpen'
  BY DEF Types, TypesOfJournal, pager_unlock, UndeletableWhenOpen
<1>4. TypesOfSavepoints' /\ version' = version
  BY SavepointsStay DEF pager_unlock, UndeletableWhenOpen
<1> QED
  BY <1>1, <1>2, <1>3, <1>4

LEMMA GiveUpTypes ==
    ASSUME Types, GiveUp
    PROVE  TypesOfCalls' /\ TypesOfSavepoints' /\ TypesOfCache' /\ TypesOfJournal'
           /\ version' = version /\ (jfdOpen' => jfdOpen)
<1>1. TypesOfCalls'
  BY PagerAssumption DEF Types, TypesOfCalls, State, GiveUp, pager_unlock, UndeletableWhenOpen, releaseAllSavepoints, svpts, Idle
<1>2. TypesOfCache'
  BY DEF Types, TypesOfCache, GiveUp, pager_unlock, UndeletableWhenOpen, EmptyCache, sizes, pcache
<1>3. TypesOfJournal'
  <2>1. jfdOpen' \in BOOLEAN
    BY DEF Types, TypesOfJournal, GiveUp, pager_unlock, UndeletableWhenOpen, jstate
  <2>2. inJournal' \subseteq Page /\ journalOff' \in Nat /\ journalHdr' \in Nat
        /\ nRec' \in Nat /\ left' \in Nat /\ cksumInit' \in Nonce
    BY DEF Types, TypesOfJournal, GiveUp, pager_unlock, UndeletableWhenOpen, jstate
  <2> QED
    BY <2>1, <2>2 DEF TypesOfJournal
<1>4. jfdOpen' => jfdOpen
  BY DEF GiveUp, pager_unlock, UndeletableWhenOpen, jstate
<1>5. TypesOfSavepoints' /\ version' = version
  BY SavepointsStay DEF GiveUp, pager_unlock, UndeletableWhenOpen
<1> QED
  BY <1>1, <1>2, <1>3, <1>4, <1>5

LEMMA EndTransactionTypes ==
    ASSUME Types, NEW open \in BOOLEAN, NEW off \in Nat, EndTransaction(open, off)
    PROVE  TypesOfCalls' /\ TypesOfSavepoints' /\ TypesOfCache' /\ TypesOfJournal'
           /\ version' = version /\ (jfdOpen' => open)
<1>1. TypesOfCalls'
  BY PagerAssumption DEF Types, TypesOfCalls, State, EndTransaction, pager_unlock, UndeletableWhenOpen, releaseAllSavepoints, Idle
<1>2. TypesOfCache'
  BY FilesAre DEF Types, TypesOfCache, TypesOfFiles, Images, EndTransaction, pager_unlock, UndeletableWhenOpen, EmptyCache, sizes
<1>3. TypesOfJournal'
  <2>1. jfdOpen' \in BOOLEAN
    BY DEF Types, TypesOfJournal, EndTransaction, pager_unlock, UndeletableWhenOpen
  <2>2. inJournal' \subseteq Page /\ journalOff' \in Nat /\ journalHdr' \in Nat
        /\ nRec' \in Nat /\ left' \in Nat /\ cksumInit' \in Nonce
    BY DEF Types, TypesOfJournal, EndTransaction, pager_unlock, UndeletableWhenOpen
  <2> QED
    BY <2>1, <2>2 DEF TypesOfJournal
<1>4. jfdOpen' => open
  BY DEF EndTransaction, pager_unlock, UndeletableWhenOpen
<1>5. TypesOfSavepoints' /\ version' = version
  BY SavepointsStay DEF EndTransaction, pager_unlock, UndeletableWhenOpen
<1> QED
  BY <1>1, <1>2, <1>3, <1>4, <1>5

LEMMA FailTransactionTypes ==
    ASSUME Types, NEW open \in BOOLEAN, NEW off \in Nat, FailTransaction(open, off)
    PROVE  TypesOfCalls' /\ TypesOfSavepoints' /\ TypesOfCache' /\ TypesOfJournal'
           /\ version' = version /\ (jfdOpen' => open)
<1>1. TypesOfCalls'
  BY PagerAssumption DEF Types, TypesOfCalls, State, FailTransaction, pager_unlock, UndeletableWhenOpen, releaseAllSavepoints, Idle
<1>2. TypesOfCache'
  BY DEF Types, TypesOfCache, FailTransaction, pager_unlock, UndeletableWhenOpen, EmptyCache, sizes, pcache
<1>3. TypesOfJournal'
  <2>1. jfdOpen' \in BOOLEAN
    BY DEF Types, TypesOfJournal, FailTransaction, pager_unlock, UndeletableWhenOpen
  <2>2. inJournal' \subseteq Page /\ journalOff' \in Nat /\ journalHdr' \in Nat
        /\ nRec' \in Nat /\ left' \in Nat /\ cksumInit' \in Nonce
    BY DEF Types, TypesOfJournal, FailTransaction, pager_unlock, UndeletableWhenOpen
  <2> QED
    BY <2>1, <2>2 DEF TypesOfJournal
<1>4. jfdOpen' => open
  BY DEF FailTransaction, pager_unlock, UndeletableWhenOpen
<1>5. TypesOfSavepoints' /\ version' = version
  BY SavepointsStay DEF FailTransaction, pager_unlock, UndeletableWhenOpen
<1> QED
  BY <1>1, <1>2, <1>3, <1>4, <1>5

LEMMA AfterFinalizeTypes ==
    ASSUME Types, NEW open \in BOOLEAN, NEW off \in Nat, AfterFinalize(open, off)
    PROVE  TypesOfCalls' /\ TypesOfSavepoints' /\ TypesOfCache' /\ TypesOfJournal'
           /\ version' = version /\ (jfdOpen' => open)
<1>1. CASE EndTransaction(open, off)
  BY <1>1, EndTransactionTypes
<1>2. CASE call.op = "CommitPhaseTwo" /\ dbFileSize > dbSize
  <2>1. TypesOfCalls'
    BY <1>2 DEF Types, TypesOfCalls, AfterFinalize, svpts, Goto
  <2>2. TypesOfCache'
    BY <1>2 DEF Types, TypesOfCache, AfterFinalize, sizes
  <2>3. TypesOfJournal' /\ jfdOpen' = open
    BY <1>2 DEF Types, TypesOfJournal, AfterFinalize
  <2>4. TypesOfSavepoints' /\ version' = version
    BY <1>2, SavepointsStay DEF AfterFinalize
  <2> QED
    BY <2>1, <2>2, <2>3, <2>4
<1> QED
  BY <1>1, <1>2 DEF AfterFinalize

\* The journal mode, the level, the version and the counters.
LEMMA BoundsKept ==
    ASSUME Types, NEW c \in BOOLEAN, Preserving(c), Next
    PROVE  TypesOfBounds'
<1> USE PagerAssumption DEF TypesOfBounds, settings, bounds
<1>1. ASSUME version' = version, UNCHANGED <<settings, txn, crash>>, Ok \/ Fails
      PROVE  TypesOfBounds'
  BY <1>1 DEF Types, Ok, Fails
<1>2. ASSUME version' = version, UNCHANGED <<settings, bounds>>
      PROVE  TypesOfBounds'
  BY <1>2 DEF Types
<1>3. CASE sqlite3PagerSharedLock
  BY <1>1, <1>3 DEF sqlite3PagerSharedLock, BecomeReader, svpts, Ok
<1>4. CASE pagerUnlockIfUnused
  BY <1>2, <1>4 DEF pagerUnlockIfUnused, pager_unlock, UndeletableWhenOpen, releaseAllSavepoints
<1>5. CASE sqlite3PagerBegin
  BY <1>5 DEF sqlite3PagerBegin, Types
<1>6. CASE \E p \in Page : sqlite3PagerGet(p) \/ pagerStress(p)
  BY <1>2, <1>6 DEF sqlite3PagerGet, pagerStress, svpts
<1>7. ASSUME NEW p, NEW n, NEW next, PagerWrite(p, n, next) PROVE TypesOfBounds'
  BY <1>1, <1>7 DEF PagerWrite, svpts
<1>8. CASE \E p \in Page : sqlite3PagerWrite(p) \/ sqlite3PagerCommitPhaseOne(p)
  BY <1>7, <1>8 DEF sqlite3PagerWrite, sqlite3PagerCommitPhaseOne
<1>9. CASE sqlite3PagerCommitPhaseTwo \/ sqlite3PagerRollback
  BY <1>2, <1>9 DEF sqlite3PagerCommitPhaseTwo, sqlite3PagerRollback, releaseAllSavepoints, svpts
<1>10. CASE sqlite3PagerClose
  BY <1>2, <1>10 DEF sqlite3PagerClose, pager_unlock, UndeletableWhenOpen, releaseAllSavepoints
<1>11. CASE \E mode \in Modes : sqlite3PagerSetJournalMode(mode)
  BY <1>11 DEF sqlite3PagerSetJournalMode, svpts, Types
<1>12. CASE \E l \in Levels : sqlite3PagerSetFlags(l)
  BY <1>12 DEF sqlite3PagerSetFlags, svpts, Types
<1>13. CASE pagerSyncHotJournal
  BY <1>1, <1>13, GiveUpTypes DEF pagerSyncHotJournal, svpts, pager_unlock, UndeletableWhenOpen, releaseAllSavepoints
<1>14. CASE PlaybackHeader \/ PlaybackRecord \/ PlaybackSync
  BY <1>1, <1>14, GiveUpTypes DEF PlaybackHeader, PlaybackRecord, PlaybackSync, svpts
<1>15. CASE FinalizeJournal
  BY <1>1, <1>15, AfterFinalizeTypes, FailTransactionTypes DEF FinalizeJournal, svpts, Types, TypesOfJournal
<1>16. CASE SyncFinalized \/ TruncateAfterCommit
  BY <1>1, <1>16, AfterFinalizeTypes, FailTransactionTypes, EndTransactionTypes, GiveUpTypes
     DEF SyncFinalized, TruncateAfterCommit, Types, TypesOfJournal
<1>17. CASE SyncJournalRecords \/ SyncJournalCount \/ SyncJournalHeader
  BY <1>1, <1>17, GiveUpTypes DEF SyncJournalRecords, SyncJournalCount, SyncJournalHeader, svpts
<1>18. CASE StressWrite \/ CommitWriteList \/ CommitSync
  BY <1>1, <1>18, GiveUpTypes DEF StressWrite, CommitWriteList, CommitSync, svpts
<1>19. CASE Crash
  BY <1>19 DEF Crash, releaseAllSavepoints, Types
<1>20. CASE sqlite3PagerOpenSavepoint
  BY <1>20 DEF sqlite3PagerOpenSavepoint, Types
<1>21. CASE \E i \in 0 .. Len(savepoint) : RollbackSavepoint(i) \/ ReleaseSavepoint(i)
  BY <1>1, <1>2, <1>21, RollbackLeaves DEF ReleaseSavepoint
<1> QED
  BY <1>3, <1>4, <1>5, <1>6, <1>8, <1>9, <1>10, <1>11, <1>12, <1>13, <1>14, <1>15, <1>16,
     <1>17, <1>18, <1>19, <1>20, <1>21 DEF Next, Continue

\* The call in progress.
LEMMA CallsKept ==
    ASSUME Types, NEW c \in BOOLEAN, Preserving(c), Next
    PROVE  TypesOfCalls'
<1> USE PagerAssumption DEF Types, TypesOfCalls, State
<1>1. CASE sqlite3PagerSharedLock
  BY <1>1 DEF sqlite3PagerSharedLock, BecomeReader, Calling, svpts
<1>2. CASE pagerUnlockIfUnused
  BY <1>2 DEF pagerUnlockIfUnused, pager_unlock, UndeletableWhenOpen, releaseAllSavepoints, Idle
<1>3. CASE sqlite3PagerBegin
  BY <1>3 DEF sqlite3PagerBegin
<1>4. CASE \E p \in Page : sqlite3PagerGet(p) \/ pagerStress(p)
  BY <1>4 DEF sqlite3PagerGet, pagerStress, Calling, svpts, Page
<1>5. CASE \E p \in Page : sqlite3PagerWrite(p)
  BY <1>5 DEF sqlite3PagerWrite, PagerWrite, Idle, svpts, addToSavepointBitvecs, subjournals, subjRequiresPage
<1>6. CASE \E n \in Page : sqlite3PagerCommitPhaseOne(n)
  BY <1>6 DEF sqlite3PagerCommitPhaseOne, PagerWrite, Idle, svpts
<1>7. CASE sqlite3PagerCommitPhaseTwo \/ sqlite3PagerRollback
  BY <1>7 DEF sqlite3PagerCommitPhaseTwo, sqlite3PagerRollback, releaseAllSavepoints, svpts, Calling
<1>8. CASE sqlite3PagerClose
  BY <1>8 DEF sqlite3PagerClose, pager_unlock, UndeletableWhenOpen, releaseAllSavepoints, Calling, Idle
<1>9. CASE \E mode \in Modes : sqlite3PagerSetJournalMode(mode)
  BY <1>9 DEF sqlite3PagerSetJournalMode, Calling, svpts
<1>10. CASE \E l \in Levels : sqlite3PagerSetFlags(l)
  BY <1>10 DEF sqlite3PagerSetFlags, svpts
<1>11. CASE pagerSyncHotJournal
  BY <1>11, GiveUpTypes DEF pagerSyncHotJournal, pager_unlock, UndeletableWhenOpen, releaseAllSavepoints, svpts, Goto, Idle
<1>12. CASE PlaybackHeader \/ PlaybackRecord \/ PlaybackSync
  BY <1>12, GiveUpTypes DEF PlaybackHeader, PlaybackRecord, PlaybackSync, svpts, Goto
<1>13. CASE FinalizeJournal
  BY <1>13, AfterFinalizeTypes, FailTransactionTypes DEF FinalizeJournal, svpts, Goto, TypesOfJournal
<1>14. CASE SyncFinalized \/ TruncateAfterCommit
  BY <1>14, AfterFinalizeTypes, FailTransactionTypes, EndTransactionTypes, GiveUpTypes
     DEF SyncFinalized, TruncateAfterCommit, TypesOfJournal
<1>15. CASE SyncJournalRecords \/ SyncJournalCount
  BY <1>15, GiveUpTypes DEF SyncJournalRecords, SyncJournalCount, svpts, Goto
<1>16. CASE SyncJournalHeader
  BY <1>16, GiveUpTypes DEF SyncJournalHeader, SegmentEnds, Goto
<1>17. CASE StressWrite \/ CommitWriteList \/ CommitSync
  BY <1>17, GiveUpTypes DEF StressWrite, CommitWriteList, CommitSync, svpts, Goto, Idle
<1>18. CASE Crash
  BY <1>18 DEF Crash, releaseAllSavepoints, Idle
<1>19. CASE sqlite3PagerOpenSavepoint \/ \E i \in 0 .. Len(savepoint) : ReleaseSavepoint(i)
  BY <1>19 DEF sqlite3PagerOpenSavepoint, ReleaseSavepoint, Idle
<1>20. CASE \E i \in 0 .. Len(savepoint) : RollbackSavepoint(i)
  BY <1>20, RollbackLeaves DEF Idle
<1> QED
  BY <1>1, <1>2, <1>3, <1>4, <1>5, <1>6, <1>7, <1>8, <1>9, <1>10, <1>11, <1>12, <1>13, <1>14, <1>15, <1>16,
     <1>17, <1>18, <1>19, <1>20 DEF Next, Continue

LEMMA PageContentIs ==
    ASSUME Types, NEW p \in Page
    PROVE  PageContent(p) \in Content /\ version \in Content /\ NotCached \notin Content
BY SMTT(40), PagerAssumption DEF Types, TypesOfCache, TypesOfFiles, TypesOfBounds, Images, PageContent, Content, NotCached, Page, Torn

\* A slot of the journal.
LEMMA JournalSlotIs ==
    ASSUME Types, NEW i \in Nat \ {0}, i <= Len(jrnl)
    PROVE  /\ jrnl[i] \in Slots
           /\ HasMagic(jrnl[i]) => jrnl[i].kind = "hdr"
           /\ jrnl[i].kind = "hdr" =>
                 jrnl[i].magic \in BOOLEAN /\ jrnl[i].nRec \in Nat /\ jrnl[i].nonce \in Nonce /\ jrnl[i].size \in 0 .. MaxPage
           /\ jrnl[i].kind = "rec" =>
                 jrnl[i].pg \in Page /\ jrnl[i].val \in Content /\ jrnl[i].nonce \in Nonce
<1>1. jrnl[i] \in Slots
  BY FilesAre DEF Journals
<1> QED
  BY <1>1, SlotIs

\* The cache.
LEMMA CacheKept ==
    ASSUME Types, NEW c \in BOOLEAN, Preserving(c), Next
    PROVE  TypesOfCache'
<1> USE PagerAssumption DEF TypesOfCache, sizes, pcache
<1>1. CASE sqlite3PagerSharedLock
  BY <1>1 DEF sqlite3PagerSharedLock, BecomeReader, Types, TypesOfFiles, Images
<1>2. CASE pagerUnlockIfUnused
  BY <1>2 DEF pagerUnlockIfUnused, pager_unlock, UndeletableWhenOpen, EmptyCache, Types
<1>3. CASE sqlite3PagerBegin
  BY <1>3 DEF sqlite3PagerBegin, Types
<1>4. CASE \E p \in Page : sqlite3PagerGet(p)
  <2>1. PICK p \in Page : sqlite3PagerGet(p)
    BY <1>4
  <2> HIDE DEF PageContent
  <2> QED
    BY <2>1, PageContentIs DEF sqlite3PagerGet, Types
<1>24. CASE \E p \in Page : pagerStress(p)
  BY <1>24 DEF pagerStress, Types
<1>5. ASSUME NEW p \in Page, NEW n \in 0 .. MaxPage, NEW next, PagerWrite(p, n, next) PROVE TypesOfCache'
  <2>1. PageContent(p) \in Content /\ version \in Content
    BY PageContentIs
  <2>2. cache' \in [Page -> Content \cup {NotCached}]
    BY <1>5, <2>1 DEF PagerWrite, Types
  <2>3. dbSize' \in 0 .. MaxPage /\ dbOrigSize' = dbOrigSize /\ dbFileSize' = dbFileSize
    BY <1>5 DEF PagerWrite, Larger, Page
  <2>4. dirty' \subseteq Page /\ needSync' \subseteq Page
    BY <1>5 DEF PagerWrite, Types
  <2> QED
    BY <2>2, <2>3, <2>4 DEF Types
<1>6. CASE \E p \in Page : sqlite3PagerWrite(p)
  BY <1>5, <1>6 DEF sqlite3PagerWrite, Types
<1>7. CASE \E n \in Page : sqlite3PagerCommitPhaseOne(n)
  <2>1. 1 \in Page
    BY DEF Page
  <2> QED
    BY <1>5, <1>7, <2>1 DEF sqlite3PagerCommitPhaseOne, Page
<1>8. CASE sqlite3PagerCommitPhaseTwo \/ sqlite3PagerRollback
  BY <1>8 DEF sqlite3PagerCommitPhaseTwo, sqlite3PagerRollback, Types
<1>9. CASE sqlite3PagerClose
  BY <1>9 DEF sqlite3PagerClose, pager_unlock, UndeletableWhenOpen, EmptyCache, Types
<1>10. CASE \E mode \in Modes : sqlite3PagerSetJournalMode(mode)
  BY <1>10 DEF sqlite3PagerSetJournalMode, Types
<1>11. CASE \E l \in Levels : sqlite3PagerSetFlags(l)
  BY <1>11 DEF sqlite3PagerSetFlags, Types
<1>12. CASE pagerSyncHotJournal
  BY <1>12, GiveUpTypes DEF pagerSyncHotJournal, pager_unlock, UndeletableWhenOpen, EmptyCache, Types
<1>13. CASE PlaybackHeader
  <2>1. CASE GiveUp
    BY <2>1, GiveUpTypes
  <2>2. CASE ~GiveUp
    <3>1. journalOff + 1 \in Nat \ {0}
      BY DEF Types, TypesOfJournal
    <3>2. CASE NoHeader(journalOff + 1)
      BY <1>13, <2>2, <3>2 DEF PlaybackHeader, Types
    <3>3. CASE ~NoHeader(journalOff + 1)
      <4>1. jrnl[journalOff + 1].size \in 0 .. MaxPage \/ journalOff # 0 \/ journalOff + 1 > Len(jrnl)
        BY <3>1, <3>3, JournalSlotIs DEF NoHeader, HasMagic
      <4> QED
        BY SMTT(40), <1>13, <2>2, <3>3, <4>1 DEF PlaybackHeader, EmptyCache, Types, NoHeader
    <3> QED
      BY <3>2, <3>3
  <2> QED
    BY <2>1, <2>2
<1>14. CASE PlaybackRecord
  <2>1. CASE GiveUp
    BY <2>1, GiveUpTypes
  <2>2. CASE ~GiveUp
    <3>1. journalOff + 1 \in Nat \ {0}
      BY DEF Types, TypesOfJournal
    <3>2. journalOff + 1 <= Len(jrnl) /\ Restores(jrnl[journalOff + 1])
             => jrnl[journalOff + 1].pg \in Page /\ jrnl[journalOff + 1].val \in Content
      BY <3>1, JournalSlotIs DEF Restores
    <3>3. \/ UNCHANGED <<sizes, pcache>>
          \/ /\ journalOff + 1 <= Len(jrnl) /\ Restores(jrnl[journalOff + 1])
             /\ dbFileSize' \in {dbFileSize, Larger(dbFileSize, jrnl[journalOff + 1].pg)}
             /\ cache' \in {cache, [cache EXCEPT ![jrnl[journalOff + 1].pg] = jrnl[journalOff + 1].val]}
             /\ UNCHANGED <<dbSize, dbOrigSize, dirty, needSync>>
      <4> HIDE DEF Restores
      <4> QED
        BY <1>14, <2>2 DEF PlaybackRecord
    <3>4. CASE UNCHANGED <<sizes, pcache>>
      BY <3>4 DEF Types
    <3>5. CASE /\ journalOff + 1 <= Len(jrnl) /\ Restores(jrnl[journalOff + 1])
               /\ dbFileSize' \in {dbFileSize, Larger(dbFileSize, jrnl[journalOff + 1].pg)}
               /\ cache' \in {cache, [cache EXCEPT ![jrnl[journalOff + 1].pg] = jrnl[journalOff + 1].val]}
               /\ UNCHANGED <<dbSize, dbOrigSize, dirty, needSync>>
      <4> DEFINE pg == jrnl[journalOff + 1].pg
                 val == jrnl[journalOff + 1].val
      <4>1. pg \in Page /\ val \in Content
        BY <3>2, <3>5
      <4>2. cache' = cache \/ cache' = [cache EXCEPT ![pg] = val]
        BY <3>5
      <4>3. dbFileSize' = dbFileSize \/ dbFileSize' = Larger(dbFileSize, pg)
        BY <3>5
      <4> HIDE DEF pg, val
      <4>4. cache' \in [Page -> Content \cup {NotCached}]
        BY <4>1, <4>2 DEF Types
      <4>5. dbFileSize' \in 0 .. MaxPage
        BY <4>1, <4>3 DEF Types, Larger, Page
      <4> QED
        BY <3>5, <4>4, <4>5 DEF Types
    <3> QED
      BY <3>3, <3>4, <3>5
  <2> QED
    BY <2>1, <2>2
<1>15. CASE PlaybackSync
  BY <1>15, GiveUpTypes DEF PlaybackSync, Types
<1>16. CASE FinalizeJournal
  BY <1>16, AfterFinalizeTypes, FailTransactionTypes DEF FinalizeJournal, Types, TypesOfJournal
<1>17. CASE SyncFinalized \/ TruncateAfterCommit
  BY <1>17, AfterFinalizeTypes, FailTransactionTypes, EndTransactionTypes, GiveUpTypes
     DEF SyncFinalized, TruncateAfterCommit, Types, TypesOfJournal
<1>18. CASE SyncJournalRecords \/ SyncJournalCount \/ SyncJournalHeader
  BY <1>18, GiveUpTypes DEF SyncJournalRecords, SyncJournalCount, SyncJournalHeader, Types
<1>19. CASE StressWrite
  <2>1. call.pg \in 0 .. MaxPage
    BY DEF Types, TypesOfCalls
  <2> QED
    BY <1>19, <2>1, GiveUpTypes DEF StressWrite, Larger, Types
<1>20. CASE CommitWriteList
  <2>1. LastPage(DirtyList) \in 0 .. MaxPage
    BY LastPageIs DEF DirtyList, Types
  <2> QED
    BY <1>20, <2>1, GiveUpTypes DEF CommitWriteList, Larger, Types
<1>21. CASE CommitSync
  BY <1>21, GiveUpTypes DEF CommitSync, Types
<1>22. CASE Crash
  BY <1>22 DEF Crash, EmptyCache
<1>23. CASE sqlite3PagerOpenSavepoint \/ \E i \in 0 .. Len(savepoint) : ReleaseSavepoint(i)
  BY <1>23 DEF sqlite3PagerOpenSavepoint, ReleaseSavepoint, Types
<1>25. CASE \E i \in 0 .. Len(savepoint) : RollbackSavepoint(i)
  <2>1. PICK i \in 0 .. Len(savepoint) : RollbackSavepoint(i)
    BY <1>25
  <2>2. PICK records \in SUBSET ReplayRecord, torn \in SUBSET Page :
           OneEach(records) /\ Played(records, Staying(i), torn)
    BY <2>1, RollbackIs
  <2>3. /\ dbFileSize' \in 0 .. MaxPage /\ cache' \in [Page -> Content \cup {NotCached}]
        /\ dirty' = dirty \cup Added(records)
    BY <2>1, <2>2, RollbackIs, PlayedIs
  <2>4. Added(records) \subseteq Page
    BY <2>2, RecordsAre
  <2>5. dbSize' \in 0 .. MaxPage /\ UNCHANGED <<dbOrigSize, needSync>>
    BY <2>1, RollbackIs, RollbackLeaves
  <2> QED
    BY <2>3, <2>4, <2>5 DEF Types
<1> QED
  BY <1>1, <1>2, <1>3, <1>4, <1>5, <1>6, <1>7, <1>8, <1>9, <1>10, <1>11, <1>12, <1>13, <1>14, <1>15, <1>16,
     <1>17, <1>18, <1>19, <1>20, <1>21, <1>22, <1>23, <1>24, <1>25 DEF Next, Continue

\* What the pager knows of the journal.
LEMMA JournalKept ==
    ASSUME Types, NEW c \in BOOLEAN, Preserving(c), Next
    PROVE  TypesOfJournal'
<1> USE DEF TypesOfJournal, jstate
<1>1. Len(jrnl) \in Nat /\ Len(db) \in Nat
  BY FilesAre DEF Journals, Images
<1>2. txn \in 0 .. MaxTxn
  BY FilesAre
<1>3. call.at = "playRec" => left > 0
  BY CallFacts
<1>4. CASE sqlite3PagerSharedLock
  BY <1>4 DEF sqlite3PagerSharedLock, BecomeReader, Types
<1>5. CASE pagerUnlockIfUnused
  <2>1. pager_unlock(eState = "ERROR")
    BY <1>5 DEF pagerUnlockIfUnused
  <2> QED
    BY <2>1 DEF pager_unlock, UndeletableWhenOpen, Types
<1>6. CASE sqlite3PagerBegin
  BY <1>6 DEF sqlite3PagerBegin, Types
<1>7. CASE \E p \in Page : sqlite3PagerGet(p) \/ pagerStress(p)
  BY <1>7 DEF sqlite3PagerGet, pagerStress, Types
<1>8. ASSUME NEW p \in Page, NEW n, NEW next, PagerWrite(p, n, next) PROVE TypesOfJournal'
  <2>1. <<txn, 0>> \in Nonce
    BY <1>2 DEF Nonce
  <2>2. cksumInit' \in Nonce
    BY <1>8, <2>1 DEF PagerWrite, Types
  <2>3. inJournal' \subseteq Page
    BY <1>8 DEF PagerWrite, Types
  <2>4. jfdOpen' \in BOOLEAN
    BY <1>8 DEF PagerWrite, Types
  <2>5. journalOff' \in Nat /\ journalHdr' \in Nat /\ nRec' \in Nat /\ left' \in Nat
    BY <1>8 DEF PagerWrite, Types
  <2> QED
    BY <2>2, <2>3, <2>4, <2>5
<1>9. CASE \E p \in Page : sqlite3PagerWrite(p)
  BY <1>8, <1>9 DEF sqlite3PagerWrite
<1>10. CASE \E n \in Page : sqlite3PagerCommitPhaseOne(n)
  <2>1. 1 \in Page
    BY PagerAssumption DEF Page
  <2> QED
    BY <1>8, <1>10, <2>1 DEF sqlite3PagerCommitPhaseOne
<1>11. CASE sqlite3PagerCommitPhaseTwo \/ sqlite3PagerRollback
  BY <1>11 DEF sqlite3PagerCommitPhaseTwo, sqlite3PagerRollback, Types
<1>12. CASE sqlite3PagerClose
  <2>1. CASE UNCHANGED <<jstate, left>>
    BY <2>1 DEF Types
  <2>2. CASE pager_unlock(TRUE)
    BY <2>2, UnlockTypes
  <2> QED
    BY <1>12, <2>1, <2>2 DEF sqlite3PagerClose
<1>13. CASE \E mode \in Modes : sqlite3PagerSetJournalMode(mode)
  BY <1>13 DEF sqlite3PagerSetJournalMode, Types
<1>14. CASE \E l \in Levels : sqlite3PagerSetFlags(l)
  BY <1>14 DEF sqlite3PagerSetFlags, Types
<1>15. CASE pagerSyncHotJournal
  <2>1. CASE GiveUp
    BY <2>1, GiveUpTypes
  <2>2. CASE ~GiveUp
    <3>1. jfdOpen' \in BOOLEAN
      BY <1>15, <2>2 DEF pagerSyncHotJournal, pager_unlock, UndeletableWhenOpen, Types
    <3>2. inJournal' \subseteq Page /\ journalOff' \in Nat /\ journalHdr' \in Nat
          /\ nRec' \in Nat /\ left' \in Nat /\ cksumInit' \in Nonce
      BY <1>1, <1>15, <2>2 DEF pagerSyncHotJournal, pager_unlock, UndeletableWhenOpen, Types
    <3> QED
      BY <3>1, <3>2
  <2> QED
    BY <2>1, <2>2
<1>16. CASE PlaybackHeader
  <2>1. CASE GiveUp
    BY <2>1, GiveUpTypes
  <2>2. CASE ~GiveUp
    <3>1. journalOff + 1 \in Nat \ {0}
      BY DEF Types
    <3>2. CASE NoHeader(journalOff + 1)
      BY <1>16, <2>2, <3>2 DEF PlaybackHeader, Types
    <3>3. CASE ~NoHeader(journalOff + 1)
      <4>1. jrnl[journalOff + 1].nRec \in Nat /\ jrnl[journalOff + 1].nonce \in Nonce /\ journalOff + 1 <= Len(jrnl)
        BY <3>1, <3>3, JournalSlotIs DEF NoHeader
      <4>2. SegmentLength(journalOff + 1) \in Nat
        BY <1>1, <3>1, <4>1 DEF SegmentLength
      <4> HIDE DEF SegmentLength
      <4> QED
        BY <1>16, <2>2, <3>3, <4>1, <4>2 DEF PlaybackHeader, AfterHeader, Types
    <3> QED
      BY <3>2, <3>3
  <2> QED
    BY <2>1, <2>2
<1>17. CASE PlaybackRecord
  <2>1. CASE GiveUp
    BY <2>1, GiveUpTypes
  <2>2. CASE ~GiveUp
    BY <1>1, <1>3, <1>17, <2>2 DEF PlaybackRecord, Types
  <2> QED
    BY <2>1, <2>2
<1>18. CASE PlaybackSync
  BY <1>18, GiveUpTypes DEF PlaybackSync, Types
<1>19. CASE FinalizeJournal
  BY <1>19, AfterFinalizeTypes, FailTransactionTypes DEF FinalizeJournal, Types
<1>20. CASE SyncFinalized \/ TruncateAfterCommit
  BY <1>20, AfterFinalizeTypes, FailTransactionTypes, EndTransactionTypes, GiveUpTypes
     DEF SyncFinalized, TruncateAfterCommit, Types
<1>21. CASE SyncJournalRecords \/ SyncJournalCount
  BY <1>21, GiveUpTypes DEF SyncJournalRecords, SyncJournalCount, Types
<1>22. CASE SyncJournalHeader
  <2>1. CASE GiveUp
    BY <2>1, GiveUpTypes
  <2>2. CASE ~GiveUp
    BY <1>2, <1>22, <2>2 DEF SyncJournalHeader, Nonce, Types
  <2> QED
    BY <2>1, <2>2
<1>23. CASE StressWrite \/ CommitWriteList \/ CommitSync
  BY <1>23, GiveUpTypes DEF StressWrite, CommitWriteList, CommitSync, Types
<1>24. CASE Crash
  <2>1. <<0, 0>> \in Nonce
    BY PagerAssumption DEF Nonce
  <2> QED
    BY <1>24, <2>1 DEF Crash
<1>25. CASE sqlite3PagerOpenSavepoint \/ \E i \in 0 .. Len(savepoint) : ReleaseSavepoint(i)
  BY <1>25 DEF sqlite3PagerOpenSavepoint, ReleaseSavepoint, Types
<1>26. CASE \E i \in 0 .. Len(savepoint) : RollbackSavepoint(i)
  <2>1. PICK i \in 0 .. Len(savepoint) : RollbackSavepoint(i)
    BY <1>26
  <2>2. PICK records \in SUBSET ReplayRecord, torn \in SUBSET Page :
           OneEach(records) /\ Played(records, Staying(i), torn)
    BY <2>1, RollbackIs
  <2>3. inJournal' = inJournal \cup {p \in Added(records) : p <= dbOrigSize}
    BY <2>1, <2>2, RollbackIs, PlayedIs
  <2>4. Added(records) \subseteq Page
    BY <2>2, RecordsAre
  <2>5. UNCHANGED <<jfdOpen, journalOff, journalHdr, nRec, cksumInit, left>>
    BY <2>1, RollbackLeaves
  <2> QED
    BY <2>3, <2>4, <2>5 DEF Types
<1> QED
  BY <1>4, <1>5, <1>6, <1>7, <1>9, <1>10, <1>11, <1>12, <1>13, <1>14, <1>15, <1>16,
     <1>17, <1>18, <1>19, <1>20, <1>21, <1>22, <1>23, <1>24, <1>25, <1>26 DEF Next, Continue

\* The database file.
LEMMA DatabaseKept ==
    ASSUME Types, NEW c \in BOOLEAN, Preserving(c), Next
    PROVE  db' \in Images /\ dbDur' \in Images /\ Len(db') <= MaxPage /\ Len(dbDur') <= MaxPage
<1> DEFINE Kept == db' \in Images /\ dbDur' \in Images /\ Len(db') <= MaxPage /\ Len(dbDur') <= MaxPage
<1> SUFFICES Kept
  OBVIOUS
<1> USE DEF dbfile
<1>1. db \in Images /\ dbDur \in Images /\ Len(db) <= MaxPage /\ Len(dbDur) <= MaxPage
      /\ MaxPage \in Nat /\ Len(db) \in Nat
  BY FilesAre DEF Types, TypesOfFiles, Images
<1>2. Torn \in Content /\ 0 \in Content
  BY PagerAssumption DEF Content
<1>3. ASSUME db' = db, dbDur' \in {db, dbDur} PROVE Kept
  BY <1>1, <1>3
<1>4. ASSUME NEW p \in Page, NEW v \in Content, db' \in {db, WriteAt(db, p, v, 0)}, dbDur' = dbDur
      PROVE  Kept
  BY <1>1, <1>4, PageWritten
<1>5. CASE sqlite3PagerSharedLock \/ pagerUnlockIfUnused \/ sqlite3PagerBegin
  BY <1>3, <1>5 DEF sqlite3PagerSharedLock, BecomeReader, pagerUnlockIfUnused, sqlite3PagerBegin
<1>6. CASE \E p \in Page : sqlite3PagerGet(p) \/ sqlite3PagerWrite(p) \/ pagerStress(p) \/ sqlite3PagerCommitPhaseOne(p)
  <2>1. ASSUME NEW p, NEW n, NEW next, PagerWrite(p, n, next) PROVE UNCHANGED dbfile
    BY <2>1 DEF PagerWrite
  <2> QED
    BY <1>3, <1>6, <2>1 DEF sqlite3PagerGet, pagerStress, sqlite3PagerWrite, sqlite3PagerCommitPhaseOne
<1>7. CASE sqlite3PagerCommitPhaseTwo \/ sqlite3PagerRollback \/ sqlite3PagerClose
  BY <1>3, <1>7 DEF sqlite3PagerCommitPhaseTwo, sqlite3PagerRollback, sqlite3PagerClose
<1>8. CASE \/ \E mode \in Modes : sqlite3PagerSetJournalMode(mode)
           \/ \E l \in Levels : sqlite3PagerSetFlags(l)
  BY <1>3, <1>8 DEF sqlite3PagerSetJournalMode, sqlite3PagerSetFlags
<1>9. CASE pagerSyncHotJournal \/ PlaybackSync \/ FinalizeJournal \/ SyncFinalized
  BY <1>3, <1>9 DEF pagerSyncHotJournal, PlaybackSync, FinalizeJournal, SyncFinalized
<1>10. CASE SyncJournalRecords \/ SyncJournalCount \/ SyncJournalHeader \/ CommitSync
  BY <1>3, <1>10 DEF SyncJournalRecords, SyncJournalCount, SyncJournalHeader, CommitSync
<1>11. CASE PlaybackHeader
  <2>1. CASE UNCHANGED db
    BY <1>3, <1>11, <2>1 DEF PlaybackHeader
  <2>2. CASE ~UNCHANGED db
    <3> DEFINE n == jrnl[journalOff + 1].size
    <3>1. journalOff + 1 \in Nat \ {0} /\ ~NoHeader(journalOff + 1) /\ db' = Resized(n)
      BY <1>11, <2>2 DEF PlaybackHeader, Types, TypesOfJournal
    <3>2. n \in 0 .. MaxPage
      BY <3>1, JournalSlotIs DEF NoHeader
    <3>3. dbDur' = dbDur
      BY <1>11 DEF PlaybackHeader
    <3> HIDE DEF n
    <3>4. CASE Len(db) < n
      <4>1. n \in Page
        BY <1>1, <3>2, <3>4 DEF Page
      <4>2. db' = WriteAt(db, n, 0, 0)
        BY <3>1, <3>4 DEF Resized
      <4> QED
        BY <1>2, <1>4, <3>3, <4>1, <4>2
    <3>5. CASE ~(Len(db) < n)
      <4>1. db' = Cut(db, n)
        BY <3>1, <3>5 DEF Resized
      <4>2. Cut(db, n) \in Images /\ Len(Cut(db, n)) = Smaller(n, Len(db))
        <5>1. db \in Seq(Content) /\ n \in Nat
          BY <1>1, <3>2 DEF Images
        <5> QED
          BY <5>1, CutIs DEF Images
      <4> QED
        BY <1>1, <3>2, <3>3, <4>1, <4>2 DEF Smaller
    <3> QED
      BY <3>4, <3>5
  <2> QED
    BY <2>1, <2>2
<1>12. CASE PlaybackRecord
  <2>1. CASE UNCHANGED db
    BY <1>3, <1>12, <2>1 DEF PlaybackRecord
  <2>2. CASE ~UNCHANGED db
    <3> DEFINE s == jrnl[journalOff + 1]
    <3>1. journalOff + 1 \in Nat \ {0}
      BY DEF Types, TypesOfJournal
    <3>2. /\ journalOff + 1 <= Len(jrnl) /\ Restores(s) /\ dbDur' = dbDur
          /\ db' \in {db, WriteAt(db, s.pg, s.val, 0)} \/ db' \in {db, WriteAt(db, s.pg, Torn, 0)}
      <4> HIDE DEF Restores
      <4> QED
        BY <1>12, <2>2 DEF PlaybackRecord
    <3>3. s.pg \in Page /\ s.val \in Content
      BY <3>1, <3>2, JournalSlotIs DEF Restores
    <3> HIDE DEF s
    <3> QED
      BY <1>2, <1>4, <3>2, <3>3
  <2> QED
    BY <2>1, <2>2
<1>13. CASE TruncateAfterCommit
  <2>1. dbSize \in Nat /\ db \in Seq(Content)
    BY <1>1 DEF Types, TypesOfCache, Images
  <2>2. Cut(db, dbSize) \in Images /\ Len(Cut(db, dbSize)) = Smaller(dbSize, Len(db))
    BY <2>1, CutIs DEF Images
  <2>3. db' \in {db, Cut(db, dbSize)} /\ dbDur' = dbDur
    BY <1>13 DEF TruncateAfterCommit
  <2> QED
    BY <1>1, <2>1, <2>2, <2>3 DEF Smaller
<1>14. CASE StressWrite
  <2>1. CASE UNCHANGED db
    BY <1>3, <1>14, <2>1 DEF StressWrite
  <2>2. CASE ~UNCHANGED db
    <3>1. db' \in {db, WriteAt(db, call.pg, cache[call.pg], 0)} \/ db' \in {db, WriteAt(db, call.pg, Torn, 0)}
      BY <1>14 DEF StressWrite
    <3>2. dbDur' = dbDur /\ call.at = "stressWrite"
      BY <1>14 DEF StressWrite
    <3>3. call.pg \in Page /\ cache[call.pg] # NotCached
      BY <3>2, CallFacts
    <3>4. call.pg \in Page /\ cache[call.pg] \in Content
      BY <3>3 DEF Types, TypesOfCache
    <3> QED
      BY <1>2, <1>4, <3>1, <3>2, <3>4
  <2> QED
    BY <2>1, <2>2
<1>15. CASE CommitWriteList
  <2>1. DirtyList \in SUBSET Page /\ \A p \in dirty : p \in Page /\ cache[p] \in Content
    <3>1. \A p \in dirty : cache[p] # NotCached
      BY <1>15, CallFacts DEF CommitWriteList
    <3> QED
      BY <3>1 DEF Types, TypesOfCache, DirtyList
  <2>2. ASSUME NEW S \in SUBSET DirtyList
        PROVE  WithPages(S) \in Images /\ Len(WithPages(S)) <= MaxPage
    <3>1. S \in SUBSET Page /\ \A p \in S : cache[p] \in Content
      BY <2>1 DEF DirtyList
    <3>2. Filled(db, cache, S) \in Images /\ Len(Filled(db, cache, S)) <= MaxPage
      BY <1>1, <3>1, FilledIs
    <3> QED
      BY <3>2 DEF WithPages, Filled
  <2>3. CASE db' = WithPages(DirtyList)
    BY <1>1, <1>15, <2>2, <2>3 DEF CommitWriteList
  <2>4. CASE \E p \in DirtyList : LET before == WithPages({q \in DirtyList : q < p})
                                  IN  db' \in {before, WriteAt(before, p, Torn, 0)}
    <3>1. PICK p \in DirtyList : LET before == WithPages({q \in DirtyList : q < p})
                                 IN  db' \in {before, WriteAt(before, p, Torn, 0)}
      BY <2>4
    <3> DEFINE before == WithPages({q \in DirtyList : q < p})
    <3>2. before \in Images /\ Len(before) <= MaxPage
      BY <2>2
    <3>3. db' \in {before, WriteAt(before, p, Torn, 0)}
      BY <3>1
    <3>4. p \in Page
      BY <2>1
    <3> HIDE DEF before
    <3>5. WriteAt(before, p, Torn, 0) \in Images /\ Len(WriteAt(before, p, Torn, 0)) <= MaxPage
      BY <1>2, <3>2, <3>4, PageWritten
    <3> QED
      BY <1>1, <1>15, <3>2, <3>3, <3>5 DEF CommitWriteList
  <2> QED
    BY <1>15, <2>3, <2>4 DEF CommitWriteList
<1>16. CASE Crash
  <2>1. db' \in Leftover(db, dbDur, Torn) /\ dbDur' = db'
    BY <1>16 DEF Crash
  <2>2. db' \in Images /\ Len(db') <= Larger(Len(db), Len(dbDur))
    BY <1>1, <1>2, <2>1, LeftoverMixes DEF Images
  <2> QED
    BY <1>1, <2>1, <2>2 DEF Larger
<1>17. CASE sqlite3PagerOpenSavepoint \/ \E i \in 0 .. Len(savepoint) : ReleaseSavepoint(i)
  BY <1>3, <1>17 DEF sqlite3PagerOpenSavepoint, ReleaseSavepoint
<1>18. CASE \E i \in 0 .. Len(savepoint) : RollbackSavepoint(i)
  <2>1. PICK i \in 0 .. Len(savepoint) : RollbackSavepoint(i)
    BY <1>18
  <2>2. PICK records \in SUBSET ReplayRecord, torn \in SUBSET Page :
           OneEach(records) /\ Played(records, Staying(i), torn)
    BY <2>1, RollbackIs
  <2>3. db' \in Images /\ Len(db') <= MaxPage
    BY <2>1, <2>2, RollbackIs, PlayedIs
  <2>4. dbDur' = dbDur
    BY <2>1, RollbackLeaves
  <2> QED
    BY <1>1, <2>3, <2>4
<1> QED
  BY <1>5, <1>6, <1>7, <1>8, <1>9, <1>10, <1>11, <1>12, <1>13, <1>14, <1>15, <1>16, <1>17, <1>18 DEF Next, Continue

-----------------------------------------------------------------------------
\* A journal that was written to is a file.
LEMMA WrittenIsFile ==
    ASSUME NEW f \in Journals, NEW k \in Nat \ {0}, NEW s \in Slot
    PROVE  IsFile(WriteAt(f, k, s, Garbage))
<1>1. s \in Slots /\ s # [kind |-> "nofile"]
  BY DEF Slot, Slots, Garbage
<1>2. WriteAt(f, k, s, Garbage)[k] = s /\ k <= Len(WriteAt(f, k, s, Garbage))
  <2>1. s \in Slots
    BY <1>1
  <2>2. /\ k <= Len(WriteAt(f, k, s, Garbage))
        /\ WriteAt(f, k, s, Garbage)[k] = s
    BY ONLY ZenonT(40), f \in Journals, k \in Nat \ {0}, <2>1, SlotWritten
  <2> QED
    BY ONLY <2>2
<1>3. ASSUME WriteAt(f, k, s, Garbage) = NoFile PROVE FALSE
  <2>1. k = 1
    BY <1>2, <1>3 DEF NoFile
  <2>2. NoFile[1] = [kind |-> "nofile"]
    BY DEF NoFile
  <2> QED
    BY <1>1, <1>2, <1>3, <2>1, <2>2
<1> QED
  BY <1>3 DEF IsFile

\* The slots that a transaction writes.
LEMMA SlotsOfTxn ==
    ASSUME Types, NEW off \in Nat, NEW p \in Page
    PROVE  /\ NewHeader(off) \in Slot /\ NewHeader(off).nonce[1] = txn
           /\ Garbage \in Slot /\ Garbage.kind = "junk"
           /\ Record(p, PageContent(p), <<txn, off>>) \in Slot
           /\ Record(p, PageContent(p), <<txn, off>>).nonce[1] = txn
<1>1. txn \in 0 .. MaxTxn /\ dbOrigSize \in 0 .. MaxPage /\ PageContent(p) \in Content
  BY FilesAre, PageContentIs DEF Types, TypesOfCache
<1>2. <<txn, off>> \in Nonce
  BY <1>1 DEF Nonce
<1> HIDE DEF PageContent
<1>3. Record(p, PageContent(p), <<txn, off>>) \in Slot
      /\ Record(p, PageContent(p), <<txn, off>>).nonce[1] = txn
  BY <1>1, <1>2 DEF Record, Slot
<1>4. Header(FALSE, 0, <<txn, off>>, dbOrigSize) \in Slot
      /\ Header(FALSE, 0, <<txn, off>>, dbOrigSize).nonce[1] = txn
  BY <1>1, <1>2 DEF Header, Slot
<1> QED
  BY <1>3, <1>4 DEF NewHeader, Slot, Garbage

LEMMA CreatedIs ==
    ASSUME Types
    PROVE  CreatedJournal \in Journals /\ Sound(CreatedJournal, txn) /\ IsFile(CreatedJournal)
<1>1. <<>> # NoFile
  BY DEF NoFile
<1> QED
  BY <1>1, FilesAre, NoFileIsSound, EmptyIsCold DEF CreatedJournal, IsFile, Types, TypesOfFiles

\* What sqlite3PagerWrite makes of the journal.
LEMMA WriteIsSound ==
    ASSUME Types, NEW c \in BOOLEAN, Preserving(c), NEW p \in Page, NEW n, NEW next, PagerWrite(p, n, next),
           AtRest, eState \in {"WRITER_LOCKED", "WRITER_CACHEMOD", "WRITER_DBMOD"}
    PROVE  Sound(jrnl', txn) /\ (jfdOpen' => IsFile(jrnl'))
<1> DEFINE opening == eState = "WRITER_LOCKED"
           base == IF opening THEN OpenedJournal ELSE jrnl
           off == IF opening THEN 1 ELSE journalOff
           nonce == IF opening THEN <<txn, 0>> ELSE cksumInit
           logged == WriteAt(base, off + 1, Record(p, PageContent(p), nonce), Garbage)
<1>1. Sound(OpenedJournal, txn) /\ IsFile(OpenedJournal)
      /\ Sound(WriteAt(CreatedJournal, 1, Garbage, Garbage), txn)
      /\ IsFile(WriteAt(CreatedJournal, 1, Garbage, Garbage))
  <2>1. NewHeader(0) \in Slot /\ NewHeader(0).nonce[1] = txn /\ Garbage \in Slot /\ Garbage.kind = "junk"
    BY SlotsOfTxn
  <2>2. txn \in Nat
    BY FilesAre
  <2>3. Sound(WriteAt(CreatedJournal, 1, Garbage, Garbage), txn)
    BY <2>1, <2>2, CreatedIs, SoundWritten
  <2>4. Sound(WriteAt(CreatedJournal, 1, NewHeader(0), Garbage), txn)
    BY <2>1, <2>2, CreatedIs, SoundWritten
  <2>5. IsFile(WriteAt(CreatedJournal, 1, NewHeader(0), Garbage)) /\ IsFile(WriteAt(CreatedJournal, 1, Garbage, Garbage))
    BY <2>1, CreatedIs, WrittenIsFile
  <2> QED
    BY <2>3, <2>4, <2>5 DEF OpenedJournal
<1>2. Sound(base, txn) /\ IsFile(base) /\ base \in Journals
  <2>1. ~opening => Sound(jrnl, txn) /\ IsFile(jrnl)
    BY CallFacts DEF Types, TypesOfFiles, Modified
  <2>2. Sound(base, txn) /\ IsFile(base)
    BY <1>1, <2>1
  <2> HIDE DEF base
  <2> QED
    BY <2>2, FilesAre, SoundIs
<1>3. off \in Nat /\ off + 1 \in Nat \ {0}
  BY DEF Types, TypesOfJournal
<1>4. \E h \in Nat : nonce = <<txn, h>>
  <2>1. ~opening => cksumInit = <<txn, journalHdr>> /\ journalHdr \in Nat
    BY CallFacts DEF Types, TypesOfJournal, Modified
  <2> QED
    BY <2>1
<1>5. Record(p, PageContent(p), nonce) \in Slot /\ Record(p, PageContent(p), nonce).nonce[1] = txn
      /\ Garbage \in Slot /\ Garbage.kind = "junk"
  <2> HIDE DEF PageContent, nonce
  <2> QED
    BY <1>4, SlotsOfTxn
<1>6. Sound(logged, txn) /\ IsFile(logged)
      /\ Sound(WriteAt(base, off + 1, Garbage, Garbage), txn) /\ IsFile(WriteAt(base, off + 1, Garbage, Garbage))
  <2> HIDE DEF base, off, nonce, PageContent
  <2>1. txn \in Nat
    BY FilesAre
  <2>2. txn <= txn
    BY <2>1
  <2>3. Sound(logged, txn)
    BY <1>2, <1>3, <1>5, <2>1, <2>2, SoundWritten
  <2>4. Sound(WriteAt(base, off + 1, Garbage, Garbage), txn)
    BY <1>2, <1>3, <1>5, <2>1, SoundWritten
  <2>5. IsFile(logged) /\ IsFile(WriteAt(base, off + 1, Garbage, Garbage))
    BY <1>2, <1>3, <1>5, WrittenIsFile
  <2> QED
    BY <2>3, <2>4, <2>5
<1>7. \/ UNCHANGED <<jrnl, jfdOpen>>
      \/ jrnl' \in {CreatedJournal, OpenedJournal, WriteAt(CreatedJournal, 1, Garbage, Garbage)}
      \/ jrnl' \in {base, logged, WriteAt(base, off + 1, Garbage, Garbage)}
  <2> HIDE DEF PageContent
  <2> QED
    BY DEF PagerWrite
<1> HIDE DEF base, logged, off
<1> QED
  BY <1>1, <1>2, <1>6, <1>7, CreatedIs DEF Types, TypesOfFiles

\* The journal file.
LEMMA JournalFileKept ==
    ASSUME Types, NEW c \in BOOLEAN, Preserving(c), Next
    PROVE  /\ Sound(jrnl', txn') /\ Sound(jrnlDur', txn') /\ jrnlNew' \in BOOLEAN
           /\ jfdOpen' => IsFile(jrnl')
<1> DEFINE Kept == /\ Sound(jrnl', txn') /\ Sound(jrnlDur', txn') /\ jrnlNew' \in BOOLEAN
                   /\ jfdOpen' => IsFile(jrnl')
<1> SUFFICES Kept
  OBVIOUS
<1> USE DEF jfile, bounds, jstate
<1>1. /\ txn \in Nat /\ Sound(jrnl, txn) /\ Sound(jrnlDur, txn) /\ jrnlNew \in BOOLEAN
      /\ jfdOpen => IsFile(jrnl)
      /\ jrnl \in Journals /\ jrnlDur \in Journals
      /\ Sound(NoFile, txn) /\ Sound(<<>>, txn) /\ IsFile(<<>>)
  BY FilesAre, NoFileIsSound DEF Types, TypesOfFiles, IsFile, NoFile
<1>2. ASSUME UNCHANGED <<jrnl, txn>>, jrnlDur' \in {jrnl, jrnlDur}, jrnlNew' \in {jrnlNew, FALSE},
             jfdOpen' => jfdOpen \/ IsFile(jrnl)
      PROVE  Kept
  BY <1>1, <1>2
<1>3. ASSUME Sound(jrnl', txn), IsFile(jrnl'), txn' = txn, jrnlDur' \in {jrnl, jrnl', jrnlDur},
             jrnlNew' \in BOOLEAN
      PROVE  Kept
  BY <1>1, <1>3
<1>4. ASSUME jrnl' = NoFile, txn' = txn, jrnlDur' \in {NoFile, jrnlDur}, jrnlNew' = jrnlNew, ~jfdOpen'
      PROVE  Kept
  BY <1>1, <1>4
<1>5. CASE sqlite3PagerSharedLock
  <2>1. CASE UNCHANGED jrnl
    <3>1. UNCHANGED <<jrnlDur, jrnlNew, txn>> /\ (jfdOpen' = jfdOpen \/ IsFile(jrnl))
      BY <1>5 DEF sqlite3PagerSharedLock, BecomeReader
    <3> QED
      BY <1>2, <2>1, <3>1
  <2>2. CASE ~UNCHANGED jrnl
    <3>1. ~jfdOpen
      BY <1>5, CallFacts DEF sqlite3PagerSharedLock
    <3>2. jrnl' = NoFile /\ jfdOpen' = jfdOpen /\ UNCHANGED <<jrnlDur, jrnlNew, txn>>
      BY <1>5, <2>2 DEF sqlite3PagerSharedLock, BecomeReader
    <3> QED
      BY <1>4, <3>1, <3>2
  <2> QED
    BY <2>1, <2>2
<1>6. CASE pagerUnlockIfUnused
  BY <1>2, <1>6 DEF pagerUnlockIfUnused, pager_unlock, UndeletableWhenOpen
<1>7. CASE sqlite3PagerBegin
  <2>1. UNCHANGED <<jfile, jfdOpen>> /\ txn' = txn + 1
    BY <1>7 DEF sqlite3PagerBegin
  <2>2. txn + 1 \in Nat /\ txn <= txn + 1
    BY <1>1
  <2> QED
    BY <1>1, <2>1, <2>2, SoundIs
<1>8. CASE \E p \in Page : sqlite3PagerGet(p) \/ pagerStress(p)
  <2>1. UNCHANGED <<jfile, jstate, bounds>>
    BY <1>8 DEF sqlite3PagerGet, pagerStress
  <2> QED
    BY <1>2, <2>1
<1>9. ASSUME NEW p \in Page, NEW n, NEW next, PagerWrite(p, n, next), AtRest,
             eState \in {"WRITER_LOCKED", "WRITER_CACHEMOD", "WRITER_DBMOD"}
      PROVE  Kept
  <2>1. Sound(jrnl', txn) /\ (jfdOpen' => IsFile(jrnl'))
    BY <1>9, WriteIsSound
  <2>2. jrnlDur' = jrnlDur /\ txn' = txn
    BY <1>9 DEF PagerWrite
  <2>3. jrnlNew' \in BOOLEAN
    BY <1>1, <1>9 DEF PagerWrite
  <2> QED
    BY <1>1, <2>1, <2>2, <2>3
<1>10. CASE \E p \in Page : sqlite3PagerWrite(p)
  BY <1>9, <1>10 DEF sqlite3PagerWrite
<1>11. CASE \E n \in Page : sqlite3PagerCommitPhaseOne(n)
  <2>1. 1 \in Page
    BY PagerAssumption DEF Page
  <2> QED
    BY <1>9, <1>11, <2>1 DEF sqlite3PagerCommitPhaseOne
<1>12. CASE sqlite3PagerCommitPhaseTwo \/ sqlite3PagerRollback
  BY <1>2, <1>12 DEF sqlite3PagerCommitPhaseTwo, sqlite3PagerRollback
<1>13. CASE sqlite3PagerClose
  BY <1>2, <1>13 DEF sqlite3PagerClose, pager_unlock, UndeletableWhenOpen
<1>14. CASE \E mode \in Modes : sqlite3PagerSetJournalMode(mode)
  BY <1>1, <1>2, <1>4, <1>14 DEF sqlite3PagerSetJournalMode
<1>15. CASE \E l \in Levels : sqlite3PagerSetFlags(l)
  BY <1>2, <1>15 DEF sqlite3PagerSetFlags
<1>16. CASE pagerSyncHotJournal
  <2>1. UNCHANGED <<jrnl, txn>> /\ jrnlDur' \in {jrnl, jrnlDur} /\ jrnlNew' \in {jrnlNew, FALSE}
    BY <1>16 DEF pagerSyncHotJournal, SyncedJournal
  <2>2. jfdOpen' => jfdOpen
    <3>1. CASE GiveUp
      BY <3>1, GiveUpTypes
    <3>2. CASE ~GiveUp
      BY <1>16, <3>2 DEF pagerSyncHotJournal, pager_unlock, UndeletableWhenOpen
    <3> QED
      BY <3>1, <3>2
  <2> QED
    BY <1>2, <2>1, <2>2
<1>17. CASE PlaybackHeader \/ PlaybackRecord \/ PlaybackSync
  <2>1. jfdOpen' => jfdOpen
    BY <1>17, GiveUpTypes DEF PlaybackHeader, PlaybackRecord, PlaybackSync
  <2> QED
    BY <1>2, <1>17, <2>1 DEF PlaybackHeader, PlaybackRecord, PlaybackSync
<1>18. CASE FinalizeJournal
  <2>1. \/ /\ Sound(FinalizedJournal, txn)
           /\ journalMode # "DELETE" => IsFile(FinalizedJournal)
           /\ journalMode = "DELETE" => FinalizedJournal = NoFile
        \/ ~HasJournal
    <3>1. CASE ~HasJournal
      BY <3>1
    <3>2. CASE HasJournal
      <4>1. ZeroHeader \in Slot /\ ZeroHeader.nonce[1] = 0
        BY PagerAssumption DEF ZeroHeader, Header, Slot, Nonce
      <4>2. IsFile(jrnl)
        BY <1>1, <3>2 DEF HasJournal
      <4>3. Sound(WriteAt(jrnl, 1, ZeroHeader, Garbage), txn)
        BY <1>1, <4>1, <4>2, SoundWritten
      <4>4. IsFile(WriteAt(jrnl, 1, ZeroHeader, Garbage))
        BY <1>1, ZeroedIs
      <4>5. journalMode \in {"DELETE", "TRUNCATE", "PERSIST"}
        BY PagerAssumption DEF Types, TypesOfBounds
      <4> QED
        BY <1>1, <4>3, <4>4, <4>5 DEF FinalizedJournal
    <3> QED
      BY <3>1, <3>2
  <2>2. jfdOpen \in BOOLEAN /\ journalOff \in Nat
    BY DEF Types, TypesOfJournal
  <2>3. CASE /\ ~HasJournal /\ AfterFinalize(jfdOpen, journalOff) /\ UNCHANGED jfile
    BY <1>2, <1>18, <2>2, <2>3, AfterFinalizeTypes DEF FinalizeJournal
  <2>4. CASE /\ HasJournal /\ journalMode = "DELETE"
    <3>1. ~jfdOpen'
      BY <1>18, <2>2, <2>4, AfterFinalizeTypes, FailTransactionTypes DEF FinalizeJournal
    <3>2. jrnl' \in {jrnl, NoFile} /\ jrnlDur' \in {jrnlDur, NoFile} /\ UNCHANGED <<jrnlNew, txn>>
      BY <1>18, <2>1, <2>4 DEF FinalizeJournal
    <3> QED
      BY <1>1, <3>1, <3>2
  <2>5. CASE HasJournal /\ journalMode # "DELETE"
    <3>1. jrnl' \in {jrnl, FinalizedJournal} /\ UNCHANGED <<jrnlDur, jrnlNew, txn>>
      BY <1>18, <2>5 DEF FinalizeJournal
    <3>2. IsFile(jrnl)
      BY <1>1, <2>5 DEF HasJournal
    <3> QED
      BY <1>1, <1>3, <2>1, <2>5, <3>1, <3>2
  <2> QED
    BY <1>18, <2>3, <2>4, <2>5 DEF FinalizeJournal
<1>19. CASE SyncFinalized
  <2>1. jfdOpen /\ IsFile(jrnl)
    BY <1>1, <1>19, CallFacts DEF SyncFinalized
  <2> QED
    BY <1>2, <1>19, <2>1 DEF SyncFinalized, SyncedJournal
<1>20. CASE TruncateAfterCommit
  <2>1. jfdOpen' => jfdOpen
    BY <1>20, GiveUpTypes, EndTransactionTypes DEF TruncateAfterCommit, Types, TypesOfJournal
  <2> QED
    BY <1>2, <1>20, <2>1 DEF TruncateAfterCommit
<1>21. CASE SyncJournalRecords
  <2>1. IsFile(jrnl) /\ journalOff + 1 \in Nat \ {0}
    BY <1>1, <1>21, CallFacts DEF SyncJournalRecords, Types, TypesOfJournal
  <2>2. Sound(WithoutStaleHeader, txn) /\ IsFile(WithoutStaleHeader)
    <3> DEFINE k == journalOff + 1
    <3>1. CASE k <= Len(jrnl) /\ HasMagic(jrnl[k])
      <4> DEFINE x == [jrnl EXCEPT ![k].magic = FALSE]
      <4>1. jrnl[k] \in Slots /\ jrnl[k].kind = "hdr"
        BY <2>1, <3>1, JournalSlotIs
      <4>2. WithoutStaleHeader = x
        BY <3>1 DEF WithoutStaleHeader
      <4>3. jrnl[k] \in [kind : {"hdr"}, magic : BOOLEAN, nRec : Nat, nonce : Nonce, size : 0 .. MaxPage]
        BY <4>1 DEF Slots, Slot, Garbage
      <4>4. [jrnl[k] EXCEPT !.magic = FALSE]
              \in [kind : {"hdr"}, magic : BOOLEAN, nRec : Nat, nonce : Nonce, size : 0 .. MaxPage]
            /\ [jrnl[k] EXCEPT !.magic = FALSE].nonce = jrnl[k].nonce
        BY <4>3
      <4>5. [jrnl[k] EXCEPT !.magic = FALSE] \in Slots
        BY <4>4 DEF Slots, Slot
      <4>6. k \in 1 .. Len(jrnl) /\ jrnl \in Seq(Slots)
        BY <1>1, <2>1, <3>1 DEF Journals
      <4>7. x = [jrnl EXCEPT ![k] = [jrnl[k] EXCEPT !.magic = FALSE]]
        OBVIOUS
      <4> HIDE DEF x, k
      <4>8. x \in Journals /\ Len(x) = Len(jrnl)
            /\ x[k] = [jrnl[k] EXCEPT !.magic = FALSE] /\ \A i \in 1 .. Len(jrnl) : i # k => x[i] = jrnl[i]
        <5> DEFINE w == [jrnl[k] EXCEPT !.magic = FALSE]
        <5>1. w \in Slots /\ x = [jrnl EXCEPT ![k] = w]
          BY <4>5, <4>7
        <5> HIDE DEF w
        <5>2. x \in Seq(Slots) /\ Len(x) = Len(jrnl) /\ \A i \in 1 .. Len(jrnl) : x[i] = IF i = k THEN w ELSE jrnl[i]
          BY ONLY <4>6, <5>1, ExceptSeq
        <5>3. x[k] = w /\ \A i \in 1 .. Len(jrnl) : i # k => x[i] = jrnl[i]
          BY ONLY <4>6, <5>2
        <5> QED
          BY <5>2, <5>3 DEF w, Journals
      <4>9. IsFile(x)
        <5>1. x[k].kind = "hdr"
          BY <4>4, <4>8
        <5>2. \A i \in 1 .. Len(NoFile) : NoFile[i].kind = "nofile"
          BY DEF NoFile
        <5> QED
          BY <4>6, <4>8, <5>1, <5>2 DEF IsFile
      <4>10. \A i \in 1 .. Len(jrnl) :
                x[i] = jrnl[i] \/ (x[i].kind = "hdr" /\ jrnl[i].kind = "hdr" /\ x[i].nonce = jrnl[i].nonce)
        BY <4>1, <4>4, <4>8
      <4>11. Sound(x, txn)
        BY <1>1, <2>1, <4>8, <4>9, <4>10, SoundChanged
      <4> QED
        BY <4>2, <4>9, <4>11
    <3>2. CASE ~(k <= Len(jrnl) /\ HasMagic(jrnl[k]))
      BY <1>1, <2>1, <3>2 DEF WithoutStaleHeader
    <3> QED
      BY <3>1, <3>2
  <2>3. jrnl' \in {jrnl, WithoutStaleHeader} /\ jrnlDur' \in {jrnl', jrnlDur} /\ jrnlNew' \in BOOLEAN /\ txn' = txn
    BY <1>1, <1>21 DEF SyncJournalRecords, SyncedJournal
  <2> QED
    BY <1>1, <1>3, <2>1, <2>2, <2>3
<1>22. CASE SyncJournalCount
  <2>2. /\ LaidOut(jrnl, journalOff, journalHdr) /\ IsFile(jrnl)
        /\ journalHdr \in Nat /\ journalOff \in Nat /\ nRec \in Nat /\ Len(jrnl) \in Nat
    BY <1>1, <1>22, CallFacts DEF SyncJournalCount, Types, TypesOfJournal, Journals
  <2>3. journalHdr + 1 <= Len(jrnl) /\ jrnl[journalHdr + 1].kind = "hdr" /\ IsFile(jrnl)
    BY <2>2 DEF LaidOut
  <2>4. ASSUME NEW m \in Nat PROVE Sound(WithCount(m), txn) /\ IsFile(WithCount(m))
    <3> DEFINE x == Counting(jrnl, journalHdr, m)
    <3>1. /\ x \in Journals /\ Len(x) = Len(jrnl)
          /\ \A i \in 1 .. Len(jrnl) : i # journalHdr + 1 => x[i] = jrnl[i]
          /\ x[journalHdr + 1].kind = "hdr" /\ x[journalHdr + 1].nonce = jrnl[journalHdr + 1].nonce
      <4>1. PICK f, h : f = jrnl /\ h = journalHdr
        OBVIOUS
      <4>2. f \in Journals /\ h \in Nat /\ h + 1 <= Len(f) /\ f[h + 1].kind = "hdr"
        BY <1>1, <2>2, <2>3, <4>1
      <4>3. LET g == Counting(f, h, m)
            IN  /\ g \in Journals /\ Len(g) = Len(f)
                /\ \A i \in 1 .. Len(f) : i # h + 1 => g[i] = f[i]
                /\ g[h + 1].kind = "hdr" /\ g[h + 1].nonce = f[h + 1].nonce
        BY <4>2, CountingIs
      <4> QED
        BY <4>1, <4>3
    <3> HIDE DEF x
    <3>2. IsFile(x)
      <4>1. \A i \in 1 .. Len(NoFile) : NoFile[i].kind = "nofile"
        BY DEF NoFile
      <4>2. journalHdr + 1 \in 1 .. Len(x)
        BY <2>2, <2>3, <3>1
      <4> QED
        BY <3>1, <4>1, <4>2 DEF IsFile
    <3>3. Sound(x, txn)
      BY <1>1, <2>3, <3>1, <3>2, SoundChanged
    <3> QED
      BY <3>2, <3>3 DEF x, Counting, WithCount
  <2>5. jrnl' \in {jrnl, WithCount(0), WithCount(nRec)} /\ UNCHANGED <<jrnlDur, jrnlNew, txn>>
    BY <1>22 DEF SyncJournalCount
  <2> HIDE DEF WithCount
  <2> QED
    BY <1>1, <1>3, <2>2, <2>3, <2>4, <2>5
<1>23. CASE SyncJournalHeader
  <2>1. IsFile(jrnl) /\ journalOff + 1 \in Nat \ {0} /\ journalOff \in Nat
    BY <1>1, <1>23, CallFacts DEF SyncJournalHeader, Types, TypesOfJournal
  <2>2. ASSUME NEW s \in {NewHeader(journalOff), Garbage}
        PROVE  Sound(WriteAt(jrnl, journalOff + 1, s, Garbage), txn) /\ IsFile(WriteAt(jrnl, journalOff + 1, s, Garbage))
    <3>1. s \in Slot /\ (s.kind \in {"hdr", "rec"} => s.nonce[1] <= txn)
      <4>1. 1 \in Page
        BY PagerAssumption DEF Page
      <4>2. /\ NewHeader(journalOff) \in Slot /\ NewHeader(journalOff).nonce[1] = txn
            /\ Garbage \in Slot /\ Garbage.kind = "junk"
        BY <2>1, <4>1, SlotsOfTxn
      <4> HIDE DEF NewHeader
      <4> QED
        BY <1>1, <4>2
    <3>2. Sound(WriteAt(jrnl, journalOff + 1, s, Garbage), txn)
      BY <1>1, <2>1, <3>1, SoundWritten
    <3>3. IsFile(WriteAt(jrnl, journalOff + 1, s, Garbage))
      BY <1>1, <2>1, <3>1, WrittenIsFile
    <3> QED
      BY <3>2, <3>3
  <2>3. /\ jrnl' \in {jrnl, WriteAt(jrnl, journalOff + 1, NewHeader(journalOff), Garbage),
                      WriteAt(jrnl, journalOff + 1, Garbage, Garbage)}
        /\ jrnlDur' \in {jrnl, jrnlDur} /\ jrnlNew' \in {jrnlNew, FALSE} /\ txn' = txn
    BY <1>23 DEF SyncJournalHeader
  <2> QED
    BY <1>1, <1>3, <2>1, <2>2, <2>3
<1>24. CASE StressWrite \/ CommitWriteList \/ CommitSync
  <2>1. jfdOpen' => jfdOpen
    BY <1>24, GiveUpTypes DEF StressWrite, CommitWriteList, CommitSync
  <2> QED
    BY <1>2, <1>24, <2>1 DEF StressWrite, CommitWriteList, CommitSync
<1>25. CASE Crash
  <2>1. jrnl' \in LeftoverJournal /\ jrnlDur' = jrnl' /\ jrnlNew' = FALSE /\ jfdOpen' = FALSE /\ txn' = txn
    BY <1>25 DEF Crash
  <2>2. Sound(jrnl', txn)
    BY <1>1, <2>1, SoundLeft DEF LeftoverJournal
  <2> QED
    BY <2>1, <2>2
<1>26. CASE sqlite3PagerOpenSavepoint \/ \E i \in 0 .. Len(savepoint) : RollbackSavepoint(i) \/ ReleaseSavepoint(i)
  <2>1. UNCHANGED <<jfile, txn, jfdOpen>>
    BY <1>26, RollbackLeaves DEF sqlite3PagerOpenSavepoint, ReleaseSavepoint
  <2> QED
    BY <1>2, <2>1
<1> QED
  BY <1>5, <1>6, <1>7, <1>8, <1>10, <1>11, <1>12, <1>13, <1>14, <1>15, <1>16, <1>17, <1>18, <1>19,
     <1>20, <1>21, <1>22, <1>23, <1>24, <1>25, <1>26 DEF Next, Continue
\* The images that a reader may find.
LEMMA HistoryKept ==
    ASSUME Types, NEW c \in BOOLEAN, Preserving(c), Next
    PROVE  outcomes' \subseteq Images /\ lost' \subseteq Images
<1> DEFINE Kept == outcomes' \subseteq Images /\ lost' \subseteq Images
<1> SUFFICES Kept
  OBVIOUS
<1> USE DEF history
<1>1. outcomes \subseteq Images /\ lost \subseteq Images /\ Image \in Images
  BY ImageIs DEF Types, TypesOfFiles
<1>2. ASSUME outcomes' \subseteq outcomes \cup lost \cup {Image}, lost' \subseteq outcomes \cup lost
      PROVE  Kept
  BY <1>1, <1>2
<1> HIDE DEF Kept
<1>3. CASE sqlite3PagerSharedLock
  BY <1>2, <1>3 DEF sqlite3PagerSharedLock, BecomeReader
<1>4. CASE pagerUnlockIfUnused \/ sqlite3PagerBegin
  BY <1>2, <1>4 DEF pagerUnlockIfUnused, sqlite3PagerBegin
<1>5. CASE \E p \in Page : sqlite3PagerGet(p) \/ sqlite3PagerWrite(p) \/ pagerStress(p) \/ sqlite3PagerCommitPhaseOne(p)
  <2>1. ASSUME NEW p, NEW n, NEW next, PagerWrite(p, n, next) PROVE UNCHANGED history
    BY <2>1 DEF PagerWrite
  <2>2. UNCHANGED history
    BY <1>5, <2>1 DEF sqlite3PagerGet, pagerStress, sqlite3PagerWrite, sqlite3PagerCommitPhaseOne
  <2> QED
    BY <1>2, <2>2
<1>6. CASE sqlite3PagerCommitPhaseTwo \/ sqlite3PagerRollback \/ sqlite3PagerClose
  BY <1>2, <1>6 DEF sqlite3PagerCommitPhaseTwo, sqlite3PagerRollback, sqlite3PagerClose
<1>7. CASE \/ \E mode \in Modes : sqlite3PagerSetJournalMode(mode)
           \/ \E l \in Levels : sqlite3PagerSetFlags(l)
  <2>1. outcomes' \subseteq outcomes /\ lost' = lost
    <3>1. outcomes' = outcomes \/ outcomes' = {image \in outcomes : eState = "OPEN" => Holds(db, image)}
      BY <1>7 DEF sqlite3PagerSetJournalMode, sqlite3PagerSetFlags
    <3>2. lost' = lost
      BY <1>7 DEF sqlite3PagerSetJournalMode, sqlite3PagerSetFlags
    <3> QED
      BY <3>1, <3>2
  <2> QED
    BY <1>2, <2>1
<1>8. CASE pagerSyncHotJournal \/ SyncFinalized \/ SyncJournalRecords \/ SyncJournalCount \/ SyncJournalHeader
  <2>1. outcomes' = outcomes /\ lost' \in {lost, {}}
    BY <1>8 DEF pagerSyncHotJournal, SyncFinalized, SyncJournalRecords, SyncJournalCount, SyncJournalHeader, SyncedJournal
  <2> QED
    BY <1>2, <2>1
<1>9. CASE PlaybackHeader \/ PlaybackRecord \/ PlaybackSync \/ TruncateAfterCommit
           \/ StressWrite \/ CommitWriteList \/ CommitSync
  BY <1>2, <1>9 DEF PlaybackHeader, PlaybackRecord, PlaybackSync, TruncateAfterCommit, StressWrite, CommitWriteList, CommitSync
<1>10. CASE FinalizeJournal
  <2>1. ASSUME NEW durable, Decide(durable) PROVE Kept
    <3>1. CASE eState = "WRITER_FINISHED" /\ call.op = "CommitPhaseTwo"
      BY <1>2, <2>1, <3>1 DEF Decide
    <3>2. CASE ~(eState = "WRITER_FINISHED" /\ call.op = "CommitPhaseTwo")
      <4>1. outcomes' \subseteq outcomes /\ lost' = lost
        BY <2>1, <3>2 DEF Decide
      <4> QED
        BY <1>2, <4>1
    <3> QED
      BY <3>1, <3>2
  <2>2. CASE Undecided
    BY <1>2, <2>2 DEF Undecided
  <2>3. Decide(TRUE) \/ Decide(FALSE) \/ Decide(dirSync) \/ Undecided
    BY <1>10 DEF FinalizeJournal
  <2> QED
    BY <2>1, <2>2, <2>3
<1>11. CASE Crash
  BY <1>2, <1>11 DEF Crash
<1>12. CASE sqlite3PagerOpenSavepoint \/ \E i \in 0 .. Len(savepoint) : RollbackSavepoint(i) \/ ReleaseSavepoint(i)
  <2>1. UNCHANGED history
    BY <1>12, RollbackLeaves DEF sqlite3PagerOpenSavepoint, ReleaseSavepoint
  <2> QED
    BY <1>2, <2>1
<1> QED
  BY <1>3, <1>4, <1>5, <1>6, <1>7, <1>8, <1>9, <1>10, <1>11, <1>12 DEF Next, Continue

\* The savepoints and the sub-journal.
LEMMA SavepointsKept ==
    ASSUME Types, NEW c \in BOOLEAN, Preserving(c), Next
    PROVE  TypesOfSavepoints'
<1>0. /\ savepoint \in Seq(Savepoint) /\ Len(savepoint) \in Nat /\ Len(savepoint) <= MaxSavepoint
      /\ subJournal \in Seq(SubRecord) /\ MaxSavepoint \in Nat
      /\ <<>> \in Seq(Savepoint) /\ <<>> \in Seq(SubRecord) /\ Len(<<>>) = 0
  BY PagerAssumption DEF Types, TypesOfSavepoints
<1>1. CASE sqlite3PagerSharedLock \/ pagerUnlockIfUnused
  BY <1>1, SavepointsStay DEF sqlite3PagerSharedLock, BecomeReader, pagerUnlockIfUnused, pager_unlock, UndeletableWhenOpen
<1>2. CASE sqlite3PagerBegin
  BY <1>0, <1>2 DEF sqlite3PagerBegin, TypesOfSavepoints
<1>3. CASE \E p \in Page : sqlite3PagerGet(p) \/ pagerStress(p)
  BY <1>3, SavepointsStay DEF sqlite3PagerGet, pagerStress
<1>4. ASSUME NEW p \in Page, NEW n, NEW next, PagerWrite(p, n, next) PROVE TypesOfSavepoints'
  <2>1. addToSavepointBitvecs(p) \in Seq(Savepoint) /\ Len(addToSavepointBitvecs(p)) = Len(savepoint)
    <3>1. ASSUME NEW s \in Savepoint PROVE [s EXCEPT !.inSavepoint = @ \cup {p}] \in Savepoint
      <4>1. s.inSavepoint \cup {p} \subseteq Page
        BY DEF Savepoint
      <4> QED
        BY <4>1 DEF Savepoint
    <3>2. DOMAIN savepoint = 1 .. Len(savepoint) /\ \A k \in 1 .. Len(savepoint) : savepoint[k] \in Savepoint
      BY <1>0
    <3>3. addToSavepointBitvecs(p) \in [1 .. Len(savepoint) -> Savepoint]
      BY <3>1, <3>2 DEF addToSavepointBitvecs
    <3> QED
      BY <1>0, <3>3
  <2>2. PageContent(p) \in Content
    BY PageContentIs
  <2>3. Append(subJournal, [pg |-> p, val |-> PageContent(p)]) \in Seq(SubRecord)
    <3>1. [pg |-> p, val |-> PageContent(p)] \in SubRecord
      BY <2>2 DEF SubRecord
    <3> HIDE DEF PageContent, SubRecord
    <3> QED
      BY <1>0, <3>1
  <2>4. [cache EXCEPT ![p] = PageContent(p)][p] = PageContent(p)
    BY DEF Types, TypesOfCache
  <2>5. \/ UNCHANGED svpts
        \/ /\ savepoint' \in {savepoint, addToSavepointBitvecs(p), <<>>}
           /\ subJournal' \in {subJournal, Append(subJournal, [pg |-> p, val |-> PageContent(p)]), <<>>}
    <3> HIDE DEF PageContent, addToSavepointBitvecs, subjournals
    <3> QED
      BY <1>4, <2>4 DEF PagerWrite
  <2>6. CASE UNCHANGED svpts
    BY <2>6, SavepointsStay
  <2>7. CASE /\ savepoint' \in {savepoint, addToSavepointBitvecs(p), <<>>}
             /\ subJournal' \in {subJournal, Append(subJournal, [pg |-> p, val |-> PageContent(p)]), <<>>}
    <3> HIDE DEF addToSavepointBitvecs, PageContent
    <3>1. \A s \in {savepoint, addToSavepointBitvecs(p), <<>>} : s \in Seq(Savepoint) /\ Len(s) <= MaxSavepoint
      <4>1. PICK m \in Nat : m = MaxSavepoint /\ Len(savepoint) <= m
        BY <1>0
      <4>2. /\ savepoint \in Seq(Savepoint) /\ Len(savepoint) <= m
            /\ addToSavepointBitvecs(p) \in Seq(Savepoint) /\ Len(addToSavepointBitvecs(p)) <= m
        BY <1>0, <2>1, <4>1
      <4>3. <<>> \in Seq(Savepoint) /\ Len(<<>>) <= m
        BY <4>1
      <4> QED
        BY <4>1, <4>2, <4>3
    <3>2. \A s \in {subJournal, Append(subJournal, [pg |-> p, val |-> PageContent(p)]), <<>>} : s \in Seq(SubRecord)
      BY <1>0, <2>3
    <3>3. savepoint' \in Seq(Savepoint) /\ Len(savepoint') <= MaxSavepoint
      BY <2>7, <3>1
    <3>4. subJournal' \in Seq(SubRecord)
      BY <2>7, <3>2
    <3> QED
      BY <3>3, <3>4 DEF TypesOfSavepoints
  <2> QED
    BY <2>5, <2>6, <2>7
<1>5. CASE \E p \in Page : sqlite3PagerWrite(p)
  BY <1>4, <1>5 DEF sqlite3PagerWrite
<1>6. CASE \E n \in Page : sqlite3PagerCommitPhaseOne(n)
  <2>1. 1 \in Page
    BY PagerAssumption DEF Page
  <2> QED
    BY <1>4, <1>6, <2>1 DEF sqlite3PagerCommitPhaseOne
<1>7. CASE sqlite3PagerCommitPhaseTwo \/ sqlite3PagerRollback
  BY <1>7, SavepointsStay DEF sqlite3PagerCommitPhaseTwo, sqlite3PagerRollback
<1>8. CASE sqlite3PagerClose
  BY <1>8, SavepointsStay, UnlockTypes DEF sqlite3PagerClose
<1>9. CASE \/ \E mode \in Modes : sqlite3PagerSetJournalMode(mode)
           \/ \E l \in Levels : sqlite3PagerSetFlags(l)
  BY <1>9, SavepointsStay DEF sqlite3PagerSetJournalMode, sqlite3PagerSetFlags
<1>10. CASE pagerSyncHotJournal
  BY <1>10, GiveUpTypes, UnlockTypes, SavepointsStay DEF pagerSyncHotJournal
<1>11. CASE PlaybackHeader \/ PlaybackRecord \/ PlaybackSync
  BY <1>11, GiveUpTypes, SavepointsStay DEF PlaybackHeader, PlaybackRecord, PlaybackSync, svpts
<1>12. CASE FinalizeJournal
  BY <1>12, AfterFinalizeTypes, FailTransactionTypes, SavepointsStay
     DEF FinalizeJournal, Types, TypesOfJournal
<1>13. CASE SyncFinalized \/ TruncateAfterCommit
  BY <1>13, AfterFinalizeTypes, FailTransactionTypes, EndTransactionTypes, GiveUpTypes
     DEF SyncFinalized, TruncateAfterCommit, Types, TypesOfJournal
<1>14. CASE SyncJournalRecords \/ SyncJournalCount
  BY <1>14, GiveUpTypes, SavepointsStay DEF SyncJournalRecords, SyncJournalCount
<1>15. CASE SyncJournalHeader
  <2>1. CASE GiveUp
    BY <2>1, GiveUpTypes
  <2>2. CASE ~GiveUp
    <3>1. SegmentEnds \in Seq(Savepoint) /\ Len(SegmentEnds) = Len(savepoint)
      <4>1. ASSUME NEW s \in Savepoint PROVE [s EXCEPT !.iHdrOffset = journalOff] \in Savepoint
        BY DEF Savepoint, Types, TypesOfJournal
      <4>2. DOMAIN savepoint = 1 .. Len(savepoint) /\ \A k \in 1 .. Len(savepoint) : savepoint[k] \in Savepoint
        BY <1>0
      <4>3. SegmentEnds \in [1 .. Len(savepoint) -> Savepoint]
        BY <4>1, <4>2 DEF SegmentEnds
      <4> QED
        BY <1>0, <4>3
    <3>2. savepoint' \in {savepoint, SegmentEnds} /\ subJournal' = subJournal
      BY <1>15, <2>2 DEF SyncJournalHeader
    <3> QED
      BY <1>0, <3>1, <3>2 DEF TypesOfSavepoints
  <2> QED
    BY <2>1, <2>2
<1>16. CASE StressWrite \/ CommitWriteList \/ CommitSync
  BY <1>16, GiveUpTypes, SavepointsStay DEF StressWrite, CommitWriteList, CommitSync
<1>17. CASE Crash
  BY <1>17, SavepointsStay DEF Crash
<1>18. CASE sqlite3PagerOpenSavepoint
  <2> DEFINE s == [nOrig |-> dbSize,
                   iOffset |-> IF jfdOpen /\ journalOff > 0 THEN journalOff ELSE 1,
                   iHdrOffset |-> 0, iSubRec |-> Len(subJournal), inSavepoint |-> {}, image |-> Image]
  <2>1. s \in Savepoint
    <3>1. Image \in Seq(Content) /\ dbSize \in 0 .. MaxPage /\ journalOff \in Nat /\ Len(subJournal) \in Nat
      BY <1>0, ImageIs DEF Images, Types, TypesOfCache, TypesOfJournal
    <3> QED
      BY <3>1 DEF Savepoint
  <2>2. savepoint' = Append(savepoint, s) /\ subJournal' = subJournal /\ Len(savepoint) < MaxSavepoint
    BY <1>18 DEF sqlite3PagerOpenSavepoint
  <2> HIDE DEF s
  <2> QED
    BY <1>0, <2>1, <2>2 DEF TypesOfSavepoints
<1>19. CASE \E i \in 0 .. Len(savepoint) : ReleaseSavepoint(i)
  <2>1. PICK i \in 1 .. Len(savepoint) : ReleaseSavepoint(i)
    BY <1>0, <1>19 DEF ReleaseSavepoint
  <2>2. SubSeq(savepoint, 1, i - 1) \in Seq(Savepoint) /\ Len(SubSeq(savepoint, 1, i - 1)) = i - 1
    BY <1>0, SubSeqProperties
  <2>3. savepoint' = SubSeq(savepoint, 1, i - 1) /\ subJournal' \in {<<>>, subJournal}
    BY <2>1 DEF ReleaseSavepoint
  <2>4. i - 1 <= MaxSavepoint
    BY <1>0
  <2>5. savepoint' \in Seq(Savepoint) /\ Len(savepoint') <= MaxSavepoint
    BY <2>2, <2>3, <2>4
  <2> QED
    BY <1>0, <2>3, <2>5 DEF TypesOfSavepoints
<1>20. CASE \E i \in 0 .. Len(savepoint) : RollbackSavepoint(i)
  <2>1. PICK i \in 0 .. Len(savepoint) : RollbackSavepoint(i)
    BY <1>20
  <2>2. PICK records \in SUBSET ReplayRecord, torn \in SUBSET Page :
           OneEach(records) /\ Played(records, Staying(i), torn)
    BY <2>1, RollbackIs
  <2>3. savepoint' \in Seq(Savepoint) /\ Len(savepoint') = Len(Staying(i)) /\ Len(Staying(i)) <= Len(savepoint)
    BY <2>1, <2>2, RollbackIs, PlayedIs
  <2>4. subJournal' = subJournal
    BY <2>1, RollbackLeaves
  <2> QED
    BY <1>0, <2>3, <2>4 DEF TypesOfSavepoints
<1> QED
  BY <1>1, <1>2, <1>3, <1>5, <1>6, <1>7, <1>8, <1>9, <1>10, <1>11, <1>12, <1>13, <1>14, <1>15, <1>16,
     <1>17, <1>18, <1>19, <1>20 DEF Next, Continue

\* Every step keeps the types.
LEMMA TypesKept ==
    ASSUME Types, NEW c \in BOOLEAN, Preserving(c), Next
    PROVE  Types'
BY CallsKept, SavepointsKept, BoundsKept, CacheKept, JournalKept, DatabaseKept, JournalFileKept, HistoryKept DEF Types, TypesOfFiles

-----------------------------------------------------------------------------
(* The steps that leave the journal or the transaction.                    *)

\* Where a step leaves the call.
LEMMA CallIsAt ==
    ASSUME Types
    PROVE  /\ \A at : Goto(at) => call'.at = at /\ call'.op = call.op /\ call'.pg = call.pg
           /\ \A op, pg, at : Calling(op, pg, at) => call'.at = at /\ call'.op = op /\ call'.pg = pg
           /\ \A at : [Idle EXCEPT !.at = at].at = at /\ [Idle EXCEPT !.at = at].op = "none"
           /\ Idle.at = "idle" /\ Idle.op = "none"
BY DEF Types, TypesOfCalls, Goto, Calling, Idle

\* Nothing is logged and no savepoint can be rolled back to.
Left == ~Logging /\ ~Saving

LEMMA LeftIsPreserving ==
    ASSUME NEW c, Control', Left'
    PROVE  Preserving(c)'
BY DEF Preserving, Left

LEMMA UnlockLeaves ==
    ASSUME Types, Control, NEW error \in BOOLEAN, pager_unlock(error), error \/ eState = "READER"
    PROVE  Control' /\ Left'
<1>1. call'.at = "idle" /\ call'.op = "none" /\ eState' = "OPEN"
  BY CallIsAt DEF pager_unlock, UndeletableWhenOpen
<1>2. Left'
  BY <1>1 DEF Left, Logging, Saving, Changing, Modified
<1>3. dirty' = {} /\ Quiet' /\ ~jfdOpen'
  BY DEF Control, Quiet, pager_unlock, UndeletableWhenOpen, releaseAllSavepoints
<1> QED
  BY <1>1, <1>2, <1>3 DEF Control, Logging, Modified, Changing, Returned, Syncing

LEMMA GiveUpLeaves ==
    ASSUME Types, Control, GiveUp
    PROVE  Control' /\ Left'
<1>1. CASE call.op = "CommitPhaseOne"
  <2>1. call'.at = "failed" /\ call'.op = "none" /\ eState' = eState /\ eState \in Modified
    BY ZenonT(40), <1>1, CallIsAt DEF GiveUp, Control
  <2>2. Left'
    BY <2>1 DEF Left, Logging, Saving, Returned, Syncing
  <2> QED
    BY <2>1, <2>2 DEF Control, Left, Modified, Changing, Returned, Syncing
<1>2. CASE call.op \in {"SharedLock", "Close"}
  BY <1>2, UnlockLeaves DEF GiveUp
<1>3. CASE call.op \in {"CommitPhaseTwo", "Rollback", "Stress"}
  <2>1. call'.at = "idle" /\ call'.op = "none" /\ eState' = "ERROR"
    BY <1>3, CallIsAt DEF GiveUp
  <2>2. Left'
    BY <2>1 DEF Left, Logging, Saving, Changing, Modified
  <2> QED
    BY <2>1, <2>2 DEF Control, Left, Modified, Changing, Returned, Syncing
<1> QED
  BY <1>1, <1>2, <1>3 DEF GiveUp

LEMMA EndTransactionLeaves ==
    ASSUME Types, Control, NEW open, NEW off, EndTransaction(open, off)
    PROVE  Control' /\ Left'
<1>1. CASE pager_unlock(TRUE)
  BY <1>1, UnlockLeaves
<1>2. CASE ~pager_unlock(TRUE)
  <2>1. call'.at = "idle" /\ call'.op = "none" /\ eState' = "READER"
    BY <1>2, CallIsAt DEF EndTransaction
  <2>2. Left'
    BY <2>1 DEF Left, Logging, Saving, Changing, Modified
  <2>3. Quiet' /\ dirty' = {}
    BY <1>2 DEF EndTransaction, Quiet, releaseAllSavepoints
  <2> QED
    BY <2>1, <2>2, <2>3 DEF Control, Left, Modified, Changing, Returned, Syncing
<1> QED
  BY <1>1, <1>2

LEMMA FailTransactionLeaves ==
    ASSUME Types, Control, NEW open, NEW off, FailTransaction(open, off)
    PROVE  Control' /\ Left'
<1>1. CASE pager_unlock(TRUE)
  BY <1>1, UnlockLeaves
<1>2. CASE ~pager_unlock(TRUE)
  <2>1. call'.at = "idle" /\ call'.op = "none" /\ eState' = "ERROR"
    BY <1>2, CallIsAt DEF FailTransaction
  <2>2. Left'
    BY <2>1 DEF Left, Logging, Saving, Changing, Modified
  <2> QED
    BY <2>1, <2>2 DEF Control, Left, Modified, Changing, Returned, Syncing
<1> QED
  BY <1>1, <1>2

\* A step of a call that does not end it.
LEMMA GoesOnLeaves ==
    ASSUME Types, Control, NEW at, Goto(at), call.op \notin {"none", "Stress"},
           at \notin Returned \cup Syncing \cup {"failed", "writeList"},
           at = "playRec" => left' > 0,
           at = "finalSync" => jfdOpen',
           eState' = eState, UNCHANGED <<savepoint, subJournal>>,
           inJournal' \subseteq inJournal, needSync' \subseteq needSync, dirty' \subseteq dirty
    PROVE  Control' /\ Left'
<1>1. call'.at = at /\ call'.op = call.op
  BY CallIsAt
<1>2. Left'
  BY <1>1 DEF Left, Logging, Saving
<1>3. Quiet => Quiet'
  BY DEF Quiet
<1>4. dirty = {} => dirty' = {}
  OBVIOUS
<1> QED
  BY <1>1, <1>2, <1>3, <1>4 DEF Control, Left, Modified, Changing, Returned, Syncing

LEMMA AfterFinalizeLeaves ==
    ASSUME Types, Control, NEW open, NEW off, AfterFinalize(open, off)
    PROVE  Control' /\ Left'
<1>1. CASE EndTransaction(open, off)
  BY <1>1, EndTransactionLeaves
<1>2. CASE ~EndTransaction(open, off)
  <2>1. /\ call.op = "CommitPhaseTwo" /\ Goto("finalTruncate") /\ eState' = eState
        /\ UNCHANGED <<savepoint, subJournal>> /\ inJournal' = {} /\ needSync' = {} /\ dirty' = {}
    BY <1>2 DEF AfterFinalize, svpts
  <2> QED
    BY <2>1, GoesOnLeaves DEF Returned, Syncing
<1> QED
  BY <1>1, <1>2

\* The steps of a recovery, of a rollback and of the end of a transaction.
LEMMA EndingLeaves ==
    ASSUME Types, Control,
           \/ pagerSyncHotJournal \/ PlaybackHeader \/ PlaybackRecord \/ PlaybackSync
           \/ FinalizeJournal \/ SyncFinalized \/ TruncateAfterCommit
    PROVE  Control' /\ Left'
<1>0. call.at \in {"syncHot", "readHdr", "playRec", "playSync", "finalize", "finalSync", "finalTruncate"}
      /\ call.op \notin {"none", "Stress"}
  BY DEF Control, Returned, Syncing, pagerSyncHotJournal, PlaybackHeader, PlaybackRecord, PlaybackSync,
         FinalizeJournal, SyncFinalized, TruncateAfterCommit
<1>1. CASE pagerSyncHotJournal
  <2>1. CASE GiveUp
    BY <2>1, GiveUpLeaves
  <2>2. CASE pager_unlock(TRUE)
    BY <2>2, UnlockLeaves
  <2>3. CASE ~GiveUp /\ ~pager_unlock(TRUE)
    <3>1. /\ Goto("finalize") \/ Goto("readHdr")
          /\ UNCHANGED <<eState, sizes, pcache, inJournal, jfdOpen, nRec, cksumInit, left, svpts>>
      BY <1>1, <2>3 DEF pagerSyncHotJournal
    <3>2. UNCHANGED <<eState, savepoint, subJournal, inJournal, needSync, dirty>>
      BY <3>1 DEF pcache, svpts
    <3> QED
      BY <1>0, <3>1, <3>2, GoesOnLeaves DEF Returned, Syncing
  <2> QED
    BY <2>1, <2>2, <2>3
<1>2. CASE PlaybackHeader
  <2>1. CASE GiveUp
    BY <2>1, GiveUpLeaves
  <2>2. CASE ~GiveUp
    <3>1. /\ \/ Goto("playSync")
             \/ Goto(IF left' = 0 THEN "readHdr" ELSE "playRec") /\ left' = SegmentLength(journalOff + 1)
          /\ UNCHANGED <<eState, savepoint, subJournal, inJournal, needSync, dirty>>
      BY <1>2, <2>2 DEF PlaybackHeader, pcache, svpts, jstate
    <3>2. CASE Goto("playSync")
      BY <1>0, <3>1, <3>2, GoesOnLeaves DEF Returned, Syncing
    <3>3. CASE ~Goto("playSync")
      <4>1. left' \in Nat
        <5>1. ~NoHeader(journalOff + 1) /\ journalOff \in Nat
          BY <1>2, <2>2, <3>3 DEF PlaybackHeader, Types, TypesOfJournal
        <5>2. journalOff + 1 <= Len(jrnl) /\ jrnl[journalOff + 1].kind = "hdr"
          BY <5>1, JournalSlotIs DEF NoHeader
        <5>3. jrnl[journalOff + 1].nRec \in Nat /\ Len(jrnl) \in Nat
          BY <5>1, <5>2, JournalSlotIs, FilesAre DEF Journals
        <5> QED
          BY <3>1, <3>3, <5>1, <5>2, <5>3 DEF SegmentLength
      <4>2. CASE left' = 0
        BY <1>0, <3>1, <3>3, <4>2, GoesOnLeaves DEF Returned, Syncing
      <4>3. CASE left' > 0
        BY <1>0, <3>1, <3>3, <4>3, GoesOnLeaves DEF Returned, Syncing
      <4> QED
        BY <4>1, <4>2, <4>3
    <3> QED
      BY <3>2, <3>3
  <2> QED
    BY <2>1, <2>2
<1>3. CASE PlaybackRecord
  <2>1. CASE GiveUp
    BY <2>1, GiveUpLeaves
  <2>2. CASE ~GiveUp
    <3>1. UNCHANGED <<eState, savepoint, subJournal, inJournal, needSync, dirty>>
      BY <1>3, <2>2 DEF PlaybackRecord, pcache, svpts, jstate
    <3>2. \/ Goto("playSync")
          \/ Goto("readHdr")
          \/ Goto("playRec") /\ left' = left - 1 /\ left # 1
      BY <1>3, <2>2 DEF PlaybackRecord
    <3>3. left > 0 /\ left \in Nat
      BY <1>3 DEF PlaybackRecord, Control, Types, TypesOfJournal
    <3>4. CASE Goto("playRec") /\ left' = left - 1 /\ left # 1
      <4>1. left' > 0
        BY <3>3, <3>4
      <4> QED
        BY <1>0, <3>1, <3>4, <4>1, GoesOnLeaves DEF Returned, Syncing
    <3>5. CASE Goto("playSync") \/ Goto("readHdr")
      BY <1>0, <3>1, <3>5, GoesOnLeaves DEF Returned, Syncing
    <3> QED
      BY <3>2, <3>4, <3>5
  <2> QED
    BY <2>1, <2>2
<1>4. CASE PlaybackSync
  <2>1. CASE GiveUp
    BY <2>1, GiveUpLeaves
  <2>2. CASE ~GiveUp
    <3>1. Goto("finalize") /\ UNCHANGED <<eState, savepoint, subJournal, inJournal, needSync, dirty>>
      BY <1>4, <2>2 DEF PlaybackSync, pcache, svpts, jstate
    <3> QED
      BY <1>0, <3>1, GoesOnLeaves DEF Returned, Syncing
  <2> QED
    BY <2>1, <2>2
<1>5. CASE FinalizeJournal
  <2>1. \/ \E open, off : AfterFinalize(open, off) \/ FailTransaction(open, off)
        \/ /\ Goto("finalSync") /\ HasJournal
           /\ UNCHANGED <<eState, sizes, pcache, jstate, left, svpts>>
    BY <1>5 DEF FinalizeJournal
  <2>2. CASE Goto("finalSync") /\ HasJournal /\ UNCHANGED <<eState, sizes, pcache, jstate, left, svpts>>
    <3>1. jfdOpen' /\ UNCHANGED <<eState, savepoint, subJournal, inJournal, needSync, dirty>>
      BY <2>2 DEF HasJournal, pcache, jstate, svpts
    <3> QED
      BY <1>0, <2>2, <3>1, GoesOnLeaves DEF Returned, Syncing
  <2> QED
    BY <2>1, <2>2, AfterFinalizeLeaves, FailTransactionLeaves
<1>6. CASE SyncFinalized
  <2>1. \E open, off : AfterFinalize(open, off) \/ FailTransaction(open, off)
    BY <1>6 DEF SyncFinalized
  <2> QED
    BY <2>1, AfterFinalizeLeaves, FailTransactionLeaves
<1>7. CASE TruncateAfterCommit
  <2>1. GiveUp \/ \E open, off : EndTransaction(open, off)
    BY <1>7 DEF TruncateAfterCommit
  <2> QED
    BY <2>1, GiveUpLeaves, EndTransactionLeaves
<1> QED
  BY <1>1, <1>2, <1>3, <1>4, <1>5, <1>6, <1>7

\* A call that begins, and whose first step has not been made.
LEMMA CallBegins ==
    ASSUME Types, Control, AtRest \/ call.at \in {"failed", "failedWrite"}, NEW op, NEW at, Calling(op, 0, at),
           op \notin {"none", "Stress", "CommitPhaseOne"}, at \in {"syncHot", "readHdr", "finalize"},
           eState' = eState, inJournal' = inJournal, needSync' \subseteq needSync, dirty' \subseteq dirty,
           UNCHANGED <<savepoint, subJournal>> \/ releaseAllSavepoints
    PROVE  Control' /\ Left'
<1>1. call'.at = at /\ call'.op = op
  BY CallIsAt
<1>2. Left'
  BY <1>1 DEF Left, Logging, Saving, Returned, Syncing
<1>3. Quiet => Quiet'
  BY DEF Quiet, releaseAllSavepoints
<1>4. dirty = {} => dirty' = {}
  OBVIOUS
<1> QED
  BY <1>1, <1>2, <1>3, <1>4 DEF Control, Left, Modified, Changing, Returned, Syncing

\* The calls outside of a transaction, and those that end one.
LEMMA CallsLeave ==
    ASSUME Types, Control,
           \/ sqlite3PagerSharedLock \/ pagerUnlockIfUnused \/ sqlite3PagerCommitPhaseTwo \/ sqlite3PagerRollback
           \/ sqlite3PagerClose \/ (\E l \in Levels : sqlite3PagerSetFlags(l)) \/ Crash
    PROVE  Control' /\ Left'
<1>1. CASE sqlite3PagerSharedLock
  <2>1. CASE BecomeReader /\ UNCHANGED call
    <3>1. call.at = "idle" /\ call.op = "none" /\ eState = "OPEN"
      BY <1>1 DEF sqlite3PagerSharedLock, AtRest, Control, Changing, Returned
    <3>2. call'.at = "idle" /\ call'.op = "none" /\ eState' = "READER"
      BY <2>1, <3>1 DEF BecomeReader
    <3>3. UNCHANGED <<savepoint, subJournal, inJournal, needSync, dirty>>
      BY <2>1 DEF BecomeReader, pcache, jstate, svpts
    <3>4. Quiet' /\ dirty' = {}
      BY <3>1, <3>3 DEF Control, Quiet
    <3> QED
      BY <3>2, <3>4 DEF Control, Left, Logging, Saving, Changing, Modified, Returned, Syncing
  <2>2. CASE ~(BecomeReader /\ UNCHANGED call)
    <3>1. AtRest /\ Calling("SharedLock", 0, "syncHot")
          /\ UNCHANGED <<eState, savepoint, subJournal, inJournal, needSync, dirty>>
      BY <1>1, <2>2 DEF sqlite3PagerSharedLock, pcache, svpts
    <3> QED
      BY <3>1, CallBegins
  <2> QED
    BY <2>1, <2>2
<1>2. CASE pagerUnlockIfUnused
  BY <1>2, UnlockLeaves DEF pagerUnlockIfUnused
<1>3. CASE sqlite3PagerCommitPhaseTwo
  <2>1. AtRest /\ Calling("CommitPhaseTwo", 0, "finalize")
        /\ UNCHANGED <<eState, savepoint, subJournal, inJournal, needSync, dirty>>
    BY <1>3 DEF sqlite3PagerCommitPhaseTwo, pcache, jstate, svpts
  <2> QED
    BY <2>1, CallBegins
<1>4. CASE sqlite3PagerRollback
  <2>1. /\ AtRest \/ call.at \in {"failed", "failedWrite"}
        /\ Calling("Rollback", 0, "finalize") \/ Calling("Rollback", 0, "readHdr")
        /\ releaseAllSavepoints /\ UNCHANGED <<eState, inJournal, needSync, dirty>>
    BY <1>4 DEF sqlite3PagerRollback, pcache
  <2> QED
    BY <2>1, CallBegins
<1>5. CASE sqlite3PagerClose
  <2>1. CASE pager_unlock(TRUE)
    BY <2>1, UnlockLeaves
  <2>2. CASE ~pager_unlock(TRUE)
    <3>1. /\ AtRest \/ call.at \in {"failed", "failedWrite"}
          /\ Calling("Close", 0, "syncHot") /\ dirty' = {} /\ needSync' = {}
          /\ releaseAllSavepoints /\ UNCHANGED <<eState, inJournal>>
      BY <1>5, <2>2 DEF sqlite3PagerClose, jstate
    <3> QED
      BY <3>1, CallBegins
  <2> QED
    BY <2>1, <2>2
<1>6. CASE \E l \in Levels : sqlite3PagerSetFlags(l)
  <2>1. /\ AtRest /\ eState \in {"OPEN", "READER"}
        /\ UNCHANGED <<eState, call, savepoint, subJournal, inJournal, jfdOpen, needSync, dirty>>
    BY <1>6 DEF sqlite3PagerSetFlags, pcache, jstate, svpts
  <2>2. call.at = "idle" /\ call.op = "none" /\ Quiet' /\ dirty' = {}
    BY <2>1 DEF AtRest, Control, Changing, Returned, Quiet
  <2> QED
    BY <2>1, <2>2 DEF Control, Left, Logging, Saving, Changing, Modified, Returned, Syncing
<1>7. CASE Crash
  <2>1. eState' = "OPEN" /\ call' = Idle /\ ~jfdOpen' /\ Quiet' /\ dirty' = {}
    BY <1>7 DEF Crash, Quiet, releaseAllSavepoints
  <2> QED
    BY <2>1, CallIsAt DEF Control, Left, Logging, Saving, Changing, Modified, Returned, Syncing
<1> QED
  BY <1>1, <1>2, <1>3, <1>4, <1>5, <1>6, <1>7

-----------------------------------------------------------------------------
(* The steps that keep a transaction and its savepoints.                   *)

\* The transaction found B.
Finds(c, B) == c => \E image \in outcomes : Holds(B, image)

\* In WRITER_LOCKED the contents are all there is.
LEMMA NothingLoggedIs ==
    ASSUME NEW f, NEW e \in Nat, e <= 1, NEW m \in Nat, NEW I, NEW d, \A p \in 1 .. Len(I) : d[p] = I[p]
    PROVE  Preserved(f, e, <<>>, 1, m, {}, I, d)
<1>1. ASSUME NEW p PROVE LogsNot(f, e, <<>>, 1, m, p)
  BY DEF LogsNot, Recorded
<1> QED
  BY <1>1 DEF Preserved

LEMMA ContentsAre ==
    ASSUME Types
    PROVE  /\ \A p \in Page : Contents[p] = PageContent(p)
           /\ dbSize \in Nat /\ dbOrigSize \in Nat /\ 1 .. dbSize \subseteq Page
           /\ Len(Image) = dbSize /\ Image \in Images
           /\ \A p \in 1 .. dbSize : Image[p] = Contents[p]
<1>1. \A p \in Page : Contents[p] = PageContent(p)
  BY DEF Contents
<1>2. dbSize \in Nat /\ dbOrigSize \in Nat /\ 1 .. dbSize \subseteq Page
  BY PagerAssumption DEF Types, TypesOfCache, Page
<1>3. \A p \in 1 .. dbSize : Image[p] = PageContent(p)
  BY DEF Image
<1> QED
  BY <1>1, <1>2, <1>3, ImageIs

LEMMA ImageSame ==
    ASSUME Types, dbSize' = dbSize, \A p \in 1 .. dbSize : Contents'[p] = Contents[p]
    PROVE  Image' = Image
<1>1. \A p \in Page : Contents'[p] = PageContent(p)'
  BY DEF Contents
<1>2. \A p \in Page : Contents[p] = PageContent(p)
  BY DEF Contents
<1>3. ASSUME NEW p \in 1 .. dbSize PROVE PageContent(p)' = PageContent(p)
  BY <1>1, <1>2, ContentsAre
<1>4. Image' = [p \in 1 .. dbSize |-> PageContent(p)']
  BY DEF Image
<1> HIDE DEF PageContent
<1> QED
  BY <1>3, <1>4 DEF Image

\* The sizes and the places of the savepoints.
LEMMA NestedIs ==
    ASSUME Types, Nested(savepoint, dbOrigSize, dbSize, Len(subJournal))
    PROVE  /\ Len(savepoint) \in Nat /\ Len(subJournal) \in Nat /\ subJournal \in Seq(SubRecord)
           /\ \A k \in 1 .. Len(savepoint) :
                 /\ savepoint[k] \in Savepoint
                 /\ savepoint[k].nOrig \in Nat /\ savepoint[k].iOffset \in Nat /\ savepoint[k].iSubRec \in Nat
                 /\ savepoint[k].iHdrOffset \in Nat
                 /\ Len(savepoint[k].image) = savepoint[k].nOrig
                 /\ savepoint[k].nOrig <= dbSize /\ dbOrigSize <= savepoint[k].nOrig
                 /\ savepoint[k].iSubRec <= Len(subJournal) /\ 1 <= savepoint[k].iOffset
<1>1. savepoint \in Seq(Savepoint) /\ subJournal \in Seq(SubRecord) /\ Len(savepoint) \in Nat /\ Len(subJournal) \in Nat
  BY DEF Types, TypesOfSavepoints
<1>2. ASSUME NEW k \in 1 .. Len(savepoint)
      PROVE /\ savepoint[k] \in Savepoint /\ savepoint[k].nOrig \in Nat /\ savepoint[k].iOffset \in Nat
            /\ savepoint[k].iSubRec \in Nat /\ savepoint[k].iHdrOffset \in Nat
  <2>1. savepoint[k] \in Savepoint
    BY <1>1
  <2> QED
    BY SMTT(40), <2>1, PagerAssumption DEF Savepoint
<1> QED
  BY <1>1, <1>2 DEF Nested

\* Before the first change: the pages that the savepoints need keep their contents.
LEMMA LockedKeeping ==
    ASSUME Types, NEW B \in Images, Keeping(B),
           eState = "WRITER_LOCKED", eState' = "WRITER_LOCKED",
           UNCHANGED <<savepoint, subJournal, inJournal, needSync, dbOrigSize, dbSize>>,
           journalOff' \in Nat, journalOff' <= 1,
           \A p \in 1 .. dbSize : Contents'[p] = Contents[p],
           call'.at = "restored" => call.at = "restored"
    PROVE  Keeping(B)'
<1>1. /\ Len(B) = dbOrigSize /\ Nested(savepoint, dbOrigSize, dbSize, Len(subJournal)) /\ NothingLogged
      /\ Preserved(jrnl, journalOff, <<>>, 1, 0, inJournal, B, Contents)
      /\ \A k \in 1 .. Len(savepoint) :
            Preserved(jrnl, journalOff, subJournal, savepoint[k].iOffset, savepoint[k].iSubRec,
                      savepoint[k].inSavepoint, savepoint[k].image, Contents)
      /\ call.at = "restored" =>
            IF savepoint = <<>> THEN Image = B ELSE Image = savepoint[Len(savepoint)].image
  BY DEF Keeping
<1>2. /\ journalOff \in Nat /\ journalOff <= 1 /\ inJournal = {} /\ needSync = {} /\ subJournal = <<>>
      /\ \A k \in 1 .. Len(savepoint) :
            savepoint[k].iOffset = 1 /\ savepoint[k].iHdrOffset = 0 /\ savepoint[k].inSavepoint = {}
      /\ dbOrigSize <= dbSize /\ dbSize \in Nat /\ dbOrigSize \in Nat
  BY <1>1, FilesAre, ContentsAre DEF NothingLogged, Nested
<1>3. NothingLogged'
  BY <1>2 DEF NothingLogged
<1>4. Nested(savepoint, dbOrigSize, dbSize, Len(subJournal))'
  BY <1>1
<1>5. Preserved(jrnl, journalOff, <<>>, 1, 0, inJournal, B, Contents)'
  <2>1. \A p \in 1 .. Len(B) : Contents[p] = B[p]
    BY <1>1, <1>2 DEF Preserved
  <2>2. \A p \in 1 .. Len(B) : Contents'[p] = B[p]
    BY <1>1, <1>2, <2>1
  <2>3. Preserved(jrnl', journalOff', <<>>, 1, 0, {}, B, Contents')
    BY <2>2, NothingLoggedIs
  <2> QED
    BY <1>2, <2>3
<1>6. ASSUME NEW k \in 1 .. Len(savepoint)'
      PROVE  Preserved(jrnl, journalOff, subJournal, savepoint[k].iOffset, savepoint[k].iSubRec,
                       savepoint[k].inSavepoint, savepoint[k].image, Contents)'
  <2>1. k \in 1 .. Len(savepoint)
    OBVIOUS
  <2>2. /\ savepoint[k].iOffset = 1 /\ savepoint[k].inSavepoint = {} /\ savepoint[k].iSubRec \in Nat
        /\ Len(savepoint[k].image) <= dbSize /\ Len(savepoint[k].image) \in Nat
    BY <1>1, <1>2, <2>1, NestedIs
  <2> DEFINE I == savepoint[k].image
             m == savepoint[k].iSubRec
  <2>3. Preserved(jrnl, journalOff, <<>>, 1, m, {}, I, Contents)
    BY <1>1, <1>2, <2>1, <2>2
  <2> HIDE DEF I, m
  <2>4. \A p \in 1 .. Len(I) : Contents[p] = I[p]
    BY <2>3 DEF Preserved
  <2>5. \A p \in 1 .. Len(I) : Contents'[p] = I[p]
    BY <1>2, <2>2, <2>4 DEF I
  <2>6. Preserved(jrnl', journalOff', <<>>, 1, m, {}, I, Contents')
    BY <2>2, <2>5, NothingLoggedIs DEF m
  <2>7. savepoint' = savepoint /\ subJournal' = <<>>
    BY <1>2
  <2> QED
    BY <2>2, <2>6, <2>7 DEF I, m
<1>7. Image' = Image
  BY ImageSame
<1>8. (call.at = "restored" => IF savepoint = <<>> THEN Image = B ELSE Image = savepoint[Len(savepoint)].image)'
  BY <1>1, <1>7
<1>9. (Len(B) = dbOrigSize)'
  BY <1>1
<1> QED
  BY <1>3, <1>4, <1>5, <1>6, <1>8, <1>9 DEF Keeping

\* The journal f, up to e and with the last header at h, and the sub-journal have
\* what the transaction and its savepoints need.
Ready(f, e, h, B) ==
    /\ LaidOut(f, e, h)
    /\ Len(B) = dbOrigSize
    /\ Nested(savepoint, dbOrigSize, dbSize, Len(subJournal))
    /\ \A i \in h + 2 .. e : f[i].pg \in needSync
    /\ \A i \in 1 .. e : f[i].kind = "rec" => f[i].pg \in inJournal
    /\ Distinct(f, e)
    /\ \A j \in 1 .. Len(subJournal) : subJournal[j].pg \in inJournal \/ subJournal[j].pg > dbOrigSize
    /\ \A k \in 1 .. Len(savepoint) : Points(f, e, h, savepoint[k])
    /\ Preserved(f, e, <<>>, 1, 0, inJournal, B, Contents)
    /\ \A k \in 1 .. Len(savepoint) :
          Preserved(f, e, subJournal, savepoint[k].iOffset, savepoint[k].iSubRec,
                    savepoint[k].inSavepoint, savepoint[k].image, Contents)

LEMMA KeepingIsReady ==
    ASSUME NEW B, Keeping(B), eState \in Modified, LaidOut(jrnl, journalOff, journalHdr)
    PROVE  Ready(jrnl, journalOff, journalHdr, B)
BY DEF Keeping, Modified, PagesLogged, Ready

LEMMA OpeningIsReady ==
    ASSUME Types, NEW B \in Images, Keeping(B), eState = "WRITER_LOCKED",
           NEW f, 1 <= Len(f), f[1].kind = "hdr"
    PROVE  Ready(f, 1, 0, B)
<1>1. /\ Len(B) = dbOrigSize /\ Nested(savepoint, dbOrigSize, dbSize, Len(subJournal)) /\ NothingLogged
      /\ Preserved(jrnl, journalOff, <<>>, 1, 0, inJournal, B, Contents)
      /\ \A k \in 1 .. Len(savepoint) :
            Preserved(jrnl, journalOff, subJournal, savepoint[k].iOffset, savepoint[k].iSubRec,
                      savepoint[k].inSavepoint, savepoint[k].image, Contents)
  BY DEF Keeping
<1>2. /\ journalOff \in Nat /\ journalOff <= 1 /\ inJournal = {} /\ subJournal = <<>> /\ Len(subJournal) = 0
      /\ \A k \in 1 .. Len(savepoint) :
            savepoint[k].iOffset = 1 /\ savepoint[k].iHdrOffset = 0 /\ savepoint[k].inSavepoint = {}
  BY <1>1, FilesAre DEF NothingLogged
<1>3. LaidOut(f, 1, 0)
  BY DEF LaidOut
<1>4. /\ \A i \in 0 + 2 .. 1 : f[i].pg \in needSync
      /\ \A i \in 1 .. 1 : f[i].kind = "rec" => f[i].pg \in inJournal
      /\ Distinct(f, 1)
  BY DEF Distinct
<1>5. \A k \in 1 .. Len(savepoint) : Points(f, 1, 0, savepoint[k])
  BY <1>2 DEF Points
<1>6. Preserved(f, 1, <<>>, 1, 0, inJournal, B, Contents)
  <2>1. \A p \in 1 .. Len(B) : Contents[p] = B[p]
    BY <1>1, <1>2 DEF Preserved
  <2>2. Preserved(f, 1, <<>>, 1, 0, {}, B, Contents)
    BY <2>1, NothingLoggedIs
  <2> QED
    BY <1>2, <2>2
<1>7. ASSUME NEW k \in 1 .. Len(savepoint)
      PROVE  Preserved(f, 1, subJournal, savepoint[k].iOffset, savepoint[k].iSubRec,
                       savepoint[k].inSavepoint, savepoint[k].image, Contents)
  <2> DEFINE I == savepoint[k].image
             m == savepoint[k].iSubRec
  <2>1. savepoint[k].iOffset = 1 /\ savepoint[k].inSavepoint = {} /\ m \in Nat
    BY <1>1, <1>2, NestedIs
  <2>2. Preserved(jrnl, journalOff, <<>>, 1, m, {}, I, Contents)
    BY <1>1, <1>2, <2>1
  <2> HIDE DEF I, m
  <2>3. \A p \in 1 .. Len(I) : Contents[p] = I[p]
    BY <2>2 DEF Preserved
  <2>4. Preserved(f, 1, <<>>, 1, m, {}, I, Contents)
    BY <2>1, <2>3, NothingLoggedIs
  <2> QED
    BY <1>2, <2>1, <2>4 DEF I, m
<1> QED
  BY <1>1, <1>2, <1>3, <1>4, <1>5, <1>6, <1>7 DEF Ready

\* The layout depends on the slots up to e, and in the last header on its kind.
LEMMA LaidOutAgain ==
    ASSUME NEW f \in Journals, NEW e \in Nat, NEW h \in Nat, LaidOut(f, e, h), NEW g, e <= Len(g),
           \A i \in 1 .. e : i # h + 1 => g[i] = f[i],
           g[h + 1].kind = "hdr"
    PROVE  LaidOut(g, e, h)
<1>1. /\ h < e /\ e <= Len(f)
      /\ f[1].kind = "hdr" /\ f[h + 1].kind = "hdr"
      /\ \A i \in h + 2 .. e : f[i].kind = "rec"
      /\ \A i \in 1 .. h : f[i].kind = "rec" \/ (f[i].kind = "hdr" /\ FullSegment(f, h, i))
  BY DEF LaidOut
<1>2. g[1].kind = "hdr"
  <2>1. 1 \in 1 .. e
    BY <1>1
  <2> QED
    BY <1>1, <2>1
<1>3. \A i \in h + 2 .. e : g[i].kind = "rec"
  BY <1>1
<1>4. ASSUME NEW i \in 1 .. h PROVE g[i].kind = "rec" \/ (g[i].kind = "hdr" /\ FullSegment(g, h, i))
  <2>1. g[i] = f[i]
    BY <1>1
  <2>2. CASE f[i].kind = "rec"
    BY <2>1, <2>2
  <2>3. CASE f[i].kind = "hdr" /\ FullSegment(f, h, i)
    <3> DEFINE n == f[i].nRec
    <3>1. n \in Nat
      <4>1. i \in 1 .. Len(f) /\ Len(f) \in Nat
        BY <1>1 DEF Journals
      <4>2. f[i] \in Slots
        BY <4>1 DEF Journals
      <4> QED
        BY <2>3, <4>2, SlotIs
    <3>2. /\ f[i].magic /\ i + n <= h /\ (\A k \in i + 1 .. i + n : f[k].kind = "rec")
          /\ f[i + n + 1].kind = "hdr"
      BY <2>3 DEF FullSegment
    <3>3. g[i].nRec = n /\ g[i].magic /\ g[i].kind = "hdr"
      BY <2>1, <2>3, <3>2
    <3> HIDE DEF n
    <3>4. \A k \in i + 1 .. i + n : g[k].kind = "rec"
      BY <1>1, <3>1, <3>2
    <3>5. g[i + n + 1].kind = "hdr"
      <4>1. i + n + 1 \in 1 .. e
        BY <1>1, <3>1, <3>2
      <4>2. i + n + 1 # h + 1 => g[i + n + 1] = f[i + n + 1]
        BY <4>1
      <4> QED
        BY <3>2, <4>2
    <3> QED
      BY <3>2, <3>3, <3>4, <3>5 DEF FullSegment
  <2> QED
    BY <1>1, <2>2, <2>3
<1> QED
  BY <1>1, <1>2, <1>3, <1>4 DEF LaidOut

\* Where a savepoint begins in a journal with the same slots.
LEMMA PointsAgain ==
    ASSUME NEW f, NEW e \in Nat, NEW h \in Nat, h < e, NEW s, Points(f, e, h, s),
           s.iOffset \in Nat \ {0}, s.iHdrOffset \in Nat,
           NEW g, \A i \in 1 .. e : g[i].kind = f[i].kind, NEW e2 \in Nat, e <= e2,
           NEW s2, s2.iOffset = s.iOffset, s2.iHdrOffset = s.iHdrOffset
    PROVE  Points(g, e2, h, s2)
<1> DEFINE o == s.iOffset
           d == s.iHdrOffset
<1>1. CASE d = 0
  BY <1>1 DEF Points
<1>2. CASE d # 0
  <2>1. o <= d /\ d <= h /\ f[d + 1].kind = "hdr" /\ \A i \in o + 1 .. d : f[i].kind = "rec"
    BY <1>2 DEF Points
  <2>2. o \in Nat \ {0} /\ d \in Nat
    OBVIOUS
  <2> HIDE DEF o, d
  <2>3. d + 1 \in 1 .. e /\ \A i \in o + 1 .. d : i \in 1 .. e
    BY <2>1, <2>2
  <2>4. g[d + 1].kind = "hdr" /\ \A i \in o + 1 .. d : g[i].kind = "rec"
    BY <2>1, <2>3
  <2> QED
    BY <1>2, <2>1, <2>4 DEF Points, o, d
<1> QED
  BY <1>1, <1>2

\* No page is journalled, and the pages that the savepoints need keep their contents.
LEMMA ReadyKeeping ==
    ASSUME Types, NEW B \in Images, NEW f, NEW e \in Nat, NEW h \in Nat, Ready(f, e, h, B),
           eState' \in Modified, journalOff' = e, journalHdr' = h,
           UNCHANGED <<savepoint, subJournal, inJournal, dbOrigSize>>,
           needSync \subseteq needSync', dbSize' \in Nat, dbSize <= dbSize',
           \A i \in 1 .. e : jrnl'[i].kind = f[i].kind /\ (f[i].kind = "rec" => jrnl'[i] = f[i]),
           \A p \in 1 .. dbSize : Contents'[p] = Contents[p],
           \A p \in needSync' : cache'[p] # NotCached,
           eState' = "WRITER_CACHEMOD" =>
              h = 0 /\ \A j \in 1 .. Len(subJournal) : cache'[subJournal[j].pg] # NotCached,
           call'.at = "restored" =>
              dbSize' = dbSize /\ IF savepoint = <<>> THEN Image = B ELSE Image = savepoint[Len(savepoint)].image,
           call'.op = "Stress" => call'.pg \in Page /\ cache'[call'.pg] # NotCached,
           call'.at = "stressWrite" => call'.pg \notin needSync'
    PROVE  Keeping(B)'
<1>1. /\ LaidOut(f, e, h)
      /\ Len(B) = dbOrigSize
      /\ Nested(savepoint, dbOrigSize, dbSize, Len(subJournal))
      /\ \A i \in h + 2 .. e : f[i].pg \in needSync
      /\ \A i \in 1 .. e : f[i].kind = "rec" => f[i].pg \in inJournal
      /\ Distinct(f, e)
      /\ \A j \in 1 .. Len(subJournal) : subJournal[j].pg \in inJournal \/ subJournal[j].pg > dbOrigSize
      /\ \A k \in 1 .. Len(savepoint) : Points(f, e, h, savepoint[k])
      /\ Preserved(f, e, <<>>, 1, 0, inJournal, B, Contents)
      /\ \A k \in 1 .. Len(savepoint) :
            Preserved(f, e, subJournal, savepoint[k].iOffset, savepoint[k].iSubRec,
                      savepoint[k].inSavepoint, savepoint[k].image, Contents)
  BY DEF Ready
<1>2. /\ h < e /\ dbOrigSize <= dbSize /\ dbSize \in Nat /\ dbOrigSize \in Nat
      /\ \A i \in h + 2 .. e : f[i].kind = "rec"
  BY <1>1, ContentsAre DEF LaidOut, Nested
<1>3. SameRecords(f, e, jrnl', e)
  BY DEF SameRecords
<1>4. PagesLogged'
  <2>1. \A i \in h + 2 .. e : jrnl'[i].pg \in needSync'
    <3> SUFFICES ASSUME NEW i \in h + 2 .. e PROVE jrnl'[i].pg \in needSync'
      OBVIOUS
    <3>1. i \in 1 .. e /\ f[i].kind = "rec" /\ f[i].pg \in needSync
      BY <1>1, <1>2
    <3> QED
      BY <3>1
  <2>2. \A i \in 1 .. e : jrnl'[i].kind = "rec" => jrnl'[i].pg \in inJournal
    BY <1>1
  <2>3. Distinct(jrnl', e)
    BY <1>1 DEF Distinct
  <2>4. ASSUME NEW k \in 1 .. Len(savepoint) PROVE Points(jrnl', e, h, savepoint[k])
    <3>1. /\ Points(f, e, h, savepoint[k]) /\ savepoint[k].iOffset \in Nat \ {0} /\ savepoint[k].iHdrOffset \in Nat
      BY <1>1, NestedIs
    <3>2. e <= e /\ \A i \in 1 .. e : jrnl'[i].kind = f[i].kind
      OBVIOUS
    <3> QED
      BY <1>2, <3>1, <3>2, PointsAgain
  <2>5. \A k \in 1 .. Len(savepoint') : Points(jrnl', e, h, savepoint'[k])
    BY <2>4
  <2> QED
    BY <1>1, <2>1, <2>2, <2>3, <2>5 DEF PagesLogged
<1>5. Nested(savepoint, dbOrigSize, dbSize, Len(subJournal))'
  <2>1. \A k \in 1 .. Len(savepoint) : savepoint[k].nOrig \in Nat
    BY <1>1, NestedIs
  <2> QED
    BY <1>1, <1>2, <2>1 DEF Nested
<1>6. Preserved(jrnl', e, <<>>, 1, 0, inJournal, B, Contents')
  <2>1. \A p \in 1 .. Len(B) : p \notin inJournal => Contents'[p] = Contents[p]
    BY <1>1, <1>2
  <2> HIDE DEF Contents
  <2> QED
    BY <1>1, <1>3, <2>1, PreservedAgain
<1>7. ASSUME NEW k \in 1 .. Len(savepoint)
      PROVE  Preserved(jrnl', e, subJournal, savepoint[k].iOffset, savepoint[k].iSubRec,
                       savepoint[k].inSavepoint, savepoint[k].image, Contents')
  <2>1. /\ savepoint[k].iOffset \in Nat /\ Len(savepoint[k].image) \in Nat /\ Len(savepoint[k].image) <= dbSize
    BY <1>1, NestedIs
  <2>2. \A p \in 1 .. Len(savepoint[k].image) : Contents'[p] = Contents[p]
    BY <1>2, <2>1
  <2> QED
    BY <1>1, <1>3, <2>1, <2>2, PreservedAgain
<1>8. (call.at = "restored" => IF savepoint = <<>> THEN Image = B ELSE Image = savepoint[Len(savepoint)].image)'
  <2>1. dbSize' = dbSize => Image' = Image
    BY ImageSame
  <2> QED
    BY <2>1
<1>9. eState' # "WRITER_LOCKED"
  BY DEF Modified
<1> QED
  BY <1>1, <1>4, <1>5, <1>6, <1>7, <1>8, <1>9 DEF Keeping

LEMMA SavingIsPreserving ==
    ASSUME NEW c, Control', Logging' => Appending', NEW B \in Images, Keeping(B)',
           c => \E image \in outcomes' : Holds(B, image)
    PROVE  Preserving(c)'
BY DEF Preserving

LEMMA AppendingSame ==
    ASSUME Appending, call.at # "syncHdr", call'.at # "syncHdr",
           UNCHANGED <<jrnl, jfdOpen, cksumInit, txn, journalHdr, journalOff, nRec>>
    PROVE  Appending'
BY DEF Appending

\* Where nothing is in progress.
LEMMA RestsAt ==
    ASSUME Types, NEW c \in BOOLEAN, Preserving(c), AtRest \/ call.at = "failedWrite"
    PROVE  /\ call.op = "none" /\ call.at \in Returned
           /\ eState \in Modified => /\ Logging /\ Appending /\ LaidOut(jrnl, journalOff, journalHdr)
                                     /\ \A p \in dirty : cache[p] # NotCached
           /\ eState \in {"OPEN", "READER"} => call.at = "idle" /\ Quiet /\ dirty = {}
           /\ eState = "WRITER_LOCKED" => dirty = {}
           /\ eState \in Changing => \E B \in Images : Keeping(B) /\ Finds(c, B)
<1>1. Control /\ (Logging => Appending) /\ (Saving => \E B \in Images : Keeping(B) /\ Finds(c, B))
  BY DEF Preserving, Finds
<1>2. call.op = "none" /\ call.at \in Returned
  BY <1>1 DEF AtRest, Control, Returned
<1>3. eState \in Modified => Logging
  BY <1>2 DEF Logging
<1>4. eState \in Changing => Saving
  BY <1>2 DEF Saving
<1>5. eState \in Modified => LaidOut(jrnl, journalOff, journalHdr) /\ \A p \in dirty : cache[p] # NotCached
  BY <1>1, <1>3 DEF Control, Appending
<1>6. eState \in {"OPEN", "READER"} => call.at = "idle" /\ Quiet /\ dirty = {}
  BY <1>1, <1>2 DEF Control, Returned, Changing
<1> QED
  BY <1>1, <1>2, <1>3, <1>4, <1>5, <1>6 DEF Control

\* A step that keeps the cache, the journal and the savepoints, while no call is in
\* progress.
LEMMA GetPreserves ==
    ASSUME Types, Types', NEW c \in BOOLEAN, Preserving(c), NEW p \in Page, sqlite3PagerGet(p)
    PROVE  Preserving(c)'
<1>1. /\ AtRest /\ eState \in {"READER"} \cup Writer /\ cache[p] = NotCached
      /\ cache' = [cache EXCEPT ![p] = PageContent(p)]
      /\ UNCHANGED <<eState, call, sizes, dirty, needSync, jstate, left, svpts, dbfile, jfile, settings, bounds, history>>
  BY DEF sqlite3PagerGet
<1>2. UNCHANGED <<eState, call, dirty, needSync, dbSize, dbOrigSize, inJournal, jfdOpen, journalOff, journalHdr, nRec,
                  cksumInit, left, savepoint, subJournal, db, jrnl, txn, outcomes>>
  BY <1>1 DEF sizes, jstate, svpts, dbfile, jfile, bounds, history
<1>3. cache \in [Page -> Content \cup {NotCached}] /\ PageContent(p) \in Content /\ NotCached \notin Content
      /\ dbSize \in Nat /\ needSync \subseteq Page /\ dirty \subseteq Page
  BY PageContentIs, ContentsAre DEF Types, TypesOfCache
<1>4. /\ \A q \in Page : q # p => cache'[q] = cache[q]
      /\ cache'[p] = PageContent(p) /\ cache'[p] # NotCached
      /\ \A q \in Page : cache[q] # NotCached => cache'[q] # NotCached
  <2> HIDE DEF PageContent
  <2> QED
    BY <1>1, <1>3
<1>5. \A q \in 1 .. dbSize : Contents'[q] = Contents[q]
  <2> SUFFICES ASSUME NEW q \in 1 .. dbSize PROVE Contents'[q] = Contents[q]
    OBVIOUS
  <2>1. q \in Page /\ Contents[q] = PageContent(q) /\ Contents'[q] = PageContent(q)'
    <3>1. q \in Page /\ Contents[q] = PageContent(q)
      BY ContentsAre
    <3> QED
      BY <3>1 DEF Contents
  <2>2. CASE q # p
    BY <1>2, <1>4, <2>1, <2>2 DEF PageContent
  <2>3. CASE q = p
    <3>1. PageContent(q)' = cache'[q]
      BY <1>4, <2>3 DEF PageContent
    <3> QED
      BY <1>4, <2>1, <2>3, <3>1
  <2> QED
    BY <2>2, <2>3
<1>6. Control /\ call.at \in Returned /\ call.op = "none"
  BY <1>1, RestsAt DEF Preserving
<1>7. Control'
  <2>1. eState \in Modified => \A q \in dirty : cache'[q] # NotCached
    BY <1>1, <1>3, <1>4, RestsAt
  <2>2. (Logging \/ call.at = "writeList")' => eState \in Modified
    BY <1>2, <1>6 DEF Logging, Returned
  <2> QED
    BY <1>2, <1>6, <2>1, <2>2 DEF Control, Quiet, Returned, Syncing, Changing, Modified
<1>8. CASE eState \notin Changing
  <2>1. Left'
    BY <1>2, <1>8 DEF Left, Logging, Saving, Changing, Modified
  <2> QED
    BY <1>7, <2>1, LeftIsPreserving
<1>9. CASE eState = "WRITER_LOCKED"
  <2>1. PICK B \in Images : Keeping(B) /\ Finds(c, B)
    BY <1>1, <1>9, RestsAt DEF Changing
  <2>2. journalOff' \in Nat /\ journalOff' <= 1
    BY <1>2, <1>9, <2>1, FilesAre DEF Keeping, NothingLogged
  <2>3. Keeping(B)'
    BY <1>2, <1>5, <1>9, <2>1, <2>2, LockedKeeping
  <2>4. ~Logging'
    BY <1>2, <1>9 DEF Logging, Modified
  <2> QED
    BY <1>2, <1>7, <2>1, <2>3, <2>4, SavingIsPreserving DEF Finds
<1>10. CASE eState \in Modified
  <2>1. PICK B \in Images : Keeping(B) /\ Finds(c, B)
    BY <1>1, <1>10, RestsAt DEF Changing, Modified
  <2>2. Ready(jrnl, journalOff, journalHdr, B) /\ Appending /\ LaidOut(jrnl, journalOff, journalHdr)
    BY <1>1, <1>10, <2>1, RestsAt, KeepingIsReady
  <2>3. /\ journalOff \in Nat /\ journalHdr \in Nat /\ eState' \in Modified /\ journalOff' = journalOff
        /\ journalHdr' = journalHdr /\ dbSize' \in Nat /\ dbSize <= dbSize' /\ needSync \subseteq needSync'
        /\ UNCHANGED <<savepoint, subJournal, inJournal, dbOrigSize>>
    BY <1>2, <1>3, <1>10, FilesAre
  <2>4. PagesLogged
    BY <1>10, <2>1 DEF Keeping, Modified
  <2>5. \A q \in needSync' : cache'[q] # NotCached
    BY <1>2, <1>3, <1>4, <2>4 DEF PagesLogged
  <2>6. eState' = "WRITER_CACHEMOD" =>
           journalHdr = 0 /\ \A j \in 1 .. Len(subJournal) : cache'[subJournal[j].pg] # NotCached
    <3>1. \A j \in 1 .. Len(subJournal) : subJournal[j].pg \in Page
      <4>1. \A j \in 1 .. Len(subJournal) : subJournal[j] \in SubRecord
        BY <2>2, NestedIs DEF Ready
      <4> QED
        BY <4>1 DEF SubRecord
    <3> QED
      BY <1>2, <1>4, <2>4, <3>1 DEF PagesLogged
  <2>7. call'.at = "restored" =>
           dbSize' = dbSize /\ IF savepoint = <<>> THEN Image = B ELSE Image = savepoint[Len(savepoint)].image
    BY <1>2, <2>1 DEF Keeping
  <2>8. call'.op # "Stress" /\ call'.at # "stressWrite"
    BY <1>2, <1>6 DEF Returned
  <2>9. \A i \in 1 .. journalOff : jrnl'[i].kind = jrnl[i].kind /\ (jrnl[i].kind = "rec" => jrnl'[i] = jrnl[i])
    BY <1>2
  <2>10. Keeping(B)'
    BY <1>5, <2>2, <2>3, <2>5, <2>6, <2>7, <2>8, <2>9, ReadyKeeping
  <2>11. Appending'
    BY <1>2, <1>6, <2>2, AppendingSame DEF Returned
  <2> QED
    BY <1>2, <1>7, <2>1, <2>10, <2>11, SavingIsPreserving DEF Finds
<1> QED
  BY <1>8, <1>9, <1>10 DEF Changing, Modified

LEMMA SubPages ==
    ASSUME Types
    PROVE  \A j \in 1 .. Len(subJournal) : subJournal[j].pg \in Page /\ subJournal[j].val \in Content
<1>1. \A j \in 1 .. Len(subJournal) : subJournal[j] \in SubRecord
  BY DEF Types, TypesOfSavepoints
<1> QED
  BY <1>1 DEF SubRecord

LEMMA StressPreserves ==
    ASSUME Types, Types', NEW c \in BOOLEAN, Preserving(c), NEW p \in Page, pagerStress(p)
    PROVE  Preserving(c)'
<1>1. /\ AtRest /\ eState \in Modified /\ p \in dirty
      /\ Calling("Stress", p, IF p \in needSync \/ eState = "WRITER_CACHEMOD" THEN "syncRecords" ELSE "stressWrite")
      /\ UNCHANGED <<eState, sizes, pcache, jstate, left, svpts, dbfile, jfile, settings, bounds, history>>
  BY DEF pagerStress, Modified
<1>2. UNCHANGED <<eState, cache, dirty, needSync, dbSize, dbOrigSize, inJournal, jfdOpen, journalOff, journalHdr, nRec,
                  cksumInit, left, savepoint, subJournal, db, jrnl, txn, outcomes>>
  BY <1>1 DEF sizes, pcache, jstate, svpts, dbfile, jfile, bounds, history
<1>3. /\ call'.op = "Stress" /\ call'.pg = p
      /\ call'.at = IF p \in needSync \/ eState = "WRITER_CACHEMOD" THEN "syncRecords" ELSE "stressWrite"
  BY <1>1, CallIsAt
<1>4. call'.at \in {"syncRecords", "stressWrite"}
      /\ (call'.at = "stressWrite" => eState = "WRITER_DBMOD" /\ p \notin needSync)
  BY <1>1, <1>3 DEF Modified
<1>5. PICK B \in Images : Keeping(B) /\ Finds(c, B)
  BY <1>1, RestsAt DEF Changing, Modified
<1>6. /\ Ready(jrnl, journalOff, journalHdr, B) /\ Appending /\ LaidOut(jrnl, journalOff, journalHdr)
      /\ \A q \in dirty : cache[q] # NotCached
      /\ call.at \in Returned
  BY <1>1, <1>5, RestsAt, KeepingIsReady
<1>7. Control'
  <2>1. \A q \in dirty' : cache'[q] # NotCached
    BY <1>2, <1>6
  <2>2. eState' \in Modified /\ eState' \notin {"OPEN", "READER", "WRITER_LOCKED"}
    BY <1>1, <1>2 DEF Modified
  <2> QED
    BY <1>2, <1>3, <1>4, <2>1, <2>2 DEF Control, Returned, Syncing
<1>8. Appending'
  BY <1>2, <1>4, <1>6, AppendingSame DEF Returned
<1>9. Keeping(B)'
  <2>1. PagesLogged
    BY <1>1, <1>5 DEF Keeping, Modified
  <2>2. /\ journalOff \in Nat /\ journalHdr \in Nat /\ eState' \in Modified /\ journalOff' = journalOff
        /\ journalHdr' = journalHdr /\ dbSize' \in Nat /\ dbSize <= dbSize' /\ needSync \subseteq needSync'
        /\ UNCHANGED <<savepoint, subJournal, inJournal, dbOrigSize>>
    BY <1>1, <1>2, FilesAre, ContentsAre
  <2>3. \A q \in needSync' : cache'[q] # NotCached
    BY <1>2, <2>1 DEF PagesLogged
  <2>4. eState' = "WRITER_CACHEMOD" =>
           journalHdr = 0 /\ \A j \in 1 .. Len(subJournal) : cache'[subJournal[j].pg] # NotCached
    BY <1>2, <2>1 DEF PagesLogged
  <2>5. call'.at # "restored"
    BY <1>4
  <2>6. call'.pg \in Page /\ cache'[call'.pg] # NotCached
    BY <1>1, <1>2, <1>3, <1>6
  <2>7. call'.at = "stressWrite" => call'.pg \notin needSync'
    BY <1>2, <1>3, <1>4
  <2>8. \A i \in 1 .. journalOff : jrnl'[i].kind = jrnl[i].kind /\ (jrnl[i].kind = "rec" => jrnl'[i] = jrnl[i])
    BY <1>2
  <2>9. \A q \in 1 .. dbSize : Contents'[q] = Contents[q]
    BY <1>2 DEF Contents, PageContent
  <2> QED
    BY <1>6, <2>2, <2>3, <2>4, <2>5, <2>6, <2>7, <2>8, <2>9, ReadyKeeping
<1> QED
  BY <1>2, <1>5, <1>7, <1>8, <1>9, SavingIsPreserving DEF Finds

LEMMA BeginPreserves ==
    ASSUME Types, Types', NEW c \in BOOLEAN, Preserving(c), c => AtomicCommit, sqlite3PagerBegin
    PROVE  Preserving(c)'
<1>1. /\ AtRest /\ eState = "READER" /\ eState' = "WRITER_LOCKED"
      /\ dbOrigSize' = dbSize /\ journalOff' = 0
      /\ UNCHANGED <<call, dbSize, cache, dirty, needSync, inJournal, savepoint, subJournal, db, outcomes>>
  BY DEF sqlite3PagerBegin, pcache, dbfile, history
<1>2. Control /\ Quiet /\ dirty = {} /\ call.at = "idle" /\ call.op = "none"
  BY <1>1, RestsAt DEF Preserving
<1>3. Control'
  BY <1>1, <1>2 DEF Control, Quiet, Logging, Modified, Changing, Returned, Syncing
<1>4. ~Logging'
  BY <1>1 DEF Logging, Modified
<1> PICK B : B = Image
  OBVIOUS
<1>5. B \in Images /\ Len(B) = dbSize /\ \A p \in 1 .. dbSize : B[p] = Contents[p]
  BY ContentsAre
<1>6. c => \E image \in outcomes' : Holds(B, image)
  BY <1>1 DEF AtomicCommit
<1>7. Contents' = Contents
  BY <1>1 DEF Contents, PageContent
<1>8. Keeping(B)'
  <2>1. savepoint' = <<>> /\ subJournal' = <<>> /\ inJournal' = {} /\ needSync' = {} /\ Len(subJournal') = 0
        /\ Len(savepoint') = 0
    BY <1>1, <1>2 DEF Quiet
  <2>2. NothingLogged'
    BY <1>1, <2>1 DEF NothingLogged
  <2>3. Nested(savepoint, dbOrigSize, dbSize, Len(subJournal))'
    BY <1>1, <2>1, ContentsAre DEF Nested
  <2>4. Preserved(jrnl', journalOff', <<>>, 1, 0, {}, B, Contents')
    <3>1. \A p \in 1 .. Len(B) : Contents'[p] = B[p]
      BY <1>5, <1>7
    <3> QED
      BY <1>1, <3>1, NothingLoggedIs
  <2>5. (\A k \in 1 .. Len(savepoint') : FALSE) /\ Preserved(jrnl', journalOff', <<>>, 1, 0, inJournal', B, Contents')
    BY <2>1, <2>4
  <2> QED
    BY <1>1, <1>2, <1>5, <2>1, <2>2, <2>3, <2>4, <2>5 DEF Keeping
<1> QED
  BY <1>3, <1>4, <1>5, <1>6, <1>8, SavingIsPreserving

LEMMA JournalModePreserves ==
    ASSUME Types, Types', NEW c \in BOOLEAN, Preserving(c), NEW mode \in Modes, sqlite3PagerSetJournalMode(mode)
    PROVE  Preserving(c)'
<1>1. /\ AtRest /\ eState \in {"OPEN", "READER", "WRITER_LOCKED"}
      /\ UNCHANGED <<eState, cache, dirty, needSync, dbSize, dbOrigSize, inJournal, journalOff, journalHdr, nRec,
                     cksumInit, left, savepoint, subJournal, db, txn>>
      /\ (call' = call /\ (jfdOpen' => jfdOpen)) \/ (eState = "OPEN" /\ Calling("SharedLock", 0, "syncHot"))
  BY DEF sqlite3PagerSetJournalMode, sizes, pcache, jstate, svpts, dbfile, bounds
<1>0. eState # "OPEN" => outcomes' = outcomes
  BY DEF sqlite3PagerSetJournalMode
<1>2. Control /\ call.at \in Returned /\ call.op = "none" /\ dirty = {}
  BY <1>1, RestsAt DEF Preserving
<1>3. CASE eState = "OPEN" /\ Calling("SharedLock", 0, "syncHot")
  BY <1>1, <1>2, <1>3, CallBegins, LeftIsPreserving
<1>4. CASE call' = call /\ (jfdOpen' => jfdOpen)
  <2>1. Control'
    BY <1>1, <1>2, <1>4 DEF Control, Quiet, Logging, Modified, Changing, Returned, Syncing
  <2>2. ~Logging'
    BY <1>1 DEF Logging, Modified
  <2>3. CASE eState # "WRITER_LOCKED"
    <3>1. Left'
      BY <1>1, <2>2, <2>3, <1>2, <1>4 DEF Left, Saving, Changing
    <3> QED
      BY <2>1, <3>1, LeftIsPreserving
  <2>4. CASE eState = "WRITER_LOCKED"
    <3>1. PICK B \in Images : Keeping(B) /\ Finds(c, B)
      BY <1>1, <2>4, RestsAt DEF Changing
    <3>2. journalOff' \in Nat /\ journalOff' <= 1
      BY <1>1, <2>4, <3>1, FilesAre DEF Keeping, NothingLogged
    <3>3. \A q \in 1 .. dbSize : Contents'[q] = Contents[q]
      BY <1>1 DEF Contents, PageContent
    <3>4. Keeping(B)'
      BY <1>1, <1>4, <2>4, <3>1, <3>2, <3>3, LockedKeeping
    <3> QED
      BY <1>0, <2>1, <2>2, <2>4, <3>1, <3>4, SavingIsPreserving DEF Finds
  <2> QED
    BY <2>3, <2>4
<1> QED
  BY <1>1, <1>3, <1>4

\* Where the savepoints that are open begin.
LEMMA OffsetsAre ==
    ASSUME Types, NEW c \in BOOLEAN, Preserving(c), AtRest, eState \in Changing,
           NEW B \in Images, Keeping(B), NEW o, o = IF jfdOpen /\ journalOff > 0 THEN journalOff ELSE 1
    PROVE  /\ o \in Nat /\ 1 <= o
           /\ \A k \in 1 .. Len(savepoint) : savepoint[k].iOffset <= o
           /\ eState = "WRITER_LOCKED" => o = 1
           /\ eState \in Modified => o = journalOff /\ journalHdr < o
<1>1. Nested(savepoint, dbOrigSize, dbSize, Len(subJournal)) /\ journalOff \in Nat /\ journalHdr \in Nat
  BY FilesAre DEF Keeping
<1>2. CASE eState = "WRITER_LOCKED"
  <2>1. NothingLogged
    BY <1>2 DEF Keeping
  <2>2. journalOff <= 1 /\ \A k \in 1 .. Len(savepoint) : savepoint[k].iOffset = 1
    BY <2>1 DEF NothingLogged
  <2> QED
    BY <1>1, <1>2, <2>2 DEF Modified
<1>3. CASE eState \in Modified
  <2>1. PagesLogged /\ jfdOpen /\ journalHdr < journalOff
    BY <1>3, CallFacts DEF Keeping, Modified, LaidOut
  <2>2. o = journalOff
    BY <1>1, <2>1
  <2>3. ASSUME NEW k \in 1 .. Len(savepoint) PROVE savepoint[k].iOffset <= journalOff
    <3>1. savepoint[k].iOffset \in Nat /\ savepoint[k].iHdrOffset \in Nat
      BY <1>1, NestedIs
    <3>2. Points(jrnl, journalOff, journalHdr, savepoint[k])
      BY <2>1 DEF PagesLogged
    <3> QED
      BY <1>1, <2>1, <3>1, <3>2 DEF Points
  <2> QED
    BY <1>1, <1>3, <2>1, <2>2, <2>3 DEF Modified
<1> QED
  BY <1>2, <1>3 DEF Changing, Modified

LEMMA OpenSavepointPreserves ==
    ASSUME Types, Types', NEW c \in BOOLEAN, Preserving(c), sqlite3PagerOpenSavepoint
    PROVE  Preserving(c)'
<1> DEFINE n == Len(savepoint)
<1>1. /\ AtRest /\ eState \in Changing
      /\ UNCHANGED <<eState, call, cache, dirty, needSync, dbSize, dbOrigSize, inJournal, jfdOpen, journalOff,
                     journalHdr, nRec, cksumInit, left, subJournal, db, jrnl, txn, outcomes>>
  BY DEF sqlite3PagerOpenSavepoint, sizes, pcache, jstate, dbfile, jfile, bounds, history, Changing
<1>2. PICK B \in Images : Keeping(B) /\ Finds(c, B)
  BY <1>1, RestsAt
<1>3. /\ Len(B) = dbOrigSize /\ Nested(savepoint, dbOrigSize, dbSize, Len(subJournal))
      /\ Preserved(jrnl, journalOff, <<>>, 1, 0, inJournal, B, Contents)
      /\ \A k \in 1 .. Len(savepoint) :
            Preserved(jrnl, journalOff, subJournal, savepoint[k].iOffset, savepoint[k].iSubRec,
                      savepoint[k].inSavepoint, savepoint[k].image, Contents)
  BY <1>2 DEF Keeping
<1>4. Control /\ call.at \in Returned /\ call.op = "none"
  BY <1>1, RestsAt DEF Preserving
<1>5. Contents' = Contents /\ Image' = Image
  BY <1>1 DEF Contents, Image, PageContent
<1>6. PICK s : /\ savepoint' = Append(savepoint, s)
               /\ s.nOrig = dbSize /\ s.iHdrOffset = 0 /\ s.iSubRec = Len(subJournal)
               /\ s.iOffset = IF jfdOpen /\ journalOff > 0 THEN journalOff ELSE 1
               /\ s.inSavepoint = {} /\ s.image = Image
  BY DEF sqlite3PagerOpenSavepoint
<1>7. /\ s.iOffset \in Nat /\ 1 <= s.iOffset
      /\ \A k \in 1 .. n : savepoint[k].iOffset <= s.iOffset
      /\ eState = "WRITER_LOCKED" => s.iOffset = 1
      /\ eState \in Modified => s.iOffset = journalOff /\ journalHdr < s.iOffset
  BY <1>1, <1>2, <1>6, OffsetsAre
<1>8. n \in Nat /\ Len(savepoint') = n + 1 /\ savepoint'[n + 1] = s /\ \A k \in 1 .. n : savepoint'[k] = savepoint[k]
  <2>1. savepoint \in Seq(Savepoint)
    BY DEF Types, TypesOfSavepoints
  <2> QED
    BY <1>6, <2>1
<1>9. /\ dbSize \in Nat /\ dbOrigSize \in Nat /\ Len(subJournal) \in Nat /\ journalOff \in Nat
      /\ Len(Image) = dbSize /\ \A p \in 1 .. dbSize : Image[p] = Contents[p]
  BY <1>3, ContentsAre, NestedIs, FilesAre
<1> HIDE DEF n
<1>10. ASSUME NEW k \in 1 .. Len(savepoint') PROVE k \in 1 .. n \/ k = n + 1
  BY <1>8
<1>11. Nested(savepoint', dbOrigSize, dbSize, Len(subJournal))
  <2>1. /\ dbOrigSize <= dbSize
        /\ \A k \in 1 .. n : /\ dbOrigSize <= savepoint[k].nOrig /\ savepoint[k].nOrig <= dbSize
                             /\ savepoint[k].iSubRec <= Len(subJournal)
                             /\ 1 <= savepoint[k].iOffset /\ Len(savepoint[k].image) = savepoint[k].nOrig
        /\ \A k \in 1 .. n : \A j \in 1 .. k :
              savepoint[j].nOrig <= savepoint[k].nOrig /\ savepoint[j].iSubRec <= savepoint[k].iSubRec
              /\ savepoint[j].iOffset <= savepoint[k].iOffset
    BY <1>3 DEF Nested, n
  <2>2. ASSUME NEW k \in 1 .. Len(savepoint')
        PROVE  /\ dbOrigSize <= savepoint'[k].nOrig /\ savepoint'[k].nOrig <= dbSize
               /\ savepoint'[k].iSubRec <= Len(subJournal)
               /\ 1 <= savepoint'[k].iOffset /\ Len(savepoint'[k].image) = savepoint'[k].nOrig
    BY <1>6, <1>7, <1>8, <1>9, <1>10, <2>1
  <2>3. ASSUME NEW k \in 1 .. Len(savepoint'), NEW j \in 1 .. k
        PROVE  savepoint'[j].nOrig <= savepoint'[k].nOrig /\ savepoint'[j].iSubRec <= savepoint'[k].iSubRec
               /\ savepoint'[j].iOffset <= savepoint'[k].iOffset
    <3>1. CASE k \in 1 .. n
      BY <1>8, <2>1, <3>1
    <3>2. CASE k = n + 1 /\ j \in 1 .. n
      BY <1>6, <1>7, <1>8, <2>1, <3>2
    <3>3. CASE k = n + 1 /\ j = n + 1
      BY <1>6, <1>7, <1>8, <1>9, <3>3
    <3> QED
      BY <1>8, <1>10, <3>1, <3>2, <3>3
  <2> QED
    BY <2>1, <2>2, <2>3 DEF Nested
<1>12. eState = "WRITER_LOCKED" => NothingLogged'
  BY <1>1, <1>2, <1>6, <1>7, <1>8, <1>10 DEF Keeping, NothingLogged, n
<1>13. eState \in Modified => PagesLogged'
  <2> SUFFICES ASSUME eState \in Modified PROVE PagesLogged'
    OBVIOUS
  <2>1. PagesLogged
    BY <1>2 DEF Keeping, Modified
  <2>2. ASSUME NEW k \in 1 .. Len(savepoint') PROVE Points(jrnl, journalOff, journalHdr, savepoint'[k])
    <3>1. CASE k \in 1 .. n
      BY <1>8, <2>1, <3>1 DEF PagesLogged, n
    <3>2. CASE k = n + 1
      BY <1>6, <1>7, <1>8, <1>9, <3>2 DEF Points
    <3> QED
      BY <1>10, <3>1, <3>2
  <2> QED
    BY <1>1, <2>1, <2>2 DEF PagesLogged
<1>14. Preserved(jrnl, journalOff, subJournal, s.iOffset, s.iSubRec, s.inSavepoint, s.image, Contents)
  <2> SUFFICES ASSUME NEW p \in 1 .. Len(s.image)
               PROVE  LogsNot(jrnl, journalOff, subJournal, s.iOffset, s.iSubRec, p) /\ Contents[p] = s.image[p]
    BY <1>6 DEF Preserved
  <2>1. Contents[p] = s.image[p]
    BY <1>6, <1>9
  <2>2. ~Recorded(jrnl, s.iOffset, journalOff, p)
    <3>1. journalOff <= s.iOffset
      <4>1. CASE eState = "WRITER_LOCKED"
        BY <1>2, <1>7, <4>1 DEF Keeping, NothingLogged
      <4>2. CASE eState \in Modified
        BY <1>7, <1>9, <4>2
      <4> QED
        BY <1>1, <4>1, <4>2 DEF Changing, Modified
    <3> QED
      BY <1>7, <1>9, <3>1 DEF Recorded
  <2>3. \A j \in s.iSubRec + 1 .. Len(subJournal) : FALSE
    BY <1>6, <1>9
  <2> QED
    BY <2>1, <2>2, <2>3 DEF LogsNot
<1>15. Keeping(B)'
  <2>1. ASSUME NEW k \in 1 .. Len(savepoint')
        PROVE  Preserved(jrnl', journalOff', subJournal', savepoint'[k].iOffset, savepoint'[k].iSubRec,
                         savepoint'[k].inSavepoint, savepoint'[k].image, Contents')
    <3>1. CASE k \in 1 .. n
      BY <1>1, <1>3, <1>5, <1>8, <3>1 DEF n
    <3>2. CASE k = n + 1
      BY <1>1, <1>5, <1>8, <1>14, <3>2
    <3> QED
      BY <1>10, <3>1, <3>2
  <2>2. call'.at = "restored" => IF savepoint' = <<>> THEN Image' = B ELSE Image' = savepoint'[Len(savepoint')].image
    <3>1. savepoint' # <<>>
      BY <1>8
    <3> QED
      BY <1>5, <1>6, <1>8, <3>1
  <2>3. Preserved(jrnl', journalOff', <<>>, 1, 0, inJournal', B, Contents')
    BY <1>1, <1>3, <1>5
  <2>4. (IF eState = "WRITER_LOCKED" THEN NothingLogged ELSE PagesLogged)'
    BY <1>1, <1>12, <1>13 DEF Changing, Modified
  <2> QED
    BY <1>1, <1>3, <1>11, <2>1, <2>2, <2>3, <2>4 DEF Keeping
<1>16. Control'
  BY <1>1, <1>4 DEF Control, Quiet, Logging, Modified, Changing, Returned, Syncing
<1>17. Logging' => Appending'
  <2>1. Logging' => Logging
    BY <1>1 DEF Logging
  <2>2. call.at # "syncHdr" /\ call'.at # "syncHdr"
    BY <1>1, <1>4 DEF Returned
  <2> QED
    BY <1>1, <2>1, <2>2, AppendingSame DEF Preserving
<1> QED
  BY <1>1, <1>2, <1>15, <1>16, <1>17, SavingIsPreserving DEF Finds

LEMMA ReleaseSavepointPreserves ==
    ASSUME Types, Types', NEW c \in BOOLEAN, Preserving(c), NEW i, ReleaseSavepoint(i)
    PROVE  Preserving(c)'
<1>1. /\ AtRest /\ eState \in Changing /\ i \in DOMAIN savepoint
      /\ savepoint' = SubSeq(savepoint, 1, i - 1)
      /\ subJournal' = IF i = 1 THEN <<>> ELSE subJournal
      /\ call' = Idle
      /\ UNCHANGED <<eState, cache, dirty, needSync, dbSize, dbOrigSize, inJournal, jfdOpen, journalOff,
                     journalHdr, nRec, cksumInit, left, db, jrnl, txn, outcomes>>
  BY DEF ReleaseSavepoint, sizes, pcache, jstate, dbfile, jfile, bounds, history, Changing
<1>2. PICK B \in Images : Keeping(B) /\ Finds(c, B)
  BY <1>1, RestsAt
<1>3. /\ Len(B) = dbOrigSize /\ Nested(savepoint, dbOrigSize, dbSize, Len(subJournal))
      /\ Preserved(jrnl, journalOff, <<>>, 1, 0, inJournal, B, Contents)
      /\ \A k \in 1 .. Len(savepoint) :
            Preserved(jrnl, journalOff, subJournal, savepoint[k].iOffset, savepoint[k].iSubRec,
                      savepoint[k].inSavepoint, savepoint[k].image, Contents)
  BY <1>2 DEF Keeping
<1>4. Control /\ call.at \in Returned /\ call.op = "none" /\ call'.at = "idle" /\ call'.op = "none"
  BY <1>1, RestsAt, CallIsAt DEF Preserving
<1>5. Contents' = Contents
  BY <1>1 DEF Contents, PageContent
<1>6. /\ i \in 1 .. Len(savepoint) /\ Len(savepoint) \in Nat
      /\ Len(savepoint') = i - 1 /\ \A k \in 1 .. i - 1 : k \in 1 .. Len(savepoint) /\ savepoint'[k] = savepoint[k]
  <2>1. savepoint \in Seq(Savepoint)
    BY DEF Types, TypesOfSavepoints
  <2>2. i \in 1 .. Len(savepoint) /\ Len(savepoint) \in Nat
    BY <1>1, <2>1
  <2> QED
    BY <1>1, <2>1, <2>2, SubSeqProperties
<1>7. Len(subJournal') <= Len(subJournal) /\ \A j \in 1 .. Len(subJournal') : subJournal'[j] = subJournal[j]
  <2>1. Len(subJournal) \in Nat
    BY <1>3, NestedIs
  <2> QED
    BY <1>1, <2>1
<1>8. (\A k \in 1 .. i - 1 : i # 1) /\ (i # 1 => subJournal' = subJournal)
  BY <1>1, <1>6
<1>9. Nested(savepoint, dbOrigSize, dbSize, Len(subJournal))'
  BY <1>1, <1>3, <1>6, <1>8 DEF Nested
<1>10. eState = "WRITER_LOCKED" => NothingLogged'
  <2>1. subJournal = <<>> => subJournal' = <<>>
    BY <1>1
  <2> QED
    BY <1>1, <1>2, <1>6, <2>1 DEF Keeping, NothingLogged
<1>11. eState \in Modified => PagesLogged'
  <2> SUFFICES ASSUME eState \in Modified PROVE PagesLogged'
    OBVIOUS
  <2>1. PagesLogged
    BY <1>2 DEF Keeping, Modified
  <2>2. ASSUME NEW k \in 1 .. Len(savepoint') PROVE Points(jrnl, journalOff, journalHdr, savepoint'[k])
    BY <1>6, <2>1 DEF PagesLogged
  <2>3. \A j \in 1 .. Len(subJournal') : j \in 1 .. Len(subJournal) /\ subJournal'[j] = subJournal[j]
    <3>1. Len(subJournal) \in Nat /\ Len(subJournal') \in Nat
      BY <1>3, NestedIs, <1>1
    <3> QED
      BY <1>7, <3>1
  <2>4. \A j \in 1 .. Len(subJournal') :
          /\ subJournal'[j].pg \in inJournal \/ subJournal'[j].pg > dbOrigSize
          /\ eState = "WRITER_CACHEMOD" => cache[subJournal'[j].pg] # NotCached
    BY <2>1, <2>3 DEF PagesLogged
  <2>5. /\ eState = "WRITER_CACHEMOD" => journalHdr = 0
        /\ \A p \in needSync : cache[p] # NotCached
        /\ \A j \in journalHdr + 2 .. journalOff : jrnl[j].pg \in needSync
        /\ \A j \in 1 .. journalOff : jrnl[j].kind = "rec" => jrnl[j].pg \in inJournal
        /\ Distinct(jrnl, journalOff)
    BY <2>1 DEF PagesLogged
  <2> QED
    BY <1>1, <1>4, <2>2, <2>4, <2>5 DEF PagesLogged
<1>12. Keeping(B)'
  <2>1. ASSUME NEW k \in 1 .. Len(savepoint')
        PROVE  Preserved(jrnl', journalOff', subJournal', savepoint'[k].iOffset, savepoint'[k].iSubRec,
                         savepoint'[k].inSavepoint, savepoint'[k].image, Contents')
    BY <1>1, <1>3, <1>5, <1>6, <1>8
  <2>2. Preserved(jrnl', journalOff', <<>>, 1, 0, inJournal', B, Contents')
    BY <1>1, <1>3, <1>5
  <2>3. (IF eState = "WRITER_LOCKED" THEN NothingLogged ELSE PagesLogged)'
    BY <1>1, <1>10, <1>11 DEF Changing, Modified
  <2> QED
    BY <1>1, <1>3, <1>4, <1>9, <2>1, <2>2, <2>3 DEF Keeping
<1>13. Control'
  <2>1. eState \in Modified => \A p \in dirty' : cache'[p] # NotCached
    BY <1>1, RestsAt
  <2>2. Logging' => eState \in Modified
    BY <1>1 DEF Logging
  <2>3. eState \notin {"OPEN", "READER"}
    BY <1>1 DEF Changing
  <2> QED
    BY <1>1, <1>4, <2>1, <2>2, <2>3 DEF Control, Modified, Changing, Returned, Syncing
<1>14. Logging' => Appending'
  <2>1. Logging' => Logging
    BY <1>1, <1>4 DEF Logging
  <2>2. call.at # "syncHdr" /\ call'.at # "syncHdr"
    BY <1>4 DEF Returned
  <2> QED
    BY <1>1, <2>1, <2>2, AppendingSame DEF Preserving
<1> QED
  BY <1>1, <1>2, <1>12, <1>13, <1>14, SavingIsPreserving DEF Finds

-----------------------------------------------------------------------------
(* A page is written.                                                      *)

\* The journal that a write goes to, its end and its last header.
WriteBase == IF eState = "WRITER_LOCKED" THEN OpenedJournal ELSE jrnl
WriteEnd == IF eState = "WRITER_LOCKED" THEN 1 ELSE journalOff
WriteHdr == IF eState = "WRITER_LOCKED" THEN 0 ELSE journalHdr

\* The page goes to the journal.
JournalBegun(p) == p \notin inJournal /\ p <= dbOrigSize

\* The journal is open and the page is dirty.
Opens(p, h) ==
    /\ jfdOpen' /\ cksumInit' = <<txn, h>> /\ journalHdr' = h
    /\ eState' = IF eState = "WRITER_LOCKED" THEN "WRITER_CACHEMOD" ELSE eState
    /\ dirty' = dirty \cup {p}
    /\ needSync' = needSync \cup (IF JournalBegun(p) \/ (p > dbOrigSize /\ eState # "WRITER_DBMOD") THEN {p} ELSE {})

\* What a write finds.
LEMMA ReadyToWrite ==
    ASSUME Types, NEW c \in BOOLEAN, Preserving(c), AtRest, eState \in Changing,
           NEW f, f = WriteBase, NEW e, e = WriteEnd, NEW h, h = WriteHdr
    PROVE  /\ f \in Journals /\ e \in Nat /\ h \in Nat /\ LaidOut(f, e, h) /\ f[h + 1].nRec = 0
           /\ eState # "WRITER_LOCKED" => cksumInit = <<txn, h>> /\ nRec = e - h - 1
           /\ eState = "WRITER_LOCKED" => e = 1 /\ h = 0
           /\ \A p \in dirty : cache[p] # NotCached
           /\ \E B \in Images : /\ Keeping(B) /\ Finds(c, B) /\ Ready(f, e, h, B)
                                /\ \A p \in needSync : cache[p] # NotCached
                                /\ eState # "WRITER_DBMOD" =>
                                      h = 0 /\ \A j \in 1 .. Len(subJournal) : cache[subJournal[j].pg] # NotCached
<1>1. PICK B \in Images : Keeping(B) /\ Finds(c, B)
  BY RestsAt
<1>2. CASE eState = "WRITER_LOCKED"
  <2>1. f = WriteAt(CreatedJournal, 1, NewHeader(0), Garbage) /\ e = 1 /\ h = 0
    BY <1>2 DEF WriteBase, WriteEnd, WriteHdr, OpenedJournal
  <2>2. PICK s : /\ s = NewHeader(0) /\ s \in Slots /\ s.kind = "hdr" /\ s.nRec = 0
    <3>1. txn \in 0 .. MaxTxn /\ dbOrigSize \in 0 .. MaxPage /\ 0 \in Nat
      BY FilesAre DEF Types, TypesOfCache
    <3>2. Header(FALSE, 0, <<txn, 0>>, dbOrigSize) \in Slots
          /\ Header(FALSE, 0, <<txn, 0>>, dbOrigSize).kind = "hdr"
          /\ Header(FALSE, 0, <<txn, 0>>, dbOrigSize).nRec = 0
      BY <3>1, HeaderIs
    <3> QED
      BY <3>2 DEF NewHeader
  <2>3. f \in Journals /\ 1 <= Len(f) /\ f[1] = s
    <3>1. PICK g : g = CreatedJournal /\ g \in Journals
      BY CreatedIs
    <3>2. 1 \in Nat \ {0}
      OBVIOUS
    <3>3. WriteAt(g, 1, s, Garbage) \in Journals /\ 1 <= Len(WriteAt(g, 1, s, Garbage)) /\ WriteAt(g, 1, s, Garbage)[1] = s
      BY <2>2, <3>1, <3>2, SlotWritten
    <3> QED
      BY <2>1, <2>2, <3>1, <3>3
  <2>4. f[1].kind = "hdr" /\ f[1].nRec = 0
    BY <2>2, <2>3
  <2>5. Ready(f, 1, 0, B)
    BY <1>1, <1>2, <2>3, <2>4, OpeningIsReady
  <2>6. LaidOut(f, 1, 0)
    BY <2>5 DEF Ready
  <2>7. dirty = {} /\ needSync = {} /\ subJournal = <<>>
    BY <1>1, <1>2, RestsAt DEF Keeping, NothingLogged
  <2> QED
    BY <1>1, <1>2, <2>1, <2>3, <2>4, <2>5, <2>6, <2>7
<1>3. CASE eState \in Modified
  <2>1. f = jrnl /\ e = journalOff /\ h = journalHdr /\ eState # "WRITER_LOCKED"
    BY <1>3 DEF WriteBase, WriteEnd, WriteHdr, Modified
  <2>2. Appending /\ LaidOut(jrnl, journalOff, journalHdr) /\ \A p \in dirty : cache[p] # NotCached
    BY <1>3, RestsAt
  <2>3. Ready(jrnl, journalOff, journalHdr, B) /\ PagesLogged
    BY <1>1, <1>3, <2>2, KeepingIsReady DEF Keeping, Modified
  <2>4. call.at # "syncHdr"
    BY DEF AtRest
  <2>5. jrnl[journalHdr + 1].nRec = 0 /\ cksumInit = <<txn, journalHdr>> /\ nRec = journalOff - journalHdr - 1
    BY <2>2, <2>4 DEF Appending
  <2> QED
    BY <1>1, <1>3, <2>1, <2>2, <2>3, <2>5, FilesAre DEF PagesLogged, Modified
<1> QED
  BY <1>2, <1>3 DEF Changing, Modified

\* The outcomes of a write.
WriteFails(p, size, next, f, e, h) ==
    /\ Opens(p, h)
    /\ journalOff' = e /\ nRec' = e - h - 1
    /\ jrnl' \in {f, WriteAt(f, e + 1, Record(p, PageContent(p), <<txn, h>>), Garbage),
                  WriteAt(f, e + 1, Garbage, Garbage)}
    /\ cache' = [cache EXCEPT ![p] = PageContent(p)]
    /\ call' = [Idle EXCEPT !.at = IF next = Idle THEN "failedWrite" ELSE "failed"]
    /\ dbSize' \in {size, Larger(size, p)}
    /\ UNCHANGED <<inJournal, savepoint, subJournal>>

WriteEnds(p, size, next, f, e, h) ==
    /\ Opens(p, h)
    /\ IF JournalBegun(p)
       THEN /\ journalOff' = e + 1 /\ nRec' = e - h
            /\ jrnl' = WriteAt(f, e + 1, Record(p, PageContent(p), <<txn, h>>), Garbage)
            /\ inJournal' = inJournal \cup {p}
            /\ next = Idle => savepoint' = addToSavepointBitvecs(p) /\ subJournal' = subJournal
       ELSE /\ journalOff' = e /\ nRec' = e - h - 1
            /\ jrnl' = f
            /\ inJournal' = inJournal
            /\ next = Idle =>
                  IF subjRequiresPage(p)
                  THEN /\ savepoint' = addToSavepointBitvecs(p)
                       /\ subJournal' = Append(subJournal, [pg |-> p, val |-> PageContent(p)])
                  ELSE savepoint' = savepoint /\ subJournal' = subJournal
    /\ cache' = [cache EXCEPT ![p] = version]
    /\ call' = next
    /\ dbSize' = Larger(size, p)

LEMMA PagerWriteIs ==
    ASSUME Types, NEW p \in Page, NEW size, NEW next, PagerWrite(p, size, next),
           NEW f, f = WriteBase, NEW e \in Nat, e = WriteEnd, NEW h \in Nat, h = WriteHdr,
           eState # "WRITER_LOCKED" => cksumInit = <<txn, h>> /\ nRec = e - h - 1
    PROVE  /\ UNCHANGED <<dbOrigSize, db, txn, outcomes>>
           /\ \/ /\ eState = "WRITER_LOCKED" /\ eState' = eState
                 /\ journalOff' \in {journalOff, 1}
                 /\ cache' = [cache EXCEPT ![p] = PageContent(p)]
                 /\ call' = [Idle EXCEPT !.at = IF next = Idle THEN "failedWrite" ELSE "failed"]
                 /\ dbSize' = size
                 /\ UNCHANGED <<dirty, needSync, inJournal, savepoint, subJournal>>
              \/ WriteFails(p, size, next, f, e, h)
              \/ WriteEnds(p, size, next, f, e, h)
<1> DEFINE opening == eState = "WRITER_LOCKED"
           base == IF opening THEN OpenedJournal ELSE jrnl
           off == IF opening THEN 1 ELSE journalOff
           nonce == IF opening THEN <<txn, 0>> ELSE cksumInit
           count == IF opening THEN 0 ELSE nRec
           hdr == IF opening THEN 0 ELSE journalHdr
           fetched == [cache EXCEPT ![p] = PageContent(p)]
<1>1. base = f /\ off = e /\ hdr = h /\ nonce = <<txn, h>> /\ count = e - h - 1
  BY DEF WriteBase, WriteEnd, WriteHdr
<1>2. fetched[p] = PageContent(p)
  <2> HIDE DEF PageContent
  <2> QED
    BY DEF Types, TypesOfCache
<1>3. UNCHANGED <<dbOrigSize, db, txn, outcomes>>
  BY DEF PagerWrite, dbfile, history
<1> DEFINE Opened == /\ jfdOpen' = TRUE /\ cksumInit' = nonce /\ journalHdr' = hdr
                     /\ eState' = IF opening THEN "WRITER_CACHEMOD" ELSE eState
                     /\ dirty' = dirty \cup {p}
                     /\ needSync' = needSync \cup
                           (IF JournalBegun(p) \/ (p > dbOrigSize /\ eState # "WRITER_DBMOD") THEN {p} ELSE {})
           error == [Idle EXCEPT !.at = IF next = Idle THEN "failedWrite" ELSE "failed"]
           logged == WriteAt(base, off + 1, Record(p, PageContent(p), nonce), Garbage)
<1>4. \/ /\ opening /\ journalOff' \in {journalOff, 1} /\ cache' = fetched /\ call' = error /\ dbSize' = size
         /\ UNCHANGED <<eState, dirty, needSync, inJournal, svpts>>
      \/ /\ Opened /\ journalOff' = off /\ nRec' = count /\ cache' = fetched /\ call' = error
         /\ jrnl' \in {base, logged, WriteAt(base, off + 1, Garbage, Garbage)}
         /\ dbSize' \in {size, Larger(size, p)} /\ UNCHANGED <<inJournal, svpts>>
      \/ /\ Opened
         /\ jrnl' = IF JournalBegun(p) THEN logged ELSE base
         /\ journalOff' = IF JournalBegun(p) THEN off + 1 ELSE off
         /\ nRec' = IF JournalBegun(p) THEN count + 1 ELSE count
         /\ inJournal' = IF JournalBegun(p) THEN inJournal \cup {p} ELSE inJournal
         /\ next = Idle =>
               /\ savepoint' = IF JournalBegun(p) \/ subjournals(p, JournalBegun(p))
                               THEN addToSavepointBitvecs(p) ELSE savepoint
               /\ subJournal' = IF subjournals(p, JournalBegun(p))
                                THEN Append(subJournal, [pg |-> p, val |-> fetched[p]]) ELSE subJournal
         /\ cache' = [cache EXCEPT ![p] = version] /\ dbSize' = Larger(size, p) /\ call' = next
  <2> HIDE DEF PageContent
  <2> QED
    BY DEF PagerWrite, JournalBegun
<1> HIDE DEF opening, base, off, nonce, count, hdr, PageContent
<1>5. Opened => Opens(p, h)
  BY <1>1 DEF Opens, opening
<1>6. \/ /\ opening /\ journalOff' \in {journalOff, 1} /\ cache' = fetched /\ call' = error /\ dbSize' = size
         /\ UNCHANGED <<eState, dirty, needSync, inJournal, savepoint, subJournal>>
      \/ WriteFails(p, size, next, f, e, h)
      \/ WriteEnds(p, size, next, f, e, h)
  <2> HIDE DEF Opened, error
  <2>1. CASE /\ opening /\ journalOff' \in {journalOff, 1} /\ cache' = fetched /\ call' = error /\ dbSize' = size
             /\ UNCHANGED <<eState, dirty, needSync, inJournal, svpts>>
    BY <2>1 DEF svpts
  <2>2. CASE /\ Opened /\ journalOff' = off /\ nRec' = count /\ cache' = fetched /\ call' = error
             /\ jrnl' \in {base, logged, WriteAt(base, off + 1, Garbage, Garbage)}
             /\ dbSize' \in {size, Larger(size, p)} /\ UNCHANGED <<inJournal, svpts>>
    BY <1>1, <1>5, <2>2 DEF svpts, WriteFails, error
  <2>3. CASE /\ Opened
             /\ jrnl' = IF JournalBegun(p) THEN logged ELSE base
             /\ journalOff' = IF JournalBegun(p) THEN off + 1 ELSE off
             /\ nRec' = IF JournalBegun(p) THEN count + 1 ELSE count
             /\ inJournal' = IF JournalBegun(p) THEN inJournal \cup {p} ELSE inJournal
             /\ next = Idle =>
                   /\ savepoint' = IF JournalBegun(p) \/ subjournals(p, JournalBegun(p))
                                   THEN addToSavepointBitvecs(p) ELSE savepoint
                   /\ subJournal' = IF subjournals(p, JournalBegun(p))
                                    THEN Append(subJournal, [pg |-> p, val |-> fetched[p]]) ELSE subJournal
             /\ cache' = [cache EXCEPT ![p] = version] /\ dbSize' = Larger(size, p) /\ call' = next
    <3>1. count + 1 = e - h
      BY <1>1
    <3>2. CASE JournalBegun(p)
      BY <1>1, <1>5, <2>3, <3>1, <3>2 DEF WriteEnds, subjournals
    <3>3. CASE ~JournalBegun(p)
      BY <1>1, <1>2, <1>5, <2>3, <3>3 DEF WriteEnds, subjournals
    <3> QED
      BY <3>2, <3>3
  <2> QED
    BY <1>4, <2>1, <2>2, <2>3
<1> QED
  BY <1>3, <1>6 DEF opening

\* The journal after the write of a slot at its end.
LEMMA JournalGrows ==
    ASSUME NEW f \in Journals, NEW e \in Nat, NEW h \in Nat, LaidOut(f, e, h), f[h + 1].nRec = 0,
           NEW s \in Slots, NEW g, g = WriteAt(f, e + 1, s, Garbage)
    PROVE  /\ g \in Journals /\ e + 1 <= Len(g) /\ g[e + 1] = s
           /\ \A i \in 1 .. e : g[i] = f[i]
           /\ LaidOut(g, e, h) /\ g[h + 1].nRec = 0
           /\ s.kind = "rec" => LaidOut(g, e + 1, h)
<1>1. e + 1 \in Nat \ {0} /\ Len(f) \in Nat
  BY DEF Journals
<1>2. /\ g \in Journals /\ e + 1 <= Len(g) /\ g[e + 1] = s
      /\ \A i \in 1 .. Len(f) : i # e + 1 => g[i] = f[i]
  BY ZenonT(40), <1>1, SlotWritten
<1>3. h < e /\ e <= Len(f) /\ f[h + 1].kind = "hdr"
  BY DEF LaidOut
<1>4. \A i \in 1 .. e : g[i] = f[i]
  BY <1>1, <1>2, <1>3
<1>5. h + 1 \in 1 .. e /\ Len(g) \in Nat
  BY <1>2, <1>3 DEF Journals
<1>6. g[h + 1] = f[h + 1]
  BY <1>4, <1>5
<1>7. LaidOut(g, e, h)
  BY <1>2, <1>3, <1>4, <1>5, <1>6, LaidOutAgain
<1>8. ASSUME s.kind = "rec" PROVE LaidOut(g, e + 1, h)
  <2>1. \A i \in h + 2 .. e + 1 : g[i].kind = "rec"
    BY SMTT(40), <1>2, <1>3, <1>7, <1>8 DEF LaidOut
  <2> QED
    BY <1>2, <1>7, <2>1 DEF LaidOut
<1> QED
  BY <1>2, <1>4, <1>6, <1>7, <1>8

\* The savepoints that need the page have it.
LEMMA BitvecsAre ==
    ASSUME Types, NEW p \in Page, NEW sv, sv = addToSavepointBitvecs(p)
    PROVE  /\ Len(sv) = Len(savepoint)
           /\ \A k \in 1 .. Len(savepoint) :
                 /\ sv[k].nOrig = savepoint[k].nOrig /\ sv[k].iOffset = savepoint[k].iOffset
                 /\ sv[k].iHdrOffset = savepoint[k].iHdrOffset /\ sv[k].iSubRec = savepoint[k].iSubRec
                 /\ sv[k].image = savepoint[k].image
                 /\ sv[k].inSavepoint = savepoint[k].inSavepoint \cup (IF p <= savepoint[k].nOrig THEN {p} ELSE {})
<1>1. savepoint \in Seq(Savepoint) /\ Len(savepoint) \in Nat /\ DOMAIN savepoint = 1 .. Len(savepoint)
  BY DEF Types, TypesOfSavepoints
<1>2. sv = [k \in 1 .. Len(savepoint) |-> IF p <= savepoint[k].nOrig
                THEN [savepoint[k] EXCEPT !.inSavepoint = @ \cup {p}] ELSE savepoint[k]]
  BY <1>1 DEF addToSavepointBitvecs
<1>3. Len(sv) = Len(savepoint)
  BY <1>1, <1>2
<1>4. ASSUME NEW k \in 1 .. Len(savepoint)
      PROVE  /\ sv[k].nOrig = savepoint[k].nOrig /\ sv[k].iOffset = savepoint[k].iOffset
             /\ sv[k].iHdrOffset = savepoint[k].iHdrOffset /\ sv[k].iSubRec = savepoint[k].iSubRec
             /\ sv[k].image = savepoint[k].image
             /\ sv[k].inSavepoint = savepoint[k].inSavepoint \cup (IF p <= savepoint[k].nOrig THEN {p} ELSE {})
  <2>1. savepoint[k] \in Savepoint
    BY <1>1
  <2>2. sv[k] = IF p <= savepoint[k].nOrig
                THEN [savepoint[k] EXCEPT !.inSavepoint = @ \cup {p}] ELSE savepoint[k]
    BY <1>2
  <2> QED
    BY <2>1, <2>2 DEF Savepoint
<1> QED
  BY <1>3, <1>4

LEMMA NestedGrows ==
    ASSUME Types, NEW n \in Nat, Nested(savepoint, dbOrigSize, dbSize, Len(subJournal)), Len(subJournal) <= n,
           NEW s \in Nat, dbSize <= s, NEW sv, Len(sv) = Len(savepoint),
           \A k \in 1 .. Len(savepoint) :
                 /\ sv[k].nOrig = savepoint[k].nOrig /\ sv[k].iOffset = savepoint[k].iOffset
                 /\ sv[k].iSubRec = savepoint[k].iSubRec /\ sv[k].image = savepoint[k].image
    PROVE  Nested(sv, dbOrigSize, s, n)
<1>1. /\ dbOrigSize \in Nat /\ dbSize \in Nat /\ Len(subJournal) \in Nat /\ Len(savepoint) \in Nat
      /\ \A k \in 1 .. Len(savepoint) : savepoint[k].nOrig \in Nat /\ savepoint[k].iSubRec \in Nat
  BY ContentsAre, NestedIs
<1>2. \A k \in 1 .. Len(savepoint) : \A j \in 1 .. k : j \in 1 .. Len(savepoint)
  BY <1>1
<1>3. /\ dbOrigSize <= dbSize
      /\ \A k \in 1 .. Len(savepoint) :
            /\ dbOrigSize <= savepoint[k].nOrig /\ savepoint[k].nOrig <= dbSize
            /\ savepoint[k].iSubRec <= Len(subJournal) /\ 1 <= savepoint[k].iOffset
            /\ Len(savepoint[k].image) = savepoint[k].nOrig
      /\ \A k \in 1 .. Len(savepoint) : \A j \in 1 .. k :
            savepoint[j].nOrig <= savepoint[k].nOrig /\ savepoint[j].iSubRec <= savepoint[k].iSubRec
            /\ savepoint[j].iOffset <= savepoint[k].iOffset
  BY DEF Nested
<1>4. ASSUME NEW k \in 1 .. Len(sv)
      PROVE  /\ dbOrigSize <= sv[k].nOrig /\ sv[k].nOrig <= s /\ sv[k].iSubRec <= n /\ 1 <= sv[k].iOffset
             /\ Len(sv[k].image) = sv[k].nOrig
  <2>1. k \in 1 .. Len(savepoint)
    OBVIOUS
  <2>2. /\ sv[k].nOrig = savepoint[k].nOrig /\ sv[k].iOffset = savepoint[k].iOffset
        /\ sv[k].iSubRec = savepoint[k].iSubRec /\ sv[k].image = savepoint[k].image
    BY <2>1
  <2>3. savepoint[k].nOrig <= s
    <3>1. savepoint[k].nOrig <= dbSize /\ savepoint[k].nOrig \in Nat
      BY <1>1, <1>3, <2>1
    <3> QED
      BY <1>1, <3>1
  <2>4. savepoint[k].iSubRec <= n
    <3>1. savepoint[k].iSubRec <= Len(subJournal) /\ savepoint[k].iSubRec \in Nat
      BY <1>1, <1>3, <2>1
    <3> QED
      BY <1>1, <3>1
  <2> QED
    BY <1>3, <2>1, <2>2, <2>3, <2>4
<1>5. ASSUME NEW k \in 1 .. Len(sv), NEW j \in 1 .. k
      PROVE  sv[j].nOrig <= sv[k].nOrig /\ sv[j].iSubRec <= sv[k].iSubRec /\ sv[j].iOffset <= sv[k].iOffset
  <2>1. k \in 1 .. Len(savepoint) /\ j \in 1 .. Len(savepoint)
    BY <1>2
  <2> QED
    BY <1>3, <2>1
<1>6. dbOrigSize <= s
  BY <1>1, <1>3
<1> QED
  BY <1>4, <1>5, <1>6 DEF Nested

\* The cache after a write.
LEMMA FetchedIs ==
    ASSUME Types, NEW p \in Page, NEW v \in {version, PageContent(p)}, cache' = [cache EXCEPT ![p] = v],
           UNCHANGED db, dbSize' \in Nat, dbSize <= dbSize'
    PROVE  /\ cache'[p] = v /\ cache'[p] # NotCached
           /\ \A q \in Page : cache[q] # NotCached => cache'[q] # NotCached
           /\ \A q \in 1 .. dbSize : q # p \/ v = PageContent(p) => Contents'[q] = Contents[q]
<1>1. cache \in [Page -> Content \cup {NotCached}] /\ v \in Content /\ NotCached \notin Content
  BY PageContentIs DEF Types, TypesOfCache
<1>2. /\ cache'[p] = v /\ v # NotCached /\ \A q \in Page : q # p => cache'[q] = cache[q]
  BY <1>1
<1>3. ASSUME NEW q \in 1 .. dbSize, q # p \/ v = PageContent(p) PROVE Contents'[q] = Contents[q]
  <2>1. q \in Page /\ Contents[q] = PageContent(q) /\ Contents'[q] = PageContent(q)' /\ dbSize \in Nat
    <3>1. q \in Page /\ Contents[q] = PageContent(q) /\ dbSize \in Nat
      BY ContentsAre
    <3> QED
      BY <3>1 DEF Contents
  <2>2. CASE q # p
    BY <1>2, <2>1, <2>2 DEF PageContent
  <2>3. CASE q = p
    <3>1. PageContent(q)' = cache'[q]
      BY <1>2, <2>3 DEF PageContent
    <3> QED
      BY <1>2, <1>3, <2>1, <2>3, <3>1
  <2> QED
    BY <2>2, <2>3
<1> QED
  BY <1>1, <1>2, <1>3

\* A page that is not in the journal is in none of the journals.
LEMMA NotLoggedYet ==
    ASSUME Types, NEW f, NEW e \in Nat, NEW h \in Nat, NEW B \in Images, Ready(f, e, h, B),
           NEW p \in Page, JournalBegun(p), NEW k \in 1 .. Len(savepoint)
    PROVE  p \notin savepoint[k].inSavepoint
<1>1. /\ \A i \in 1 .. e : f[i].kind = "rec" => f[i].pg \in inJournal
      /\ \A j \in 1 .. Len(subJournal) : subJournal[j].pg \in inJournal \/ subJournal[j].pg > dbOrigSize
      /\ Preserved(f, e, subJournal, savepoint[k].iOffset, savepoint[k].iSubRec,
                   savepoint[k].inSavepoint, savepoint[k].image, Contents)
      /\ Nested(savepoint, dbOrigSize, dbSize, Len(subJournal))
  BY DEF Ready
<1>2. /\ savepoint[k].iOffset \in Nat /\ savepoint[k].iSubRec \in Nat /\ dbOrigSize <= savepoint[k].nOrig
      /\ Len(savepoint[k].image) = savepoint[k].nOrig /\ savepoint[k].nOrig \in Nat /\ Len(subJournal) \in Nat
  BY <1>1, NestedIs
<1> DEFINE o == savepoint[k].iOffset
           m == savepoint[k].iSubRec
           I == savepoint[k].image
           S == savepoint[k].inSavepoint
<1>3. p \in 1 .. Len(I) /\ p \notin inJournal /\ ~(p > dbOrigSize)
  <2>1. p \in Nat /\ 1 <= p /\ p <= dbOrigSize /\ dbOrigSize \in Nat /\ p \notin inJournal
    BY ContentsAre DEF JournalBegun, Page
  <2> QED
    BY <1>2, <2>1
<1>4. o \in Nat /\ m \in Nat /\ Preserved(f, e, subJournal, o, m, S, I, Contents)
  BY <1>1, <1>2
<1> HIDE DEF o, m, I
<1>5. ASSUME p \in S PROVE FALSE
  <2>1. Logs(f, e, subJournal, o, m, p, I[p])
    BY <1>3, <1>4, <1>5 DEF Preserved
  <2>2. ASSUME NEW i \in o + 1 .. e, f[i].kind = "rec", f[i].pg = p PROVE FALSE
    <3>1. i \in 1 .. e
      BY <1>4
    <3> QED
      BY <1>1, <1>3, <2>2, <3>1
  <2>3. ASSUME NEW j \in m + 1 .. Len(subJournal), subJournal[j].pg = p PROVE FALSE
    <3>1. j \in 1 .. Len(subJournal)
      BY <1>2, <1>4
    <3> QED
      BY <1>1, <1>3, <2>3, <3>1
  <2> QED
    BY <2>1, <2>2, <2>3 DEF Logs, RecordedAs
<1> QED
  BY <1>5

\* The page is journalled.
LEMMA JournallingKeeps ==
    ASSUME Types, Types', NEW B \in Images, NEW p \in Page, NEW f \in Journals, NEW e \in Nat, NEW h \in Nat,
           Ready(f, e, h, B), f[h + 1].nRec = 0, eState \in Changing,
           \A q \in needSync : cache[q] # NotCached,
           eState # "WRITER_DBMOD" =>
              h = 0 /\ \A j \in 1 .. Len(subJournal) : cache[subJournal[j].pg] # NotCached,
           UNCHANGED <<dbOrigSize, db>>, WriteEnds(p, dbSize, Idle, f, e, h), JournalBegun(p)
    PROVE  Keeping(B)'
<1>1. /\ LaidOut(f, e, h) /\ Len(B) = dbOrigSize
      /\ Nested(savepoint, dbOrigSize, dbSize, Len(subJournal))
      /\ \A i \in h + 2 .. e : f[i].pg \in needSync
      /\ \A i \in 1 .. e : f[i].kind = "rec" => f[i].pg \in inJournal
      /\ Distinct(f, e)
      /\ \A j \in 1 .. Len(subJournal) : subJournal[j].pg \in inJournal \/ subJournal[j].pg > dbOrigSize
      /\ \A k \in 1 .. Len(savepoint) : Points(f, e, h, savepoint[k])
      /\ Preserved(f, e, <<>>, 1, 0, inJournal, B, Contents)
      /\ \A k \in 1 .. Len(savepoint) :
            Preserved(f, e, subJournal, savepoint[k].iOffset, savepoint[k].iSubRec,
                      savepoint[k].inSavepoint, savepoint[k].image, Contents)
  BY DEF Ready
<1> PICK s, v : s = Record(p, v, <<txn, h>>) /\ v = PageContent(p)
  OBVIOUS
<1>2. v \in Content /\ s \in Slots /\ s.kind = "rec" /\ s.pg = p /\ s.val = v
  <2>1. v \in Content /\ txn \in 0 .. MaxTxn
    BY PageContentIs, FilesAre
  <2>2. s \in Slots /\ s.kind = "rec" /\ s.pg = p /\ s.val = v
    BY <2>1, RecordIs
  <2> QED
    BY <2>1, <2>2
<1>3. /\ journalOff' = e + 1 /\ journalHdr' = h
      /\ jrnl' = WriteAt(f, e + 1, s, Garbage)
      /\ inJournal' = inJournal \cup {p} /\ needSync' = needSync \cup {p}
      /\ savepoint' = addToSavepointBitvecs(p) /\ subJournal' = subJournal
      /\ cache' = [cache EXCEPT ![p] = version]
      /\ call' = Idle /\ dbSize' = Larger(dbSize, p)
      /\ eState' = IF eState = "WRITER_LOCKED" THEN "WRITER_CACHEMOD" ELSE eState
  BY DEF WriteEnds, Opens
<1>4. /\ e + 1 <= Len(jrnl') /\ jrnl'[e + 1] = s
      /\ \A i \in 1 .. e : jrnl'[i] = f[i]
      /\ LaidOut(jrnl', e + 1, h)
  <2> PICK g : g = jrnl'
    OBVIOUS
  <2>1. g = WriteAt(f, e + 1, s, Garbage)
    BY <1>3
  <2>2. /\ e + 1 <= Len(g) /\ g[e + 1] = s
        /\ \A i \in 1 .. e : g[i] = f[i]
        /\ s.kind = "rec" => LaidOut(g, e + 1, h)
    <3>1. f \in Journals /\ e \in Nat /\ h \in Nat /\ LaidOut(f, e, h) /\ f[h + 1].nRec = 0 /\ s \in Slots
      BY <1>1, <1>2
    <3> QED
      BY ONLY SMTT(40), <2>1, <3>1, JournalGrows
  <2> QED
    BY <1>2, <2>2
<1>5. /\ h < e /\ dbOrigSize <= dbSize /\ dbSize \in Nat /\ dbOrigSize \in Nat
      /\ p \notin inJournal /\ p <= dbOrigSize /\ p \in 1 .. dbSize
      /\ dbSize' \in Nat /\ dbSize <= dbSize'
  <2>1. h < e /\ dbOrigSize <= dbSize /\ dbSize \in Nat /\ dbOrigSize \in Nat
    BY <1>1, ContentsAre DEF LaidOut, Nested
  <2>2. p \in Nat /\ 1 <= p /\ p <= dbOrigSize /\ p \notin inJournal
    BY DEF JournalBegun, Page
  <2> QED
    BY <1>3, <2>1, <2>2 DEF Larger
<1>6. /\ cache'[p] # NotCached
      /\ \A q \in Page : cache[q] # NotCached => cache'[q] # NotCached
      /\ \A q \in 1 .. dbSize : q # p => Contents'[q] = Contents[q]
  BY <1>3, <1>5, FetchedIs
<1>7. Contents[p] = v
  BY ContentsAre
<1>8. /\ Len(savepoint') = Len(savepoint)
      /\ \A k \in 1 .. Len(savepoint) :
            /\ savepoint'[k].nOrig = savepoint[k].nOrig /\ savepoint'[k].iOffset = savepoint[k].iOffset
            /\ savepoint'[k].iHdrOffset = savepoint[k].iHdrOffset /\ savepoint'[k].iSubRec = savepoint[k].iSubRec
            /\ savepoint'[k].image = savepoint[k].image
            /\ savepoint'[k].inSavepoint = savepoint[k].inSavepoint \cup (IF p <= savepoint[k].nOrig THEN {p} ELSE {})
  BY <1>3, BitvecsAre
<1>9. PagesLogged'
  <2>1. \A q \in needSync' : cache'[q] # NotCached
    <3>1. needSync \subseteq Page
      BY DEF Types, TypesOfCache
    <3> QED
      BY <1>3, <1>6, <3>1
  <2>2. \A i \in h + 2 .. e + 1 : jrnl'[i].pg \in needSync'
    <3> SUFFICES ASSUME NEW i \in h + 2 .. e + 1 PROVE jrnl'[i].pg \in needSync'
      OBVIOUS
    <3>1. CASE i = e + 1
      BY <1>2, <1>3, <1>4, <3>1
    <3>2. CASE i # e + 1
      <4>1. i \in h + 2 .. e /\ i \in 1 .. e
        BY <3>2
      <4> QED
        BY <1>1, <1>3, <1>4, <4>1
    <3> QED
      BY <3>1, <3>2
  <2>3. \A i \in 1 .. e + 1 : jrnl'[i].kind = "rec" => jrnl'[i].pg \in inJournal'
    <3> SUFFICES ASSUME NEW i \in 1 .. e + 1, jrnl'[i].kind = "rec" PROVE jrnl'[i].pg \in inJournal'
      OBVIOUS
    <3>1. CASE i = e + 1
      BY <1>2, <1>3, <1>4, <3>1
    <3>2. CASE i # e + 1
      <4>1. i \in 1 .. e
        BY <3>2
      <4> QED
        BY <1>1, <1>3, <1>4, <4>1
    <3> QED
      BY <3>1, <3>2
  <2>4. Distinct(jrnl', e + 1)
    <3> SUFFICES ASSUME NEW i \in 1 .. e + 1, NEW j \in 1 .. e + 1, jrnl'[i].kind = "rec", jrnl'[j].kind = "rec",
                        jrnl'[i].pg = jrnl'[j].pg
                 PROVE  i = j
      BY DEF Distinct
    <3>1. ASSUME NEW x \in 1 .. e, jrnl'[x].kind = "rec" PROVE jrnl'[x].pg # p
      BY <1>1, <1>4, <1>5, <3>1
    <3>2. jrnl'[e + 1].pg = p
      BY <1>2, <1>4
    <3>3. CASE i \in 1 .. e /\ j \in 1 .. e
      BY <1>1, <1>4, <3>3 DEF Distinct
    <3>4. CASE i = e + 1 /\ j \in 1 .. e
      BY <3>1, <3>2, <3>4
    <3>5. CASE i \in 1 .. e /\ j = e + 1
      BY <3>1, <3>2, <3>5
    <3> QED
      BY <3>3, <3>4, <3>5
  <2>5. eState' = "WRITER_CACHEMOD" =>
           h = 0 /\ \A j \in 1 .. Len(subJournal) : cache'[subJournal[j].pg] # NotCached
    <3>1. eState' = "WRITER_CACHEMOD" => eState # "WRITER_DBMOD"
      BY <1>3 DEF Changing
    <3> QED
      BY <1>6, <3>1, SubPages
  <2>6. \A j \in 1 .. Len(subJournal) : subJournal[j].pg \in inJournal' \/ subJournal[j].pg > dbOrigSize
    BY <1>1, <1>3
  <2>7. call'.op # "Stress" /\ call'.at # "stressWrite"
    BY <1>3, CallIsAt
  <2>8. ASSUME NEW k \in 1 .. Len(savepoint) PROVE Points(jrnl', e + 1, h, savepoint'[k])
    <3>1. /\ Points(f, e, h, savepoint[k]) /\ savepoint[k].iOffset \in Nat \ {0} /\ savepoint[k].iHdrOffset \in Nat
      BY <1>1, NestedIs
    <3>2. e <= e + 1 /\ e + 1 \in Nat /\ \A i \in 1 .. e : jrnl'[i].kind = f[i].kind
      BY <1>4
    <3>3. savepoint'[k].iOffset = savepoint[k].iOffset /\ savepoint'[k].iHdrOffset = savepoint[k].iHdrOffset
      BY <1>8
    <3> QED
      BY <1>5, <3>1, <3>2, <3>3, PointsAgain
  <2> QED
    BY <1>3, <1>8, <2>1, <2>2, <2>3, <2>4, <2>5, <2>6, <2>7, <2>8 DEF PagesLogged
<1>10. Nested(savepoint', dbOrigSize, dbSize', Len(subJournal))
  <2>1. Len(subJournal) \in Nat /\ Len(subJournal) <= Len(subJournal)
    BY <1>1, NestedIs
  <2> QED
    BY <1>1, <1>5, <1>8, <2>1, NestedGrows
<1>11. Preserved(jrnl', e + 1, <<>>, 1, 0, inJournal', B, Contents')
  <2>1. 1 \in Nat /\ 1 <= e
    BY <1>5
  <2>2. \A q \in 1 .. Len(B) : /\ q \in inJournal' <=> q \in inJournal \/ q = p
                               /\ q = p => Contents[q] = v
                               /\ q # p => Contents'[q] = Contents[q]
    BY <1>1, <1>3, <1>5, <1>6, <1>7
  <2> HIDE DEF Contents
  <2>3. jrnl'[e + 1].kind = "rec" /\ jrnl'[e + 1].pg = p /\ jrnl'[e + 1].val = v
    BY <1>2, <1>4
  <2>4. (\A i \in 1 .. e : jrnl'[i] = f[i]) /\ Preserved(f, e, <<>>, 1, 0, inJournal, B, Contents) /\ p \notin inJournal
    BY <1>1, <1>4, <1>5
  <2> QED
    BY <2>1, <2>2, <2>3, <2>4, PreservedJournalled
<1>12. ASSUME NEW k \in 1 .. Len(savepoint)
       PROVE  Preserved(jrnl', e + 1, subJournal, savepoint'[k].iOffset, savepoint'[k].iSubRec,
                        savepoint'[k].inSavepoint, savepoint'[k].image, Contents')
  <2> DEFINE o == savepoint[k].iOffset
             m == savepoint[k].iSubRec
             I == savepoint[k].image
             S == savepoint[k].inSavepoint
             T == savepoint'[k].inSavepoint
  <2>1. /\ o \in Nat /\ Len(I) \in Nat /\ Len(I) <= dbSize /\ Len(I) = savepoint[k].nOrig
        /\ Preserved(f, e, subJournal, o, m, S, I, Contents)
    BY <1>1, NestedIs
  <2>2. o <= e
    <3>1. Points(f, e, h, savepoint[k]) /\ savepoint[k].iHdrOffset \in Nat
      BY <1>1, NestedIs
    <3> QED
      BY <1>5, <2>1, <3>1 DEF Points
  <2>3. p \notin S
    BY NotLoggedYet
  <2>4. T = S \cup (IF p <= savepoint[k].nOrig THEN {p} ELSE {})
    BY <1>8
  <2>5. \A q \in 1 .. Len(I) : /\ q \in T <=> q \in S \/ q = p
                               /\ q = p => Contents[q] = v
                               /\ q # p => Contents'[q] = Contents[q]
    <3> HIDE DEF S, T, Contents
    <3> SUFFICES ASSUME NEW q \in 1 .. Len(I)
                 PROVE  /\ q \in T <=> q \in S \/ q = p
                        /\ q = p => Contents[q] = v
                        /\ q # p => Contents'[q] = Contents[q]
      OBVIOUS
    <3>1. q \in 1 .. dbSize
      BY <1>5, <2>1
    <3>2. q = p => p <= savepoint[k].nOrig
      BY <2>1
    <3> QED
      BY <1>6, <1>7, <2>4, <3>1, <3>2
  <2>6. /\ savepoint'[k].iOffset = o /\ savepoint'[k].iSubRec = m /\ savepoint'[k].image = I
    BY <1>8
  <2> HIDE DEF o, m, I, S, T, Contents
  <2>7. jrnl'[e + 1].kind = "rec" /\ jrnl'[e + 1].pg = p /\ jrnl'[e + 1].val = v
    BY <1>2, <1>4
  <2>8. (\A i \in 1 .. e : jrnl'[i] = f[i]) /\ o \in Nat /\ Preserved(f, e, subJournal, o, m, S, I, Contents)
    BY <1>4, <2>1
  <2>9. Preserved(jrnl', e + 1, subJournal, o, m, T, I, Contents')
    BY <2>2, <2>3, <2>5, <2>7, <2>8, PreservedJournalled
  <2> QED
    BY ONLY <2>6, <2>9 DEF T
<1>13. eState' # "WRITER_LOCKED" /\ call'.at # "restored"
  BY <1>3, CallIsAt
<1>14. (Len(B) = dbOrigSize)' /\ Len(subJournal') = Len(subJournal)
  BY <1>1, <1>3
<1> QED
  BY <1>3, <1>8, <1>9, <1>10, <1>11, <1>12, <1>13, <1>14 DEF Keeping

\* The page is in the journal, or it is new; the sub-journal takes it when a savepoint
\* needs it.
LEMMA CopyingKeeps ==
    ASSUME Types, Types', NEW B \in Images, NEW p \in Page, NEW f \in Journals, NEW e \in Nat, NEW h \in Nat,
           Ready(f, e, h, B), eState \in Changing, p <= dbSize + 1,
           \A q \in needSync : cache[q] # NotCached,
           eState # "WRITER_DBMOD" =>
              h = 0 /\ \A j \in 1 .. Len(subJournal) : cache[subJournal[j].pg] # NotCached,
           UNCHANGED <<dbOrigSize, db>>, WriteEnds(p, dbSize, Idle, f, e, h), ~JournalBegun(p)
    PROVE  Keeping(B)'
<1>1. /\ LaidOut(f, e, h) /\ Len(B) = dbOrigSize
      /\ Nested(savepoint, dbOrigSize, dbSize, Len(subJournal))
      /\ \A i \in h + 2 .. e : f[i].pg \in needSync
      /\ \A i \in 1 .. e : f[i].kind = "rec" => f[i].pg \in inJournal
      /\ Distinct(f, e)
      /\ \A j \in 1 .. Len(subJournal) : subJournal[j].pg \in inJournal \/ subJournal[j].pg > dbOrigSize
      /\ \A k \in 1 .. Len(savepoint) : Points(f, e, h, savepoint[k])
      /\ Preserved(f, e, <<>>, 1, 0, inJournal, B, Contents)
      /\ \A k \in 1 .. Len(savepoint) :
            Preserved(f, e, subJournal, savepoint[k].iOffset, savepoint[k].iSubRec,
                      savepoint[k].inSavepoint, savepoint[k].image, Contents)
  BY DEF Ready
<1> PICK v : v = PageContent(p)
  OBVIOUS
<1>2. v \in Content
  BY PageContentIs
<1>3. /\ journalOff' = e /\ journalHdr' = h /\ jrnl' = f /\ inJournal' = inJournal
      /\ needSync \subseteq needSync' /\ needSync' \subseteq needSync \cup {p}
      /\ cache' = [cache EXCEPT ![p] = version]
      /\ call' = Idle /\ dbSize' = Larger(dbSize, p)
      /\ eState' = IF eState = "WRITER_LOCKED" THEN "WRITER_CACHEMOD" ELSE eState
      /\ IF subjRequiresPage(p)
         THEN /\ savepoint' = addToSavepointBitvecs(p)
              /\ subJournal' = Append(subJournal, [pg |-> p, val |-> v])
         ELSE savepoint' = savepoint /\ subJournal' = subJournal
  BY DEF WriteEnds, Opens
<1>4. /\ h < e /\ dbOrigSize <= dbSize /\ dbSize \in Nat /\ dbOrigSize \in Nat
      /\ p \in inJournal \/ p > dbOrigSize
      /\ dbSize' \in Nat /\ dbSize <= dbSize'
      /\ p \in Nat \ {0}
  <2>1. h < e /\ dbOrigSize <= dbSize /\ dbSize \in Nat /\ dbOrigSize \in Nat
    BY <1>1, ContentsAre DEF LaidOut, Nested
  <2>2. p \in Nat \ {0} /\ (p \in inJournal \/ p > dbOrigSize)
    BY <2>1 DEF JournalBegun, Page
  <2> QED
    BY <1>3, <2>1, <2>2 DEF Larger
<1>5. /\ cache'[p] # NotCached
      /\ \A q \in Page : cache[q] # NotCached => cache'[q] # NotCached
      /\ \A q \in 1 .. dbSize : q # p => Contents'[q] = Contents[q]
  BY <1>3, <1>4, FetchedIs
<1>6. Contents[p] = v
  BY ContentsAre
<1>7. /\ Len(savepoint') = Len(savepoint)
      /\ \A k \in 1 .. Len(savepoint) :
            /\ savepoint'[k].nOrig = savepoint[k].nOrig /\ savepoint'[k].iOffset = savepoint[k].iOffset
            /\ savepoint'[k].iHdrOffset = savepoint[k].iHdrOffset /\ savepoint'[k].iSubRec = savepoint[k].iSubRec
            /\ savepoint'[k].image = savepoint[k].image
            /\ savepoint'[k].inSavepoint =
                  savepoint[k].inSavepoint \cup (IF subjRequiresPage(p) /\ p <= savepoint[k].nOrig THEN {p} ELSE {})
  <2>1. CASE subjRequiresPage(p)
    BY <1>3, <2>1, BitvecsAre
  <2>2. CASE ~subjRequiresPage(p)
    BY <1>3, <2>2
  <2> QED
    BY <2>1, <2>2
<1>8. /\ Len(subJournal) \in Nat /\ Len(subJournal') \in Nat /\ Len(subJournal) <= Len(subJournal')
      /\ \A j \in 1 .. Len(subJournal') : subJournal'[j].pg = p \/ (j \in 1 .. Len(subJournal) /\ subJournal'[j] = subJournal[j])
  <2>1. subJournal \in Seq(SubRecord) /\ Len(subJournal) \in Nat
    BY <1>1, NestedIs
  <2>2. CASE subjRequiresPage(p)
    <3> PICK r : r = [pg |-> p, val |-> v]
      OBVIOUS
    <3>1. r \in SubRecord /\ r.pg = p
      BY <1>2 DEF SubRecord
    <3>2. subJournal' = Append(subJournal, r)
      BY <1>3, <2>2
    <3>3. Len(subJournal') = Len(subJournal) + 1 /\ subJournal'[Len(subJournal) + 1] = r
          /\ \A j \in 1 .. Len(subJournal) : subJournal'[j] = subJournal[j]
      BY <2>1, <3>1, <3>2
    <3> QED
      BY <2>1, <3>1, <3>3
  <2>3. CASE ~subjRequiresPage(p)
    BY <1>3, <2>1, <2>3
  <2> QED
    BY <2>2, <2>3
<1>9. PagesLogged'
  <2>1. \A q \in needSync' : cache'[q] # NotCached
    <3>1. needSync \subseteq Page
      BY DEF Types, TypesOfCache
    <3> QED
      BY <1>3, <1>5, <3>1
  <2>2. \A i \in h + 2 .. e : jrnl'[i].pg \in needSync'
    BY <1>1, <1>3
  <2>3. (\A i \in 1 .. e : jrnl'[i].kind = "rec" => jrnl'[i].pg \in inJournal') /\ Distinct(jrnl', e)
    BY <1>1, <1>3
  <2>4. eState' = "WRITER_CACHEMOD" =>
           h = 0 /\ \A j \in 1 .. Len(subJournal') : cache'[subJournal'[j].pg] # NotCached
    <3>1. eState' = "WRITER_CACHEMOD" => eState # "WRITER_DBMOD"
      BY <1>3 DEF Changing
    <3>2. eState' = "WRITER_CACHEMOD" => \A j \in 1 .. Len(subJournal) : cache'[subJournal[j].pg] # NotCached
      BY <1>5, <3>1, SubPages
    <3> QED
      BY <1>5, <1>8, <3>1, <3>2
  <2>5. \A j \in 1 .. Len(subJournal') : subJournal'[j].pg \in inJournal' \/ subJournal'[j].pg > dbOrigSize
    BY <1>1, <1>3, <1>4, <1>8
  <2>6. call'.op # "Stress" /\ call'.at # "stressWrite"
    BY <1>3, CallIsAt
  <2>7. ASSUME NEW k \in 1 .. Len(savepoint) PROVE Points(jrnl', e, h, savepoint'[k])
    <3>1. /\ Points(f, e, h, savepoint[k]) /\ savepoint[k].iOffset \in Nat \ {0} /\ savepoint[k].iHdrOffset \in Nat
      BY <1>1, NestedIs
    <3>2. e <= e /\ \A i \in 1 .. e : jrnl'[i].kind = f[i].kind
      BY <1>3
    <3>3. savepoint'[k].iOffset = savepoint[k].iOffset /\ savepoint'[k].iHdrOffset = savepoint[k].iHdrOffset
      BY <1>7
    <3> QED
      BY <1>4, <3>1, <3>2, <3>3, PointsAgain
  <2> QED
    BY <1>3, <1>7, <2>1, <2>2, <2>3, <2>4, <2>5, <2>6, <2>7 DEF PagesLogged
<1>10. Nested(savepoint', dbOrigSize, dbSize', Len(subJournal'))
  BY <1>1, <1>4, <1>7, <1>8, NestedGrows
<1>11. SameRecords(f, e, f, e)
  BY DEF SameRecords
<1>12. Preserved(f, e, <<>>, 1, 0, inJournal, B, Contents')
  <2>1. \A q \in 1 .. Len(B) : q \notin inJournal => Contents'[q] = Contents[q]
    BY <1>1, <1>4, <1>5
  <2> HIDE DEF Contents
  <2> QED
    BY <1>1, <1>11, <2>1, PreservedAgain
<1>13. ASSUME NEW k \in 1 .. Len(savepoint)
       PROVE  Preserved(f, e, subJournal', savepoint'[k].iOffset, savepoint'[k].iSubRec,
                        savepoint'[k].inSavepoint, savepoint'[k].image, Contents')
  <2> DEFINE o == savepoint[k].iOffset
             m == savepoint[k].iSubRec
             I == savepoint[k].image
             S == savepoint[k].inSavepoint
             T == savepoint'[k].inSavepoint
             n == savepoint[k].nOrig
  <2>1. /\ o \in Nat /\ m \in Nat /\ m <= Len(subJournal) /\ subJournal \in Seq(SubRecord)
        /\ Len(I) \in Nat /\ Len(I) <= dbSize /\ Len(I) = n
        /\ Preserved(f, e, subJournal, o, m, S, I, Contents)
    BY <1>1, NestedIs
  <2>2. T = S \cup (IF subjRequiresPage(p) /\ p <= n THEN {p} ELSE {})
    BY <1>7
  <2>3. ~subjRequiresPage(p) => p > n \/ p \in S
    <3>1. ASSUME p <= n, p \notin S PROVE subjRequiresPage(p)
      BY <3>1 DEF subjRequiresPage
    <3>2. p \in Nat /\ n \in Nat
      BY <1>4, <2>1
    <3> QED
      BY <3>1, <3>2
  <2>4. /\ savepoint'[k].iOffset = o /\ savepoint'[k].iSubRec = m /\ savepoint'[k].image = I
    BY <1>7
  <2>5. \A q \in 1 .. Len(I) : q \in 1 .. dbSize
    BY <1>4, <2>1
  <2> HIDE DEF o, m, I, S, T, Contents, n
  <2>6. CASE subjRequiresPage(p)
    <3>1. \A q \in 1 .. Len(I) : /\ q \in T <=> q \in S \/ q = p
                                 /\ q = p /\ q \notin S => Contents[q] = v
                                 /\ q # p => Contents'[q] = Contents[q]
      BY <1>5, <1>6, <2>1, <2>2, <2>5, <2>6
    <3>2. Preserved(f, e, Append(subJournal, [pg |-> p, val |-> v]), o, m, T, I, Contents')
      BY <1>2, <2>1, <3>1, PreservedCopied
    <3> QED
      BY <1>3, <2>4, <2>6, <3>2 DEF T
  <2>7. CASE ~subjRequiresPage(p)
    <3>1. \A q \in 1 .. Len(I) : q \notin S => Contents'[q] = Contents[q]
      <4>1. p > n \/ p \in S
        BY <2>3, <2>7
      <4>2. \A q \in 1 .. Len(I) : q \notin S => q # p
        BY <1>4, <2>1, <4>1
      <4> QED
        BY <1>5, <2>5, <4>2
    <3>2. T = S
      BY <2>2, <2>7
    <3>3. Preserved(f, e, subJournal, o, m, S, I, Contents')
      BY <1>11, <2>1, <3>1, PreservedAgain
    <3> QED
      BY <1>3, <2>4, <2>7, <3>2, <3>3 DEF T
  <2> QED
    BY <2>6, <2>7
<1>14. eState' # "WRITER_LOCKED" /\ call'.at # "restored"
  BY <1>3, CallIsAt
<1>15. (Len(B) = dbOrigSize)'
  BY <1>1
<1> QED
  BY <1>3, <1>7, <1>9, <1>10, <1>12, <1>13, <1>14, <1>15 DEF Keeping

\* After a write the journal goes on.
LEMMA WriteAppends ==
    ASSUME Types, NEW p \in Page, NEW size, NEW next, NEW f \in Journals, NEW e \in Nat, NEW h \in Nat,
           LaidOut(f, e, h), f[h + 1].nRec = 0, txn' = txn, call'.at # "syncHdr",
           WriteFails(p, size, next, f, e, h) \/ WriteEnds(p, size, next, f, e, h)
    PROVE  Appending'
<1> PICK s : s = Record(p, PageContent(p), <<txn, h>>)
  OBVIOUS
<1>1. s \in Slots /\ s.kind = "rec"
  <2>1. PageContent(p) \in Content /\ txn \in 0 .. MaxTxn
    BY PageContentIs, FilesAre
  <2> QED
    BY <2>1, RecordIs
<1>2. Garbage \in Slots
  BY GarbageIs
<1>3. jfdOpen' /\ cksumInit' = <<txn, h>> /\ journalHdr' = h
  BY DEF WriteFails, WriteEnds, Opens
<1>4. /\ nRec' = journalOff' - h - 1
      /\ \/ journalOff' = e /\ jrnl' = f
         \/ journalOff' = e /\ jrnl' = WriteAt(f, e + 1, s, Garbage)
         \/ journalOff' = e /\ jrnl' = WriteAt(f, e + 1, Garbage, Garbage)
         \/ journalOff' = e + 1 /\ jrnl' = WriteAt(f, e + 1, s, Garbage)
  <2>1. e - h = e + 1 - h - 1
    OBVIOUS
  <2> HIDE DEF PageContent
  <2> QED
    BY <2>1 DEF WriteFails, WriteEnds
<1> PICK g : g = jrnl'
  OBVIOUS
<1>5. LaidOut(g, journalOff', h) /\ g[h + 1].nRec = 0
  <2>1. CASE journalOff' = e /\ g = f
    BY <2>1
  <2>2. CASE g = WriteAt(f, e + 1, s, Garbage) /\ journalOff' \in {e, e + 1}
    <3>1. g = WriteAt(f, e + 1, s, Garbage)
      BY <2>2
    <3>2. LaidOut(g, e, h) /\ g[h + 1].nRec = 0 /\ (s.kind = "rec" => LaidOut(g, e + 1, h))
      BY ONLY <1>1, <3>1, f \in Journals, e \in Nat, h \in Nat, LaidOut(f, e, h), f[h + 1].nRec = 0, JournalGrows
    <3> QED
      BY <1>1, <2>2, <3>2
  <2>3. CASE g = WriteAt(f, e + 1, Garbage, Garbage) /\ journalOff' = e
    <3>1. g = WriteAt(f, e + 1, Garbage, Garbage)
      BY <2>3
    <3>2. LaidOut(g, e, h) /\ g[h + 1].nRec = 0
      BY ONLY <1>2, <3>1, f \in Journals, e \in Nat, h \in Nat, LaidOut(f, e, h), f[h + 1].nRec = 0, JournalGrows
    <3> QED
      BY <2>3, <3>2
  <2> QED
    BY <1>4, <2>1, <2>2, <2>3
<1> QED
  BY <1>3, <1>4, <1>5 DEF Appending

\* After a write the dirty pages are cached.
LEMMA WriteControls ==
    ASSUME Types, NEW c, Preserving(c), eState \in Changing, \A q \in dirty : cache[q] # NotCached,
           NEW p \in Page, NEW size, NEW next, NEW f, NEW e, NEW h,
           WriteFails(p, size, next, f, e, h) \/ WriteEnds(p, size, next, f, e, h),
           next \in {Idle, [op |-> "CommitPhaseOne", pg |-> 0, at |-> "syncRecords"]}
    PROVE  /\ Control' /\ eState' \in Modified
           /\ call'.at # "syncHdr" /\ call'.at # "stressWrite" /\ call'.op # "Stress" /\ call'.at # "restored"
           /\ next # Idle => ~Saving'
<1>1. /\ eState' = IF eState = "WRITER_LOCKED" THEN "WRITER_CACHEMOD" ELSE eState
      /\ dirty' = dirty \cup {p}
      /\ cache' = [cache EXCEPT ![p] = version] \/ cache' = [cache EXCEPT ![p] = PageContent(p)]
      /\ call' = next \/ call' = [Idle EXCEPT !.at = IF next = Idle THEN "failedWrite" ELSE "failed"]
  <2> HIDE DEF PageContent
  <2> QED
    BY DEF WriteFails, WriteEnds, Opens
<1>2. eState' \in Modified
  BY <1>1 DEF Changing, Modified
<1>3. \A q \in dirty' : cache'[q] # NotCached
  <2>1. cache \in [Page -> Content \cup {NotCached}] /\ PageContent(p) \in Content /\ version \in Content
        /\ NotCached \notin Content /\ dirty \subseteq Page
    BY PageContentIs DEF Types, TypesOfCache
  <2>2. PICK v \in Content : cache' = [cache EXCEPT ![p] = v]
    BY <1>1, <2>1
  <2>3. cache'[p] = v /\ \A q \in Page : q # p => cache'[q] = cache[q]
    BY <2>1, <2>2
  <2> QED
    BY <1>1, <2>1, <2>3
<1>4. \/ call'.op = "none" /\ call'.at \in {"idle", "failedWrite"} /\ next = Idle
      \/ call'.op = "none" /\ call'.at = "failed" /\ next # Idle
      \/ call'.op = "CommitPhaseOne" /\ call'.at = "syncRecords" /\ next # Idle
  <2>1. next = Idle \/ (next # Idle /\ next.op = "CommitPhaseOne" /\ next.at = "syncRecords")
    BY DEF Idle
  <2>2. Idle.op = "none" /\ Idle.at = "idle"
    BY CallIsAt
  <2>3. CASE call' = next
    BY <2>1, <2>2, <2>3
  <2>4. CASE call' = [Idle EXCEPT !.at = IF next = Idle THEN "failedWrite" ELSE "failed"]
    <3> PICK a : a = IF next = Idle THEN "failedWrite" ELSE "failed"
      OBVIOUS
    <3>1. call'.op = "none" /\ call'.at = a
      BY <2>4 DEF Idle
    <3> QED
      BY <3>1
  <2> QED
    BY <1>1, <2>3, <2>4
<1>5. Control'
  BY <1>2, <1>3, <1>4 DEF Control, Modified, Changing, Returned, Syncing
<1>6. next # Idle => ~Saving'
  BY <1>4 DEF Saving, Returned
<1> QED
  BY <1>2, <1>4, <1>5, <1>6

LEMMA WritePreserves ==
    ASSUME Types, Types', NEW c \in BOOLEAN, Preserving(c), NEW p \in Page, sqlite3PagerWrite(p)
    PROVE  Preserving(c)'
<1>1. AtRest /\ eState \in Changing /\ p <= dbSize + 1 /\ PagerWrite(p, dbSize, Idle)
  BY DEF sqlite3PagerWrite, Changing
<1> PICK f, e, h : f = WriteBase /\ e = WriteEnd /\ h = WriteHdr
  OBVIOUS
<1>2. /\ f \in Journals /\ e \in Nat /\ h \in Nat /\ LaidOut(f, e, h) /\ f[h + 1].nRec = 0
      /\ eState # "WRITER_LOCKED" => cksumInit = <<txn, h>> /\ nRec = e - h - 1
      /\ \A q \in dirty : cache[q] # NotCached
  BY <1>1, ReadyToWrite
<1>3. PICK B \in Images : /\ Keeping(B) /\ Finds(c, B) /\ Ready(f, e, h, B)
                          /\ \A q \in needSync : cache[q] # NotCached
                          /\ eState # "WRITER_DBMOD" =>
                                h = 0 /\ \A j \in 1 .. Len(subJournal) : cache[subJournal[j].pg] # NotCached
  BY <1>1, ReadyToWrite
<1>4. /\ UNCHANGED <<dbOrigSize, db, txn, outcomes>>
      /\ \/ /\ eState = "WRITER_LOCKED" /\ eState' = eState
            /\ journalOff' \in {journalOff, 1}
            /\ cache' = [cache EXCEPT ![p] = PageContent(p)]
            /\ call' = [Idle EXCEPT !.at = IF Idle = Idle THEN "failedWrite" ELSE "failed"]
            /\ dbSize' = dbSize
            /\ UNCHANGED <<dirty, needSync, inJournal, savepoint, subJournal>>
         \/ WriteFails(p, dbSize, Idle, f, e, h)
         \/ WriteEnds(p, dbSize, Idle, f, e, h)
  <2> HIDE DEF PageContent
  <2> QED
    BY <1>1, <1>2, PagerWriteIs
<1>5. ASSUME WriteFails(p, dbSize, Idle, f, e, h) \/ WriteEnds(p, dbSize, Idle, f, e, h)
      PROVE  /\ Control' /\ eState' \in Modified /\ Appending'
             /\ call'.at # "stressWrite" /\ call'.op # "Stress" /\ call'.at # "restored"
  <2>1. /\ Control' /\ eState' \in Modified /\ call'.at # "syncHdr"
        /\ call'.at # "stressWrite" /\ call'.op # "Stress" /\ call'.at # "restored"
    BY <1>1, <1>2, <1>5, WriteControls
  <2>2. Appending'
    BY <1>2, <1>4, <1>5, <2>1, WriteAppends
  <2> QED
    BY <2>1, <2>2
<1>6. CASE WriteEnds(p, dbSize, Idle, f, e, h)
  <2>1. Keeping(B)'
    <3>1. CASE JournalBegun(p)
      BY <1>1, <1>2, <1>3, <1>4, <1>6, <3>1, JournallingKeeps
    <3>2. CASE ~JournalBegun(p)
      BY <1>1, <1>2, <1>3, <1>4, <1>6, <3>2, CopyingKeeps
    <3> QED
      BY <3>1, <3>2
  <2> QED
    BY <1>3, <1>4, <1>5, <1>6, <2>1, SavingIsPreserving DEF Finds
<1>7. CASE WriteFails(p, dbSize, Idle, f, e, h)
  <2>1. /\ journalOff' = e /\ journalHdr' = h
        /\ cache' = [cache EXCEPT ![p] = PageContent(p)]
        /\ dbSize' \in {dbSize, Larger(dbSize, p)}
        /\ needSync \subseteq needSync' /\ needSync' \subseteq needSync \cup {p}
        /\ UNCHANGED <<inJournal, savepoint, subJournal>>
        /\ eState' = IF eState = "WRITER_LOCKED" THEN "WRITER_CACHEMOD" ELSE eState
    <3> HIDE DEF PageContent
    <3> QED
      BY <1>7 DEF WriteFails, Opens
  <2>2. dbSize' \in Nat /\ dbSize <= dbSize'
    <3>1. p \in Nat /\ dbSize \in Nat
      BY ContentsAre DEF Page
    <3> QED
      BY <2>1, <3>1 DEF Larger
  <2> PICK v : v = PageContent(p)
    OBVIOUS
  <2>3. /\ cache'[p] # NotCached
        /\ \A q \in Page : cache[q] # NotCached => cache'[q] # NotCached
        /\ \A q \in 1 .. dbSize : Contents'[q] = Contents[q]
    <3>1. v \in {version, PageContent(p)} /\ cache' = [cache EXCEPT ![p] = v]
      BY <2>1
    <3> QED
      BY <1>4, <2>2, <3>1, FetchedIs
  <2>4. \A i \in 1 .. e : jrnl'[i].kind = f[i].kind /\ (f[i].kind = "rec" => jrnl'[i] = f[i])
    <3> PICK s : s = Record(p, v, <<txn, h>>)
      OBVIOUS
    <3>1. s \in Slots
      <4>1. v \in Content /\ txn \in 0 .. MaxTxn
        BY PageContentIs, FilesAre
      <4> QED
        BY <1>2, <4>1, RecordIs
    <3>2. Garbage \in Slots
      BY GarbageIs
    <3>3. jrnl' = f \/ jrnl' = WriteAt(f, e + 1, s, Garbage) \/ jrnl' = WriteAt(f, e + 1, Garbage, Garbage)
      BY <1>7 DEF WriteFails
    <3> PICK g : g = jrnl'
      OBVIOUS
    <3>4. \A t \in Slots : g = WriteAt(f, e + 1, t, Garbage) => \A i \in 1 .. e : g[i] = f[i]
      <4> SUFFICES ASSUME NEW t \in Slots, g = WriteAt(f, e + 1, t, Garbage) PROVE \A i \in 1 .. e : g[i] = f[i]
        OBVIOUS
      <4>1. f \in Journals /\ e \in Nat /\ h \in Nat /\ LaidOut(f, e, h) /\ f[h + 1].nRec = 0
        BY <1>2
      <4> QED
        BY ONLY <4>1, t \in Slots, g = WriteAt(f, e + 1, t, Garbage), JournalGrows
    <3>5. \A i \in 1 .. e : g[i] = f[i]
      BY <3>1, <3>2, <3>3, <3>4
    <3> QED
      BY <3>5
  <2>5. \A q \in needSync' : cache'[q] # NotCached
    <3>1. needSync \subseteq Page
      BY DEF Types, TypesOfCache
    <3> QED
      BY <1>3, <2>1, <2>3, <3>1
  <2>6. eState' = "WRITER_CACHEMOD" =>
           h = 0 /\ \A j \in 1 .. Len(subJournal) : cache'[subJournal[j].pg] # NotCached
    <3>1. eState' = "WRITER_CACHEMOD" => eState # "WRITER_DBMOD"
      BY <2>1
    <3> QED
      BY <1>3, <2>3, <3>1, SubPages
  <2>7. Keeping(B)'
    BY <1>2, <1>3, <1>4, <1>5, <1>7, <2>1, <2>2, <2>3, <2>4, <2>5, <2>6, ReadyKeeping
  <2> QED
    BY <1>3, <1>4, <1>5, <1>7, <2>7, SavingIsPreserving DEF Finds
<1>8. CASE /\ eState = "WRITER_LOCKED" /\ eState' = eState
           /\ journalOff' \in {journalOff, 1}
           /\ cache' = [cache EXCEPT ![p] = PageContent(p)]
           /\ call' = [Idle EXCEPT !.at = IF Idle = Idle THEN "failedWrite" ELSE "failed"]
           /\ dbSize' = dbSize
           /\ UNCHANGED <<dirty, needSync, inJournal, savepoint, subJournal>>
  <2>1. call'.op = "none" /\ call'.at = "failedWrite"
    BY <1>8 DEF Idle
  <2>2. ~Logging' /\ eState' \in Changing
    BY <1>8 DEF Logging, Modified, Changing
  <2>3. dirty' = {}
    BY <1>1, <1>8, RestsAt
  <2>4. Control'
    BY <1>8, <2>1, <2>2, <2>3 DEF Control, Changing, Returned, Syncing
  <2>5. journalOff' \in Nat /\ journalOff' <= 1
    BY <1>3, <1>8, FilesAre DEF Keeping, NothingLogged
  <2> PICK v : v = PageContent(p)
    OBVIOUS
  <2>6. \A q \in 1 .. dbSize : Contents'[q] = Contents[q]
    <3>1. v \in {version, PageContent(p)} /\ cache' = [cache EXCEPT ![p] = v] /\ dbSize' \in Nat /\ dbSize <= dbSize'
      BY <1>8, ContentsAre
    <3> QED
      BY <1>4, <3>1, FetchedIs
  <2>7. Keeping(B)'
    BY <1>3, <1>4, <1>8, <2>1, <2>5, <2>6, LockedKeeping
  <2> QED
    BY <1>3, <1>4, <2>2, <2>4, <2>7, SavingIsPreserving DEF Finds
<1> QED
  BY <1>4, <1>6, <1>7, <1>8

LEMMA CommitPhaseOnePreserves ==
    ASSUME Types, Types', NEW c \in BOOLEAN, Preserving(c), NEW n \in Page, sqlite3PagerCommitPhaseOne(n)
    PROVE  Preserving(c)'
<1> PICK next : next = [op |-> "CommitPhaseOne", pg |-> 0, at |-> "syncRecords"]
  OBVIOUS
<1>1. AtRest /\ eState \in Modified /\ PagerWrite(1, n, next) /\ next # Idle
  BY DEF sqlite3PagerCommitPhaseOne, Modified, Idle
<1>2. 1 \in Page /\ eState \in Changing /\ eState # "WRITER_LOCKED"
  <2>1. 1 \in Page
    BY PagerAssumption DEF Page
  <2> QED
    BY <1>1, <2>1 DEF Changing, Modified
<1> PICK f, e, h : f = WriteBase /\ e = WriteEnd /\ h = WriteHdr
  OBVIOUS
<1>3. /\ f \in Journals /\ e \in Nat /\ h \in Nat /\ LaidOut(f, e, h) /\ f[h + 1].nRec = 0
      /\ eState # "WRITER_LOCKED" => cksumInit = <<txn, h>> /\ nRec = e - h - 1
      /\ \A q \in dirty : cache[q] # NotCached
  BY <1>1, <1>2, ReadyToWrite
<1>4. /\ UNCHANGED <<dbOrigSize, db, txn, outcomes>>
      /\ WriteFails(1, n, next, f, e, h) \/ WriteEnds(1, n, next, f, e, h)
  BY <1>1, <1>2, <1>3, PagerWriteIs
<1>5. /\ Control' /\ eState' \in Modified /\ call'.at # "syncHdr" /\ ~Saving'
  BY <1>1, <1>2, <1>3, <1>4, WriteControls
<1>6. Appending'
  BY <1>2, <1>3, <1>4, <1>5, WriteAppends
<1> QED
  BY <1>5, <1>6 DEF Preserving

-----------------------------------------------------------------------------
(* The journal is synced.                                                  *)

LEMMA UnstaleIs ==
    ASSUME NEW f \in Journals, NEW e \in Nat, e <= Len(f), NEW x, x \in Journals, x = Unstale(f, e)
    PROVE  e <= Len(x) /\ \A i \in 1 .. e : x[i] = f[i]
<1>1. DOMAIN f = 1 .. Len(f) /\ Len(f) \in Nat /\ DOMAIN x = 1 .. Len(x) /\ Len(x) \in Nat
  BY DEF Journals
<1>2. DOMAIN x = DOMAIN f
  BY DEF Unstale
<1>3. 1 .. Len(x) = 1 .. Len(f)
  BY <1>1, <1>2
<1>4. e <= Len(x)
  <2>1. CASE e = 0
    BY <1>1, <2>1
  <2>2. CASE e # 0
    <3>1. e \in 1 .. Len(f)
      BY <1>1, <2>2
    <3>2. e \in 1 .. Len(x)
      BY <1>3, <3>1
    <3> QED
      BY <1>1, <3>2
  <2> QED
    BY <2>1, <2>2
<1>5. ASSUME NEW i \in 1 .. e PROVE x[i] = f[i]
  <2>1. i # e + 1
    OBVIOUS
  <2> QED
    BY <2>1 DEF Unstale
<1> QED
  BY <1>4, <1>5

\* A step of a sync that keeps the records.
LEMMA SyncGoesOn ==
    ASSUME Types, Types', NEW c \in BOOLEAN, Preserving(c), call.at \in Syncing,
           NEW at \in {"writeNRec", "syncHdr"}, Goto(at),
           UNCHANGED <<eState, cache, dirty, needSync, dbSize, dbOrigSize, inJournal, journalOff, journalHdr,
                       savepoint, subJournal, db, outcomes>>,
           \A i \in 1 .. journalOff : jrnl'[i].kind = jrnl[i].kind /\ (jrnl[i].kind = "rec" => jrnl'[i] = jrnl[i]),
           Appending'
    PROVE  Preserving(c)'
<1>1. Control /\ (Logging => Appending) /\ (Saving => \E B \in Images : Keeping(B) /\ Finds(c, B))
  BY DEF Preserving, Finds
<1>2. call'.at = at /\ call'.op = call.op /\ call'.pg = call.pg
  BY CallIsAt
<1>3. eState \in Modified /\ call.op \in {"Stress", "CommitPhaseOne"} /\ Logging
  BY <1>1 DEF Control, Logging
<1>4. Control'
  <2>1. \A q \in dirty' : cache'[q] # NotCached
    BY <1>1, <1>3 DEF Control
  <2>2. eState' \in Modified /\ eState' \notin {"OPEN", "READER", "WRITER_LOCKED"}
    BY <1>3 DEF Modified
  <2> QED
    BY <1>2, <1>3, <2>1, <2>2 DEF Control, Returned, Syncing
<1>5. CASE call.op = "CommitPhaseOne"
  <2>1. ~Saving'
    BY <1>2, <1>5 DEF Saving, Returned
  <2> QED
    BY <1>4, <2>1 DEF Preserving
<1>6. CASE call.op = "Stress"
  <2>1. Saving
    BY <1>3, <1>6 DEF Saving, Changing, Modified
  <2>2. PICK B \in Images : Keeping(B) /\ Finds(c, B)
    BY <1>1, <2>1
  <2>3. Ready(jrnl, journalOff, journalHdr, B) /\ PagesLogged
    <3>1. LaidOut(jrnl, journalOff, journalHdr)
      BY <1>1, <1>3 DEF Appending
    <3> QED
      BY <1>3, <2>2, <3>1, KeepingIsReady DEF Keeping, Modified
  <2>4. Keeping(B)'
    <3>1. /\ journalOff \in Nat /\ journalHdr \in Nat /\ eState' \in Modified /\ journalOff' = journalOff
          /\ journalHdr' = journalHdr /\ dbSize' \in Nat /\ dbSize <= dbSize' /\ needSync \subseteq needSync'
          /\ UNCHANGED <<savepoint, subJournal, inJournal, dbOrigSize>>
      BY <1>3, FilesAre, ContentsAre
    <3>2. \A q \in needSync' : cache'[q] # NotCached
      BY <2>3 DEF PagesLogged
    <3>3. eState' = "WRITER_CACHEMOD" =>
             journalHdr = 0 /\ \A j \in 1 .. Len(subJournal) : cache'[subJournal[j].pg] # NotCached
      BY <2>3 DEF PagesLogged
    <3>4. call'.at # "restored" /\ call'.at # "stressWrite"
      BY <1>2
    <3>5. call'.pg \in Page /\ cache'[call'.pg] # NotCached
      BY <1>2, <1>6, <2>3 DEF PagesLogged
    <3>6. \A q \in 1 .. dbSize : Contents'[q] = Contents[q]
      BY DEF Contents, PageContent
    <3> QED
      BY <2>3, <3>1, <3>2, <3>3, <3>4, <3>5, <3>6, ReadyKeeping
  <2> QED
    BY <1>4, <2>2, <2>4, SavingIsPreserving DEF Finds
<1> QED
  BY <1>3, <1>5, <1>6

LEMMA SyncRecordsPreserves ==
    ASSUME Types, Types', NEW c \in BOOLEAN, Preserving(c), SyncJournalRecords
    PROVE  Preserving(c)'
<1>1. Control /\ (Logging => Appending) /\ call.at = "syncRecords"
  BY DEF Preserving, SyncJournalRecords
<1>2. Logging /\ Appending
  BY <1>1 DEF Control, Logging, Syncing
<1>3. CASE GiveUp
  BY <1>1, <1>3, GiveUpLeaves, LeftIsPreserving
<1>4. CASE ~GiveUp
  <2>1. /\ Goto("writeNRec") /\ jrnl' = WithoutStaleHeader
        /\ UNCHANGED <<eState, sizes, pcache, jstate, left, svpts, dbfile, outcomes, txn>>
    BY <1>4 DEF SyncJournalRecords, SyncedJournal
  <2>2. UNCHANGED <<eState, cache, dirty, needSync, dbSize, dbOrigSize, inJournal, journalOff, journalHdr,
                    savepoint, subJournal, db, outcomes, jfdOpen, cksumInit, nRec, txn>>
    BY <2>1 DEF sizes, pcache, jstate, svpts, dbfile
  <2> PICK f, e, h, g : f = jrnl /\ e = journalOff /\ h = journalHdr /\ g = jrnl'
    OBVIOUS
  <2>3. /\ f \in Journals /\ g \in Journals /\ e \in Nat /\ h \in Nat /\ LaidOut(f, e, h) /\ e <= Len(f)
        /\ f[h + 1].nRec = 0 /\ h < e /\ f[h + 1].kind = "hdr"
    <3>0. g \in Journals
      <4>1. Sound(jrnl', txn') /\ txn' \in Nat
        BY FilesAre, <2>2 DEF Types, TypesOfFiles
      <4> QED
        BY <4>1, SoundIs
    <3>1. f \in Journals /\ g \in Journals /\ e \in Nat /\ h \in Nat
      BY <3>0, FilesAre
    <3> QED
      BY <1>1, <1>2, <3>1 DEF Appending, LaidOut
  <2>4. e <= Len(g) /\ \A i \in 1 .. e : g[i] = f[i]
    <3>1. g = Unstale(f, e)
      BY <2>1 DEF Unstale, WithoutStaleHeader
    <3> QED
      BY <2>3, <3>1, UnstaleIs
  <2>5. h + 1 \in 1 .. e /\ g[h + 1] = f[h + 1]
    BY <2>3, <2>4
  <2>6. LaidOut(g, e, h)
    BY <2>3, <2>4, <2>5, LaidOutAgain
  <2>7. call'.at = "writeNRec"
    BY <2>1, CallIsAt
  <2>8. Appending'
    BY <1>2, <2>2, <2>3, <2>5, <2>6, <2>7 DEF Appending
  <2> QED
    BY <1>1, <2>1, <2>2, <2>4, <2>8, SyncGoesOn DEF Syncing
<1> QED
  BY <1>3, <1>4

LEMMA SyncCountPreserves ==
    ASSUME Types, Types', NEW c \in BOOLEAN, Preserving(c), SyncJournalCount
    PROVE  Preserving(c)'
<1>1. Control /\ (Logging => Appending) /\ call.at = "writeNRec"
  BY DEF Preserving, SyncJournalCount
<1>2. Logging /\ Appending
  BY <1>1 DEF Control, Logging, Syncing
<1>3. CASE GiveUp
  BY <1>1, <1>3, GiveUpLeaves, LeftIsPreserving
<1>4. CASE ~GiveUp
  <2>1. /\ Goto("syncHdr") /\ jrnl' = WithCount(nRec)
        /\ UNCHANGED <<eState, sizes, pcache, jstate, left, svpts, dbfile, outcomes, txn>>
    BY <1>4 DEF SyncJournalCount
  <2>2. UNCHANGED <<eState, cache, dirty, needSync, dbSize, dbOrigSize, inJournal, journalOff, journalHdr,
                    savepoint, subJournal, db, outcomes, jfdOpen, cksumInit, nRec, txn>>
    BY <2>1 DEF sizes, pcache, jstate, svpts, dbfile
  <2> PICK f, e, h, g, n : f = jrnl /\ e = journalOff /\ h = journalHdr /\ g = jrnl' /\ n = nRec
    OBVIOUS
  <2>3. /\ f \in Journals /\ e \in Nat /\ h \in Nat /\ LaidOut(f, e, h) /\ e <= Len(f)
        /\ h < e /\ f[h + 1].kind = "hdr" /\ n \in Nat /\ h + 1 <= Len(f) /\ Len(f) \in Nat
    <3>1. f \in Journals /\ e \in Nat /\ h \in Nat /\ n \in Nat /\ Len(f) \in Nat
      BY FilesAre DEF Types, TypesOfJournal, Journals
    <3>2. LaidOut(f, e, h) /\ e <= Len(f) /\ h < e /\ f[h + 1].kind = "hdr"
      BY <1>2, <3>1 DEF Appending, LaidOut
    <3> QED
      BY <3>1, <3>2
  <2>4. /\ Len(g) = Len(f)
        /\ \A i \in 1 .. Len(f) : i # h + 1 => g[i] = f[i]
        /\ g[h + 1].kind = "hdr" /\ g[h + 1].magic /\ g[h + 1].nRec = n
    <3>1. g = Counting(f, h, n)
      BY <2>1 DEF Counting, WithCount
    <3> QED
      BY <2>3, <3>1, CountingIs
  <2>5. \A i \in 1 .. e : i # h + 1 => g[i] = f[i]
    <3>1. \A i \in 1 .. e : i \in 1 .. Len(f)
      BY <2>3
    <3> QED
      BY <2>4, <3>1
  <2>6. LaidOut(g, e, h)
    BY <2>3, <2>4, <2>5, LaidOutAgain
  <2>7. call'.at = "syncHdr"
    BY <2>1, CallIsAt
  <2>8. Appending'
    BY <1>2, <2>2, <2>4, <2>6, <2>7 DEF Appending
  <2>9. \A i \in 1 .. e : g[i].kind = f[i].kind /\ (f[i].kind = "rec" => g[i] = f[i])
    BY <2>3, <2>4, <2>5
  <2> QED
    BY <1>1, <2>1, <2>2, <2>8, <2>9, SyncGoesOn DEF Syncing
<1> QED
  BY <1>3, <1>4

\* The segment that is complete is followed by a header.
LEMMA SegmentFollowed ==
    ASSUME NEW f \in Journals, NEW e \in Nat, NEW h \in Nat, LaidOut(f, e, h),
           f[h + 1].magic, f[h + 1].nRec = e - h - 1,
           NEW g, e + 1 <= Len(g), \A i \in 1 .. e : g[i] = f[i], g[e + 1].kind = "hdr"
    PROVE  LaidOut(g, e + 1, e)
<1>1. /\ h < e /\ e <= Len(f)
      /\ f[1].kind = "hdr" /\ f[h + 1].kind = "hdr"
      /\ \A i \in h + 2 .. e : f[i].kind = "rec"
      /\ \A i \in 1 .. h : f[i].kind = "rec" \/ (f[i].kind = "hdr" /\ FullSegment(f, h, i))
  BY DEF LaidOut
<1>2. g[1].kind = "hdr"
  <2>1. 1 \in 1 .. e
    BY <1>1
  <2> QED
    BY <1>1, <2>1
<1>3. ASSUME NEW i \in 1 .. h, f[i].kind = "hdr" PROVE FullSegment(g, e, i)
  <2> DEFINE n == f[i].nRec
  <2>1. n \in Nat
    <3>1. i \in 1 .. Len(f) /\ Len(f) \in Nat
      BY <1>1 DEF Journals
    <3>2. f[i] \in Slots
      BY <3>1 DEF Journals
    <3> QED
      BY <1>3, <3>2, SlotIs
  <2>2. /\ f[i].magic /\ i + n <= h /\ (\A k \in i + 1 .. i + n : f[k].kind = "rec")
        /\ f[i + n + 1].kind = "hdr"
    <3>1. FullSegment(f, h, i)
      BY <1>1, <1>3
    <3> QED
      BY <3>1 DEF FullSegment
  <2>3. g[i] = f[i]
    BY <1>1
  <2>4. g[i].nRec = n /\ g[i].magic
    BY <2>2, <2>3
  <2> HIDE DEF n
  <2>5. \A k \in i + 1 .. i + n : g[k].kind = "rec"
    <3>1. \A k \in i + 1 .. i + n : k \in 1 .. e
      BY <1>1, <2>1, <2>2
    <3> QED
      BY <2>2, <3>1
  <2>6. g[i + n + 1].kind = "hdr"
    <3>1. i + n + 1 \in 1 .. e
      BY <1>1, <2>1, <2>2
    <3> QED
      BY <2>2, <3>1
  <2>7. i + n <= e
    BY <1>1, <2>1, <2>2
  <2> QED
    BY <2>4, <2>5, <2>6, <2>7 DEF FullSegment
<1>4. FullSegment(g, e, h + 1)
  <2>1. h + 1 \in 1 .. e
    BY <1>1
  <2>2. g[h + 1].magic /\ g[h + 1].nRec = e - h - 1
    BY <2>1
  <2>3. h + 1 + (e - h - 1) = e /\ h + 1 + (e - h - 1) + 1 = e + 1 /\ h + 1 + 1 = h + 2
    OBVIOUS
  <2>4. \A k \in h + 2 .. e : g[k].kind = "rec"
    <3>1. \A k \in h + 2 .. e : k \in 1 .. e
      OBVIOUS
    <3> QED
      BY <1>1, <3>1
  <2> QED
    BY <2>2, <2>3, <2>4 DEF FullSegment
<1>5. ASSUME NEW i \in 1 .. e PROVE g[i].kind = "rec" \/ (g[i].kind = "hdr" /\ FullSegment(g, e, i))
  <2>1. i \in 1 .. h \/ i = h + 1 \/ i \in h + 2 .. e
    BY <1>1
  <2>2. g[i] = f[i]
    OBVIOUS
  <2>3. CASE i \in 1 .. h
    BY <1>1, <1>3, <2>2, <2>3
  <2>4. CASE i = h + 1
    BY <1>1, <1>4, <2>2, <2>4
  <2>5. CASE i \in h + 2 .. e
    BY <1>1, <2>2, <2>5
  <2> QED
    BY <2>1, <2>3, <2>4, <2>5
<1>6. \A i \in e + 2 .. e + 1 : g[i].kind = "rec"
  OBVIOUS
<1>7. e < e + 1
  OBVIOUS
<1> QED
  BY <1>2, <1>5, <1>6, <1>7 DEF LaidOut

LEMMA SegmentEndsAre ==
    ASSUME Types
    PROVE  /\ Len(SegmentEnds) = Len(savepoint)
           /\ \A k \in 1 .. Len(savepoint) :
                 /\ SegmentEnds[k].nOrig = savepoint[k].nOrig /\ SegmentEnds[k].iOffset = savepoint[k].iOffset
                 /\ SegmentEnds[k].iSubRec = savepoint[k].iSubRec /\ SegmentEnds[k].image = savepoint[k].image
                 /\ SegmentEnds[k].inSavepoint = savepoint[k].inSavepoint
                 /\ SegmentEnds[k].iHdrOffset =
                       IF savepoint[k].iHdrOffset = 0 THEN journalOff ELSE savepoint[k].iHdrOffset
<1>1. savepoint \in Seq(Savepoint) /\ Len(savepoint) \in Nat /\ DOMAIN savepoint = 1 .. Len(savepoint)
  BY DEF Types, TypesOfSavepoints
<1>2. SegmentEnds = [k \in 1 .. Len(savepoint) |-> IF savepoint[k].iHdrOffset = 0
                        THEN [savepoint[k] EXCEPT !.iHdrOffset = journalOff] ELSE savepoint[k]]
  BY <1>1 DEF SegmentEnds
<1>3. Len(SegmentEnds) = Len(savepoint)
  BY <1>1, <1>2
<1>4. ASSUME NEW k \in 1 .. Len(savepoint)
      PROVE  /\ SegmentEnds[k].nOrig = savepoint[k].nOrig /\ SegmentEnds[k].iOffset = savepoint[k].iOffset
             /\ SegmentEnds[k].iSubRec = savepoint[k].iSubRec /\ SegmentEnds[k].image = savepoint[k].image
             /\ SegmentEnds[k].inSavepoint = savepoint[k].inSavepoint
             /\ SegmentEnds[k].iHdrOffset =
                   IF savepoint[k].iHdrOffset = 0 THEN journalOff ELSE savepoint[k].iHdrOffset
  <2>1. savepoint[k] \in Savepoint
    BY <1>1
  <2>2. SegmentEnds[k] = IF savepoint[k].iHdrOffset = 0
                         THEN [savepoint[k] EXCEPT !.iHdrOffset = journalOff] ELSE savepoint[k]
    BY <1>2
  <2> QED
    BY <2>1, <2>2 DEF Savepoint
<1> QED
  BY <1>3, <1>4

\* A new segment begins.
LEMMA SegmentKeeps ==
    ASSUME Types, Types', NEW B \in Images, Keeping(B), eState \in Modified, Appending, call.at = "syncHdr", call.op = "Stress",
           jrnl' = WriteAt(jrnl, journalOff + 1, NewHeader(journalOff), Garbage),
           journalHdr' = journalOff, journalOff' = journalOff + 1, nRec' = 0,
           cksumInit' = <<txn, journalOff>>, needSync' = {}, eState' = "WRITER_DBMOD",
           Goto("stressWrite"), savepoint' = SegmentEnds,
           UNCHANGED <<dbSize, dbOrigSize, cache, dirty, inJournal, jfdOpen, subJournal, db, txn>>
    PROVE  Keeping(B)' /\ Appending'
<1> PICK f, e, h, g : f = jrnl /\ e = journalOff /\ h = journalHdr /\ g = jrnl'
  OBVIOUS
<1>1. /\ f \in Journals /\ e \in Nat /\ h \in Nat /\ h < e /\ e <= Len(f) /\ Len(f) \in Nat
      /\ LaidOut(f, e, h) /\ f[h + 1].magic /\ f[h + 1].nRec = e - h - 1
  <2>1. f \in Journals /\ e \in Nat /\ h \in Nat /\ Len(f) \in Nat
    BY FilesAre DEF Journals
  <2> QED
    BY <2>1 DEF Appending, LaidOut
<1> PICK s : s = NewHeader(e)
  OBVIOUS
<1>2. s \in Slots /\ s.kind = "hdr" /\ s.nRec = 0
  <2>1. txn \in 0 .. MaxTxn /\ dbOrigSize \in 0 .. MaxPage
    BY FilesAre DEF Types, TypesOfCache
  <2>2. /\ Header(FALSE, 0, <<txn, e>>, dbOrigSize) \in Slots
        /\ Header(FALSE, 0, <<txn, e>>, dbOrigSize).kind = "hdr"
        /\ Header(FALSE, 0, <<txn, e>>, dbOrigSize).nRec = 0
    <3>1. e \in Nat
      BY <1>1
    <3> QED
      BY ONLY <2>1, <3>1, HeaderIs
  <2>3. s = Header(FALSE, 0, <<txn, e>>, dbOrigSize)
    BY DEF NewHeader
  <2> QED
    BY <2>2, <2>3
<1>3. e + 1 <= Len(g) /\ g[e + 1] = s /\ \A i \in 1 .. e : g[i] = f[i]
  <2>0. e + 1 \in Nat \ {0}
    BY <1>1
  <2>1. g = WriteAt(f, e + 1, s, Garbage)
    OBVIOUS
  <2>2. e + 1 <= Len(g) /\ g[e + 1] = s /\ \A i \in 1 .. Len(f) : i # e + 1 => g[i] = f[i]
    <3> PICK k : k = e + 1
      OBVIOUS
    <3>1. f \in Journals /\ s \in Slots /\ k \in Nat \ {0}
      BY <1>1, <1>2, <2>0
    <3>2. /\ k <= Len(WriteAt(f, k, s, Garbage)) /\ WriteAt(f, k, s, Garbage)[k] = s
          /\ \A i \in 1 .. Len(f) : i # k => WriteAt(f, k, s, Garbage)[i] = f[i]
      BY ONLY <3>1, SlotWritten
    <3> QED
      BY ONLY <2>1, <3>2, k = e + 1
  <2>3. \A i \in 1 .. e : i \in 1 .. Len(f) /\ i # e + 1
    BY ONLY <1>1
  <2> QED
    BY ONLY <2>2, <2>3
<1>4. LaidOut(g, e + 1, e)
  <2>1. g[e + 1].kind = "hdr"
    BY <1>2, <1>3
  <2> QED
    BY ONLY <1>1, <1>3, <2>1, SegmentFollowed
<1>5. call'.at = "stressWrite" /\ call'.op = "Stress" /\ call'.pg = call.pg
  BY CallIsAt
<1>6. Appending'
  <2>1. journalOff' - journalHdr' - 1 = 0
    BY <1>1
  <2> QED
    BY <1>2, <1>3, <1>4, <1>5, <2>1 DEF Appending
<1>7. Ready(f, e, h, B) /\ PagesLogged
  BY <1>1, KeepingIsReady DEF Keeping, Modified
<1>8. /\ Len(B) = dbOrigSize
      /\ Nested(savepoint, dbOrigSize, dbSize, Len(subJournal))
      /\ \A i \in 1 .. e : f[i].kind = "rec" => f[i].pg \in inJournal
      /\ Distinct(f, e)
      /\ \A j \in 1 .. Len(subJournal) : subJournal[j].pg \in inJournal \/ subJournal[j].pg > dbOrigSize
      /\ \A k \in 1 .. Len(savepoint) : Points(f, e, h, savepoint[k])
      /\ Preserved(f, e, <<>>, 1, 0, inJournal, B, Contents)
      /\ \A k \in 1 .. Len(savepoint) :
            Preserved(f, e, subJournal, savepoint[k].iOffset, savepoint[k].iSubRec,
                      savepoint[k].inSavepoint, savepoint[k].image, Contents)
  BY <1>7 DEF Ready
<1>9. /\ Len(savepoint') = Len(savepoint)
      /\ \A k \in 1 .. Len(savepoint) :
            /\ savepoint'[k].nOrig = savepoint[k].nOrig /\ savepoint'[k].iOffset = savepoint[k].iOffset
            /\ savepoint'[k].iSubRec = savepoint[k].iSubRec /\ savepoint'[k].image = savepoint[k].image
            /\ savepoint'[k].inSavepoint = savepoint[k].inSavepoint
            /\ savepoint'[k].iHdrOffset = IF savepoint[k].iHdrOffset = 0 THEN e ELSE savepoint[k].iHdrOffset
  BY SegmentEndsAre
<1>10. Nested(savepoint', dbOrigSize, dbSize, Len(subJournal))
  <2>1. Len(subJournal) \in Nat /\ Len(subJournal) <= Len(subJournal) /\ dbSize \in Nat /\ dbSize <= dbSize
    BY <1>8, NestedIs, ContentsAre
  <2> QED
    BY <1>8, <1>9, <2>1, NestedGrows
<1>11. SameRecords(f, e, g, e + 1)
  <2>1. \A i \in e + 1 .. e + 1 : g[i].kind # "rec"
    BY <1>2, <1>3
  <2> QED
    BY <1>1, <1>3, <2>1 DEF SameRecords
<1>12. Contents' = Contents
  BY DEF Contents, PageContent
<1>13. Preserved(g, e + 1, <<>>, 1, 0, inJournal, B, Contents)
  <2>1. \A q \in 1 .. Len(B) : q \notin inJournal => Contents[q] = Contents[q]
    OBVIOUS
  <2>2. e + 1 \in Nat /\ 1 \in Nat
    BY <1>1
  <2> HIDE DEF Contents
  <2> QED
    BY <1>1, <1>8, <1>11, <2>1, <2>2, PreservedAgain
<1>14. ASSUME NEW k \in 1 .. Len(savepoint)
       PROVE  Preserved(g, e + 1, subJournal, savepoint'[k].iOffset, savepoint'[k].iSubRec,
                        savepoint'[k].inSavepoint, savepoint'[k].image, Contents)
  <2> DEFINE o == savepoint[k].iOffset
             m == savepoint[k].iSubRec
             I == savepoint[k].image
             S == savepoint[k].inSavepoint
  <2>1. o \in Nat /\ Preserved(f, e, subJournal, o, m, S, I, Contents) /\ e + 1 \in Nat
    BY <1>1, <1>8, NestedIs
  <2>2. \A q \in 1 .. Len(I) : q \notin S => Contents[q] = Contents[q]
    OBVIOUS
  <2>3. /\ savepoint'[k].iOffset = o /\ savepoint'[k].iSubRec = m /\ savepoint'[k].image = I
        /\ savepoint'[k].inSavepoint = S
    BY <1>9
  <2> HIDE DEF o, m, I, S, Contents
  <2>4. Preserved(g, e + 1, subJournal, o, m, S, I, Contents)
    BY <1>1, <1>11, <2>1, <2>2, PreservedAgain
  <2> QED
    BY <2>3, <2>4
<1>15. PagesLogged'
  <2>1. \A i \in 1 .. e + 1 : g[i].kind = "rec" => i \in 1 .. e /\ g[i] = f[i]
    <3> SUFFICES ASSUME NEW i \in 1 .. e + 1, g[i].kind = "rec" PROVE i \in 1 .. e /\ g[i] = f[i]
      OBVIOUS
    <3>1. i # e + 1
      BY <1>2, <1>3
    <3>2. i \in 1 .. e
      BY <1>1, <3>1
    <3> QED
      BY <1>3, <3>2
  <2>2. \A i \in 1 .. e + 1 : g[i].kind = "rec" => g[i].pg \in inJournal
    BY <1>8, <2>1
  <2>3. Distinct(g, e + 1)
    <3> SUFFICES ASSUME NEW i \in 1 .. e + 1, NEW j \in 1 .. e + 1, g[i].kind = "rec", g[j].kind = "rec",
                        g[i].pg = g[j].pg
                 PROVE  i = j
      BY DEF Distinct
    <3>1. i \in 1 .. e /\ j \in 1 .. e /\ g[i] = f[i] /\ g[j] = f[j]
      BY <2>1
    <3> QED
      BY <1>8, <3>1 DEF Distinct
  <2>4. \A i \in e + 2 .. e + 1 : g[i].pg \in needSync'
    BY <1>1
  <2>5. call'.pg \in Page /\ cache'[call'.pg] # NotCached
    BY <1>5, <1>7 DEF PagesLogged
  <2>6. ASSUME NEW k \in 1 .. Len(savepoint) PROVE Points(g, e + 1, e, savepoint'[k])
    <3> DEFINE o == savepoint[k].iOffset
               d == savepoint[k].iHdrOffset
    <3>1. Points(f, e, h, savepoint[k]) /\ o \in Nat \ {0} /\ d \in Nat
      BY <1>8, NestedIs
    <3>2. savepoint'[k].iOffset = o /\ savepoint'[k].iHdrOffset = IF d = 0 THEN e ELSE d
      BY <1>9
    <3>3. CASE d = 0
      <4>1. h < o /\ o <= e
        BY <3>1, <3>3 DEF Points
      <4>2. savepoint'[k].iOffset = o /\ savepoint'[k].iHdrOffset = e /\ e # 0
        BY <1>1, <3>2, <3>3
      <4> HIDE DEF o, d
      <4>3. \A i \in o + 1 .. e : g[i].kind = "rec"
        <5>1. \A i \in o + 1 .. e : i \in h + 2 .. e /\ i \in 1 .. e
          BY <1>1, <3>1, <4>1
        <5>2. \A i \in h + 2 .. e : f[i].kind = "rec"
          BY <1>1 DEF LaidOut
        <5> QED
          BY <1>3, <5>1, <5>2
      <4>4. e <= e /\ g[e + 1].kind = "hdr"
        BY <1>1, <1>2, <1>3
      <4> QED
        BY <4>1, <4>2, <4>3, <4>4 DEF Points
    <3>4. CASE d # 0
      <4>1. o <= d /\ d <= h /\ f[d + 1].kind = "hdr" /\ \A i \in o + 1 .. d : f[i].kind = "rec"
        BY <3>1, <3>4 DEF Points
      <4>2. savepoint'[k].iOffset = o /\ savepoint'[k].iHdrOffset = d
        BY <3>2, <3>4
      <4> HIDE DEF o, d
      <4>3. d + 1 \in 1 .. e /\ (\A i \in o + 1 .. d : i \in 1 .. e) /\ d <= e
        BY <1>1, <3>1, <4>1
      <4>4. g[d + 1].kind = "hdr" /\ \A i \in o + 1 .. d : g[i].kind = "rec"
        BY <1>3, <4>1, <4>3
      <4> QED
        BY <3>4, <4>1, <4>2, <4>3, <4>4 DEF Points
    <3> QED
      BY <3>3, <3>4
  <2> QED
    BY <1>5, <1>8, <1>9, <2>2, <2>3, <2>4, <2>5, <2>6 DEF PagesLogged
<1>16. call'.at # "restored" /\ (Len(B) = dbOrigSize)'
  BY <1>5, <1>8
<1>17. Keeping(B)'
  BY <1>9, <1>10, <1>12, <1>13, <1>14, <1>15, <1>16 DEF Keeping
<1> QED
  BY <1>6, <1>17

LEMMA SyncHeaderPreserves ==
    ASSUME Types, Types', NEW c \in BOOLEAN, Preserving(c), SyncJournalHeader
    PROVE  Preserving(c)'
<1>1. Control /\ (Logging => Appending) /\ (Saving => \E B \in Images : Keeping(B) /\ Finds(c, B)) /\ call.at = "syncHdr"
  BY DEF Preserving, SyncJournalHeader, Finds
<1>2. Logging /\ Appending /\ eState \in Modified /\ call.op \in {"Stress", "CommitPhaseOne"}
      /\ \A p \in dirty : cache[p] # NotCached
  BY <1>1 DEF Control, Logging, Syncing
<1>3. CASE GiveUp
  BY <1>1, <1>3, GiveUpLeaves, LeftIsPreserving
<1>4. CASE ~GiveUp
  <2>1. /\ jrnl' = IF call.op = "Stress" THEN WriteAt(jrnl, journalOff + 1, NewHeader(journalOff), Garbage) ELSE jrnl
        /\ journalHdr' = journalOff
        /\ call.op = "Stress" => /\ journalOff' = journalOff + 1 /\ nRec' = 0
                                 /\ cksumInit' = <<txn, journalOff>> /\ savepoint' = SegmentEnds
        /\ needSync' = {} /\ eState' = "WRITER_DBMOD"
        /\ Goto(IF call.op = "Stress" THEN "stressWrite" ELSE "writeList")
        /\ UNCHANGED <<sizes, cache, dirty, inJournal, jfdOpen, subJournal, dbfile, outcomes, txn>>
    BY <1>4 DEF SyncJournalHeader
  <2>2. UNCHANGED <<dbSize, dbOrigSize, cache, dirty, inJournal, jfdOpen, subJournal, db, txn, outcomes>>
    BY <2>1 DEF sizes, dbfile
  <2>3. call'.op = call.op /\ call'.at = IF call.op = "Stress" THEN "stressWrite" ELSE "writeList"
    BY <2>1, CallIsAt
  <2>4. Control'
    <3>1. \A p \in dirty' : cache'[p] # NotCached
      BY <1>2, <2>2
    <3> QED
      BY <1>2, <2>1, <2>3, <3>1 DEF Control, Modified, Changing, Returned, Syncing
  <2>5. CASE call.op = "CommitPhaseOne"
    <3>1. Left'
      BY <2>3, <2>5 DEF Left, Logging, Saving, Returned, Syncing
    <3> QED
      BY <2>4, <3>1, LeftIsPreserving
  <2>6. CASE call.op = "Stress"
    <3>1. Saving
      BY <1>2, <2>6 DEF Saving, Changing, Modified
    <3>2. PICK B \in Images : Keeping(B) /\ Finds(c, B)
      BY <1>1, <3>1
    <3>3. Goto("stressWrite") /\ jrnl' = WriteAt(jrnl, journalOff + 1, NewHeader(journalOff), Garbage)
      BY <2>1, <2>6
    <3>4. Keeping(B)' /\ Appending'
      BY <1>1, <1>2, <2>1, <2>2, <2>6, <3>2, <3>3, SegmentKeeps
    <3> QED
      BY <2>2, <2>4, <3>2, <3>4, SavingIsPreserving DEF Finds
  <2> QED
    BY <1>2, <2>5, <2>6
<1> QED
  BY <1>3, <1>4

-----------------------------------------------------------------------------
(* Pages are written to the file.                                          *)

\* A page that is spilled has its content in the file.
LEMMA SpilledIs ==
    ASSUME Types, Types', NEW p \in Page, cache[p] # NotCached,
           db' = IF p <= dbSize THEN WriteAt(db, p, cache[p], 0) ELSE db,
           cache' \in {cache, [cache EXCEPT ![p] = NotCached]}, dbSize' = dbSize
    PROVE  /\ \A q \in Page : q # p => cache'[q] = cache[q]
           /\ \A q \in 1 .. dbSize : Contents'[q] = Contents[q]
<1>1. /\ cache \in [Page -> Content \cup {NotCached}] /\ cache[p] \in Content /\ 0 \in Content
      /\ p \in Nat \ {0} /\ dbSize \in Nat /\ db \in Seq(Content) /\ Len(db) \in Nat
  <2>1. cache \in [Page -> Content \cup {NotCached}] /\ p \in Nat \ {0} /\ dbSize \in Nat /\ db \in Seq(Content)
    BY SMTT(40), ContentsAre, FilesAre DEF Types, TypesOfCache, Images, Page
  <2>2. 0 \in Content
    BY PagerAssumption DEF Content
  <2> QED
    BY <2>1, <2>2
<1>2. cache' = cache \/ cache'[p] = NotCached
  BY <1>1
<1>3. \A q \in Page : q # p => cache'[q] = cache[q]
  BY <1>1
<1> PICK v : v = cache[p]
  OBVIOUS
<1>4. \/ p > dbSize /\ db' = db
      \/ /\ p <= dbSize
         /\ Len(db') = Larger(Len(db), p)
         /\ \A k \in 1 .. Larger(Len(db), p) : db'[k] = IF k = p THEN v ELSE IF k <= Len(db) THEN db[k] ELSE 0
  <2>1. CASE p <= dbSize
    <3> PICK w : w = db
      OBVIOUS
    <3>1. /\ Len(WriteAt(w, p, v, 0)) = Larger(Len(w), p)
          /\ \A k \in 1 .. Larger(Len(w), p) :
                WriteAt(w, p, v, 0)[k] = IF k = p THEN v ELSE IF k <= Len(w) THEN w[k] ELSE 0
      <4>1. w \in Seq(Content) /\ p \in Nat \ {0} /\ v \in Content /\ 0 \in Content
        BY <1>1
      <4> QED
        BY ONLY <4>1, WriteAtIs
    <3>2. db' = WriteAt(w, p, v, 0)
      BY <2>1
    <3> QED
      BY <2>1, <3>1, <3>2
  <2>2. CASE ~(p <= dbSize)
    BY <1>1, <2>2
  <2> QED
    BY <2>1, <2>2
<1>5. ASSUME NEW q \in 1 .. dbSize PROVE Contents'[q] = Contents[q]
  <2>1. q \in Page /\ Contents[q] = PageContent(q) /\ Contents'[q] = PageContent(q)'
    <3>1. q \in Page /\ Contents[q] = PageContent(q)
      BY ContentsAre
    <3> QED
      BY <3>1 DEF Contents
  <2>2. q <= dbSize /\ q \in Nat \ {0}
    BY <1>1
  <2>3. CASE q = p
    <3>1. PageContent(q) = v
      BY <2>3 DEF PageContent
    <3>2. p <= Len(db') /\ db'[p] = v
      <4>1. p \in 1 .. Larger(Len(db), p) /\ p <= Larger(Len(db), p)
        BY <1>1 DEF Larger
      <4> QED
        BY <1>1, <1>4, <2>2, <2>3, <4>1
    <3>3. PageContent(q)' = v
      BY <1>2, <2>2, <2>3, <3>2 DEF PageContent
    <3> QED
      BY <2>1, <3>1, <3>3
  <2>4. CASE q # p
    <3>1. cache'[q] = cache[q]
      BY <1>3, <2>1, <2>4
    <3>2. (IF q <= Len(db') /\ q <= dbSize THEN db'[q] ELSE 0) = (IF q <= Len(db) /\ q <= dbSize THEN db[q] ELSE 0)
      <4>1. CASE db' = db
        BY <4>1
      <4>2. CASE /\ Len(db') = Larger(Len(db), p)
                 /\ \A k \in 1 .. Larger(Len(db), p) : db'[k] = IF k = p THEN v ELSE IF k <= Len(db) THEN db[k] ELSE 0
        <5>1. Larger(Len(db), p) \in Nat /\ Len(db) <= Larger(Len(db), p)
          BY <1>1 DEF Larger
        <5>2. CASE q <= Larger(Len(db), p)
          <6>1. q \in 1 .. Larger(Len(db), p)
            BY <2>2, <5>1, <5>2
          <6>2. db'[q] = IF q <= Len(db) THEN db[q] ELSE 0
            BY <2>4, <4>2, <6>1
          <6> QED
            BY <2>2, <4>2, <5>2, <6>2
        <5>3. CASE ~(q <= Larger(Len(db), p))
          <6>1. ~(q <= Len(db))
            BY <1>1, <2>2, <5>1, <5>3
          <6> QED
            BY <4>2, <5>3, <6>1
        <5> QED
          BY <5>2, <5>3
      <4> QED
        BY <1>4, <4>1, <4>2
    <3> QED
      BY <2>1, <3>1, <3>2 DEF PageContent
  <2> QED
    BY <2>3, <2>4
<1> QED
  BY <1>3, <1>5

LEMMA StressWritePreserves ==
    ASSUME Types, Types', NEW c \in BOOLEAN, Preserving(c), StressWrite
    PROVE  Preserving(c)'
<1>1. Control /\ (Logging => Appending) /\ (Saving => \E B \in Images : Keeping(B) /\ Finds(c, B)) /\ call.at = "stressWrite"
  BY DEF Preserving, StressWrite, Finds
<1>2. /\ Logging /\ Appending /\ Saving /\ eState = "WRITER_DBMOD" /\ call.op = "Stress"
      /\ \A q \in dirty : cache[q] # NotCached
  BY <1>1 DEF Control, Logging, Syncing, Saving, Changing, Modified
<1>3. CASE GiveUp
  BY <1>1, <1>3, GiveUpLeaves, LeftIsPreserving
<1>4. CASE ~GiveUp
  <2> PICK p : p = call.pg
    OBVIOUS
  <2>1. /\ db' = IF p <= dbSize THEN WriteAt(db, p, cache[p], 0) ELSE db
        /\ dirty' = dirty \ {p} /\ cache' \in {cache, [cache EXCEPT ![p] = NotCached]}
        /\ call' = Idle
        /\ UNCHANGED <<eState, dbSize, dbOrigSize, needSync, jstate, left, svpts, jfile, history, txn>>
    BY <1>4 DEF StressWrite
  <2>2. UNCHANGED <<eState, dbSize, dbOrigSize, needSync, inJournal, jfdOpen, journalOff, journalHdr, nRec, cksumInit,
                    left, savepoint, subJournal, jrnl, outcomes, txn>>
    BY <2>1 DEF jstate, svpts, jfile, history
  <2>3. PICK B \in Images : Keeping(B) /\ Finds(c, B)
    BY <1>1, <1>2
  <2>4. Ready(jrnl, journalOff, journalHdr, B) /\ PagesLogged
    <3>1. LaidOut(jrnl, journalOff, journalHdr)
      BY <1>2 DEF Appending
    <3>2. eState \in Modified /\ eState # "WRITER_LOCKED"
      BY <1>2 DEF Modified
    <3> QED
      BY <2>3, <3>1, <3>2, KeepingIsReady DEF Keeping
  <2>5. p \in Page /\ cache[p] # NotCached /\ p \notin needSync
    BY <1>1, <1>2, <2>4 DEF PagesLogged
  <2>6. /\ \A q \in Page : q # p => cache'[q] = cache[q]
        /\ \A q \in 1 .. dbSize : Contents'[q] = Contents[q]
    BY <2>1, <2>5, SpilledIs
  <2>7. call'.op = "none" /\ call'.at = "idle"
    BY <2>1, CallIsAt
  <2>8. needSync \subseteq Page /\ dirty \subseteq Page
    BY DEF Types, TypesOfCache
  <2>9. \A q \in dirty' : cache'[q] # NotCached
    BY <1>2, <2>1, <2>6, <2>8
  <2>10. Control'
    BY <1>2, <2>2, <2>7, <2>9 DEF Control, Changing, Modified, Returned, Syncing
  <2>11. Appending'
    BY <1>1, <1>2, <2>2, <2>7, AppendingSame
  <2>12. Keeping(B)'
    <3>1. /\ journalOff \in Nat /\ journalHdr \in Nat /\ eState' \in Modified /\ journalOff' = journalOff
          /\ journalHdr' = journalHdr /\ dbSize' \in Nat /\ dbSize <= dbSize' /\ needSync \subseteq needSync'
          /\ UNCHANGED <<savepoint, subJournal, inJournal, dbOrigSize>> /\ eState' # "WRITER_CACHEMOD"
      BY <1>2, <2>2, FilesAre, ContentsAre DEF Modified
    <3>2. \A q \in needSync' : cache'[q] # NotCached
      BY <2>2, <2>4, <2>5, <2>6, <2>8 DEF PagesLogged
    <3>3. \A i \in 1 .. journalOff : jrnl'[i].kind = jrnl[i].kind /\ (jrnl[i].kind = "rec" => jrnl'[i] = jrnl[i])
      BY <2>2
    <3> QED
      BY <2>4, <2>6, <2>7, <3>1, <3>2, <3>3, ReadyKeeping
  <2> QED
    BY <2>2, <2>3, <2>10, <2>11, <2>12, SavingIsPreserving DEF Finds
<1> QED
  BY <1>3, <1>4

LEMMA CommitWritesPreserves ==
    ASSUME Types, Types', NEW c \in BOOLEAN, Preserving(c), CommitWriteList \/ CommitSync
    PROVE  Preserving(c)'
<1>1. Control
  BY DEF Preserving
<1>2. CASE GiveUp
  BY <1>1, <1>2, GiveUpLeaves, LeftIsPreserving
<1>3. CASE CommitWriteList /\ ~GiveUp
  <2>1. /\ call.at = "writeList" /\ Goto("syncDb") /\ dirty' = {}
        /\ UNCHANGED <<eState, needSync, jstate, left, svpts>>
    BY <1>3 DEF CommitWriteList
  <2>2. call.op \notin {"none", "Stress"}
    BY <1>1, <2>1 DEF Control, Returned, Syncing
  <2>3. Control' /\ Left'
    BY <1>1, <2>1, <2>2, GoesOnLeaves DEF Returned, Syncing, jstate, svpts
  <2> QED
    BY <2>3, LeftIsPreserving
<1>4. CASE CommitSync /\ ~GiveUp
  <2>1. eState' = "WRITER_FINISHED" /\ call' = Idle
    BY <1>4 DEF CommitSync
  <2>2. call'.op = "none" /\ call'.at = "idle"
    BY <2>1, CallIsAt
  <2>3. Control' /\ Left'
    BY <2>1, <2>2 DEF Control, Left, Logging, Saving, Changing, Modified, Returned, Syncing
  <2> QED
    BY <2>3, LeftIsPreserving
<1> QED
  BY <1>2, <1>3, <1>4

=============================================================================
