--------------------------- MODULE RaftLogProofs ---------------------------
(***************************************************************************)
(* What the operators of RaftLog return, for every log: each one is        *)
(* described by the first and last index of its result and by the entry    *)
(* Get finds at each index, so that proofs about nodes need not look at    *)
(* positions in sequences.                                                 *)
(***************************************************************************)
EXTENDS RaftLog, SequenceTheorems, WellFoundedInduction, TLAPS

\* The entries with terms of T and commands of C, the sentinel's included.
EntryOf(C, T) == [term : T, index : Nat, cmd : C \cup {NoCmd}]

\* A log: the sentinel, then entries with consecutive indices and real terms.
IsLog(C, T, l) ==
    /\ l \in Seq(EntryOf(C, T))
    /\ Len(l) >= 1
    /\ l[1].cmd = NoCmd
    /\ \A k \in 1 .. Len(l) : l[k].index = l[1].index + k - 1
    /\ \A k \in 2 .. Len(l) : l[k].term # 0 /\ l[k].cmd \in C

\* The entries of an AppendEntries call whose PrevLogIndex is p.
IsBatch(C, T, p, es) ==
    /\ es \in Seq(EntryOf(C, T))
    /\ \A k \in 1 .. Len(es) : es[k].index = p + k /\ es[k].term # 0 /\ es[k].cmd \in C

-----------------------------------------------------------------------------
(* Least and greatest elements.                                            *)

\* A non-empty set of numbers has the minimum that Min chooses.
LEMMA NatMin ==
    ASSUME NEW S \in SUBSET Nat, S # {}
    PROVE  Min(S) \in S /\ \A x \in S : Min(S) <= x
<1> DEFINE R == {ss \in Nat \X Nat : ss[1] < ss[2]}
<1>1. IsWellFoundedOn(R, Nat)
  BY NatLessThanWellFounded, Zenon DEF OpToRel
<1> HIDE DEF R
<1>2. PICK x \in S : \A y \in S : ~(<<y, x>> \in R)
  BY <1>1, WFMin
<1>3. \A y \in S : x <= y
  <2> SUFFICES ASSUME NEW y \in S, y < x PROVE FALSE
    OBVIOUS
  <2>1. <<y, x>> \in R
    BY Zenon DEF R
  <2> QED
    BY <1>2, <2>1
<1> QED
  BY <1>3 DEF Min

\* A bounded non-empty set of numbers has the maximum that Max chooses.
LEMMA NatMax ==
    ASSUME NEW S \in SUBSET Nat, NEW b \in Nat, \A x \in S : x <= b, S # {}
    PROVE  Max(S) \in S /\ \A x \in S : x <= Max(S)
<1> DEFINE U == {d \in 0 .. b : b - d \in S}
<1>1. U \in SUBSET Nat /\ U # {}
  <2>1. PICK x \in S : TRUE
    OBVIOUS
  <2>2. b - x \in U
    BY <2>1
  <2>3. \A d \in U : d \in Nat
    OBVIOUS
  <2> HIDE DEF U
  <2> QED
    BY <2>2, <2>3
<1>2. Min(U) \in U /\ \A d \in U : Min(U) <= d
  <2> HIDE DEF U
  <2> QED
    BY <1>1, NatMin
<1>3. b - Min(U) \in S /\ \A x \in S : x <= b - Min(U)
  <2>1. \A x \in S : b - x \in U
    OBVIOUS
  <2> QED
    BY <1>2, <2>1
<1> QED
  BY <1>3 DEF Max

\* Max of a pair, as the code's max(a, b).
LEMMA MaxOfTwo ==
    ASSUME NEW a \in Int, NEW b \in Int
    PROVE  Max({a, b}) = IF a >= b THEN a ELSE b
BY DEF Max

\* Min of a pair, as the code's min(a, b).
LEMMA MinOfTwo ==
    ASSUME NEW a \in Int, NEW b \in Int
    PROVE  Min({a, b}) = IF a <= b THEN a ELSE b
BY DEF Min

-----------------------------------------------------------------------------
(* Reading.                                                                *)

\* lastIndex of log.go, by its offset from the sentinel.
LEMMA LastIndexIs ==
    ASSUME NEW l PROVE LastIndex(l) = SnapshotIndex(l) + Len(l) - 1
BY DEF LastIndex, SnapshotIndex

\* The sentinel and the last entry of a well-formed log.
LEMMA LogFacts ==
    ASSUME NEW C, NEW T \in SUBSET Nat, NEW l, IsLog(C, T, l)
    PROVE  /\ SnapshotIndex(l) \in Nat /\ SnapshotTerm(l) \in T
           /\ LastIndex(l) \in Nat /\ SnapshotIndex(l) <= LastIndex(l)
           /\ Len(l) = LastIndex(l) - SnapshotIndex(l) + 1
           /\ LastTerm(l) \in T /\ LastTerm(l) = Get(l, LastIndex(l)).term
<1>1. Len(l) \in Nat /\ Len(l) >= 1 /\ l[1] \in EntryOf(C, T) /\ l[Len(l)] \in EntryOf(C, T)
  BY DEF IsLog
<1>2. l[1].index \in Nat /\ l[1].term \in T /\ l[Len(l)].term \in T
  BY <1>1 DEF EntryOf
<1>3. Get(l, LastIndex(l)) = l[Len(l)]
  BY <1>1, <1>2 DEF Get, LastIndex, SnapshotIndex
<1>4. SnapshotIndex(l) \in Nat /\ SnapshotTerm(l) \in T
  BY <1>2 DEF SnapshotIndex, SnapshotTerm
<1>5. LastIndex(l) = SnapshotIndex(l) + Len(l) - 1
  BY LastIndexIs
<1>6. LastTerm(l) \in T /\ LastTerm(l) = Get(l, LastIndex(l)).term
  BY <1>2, <1>3 DEF LastTerm
<1> QED
  BY <1>1, <1>4, <1>5, <1>6

\* get finds the entry of an index that the slice holds, sentinel included.
LEMMA GetInside ==
    ASSUME NEW C, NEW T \in SUBSET Nat, NEW l, IsLog(C, T, l),
           NEW i \in SnapshotIndex(l) .. LastIndex(l)
    PROVE  /\ Get(l, i) = l[i - SnapshotIndex(l) + 1]
           /\ i - SnapshotIndex(l) + 1 \in 1 .. Len(l)
           /\ Get(l, i) \in EntryOf(C, T) /\ Get(l, i).index = i
           /\ i > SnapshotIndex(l) => Get(l, i).term # 0 /\ Get(l, i).cmd \in C
<1>1. SnapshotIndex(l) \in Nat /\ LastIndex(l) \in Nat
  BY LogFacts
<1>2. i \in Int /\ Len(l) \in Nat /\ LastIndex(l) = SnapshotIndex(l) + Len(l) - 1
  BY <1>1 DEF LastIndex, SnapshotIndex, IsLog
<1> DEFINE k == i - SnapshotIndex(l) + 1
<1>3. k \in 1 .. Len(l) /\ Get(l, i) = l[k]
  BY <1>1, <1>2 DEF Get
<1>4. l[k].index = i
  <2>1. l[k].index = l[1].index + k - 1
    BY <1>3 DEF IsLog
  <2>2. l[1].index = SnapshotIndex(l)
    BY DEF SnapshotIndex
  <2> QED
    BY <1>1, <1>2, <2>1, <2>2
<1>5. l[k] \in EntryOf(C, T)
  BY <1>3 DEF IsLog
<1>6. i > SnapshotIndex(l) => l[k].term # 0 /\ l[k].cmd \in C
  BY <1>1, <1>2, <1>3 DEF IsLog
<1> QED
  BY <1>3, <1>4, <1>5, <1>6

\* The position alone.
LEMMA GetAt ==
    ASSUME NEW C, NEW T \in SUBSET Nat, NEW l, IsLog(C, T, l),
           NEW i \in SnapshotIndex(l) .. LastIndex(l)
    PROVE  Get(l, i) = l[i - SnapshotIndex(l) + 1]
BY GetInside

\* The same for a reader that only needs the fields.
LEMMA GetEntry ==
    ASSUME NEW C, NEW T \in SUBSET Nat, NEW l, IsLog(C, T, l),
           NEW i \in Int, SnapshotIndex(l) <= i, i <= LastIndex(l)
    PROVE  /\ Get(l, i).index = i /\ Get(l, i).term \in T
           /\ i > SnapshotIndex(l) => Get(l, i).term # 0 /\ Get(l, i).cmd \in C
<1>1. i \in SnapshotIndex(l) .. LastIndex(l) /\ SnapshotIndex(l) \in Nat /\ LastIndex(l) \in Nat
  BY LogFacts
<1> DEFINE k == i - SnapshotIndex(l) + 1
<1>2. Get(l, i) = l[k] /\ k \in 1 .. Len(l)
  BY <1>1, GetInside
<1>3. l[k] \in EntryOf(C, T) /\ l[k].index = l[1].index + k - 1
  BY <1>2 DEF IsLog
<1>4. k # 1 => l[k].term # 0 /\ l[k].cmd \in C
  BY <1>1, <1>2 DEF IsLog
<1>5. l[1].index + k - 1 = i /\ (i > SnapshotIndex(l) => k # 1)
  BY <1>1 DEF SnapshotIndex
<1> HIDE DEF k
<1> QED
  BY <1>2, <1>3, <1>4, <1>5 DEF EntryOf

\* get answers the zero entry for an index the slice does not hold.
LEMMA GetOutside ==
    ASSUME NEW C, NEW T \in SUBSET Nat, NEW l, IsLog(C, T, l), NEW i \in Int,
           i \notin SnapshotIndex(l) .. LastIndex(l)
    PROVE  Get(l, i) = ZeroEntry
<1>1. SnapshotIndex(l) \in Nat /\ LastIndex(l) \in Nat
      /\ Len(l) = LastIndex(l) - SnapshotIndex(l) + 1
  BY LogFacts
<1> QED
  BY <1>1 DEF Get

\* A log is what Get finds in it.
LEMMA LogEqual ==
    ASSUME NEW C, NEW T \in SUBSET Nat, NEW l, NEW m, IsLog(C, T, l), IsLog(C, T, m),
           SnapshotIndex(l) = SnapshotIndex(m), LastIndex(l) = LastIndex(m),
           \A i \in SnapshotIndex(l) .. LastIndex(l) : Get(l, i) = Get(m, i)
    PROVE  l = m
<1>1. /\ SnapshotIndex(l) \in Nat /\ LastIndex(l) \in Nat
      /\ Len(l) = LastIndex(l) - SnapshotIndex(l) + 1
      /\ Len(m) = LastIndex(l) - SnapshotIndex(l) + 1
  BY LogFacts
<1>2. ASSUME NEW k \in 1 .. Len(l) PROVE l[k] = m[k]
  <2> DEFINE i == SnapshotIndex(l) + k - 1
  <2>1. i \in SnapshotIndex(l) .. LastIndex(l) /\ i - SnapshotIndex(l) + 1 = k
    BY <1>1
  <2>2. Get(l, i) = l[k] /\ Get(m, i) = m[k]
    <3> HIDE DEF i
    <3>1. Get(l, i) = l[i - SnapshotIndex(l) + 1]
      BY <2>1, GetAt
    <3>2. Get(m, i) = m[i - SnapshotIndex(m) + 1]
      <4>1. i \in SnapshotIndex(m) .. LastIndex(m)
        BY <2>1
      <4> QED
        BY <4>1, GetAt
    <3> QED
      BY <2>1, <3>1, <3>2
  <2> QED
    BY <2>1, <2>2
<1> QED
  BY <1>1, <1>2, SeqEqual DEF IsLog

-----------------------------------------------------------------------------
(* Writing.                                                                *)

\* A sequence of entries built behind a sentinel is a log.
LEMMA AppendOne ==
    ASSUME NEW C, NEW T \in SUBSET Nat, NEW l, IsLog(C, T, l),
           NEW e \in EntryOf(C, T), e.index = LastIndex(l) + 1, e.term # 0, e.cmd \in C
    PROVE  LET m == l \o <<e>> IN
           /\ IsLog(C, T, m)
           /\ SnapshotIndex(m) = SnapshotIndex(l)
           /\ LastIndex(m) = LastIndex(l) + 1
           /\ Get(m, LastIndex(l) + 1) = e
           /\ \A i \in SnapshotIndex(l) .. LastIndex(l) : Get(m, i) = Get(l, i)
<1> DEFINE m == l \o <<e>>
<1>1. /\ SnapshotIndex(l) \in Nat /\ LastIndex(l) \in Nat
      /\ Len(l) = LastIndex(l) - SnapshotIndex(l) + 1
      /\ SnapshotIndex(l) <= LastIndex(l)
  BY LogFacts
<1>2. l \in Seq(EntryOf(C, T)) /\ Len(l) \in Nat
  BY DEF IsLog
<1>3. /\ m \in Seq(EntryOf(C, T)) /\ Len(m) = Len(l) + 1
      /\ m[Len(l) + 1] = e
      /\ \A k \in 1 .. Len(l) : m[k] = l[k]
  BY <1>2
<1> HIDE DEF m
<1>0. 1 \in 1 .. Len(l) /\ m[1] = l[1]
  BY <1>1, <1>3
<1>4. SnapshotIndex(m) = SnapshotIndex(l)
  BY <1>0 DEF SnapshotIndex
<1>5. LastIndex(m) = LastIndex(l) + 1
  <2>1. LastIndex(m) = SnapshotIndex(m) + Len(m) - 1
    BY LastIndexIs
  <2> QED
    BY <1>1, <1>2, <1>3, <1>4, <2>1
<1>6. IsLog(C, T, m)
  <2>1. Len(m) >= 1 /\ m[1] = l[1] /\ m[1].cmd = NoCmd
    BY <1>1, <1>2, <1>3 DEF IsLog
  <2>2. ASSUME NEW k \in 1 .. Len(m)
        PROVE  m[k].index = m[1].index + k - 1 /\ (k # 1 => m[k].term # 0 /\ m[k].cmd \in C)
    <3>1. CASE k \in 1 .. Len(l)
      BY <1>2, <1>3, <2>1, <3>1 DEF IsLog
    <3>2. CASE k = Len(l) + 1
      <4>1. m[k] = e /\ m[1].index = SnapshotIndex(l)
        BY <1>3, <2>1, <3>2 DEF SnapshotIndex
      <4> QED
        BY <1>1, <3>2, <4>1
    <3> QED
      BY <1>2, <1>3, <3>1, <3>2
  <2> QED
    BY <1>3, <2>1, <2>2 DEF IsLog
<1>7. ASSUME NEW i \in SnapshotIndex(l) .. LastIndex(l) PROVE Get(m, i) = Get(l, i)
  BY <1>1, <1>3, <1>4 DEF Get
<1>8. Get(m, LastIndex(l) + 1) = e
  BY <1>1, <1>3, <1>4 DEF Get
<1> QED
  BY <1>4, <1>5, <1>6, <1>7, <1>8 DEF m

\* Compaction keeps what is stored after its index.
LEMMA CompactToFacts ==
    ASSUME NEW C, NEW T \in SUBSET Nat, NEW l, IsLog(C, T, l), NEW i \in Nat, NEW t \in T,
           i > SnapshotIndex(l)
    PROVE  LET m == CompactTo(l, i, t) IN
           /\ IsLog(C, T, m)
           /\ SnapshotIndex(m) = i /\ SnapshotTerm(m) = t
           /\ LastIndex(m) = IF i <= LastIndex(l) THEN LastIndex(l) ELSE i
           /\ \A j \in i + 1 .. LastIndex(m) : Get(m, j) = Get(l, j)
<1> DEFINE z == [term |-> t, index |-> i, cmd |-> NoCmd]
           s == SubSeq(l, i - SnapshotIndex(l) + 2, Len(l))
           m == <<z>> \o s
<1>1. /\ SnapshotIndex(l) \in Nat /\ LastIndex(l) \in Nat
      /\ Len(l) = LastIndex(l) - SnapshotIndex(l) + 1
      /\ SnapshotIndex(l) <= LastIndex(l)
  BY LogFacts
<1>2. CompactTo(l, i, t) = m
  <2>1. ~(i <= SnapshotIndex(l))
    BY <1>1
  <2> QED
    BY <2>1 DEF CompactTo
<1>3. l \in Seq(EntryOf(C, T)) /\ Len(l) \in Nat /\ z \in EntryOf(C, T)
  BY DEF IsLog, EntryOf
<1> DEFINE a == i - SnapshotIndex(l) + 2
<1>4. a \in Int /\ a >= 3
  BY <1>1
<1>5. /\ s \in Seq(EntryOf(C, T))
      /\ Len(s) = IF a <= Len(l) THEN Len(l) - a + 1 ELSE 0
      /\ \A k \in 1 .. Len(s) : s[k] = l[a + k - 1] /\ a + k - 1 \in 3 .. Len(l)
  <2>1. \A k \in a .. Len(l) : l[k] \in EntryOf(C, T)
    BY <1>3, <1>4
  <2>s. s = SubSeq(l, a, Len(l))
    OBVIOUS
  <2> HIDE DEF s, a
  <2>2. /\ s \in Seq(EntryOf(C, T))
        /\ Len(s) = IF a <= Len(l) THEN Len(l) - a + 1 ELSE 0
    BY <1>3, <1>4, <2>1, <2>s, SubSeqProperties
  <2>3. \A k \in 1 .. Len(s) : s[k] = l[a + k - 1]
    BY <1>3, <1>4, <2>1, <2>2, <2>s, SubSeqProperties
  <2>4. \A k \in 1 .. Len(s) : a + k - 1 \in 3 .. Len(l)
    BY <1>3, <1>4, <2>2
  <2> QED
    BY <2>2, <2>3, <2>4
<1> HIDE DEF s, z
<1>6. /\ m \in Seq(EntryOf(C, T)) /\ Len(m) = Len(s) + 1 /\ Len(s) \in Nat
      /\ m[1] = z
      /\ \A k \in 1 .. Len(s) : m[k + 1] = s[k]
  <2>1. s \in Seq(EntryOf(C, T)) /\ Len(s) \in Nat
    BY <1>5
  <2> QED
    BY <1>3, <2>1, SMTT(30)
<1> HIDE DEF m
<1>7. SnapshotIndex(m) = i /\ SnapshotTerm(m) = t
  BY <1>6 DEF SnapshotIndex, SnapshotTerm, z
<1>8. LastIndex(m) = IF i <= LastIndex(l) THEN LastIndex(l) ELSE i
  <2>1. LastIndex(m) = SnapshotIndex(m) + Len(m) - 1
    BY LastIndexIs
  <2>2. LastIndex(m) = i + Len(s)
    BY <1>6, <1>7, <2>1
  <2>3. CASE i < LastIndex(l)
    <3>1. a <= Len(l) /\ Len(l) - a + 1 = LastIndex(l) - i
      BY <1>1, <2>3
    <3>2. Len(s) = LastIndex(l) - i
      BY <1>5, <3>1
    <3> HIDE DEF a
    <3> QED
      BY <1>1, <2>2, <2>3, <3>2
  <2>4. CASE i >= LastIndex(l)
    <3>1. ~(a <= Len(l))
      BY <1>1, <2>4
    <3>2. Len(s) = 0
      BY <1>5, <3>1
    <3> HIDE DEF a
    <3> QED
      BY <1>1, <2>2, <2>4, <3>2
  <2> QED
    BY <1>1, <2>3, <2>4
<1>9. ASSUME NEW k \in 2 .. Len(m)
      PROVE  /\ m[k] = l[k + i - SnapshotIndex(l)]
             /\ k + i - SnapshotIndex(l) \in 3 .. Len(l)
  <2>1. k - 1 \in 1 .. Len(s)
    BY <1>6
  <2>2. m[(k - 1) + 1] = s[k - 1]
    BY <1>6, <2>1
  <2>3. s[k - 1] = l[a + (k - 1) - 1] /\ a + (k - 1) - 1 \in 3 .. Len(l)
    BY <1>5, <2>1
  <2>4. (k - 1) + 1 = k /\ a + (k - 1) - 1 = k + i - SnapshotIndex(l)
    BY <1>1, <1>6
  <2> QED
    BY <2>2, <2>3, <2>4
<1>10. IsLog(C, T, m)
  <2>1. ASSUME NEW k \in 2 .. Len(m)
        PROVE  m[k].index = i + k - 1 /\ m[k].term # 0 /\ m[k].cmd \in C
    <3> DEFINE q == k + i - SnapshotIndex(l)
    <3>1. m[k] = l[q] /\ q \in 3 .. Len(l)
      BY <1>9
    <3>2. l[q].index = l[1].index + q - 1 /\ l[q].term # 0 /\ l[q].cmd \in C
      BY <1>3, <3>1 DEF IsLog
    <3>3. l[1].index + q - 1 = i + k - 1
      <4>1. l[1].index = SnapshotIndex(l)
        BY DEF SnapshotIndex
      <4>2. k \in Int
        BY <1>6
      <4> QED
        BY <1>1, <4>1, <4>2
    <3> QED
      BY <3>1, <3>2, <3>3
  <2>2. m[1].index = i /\ m[1].cmd = NoCmd
    BY <1>6 DEF z
  <2> QED
    BY <1>6, <2>1, <2>2 DEF IsLog
<1>11. ASSUME NEW j \in i + 1 .. LastIndex(m) PROVE Get(m, j) = Get(l, j)
  <2> DEFINE k == j - i + 1
  <2>1. Len(m) = LastIndex(m) - i + 1 /\ LastIndex(m) \in Nat
    BY <1>7, <1>10, LogFacts
  <2>2. k \in 2 .. Len(m)
    BY <2>1
  <2>3. m[k] = l[k + i - SnapshotIndex(l)] /\ k + i - SnapshotIndex(l) \in 3 .. Len(l)
    BY <1>9, <2>2
  <2>4. Get(m, j) = m[k]
    BY <1>7, <2>1, <2>2 DEF Get
  <2>5. Get(l, j) = l[k + i - SnapshotIndex(l)]
    BY <1>1, <2>3 DEF Get
  <2> QED
    BY <2>3, <2>4, <2>5
<1> QED
  BY <1>2, <1>7, <1>8, <1>10, <1>11

\* slice when none of its early returns is taken.
LEMMA SliceInside ==
    ASSUME NEW l, NEW from, NEW to, ~(from <= SnapshotIndex(l)), ~(from >= to),
           ~(from - SnapshotIndex(l) >= Len(l))
    PROVE  Slice(l, from, to) = SubSeq(l, from - SnapshotIndex(l) + 1,
                                       Min({to - SnapshotIndex(l), Len(l)}))
BY DEF Slice

\* What a leader sends is its log from nextIndex on.
LEMMA SliceFacts ==
    ASSUME NEW C, NEW T \in SUBSET Nat, NEW l, IsLog(C, T, l),
           NEW from \in Nat, from > SnapshotIndex(l)
    PROVE  LET es == Slice(l, from, LastIndex(l) + 1) IN
           /\ IsBatch(C, T, from - 1, es)
           /\ Len(es) = IF from <= LastIndex(l) THEN LastIndex(l) - from + 1 ELSE 0
           /\ \A k \in 1 .. Len(es) : es[k] = Get(l, from - 1 + k)
<1> DEFINE es == Slice(l, from, LastIndex(l) + 1)
           a == from - SnapshotIndex(l) + 1
<1>1. /\ SnapshotIndex(l) \in Nat /\ LastIndex(l) \in Nat
      /\ Len(l) = LastIndex(l) - SnapshotIndex(l) + 1
      /\ SnapshotIndex(l) <= LastIndex(l)
  BY LogFacts
<1>2. CASE from > LastIndex(l)
  <2>1. es = <<>>
    BY <1>1, <1>2 DEF Slice
  <2> HIDE DEF es
  <2>2. es \in Seq(EntryOf(C, T)) /\ Len(es) = 0
    BY <2>1
  <2>3. IsBatch(C, T, from - 1, es)
    BY <2>2 DEF IsBatch
  <2> QED
    BY <1>1, <1>2, <2>2, <2>3 DEF es
<1>3. CASE from <= LastIndex(l)
  <2>3. es = SubSeq(l, a, Len(l))
    <3> DEFINE to == LastIndex(l) + 1
    <3>1. /\ ~(from <= SnapshotIndex(l)) /\ ~(from >= to)
          /\ ~(from - SnapshotIndex(l) >= Len(l))
      BY <1>1, <1>3
    <3>2. to - SnapshotIndex(l) = Len(l) /\ to - SnapshotIndex(l) \in Int
      BY <1>1
    <3> HIDE DEF to
    <3>3. Slice(l, from, to) = SubSeq(l, from - SnapshotIndex(l) + 1,
                                      Min({to - SnapshotIndex(l), Len(l)}))
      BY <3>1, SliceInside
    <3>4. Min({to - SnapshotIndex(l), Len(l)}) = Len(l)
      BY <3>2, MinOfTwo
    <3>5. Slice(l, from, to) = SubSeq(l, from - SnapshotIndex(l) + 1, Len(l))
      BY <3>3, <3>4
    <3> QED
      BY <3>5 DEF to
  <2>4. a \in 2 .. Len(l)
    BY <1>1, <1>3
  <2>5. l \in Seq(EntryOf(C, T)) /\ Len(l) \in Nat
    BY DEF IsLog
  <2>6. /\ es \in Seq(EntryOf(C, T)) /\ Len(es) = Len(l) - a + 1
        /\ \A k \in 1 .. Len(es) : es[k] = l[a + k - 1]
    <3> HIDE DEF a, es
    <3>1. \A k \in a .. Len(l) : l[k] \in EntryOf(C, T)
      BY <2>4, <2>5
    <3> QED
      BY <2>3, <2>4, <2>5, <3>1, SubSeqProperties
  <2> HIDE DEF es
  <2>7. Len(es) = LastIndex(l) - from + 1
    BY <1>1, <2>6
  <2>8. ASSUME NEW k \in 1 .. Len(es)
        PROVE  /\ es[k] = Get(l, from - 1 + k)
               /\ es[k].index = from - 1 + k /\ es[k].term # 0 /\ es[k].cmd \in C
    <3> DEFINE i == from - 1 + k
    <3>0. i \in SnapshotIndex(l) .. LastIndex(l)
      BY <1>1, <2>7
    <3>1. i > SnapshotIndex(l) /\ i - SnapshotIndex(l) + 1 = a + k - 1
      BY <1>1, <2>7
    <3>2. es[k] = l[a + k - 1]
      BY <2>6
    <3> HIDE DEF i, a, es
    <3>3. Get(l, i) = l[i - SnapshotIndex(l) + 1]
      BY <3>0, GetInside
    <3>4. Get(l, i).index = i /\ Get(l, i).term # 0 /\ Get(l, i).cmd \in C
      <4>1. i \in Int /\ SnapshotIndex(l) <= i /\ i <= LastIndex(l)
        BY <1>1, <3>0
      <4>2. i > SnapshotIndex(l)
        BY <3>1
      <4> QED
        BY <4>1, <4>2, GetEntry, ZenonT(30)
    <3> QED
      BY <3>1, <3>2, <3>3, <3>4 DEF i
  <2>9. IsBatch(C, T, from - 1, es)
    BY <2>6, <2>8 DEF IsBatch
  <2> QED
    BY <1>3, <2>7, <2>8, <2>9 DEF es
<1> QED
  BY <1>1, <1>2, <1>3

\* The first entry of a batch that the log lacks or contradicts, and with it
\* all that follow, replace what the log has from there on; a batch without
\* such an entry changes nothing.
Diverges(l, p, es, k) ==
    /\ p + k > SnapshotIndex(l)
    /\ Get(l, p + k).term # es[k].term

MergedAt(l, p, es, k, m) ==
    /\ Diverges(l, p, es, k)
    /\ p + k <= LastIndex(l) + 1
    /\ \A q \in 1 .. k - 1 : ~Diverges(l, p, es, q)
    /\ LastIndex(m) = p + Len(es)
    /\ \A i \in SnapshotIndex(l) .. p + k - 1 : Get(m, i) = Get(l, i)
    /\ \A i \in p + k .. p + Len(es) : Get(m, i) = es[i - p]

MergeResult(l, p, es, m) ==
    /\ SnapshotIndex(m) = SnapshotIndex(l)
    /\ \/ m = l /\ \A k \in 1 .. Len(es) : ~Diverges(l, p, es, k)
       \/ \E k \in 1 .. Len(es) : MergedAt(l, p, es, k, m)

\* What the merge loop of HandleAppendEntries leaves of a log and a batch.
LEMMA AppendBatchFacts ==
    ASSUME NEW C, NEW T \in SUBSET Nat, NEW l, IsLog(C, T, l),
           NEW p \in Nat, p <= LastIndex(l), NEW es, IsBatch(C, T, p, es)
    PROVE  LET m == AppendBatch(l, es) IN
           IsLog(C, T, m) /\ MergeResult(l, p, es, m)
<1> DEFINE New == {k \in 1 .. Len(es) : Diverges(l, p, es, k)}
           m == AppendBatch(l, es)
<1>0. es \in Seq(EntryOf(C, T)) /\ Len(es) \in Nat /\ l \in Seq(EntryOf(C, T)) /\ Len(l) \in Nat
  BY DEF IsBatch, IsLog
<1>1. /\ SnapshotIndex(l) \in Nat /\ LastIndex(l) \in Nat
      /\ Len(l) = LastIndex(l) - SnapshotIndex(l) + 1
      /\ SnapshotIndex(l) <= LastIndex(l)
  BY LogFacts
<1>2. New = {k \in 1 .. Len(es) : /\ es[k].index > SnapshotIndex(l)
                                  /\ Get(l, es[k].index).term # es[k].term}
  BY DEF IsBatch, Diverges
<1>3. CASE New = {}
  <2>1. m = l
    BY <1>2, <1>3 DEF AppendBatch
  <2>2. \A k \in 1 .. Len(es) : ~Diverges(l, p, es, k)
    BY <1>3
  <2> HIDE DEF m
  <2> QED
    BY <2>1, <2>2 DEF m, MergeResult
<1>4. CASE New # {}
  <2> DEFINE k == Min(New)
             base == TruncateFrom(l, es[k].index)
             tail == SubSeq(es, k, Len(es))
  <2>1. m = base \o tail
    BY <1>2, <1>4 DEF AppendBatch
  <2>2. k \in New /\ \A x \in New : k <= x
    <3>1. New \in SUBSET Nat
      OBVIOUS
    <3> HIDE DEF New
    <3> QED
      BY <1>4, <3>1, NatMin
  <2>3. k \in 1 .. Len(es) /\ Diverges(l, p, es, k)
    BY <2>2
  <2>4. ASSUME NEW q \in 1 .. k - 1 PROVE ~Diverges(l, p, es, q)
    BY <1>0, <2>2, <2>3
  <2>k. k \in Nat /\ 1 <= k /\ k <= Len(es)
    BY <1>0, <2>3
  <2> HIDE DEF New, k, m
  <2>5. p + k <= LastIndex(l) + 1
    <3>1. CASE k = 1
      BY <1>1, <3>1
    <3>2. CASE k > 1
      <4>1. k - 1 \in 1 .. k - 1 /\ k - 1 \in 1 .. Len(es)
        BY <2>3, <3>2
      <4>2. ~Diverges(l, p, es, k - 1) /\ es[k - 1].term # 0
        BY <2>4, <4>1 DEF IsBatch
      <4>3. p + (k - 1) <= SnapshotIndex(l) \/ Get(l, p + (k - 1)).term # 0
        BY <1>1, <2>3, <4>2 DEF Diverges
      <4>4. p + (k - 1) \in Int /\ p + (k - 1) <= LastIndex(l)
        <5>1. p + (k - 1) \in Int
          BY <2>3
        <5>2. Get(l, p + (k - 1)).term # 0 => p + (k - 1) \in SnapshotIndex(l) .. LastIndex(l)
          BY <5>1, GetOutside DEF ZeroEntry
        <5> QED
          BY <1>1, <4>3, <5>1, <5>2
      <4> QED
        BY <1>1, <2>3, <4>4
    <3> QED
      BY <2>3, <3>1, <3>2
  <2>6. es[k].index = p + k /\ p + k > SnapshotIndex(l)
    BY <2>3 DEF IsBatch, Diverges
  <2> DEFINE b == p + k - SnapshotIndex(l)
  <2>7. b \in 1 .. Len(l)
    BY <1>1, <2>3, <2>5, <2>6
  <2>8. base = SubSeq(l, 1, b)
    <3>1. CASE p + k <= LastIndex(l)
      BY <1>1, <2>3, <2>6, <3>1 DEF TruncateFrom
    <3>2. CASE p + k = LastIndex(l) + 1
      <4>1. base = l
        BY <1>1, <2>3, <2>6, <3>2 DEF TruncateFrom
      <4>2. b = Len(l)
        BY <1>1, <2>k, <3>2
      <4>3. SubSeq(l, 1, Len(l)) = l
        BY <1>0
      <4> QED
        BY <4>1, <4>2, <4>3
    <3>3. p + k <= LastIndex(l) \/ p + k = LastIndex(l) + 1
      BY <1>1, <2>5, <2>k
    <3> QED
      BY <3>1, <3>2, <3>3
  <2> HIDE DEF base
  <2>9. /\ base \in Seq(EntryOf(C, T)) /\ Len(base) = b
        /\ \A x \in 1 .. b : base[x] = l[x]
    <3> HIDE DEF b
    <3> QED
      BY <1>0, <2>7, <2>8
  <2>10. /\ tail \in Seq(EntryOf(C, T)) /\ Len(tail) = Len(es) - k + 1
         /\ \A x \in 1 .. Len(tail) : tail[x] = es[k + x - 1]
    <3>1. \A x \in k .. Len(es) : es[x] \in EntryOf(C, T)
      BY <1>0, <2>3
    <3> QED
      BY <1>0, <2>3, <3>1, SubSeqProperties
  <2> HIDE DEF tail
  <2>11. /\ m \in Seq(EntryOf(C, T)) /\ Len(m) = b + Len(es) - k + 1
         /\ \A x \in 1 .. b : m[x] = l[x]
         /\ \A x \in b + 1 .. Len(m) : m[x] = es[k + (x - b) - 1]
    <3>0. b \in Nat /\ Len(es) - k + 1 \in Nat
      BY <1>0, <2>3, <2>7
    <3> HIDE DEF b
    <3>1. m \in Seq(EntryOf(C, T)) /\ Len(m) = Len(base) + Len(tail)
      BY <2>1, <2>9, <2>10
    <3>2. Len(m) = b + Len(es) - k + 1
      BY <1>0, <2>3, <2>9, <2>10, <3>0, <3>1
    <3>3. ASSUME NEW x \in 1 .. b PROVE m[x] = l[x]
      BY <2>1, <2>9, <2>10, <3>0
    <3>4. ASSUME NEW x \in b + 1 .. Len(m) PROVE m[x] = es[k + (x - b) - 1]
      <4>1. x - b \in 1 .. Len(tail)
        BY <2>3, <2>10, <3>0, <3>2
      <4>2. x \in 1 .. Len(base) + Len(tail) /\ ~(x <= Len(base)) /\ x - Len(base) = x - b
        BY <1>0, <2>9, <2>10, <2>k, <3>0, <3>2
      <4>3. m[x] = tail[x - b]
        BY <2>1, <2>9, <2>10, <4>2
      <4> QED
        BY <2>10, <4>1, <4>3
    <3> QED
      BY <3>1, <3>2, <3>3, <3>4
  <2>12. m[1] = l[1] /\ SnapshotIndex(m) = SnapshotIndex(l)
    BY <2>7, <2>11 DEF SnapshotIndex
  <2>13. LastIndex(m) = p + Len(es)
    <3>1. LastIndex(m) = SnapshotIndex(m) + Len(m) - 1
      BY LastIndexIs
    <3>2. Len(m) = p + k - SnapshotIndex(l) + Len(es) - k + 1
      BY <2>11
    <3>3. LastIndex(m) = SnapshotIndex(l) + (p + k - SnapshotIndex(l) + Len(es) - k + 1) - 1
      BY <2>12, <3>1, <3>2
    <3> QED
      BY <1>0, <1>1, <2>k, <3>3, SMTT(30)
  <2>14. IsLog(C, T, m)
    <3>1. ASSUME NEW x \in 1 .. Len(m)
          PROVE  m[x].index = m[1].index + x - 1 /\ (x # 1 => m[x].term # 0 /\ m[x].cmd \in C)
      <4>1. CASE x \in 1 .. b
        <5>1. x \in 1 .. Len(l) /\ m[x] = l[x]
          BY <2>7, <2>11, <4>1
        <5>2. l[x].index = l[1].index + x - 1 /\ (x # 1 => l[x].term # 0 /\ l[x].cmd \in C)
          BY <5>1 DEF IsLog
        <5> QED
          BY <2>12, <5>1, <5>2
      <4>2. CASE x \in b + 1 .. Len(m)
        <5> DEFINE q == k + (x - b) - 1
        <5>1. m[x] = es[q]
          BY <2>11, <4>2
        <5>2. q \in 1 .. Len(es) /\ p + q = SnapshotIndex(l) + x - 1
          <6>1. Len(m) = b + Len(es) - k + 1
            BY <2>11
          <6>2. /\ Len(es) \in Nat /\ k \in Nat /\ 1 <= k /\ k <= Len(es)
                /\ SnapshotIndex(l) \in Nat
            BY <1>0, <1>1, <2>k
          <6>3. x \in b + 1 .. b + Len(es) - k + 1
            BY <4>2, <6>1
          <6>4. b \in Int
            BY <6>2
          <6>9. SnapshotIndex(l) + b = p + k
            BY <6>2
          <6>q. q = k + (x - b) - 1
            OBVIOUS
          <6> HIDE DEF b, q
          <6>5. x \in Int /\ b + 1 <= x /\ x <= b + Len(es) - k + 1
            BY <6>2, <6>3, <6>4
          <6> DEFINE d == x - b
          <6>d. d \in Int /\ x = b + d
            BY <6>4, <6>5
          <6>6. 1 <= d /\ d <= Len(es) - k + 1
            BY <6>2, <6>4, <6>5
          <6>7. q = k + d - 1
            BY <6>q
          <6> HIDE DEF d
          <6>8. q \in 1 .. Len(es)
            BY <6>2, <6>d, <6>6, <6>7
          <6>10. p + q = (p + k) + d - 1
            BY <6>2, <6>d, <6>7
          <6>11. SnapshotIndex(l) + x - 1 = (SnapshotIndex(l) + b) + d - 1
            BY <6>2, <6>4, <6>d
          <6>12. p + q = SnapshotIndex(l) + x - 1
            BY <6>9, <6>10, <6>11
          <6> QED
            BY <6>8, <6>12
        <5> HIDE DEF q
        <5>3. es[q].index = p + q /\ es[q].term # 0 /\ es[q].cmd \in C
          BY <5>2 DEF IsBatch
        <5>4. m[1].index = SnapshotIndex(l)
          BY <2>12 DEF SnapshotIndex
        <5> QED
          BY <5>1, <5>2, <5>3, <5>4
      <4> QED
        BY <1>0, <2>3, <2>7, <2>11, <4>1, <4>2
    <3>2. Len(m) >= 1 /\ m[1].cmd = NoCmd
      BY <1>0, <2>3, <2>7, <2>11, <2>12 DEF IsLog
    <3> QED
      BY <2>11, <3>1, <3>2 DEF IsLog
  <2>15. Len(m) = p + Len(es) - SnapshotIndex(l) + 1
    BY <1>0, <1>1, <2>3, <2>11
  <2>16. ASSUME NEW i \in SnapshotIndex(l) .. p + k - 1 PROVE Get(m, i) = Get(l, i)
    <3>0. i \in Int /\ SnapshotIndex(l) <= i /\ i <= p + k - 1
      BY <1>1, <2>k
    <3>1. i - SnapshotIndex(l) + 1 \in 1 .. b /\ i <= LastIndex(l) /\ i <= p + Len(es)
      <4>1. i <= LastIndex(l) /\ i <= p + Len(es)
        BY <1>0, <1>1, <2>k, <2>5, <3>0
      <4>2. i - SnapshotIndex(l) + 1 \in 1 .. b
        BY <1>1, <2>k, <3>0, SMTT(30)
      <4> QED
        BY <4>1, <4>2
    <3>2. Get(m, i) = m[i - SnapshotIndex(l) + 1]
      <4>1. i \in SnapshotIndex(m) .. LastIndex(m)
        BY <1>0, <1>1, <2>12, <2>13, <3>0, <3>1
      <4>2. Get(m, i) = m[i - SnapshotIndex(m) + 1]
        BY <2>14, <4>1, GetAt
      <4> QED
        BY <2>12, <4>2
    <3>3. Get(l, i) = l[i - SnapshotIndex(l) + 1]
      <4>1. i \in SnapshotIndex(l) .. LastIndex(l)
        BY <1>1, <3>0, <3>1
      <4> QED
        BY <4>1, GetAt
    <3> QED
      BY <2>11, <3>1, <3>2, <3>3
  <2>17. ASSUME NEW i \in p + k .. p + Len(es) PROVE Get(m, i) = es[i - p]
    <3> DEFINE x == i - SnapshotIndex(l) + 1
    <3>1. x \in b + 1 .. Len(m) /\ k + (x - b) - 1 = i - p
      <4>1. i \in Int /\ p + k <= i /\ i <= p + Len(es) /\ Len(es) \in Nat /\ k \in Nat
        BY <1>0, <2>k
      <4>2. SnapshotIndex(l) \in Nat
        BY <1>1
      <4>3. x \in b + 1 .. p + Len(es) - SnapshotIndex(l) + 1
        BY <4>1, <4>2
      <4>4. k + (x - b) - 1 = i - p
        BY <4>1, <4>2
      <4> QED
        BY <2>15, <4>3, <4>4
    <3>2. Get(m, i) = m[x]
      <4>1. i \in SnapshotIndex(m) .. LastIndex(m)
        BY <1>0, <1>1, <2>k, <2>6, <2>12, <2>13
      <4>2. Get(m, i) = m[i - SnapshotIndex(m) + 1]
        BY <2>14, <4>1, GetAt
      <4> QED
        BY <2>12, <4>2
    <3> HIDE DEF x, b
    <3>3. m[x] = es[k + (x - b) - 1]
      BY <2>11, <3>1
    <3> QED
      BY <3>1, <3>2, <3>3
  <2>18. MergedAt(l, p, es, k, m)
    BY <2>3, <2>4, <2>5, <2>13, <2>16, <2>17 DEF MergedAt
  <2> QED
    BY <2>3, <2>12, <2>14, <2>18 DEF m, MergeResult
<1> QED
  BY <1>3, <1>4

-----------------------------------------------------------------------------
(* The two searches for a conflicting term.                                *)

\* firstIndexForTerm is not above any entry of the term.
LEMMA FirstIndexFacts ==
    ASSUME NEW C, NEW T \in SUBSET Nat, NEW l, IsLog(C, T, l), NEW t
    PROVE  /\ FirstIndexForTerm(l, t) \in Nat
           /\ \A i \in Int : (SnapshotIndex(l) <= i /\ i <= LastIndex(l) /\ Get(l, i).term = t)
                             => FirstIndexForTerm(l, t) <= i
<1> DEFINE P == {k \in 1 .. Len(l) : l[k].term = t}
<1>1. /\ SnapshotIndex(l) \in Nat /\ LastIndex(l) \in Nat
      /\ Len(l) = LastIndex(l) - SnapshotIndex(l) + 1
  BY LogFacts
<1>2. P \in SUBSET Nat
  OBVIOUS
<1>3. FirstIndexForTerm(l, t) = IF P = {} THEN 0 ELSE l[Min(P)].index
  BY DEF FirstIndexForTerm
<1>4. ASSUME P # {} PROVE Min(P) \in P /\ \A x \in P : Min(P) <= x
  <2> HIDE DEF P
  <2> QED
    BY <1>2, <1>4, NatMin
<1>5. ASSUME P # {} PROVE l[Min(P)].index = SnapshotIndex(l) + Min(P) - 1
  <2>1. Min(P) \in 1 .. Len(l)
    BY <1>4, <1>5
  <2> HIDE DEF P
  <2> QED
    BY <2>1 DEF IsLog, SnapshotIndex
<1>6. FirstIndexForTerm(l, t) \in Nat
  <2>1. P # {} => Min(P) \in 1 .. Len(l)
    BY <1>4
  <2> HIDE DEF P
  <2> QED
    BY <1>1, <1>3, <1>5, <2>1
<1>7. ASSUME NEW i \in Int, SnapshotIndex(l) <= i, i <= LastIndex(l), Get(l, i).term = t
      PROVE  FirstIndexForTerm(l, t) <= i
  <2> DEFINE k == i - SnapshotIndex(l) + 1
  <2>1. k \in 1 .. Len(l)
    BY <1>1, <1>7
  <2>2. Get(l, i) = l[k]
    BY <1>1, <1>7 DEF Get
  <2>3. k \in P
    BY <1>7, <2>1, <2>2
  <2>4. Min(P) <= k /\ Min(P) \in Int
    BY <1>4, <2>3
  <2>5. FirstIndexForTerm(l, t) = SnapshotIndex(l) + Min(P) - 1
    BY <1>3, <1>5, <2>3
  <2> HIDE DEF P
  <2> QED
    BY <1>1, <1>7, <2>4, <2>5
<1> QED
  BY <1>6, <1>7

\* The backward scan of sendToPeer stays within the log.
LEMMA LastIndexWithTermFacts ==
    ASSUME NEW C, NEW T \in SUBSET Nat, NEW l, IsLog(C, T, l), NEW t
    PROVE  LastIndexWithTerm(l, t) \in Nat /\ LastIndexWithTerm(l, t) <= LastIndex(l)
<1> DEFINE I == {i \in 1 .. LastIndex(l) : Get(l, i).term = t}
<1>1. LastIndex(l) \in Nat
  BY LogFacts
<1>2. I \subseteq 1 .. LastIndex(l)
  OBVIOUS
<1>3. LastIndexWithTerm(l, t) = IF I = {} THEN 0 ELSE Max(I)
  BY DEF LastIndexWithTerm
<1> HIDE DEF I
<1>4. ASSUME I # {} PROVE Max(I) \in I
  <2>1. I \in SUBSET Nat /\ \A x \in I : x <= LastIndex(l)
    BY <1>1, <1>2
  <2> QED
    BY <1>1, <1>4, <2>1, NatMax
<1>5. CASE I = {}
  BY <1>1, <1>3, <1>5
<1>6. CASE I # {}
  <2>1. Max(I) \in 1 .. LastIndex(l)
    BY <1>2, <1>4, <1>6
  <2>2. LastIndexWithTerm(l, t) = Max(I)
    BY <1>3, <1>6
  <2> QED
    BY <1>1, <2>1, <2>2
<1> QED
  BY <1>5, <1>6

\* The log of a new node.
LEMMA EmptyLogFacts ==
    ASSUME NEW C, NEW T \in SUBSET Nat, 0 \in T
    PROVE  /\ IsLog(C, T, EmptyLog)
           /\ SnapshotIndex(EmptyLog) = 0 /\ LastIndex(EmptyLog) = 0
<1>1. ZeroEntry \in EntryOf(C, T) /\ ZeroEntry.cmd = NoCmd /\ ZeroEntry.index = 0
  BY DEF ZeroEntry, EntryOf
<1>2. /\ EmptyLog \in Seq(EntryOf(C, T)) /\ Len(EmptyLog) = 1
      /\ EmptyLog[1] = ZeroEntry
  BY <1>1 DEF EmptyLog
<1> QED
  BY <1>1, <1>2 DEF IsLog, SnapshotIndex, LastIndex

=============================================================================
