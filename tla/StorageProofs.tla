--------------------------- MODULE StorageProofs ---------------------------
(***************************************************************************)
(* Machine-checked proofs about module Storage: for every set of commands, *)
(* every bound and every interleaving of file operations, failures, kills  *)
(* and power cuts.                                                         *)
(***************************************************************************)
EXTENDS Storage, RaftLogProofs

Terms == 0 .. MaxTerm

Logs == Seq(EntryOf(Cmd, Terms))

Recs == [term : Term, index : 1 .. MaxLen, cmd : Cmd]

Mems == [log : Logs, full : Seq(Recs), snap : Nat]

Files == [state : [log : Logs, synced : {TRUE}],
          snapshot : [index : Nat, term : Terms, data : Seq(Recs), synced : {TRUE}]]

-----------------------------------------------------------------------------
(* The inductive invariant.                                                *)

\* A log that was never compacted.
IsFull(full) ==
    /\ full \in Seq(Recs) /\ Len(full) <= MaxLen
    /\ \A k \in 1 .. Len(full) : full[k].index = k

TermAt(full, i) == IF i = 0 THEN 0 ELSE full[i].term

\* The stored log is the image of the reference behind the boundary.
MemOK(m) ==
    /\ m \in Mems
    /\ IsLog(Cmd, Terms, m.log) /\ IsFull(m.full)
    /\ SnapshotIndex(m.log) = m.snap /\ LastIndex(m.log) = Len(m.full)
    /\ SnapshotTerm(m.log) = TermAt(m.full, m.snap)
    /\ \A i \in m.snap + 1 .. Len(m.full) : Get(m.log, i) = m.full[i]

\* Two files a restart can load: the snapshot reaches as far as the log was
\* compacted, and where it reaches no further the sentinel is its last entry.
FilesOK(f) ==
    /\ f \in Files
    /\ IsLog(Cmd, Terms, f.state.log) /\ LastIndex(f.state.log) <= MaxLen
    /\ IsFull(f.snapshot.data) /\ Len(f.snapshot.data) = f.snapshot.index
    /\ f.snapshot.term = TermAt(f.snapshot.data, f.snapshot.index)
    /\ SnapshotIndex(f.state.log) <= f.snapshot.index
    /\ SnapshotIndex(f.state.log) = f.snapshot.index
          => SnapshotTerm(f.state.log) = f.snapshot.term

\* The snapshot file of a node whose memory is m.
SnapOf(m) == [index |-> m.snap, term |-> SnapshotTerm(m.log),
              data |-> SubSeq(m.full, 1, m.snap), synced |-> TRUE]

DiskOK == disk \in Seq(Files) /\ Len(disk) >= 1 /\ \A k \in 1 .. Len(disk) : FilesOK(disk[k])

\* Nothing of the call is on disk yet.
Unsaved == Visible.snapshot = SnapOf(mem) /\ (~failed => Load(Visible).full = mem.full)

\* A call that writes the snapshot moves the boundary; once the snapshot
\* file is the call's, only the log is missing.
Serving ==
    /\ call \in [stage : {"write", "rename", "answer"}, files : Seq({"snapshot", "state"}),
                 after : Mems, synced : BOOLEAN]
    /\ MemOK(call.after)
    /\ call.stage = "rename" => call.synced = TRUE
    /\ call.stage \in {"write", "rename"} =>
          \/ call.files = <<"snapshot", "state">> /\ call.after.snap > mem.snap /\ Unsaved
          \/ call.files = <<"state">> /\ Visible.snapshot = SnapOf(call.after)
    /\ call.stage = "answer" =>
          Visible.snapshot = SnapOf(call.after) /\ Visible.state.log = call.after.log

StorageInv ==
    /\ MemOK(mem) /\ DiskOK /\ failed \in BOOLEAN
    /\ (call = Idle /\ Unsaved) \/ (call.stage # "idle" /\ Serving)

-----------------------------------------------------------------------------
(* Memory.                                                                 *)

\* The bounds, as facts about sets of terms.
LEMMA Bounds ==
    /\ MaxTerm \in Nat /\ MaxLen \in Nat /\ Terms \in SUBSET Nat /\ 0 \in Terms
    /\ Term \subseteq Terms /\ 0 \notin Term
    /\ Recs \subseteq EntryOf(Cmd, Terms)
BY StorageAssumption DEF Terms, Term, Recs, EntryOf

\* Reading the reference log.
LEMMA FullFacts ==
    ASSUME NEW full, IsFull(full)
    PROVE  /\ full \in Seq(Recs) /\ Len(full) \in Nat /\ Len(full) <= MaxLen
           /\ \A k \in 1 .. Len(full) : /\ full[k] \in Recs /\ full[k].index = k
                                        /\ full[k].term \in Term /\ full[k].cmd \in Cmd
                                        /\ full[k] \in EntryOf(Cmd, Terms)
<1>1. full \in Seq(Recs) /\ Len(full) \in Nat /\ Len(full) <= MaxLen
      /\ \A k \in 1 .. Len(full) : full[k].index = k
  BY DEF IsFull
<1>2. \A k \in 1 .. Len(full) : full[k] \in Recs
  BY <1>1
<1>3. \A r \in Recs : r.term \in Term /\ r.cmd \in Cmd /\ r \in EntryOf(Cmd, Terms)
  BY Bounds DEF Recs
<1> QED
  BY <1>1, <1>2, <1>3

\* The boundary lies within the reference log.
LEMMA MemFacts ==
    ASSUME NEW m, MemOK(m)
    PROVE  /\ IsLog(Cmd, Terms, m.log) /\ IsFull(m.full)
           /\ m.snap \in Nat /\ Len(m.full) \in Nat /\ m.snap <= Len(m.full)
           /\ SnapshotIndex(m.log) = m.snap /\ LastIndex(m.log) = Len(m.full)
           /\ Len(m.log) = Len(m.full) - m.snap + 1
           /\ m.log \in Logs
<1>1. /\ IsLog(Cmd, Terms, m.log) /\ IsFull(m.full) /\ m.log \in Logs
      /\ SnapshotIndex(m.log) = m.snap /\ LastIndex(m.log) = Len(m.full)
  BY DEF MemOK, Mems
<1>2. /\ SnapshotIndex(m.log) \in Nat /\ LastIndex(m.log) \in Nat
      /\ SnapshotIndex(m.log) <= LastIndex(m.log)
      /\ Len(m.log) = LastIndex(m.log) - SnapshotIndex(m.log) + 1
  BY <1>1, Bounds, LogFacts
<1> QED
  BY <1>1, <1>2

\* The entry at position i - snap + 1 is entry i of the reference.
LEMMA ImageAt ==
    ASSUME NEW m, MemOK(m), NEW i \in m.snap + 1 .. Len(m.full)
    PROVE  m.log[i - m.snap + 1] = m.full[i]
<1>1. /\ IsLog(Cmd, Terms, m.log) /\ m.snap \in Nat /\ Len(m.full) \in Nat
      /\ SnapshotIndex(m.log) = m.snap /\ LastIndex(m.log) = Len(m.full)
  BY MemFacts
<1>2. i \in SnapshotIndex(m.log) .. LastIndex(m.log)
  BY <1>1
<1>3. Get(m.log, i) = m.log[i - SnapshotIndex(m.log) + 1]
  BY <1>1, <1>2, Bounds, GetAt
<1> QED
  BY <1>1, <1>3 DEF MemOK

\* Submit appends one entry and leaves the boundary where it is.
LEMMA SubmittedOK ==
    ASSUME NEW m, MemOK(m), NEW n \in Submitted(m)
    PROVE  MemOK(n) /\ SnapOf(n) = SnapOf(m)
<1>m. /\ IsLog(Cmd, Terms, m.log) /\ IsFull(m.full) /\ m \in Mems
      /\ m.snap \in Nat /\ Len(m.full) \in Nat /\ m.snap <= Len(m.full)
      /\ SnapshotIndex(m.log) = m.snap /\ LastIndex(m.log) = Len(m.full)
      /\ m.full \in Seq(Recs)
  BY MemFacts DEF MemOK, IsFull
<1>1. PICK e \in [term : Term, index : {LastIndex(m.log) + 1}, cmd : Cmd] :
         e.index <= MaxLen /\ n = [m EXCEPT !.log = @ \o <<e>>, !.full = Append(@, e)]
  BY DEF Submitted
<1> DEFINE l == m.log \o <<e>>
           f == Append(m.full, e)
<1>2. /\ e.index = Len(m.full) + 1 /\ e.index = LastIndex(m.log) + 1 /\ e.index <= MaxLen
      /\ e.term \in Term /\ e.cmd \in Cmd
  BY <1>1, <1>m
<1>3. e \in Recs
  <2>1. e.index \in 1 .. MaxLen
    BY <1>2, <1>m, Bounds
  <2>2. e = [term |-> e.term, index |-> e.index, cmd |-> e.cmd]
    BY <1>1
  <2> QED
    BY <1>2, <2>1, <2>2 DEF Recs
<1>4. e \in EntryOf(Cmd, Terms) /\ e.term # 0
  BY <1>2, <1>3, Bounds
<1>5. /\ IsLog(Cmd, Terms, l) /\ SnapshotIndex(l) = SnapshotIndex(m.log)
      /\ LastIndex(l) = LastIndex(m.log) + 1 /\ Get(l, LastIndex(m.log) + 1) = e
      /\ \A i \in SnapshotIndex(m.log) .. LastIndex(m.log) : Get(l, i) = Get(m.log, i)
  BY <1>m, <1>2, <1>4, Bounds, AppendOne
<1>6. /\ f \in Seq(Recs) /\ Len(f) = Len(m.full) + 1 /\ f[Len(m.full) + 1] = e
      /\ \A k \in 1 .. Len(m.full) : f[k] = m.full[k]
  BY <1>m, <1>3
<1>7. n \in Mems /\ n.log = l /\ n.full = f /\ n.snap = m.snap
  <2>1. l \in Logs
    BY <1>5 DEF IsLog, Logs
  <2> QED
    BY <1>1, <1>m, <1>6, <2>1 DEF Mems
<1>s. SnapshotTerm(l) = SnapshotTerm(m.log)
  BY <1>m DEF SnapshotTerm, IsLog
<1> HIDE DEF l, f
<1>8. IsFull(f)
  <2> SUFFICES ASSUME NEW k \in 1 .. Len(f) PROVE f[k].index = k
    BY <1>2, <1>6, <1>m DEF IsFull
  <2>1. CASE k \in 1 .. Len(m.full)
    BY <1>6, <1>m, <2>1 DEF IsFull
  <2>2. CASE k = Len(m.full) + 1
    BY <1>2, <1>6, <2>2
  <2> QED
    BY <1>6, <1>m, <2>1, <2>2
<1>9. ASSUME NEW i \in m.snap + 1 .. Len(f) PROVE Get(l, i) = f[i]
  <2>1. CASE i = Len(m.full) + 1
    BY <1>5, <1>6, <1>m, <2>1
  <2>2. CASE i \in m.snap + 1 .. Len(m.full)
    <3>1. i \in SnapshotIndex(m.log) .. LastIndex(m.log) /\ i \in 1 .. Len(m.full)
      BY <1>m, <2>2
    <3> QED
      BY <1>5, <1>6, <2>2, <3>1 DEF MemOK
  <2> QED
    BY <1>6, <1>m, <2>1, <2>2
<1>10. TermAt(f, m.snap) = TermAt(m.full, m.snap)
  <2>1. m.snap # 0 => m.snap \in 1 .. Len(m.full)
    BY <1>m
  <2> QED
    BY <1>6, <2>1 DEF TermAt
<1>11. MemOK(n)
  <2>1. SnapshotTerm(m.log) = TermAt(m.full, m.snap)
    BY DEF MemOK
  <2>2. LastIndex(l) = Len(f) /\ SnapshotIndex(l) = m.snap /\ SnapshotTerm(l) = TermAt(f, m.snap)
    BY <1>5, <1>6, <1>m, <1>10, <1>s, <2>1
  <2> QED
    BY <1>5, <1>7, <1>8, <1>9, <2>2 DEF MemOK
<1>12. SubSeq(f, 1, m.snap) = SubSeq(m.full, 1, m.snap)
  BY <1>6, <1>m
<1> QED
  BY <1>7, <1>11, <1>12, <1>s DEF SnapOf

CompactResult(l, i, t, c) ==
    /\ IsLog(Cmd, Terms, c) /\ SnapshotIndex(c) = i /\ SnapshotTerm(c) = t
    /\ LastIndex(c) = (IF i <= LastIndex(l) THEN LastIndex(l) ELSE i)
    /\ \A j \in i + 1 .. LastIndex(c) : Get(c, j) = Get(l, j)

\* compactTo through an index beyond the sentinel.
LEMMA CompactMem ==
    ASSUME NEW l, IsLog(Cmd, Terms, l), NEW i \in Nat, NEW t \in Terms, i > SnapshotIndex(l)
    PROVE  CompactResult(l, i, t, CompactTo(l, i, t))
<1> DEFINE c == CompactTo(l, i, t)
<1>0. Terms \in SUBSET Nat
  BY Bounds
<1>1. IsLog(Cmd, Terms, c)
  BY <1>0, CompactToFacts
<1>2. SnapshotIndex(c) = i /\ SnapshotTerm(c) = t
  BY <1>0, CompactToFacts
<1>3. LastIndex(c) = (IF i <= LastIndex(l) THEN LastIndex(l) ELSE i)
  BY <1>0, CompactToFacts
<1>4. \A j \in i + 1 .. LastIndex(c) : Get(c, j) = Get(l, j)
  BY <1>0, CompactToFacts
<1> QED
  BY <1>1, <1>2, <1>3, <1>4 DEF CompactResult

\* TakeSnapshot keeps the reference and moves the boundary forward.
LEMMA CompactedOK ==
    ASSUME NEW m, MemOK(m), NEW n \in Compacted(m)
    PROVE  MemOK(n) /\ n.snap > m.snap
<1>m. /\ IsLog(Cmd, Terms, m.log) /\ IsFull(m.full) /\ m \in Mems
      /\ m.snap \in Nat /\ Len(m.full) \in Nat /\ m.snap <= Len(m.full)
      /\ SnapshotIndex(m.log) = m.snap /\ LastIndex(m.log) = Len(m.full)
  BY MemFacts DEF MemOK
<1>1. PICK i \in m.snap + 1 .. Len(m.full) :
         n = [m EXCEPT !.log = CompactTo(@, i, Get(@, i).term), !.snap = i]
  BY DEF Compacted
<1> DEFINE t == Get(m.log, i).term
           l == CompactTo(m.log, i, t)
<1>2. i \in Nat /\ i > m.snap /\ i <= Len(m.full) /\ i \in 1 .. Len(m.full)
  BY <1>m
<1>3. t = m.full[i].term /\ t \in Terms
  <2>1. Get(m.log, i) = m.full[i]
    BY DEF MemOK
  <2>2. m.full[i].term \in Term
    BY <1>2, <1>m, FullFacts
  <2> QED
    BY <2>1, <2>2, Bounds
<1>n. n = [m EXCEPT !.log = l, !.snap = i]
  BY <1>1
<1> HIDE DEF t
<1>4. /\ IsLog(Cmd, Terms, l) /\ SnapshotIndex(l) = i /\ SnapshotTerm(l) = t
      /\ LastIndex(l) = (IF i <= LastIndex(m.log) THEN LastIndex(m.log) ELSE i)
      /\ \A j \in i + 1 .. LastIndex(l) : Get(l, j) = Get(m.log, j)
  <2>1. i > SnapshotIndex(m.log) /\ Terms \in SUBSET Nat
    BY <1>m, <1>2, Bounds
  <2>2. CompactResult(m.log, i, t, l)
    BY <1>m, <1>2, <1>3, <2>1, CompactMem
  <2> HIDE DEF l
  <2> QED
    BY <2>2 DEF CompactResult
<1> HIDE DEF l
<1>5. LastIndex(l) = Len(m.full) /\ SnapshotTerm(l) = TermAt(m.full, i)
  BY <1>2, <1>3, <1>4, <1>m DEF TermAt
<1>6. \A j \in i + 1 .. Len(m.full) : Get(l, j) = m.full[j]
  <2> SUFFICES ASSUME NEW j \in i + 1 .. Len(m.full) PROVE Get(l, j) = m.full[j]
    OBVIOUS
  <2>1. j \in m.snap + 1 .. Len(m.full)
    BY <1>m, <1>2
  <2> QED
    BY <1>4, <1>5, <2>1 DEF MemOK
<1>7. n \in Mems /\ n.log = l /\ n.full = m.full /\ n.snap = i
  BY <1>n, <1>m, <1>2, <1>4 DEF Mems, IsLog, Logs
<1> QED
  BY <1>2, <1>4, <1>5, <1>6, <1>7, <1>m DEF MemOK

\* A leader's log extends the first prev entries of the reference.
LEMMA LeaderLogFacts ==
    ASSUME NEW m, MemOK(m), NEW prev \in 0 .. Len(m.full), NEW l \in LeaderLogs(m, prev)
    PROVE  /\ IsFull(l) /\ prev <= Len(l) /\ Len(l) \in Nat
           /\ \A k \in 1 .. prev : l[k] = m.full[k]
<1> DEFINE head == SubSeq(m.full, 1, prev)
           Rest(n, ts, c) == [k \in 1 .. n |-> [term |-> ts[k], index |-> prev + k, cmd |-> c]]
<1>m. /\ IsFull(m.full) /\ Len(m.full) \in Nat /\ Len(m.full) <= MaxLen /\ m.full \in Seq(Recs)
      /\ prev \in Nat /\ prev <= Len(m.full) /\ MaxLen \in Nat
  BY MemFacts, Bounds DEF IsFull
<1>0. PICK n \in 0 .. MaxLen - prev :
         \E ts \in [1 .. n -> Term], c \in Cmd : l = head \o Rest(n, ts, c)
  BY SMTT(30) DEF LeaderLogs
<1>1. PICK ts \in [1 .. n -> Term], c \in Cmd : l = head \o Rest(n, ts, c)
  BY <1>0
<1> DEFINE rest == Rest(n, ts, c)
<1>2. n \in Nat /\ prev + n <= MaxLen
  BY <1>m
<1>3. /\ head \in Seq(Recs) /\ Len(head) = prev /\ \A k \in 1 .. prev : head[k] = m.full[k]
  BY <1>m
<1>4. /\ rest \in Seq(Recs) /\ Len(rest) = n /\ \A k \in 1 .. n : rest[k].index = prev + k
  <2>1. ASSUME NEW k \in 1 .. n PROVE rest[k] \in Recs /\ rest[k].index = prev + k
    <3>1. prev + k \in 1 .. MaxLen /\ ts[k] \in Term
      BY <1>2, <1>m
    <3>2. rest[k] = [term |-> ts[k], index |-> prev + k, cmd |-> c]
      OBVIOUS
    <3> HIDE DEF rest
    <3> QED
      BY <3>1, <3>2 DEF Recs
  <2>2. rest \in [1 .. n -> Recs]
    BY <2>1
  <2>3. rest \in Seq(Recs) /\ Len(rest) = n
    BY <1>2, <2>2
  <2> QED
    BY <2>1, <2>3
<1>5. l = head \o rest
  BY <1>1
<1> HIDE DEF head, rest
<1>6. /\ l \in Seq(Recs) /\ Len(l) = prev + n
      /\ \A k \in 1 .. prev + n : l[k] = IF k <= prev THEN head[k] ELSE rest[k - prev]
  <2>1. /\ l \in Seq(Recs) /\ Len(l) = Len(head) + Len(rest)
        /\ \A k \in 1 .. Len(head) + Len(rest) :
              l[k] = IF k <= Len(head) THEN head[k] ELSE rest[k - Len(head)]
    BY <1>3, <1>4, <1>5, ConcatProperties
  <2> QED
    BY <1>3, <1>4, <2>1
<1>7. \A k \in 1 .. prev : k \in 1 .. prev + n /\ k <= prev
  BY <1>2, <1>m
<1>8. \A k \in 1 .. prev : l[k] = m.full[k]
  BY <1>3, <1>6, <1>7
<1>9. \A k \in 1 .. Len(l) : l[k].index = k
  <2> SUFFICES ASSUME NEW k \in 1 .. prev + n PROVE l[k].index = k
    BY <1>6
  <2>1. CASE k <= prev
    <3>1. k \in 1 .. prev /\ k \in 1 .. Len(m.full)
      BY <1>m, <1>2, <2>1
    <3> QED
      BY <1>8, <1>m, <3>1 DEF IsFull
  <2>2. CASE ~(k <= prev)
    <3>1. k - prev \in 1 .. n /\ prev + (k - prev) = k
      BY <1>m, <1>2, <2>2
    <3>2. l[k] = rest[k - prev]
      BY <1>6, <2>2
    <3> QED
      BY <1>4, <3>1, <3>2
  <2> QED
    BY <2>1, <2>2
<1> QED
  BY <1>2, <1>6, <1>8, <1>9, <1>m DEF IsFull

\* HandleInstallSnapshot moves the boundary forward, maybe beyond the log.
LEMMA InstalledOK ==
    ASSUME NEW m, MemOK(m), NEW n \in Installed(m)
    PROVE  MemOK(n) /\ n.snap > m.snap
<1>m. /\ IsLog(Cmd, Terms, m.log) /\ IsFull(m.full) /\ m \in Mems
      /\ m.snap \in Nat /\ Len(m.full) \in Nat /\ m.snap <= Len(m.full)
      /\ SnapshotIndex(m.log) = m.snap /\ LastIndex(m.log) = Len(m.full)
      /\ m.full \in Seq(Recs)
  BY MemFacts DEF MemOK, IsFull
<1>1. PICK f \in LeaderLogs(m, 0) :
         /\ Len(f) > m.snap
         /\ Len(f) <= Len(m.full) => f = SubSeq(m.full, 1, Len(f))
         /\ n = [log |-> CompactTo(m.log, Len(f), f[Len(f)].term),
                 full |-> IF Len(f) <= Len(m.full) THEN m.full ELSE f, snap |-> Len(f)]
  BY DEF Installed
<1> DEFINE i == Len(f)
           t == f[i].term
           l == CompactTo(m.log, i, t)
           g == IF i <= Len(m.full) THEN m.full ELSE f
<1>2. IsFull(f) /\ i \in Nat
  <2>1. 0 \in 0 .. Len(m.full)
    BY <1>m
  <2> QED
    BY <2>1, LeaderLogFacts
<1>3. i > m.snap /\ i \in 1 .. Len(f)
  BY <1>1, <1>2, <1>m
<1>4. t \in Terms
  BY <1>2, <1>3, FullFacts, Bounds
<1>5. /\ IsLog(Cmd, Terms, l) /\ SnapshotIndex(l) = i /\ SnapshotTerm(l) = t
      /\ LastIndex(l) = (IF i <= LastIndex(m.log) THEN LastIndex(m.log) ELSE i)
      /\ \A j \in i + 1 .. LastIndex(l) : Get(l, j) = Get(m.log, j)
  <2> HIDE DEF i, t
  <2>1. i > SnapshotIndex(m.log) /\ Terms \in SUBSET Nat
    BY <1>m, <1>3, Bounds
  <2>2. CompactResult(m.log, i, t, l)
    BY <1>m, <1>2, <1>4, <2>1, CompactMem
  <2> HIDE DEF l
  <2> QED
    BY <2>2 DEF CompactResult
<1>n. n = [log |-> l, full |-> g, snap |-> i]
  BY <1>1
<1>6. i <= Len(m.full) => m.full[i].term = t
  <2> SUFFICES ASSUME i <= Len(m.full) PROVE m.full[i].term = t
    OBVIOUS
  <2>1. f = SubSeq(m.full, 1, i)
    BY <1>1
  <2>2. i \in 1 .. i
    BY <1>2, <1>3
  <2> HIDE DEF i
  <2>3. SubSeq(m.full, 1, i)[i] = m.full[i]
    BY <1>m, <1>2, <2>2
  <2> QED
    BY <2>1, <2>3
<1>7. IsFull(g) /\ SnapshotTerm(l) = TermAt(g, i) /\ i # 0
  BY <1>2, <1>3, <1>5, <1>6, <1>m DEF TermAt
<1>g. (i <= Len(m.full) => g = m.full) /\ (~(i <= Len(m.full)) => g = f)
  OBVIOUS
<1>i. Len(f) = i
  OBVIOUS
<1> HIDE DEF l, g, i, t
<1>8. LastIndex(l) = Len(g)
  BY <1>5, <1>g, <1>i, <1>m
<1>9. \A j \in i + 1 .. Len(g) : Get(l, j) = g[j]
  <2> SUFFICES ASSUME NEW j \in i + 1 .. Len(g) PROVE Get(l, j) = g[j]
    OBVIOUS
  <2>1. i <= Len(m.full) /\ g = m.full
    <3>1. CASE i <= Len(m.full)
      BY <3>1, <1>g
    <3>2. CASE ~(i <= Len(m.full))
      BY <1>2, <1>g, <1>i, <3>2
    <3> QED
      BY <3>1, <3>2
  <2>2. j \in m.snap + 1 .. Len(m.full)
    BY <1>m, <1>2, <1>3, <2>1
  <2> QED
    BY <1>5, <1>8, <2>1, <2>2 DEF MemOK
<1>10. n \in Mems /\ n.log = l /\ n.full = g /\ n.snap = i
  BY <1>n, <1>2, <1>5, <1>7 DEF Mems, IsLog, Logs, IsFull
<1> QED
  BY <1>3, <1>5, <1>7, <1>8, <1>9, <1>10 DEF MemOK

\* The entries of a leader's log beyond prev, as a call carries them.
LEMMA BatchOf ==
    ASSUME NEW f, IsFull(f), NEW p \in Nat, p <= Len(f)
    PROVE  LET es == SubSeq(f, p + 1, Len(f)) IN
           /\ IsBatch(Cmd, Terms, p, es) /\ Len(es) = Len(f) - p
           /\ \A k \in 1 .. Len(f) - p : es[k] = f[p + k]
<1> DEFINE es == SubSeq(f, p + 1, Len(f))
<1>1. /\ f \in Seq(Recs) /\ Len(f) \in Nat
      /\ \A k \in 1 .. Len(f) : /\ f[k].index = k /\ f[k].term \in Term /\ f[k].cmd \in Cmd
                                /\ f[k] \in EntryOf(Cmd, Terms)
  BY FullFacts
<1>2. Len(es) = Len(f) - p /\ es \in Seq(Recs) /\ \A k \in 1 .. Len(f) - p : es[k] = f[p + k]
  BY <1>1
<1> HIDE DEF es
<1>3. \A k \in 1 .. Len(f) - p : p + k \in 1 .. Len(f)
  BY <1>1
<1>4. ASSUME NEW k \in 1 .. Len(es)
      PROVE  /\ es[k].index = p + k /\ es[k].term # 0 /\ es[k].cmd \in Cmd
             /\ es[k] \in EntryOf(Cmd, Terms)
  BY <1>1, <1>2, <1>3, Bounds
<1>5. es \in Seq(EntryOf(Cmd, Terms))
  <2>1. Recs \subseteq EntryOf(Cmd, Terms)
    BY Bounds
  <2> QED
    BY <1>2, <1>4, <2>1
<1> QED
  BY <1>2, <1>4, <1>5 DEF IsBatch, es

\* HandleAppendEntries: the merge of a batch into the stored log is the image
\* of the merge into the reference, and leaves the compacted part alone.
LEMMA MergedOK ==
    ASSUME NEW m, MemOK(m), NEW n \in Merged(m)
    PROVE  MemOK(n) /\ SnapOf(n) = SnapOf(m)
<1> DEFINE full == m.full
           log == m.log
           snap == m.snap
<1>m. /\ IsLog(Cmd, Terms, log) /\ IsFull(full) /\ m \in Mems
      /\ snap \in Nat /\ Len(full) \in Nat /\ snap <= Len(full)
      /\ SnapshotIndex(log) = snap /\ LastIndex(log) = Len(full)
      /\ full \in Seq(Recs)
      /\ \A i \in snap + 1 .. Len(full) : Get(log, i) = full[i]
      /\ SnapshotTerm(log) = TermAt(full, snap)
  BY MemFacts DEF MemOK, IsFull
<1> DEFINE Same(prev, f) == \A k \in prev + 1 .. Len(f) : k <= Len(full) /\ full[k].term = f[k].term
           Batch(prev, f) == SubSeq(f, prev + 1, Len(f))
<1>0. PICK prev \in {0} \cup Max({snap, 1}) .. Len(full) :
         \E f \in LeaderLogs(m, prev) :
            /\ Agrees(m, f)
            /\ n = [m EXCEPT !.log = AppendBatch(@, Batch(prev, f)),
                             !.full = IF Same(prev, f) THEN full ELSE f]
  <2> DEFINE After(prev, f) == [m EXCEPT !.log = AppendBatch(@, Batch(prev, f)),
                                         !.full = IF Same(prev, f) THEN full ELSE f]
             Leaders(prev) == {f \in LeaderLogs(m, prev) : Agrees(m, f)}
             Prevs == {0} \cup Max({snap, 1}) .. Len(full)
  <2>1. n \in UNION {{After(prev, f) : f \in Leaders(prev)} : prev \in Prevs}
    BY Zenon DEF Merged
  <2> HIDE DEF After, Prevs
  <2>2. \E prev \in Prevs : \E f \in LeaderLogs(m, prev) : Agrees(m, f) /\ n = After(prev, f)
    BY <2>1
  <2> QED
    BY <2>2, Zenon DEF After, Prevs
<1>1. PICK f \in LeaderLogs(m, prev) :
         /\ Agrees(m, f)
         /\ n = [m EXCEPT !.log = AppendBatch(@, Batch(prev, f)),
                          !.full = IF Same(prev, f) THEN full ELSE f]
  BY <1>0
<1>p. prev \in Nat /\ prev <= Len(full) /\ prev \in 0 .. Len(full)
  <2>1. Max({snap, 1}) = IF snap >= 1 THEN snap ELSE 1
    <3>1. snap \in Int /\ 1 \in Int
      BY <1>m
    <3> QED
      BY <3>1, MaxOfTwo
  <2> QED
    BY <1>m, <2>1
<1>f. IsFull(f) /\ prev <= Len(f) /\ Len(f) \in Nat /\ \A k \in 1 .. prev : f[k] = full[k]
  BY <1>p, LeaderLogFacts
<1>ft. /\ f \in Seq(Recs)
       /\ \A k \in 1 .. Len(f) : f[k].term \in Term /\ f[k].term # 0
  BY <1>f, FullFacts, Bounds
<1> DEFINE es == Batch(prev, f)
           l == AppendBatch(log, es)
<1>e. /\ IsBatch(Cmd, Terms, prev, es) /\ Len(es) = Len(f) - prev
      /\ \A k \in 1 .. Len(f) - prev : es[k] = f[prev + k]
  BY <1>f, <1>p, BatchOf
<1>n. n = [m EXCEPT !.log = l, !.full = IF Same(prev, f) THEN full ELSE f]
  BY <1>1
<1> HIDE DEF es, Batch
<1>r. IsLog(Cmd, Terms, l) /\ MergeResult(log, prev, es, l)
  <2>1. prev <= LastIndex(log) /\ Terms \in SUBSET Nat
    BY <1>p, <1>m, Bounds
  <2> QED
    BY <1>m, <1>p, <1>e, <2>1, AppendBatchFacts
<1> HIDE DEF l
<1>a1. \A k \in 1 .. snap : k <= Len(f) => f[k].term = full[k].term
  BY <1>1 DEF Agrees
<1>a2. ASSUME NEW k \in 1 .. Len(full), k <= Len(f), f[k].term = full[k].term
       PROVE  \A j \in 1 .. k : f[j] = full[j]
  <2>1. Min({Len(full), Len(f)}) = IF Len(full) <= Len(f) THEN Len(full) ELSE Len(f)
    <3>1. Len(full) \in Int /\ Len(f) \in Int
      BY <1>m, <1>f
    <3> QED
      BY <3>1, MinOfTwo
  <2>2. k \in 1 .. Min({Len(full), Len(f)})
    BY <1>m, <1>f, <1>a2, <2>1
  <2>3. SubSeq(f, 1, k) = SubSeq(full, 1, k)
    BY <1>1, <1>a2, <2>2 DEF Agrees
  <2>4. \A j \in 1 .. k : SubSeq(f, 1, k)[j] = f[j] /\ SubSeq(full, 1, k)[j] = full[j]
    BY <1>m, <1>f, <1>ft, <1>a2
  <2> QED
    BY <2>3, <2>4
\* An entry of the batch that does not diverge is in the reference.
<1>s. ASSUME NEW k \in prev + 1 .. Len(f), ~Diverges(log, prev, es, k - prev)
      PROVE  k <= Len(full) /\ full[k].term = f[k].term
  <2>1. /\ k - prev \in 1 .. Len(f) - prev /\ prev + (k - prev) = k /\ k \in Nat
        /\ k \in 1 .. Len(f)
    BY <1>f, <1>p
  <2>2. CASE k <= snap
    <3>1. k \in 1 .. snap /\ k <= Len(f) /\ k <= Len(full)
      BY <1>m, <1>f, <2>1, <2>2
    <3> QED
      BY <1>a1, <3>1
  <2>3. CASE k > snap
    <3>1. Get(log, k).term = f[k].term
      BY <1>s, <1>e, <1>m, <2>1, <2>3 DEF Diverges
    <3>2. k <= Len(full)
      <4> SUFFICES ASSUME ~(k <= Len(full)) PROVE FALSE
        OBVIOUS
      <4>1. k \notin SnapshotIndex(log) .. LastIndex(log) /\ k \in Int /\ Terms \in SUBSET Nat
        BY <1>m, <2>1, Bounds
      <4>2. Get(log, k) = ZeroEntry
        BY <1>m, <4>1, GetOutside
      <4> QED
        BY <1>ft, <2>1, <3>1, <4>2 DEF ZeroEntry
    <3>3. Get(log, k) = full[k]
      BY <1>m, <2>1, <2>3, <3>2
    <3> QED
      BY <3>1, <3>2, <3>3
  <2> QED
    BY <1>m, <2>1, <2>2, <2>3
<1>2. CASE l = log /\ \A k \in 1 .. Len(es) : ~Diverges(log, prev, es, k)
  <2>1. Same(prev, f)
    <3> SUFFICES ASSUME NEW k \in prev + 1 .. Len(f)
                 PROVE  k <= Len(full) /\ full[k].term = f[k].term
      OBVIOUS
    <3>1. k - prev \in 1 .. Len(es)
      BY <1>f, <1>p, <1>e
    <3> QED
      BY <1>2, <1>s, <3>1
  <2>2. n = m
    BY <1>2, <1>m, <1>n, <2>1 DEF Mems
  <2> QED
    BY <2>2
<1>3. ASSUME NEW q \in 1 .. Len(es), MergedAt(log, prev, es, q, l)
      PROVE  MemOK(n) /\ SnapOf(n) = SnapOf(m)
  <2> DEFINE d == prev + q
  <2>1. /\ d \in Nat /\ d \in prev + 1 .. Len(f) /\ d > snap /\ d <= Len(full) + 1
        /\ d \in 1 .. Len(f) /\ q = d - prev /\ d <= Len(f)
        /\ es[q] = f[d]
    BY <1>3, <1>e, <1>f, <1>p, <1>m DEF MergedAt, Diverges
  <2>2. /\ Get(log, d).term # f[d].term /\ LastIndex(l) = prev + Len(es)
        /\ \A x \in 1 .. q - 1 : ~Diverges(log, prev, es, x)
        /\ \A i \in snap .. d - 1 : Get(l, i) = Get(log, i)
        /\ \A i \in d .. prev + Len(es) : Get(l, i) = es[i - prev]
    BY <1>3, <1>m, <2>1 DEF MergedAt, Diverges
  <2>q. q \in Nat
    BY <1>e
  <2> HIDE DEF d
  <2>3. ~Same(prev, f)
    <3> SUFFICES ASSUME d <= Len(full), full[d].term = f[d].term PROVE FALSE
      BY <2>1
    <3>1. d \in snap + 1 .. Len(full)
      BY <1>m, <2>1
    <3> QED
      BY <1>m, <2>2, <3>1
  <2>4. \A j \in 1 .. d - 1 : f[j] = full[j]
    <3>1. CASE d - 1 <= prev
      <4>1. \A j \in 1 .. d - 1 : j \in 1 .. prev
        BY <1>p, <2>1, <3>1
      <4> QED
        BY <1>f, <4>1
    <3>2. CASE d - 1 > prev
      <4>1. /\ d - 1 \in prev + 1 .. Len(f) /\ d - 1 - prev \in 1 .. q - 1
            /\ d - 1 \in 1 .. Len(full) /\ d - 1 <= Len(f)
        BY <1>p, <1>f, <1>m, <2>1, <2>q, <3>2
      <4> DEFINE k == d - 1
      <4>2. /\ k \in prev + 1 .. Len(f) /\ k - prev \in 1 .. q - 1 /\ k \in 1 .. Len(full)
            /\ k <= Len(f)
        BY <4>1
      <4> HIDE DEF k
      <4>3. ~Diverges(log, prev, es, k - prev)
        BY <2>2, <4>2
      <4>4. full[k].term = f[k].term
        BY <1>s, <4>2, <4>3
      <4>5. \A j \in 1 .. k : f[j] = full[j]
        BY <1>a2, <4>2, <4>4
      <4> QED
        BY <4>5 DEF k
    <3> QED
      BY <1>p, <2>1, <3>1, <3>2
  <2>5. \A j \in 1 .. snap : j \in 1 .. d - 1 /\ j <= Len(f)
    BY <1>m, <1>f, <2>1
  <2>6. \A j \in 1 .. snap : f[j] = full[j]
    BY <2>4, <2>5
  <2>7. SnapshotIndex(l) = snap
    BY <1>r, <1>m DEF MergeResult
  <2>8. SnapshotTerm(l) = SnapshotTerm(log)
    <3>1. snap \in snap .. d - 1 /\ Get(l, snap) = Get(log, snap)
      BY <1>m, <2>1, <2>2
    <3>2. snap < snap + Len(l) /\ snap < snap + Len(log) /\ Len(l) \in Nat /\ Len(log) \in Nat
      BY <1>r, <1>m DEF IsLog
    <3>3. Get(l, snap) = l[1] /\ Get(log, snap) = log[1]
      BY <1>m, <2>7, <3>2 DEF Get
    <3> QED
      BY <3>1, <3>3 DEF SnapshotTerm
  <2>9. snap <= Len(f) /\ LastIndex(l) = Len(f)
    BY <1>e, <1>f, <1>m, <1>p, <2>1, <2>2
  <2>10. TermAt(f, snap) = TermAt(full, snap)
    <3>1. snap # 0 => snap \in 1 .. snap
      BY <1>m
    <3> QED
      BY <2>6, <3>1 DEF TermAt
  <2>11. \A i \in snap + 1 .. Len(f) : Get(l, i) = f[i]
    <3> SUFFICES ASSUME NEW i \in snap + 1 .. Len(f) PROVE Get(l, i) = f[i]
      OBVIOUS
    <3>1. CASE i < d
      <4>1. i \in snap .. d - 1 /\ i \in snap + 1 .. Len(full) /\ i \in 1 .. d - 1
        BY <1>m, <1>f, <2>1, <3>1
      <4> QED
        BY <1>m, <2>2, <2>4, <4>1
    <3>2. CASE ~(i < d)
      <4>1. i \in d .. prev + Len(es) /\ i - prev \in 1 .. Len(f) - prev /\ prev + (i - prev) = i
        BY <1>e, <1>f, <1>p, <1>m, <2>1, <3>2
      <4> QED
        BY <1>e, <2>2, <4>1
    <3> QED
      BY <3>1, <3>2
  <2>12. n \in Mems /\ n.log = l /\ n.full = f /\ n.snap = snap
    <3>1. n = [m EXCEPT !.log = l, !.full = f]
      BY <1>n, <2>3
    <3> QED
      BY <3>1, <1>m, <1>r, <1>ft DEF Mems, IsLog, Logs
  <2>13. SubSeq(f, 1, snap) = SubSeq(full, 1, snap)
    BY <1>m, <1>ft, <1>f, <2>6, <2>9
  <2>14. MemOK(n)
    BY <1>f, <1>m, <1>r, <2>7, <2>8, <2>9, <2>10, <2>11, <2>12 DEF MemOK
  <2> QED
    BY <2>8, <2>12, <2>13, <2>14 DEF SnapOf
<1> QED
  BY <1>2, <1>3, <1>r DEF MergeResult

-----------------------------------------------------------------------------
(* Files.                                                                  *)

\* The snapshot file of a memory, field by field.
LEMMA SnapOfFields ==
    ASSUME NEW m
    PROVE  /\ SnapOf(m).index = m.snap /\ SnapOf(m).term = SnapshotTerm(m.log)
           /\ SnapOf(m).data = SubSeq(m.full, 1, m.snap) /\ SnapOf(m).synced = TRUE
<1> DEFINE i == m.snap
           t == SnapshotTerm(m.log)
           d == SubSeq(m.full, 1, i)
<1>1. SnapOf(m) = [index |-> i, term |-> t, data |-> d, synced |-> TRUE]
  BY Zenon DEF SnapOf
<1> HIDE DEF i, t, d
<1>2. /\ SnapOf(m).index = i /\ SnapOf(m).term = t /\ SnapOf(m).data = d /\ SnapOf(m).synced = TRUE
  BY <1>1
<1> QED
  BY <1>2 DEF i, t, d

\* What the sentinel stands for, followed by what is stored after it.
LEMMA Joined ==
    ASSUME NEW c, IsLog(Cmd, Terms, c), NEW data, IsFull(data), Len(data) = SnapshotIndex(c),
           SnapshotTerm(c) = TermAt(data, Len(data)), LastIndex(c) <= MaxLen
    PROVE  LET g == data \o Tail(c) IN
           /\ MemOK([log |-> c, full |-> g, snap |-> Len(data)])
           /\ SubSeq(g, 1, Len(data)) = data
<1> DEFINE r == Tail(c)
           g == data \o r
           s == Len(data)
           m == [log |-> c, full |-> g, snap |-> s]
<1>1. /\ SnapshotIndex(c) \in Nat /\ LastIndex(c) \in Nat /\ SnapshotIndex(c) <= LastIndex(c)
      /\ Len(c) = LastIndex(c) - SnapshotIndex(c) + 1
  BY Bounds, LogFacts
<1>2. /\ c \in Seq(EntryOf(Cmd, Terms)) /\ Len(c) \in Nat /\ Len(c) >= 1
      /\ \A k \in 1 .. Len(c) : c[k] \in EntryOf(Cmd, Terms) /\ c[k].index = SnapshotIndex(c) + k - 1
      /\ \A k \in 2 .. Len(c) : c[k].term # 0 /\ c[k].cmd \in Cmd
  BY DEF IsLog, SnapshotIndex
<1>3. /\ data \in Seq(Recs) /\ s \in Nat /\ s <= MaxLen
      /\ \A k \in 1 .. s : data[k] \in Recs /\ data[k].index = k
  BY FullFacts
<1>4. /\ r \in Seq(EntryOf(Cmd, Terms)) /\ Len(r) = Len(c) - 1
      /\ \A k \in 1 .. Len(c) - 1 : r[k] = c[k + 1]
  BY <1>2
<1> HIDE DEF r
<1>5. ASSUME NEW k \in 1 .. Len(c) - 1 PROVE r[k] \in Recs /\ r[k].index = s + k
  <2> DEFINE e == c[k + 1]
  <2>1. k + 1 \in 2 .. Len(c) /\ k + 1 \in 1 .. Len(c)
    BY <1>2
  <2>2. /\ e \in EntryOf(Cmd, Terms) /\ e.index = SnapshotIndex(c) + (k + 1) - 1
        /\ e.term # 0 /\ e.cmd \in Cmd /\ r[k] = e
    BY <1>2, <1>4, <2>1
  <2> HIDE DEF e
  <2>3. e.index = s + k /\ e.index \in 1 .. MaxLen
    <3>1. s + k <= LastIndex(c) /\ s \in Nat /\ k \in Nat /\ MaxLen \in Nat
      BY <1>1, <1>2, <1>3, Bounds
    <3>2. e.index = s + k
      BY <1>1, <2>2, <3>1
    <3> HIDE DEF s
    <3> QED
      BY <1>1, <3>1, <3>2
  <2>4. e.term \in Term
    <3>1. e.term \in Terms
      BY <2>2 DEF EntryOf
    <3> QED
      BY <2>2, <3>1, StorageAssumption DEF Terms, Term
  <2>5. e = [term |-> e.term, index |-> e.index, cmd |-> e.cmd]
    BY <2>2 DEF EntryOf
  <2> QED
    BY <2>2, <2>3, <2>4, <2>5 DEF Recs
<1>6. r \in Seq(Recs)
  BY <1>4, <1>5
<1>7. /\ g \in Seq(Recs) /\ Len(g) = s + (Len(c) - 1)
      /\ \A k \in 1 .. s + (Len(c) - 1) : g[k] = IF k <= s THEN data[k] ELSE r[k - s]
  <2>1. /\ g \in Seq(Recs) /\ Len(g) = Len(data) + Len(r)
        /\ \A k \in 1 .. Len(data) + Len(r) : g[k] = IF k <= Len(data) THEN data[k]
                                                       ELSE r[k - Len(data)]
    BY <1>3, <1>6, ConcatProperties
  <2> QED
    BY <1>4, <2>1
<1>c. SnapshotIndex(c) = s /\ SnapshotTerm(c) = TermAt(data, s)
  OBVIOUS
<1> HIDE DEF g, s
<1>8. Len(g) = LastIndex(c) /\ Len(g) <= MaxLen
  BY <1>1, <1>3, <1>7, <1>c
<1>9. \A k \in 1 .. s : k \in 1 .. s + (Len(c) - 1) /\ k <= s
  BY <1>2, <1>3
<1>10. \A k \in 1 .. s : g[k] = data[k]
  BY <1>7, <1>9
<1>11. ASSUME NEW k \in s + 1 .. Len(g)
       PROVE  k - s \in 1 .. Len(c) - 1 /\ g[k] = r[k - s] /\ g[k].index = k
  <2>1. k - s \in 1 .. Len(c) - 1 /\ k \in 1 .. s + (Len(c) - 1) /\ ~(k <= s) /\ s + (k - s) = k
    BY <1>2, <1>3, <1>7
  <2> QED
    BY <1>5, <1>7, <2>1
<1>12. IsFull(g)
  <2>1. ASSUME NEW k \in 1 .. Len(g) PROVE g[k].index = k
    <3>1. k \in 1 .. s \/ k \in s + 1 .. Len(g)
      BY <1>3, <1>7, <1>2
    <3> QED
      BY <1>3, <1>10, <1>11, <3>1 DEF s
  <2> QED
    BY <1>7, <1>8, <2>1 DEF IsFull
<1>13. \A i \in s + 1 .. Len(g) : Get(c, i) = g[i]
  <2> SUFFICES ASSUME NEW i \in s + 1 .. Len(g) PROVE Get(c, i) = g[i]
    OBVIOUS
  <2>1. i - s \in 1 .. Len(c) - 1 /\ g[i] = r[i - s]
    BY <1>11
  <2>2. r[i - s] = c[i - s + 1]
    BY <1>4, <2>1
  <2>3. i \in SnapshotIndex(c) .. LastIndex(c)
    BY <1>3, <1>8, <1>c
  <2>4. Get(c, i) = c[i - SnapshotIndex(c) + 1]
    BY <2>3, Bounds, GetInside
  <2> QED
    BY <1>c, <2>1, <2>2, <2>4
<1>14. TermAt(g, s) = TermAt(data, s)
  <2>1. s # 0 => s \in 1 .. s
    BY <1>3
  <2> QED
    BY <1>10, <2>1 DEF TermAt
<1>15. m \in Mems /\ m.log = c /\ m.full = g /\ m.snap = s
  BY <1>2, <1>3, <1>7 DEF Mems, Logs
<1> HIDE DEF m
<1>16. MemOK(m)
  BY <1>8, <1>12, <1>13, <1>14, <1>15, <1>c DEF MemOK
<1>17. SubSeq(g, 1, s) = data
  <2>1. s <= Len(g) /\ Len(data) = s
    BY <1>2, <1>3, <1>7 DEF s
  <2>2. SubSeq(g, 1, s) \in Seq(Recs) /\ Len(SubSeq(g, 1, s)) = s
        /\ \A k \in 1 .. s : SubSeq(g, 1, s)[k] = g[k]
    BY <1>3, <1>7, <2>1
  <2> QED
    BY <1>3, <1>10, <2>1, <2>2
<1> QED
  BY <1>16, <1>17 DEF m, g, r, s

\* Run: what loadState and restoreFromSnapshot make of two such files.
LEMMA LoadOK ==
    ASSUME NEW f, FilesOK(f)
    PROVE  MemOK(Load(f)) /\ SnapOf(Load(f)) = f.snapshot
<1> DEFINE l == f.state.log
           s == f.snapshot.index
           t == f.snapshot.term
           data == f.snapshot.data
           c == CompactTo(l, s, t)
<1>1. /\ IsLog(Cmd, Terms, l) /\ LastIndex(l) <= MaxLen /\ IsFull(data) /\ Len(data) = s
      /\ t = TermAt(data, s) /\ SnapshotIndex(l) <= s
      /\ SnapshotIndex(l) = s => SnapshotTerm(l) = t
      /\ s \in Nat /\ t \in Terms
      /\ f.snapshot = [index |-> s, term |-> t, data |-> data, synced |-> TRUE]
  BY DEF FilesOK, Files
<1>2. SnapshotIndex(l) \in Nat /\ LastIndex(l) \in Nat /\ s <= MaxLen /\ MaxLen \in Nat
  BY <1>1, Bounds, LogFacts, FullFacts
<1>3. Load(f) = [log |-> c, full |-> data \o Tail(c), snap |-> s]
  BY DEF Load
<1> HIDE DEF l, s, t, data
<1>4. IsLog(Cmd, Terms, c) /\ SnapshotIndex(c) = s /\ SnapshotTerm(c) = t /\ LastIndex(c) <= MaxLen
  <2>1. CASE s > SnapshotIndex(l)
    <3>1. CompactResult(l, s, t, c)
      BY <1>1, <2>1, CompactMem
    <3> HIDE DEF c
    <3> QED
      BY <1>1, <1>2, <3>1 DEF CompactResult
  <2>2. CASE s = SnapshotIndex(l)
    <3>1. c = l
      BY <1>2, <2>2 DEF CompactTo
    <3> QED
      BY <1>1, <2>2, <3>1
  <2> QED
    BY <1>1, <1>2, <2>1, <2>2
<1> HIDE DEF c
<1> DEFINE g == data \o Tail(c)
<1>5. MemOK([log |-> c, full |-> g, snap |-> Len(data)]) /\ SubSeq(g, 1, Len(data)) = data
  BY <1>1, <1>4, Joined
<1> HIDE DEF g
<1>6. Load(f) = [log |-> c, full |-> g, snap |-> s]
  BY <1>3 DEF g
<1>7. MemOK(Load(f))
  BY <1>1, <1>5, <1>6
<1> DEFINE m == Load(f)
<1>8. m.log = c /\ m.full = g /\ m.snap = s
  BY <1>6
<1> HIDE DEF m
<1>9. SnapshotTerm(m.log) = t /\ SubSeq(m.full, 1, m.snap) = data
  BY <1>1, <1>4, <1>5, <1>8
<1>10. SnapOf(m) = f.snapshot
  BY <1>1, <1>8, <1>9, Zenon DEF SnapOf
<1> QED
  BY <1>7, <1>10 DEF m

\* The files of one call are loaded as what it left in memory.
LEMMA LoadSame ==
    ASSUME NEW m, MemOK(m), NEW f, f.state.log = m.log, f.snapshot = SnapOf(m)
    PROVE  Load(f).full = m.full
<1> DEFINE s == m.snap
           g == m.full
           data == SubSeq(g, 1, s)
           r == Tail(m.log)
<1>1. /\ IsLog(Cmd, Terms, m.log) /\ IsFull(g) /\ s \in Nat /\ Len(g) \in Nat /\ s <= Len(g)
      /\ SnapshotIndex(m.log) = s /\ Len(m.log) = Len(g) - s + 1 /\ m.log \in Logs
      /\ g \in Seq(Recs)
  BY MemFacts DEF IsFull
<1>2. f.snapshot.index = s /\ f.snapshot.data = data
  BY SnapOfFields
<1>3. CompactTo(m.log, s, f.snapshot.term) = m.log
  BY <1>1 DEF CompactTo
<1>4. Load(f).full = data \o r
  BY <1>2, <1>3 DEF Load
<1>5. data \in Seq(Recs) /\ Len(data) = s /\ \A k \in 1 .. s : data[k] = g[k]
  BY <1>1
<1>6. /\ r \in Seq(EntryOf(Cmd, Terms)) /\ Len(r) = Len(g) - s
      /\ \A k \in 1 .. Len(g) - s : r[k] = m.log[k + 1]
  <2>1. m.log \in Seq(EntryOf(Cmd, Terms)) /\ m.log # <<>> /\ Len(m.log) \in Nat
    BY <1>1 DEF Logs, IsLog
  <2>2. /\ r \in Seq(EntryOf(Cmd, Terms)) /\ Len(r) = Len(m.log) - 1
        /\ \A k \in 1 .. Len(m.log) - 1 : r[k] = m.log[k + 1]
    BY <2>1
  <2> HIDE DEF r
  <2>3. Len(m.log) - 1 = Len(g) - s
    BY <1>1
  <2> QED
    BY <2>2, <2>3
<1>7. \A k \in 1 .. Len(g) - s : r[k] = g[s + k]
  <2> SUFFICES ASSUME NEW k \in 1 .. Len(g) - s PROVE r[k] = g[s + k]
    OBVIOUS
  <2> DEFINE i == s + k
  <2>1. i \in s + 1 .. Len(g) /\ i - s + 1 = k + 1
    BY <1>1
  <2> HIDE DEF i
  <2>2. m.log[i - s + 1] = g[i]
    BY <2>1, ImageAt
  <2> QED
    BY <1>6, <2>1, <2>2 DEF i
<1> HIDE DEF s, g, data, r
<1>8. r \in Seq(Recs)
  <2>1. ASSUME NEW k \in 1 .. Len(g) - s PROVE r[k] \in Recs
    <3>1. s + k \in 1 .. Len(g)
      BY <1>1
    <3> QED
      BY <1>1, <1>7, <3>1
  <2> QED
    BY <1>6, <2>1
<1> DEFINE h == data \o r
<1>9. /\ h \in Seq(Recs) /\ Len(h) = s + (Len(g) - s)
      /\ \A k \in 1 .. s + (Len(g) - s) : h[k] = IF k <= s THEN data[k] ELSE r[k - s]
  <2>1. /\ h \in Seq(Recs) /\ Len(h) = Len(data) + Len(r)
        /\ \A k \in 1 .. Len(data) + Len(r) : h[k] = IF k <= Len(data) THEN data[k]
                                                       ELSE r[k - Len(data)]
    BY <1>5, <1>8, ConcatProperties
  <2> QED
    BY <1>5, <1>6, <2>1
<1> HIDE DEF h
<1>10. ASSUME NEW k \in 1 .. Len(g) PROVE h[k] = g[k]
  <2>1. k \in 1 .. s + (Len(g) - s)
    BY <1>1
  <2>2. CASE k <= s
    <3>1. k \in 1 .. s
      BY <1>1, <2>2
    <3> QED
      BY <1>5, <1>9, <2>1, <2>2, <3>1
  <2>3. CASE ~(k <= s)
    <3>1. k - s \in 1 .. Len(g) - s /\ s + (k - s) = k
      BY <1>1, <2>3
    <3> QED
      BY <1>7, <1>9, <2>1, <2>3, <3>1
  <2> QED
    BY <2>2, <2>3
<1>11. h = g
  <2>1. Len(h) = Len(g)
    BY <1>1, <1>9
  <2> QED
    BY <1>1, <1>9, <1>10, <2>1, SeqEqual
<1> QED
  BY <1>4, <1>11 DEF h, g, data, r, s

\* persist replaces the log behind a snapshot file that is already the call's.
LEMMA FilesState ==
    ASSUME NEW f, FilesOK(f), NEW m, MemOK(m), f.snapshot = SnapOf(m)
    PROVE  LET h == [f EXCEPT !.state = [log |-> m.log, synced |-> TRUE]] IN
           FilesOK(h) /\ h \in Files /\ h.snapshot = f.snapshot /\ h.state.log = m.log
<1> DEFINE st == [log |-> m.log, synced |-> TRUE]
           h == [f EXCEPT !.state = st]
<1>f. /\ f \in Files /\ IsFull(f.snapshot.data) /\ Len(f.snapshot.data) = f.snapshot.index
      /\ f.snapshot.term = TermAt(f.snapshot.data, f.snapshot.index)
  BY DEF FilesOK
<1>m. /\ IsLog(Cmd, Terms, m.log) /\ m.log \in Logs /\ SnapshotIndex(m.log) = m.snap
      /\ LastIndex(m.log) = Len(m.full) /\ IsFull(m.full)
  BY MemFacts
<1>1. LastIndex(m.log) <= MaxLen
  BY <1>m, FullFacts
<1>2. f.snapshot.index = m.snap /\ f.snapshot.term = SnapshotTerm(m.log)
  BY SnapOfFields
<1>3. st \in [log : Logs, synced : {TRUE}] /\ st.log = m.log
  BY <1>m
<1> HIDE DEF st
<1>4. h \in Files /\ h.snapshot = f.snapshot /\ h.state = st
  BY <1>3, <1>f DEF Files
<1> HIDE DEF h
<1>5. m.snap \in Nat
  BY MemFacts
<1>6. FilesOK(h)
  BY <1>f, <1>m, <1>1, <1>2, <1>3, <1>4, <1>5 DEF FilesOK
<1> QED
  BY <1>3, <1>4, <1>6 DEF h, st

\* saveSnapshot replaces the snapshot by one that reaches further.
LEMMA FilesSnapshot ==
    ASSUME NEW f, FilesOK(f), NEW m, MemOK(m), f.snapshot.index < m.snap
    PROVE  LET h == [f EXCEPT !.snapshot = SnapOf(m)] IN
           FilesOK(h) /\ h \in Files /\ h.snapshot = SnapOf(m) /\ h.state = f.state
<1> DEFINE sn == SnapOf(m)
           h == [f EXCEPT !.snapshot = sn]
<1>f. /\ f \in Files /\ IsLog(Cmd, Terms, f.state.log) /\ LastIndex(f.state.log) <= MaxLen
      /\ SnapshotIndex(f.state.log) <= f.snapshot.index /\ f.snapshot.index \in Nat
  BY DEF FilesOK, Files
<1>m. /\ IsLog(Cmd, Terms, m.log) /\ IsFull(m.full) /\ m.snap \in Nat /\ Len(m.full) \in Nat
      /\ m.snap <= Len(m.full) /\ m.full \in Seq(Recs) /\ Len(m.full) <= MaxLen
      /\ SnapshotTerm(m.log) = TermAt(m.full, m.snap)
  BY MemFacts, FullFacts DEF MemOK
<1> DEFINE d == SubSeq(m.full, 1, m.snap)
<1>1. sn.index = m.snap /\ sn.term = SnapshotTerm(m.log) /\ sn.data = d /\ sn.synced = TRUE
  BY SnapOfFields
<1>2. d \in Seq(Recs) /\ Len(d) = m.snap /\ \A k \in 1 .. m.snap : d[k] = m.full[k]
  BY <1>m
<1> HIDE DEF d
<1>3. IsFull(d)
  <2>1. \A k \in 1 .. m.snap : k \in 1 .. Len(m.full)
    BY <1>m
  <2>2. MaxLen \in Nat
    BY Bounds
  <2> QED
    BY <1>m, <1>2, <2>1, <2>2 DEF IsFull
<1>4. TermAt(d, m.snap) = TermAt(m.full, m.snap)
  <2>1. m.snap # 0 => m.snap \in 1 .. m.snap
    BY <1>m
  <2> QED
    BY <1>2, <2>1 DEF TermAt
<1>5. SnapshotTerm(m.log) \in Terms /\ SnapshotIndex(f.state.log) \in Nat
  BY <1>f, <1>m, Bounds, LogFacts
<1>6. sn \in [index : Nat, term : Terms, data : Seq(Recs), synced : {TRUE}]
  <2> DEFINE t == SnapshotTerm(m.log)
             i == m.snap
  <2>1. sn = [index |-> i, term |-> t, data |-> d, synced |-> TRUE]
    BY Zenon DEF SnapOf, d
  <2>2. i \in Nat /\ t \in Terms
    BY <1>5, <1>m
  <2> HIDE DEF t, i, sn
  <2> QED
    BY <1>2, <2>1, <2>2
<1> HIDE DEF sn
<1>7. h \in Files /\ h.snapshot = sn /\ h.state = f.state
  BY <1>6, <1>f DEF Files
<1> HIDE DEF h
<1>8. SnapshotIndex(f.state.log) < m.snap
  BY <1>f, <1>m, <1>5
<1>9. FilesOK(h)
  BY <1>f, <1>m, <1>1, <1>2, <1>3, <1>4, <1>5, <1>7, <1>8 DEF FilesOK
<1> QED
  BY <1>7, <1>9 DEF h, sn

\* A rename makes new files visible, the others stay.
LEMMA DiskAppend ==
    ASSUME DiskOK, NEW h \in Files, FilesOK(h), disk' = Append(disk, h)
    PROVE  DiskOK' /\ Visible' = h
<1>1. disk \in Seq(Files) /\ Len(disk) \in Nat /\ Len(disk) >= 1
      /\ \A k \in 1 .. Len(disk) : FilesOK(disk[k])
  BY DEF DiskOK
<1>2. /\ disk' \in Seq(Files) /\ Len(disk') = Len(disk) + 1 /\ disk'[Len(disk) + 1] = h
      /\ \A k \in 1 .. Len(disk) : disk'[k] = disk[k]
  BY <1>1
<1>3. \A k \in 1 .. Len(disk') : k \in 1 .. Len(disk) \/ k = Len(disk) + 1
  BY <1>1, <1>2
<1>4. \A k \in 1 .. Len(disk') : FilesOK(disk'[k])
  BY <1>1, <1>2, <1>3
<1>5. Len(disk') >= 1
  BY <1>1, <1>2
<1> QED
  BY <1>2, <1>4, <1>5 DEF DiskOK, Visible

\* The files the node reads, and those a power cut leaves.
LEMMA DiskFacts ==
    ASSUME DiskOK
    PROVE  FilesOK(Visible) /\ FilesOK(disk[1]) /\ Visible \in Files /\ disk[1] \in Files
<1>1. disk \in Seq(Files) /\ Len(disk) \in Nat /\ Len(disk) >= 1
      /\ \A k \in 1 .. Len(disk) : FilesOK(disk[k])
  BY DEF DiskOK
<1>2. 1 \in 1 .. Len(disk) /\ Len(disk) \in 1 .. Len(disk)
  BY <1>1
<1> QED
  BY <1>1, <1>2 DEF Visible

-----------------------------------------------------------------------------
(* The steps.                                                              *)

Calls == [stage : {"write", "rename", "answer"}, files : Seq({"snapshot", "state"}),
          after : Mems, synced : BOOLEAN]

CallOK == (call = Idle /\ Unsaved) \/ (call.stage # "idle" /\ Serving)

\* A call in progress is told from none by its stage.
LEMMA Stages ==
    ASSUME CallOK
    PROVE  /\ call = Idle => Unsaved
           /\ call.stage # "idle" => Serving /\ call \in Calls /\ call # Idle
           /\ call # Idle => call.stage # "idle"
BY DEF CallOK, Idle, Serving, Calls

\* The invariant holds of a new data directory.
LEMMA InitialFiles == Init => StorageInv
<1> SUFFICES ASSUME Init PROVE StorageInv
  OBVIOUS
<1>1. IsLog(Cmd, Terms, EmptyLog) /\ SnapshotIndex(EmptyLog) = 0 /\ LastIndex(EmptyLog) = 0
  BY Bounds, EmptyLogFacts
<1>2. SnapshotTerm(EmptyLog) = 0 /\ EmptyLog \in Logs
  BY <1>1 DEF SnapshotTerm, EmptyLog, ZeroEntry, IsLog, Logs
<1>3. <<>> \in Seq(Recs) /\ Len(<<>>) = 0 /\ IsFull(<<>>) /\ TermAt(<<>>, 0) = 0
  BY Bounds DEF IsFull, TermAt
<1>4. mem = FreshMem /\ mem \in Mems /\ mem.log = EmptyLog /\ mem.full = <<>> /\ mem.snap = 0
  BY <1>2, <1>3 DEF Init, FreshMem, Mems
<1>5. MemOK(mem)
  <2>1. \A i \in 0 + 1 .. 0 : FALSE
    OBVIOUS
  <2> QED
    BY <1>1, <1>2, <1>3, <1>4, <2>1 DEF MemOK
<1> DEFINE f == NoFiles
<1>6. f \in Files /\ f.state = NoState /\ f.snapshot = NoSnapshot
  BY <1>2, <1>3, Bounds DEF Files, NoFiles, NoState, NoSnapshot
<1>7. /\ f.state.log = EmptyLog /\ f.snapshot.index = 0 /\ f.snapshot.term = 0
      /\ f.snapshot.data = <<>>
  BY <1>6 DEF NoState, NoSnapshot
<1> HIDE DEF f
<1>8. FilesOK(f)
  BY <1>1, <1>2, <1>3, <1>6, <1>7, Bounds DEF FilesOK
<1>9. disk = <<f>>
  BY DEF Init, f
<1>10. disk \in Seq(Files) /\ Len(disk) = 1 /\ disk[1] = f
  BY <1>6, <1>9
<1>11. DiskOK /\ Visible = f
  BY <1>8, <1>10 DEF DiskOK, Visible
<1>12. f.snapshot = SnapOf(mem)
  <2> DEFINE d == SubSeq(mem.full, 1, mem.snap)
  <2>1. d = <<>>
    BY <1>4
  <2>2. SnapshotTerm(mem.log) = 0 /\ mem.snap = 0
    BY <1>2, <1>4
  <2> HIDE DEF d
  <2>3. SnapOf(mem) = [index |-> 0, term |-> 0, data |-> d, synced |-> TRUE]
    BY <2>2, Zenon DEF SnapOf, d
  <2> QED
    BY <1>6, <2>1, <2>3 DEF NoSnapshot
<1>13. Load(f).full = mem.full
  <2>1. f.state.log = mem.log
    BY <1>4, <1>7
  <2> QED
    BY <1>5, <1>12, <2>1, LoadSame
<1> QED
  BY <1>5, <1>11, <1>12, <1>13 DEF Init, StorageInv, Unsaved

\* A call begins: nothing of it is on disk.
LEMMA BeginOK ==
    ASSUME StorageInv, NEW after, MemOK(after), NEW files, Begin(after, files),
           \/ files = <<"snapshot", "state">> /\ after.snap > mem.snap
           \/ files = <<"state">> /\ SnapOf(after) = SnapOf(mem)
    PROVE  StorageInv' /\ call = Idle /\ call' # Idle
<1>1. /\ call = Idle /\ UNCHANGED <<mem, disk, failed>>
      /\ call' = [stage |-> "write", files |-> files, after |-> after, synced |-> FALSE]
  BY DEF Begin
<1>2. Unsaved /\ MemOK(mem) /\ DiskOK /\ failed \in BOOLEAN
  BY <1>1 DEF StorageInv, Idle
<1>3. files \in Seq({"snapshot", "state"}) /\ after \in Mems
  <2>1. after \in Mems
    BY DEF MemOK
  <2>2. <<"snapshot", "state">> \in Seq({"snapshot", "state"})
    OBVIOUS
  <2>3. <<"state">> \in Seq({"snapshot", "state"})
    OBVIOUS
  <2> QED
    BY <2>1, <2>2, <2>3
<1>4. /\ call' \in Calls /\ call'.stage = "write" /\ call'.files = files /\ call'.after = after
  BY <1>1, <1>3 DEF Calls
<1>5. call' # Idle
  BY <1>4 DEF Idle
<1>6. MemOK(mem)' /\ DiskOK' /\ Unsaved' /\ Visible' = Visible
  BY <1>1, <1>2 DEF MemOK, DiskOK, Unsaved, Visible
<1>7. Serving'
  <2>1. MemOK(call.after)'
    BY <1>4
  <2>2. Visible.snapshot = SnapOf(mem) /\ mem' = mem
    BY <1>1, <1>2 DEF Unsaved
  <2> QED
    BY <1>4, <1>6, <2>1, <2>2 DEF Serving, Calls
<1> QED
  BY <1>1, <1>2, <1>4, <1>5, <1>6, <1>7 DEF StorageInv

\* The four calls of the node that write files.
LEMMA CallsBegin ==
    ASSUME StorageInv, Submit \/ HandleAppendEntries \/ TakeSnapshot \/ HandleInstallSnapshot
    PROVE  StorageInv' /\ call = Idle /\ call' # Idle /\ UNCHANGED <<mem, disk, failed>>
<1>m. MemOK(mem)
  BY DEF StorageInv
<1>u. UNCHANGED <<mem, disk, failed>>
  BY DEF Submit, HandleAppendEntries, TakeSnapshot, HandleInstallSnapshot, Begin
<1>1. CASE Submit
  <2>1. PICK m \in Submitted(mem) : Begin(m, <<"state">>)
    BY <1>1 DEF Submit
  <2>2. MemOK(m) /\ SnapOf(m) = SnapOf(mem)
    BY <1>m, SubmittedOK
  <2> QED
    BY <1>u, <2>1, <2>2, BeginOK
<1>2. CASE HandleAppendEntries
  <2>1. PICK m \in Merged(mem) : Begin(m, <<"state">>)
    BY <1>2 DEF HandleAppendEntries
  <2>2. MemOK(m) /\ SnapOf(m) = SnapOf(mem)
    BY <1>m, MergedOK
  <2> QED
    BY <1>u, <2>1, <2>2, BeginOK
<1>3. CASE TakeSnapshot
  <2>1. PICK m \in Compacted(mem) : Begin(m, <<"snapshot", "state">>)
    BY <1>3 DEF TakeSnapshot
  <2>2. MemOK(m) /\ m.snap > mem.snap
    BY <1>m, CompactedOK
  <2> QED
    BY <1>u, <2>1, <2>2, BeginOK
<1>4. CASE HandleInstallSnapshot
  <2>1. PICK m \in Installed(mem) : Begin(m, <<"snapshot", "state">>)
    BY <1>4 DEF HandleInstallSnapshot
  <2>2. MemOK(m) /\ m.snap > mem.snap
    BY <1>m, InstalledOK
  <2> QED
    BY <1>u, <2>1, <2>2, BeginOK
<1> QED
  BY <1>1, <1>2, <1>3, <1>4

\* Writing a temporary file changes nothing a load would read.
LEMMA WriteOK ==
    ASSUME StorageInv, WriteTemporary
    PROVE  StorageInv' /\ call # Idle /\ call' # Idle
<1>1. /\ call.stage = "write" /\ call' = [call EXCEPT !.stage = "rename", !.synced = TRUE]
      /\ UNCHANGED <<mem, disk, failed>>
  BY DEF WriteTemporary
<1>2. Serving /\ call \in Calls /\ call # Idle /\ MemOK(mem) /\ DiskOK /\ failed \in BOOLEAN
  BY <1>1, Stages DEF StorageInv, CallOK
<1>3. /\ call' \in Calls /\ call'.stage = "rename" /\ call'.files = call.files
      /\ call'.after = call.after /\ call'.synced = TRUE
  BY <1>1, <1>2 DEF Calls
<1>4. call' # Idle
  BY <1>3 DEF Idle
<1>5. MemOK(mem)' /\ DiskOK' /\ (Unsaved => Unsaved') /\ Visible' = Visible /\ mem' = mem
  BY <1>1, <1>2 DEF MemOK, DiskOK, Unsaved, Visible
<1>6. Serving'
  BY <1>1, <1>2, <1>3, <1>5 DEF Serving, Calls
<1> QED
  BY <1>1, <1>2, <1>3, <1>4, <1>5, <1>6 DEF StorageInv

\* A rename: the snapshot first, which then reaches beyond the log on disk;
\* the log behind it last.
LEMMA RenameOK ==
    ASSUME StorageInv, Rename
    PROVE  /\ StorageInv' /\ call # Idle /\ call' # Idle /\ UNCHANGED <<mem, failed>>
           /\ \E h \in Files : disk' = Append(disk, h) /\ Visible' = h
<1> DEFINE F == {"snapshot", "state"}
           m == call.after
           w == Head(call.files)
           c == Contents(w)
           rest == Tail(call.files)
           next == IF Len(call.files) > 1 THEN "write" ELSE "answer"
<1>1. /\ call.stage = "rename" /\ disk' = Append(disk, [Visible EXCEPT ![w] = c])
      /\ call' = [call EXCEPT !.files = rest, !.synced = FALSE, !.stage = next]
      /\ UNCHANGED <<mem, failed>>
  BY DEF Rename
<1>2. /\ Serving /\ call \in Calls /\ call # Idle /\ MemOK(mem) /\ DiskOK /\ failed \in BOOLEAN
      /\ MemOK(m) /\ call.synced = TRUE /\ m \in Mems
  BY <1>1, Stages DEF StorageInv, CallOK, Serving, MemOK
<1>3. FilesOK(Visible) /\ Visible \in Files
  BY <1>2, DiskFacts
<1>u. MemOK(mem)' /\ mem' = mem /\ failed' \in BOOLEAN
  BY <1>1, <1>2
<1>4. CASE call.files = <<"snapshot", "state">> /\ m.snap > mem.snap /\ Unsaved
  <2> DEFINE h == [Visible EXCEPT !.snapshot = SnapOf(m)]
  <2>1. w = "snapshot" /\ Tail(call.files) = <<"state">> /\ Len(call.files) = 2
    BY <1>4
  <2>2. c = SnapOf(m)
    BY <1>2, <2>1, Zenon DEF Contents, SnapOf
  <2>3. Visible.snapshot.index < m.snap
    <3>1. Visible.snapshot.index = mem.snap
      BY <1>4, SnapOfFields DEF Unsaved
    <3> QED
      BY <1>4, <3>1, <1>2 DEF Mems, MemOK
  <2>4. FilesOK(h) /\ h \in Files /\ h.snapshot = SnapOf(m) /\ h.state = Visible.state
    BY <1>2, <1>3, <2>3, FilesSnapshot
  <2>5. disk' = Append(disk, h)
    BY <1>1, <2>1, <2>2
  <2> HIDE DEF h
  <2>6. DiskOK' /\ Visible' = h
    BY <1>2, <2>4, <2>5, DiskAppend
  <2>7. rest = <<"state">> /\ next = "write"
    BY <2>1
  <2>8. <<"state">> \in Seq(F)
    OBVIOUS
  <2>9. /\ call' \in Calls /\ call'.stage = "write" /\ call'.files = <<"state">>
        /\ call'.after = m
    <3> HIDE DEF rest, next
    <3> QED
      BY <1>1, <1>2, <2>7, <2>8 DEF Calls
  <2>10. call' # Idle
    BY <2>9 DEF Idle
  <2>11. Serving'
    <3>1. Visible'.snapshot = SnapOf(call'.after) /\ MemOK(call'.after)
      BY <1>2, <2>4, <2>6, <2>9
    <3> QED
      BY <2>9, <3>1 DEF Serving, Calls
  <2> QED
    BY <1>1, <1>2, <1>u, <2>4, <2>5, <2>6, <2>9, <2>10, <2>11 DEF StorageInv
<1>5. CASE call.files = <<"state">> /\ Visible.snapshot = SnapOf(m)
  <2> DEFINE h == [Visible EXCEPT !.state = [log |-> m.log, synced |-> TRUE]]
  <2>1. w = "state" /\ Tail(call.files) = <<>> /\ Len(call.files) = 1
    BY <1>5
  <2>2. c = [log |-> m.log, synced |-> TRUE]
    BY <1>2, <2>1 DEF Contents
  <2>4. FilesOK(h) /\ h \in Files /\ h.snapshot = Visible.snapshot /\ h.state.log = m.log
    BY <1>2, <1>3, <1>5, FilesState
  <2>5. disk' = Append(disk, h)
    BY <1>1, <2>1, <2>2
  <2> HIDE DEF h
  <2>6. DiskOK' /\ Visible' = h
    BY <1>2, <2>4, <2>5, DiskAppend
  <2>7. rest = <<>> /\ next = "answer"
    BY <2>1
  <2>8. <<>> \in Seq(F)
    OBVIOUS
  <2>9. /\ call' \in Calls /\ call'.stage = "answer" /\ call'.after = m
    <3> HIDE DEF rest, next
    <3> QED
      BY <1>1, <1>2, <2>7, <2>8 DEF Calls
  <2>10. call' # Idle
    BY <2>9 DEF Idle
  <2>11. Serving'
    <3>1. /\ Visible'.snapshot = SnapOf(call'.after) /\ Visible'.state.log = call'.after.log
          /\ MemOK(call'.after)
      BY <1>2, <1>5, <2>4, <2>6, <2>9
    <3> QED
      BY <2>9, <3>1 DEF Serving, Calls
  <2> QED
    BY <1>1, <1>2, <1>u, <2>4, <2>5, <2>6, <2>9, <2>10, <2>11 DEF StorageInv
<1> QED
  BY <1>1, <1>2, <1>4, <1>5 DEF Serving

\* The answer: the files are those of the new memory.
LEMMA AnswerOK ==
    ASSUME StorageInv, Answer
    PROVE  /\ StorageInv' /\ call # Idle /\ call' = Idle /\ disk' = disk
           /\ mem'.full = Load(Visible).full /\ failed' = FALSE
<1>1. call.stage = "answer" /\ mem' = call.after /\ call' = Idle /\ failed' = FALSE /\ disk' = disk
  BY DEF Answer
<1>2. /\ Serving /\ call # Idle /\ DiskOK /\ MemOK(call.after)
      /\ Visible.snapshot = SnapOf(call.after) /\ Visible.state.log = call.after.log
  BY <1>1, Stages DEF StorageInv, CallOK, Serving
<1>3. Load(Visible).full = call.after.full
  BY <1>2, LoadSame
<1>4. DiskOK' /\ Visible' = Visible
  BY <1>1, <1>2 DEF DiskOK, Visible
<1>5. MemOK(mem') /\ Visible'.snapshot = SnapOf(mem') /\ Load(Visible').full = mem'.full
  BY <1>1, <1>2, <1>3, <1>4
<1> QED
  BY <1>1, <1>2, <1>3, <1>4, <1>5 DEF StorageInv, Unsaved

\* A failed save: the snapshot's gives the call up, the log's goes unnoticed.
LEMMA SaveFailsOK ==
    ASSUME StorageInv, SaveFails
    PROVE  /\ StorageInv' /\ call # Idle /\ call' = Idle /\ disk' = disk
           /\ \/ UNCHANGED <<mem, failed>> /\ (failed \/ Load(Visible).full = mem.full)
              \/ failed' = TRUE
<1>1. /\ call.stage \in {"write", "rename"} /\ call' = Idle /\ disk' = disk
      /\ IF Head(call.files) = "snapshot" THEN UNCHANGED <<mem, failed>>
                                          ELSE mem' = call.after /\ failed' = TRUE
  BY DEF SaveFails
<1>2. Serving /\ call # Idle /\ MemOK(mem) /\ DiskOK /\ failed \in BOOLEAN
  BY <1>1, Stages DEF StorageInv, CallOK
<1>3. DiskOK' /\ Visible' = Visible
  BY <1>1, <1>2 DEF DiskOK, Visible
<1>4. CASE call.files = <<"snapshot", "state">> /\ Unsaved
  <2>1. UNCHANGED <<mem, failed>>
    BY <1>1, <1>4
  <2>2. Unsaved' /\ MemOK(mem)' /\ (failed \/ Load(Visible).full = mem.full)
    BY <1>2, <1>3, <1>4, <2>1 DEF Unsaved
  <2> QED
    BY <1>1, <1>2, <1>3, <2>1, <2>2 DEF StorageInv
<1>5. CASE call.files = <<"state">> /\ Visible.snapshot = SnapOf(call.after)
  <2>1. Head(call.files) = "state"
    BY <1>5
  <2>2. mem' = call.after /\ failed' = TRUE
    BY <1>1, <2>1
  <2>3. MemOK(mem') /\ Visible'.snapshot = SnapOf(mem')
    BY <1>2, <1>3, <1>5, <2>2 DEF Serving
  <2> QED
    BY <1>1, <1>2, <1>3, <2>2, <2>3 DEF StorageInv, Unsaved
<1> QED
  BY <1>1, <1>2, <1>4, <1>5 DEF Serving

\* A restart finds the files as they are.
LEMMA KillOK ==
    ASSUME StorageInv, Kill
    PROVE  /\ StorageInv' /\ call' = Idle /\ disk' = disk /\ mem'.full = Load(Visible).full
           /\ failed' = FALSE
<1>1. mem' = Load(Visible) /\ call' = Idle /\ failed' = FALSE /\ disk' = disk
  BY DEF Kill
<1>2. DiskOK /\ FilesOK(Visible)
  BY DiskFacts DEF StorageInv
<1>3. MemOK(Load(Visible)) /\ SnapOf(Load(Visible)) = Visible.snapshot
  BY <1>2, LoadOK
<1>4. DiskOK' /\ Visible' = Visible
  BY <1>1, <1>2 DEF DiskOK, Visible
<1>5. MemOK(mem') /\ Visible'.snapshot = SnapOf(mem') /\ Load(Visible').full = mem'.full
  BY <1>1, <1>3, <1>4
<1> QED
  BY <1>1, <1>4, <1>5 DEF StorageInv, Unsaved

\* A power cut finds the files as they were on disk: their contents were
\* synced before they were renamed.
LEMMA PowerCutOK ==
    ASSUME StorageInv, PowerCut
    PROVE  /\ StorageInv' /\ call' = Idle /\ disk' = <<disk[1]>> /\ Visible' = disk[1]
           /\ mem'.full = Load(disk[1]).full /\ failed' = FALSE
<1> DEFINE f == disk[1]
<1>1. /\ disk' = <<AfterPowerCut(f)>> /\ mem' = Load(disk'[1]) /\ call' = Idle /\ failed' = FALSE
  BY DEF PowerCut
<1>2. FilesOK(f) /\ f \in Files
  BY DiskFacts DEF StorageInv
<1> HIDE DEF f
<1>3. AfterPowerCut(f) = f
  <2>1. f.state.synced = TRUE /\ f.snapshot.synced = TRUE
    BY <1>2 DEF Files
  <2>2. AfterPowerCut(f) = [state |-> f.state, snapshot |-> f.snapshot]
    BY <2>1 DEF AfterPowerCut
  <2> QED
    BY <1>2, <2>2 DEF Files
<1>4. disk' = <<f>>
  BY <1>1, <1>3
<1>5. disk' \in Seq(Files) /\ Len(disk') = 1 /\ disk'[1] = f
  BY <1>2, <1>4
<1>6. DiskOK' /\ Visible' = f
  BY <1>2, <1>5 DEF DiskOK, Visible
<1>7. MemOK(Load(f)) /\ SnapOf(Load(f)) = f.snapshot
  BY <1>2, LoadOK
<1>8. /\ MemOK(mem') /\ Visible'.snapshot = SnapOf(mem') /\ Load(Visible').full = mem'.full
      /\ mem' = Load(f)
  BY <1>1, <1>5, <1>6, <1>7
<1> QED
  BY <1>1, <1>4, <1>6, <1>8 DEF StorageInv, Unsaved, f

\* The oldest rename reaches the disk.
LEMMA FlushOK ==
    ASSUME StorageInv, Flush
    PROVE  /\ StorageInv' /\ Visible' = Visible /\ UNCHANGED <<mem, call, failed>>
           /\ \A k \in 1 .. Len(disk') : \E j \in 1 .. Len(disk) : disk'[k] = disk[j]
<1>1. Len(disk) > 1 /\ disk' = Tail(disk) /\ UNCHANGED <<mem, call, failed>>
  BY DEF Flush
<1>2. disk \in Seq(Files) /\ Len(disk) \in Nat /\ \A k \in 1 .. Len(disk) : FilesOK(disk[k])
  BY DEF StorageInv, DiskOK
<1>3. /\ disk' \in Seq(Files) /\ Len(disk') = Len(disk) - 1
      /\ \A k \in 1 .. Len(disk) - 1 : disk'[k] = disk[k + 1]
  BY <1>1, <1>2
<1>4. \A k \in 1 .. Len(disk) - 1 : k + 1 \in 1 .. Len(disk)
  BY <1>2
<1>5. \A k \in 1 .. Len(disk') : \E j \in 1 .. Len(disk) : disk'[k] = disk[j]
  BY <1>3, <1>4
<1>6. Len(disk') >= 1 /\ Len(disk') \in 1 .. Len(disk) - 1 /\ (Len(disk) - 1) + 1 = Len(disk)
  BY <1>1, <1>2, <1>3
<1>7. DiskOK'
  BY <1>2, <1>3, <1>5, <1>6 DEF DiskOK
<1>8. Visible' = Visible
  BY <1>3, <1>6 DEF Visible
<1>9. MemOK(mem)' /\ failed' \in BOOLEAN /\ (Unsaved => Unsaved')
  BY <1>1, <1>8 DEF StorageInv, Unsaved
<1>10. Serving => Serving'
  BY <1>1, <1>8, <1>9 DEF Serving
<1> QED
  BY <1>1, <1>5, <1>7, <1>8, <1>9, <1>10 DEF StorageInv

-----------------------------------------------------------------------------
(* The theorems.                                                           *)

\* Every file operation, failure, kill and power cut keeps the invariant.
LEMMA StorageStep == StorageInv /\ [Next]_vars => StorageInv'
<1> SUFFICES ASSUME StorageInv, [Next]_vars PROVE StorageInv'
  OBVIOUS
<1>1. CASE Submit \/ HandleAppendEntries \/ TakeSnapshot \/ HandleInstallSnapshot
  BY <1>1, CallsBegin
<1>2. CASE WriteTemporary
  BY <1>2, WriteOK
<1>3. CASE Rename
  BY <1>3, RenameOK
<1>4. CASE Answer
  BY <1>4, AnswerOK
<1>5. CASE SaveFails
  BY <1>5, SaveFailsOK
<1>6. CASE Kill
  BY <1>6, KillOK
<1>7. CASE PowerCut
  BY <1>7, PowerCutOK
<1>8. CASE Flush
  BY <1>8, FlushOK
<1>9. CASE UNCHANGED vars
  <2>1. UNCHANGED <<mem, call, disk, failed>>
    BY <1>9 DEF vars
  <2>2. Visible' = Visible
    BY <2>1 DEF Visible
  <2>3. (Unsaved => Unsaved') /\ (DiskOK => DiskOK')
    BY <2>1, <2>2 DEF Unsaved, DiskOK
  <2>4. Serving => Serving'
    BY <2>1, <2>2, <2>3 DEF Serving
  <2> QED
    BY <2>1, <2>3, <2>4 DEF StorageInv
<1> QED
  BY <1>1, <1>2, <1>3, <1>4, <1>5, <1>6, <1>7, <1>8, <1>9 DEF Next

\* The invariant holds in every state the node and its files can be in.
LEMMA StorageInvariance == Spec => []StorageInv
  BY InitialFiles, StorageStep, PTL DEF Spec

\* log.go: after any appends, merges, compactions, failed saves, crashes and
\* restarts the stored log is the uncompacted log behind the boundary, and
\* the sentinel holds the boundary's own index and term.
THEOREM LogStoredFaithfully == Spec => []StoredIsImage
<1>1. StorageInv => StoredIsImage
  <2> SUFFICES ASSUME StorageInv PROVE StoredIsImage
    OBVIOUS
  <2>1. MemOK(mem)
    BY DEF StorageInv
  <2>2. /\ SnapshotIndex(mem.log) = mem.snap /\ LastIndex(mem.log) = Len(mem.full)
        /\ SnapshotTerm(mem.log) = IF mem.snap = 0 THEN 0 ELSE mem.full[mem.snap].term
    BY <2>1 DEF MemOK, TermAt
  <2>3. \A i \in mem.snap + 1 .. Len(mem.full) : mem.log[i - mem.snap + 1] = mem.full[i]
    BY <2>1, ImageAt
  <2> QED
    BY <2>2, <2>3 DEF StoredIsImage
<1> QED
  BY <1>1, StorageInvariance, PTL

\* TakeSnapshot and HandleInstallSnapshot: in every pair of files a crash can
\* leave, the snapshot reaches at least as far as the log was compacted.
THEOREM SnapshotsCoverLogs == Spec => []SnapshotCoversLog
<1>1. StorageInv => SnapshotCoversLog
  BY DEF StorageInv, DiskOK, FilesOK, SnapshotCoversLog
<1> QED
  BY <1>1, StorageInvariance, PTL

-----------------------------------------------------------------------------
(* The refinement.                                                         *)

Restored == Load(Visible).full

Past == {Load(disk[k]).full : k \in 1 .. Len(disk)}

\* What a restart would find is a log, and among what a power cut may leave.
RestoredOK == Restored \in Seq(Recs) /\ Restored \in Past /\ mem.full \in Seq(Recs)

\* What a load of any files on disk yields, before the step ...
LEMMA RestoredFacts == StorageInv => RestoredOK
<1> SUFFICES ASSUME StorageInv PROVE RestoredOK
  OBVIOUS
<1>1. FilesOK(Visible) /\ DiskOK
  BY DiskFacts DEF StorageInv
<1>2. MemOK(Load(Visible)) /\ MemOK(mem)
  BY <1>1, LoadOK DEF StorageInv
<1>3. Len(disk) \in 1 .. Len(disk)
  BY <1>1 DEF DiskOK
<1>4. Restored \in Past
  BY <1>3, Zenon DEF Restored, Past, Visible
<1> QED
  BY <1>2, <1>4 DEF Restored, MemOK, IsFull, RestoredOK

\* ... and after it.
LEMMA RestoredNext == StorageInv' => RestoredOK'
  BY RestoredFacts, PTL

\* Every step of the two files is a step of a state saved as a whole.
LEMMA DurableStep ==
    ASSUME StorageInv, [Next]_vars
    PROVE  [Durable!Next]_Durable!durableVars
<1>i. StorageInv'
  BY StorageStep
<1>r. Restored \in Past /\ mem.full \in Seq(Recs)
  BY RestoredFacts DEF RestoredOK
<1>q. Restored' \in Seq(Recs) /\ Restored' \in Past' /\ mem'.full \in Seq(Recs)
  BY <1>i, RestoredNext DEF RestoredOK, Recs, Term
<1>d. disk' = disk => Restored' = Restored /\ Past' = Past
  BY DEF Restored, Past, Visible
<1> USE DEF Restored, Past, Recs
<1>1. CASE Submit \/ HandleAppendEntries \/ TakeSnapshot \/ HandleInstallSnapshot
  <2>1. call = Idle /\ call' # Idle /\ UNCHANGED <<mem, disk, failed>>
    BY <1>1, CallsBegin
  <2>2. Durable!Begin
    BY <1>d, <2>1 DEF Durable!Begin
  <2> QED
    BY <2>2 DEF Durable!Next
<1>2. CASE WriteTemporary
  <2>1. call # Idle /\ call' # Idle /\ UNCHANGED <<mem, disk, failed>>
    BY <1>2, WriteOK DEF WriteTemporary
  <2> QED
    BY <1>d, <2>1 DEF Durable!durableVars
<1>3. CASE Rename
  <2>1. call # Idle /\ call' # Idle /\ UNCHANGED <<mem, failed>>
    BY <1>3, RenameOK
  <2>2. PICK h \in Files : disk' = Append(disk, h) /\ Visible' = h
    BY <1>3, RenameOK
  <2>3. disk \in Seq(Files) /\ Len(disk) \in Nat
    BY DEF StorageInv, DiskOK
  <2>4. /\ Len(disk') = Len(disk) + 1 /\ disk'[Len(disk) + 1] = h
        /\ \A k \in 1 .. Len(disk) : disk'[k] = disk[k] /\ k \in 1 .. Len(disk')
        /\ \A k \in 1 .. Len(disk') : k \in 1 .. Len(disk) \/ k = Len(disk) + 1
        /\ Len(disk) + 1 \in 1 .. Len(disk')
    BY <2>2, <2>3
  <2>5. Past' = Past \cup {Restored'}
    <3>1. Restored' = Load(h).full
      BY <2>2 DEF Restored
    <3>2. ASSUME NEW x \in Past' PROVE x \in Past \cup {Restored'}
      <4>1. PICK k \in 1 .. Len(disk') : x = Load(disk'[k]).full
        BY <3>2 DEF Past
      <4> QED
        BY <2>4, <3>1, <4>1 DEF Past
    <3>3. ASSUME NEW x \in Past PROVE x \in Past'
      <4>1. PICK k \in 1 .. Len(disk) : x = Load(disk[k]).full
        BY <3>3 DEF Past
      <4>2. k \in 1 .. Len(disk') /\ x = Load(disk'[k]).full
        BY <2>4, <4>1
      <4> QED
        BY <4>2 DEF Past
    <3> QED
      BY <1>q, <3>2, <3>3
  <2>6. Durable!Save
    BY <1>q, <2>1, <2>5 DEF Durable!Save
  <2> QED
    BY <2>6 DEF Durable!Next
<1>4. CASE Answer
  <2>1. /\ call # Idle /\ call' = Idle /\ disk' = disk /\ mem'.full = Restored
        /\ failed' = FALSE
    BY <1>4, AnswerOK DEF Restored
  <2>2. Durable!Answer
    BY <1>d, <2>1 DEF Durable!Answer
  <2> QED
    BY <2>2 DEF Durable!Next
<1>5. CASE SaveFails
  <2>1. /\ call # Idle /\ call' = Idle /\ disk' = disk
        /\ \/ UNCHANGED <<mem, failed>> /\ (failed \/ Restored = mem.full)
           \/ failed' = TRUE
    BY <1>5, SaveFailsOK DEF Restored
  <2>2. CASE UNCHANGED <<mem, failed>> /\ (failed \/ Restored = mem.full)
    <3>1. Durable!Abort
      BY <1>d, <2>1, <2>2 DEF Durable!Abort
    <3> QED
      BY <3>1 DEF Durable!Next
  <2>3. CASE failed' = TRUE
    <3>1. Durable!AnswerUnsaved
      BY <1>d, <1>q, <2>1, <2>3 DEF Durable!AnswerUnsaved
    <3> QED
      BY <3>1 DEF Durable!Next
  <2> QED
    BY <2>1, <2>2, <2>3
<1>6. CASE Kill
  <2>1. call' = Idle /\ disk' = disk /\ mem'.full = Restored /\ failed' = FALSE
    BY <1>6, KillOK DEF Restored
  <2>2. Durable!Restart
    BY <1>d, <2>1 DEF Durable!Restart
  <2> QED
    BY <2>2 DEF Durable!Next
<1>7. CASE PowerCut
  <2>1. /\ call' = Idle /\ disk' = <<disk[1]>> /\ Visible' = disk[1]
        /\ mem'.full = Load(disk[1]).full /\ failed' = FALSE
    BY <1>7, PowerCutOK
  <2>2. Restored' = Load(disk[1]).full
    BY <2>1 DEF Restored
  <2>3. Restored' \in Past
    <3>1. 1 \in 1 .. Len(disk)
      BY DEF StorageInv, DiskOK
    <3> QED
      BY <2>2, <3>1 DEF Past
  <2>4. Past' = {Restored'}
    <3>1. Len(disk') = 1 /\ disk'[1] = disk[1]
      BY <2>1
    <3>2. 1 .. 1 = {1}
      OBVIOUS
    <3>3. Past' = {Load(disk'[k]).full : k \in {1}}
      BY <3>1, <3>2 DEF Past
    <3> QED
      BY <2>2, <3>1, <3>3
  <2>5. Durable!PowerCut
    BY <2>1, <2>2, <2>3, <2>4 DEF Durable!PowerCut
  <2> QED
    BY <2>5 DEF Durable!Next
<1>8. CASE Flush
  <2>1. /\ Visible' = Visible /\ UNCHANGED <<mem, call, failed>>
        /\ \A k \in 1 .. Len(disk') : \E j \in 1 .. Len(disk) : disk'[k] = disk[j]
    BY <1>8, FlushOK
  <2>2. Restored' = Restored
    BY <2>1 DEF Restored
  <2>3. Past' \subseteq Past
    BY <2>1 DEF Past
  <2>4. Durable!Flush
    BY <1>q, <2>1, <2>2, <2>3 DEF Durable!Flush
  <2> QED
    BY <2>4 DEF Durable!Next
<1>9. CASE UNCHANGED vars
  <2>1. UNCHANGED <<mem, call, disk, failed>>
    BY <1>9 DEF vars
  <2> QED
    BY <1>d, <2>1 DEF Durable!durableVars
<1> QED
  BY <1>1, <1>2, <1>3, <1>4, <1>5, <1>6, <1>7, <1>8, <1>9 DEF Next

\* persist.go: the two files, each replaced by a temporary file, fsync and
\* rename, implement a state saved in one step.  What an answered call left
\* is what a restart loads, and a power cut goes back to a state that was
\* saved, never to a mixture of two.
THEOREM FilesAreDurable == Spec => RefinesDurable
<1>1. Init => Durable!Init
  <2> SUFFICES ASSUME Init PROVE Durable!Init
    OBVIOUS
  <2>1. StorageInv /\ mem.full = <<>> /\ call = Idle /\ failed = FALSE /\ disk = <<NoFiles>>
    BY InitialFiles DEF Init, FreshMem
  <2>2. Restored = <<>>
    BY <2>1, Stages DEF StorageInv, CallOK, Unsaved, Restored, Idle
  <2>3. Past = {Restored}
    <3>1. Len(disk) = 1
      BY <2>1
    <3>2. 1 .. 1 = {1}
      OBVIOUS
    <3>3. Past = {Load(disk[k]).full : k \in {1}}
      BY <3>1, <3>2 DEF Past
    <3> QED
      BY <3>1, <3>3 DEF Restored, Visible
  <2> QED
    BY <2>1, <2>2, <2>3 DEF Durable!Init, Restored, Past
<1>2. StorageInv /\ [Next]_vars => [Durable!Next]_Durable!durableVars
  BY DurableStep
<1> QED
  BY <1>1, <1>2, StorageInvariance, PTL DEF Spec, RefinesDurable, Durable!Spec

-----------------------------------------------------------------------------
(* Reading the stored log.                                                 *)

Readable(m) == Max({m.snap, 1}) .. Len(m.full)

\* get, for every argument: entry 0 and what is compacted have term 0.
LEMMA GetAgrees ==
    ASSUME NEW m, MemOK(m), NEW i \in Int
    PROVE  /\ Get(m.log, i).term = (IF i \in Readable(m) THEN m.full[i].term ELSE 0)
           /\ i \in Readable(m) => i \in m.snap .. Len(m.full) /\ i \in 1 .. Len(m.full)
<1>m. /\ IsLog(Cmd, Terms, m.log) /\ m.snap \in Nat /\ Len(m.full) \in Nat
      /\ m.snap <= Len(m.full) /\ SnapshotIndex(m.log) = m.snap
      /\ LastIndex(m.log) = Len(m.full)
      /\ SnapshotTerm(m.log) = TermAt(m.full, m.snap)
  BY MemFacts DEF MemOK
<1>r. Readable(m) = (IF m.snap >= 1 THEN m.snap ELSE 1) .. Len(m.full)
  <2>1. m.snap \in Int /\ 1 \in Int
    BY <1>m
  <2>2. Max({m.snap, 1}) = IF m.snap >= 1 THEN m.snap ELSE 1
    BY <2>1, MaxOfTwo
  <2> QED
    BY <2>2 DEF Readable
<1>1. i \in Readable(m) => i \in m.snap .. Len(m.full) /\ i \in 1 .. Len(m.full)
  BY <1>m, <1>r
<1>2. CASE i \in m.snap + 1 .. Len(m.full)
  <2>1. i \in Readable(m)
    BY <1>m, <1>r, <1>2
  <2>2. Get(m.log, i) = m.full[i]
    BY <1>2 DEF MemOK
  <2> QED
    BY <1>1, <2>1, <2>2
<1>3. CASE i = m.snap
  <2>1. Get(m.log, i) = m.log[1]
    <3>1. Len(m.log) \in Nat /\ Len(m.log) >= 1
      BY <1>m DEF IsLog
    <3> QED
      BY <1>m, <1>3, <3>1 DEF Get
  <2>2. Get(m.log, i).term = TermAt(m.full, i)
    BY <1>m, <1>3, <2>1 DEF SnapshotTerm
  <2>3. i \in Readable(m) <=> i # 0
    BY <1>m, <1>r, <1>3
  <2> QED
    BY <1>1, <2>2, <2>3 DEF TermAt
<1>4. CASE ~(i \in m.snap .. Len(m.full))
  <2>1. Get(m.log, i) = ZeroEntry
    BY <1>m, <1>4, Bounds, GetOutside
  <2>2. i \notin Readable(m)
    BY <1>1, <1>4
  <2> QED
    BY <1>1, <2>1, <2>2 DEF ZeroEntry
<1>5. i \in m.snap + 1 .. Len(m.full) \/ i = m.snap \/ ~(i \in m.snap .. Len(m.full))
  BY <1>m
<1> QED
  BY <1>2, <1>3, <1>4, <1>5

\* A contiguous part of a sequence.
LEMMA SubSeqAt ==
    ASSUME NEW S, NEW q \in Seq(S), NEW i \in Nat, NEW j \in Nat, 1 <= i, i <= j, j <= Len(q)
    PROVE  /\ SubSeq(q, i, j) \in Seq(S) /\ Len(SubSeq(q, i, j)) = j - i + 1
           /\ \A k \in 1 .. j - i + 1 : SubSeq(q, i, j)[k] = q[i + k - 1]
<1>1. i \in 1 .. Len(q) + 1 /\ j \in i - 1 .. Len(q) /\ Len(q) \in Nat
  OBVIOUS
<1>2. /\ SubSeq(q, i, j) \in Seq(S)
      /\ Len(SubSeq(q, i, j)) = IF i <= j THEN j - i + 1 ELSE 0
      /\ \A k \in 1 .. j - i + 1 : SubSeq(q, i, j)[k] = q[i + k - 1]
  BY <1>1, SubSeqProperties
<1> QED
  BY <1>2

\* slice, for every pair of arguments.
LEMMA SliceAgrees ==
    ASSUME NEW m, MemOK(m), NEW from \in Nat, NEW to \in Nat
    PROVE  Slice(m.log, from, to) =
              SubSeq(m.full, Max({from, m.snap + 1}), Min({to - 1, Len(m.full)}))
<1> DEFINE log == m.log
           full == m.full
           s == m.snap
           a == Max({from, s + 1})
           b == Min({to - 1, Len(full)})
           first == IF from <= SnapshotIndex(log) THEN SnapshotIndex(log) + 1 ELSE from
           c == Min({to - SnapshotIndex(log), Len(log)})
<1>m. /\ IsLog(Cmd, Terms, log) /\ s \in Nat /\ Len(full) \in Nat /\ s <= Len(full)
      /\ SnapshotIndex(log) = s /\ Len(log) = Len(full) - s + 1 /\ IsFull(full)
      /\ log \in Logs /\ full \in Seq(Recs)
  BY MemFacts DEF IsFull
<1>a. a = IF from >= s + 1 THEN from ELSE s + 1
  <2>1. from \in Int /\ s + 1 \in Int
    BY <1>m
  <2> HIDE DEF s
  <2> QED
    BY <2>1, MaxOfTwo
<1>b. b = IF to - 1 <= Len(full) THEN to - 1 ELSE Len(full)
  <2>1. to - 1 \in Int /\ Len(full) \in Int
    BY <1>m
  <2> HIDE DEF full
  <2> QED
    BY <2>1, MinOfTwo
<1>c. c = IF to - s <= Len(log) THEN to - s ELSE Len(log)
  <2>1. to - s \in Int /\ Len(log) \in Int /\ c = Min({to - s, Len(log)})
    BY <1>m
  <2> HIDE DEF s, log, c
  <2> QED
    BY <2>1, MinOfTwo
<1>f. first = a
  BY <1>a, <1>m
<1>1. Slice(log, from, to) = IF first >= to \/ first - SnapshotIndex(log) >= Len(log)
                             THEN <<>> ELSE SubSeq(log, first - SnapshotIndex(log) + 1, c)
  BY DEF Slice
<1> HIDE DEF a, b, c, first, s, log, full
<1>2. a \in Nat /\ a >= s + 1 /\ b \in Int
  BY <1>a, <1>b, <1>m
<1>3. CASE a >= to \/ a - s >= Len(log)
  <2>1. a > b
    BY <1>2, <1>3, <1>b, <1>m
  <2>2. SubSeq(full, a, b) = <<>>
    BY <1>2, <1>m, <2>1
  <2>3. Slice(log, from, to) = <<>>
    BY <1>1, <1>3, <1>f, <1>m
  <2> QED
    BY <2>2, <2>3 DEF log, full, a, b, s
<1>4. CASE ~(a >= to \/ a - s >= Len(log))
  <2> DEFINE x == SubSeq(log, a - s + 1, c)
             y == SubSeq(full, a, b)
  <2>1. Slice(log, from, to) = x
    BY <1>1, <1>4, <1>f, <1>m
  <2>2. /\ a <= b /\ b <= Len(full) /\ c = b - s + 1 /\ a - s + 1 \in Nat /\ c \in Nat
        /\ 1 <= a - s + 1 /\ c <= Len(log) /\ a >= 1 /\ b \in Nat
    BY <1>2, <1>4, <1>b, <1>c, <1>m
  <2>3. y \in Seq(Recs) /\ Len(y) = b - a + 1 /\ \A k \in 1 .. b - a + 1 : y[k] = full[a + k - 1]
    BY <1>2, <1>m, <2>2, SubSeqAt
  <2>4. log \in Seq(EntryOf(Cmd, Terms)) /\ Len(log) \in Nat
    BY <1>m DEF Logs
  <2> DEFINE p == a - s + 1
  <2>5. p \in Nat /\ 1 <= p /\ p <= c /\ c <= Len(log) /\ c - p + 1 = b - a + 1
    BY <1>2, <1>m, <2>2
  <2>x. x = SubSeq(log, p, c)
    OBVIOUS
  <2>p. p = a - s + 1
    OBVIOUS
  <2> HIDE DEF p, x, y
  <2>6. /\ x \in Seq(EntryOf(Cmd, Terms)) /\ Len(x) = c - p + 1
        /\ \A k \in 1 .. c - p + 1 : x[k] = log[p + k - 1]
    <3> DEFINE S == EntryOf(Cmd, Terms)
    <3>1. log \in Seq(S) /\ p \in Nat /\ c \in Nat /\ 1 <= p /\ p <= c /\ c <= Len(log)
      BY <2>2, <2>4, <2>5
    <3> HIDE DEF S
    <3>2. /\ SubSeq(log, p, c) \in Seq(S) /\ Len(SubSeq(log, p, c)) = c - p + 1
          /\ \A k \in 1 .. c - p + 1 : SubSeq(log, p, c)[k] = log[p + k - 1]
      BY <3>1, SubSeqAt
    <3> QED
      BY <2>x, <3>2 DEF S
  <2>7. ASSUME NEW k \in 1 .. b - a + 1 PROVE x[k] = y[k]
    <3> DEFINE i == a + k - 1
    <3>1. i \in s + 1 .. Len(full) /\ i - s + 1 = p + k - 1
      BY <1>2, <1>m, <2>2, <2>p
    <3>i. i = a + k - 1
      OBVIOUS
    <3> HIDE DEF i
    <3>2. log[i - s + 1] = full[i]
      BY <3>1, ImageAt DEF log, full, s
    <3>3. x[k] = log[p + k - 1]
      BY <2>5, <2>6
    <3>4. y[k] = full[i]
      BY <2>3, <3>i
    <3> QED
      BY <3>1, <3>2, <3>3, <3>4
  <2>8. Recs \subseteq EntryOf(Cmd, Terms)
    BY Bounds
  <2>9. y \in Seq(EntryOf(Cmd, Terms)) /\ Len(x) = Len(y)
    BY <2>3, <2>5, <2>6, <2>8, SeqMonotonic
  <2>10. x = y
    BY <2>3, <2>6, <2>7, <2>9, SeqEqual
  <2> QED
    BY <2>1, <2>10 DEF y, log, full, a, b, s
<1> QED
  BY <1>3, <1>4

\* firstIndexForTerm and the leader's search, for every real term.
LEMMA SearchesAgree ==
    ASSUME NEW m, MemOK(m), NEW t \in Term
    PROVE  LET Stored == {i \in Readable(m) : m.full[i].term = t} IN
           IF Stored = {}
           THEN FirstIndexForTerm(m.log, t) = 0 /\ LastIndexWithTerm(m.log, t) = 0
           ELSE /\ FirstIndexForTerm(m.log, t) = Min(Stored)
                /\ LastIndexWithTerm(m.log, t) = Max(Stored)
<1> DEFINE S == {i \in Readable(m) : m.full[i].term = t}
           P == {k \in 1 .. Len(m.log) : m.log[k].term = t}
           s == m.snap
<1>m. /\ IsLog(Cmd, Terms, m.log) /\ s \in Nat /\ Len(m.full) \in Nat /\ s <= Len(m.full)
      /\ SnapshotIndex(m.log) = s /\ LastIndex(m.log) = Len(m.full)
      /\ Len(m.log) = Len(m.full) - s + 1
      /\ t # 0
  BY MemFacts, Bounds
<1>1. \A i \in Int : i \in S <=> Get(m.log, i).term = t
  BY <1>m, GetAgrees
<1>2. \A i \in S : i \in Int /\ i \in s .. Len(m.full) /\ i \in 1 .. Len(m.full)
  <2> SUFFICES ASSUME NEW i \in S PROVE i \in s .. Len(m.full) /\ i \in 1 .. Len(m.full)
    BY <1>m
  <2>1. i \in Int
    BY DEF Readable
  <2> QED
    BY <2>1, GetAgrees
<1>3. LastIndexWithTerm(m.log, t) = IF S = {} THEN 0 ELSE Max(S)
  <2>1. {i \in 1 .. LastIndex(m.log) : Get(m.log, i).term = t} = S
    <3> HIDE DEF S
    <3> QED
      BY <1>1, <1>2, <1>m
  <2> HIDE DEF S
  <2> QED
    BY <2>1 DEF LastIndexWithTerm
<1>4. \A k \in Int : k \in P <=> s + k - 1 \in S
  <2> SUFFICES ASSUME NEW k \in Int PROVE k \in P <=> s + k - 1 \in S
    OBVIOUS
  <2> DEFINE i == s + k - 1
  <2>1. i \in Int /\ (k \in 1 .. Len(m.log) <=> i \in s .. Len(m.full)) /\ i - s + 1 = k
    BY <1>m
  <2> HIDE DEF i
  <2>2. i \in s .. Len(m.full) => Get(m.log, i) = m.log[k]
    <3>1. i \in SnapshotIndex(m.log) .. LastIndex(m.log)
             => Get(m.log, i) = m.log[i - SnapshotIndex(m.log) + 1]
      BY <1>m, Bounds, GetAt
    <3> QED
      BY <1>m, <2>1, <3>1
  <2>3. k \in P <=> i \in S
    BY <1>1, <1>2, <2>1, <2>2
  <2> QED
    BY <2>3 DEF i
<1>5. P \in SUBSET Nat /\ S \in SUBSET Nat
  BY <1>2, <1>m
<1>6. FirstIndexForTerm(m.log, t) = IF P = {} THEN 0 ELSE m.log[Min(P)].index
  BY DEF FirstIndexForTerm
<1>7. \A k \in P : k \in 1 .. Len(m.log)
  OBVIOUS
<1> HIDE DEF P, S
<1>8. P = {} <=> S = {}
  <2>1. ASSUME NEW k \in P PROVE S # {}
    BY <1>4, <1>5
  <2>2. ASSUME NEW i \in S PROVE P # {}
    <3>1. i - s + 1 \in Int /\ s + (i - s + 1) - 1 = i
      BY <1>m, <1>5
    <3> QED
      BY <1>4, <3>1
  <2> QED
    BY <2>1, <2>2
<1>9. ASSUME S # {} PROVE m.log[Min(P)].index = Min(S)
  <2> DEFINE k == Min(P)
             j == Min(S)
  <2>1. k \in P /\ \A x \in P : k <= x
    BY <1>5, <1>8, <1>9, NatMin
  <2>2. j \in S /\ \A x \in S : j <= x
    BY <1>5, <1>9, NatMin
  <2> HIDE DEF k, j
  <2>3. k \in Nat /\ j \in Nat /\ k \in 1 .. Len(m.log)
    BY <1>5, <1>7, <2>1, <2>2
  <2>4. s + k - 1 \in S /\ j <= s + k - 1
    <3>1. k \in Int
      BY <2>3
    <3>2. s + k - 1 \in S
      BY <1>4, <2>1, <3>1
    <3> QED
      BY <2>2, <3>2
  <2>5. j - s + 1 \in P
    <3>1. j - s + 1 \in Int /\ s + (j - s + 1) - 1 = j
      BY <1>m, <2>3
    <3> QED
      BY <1>4, <2>2, <3>1
  <2>6. j = s + k - 1
    BY <1>m, <2>1, <2>3, <2>4, <2>5
  <2>7. m.log[k].index = SnapshotIndex(m.log) + k - 1
    <3>1. m.log[k].index = m.log[1].index + k - 1
      BY <1>m, <2>3 DEF IsLog
    <3> QED
      BY <3>1 DEF SnapshotIndex
  <2>8. m.log[k].index = j
    BY <1>m, <2>6, <2>7
  <2> QED
    BY <2>8 DEF k, j
<1>10. IF S = {} THEN FirstIndexForTerm(m.log, t) = 0 /\ LastIndexWithTerm(m.log, t) = 0
       ELSE /\ FirstIndexForTerm(m.log, t) = Min(S)
            /\ LastIndexWithTerm(m.log, t) = Max(S)
  BY <1>3, <1>6, <1>8, <1>9
<1> QED
  BY <1>10 DEF S

\* log.go and the searches of replication.go: every read of a compacted log
\* answers as the uncompacted log would, out of range included.
THEOREM LogReadsAgree == Spec => []ReadsAgree
<1>1. StorageInv => ReadsAgree
  <2> SUFFICES ASSUME StorageInv PROVE ReadsAgree
    OBVIOUS
  <2> DEFINE Read == Max({mem.snap, 1}) .. Len(mem.full)
             Stored(t) == {i \in Read : mem.full[i].term = t}
  <2>m. MemOK(mem) /\ MaxLen \in Nat
    BY Bounds DEF StorageInv
  <2>r. Readable(mem) = Read
    BY DEF Readable
  <2>f. /\ IsLog(Cmd, Terms, mem.log) /\ Len(mem.full) \in Nat /\ mem.full \in Seq(Recs)
        /\ LastIndex(mem.log) = Len(mem.full)
    BY <2>m, MemFacts DEF IsFull
  <2> HIDE DEF Read
  <2>1. \A i \in 0 .. MaxLen + 1 :
           Get(mem.log, i).term = (IF i \in Read THEN mem.full[i].term ELSE 0)
    <3> SUFFICES ASSUME NEW i \in 0 .. MaxLen + 1
                 PROVE  Get(mem.log, i).term = (IF i \in Read THEN mem.full[i].term ELSE 0)
      OBVIOUS
    <3>1. i \in Int
      BY <2>m
    <3> QED
      BY <2>m, <2>r, <3>1, GetAgrees
  <2>2. \A from, to \in 0 .. MaxLen + 2 :
           Slice(mem.log, from, to) =
             SubSeq(mem.full, Max({from, mem.snap + 1}), Min({to - 1, Len(mem.full)}))
    <3>1. 0 .. MaxLen + 2 \subseteq Nat
      BY <2>m
    <3> QED
      BY <2>m, <3>1, SliceAgrees
  <2>3. LastTerm(mem.log) = (IF mem.full = <<>> THEN 0 ELSE mem.full[Len(mem.full)].term)
    <3> DEFINE n == Len(mem.full)
    <3>1. LastTerm(mem.log) = Get(mem.log, n).term
      BY <2>f, Bounds, LogFacts
    <3>2. n \in Int
      BY <2>f
    <3>3. n \in Read <=> mem.full # <<>>
      <4>1. mem.snap \in Nat /\ mem.snap <= n /\ 1 \in Int /\ mem.snap \in Int
        BY <2>m, MemFacts
      <4>2. Max({mem.snap, 1}) = IF mem.snap >= 1 THEN mem.snap ELSE 1
        BY <4>1, MaxOfTwo
      <4>3. mem.full # <<>> <=> n >= 1
        BY <2>f
      <4> HIDE DEF n
      <4>4. Read = (IF mem.snap >= 1 THEN mem.snap ELSE 1) .. n
        BY <4>2 DEF Read, n
      <4> QED
        BY <3>2, <4>1, <4>3, <4>4
    <3>4. Get(mem.log, n).term = (IF n \in Read THEN mem.full[n].term ELSE 0)
      BY <2>m, <2>r, <3>2, GetAgrees
    <3> QED
      BY <3>1, <3>3, <3>4
  <2>4. ASSUME NEW t \in Term
        PROVE  IF Stored(t) = {}
               THEN FirstIndexForTerm(mem.log, t) = 0 /\ LastIndexWithTerm(mem.log, t) = 0
               ELSE /\ FirstIndexForTerm(mem.log, t) = Min(Stored(t))
                    /\ LastIndexWithTerm(mem.log, t) = Max(Stored(t))
    BY <2>m, <2>r, SearchesAgree
  <2> QED
    BY <2>1, <2>2, <2>3, <2>4, Zenon DEF ReadsAgree, Read
<1> QED
  BY <1>1, StorageInvariance, PTL

\* When no call is being served, the state the last one left in memory is
\* what a restart loads, unless a failed save went unnoticed since: persist
\* and saveSnapshot return before the reply.
THEOREM AnswersAreSaved == Spec => []Durable!AnsweredIsSaved
<1>1. StorageInv => Durable!AnsweredIsSaved
  <2> SUFFICES ASSUME StorageInv, call = Idle, ~failed PROVE Load(Visible).full = mem.full
    BY DEF Durable!AnsweredIsSaved
  <2> QED
    BY Stages DEF StorageInv, CallOK, Unsaved
<1> QED
  BY <1>1, StorageInvariance, PTL

=============================================================================
