----------------------------- MODULE RaftProofs -----------------------------
(***************************************************************************)
(* Machine-checked proofs about module Raft, in four parts:                *)
(*                                                                         *)
(*   I    every variable keeps its type, every message is one a leader     *)
(*        sent, and every step of the full node is a step of Election;     *)
(*   II   Log Matching, Leader Append-Only;                                *)
(*   III  State Machine Safety, Leader Completeness, the durability of     *)
(*        committed entries and the soundness of matchIndex;               *)
(*   IV   the order of the snapshot boundary and the indices around it.    *)
(*                                                                         *)
(* All are for every set of nodes and commands and every bound, with       *)
(* crashes, message loss and reordering.  Parts I and IV also allow quorum *)
(* loss and log compaction; parts II and III are about runs in which no    *)
(* leader loses its quorum and, but for Election Safety and Leader         *)
(* Append-Only, no node compacts.                                          *)
(***************************************************************************)
EXTENDS Raft, ElectionProofs, RaftLogProofs

-----------------------------------------------------------------------------
(* PART I.  Types, messages and the refinement of Election.                *)

\* The logs a node can have, and the assumption that module Election leaves
\* a log free to be any of them.
StoredLog == {l \in Seq(EntryOf(Cmd, Term)) : IsLog(Cmd, Term, l) /\ LastIndex(l) <= MaxIndex}

EveryLogAllowed == StoredLog \subseteq LogSpace

Index == 0 .. MaxIndex

AppendCall == [kind : {"Append"}, from : Node, to : Node, term : Term,
               prevIndex : Index, prevTerm : Term, entries : Seq(EntryOf(Cmd, Term)),
               commit : Index, waiting : BOOLEAN]

InstallCall == [kind : {"Install"}, from : Node, to : Node, term : Term,
                lastIndex : Index, lastTerm : Term, waiting : BOOLEAN]

VariablesOK ==
    /\ log \in [Node -> StoredLog]
    /\ diskLog \in [Node -> StoredLog]
    /\ leaderLog \in [Term -> StoredLog]
    /\ nextIndex \in [Node -> [Node -> 0 .. MaxIndex + 1]]
    /\ matchIndex \in [Node -> [Node -> Index]]
    /\ commitIndex \in [Node -> Index]
    /\ lastApplied \in [Node -> Index]
    /\ snapFile \in [Node -> [index : Index, term : Term]]
    /\ acks \subseteq Node \X Term \X Index

\* A call on the network was sent by a node elected in the call's term, to
\* another node; the entries of an AppendEntries continue its PrevLogIndex.
Sent(m) ==
    /\ m \in AppendCall \cup InstallCall
    /\ m.to # m.from
    /\ <<m.term, m.from>> \in elected
    /\ m \in AppendCall => /\ IsBatch(Cmd, Term, m.prevIndex, m.entries)
                           /\ m.prevIndex + Len(m.entries) <= MaxIndex

\* Only a running process waits for answers.
CallsOK == \A m \in calls : Sent(m) /\ (m.waiting => loaded[m.from])

\* An answer carries a term its sender has reached.
Answered(a) ==
    /\ Sent(a.call)
    /\ a.term \in Term /\ a.conflictTerm \in Term /\ a.conflictIndex \in 0 .. MaxIndex + 1
    /\ a.success \in BOOLEAN

AnswersOK ==
    \A a \in answers :
        Answered(a) /\ a.term <= disk[a.call.to].term /\ loaded[a.call.from]

\* Nobody stands or leads in term 0.
TermsPositive == \A n \in Node : state[n] # Follower => currentTerm[n] # 0

RaftTypeInv == ElectionInv /\ TermsPositive /\ VariablesOK /\ CallsOK /\ AnswersOK

-----------------------------------------------------------------------------
(* What the operations make of a log.                                      *)

\* Terms and indices are natural numbers up to their bounds.
LEMMA Ranges ==
    /\ Term \in SUBSET Nat /\ 0 \in Term /\ Term \subseteq Nat
    /\ Index \subseteq Nat /\ 0 \in Index /\ MaxIndex \in Nat
    /\ \A i \in Nat : i <= MaxIndex => i \in Index
    /\ \A i \in Index : i <= MaxIndex
BY ElectionAssumption, RaftAssumption DEF Term, Index

\* The parts of a log that a node can have.
LEMMA StoredFacts ==
    ASSUME NEW l \in StoredLog
    PROVE  /\ IsLog(Cmd, Term, l)
           /\ LastIndex(l) \in Index /\ SnapshotIndex(l) \in Index
           /\ SnapshotIndex(l) <= LastIndex(l)
           /\ SnapshotTerm(l) \in Term /\ LastTerm(l) \in Term
           /\ LastIndex(l) \in Nat /\ SnapshotIndex(l) \in Nat
<1>1. IsLog(Cmd, Term, l) /\ LastIndex(l) <= MaxIndex
  BY DEF StoredLog
<1>2. /\ SnapshotIndex(l) \in Nat /\ SnapshotTerm(l) \in Term
      /\ LastIndex(l) \in Nat /\ SnapshotIndex(l) <= LastIndex(l)
      /\ LastTerm(l) \in Term
  BY <1>1, Ranges, LogFacts
<1> QED
  BY <1>1, <1>2, Ranges DEF Index

\* A well-formed log within the bound is one a node can have.
LEMMA StoredIntro ==
    ASSUME NEW l, IsLog(Cmd, Term, l), LastIndex(l) <= MaxIndex
    PROVE  l \in StoredLog
BY DEF StoredLog, IsLog

\* Whatever index is read, get answers a term, and zero outside the log.
LEMMA StoredTerm ==
    ASSUME NEW l \in StoredLog, NEW i \in Int
    PROVE  /\ Get(l, i).term \in Term
           /\ Get(l, i).term # 0 => i \in Index /\ SnapshotIndex(l) <= i /\ i <= LastIndex(l)
<1>1. /\ IsLog(Cmd, Term, l) /\ LastIndex(l) \in Index /\ SnapshotIndex(l) \in Nat
      /\ LastIndex(l) \in Nat
  BY StoredFacts
<1>2. CASE SnapshotIndex(l) <= i /\ i <= LastIndex(l)
  <2>1. Get(l, i).term \in Term
    BY <1>1, <1>2, Ranges, GetEntry
  <2>2. i \in Index
    BY <1>1, <1>2, Ranges DEF Index
  <2> QED
    BY <1>2, <2>1, <2>2
<1>3. CASE ~(SnapshotIndex(l) <= i /\ i <= LastIndex(l))
  <2>1. i \notin SnapshotIndex(l) .. LastIndex(l)
    BY <1>3
  <2>2. Get(l, i) = ZeroEntry
    BY <1>1, <2>1, Ranges, GetOutside
  <2> QED
    BY <2>2, Ranges DEF ZeroEntry
<1> QED
  BY <1>2, <1>3

\* A new node's log is one a node can have.
LEMMA EmptyStored == EmptyLog \in StoredLog
<1>1. IsLog(Cmd, Term, EmptyLog) /\ LastIndex(EmptyLog) = 0
  BY Ranges, EmptyLogFacts
<1>2. LastIndex(EmptyLog) <= MaxIndex
  BY <1>1, Ranges
<1> QED
  BY <1>1, <1>2, StoredIntro

\* Submit's log: one entry more.
LEMMA SubmittedLog ==
    ASSUME NEW l \in StoredLog, LastIndex(l) < MaxIndex, NEW t \in Term, t # 0, NEW c \in Cmd
    PROVE  LET e == [term |-> t, index |-> LastIndex(l) + 1, cmd |-> c]
               m == l \o <<e>>
           IN  /\ m \in StoredLog
               /\ SnapshotIndex(m) = SnapshotIndex(l)
               /\ LastIndex(m) = LastIndex(l) + 1
               /\ Get(m, LastIndex(l) + 1) = e
               /\ \A i \in SnapshotIndex(l) .. LastIndex(l) : Get(m, i) = Get(l, i)
<1> DEFINE e == [term |-> t, index |-> LastIndex(l) + 1, cmd |-> c]
           m == l \o <<e>>
<1>1. IsLog(Cmd, Term, l) /\ LastIndex(l) \in Nat
  BY StoredFacts
<1>2. /\ e \in EntryOf(Cmd, Term) /\ e.index = LastIndex(l) + 1 /\ e.term # 0
      /\ e.cmd \in Cmd
  BY <1>1 DEF EntryOf
<1> HIDE DEF e
<1>3. /\ IsLog(Cmd, Term, m)
      /\ SnapshotIndex(m) = SnapshotIndex(l)
      /\ LastIndex(m) = LastIndex(l) + 1
      /\ Get(m, LastIndex(l) + 1) = e
      /\ \A i \in SnapshotIndex(l) .. LastIndex(l) : Get(m, i) = Get(l, i)
  BY <1>1, <1>2, Ranges, AppendOne
<1> HIDE DEF m
<1>4. LastIndex(m) <= MaxIndex
  BY <1>1, <1>3, Ranges
<1>5. m \in StoredLog
  BY <1>3, <1>4, StoredIntro
<1> QED
  BY <1>3, <1>5 DEF e, m

\* compactTo leaves a well-formed log, for any boundary and term.
LEMMA CompactedLog ==
    ASSUME NEW l \in StoredLog, NEW i \in Index, NEW t \in Term
    PROVE  CompactTo(l, i, t) \in StoredLog
<1>1. IsLog(Cmd, Term, l) /\ LastIndex(l) \in Index /\ SnapshotIndex(l) \in Nat /\ i \in Nat
  BY StoredFacts, Ranges
<1>2. CASE i <= SnapshotIndex(l)
  BY <1>2 DEF CompactTo
<1>3. CASE i > SnapshotIndex(l)
  <2> DEFINE m == CompactTo(l, i, t)
  <2>0. Term \in SUBSET Nat
    BY Ranges
  <2>1. IsLog(Cmd, Term, m)
    BY <1>1, <1>3, <2>0, CompactToFacts
  <2>4. LastIndex(m) = IF i <= LastIndex(l) THEN LastIndex(l) ELSE i
    BY <1>1, <1>3, <2>0, CompactToFacts
  <2> HIDE DEF m
  <2>2. LastIndex(m) <= MaxIndex
    BY <1>1, <2>4, Ranges
  <2>3. m \in StoredLog
    BY <2>1, <2>2, StoredIntro
  <2> QED
    BY <2>3 DEF m
<1> QED
  BY <1>1, <1>2, <1>3

\* HandleAppendEntries' log.
LEMMA MergedLog ==
    ASSUME NEW l \in StoredLog, NEW p \in Index, p <= LastIndex(l), NEW es,
           IsBatch(Cmd, Term, p, es), p + Len(es) <= MaxIndex
    PROVE  LET m == AppendBatch(l, es) IN
           m \in StoredLog /\ MergeResult(l, p, es, m)
<1> DEFINE m == AppendBatch(l, es)
<1>0. Term \in SUBSET Nat /\ p \in Nat
  BY Ranges
<1>1. IsLog(Cmd, Term, l) /\ LastIndex(l) \in Index
  BY StoredFacts
<1>2. IsLog(Cmd, Term, m)
  BY <1>0, <1>1, AppendBatchFacts
<1>4. MergeResult(l, p, es, m)
  BY <1>0, <1>1, AppendBatchFacts
<1> HIDE DEF m
<1>5. LastIndex(m) <= MaxIndex
  <2>1. CASE m = l
    BY <1>1, <2>1, Ranges
  <2>2. CASE \E k \in 1 .. Len(es) : MergedAt(l, p, es, k, m)
    BY <2>2 DEF MergedAt
  <2> QED
    BY <1>4, <2>1, <2>2 DEF MergeResult
<1>6. m \in StoredLog
  BY <1>2, <1>5, StoredIntro
<1> QED
  BY <1>4, <1>6 DEF m

\* maybeCommit's index: some replicated index that a majority has reached.
LEMMA QuorumIndexFacts ==
    ASSUME NEW n \in Node, NEW match \in [Node -> Index], log[n] \in StoredLog
    PROVE  LET I == [p \in Node |-> IF p = n THEN LastIndex(log[n]) ELSE match[p]]
               q == QuorumIndex(n, match)
           IN  /\ q \in Index
               /\ Cardinality({p \in Node : I[p] >= q}) >= Majority
<1> DEFINE I == [p \in Node |-> IF p = n THEN LastIndex(log[n]) ELSE match[p]]
           q == QuorumIndex(n, match)
           R == {I[p] : p \in Node}
           AtLeast(i) == {p \in Node : I[p] >= i}
           Above(i) == {p \in Node : I[p] > i}
<1> USE ElectionAssumption
<1>1. I \in [Node -> Index]
  <2>1. LastIndex(log[n]) \in Index
    BY StoredFacts
  <2> QED
    BY <2>1
<1> HIDE DEF I
<1>2. R \in SUBSET Nat /\ R # {} /\ \A x \in R : x \in Index /\ x <= MaxIndex
  <2>1. ASSUME NEW x \in R PROVE x \in Index /\ x \in Nat /\ x <= MaxIndex
    <3>1. x \in Index
      BY <1>1
    <3> QED
      BY <3>1, Ranges
  <2>2. I[n] \in R
    OBVIOUS
  <2> HIDE DEF R
  <2> QED
    BY <2>1, <2>2
<1>3. /\ Cardinality(Node) \in Nat /\ Cardinality(Node) >= 1 /\ Majority <= Cardinality(Node)
      /\ Majority \in Nat
  <2>1. Cardinality(Node) \in Nat
    BY FS_CardinalityType
  <2>2. Cardinality(Node) # 0
    BY FS_EmptySet
  <2> QED
    BY <2>1, <2>2 DEF Majority
<1> DEFINE Good == {i \in R : Cardinality(AtLeast(i)) >= Majority}
<1>4. Good # {}
  <2> DEFINE least == Min(R)
  <2>1. least \in R /\ \A x \in R : least <= x
    BY <1>2, NatMin
  <2>2. AtLeast(least) = Node
    <3>1. ASSUME NEW p \in Node PROVE I[p] >= least
      <4>1. I[p] \in R /\ I[p] \in Nat /\ least \in Nat
        BY <1>2, <2>1
      <4>2. least <= I[p]
        BY <2>1, <4>1
      <4> HIDE DEF least, R
      <4> QED
        BY <4>1, <4>2
    <3> QED
      BY <3>1
  <2> HIDE DEF AtLeast, least, R
  <2>3. Cardinality(AtLeast(least)) >= Majority
    BY <1>3, <2>2
  <2> QED
    BY <2>1, <2>3
<1> DEFINE i == Max(Good)
<1>5. i \in Good /\ \A x \in Good : x <= i
  <2>1. Good \in SUBSET Nat /\ \A x \in Good : x <= MaxIndex
    BY <1>2
  <2> HIDE DEF Good
  <2> QED
    BY <1>4, <2>1, Ranges, NatMax
<1>6. ASSUME Cardinality(Above(i)) >= Majority PROVE FALSE
  <2> DEFINE B == {I[p] : p \in Above(i)}
             j == Min(B)
  <2>0. i \in Nat
    <3>1. i \in R
      BY <1>5
    <3> QED
      BY <1>2, <3>1
  <2>1. Above(i) # {}
    <3>1. Majority >= 1
      BY <1>3 DEF Majority
    <3> HIDE DEF Above, i
    <3>2. Cardinality(Above(i)) # 0
      BY <1>3, <1>6, <3>1
    <3> QED
      BY <3>2, FS_EmptySet
  <2>2. B \in SUBSET Nat /\ B # {}
    <3>1. B \subseteq R
      BY DEF Above
    <3>2. PICK p \in Above(i) : TRUE
      BY <2>1
    <3>3. I[p] \in B
      BY <3>2
    <3> HIDE DEF B
    <3> QED
      BY <1>2, <3>1, <3>3
  <2>3. j \in B /\ \A x \in B : j <= x
    <3> HIDE DEF B
    <3> QED
      BY <2>2, NatMin
  <2>4. j \in R /\ j > i /\ j \in Nat
    BY <1>2, <2>2, <2>3
  <2>5. Above(i) \subseteq AtLeast(j)
    <3>1. ASSUME NEW p \in Above(i) PROVE p \in AtLeast(j)
      <4>1. I[p] \in B /\ p \in Node
        OBVIOUS
      <4>2. j <= I[p] /\ I[p] \in Nat
        BY <2>2, <2>3, <4>1
      <4> HIDE DEF j, B, i
      <4> QED
        BY <2>4, <4>1, <4>2
    <3> QED
      BY <3>1
  <2>6. Cardinality(Above(i)) <= Cardinality(AtLeast(j))
    <3>1. IsFiniteSet(AtLeast(j))
      BY FS_Subset
    <3> HIDE DEF AtLeast, Above, i, j
    <3> QED
      BY <2>5, <3>1, FS_Subset
  <2>7. Cardinality(AtLeast(j)) >= Majority
    <3>1. Cardinality(AtLeast(j)) \in Nat /\ Cardinality(Above(i)) \in Nat
      <4>1. IsFiniteSet(AtLeast(j)) /\ IsFiniteSet(Above(i))
        BY FS_Subset
      <4> HIDE DEF AtLeast, Above, i, j
      <4> QED
        BY <4>1, FS_CardinalityType
    <3> HIDE DEF AtLeast, Above, i, j
    <3> QED
      BY <1>3, <1>6, <2>6, <3>1
  <2>8. j \in Good
    BY <2>4, <2>7
  <2>9. j <= i
    BY <1>5, <2>8
  <2> HIDE DEF i, j
  <2> QED
    BY <2>0, <2>4, <2>9
<1>7. i \in R /\ Cardinality(AtLeast(i)) >= Majority /\ Cardinality(Above(i)) < Majority
  <2>1. i \in R /\ Cardinality(AtLeast(i)) >= Majority
    BY <1>5
  <2>2. IsFiniteSet(Above(i))
    BY FS_Subset
  <2> HIDE DEF AtLeast, Above, i
  <2>3. Cardinality(Above(i)) \in Nat
    BY <2>2, FS_CardinalityType
  <2> QED
    BY <1>3, <1>6, <2>1, <2>3
<1>8. q = CHOOSE x \in R : Cardinality(AtLeast(x)) >= Majority /\ Cardinality(Above(x)) < Majority
  BY DEF QuorumIndex, I
<1> HIDE DEF i, R, AtLeast, Above, q
<1>9. q \in R /\ Cardinality(AtLeast(q)) >= Majority
  BY <1>7, <1>8
<1> QED
  BY <1>2, <1>9 DEF AtLeast, I, q

\* What BuildArgs puts on the network.
LEMMA BuiltCall ==
    ASSUME VariablesOK, NEW n \in Node, NEW l \in StoredLog, NEW p \in Peers(n),
           currentTerm[n] \in Term, <<currentTerm[n], n>> \in elected
    PROVE  /\ Sent(BuildArgs(n, l, p))
           /\ BuildArgs(n, l, p).from = n
<1>0. /\ Term \in SUBSET Nat /\ MaxIndex \in Nat
      /\ p \in Node /\ p # n
      /\ nextIndex[n][p] \in 0 .. MaxIndex + 1 /\ commitIndex[n] \in Index
  BY Ranges DEF VariablesOK, Peers
<1>1. /\ IsLog(Cmd, Term, l) /\ LastIndex(l) \in Index /\ LastIndex(l) \in Nat
      /\ SnapshotIndex(l) \in Nat /\ SnapshotIndex(l) \in Index /\ SnapshotTerm(l) \in Term
  BY StoredFacts
<1>2. CASE nextIndex[n][p] <= SnapshotIndex(l)
  BY <1>0, <1>1, <1>2 DEF BuildArgs, Sent, InstallCall, AppendCall
<1>3. CASE ~(nextIndex[n][p] <= SnapshotIndex(l))
  <2> DEFINE from == nextIndex[n][p]
             es == Slice(l, from, LastIndex(l) + 1)
  <2>1. from \in Nat /\ from > SnapshotIndex(l) /\ from - 1 \in Index /\ from - 1 \in Int
    BY <1>0, <1>1, <1>3 DEF Index
  <2> HIDE DEF from
  <2>2. IsBatch(Cmd, Term, from - 1, es)
    BY <1>0, <1>1, <2>1, SliceFacts
  <2>3. Len(es) = IF from <= LastIndex(l) THEN LastIndex(l) - from + 1 ELSE 0
    BY <1>0, <1>1, <2>1, SliceFacts
  <2>4. Get(l, from - 1).term \in Term
    BY <2>1, StoredTerm
  <2> HIDE DEF es
  <2>5. from - 1 + Len(es) <= MaxIndex
    BY <1>0, <1>1, <2>1, <2>3 DEF Index
  <2>6. BuildArgs(n, l, p)
          = [kind |-> "Append", from |-> n, to |-> p, term |-> currentTerm[n],
             prevIndex |-> from - 1, prevTerm |-> Get(l, from - 1).term,
             entries |-> es, commit |-> commitIndex[n], waiting |-> TRUE]
    BY <1>3 DEF BuildArgs, from, es
  <2>7. es \in Seq(EntryOf(Cmd, Term))
    BY <2>2 DEF IsBatch
  <2> QED
    BY <1>0, <2>1, <2>2, <2>4, <2>5, <2>6, <2>7 DEF Sent, AppendCall, InstallCall
<1> QED
  BY <1>2, <1>3

-----------------------------------------------------------------------------
(* Every step is a step of Election.                                       *)

\* What the invariant says of one node.
LEMMA NodeFacts ==
    ASSUME RaftTypeInv, NEW n \in Node
    PROVE  /\ log[n] \in StoredLog /\ diskLog[n] \in StoredLog
           /\ currentTerm[n] \in Term /\ currentTerm[n] \in Nat
           /\ disk[n].term \in Term /\ disk[n].term \in Nat
           /\ commitIndex[n] \in Index /\ lastApplied[n] \in Index
           /\ snapFile[n].index \in Index /\ snapFile[n].term \in Term
           /\ loaded[n] => disk[n].term = currentTerm[n]
           /\ state[n] = Leader => /\ loaded[n] /\ <<currentTerm[n], n>> \in elected
                                   /\ currentTerm[n] # 0
<1>1. /\ log[n] \in StoredLog /\ diskLog[n] \in StoredLog
      /\ commitIndex[n] \in Index /\ lastApplied[n] \in Index
      /\ snapFile[n].index \in Index /\ snapFile[n].term \in Term
  BY DEF RaftTypeInv, VariablesOK
<1>2. currentTerm[n] \in Term /\ disk[n].term \in Term
  BY DEF RaftTypeInv, ElectionInv, TypeOK
<1>3. loaded[n] => disk[n].term = currentTerm[n]
  BY DEF RaftTypeInv, ElectionInv, DiskInSync
<1>4. state[n] = Leader => loaded[n]
  BY DEF RaftTypeInv, ElectionInv, TypeOK, Booting, Leader, Follower
<1>5. state[n] = Leader => <<currentTerm[n], n>> \in elected
  BY DEF RaftTypeInv, ElectionInv, LeaderElected
<1>6. state[n] = Leader => currentTerm[n] # 0
  BY DEF RaftTypeInv, TermsPositive, Leader, Follower
<1>7. currentTerm[n] \in Nat /\ disk[n].term \in Nat
  BY <1>2, Ranges
<1> QED
  BY <1>1, <1>2, <1>3, <1>4, <1>5, <1>6, <1>7

\* What the invariant says of one call on the network.
LEMMA CallFacts ==
    ASSUME NEW m, Sent(m), TypeOK
    PROVE  /\ m.from \in Node /\ m.to \in Node /\ m.to # m.from
           /\ m.term \in Term /\ m.term \in Nat /\ m.waiting \in BOOLEAN
           /\ <<m.term, m.from>> \in elected
           /\ m.kind = "Append" => /\ m.prevIndex \in Index /\ m.prevTerm \in Term
                                   /\ m.commit \in Index
                                   /\ IsBatch(Cmd, Term, m.prevIndex, m.entries)
                                   /\ m.prevIndex + Len(m.entries) <= MaxIndex
           /\ m.kind = "Install" => m.lastIndex \in Index /\ m.lastTerm \in Term
<1>0. m.term \in Term => m.term \in Nat
  BY Ranges
<1>1. m.to # m.from /\ <<m.term, m.from>> \in elected
  BY DEF Sent
<1>2. CASE m \in AppendCall
  <2>1. /\ m.from \in Node /\ m.to \in Node /\ m.term \in Term /\ m.waiting \in BOOLEAN
        /\ m.prevIndex \in Index /\ m.prevTerm \in Term /\ m.commit \in Index
        /\ m.kind = "Append"
    BY <1>2 DEF AppendCall
  <2>2. /\ IsBatch(Cmd, Term, m.prevIndex, m.entries)
        /\ m.prevIndex + Len(m.entries) <= MaxIndex
    BY <1>2 DEF Sent
  <2> QED
    BY <1>0, <1>1, <2>1, <2>2
<1>3. CASE m \in InstallCall
  <2>1. /\ m.from \in Node /\ m.to \in Node /\ m.term \in Term /\ m.waiting \in BOOLEAN
        /\ m.kind = "Install" /\ m.lastIndex \in Index /\ m.lastTerm \in Term
    BY <1>3 DEF InstallCall
  <2> QED
    BY <1>0, <1>1, <2>1
<1> QED
  BY <1>2, <1>3 DEF Sent

\* An accepted call's PrevLogIndex is in the log.
LEMMA AcceptedLog ==
    ASSUME RaftTypeInv, NEW m \in calls, NEW d \in BOOLEAN, AcceptAppendEntries(m, d)
    PROVE  LET l == AppendBatch(log[m.to], m.entries)
           IN  /\ l \in StoredLog /\ MergeResult(log[m.to], m.prevIndex, m.entries, l)
               /\ m.prevIndex <= LastIndex(log[m.to])
<1>1. Sent(m) /\ TypeOK /\ m.kind = "Append"
  BY DEF RaftTypeInv, ElectionInv, CallsOK, AcceptAppendEntries
<1>2. /\ m.to \in Node /\ m.prevIndex \in Index
      /\ IsBatch(Cmd, Term, m.prevIndex, m.entries)
      /\ m.prevIndex + Len(m.entries) <= MaxIndex
  BY <1>1, CallFacts
<1>3. log[m.to] \in StoredLog
  BY <1>2, NodeFacts
<1>4. m.prevIndex \in Nat /\ m.prevIndex \in Int /\ LastIndex(log[m.to]) \in Nat
  <2>1. m.prevIndex \in Nat
    BY <1>2, Ranges
  <2>2. LastIndex(log[m.to]) \in Nat
    BY <1>3, StoredFacts
  <2> QED
    BY <2>1, <2>2
<1>5. m.prevIndex <= LastIndex(log[m.to])
  <2>1. CASE m.prevIndex = 0
    BY <1>4, <2>1
  <2>2. CASE m.prevIndex # 0
    <3>1. Get(log[m.to], m.prevIndex).term # 0
      BY <1>4, <2>2 DEF AcceptAppendEntries, PrevMissing
    <3> QED
      BY <1>3, <1>4, <3>1, StoredTerm
  <2> QED
    BY <2>1, <2>2
<1> DEFINE l == log[m.to]
           p == m.prevIndex
           es == m.entries
<1>6. /\ l \in StoredLog /\ p \in Index /\ IsBatch(Cmd, Term, p, es)
      /\ p <= LastIndex(l) /\ p + Len(es) <= MaxIndex
  BY <1>2, <1>3, <1>5
<1> HIDE DEF l, p, es
<1>7. AppendBatch(l, es) \in StoredLog
  BY <1>6, MergedLog
<1>8. MergeResult(l, p, es, AppendBatch(l, es))
  BY <1>6, MergedLog
<1> QED
  BY <1>6, <1>7, <1>8 DEF l, p, es

\* Every step of the detailed node is a step of Election or leaves its
\* variables alone.
LEMMA StepRefines ==
    ASSUME ~BootWindow, EveryLogAllowed, RaftTypeInv, [Next]_raftVars
    PROVE  [ElectionNext]_electionVars
<1>0. TypeOK /\ StoredLog \subseteq LogSpace
  BY DEF RaftTypeInv, ElectionInv, EveryLogAllowed
<1>a. ASSUME NEW m \in calls
      PROVE  /\ m.to \in Node /\ <<m.term, m.from>> \in elected /\ m.from # m.to
             /\ log[m.to] \in StoredLog
  <2>1. Sent(m)
    BY DEF RaftTypeInv, CallsOK
  <2> QED
    BY <1>0, <2>1, CallFacts, NodeFacts
<1>b. ASSUME NEW m \in calls, NEW l \in StoredLog, NEW b \in BOOLEAN,
             ObserveLeader(m.to, m.term, m.from, b), log' = [log EXCEPT ![m.to] = l]
      PROVE  ElectionNext
  <2> DEFINE e == <<m.term, m.from>>
  <2>1. e \in elected /\ e[1] = m.term /\ e[2] = m.from /\ m.to \in Node
    BY <1>a
  <2>2. HearFromLeader(m.to, e, b)
    BY <1>0, <1>a, <1>b DEF HearFromLeader, SomeLog
  <2> QED
    BY <2>1, <2>2 DEF ElectionNext, QuorateNext
<1>c. ASSUME NEW m \in calls, UNCHANGED log
      PROVE  log' = [log EXCEPT ![m.to] = log[m.to]]
  BY <1>0, <1>a, <1>c DEF TypeOK
<1>1. ASSUME NEW n \in Node, RaftBecomeCandidate(n) PROVE ElectionNext
  BY <1>1 DEF RaftBecomeCandidate, ElectionNext, QuorateNext
<1>2. ASSUME NEW n \in Node, NEW S \in SUBSET Peers(n), RaftStartElection(n, S)
      PROVE  ElectionNext
  BY <1>2 DEF RaftStartElection, ElectionNext, QuorateNext
<1>3. ASSUME NEW m \in requests, NEW d \in BOOLEAN, RaftHandleRequestVote(m, d)
      PROVE  ElectionNext
  BY <1>3 DEF RaftHandleRequestVote, ElectionNext, QuorateNext
<1>4. ASSUME NEW r \in replies, RaftStepDownOnVoteReply(r) PROVE ElectionNext
  BY <1>4 DEF RaftStepDownOnVoteReply, ElectionNext, QuorateNext
<1>5. ASSUME NEW r \in replies, RaftCountVote(r) PROVE ElectionNext
  BY <1>5 DEF RaftCountVote, ElectionNext, QuorateNext
<1>6. ASSUME NEW n \in Node, NEW S \in SUBSET Peers(n), SendHeartbeats(n, S)
      PROVE  UNCHANGED electionVars
  BY <1>6 DEF SendHeartbeats
<1>7. ASSUME NEW n \in Node, NEW S \in SUBSET Peers(n), TickWithoutQuorum(n, S)
      PROVE  ElectionNext
  BY <1>7 DEF TickWithoutQuorum, ElectionNext
<1>8. ASSUME NEW n \in Node, NEW c \in Cmd, NEW S \in SUBSET Peers(n), Submit(n, c, S)
      PROVE  ElectionNext
  <2> DEFINE l == log[n] \o <<[term |-> currentTerm[n], index |-> LastIndex(log[n]) + 1,
                               cmd |-> c]>>
  <2>1. /\ log[n] \in StoredLog /\ LastIndex(log[n]) < MaxIndex
        /\ currentTerm[n] \in Term /\ currentTerm[n] # 0
    BY <1>8, NodeFacts DEF Submit
  <2>2. l \in StoredLog
    BY <2>1, SubmittedLog
  <2>3. OnlyLogChanges(n) /\ log' = [log EXCEPT ![n] = l]
    BY <1>8 DEF Submit
  <2> HIDE DEF l
  <2> QED
    BY <1>0, <2>2, <2>3 DEF SomeLog, ElectionNext, QuorateNext
<1>9. ASSUME NEW m \in calls, NEW d \in BOOLEAN, HandleStaleCall(m, d)
      PROVE  UNCHANGED electionVars
  BY <1>9 DEF HandleStaleCall
<1>10. ASSUME NEW m \in calls, NEW d \in BOOLEAN, RejectAppendEntries(m, d)
       PROVE  ElectionNext
  <2>1. ObserveLeader(m.to, m.term, m.from, TRUE) /\ UNCHANGED log
    BY <1>10 DEF RejectAppendEntries
  <2> QED
    BY <1>a, <1>b, <1>c, <2>1
<1>11. ASSUME NEW m \in calls, NEW d \in BOOLEAN, AcceptAppendEntries(m, d)
       PROVE  ElectionNext
  <2> DEFINE l == AppendBatch(log[m.to], m.entries)
  <2>1. ObserveLeader(m.to, m.term, m.from, TRUE) /\ log' = [log EXCEPT ![m.to] = l]
    BY <1>11 DEF AcceptAppendEntries
  <2>2. l \in StoredLog
    BY <1>11, AcceptedLog
  <2> HIDE DEF l
  <2> QED
    BY <1>b, <2>1, <2>2
<1>12. ASSUME NEW m \in calls, NEW d \in BOOLEAN, IgnoreSnapshot(m, d)
       PROVE  ElectionNext
  <2>1. ObserveLeader(m.to, m.term, m.from, FALSE) /\ UNCHANGED log
    BY <1>12 DEF IgnoreSnapshot
  <2> QED
    BY <1>a, <1>b, <1>c, <2>1
<1>13. ASSUME NEW m \in calls, NEW d \in BOOLEAN, InstallSnapshot(m, d)
       PROVE  ElectionNext
  <2> DEFINE l == CompactTo(log[m.to], m.lastIndex, m.lastTerm)
  <2>1. /\ ObserveLeader(m.to, m.term, m.from, FALSE) /\ log' = [log EXCEPT ![m.to] = l]
        /\ m.kind = "Install"
    BY <1>13 DEF InstallSnapshot
  <2>2. m.lastIndex \in Index /\ m.lastTerm \in Term
    <3>1. Sent(m)
      BY DEF RaftTypeInv, CallsOK
    <3> QED
      BY <1>0, <2>1, <3>1, CallFacts
  <2>3. l \in StoredLog
    BY <1>a, <2>2, CompactedLog
  <2> HIDE DEF l
  <2> QED
    BY <1>b, <2>1, <2>3
<1>14. ASSUME NEW a \in answers, StepDownOnAnswer(a) PROVE ElectionNext
  <2> DEFINE n == a.call.from
  <2>1. /\ Sent(a.call) /\ a.term \in Term
        /\ a.term <= disk[a.call.to].term /\ loaded[n]
    BY DEF RaftTypeInv, AnswersOK, Answered
  <2>2. /\ n \in Node /\ a.call.to \in Node /\ a.call.to # n
        /\ <<a.call.term, n>> \in elected
    BY <1>0, <2>1, CallFacts
  <2>3. StepDownOnPeerReply(n, a.term)
    <3>1. \E e \in elected : e[2] = n
      BY <2>2
    <3>2. \E p \in Peers(n) : a.term <= disk[p].term
      BY <2>1, <2>2 DEF Peers
    <3> QED
      BY <1>14, <2>1, <3>1, <3>2 DEF StepDownOnPeerReply, StepDownOnAnswer
  <2> QED
    BY <2>1, <2>2, <2>3 DEF ElectionNext, QuorateNext
<1>15. ASSUME NEW a \in answers, CurrentAnswer(a) PROVE UNCHANGED electionVars
  BY <1>15 DEF CurrentAnswer
<1>16. ASSUME NEW n \in Node, ApplyEntry(n) PROVE UNCHANGED electionVars
  BY <1>16 DEF ApplyEntry
<1>17. ASSUME NEW n \in Node, TakeSnapshot(n) PROVE ElectionNext
  <2> DEFINE lg == log[n]
             i == lastApplied[n]
             t == Get(lg, i).term
             l == CompactTo(lg, i, t)
  <2>0. lg \in StoredLog /\ i \in Index
    BY NodeFacts
  <2> HIDE DEF lg, i
  <2>1. i \in Int
    BY <2>0, Ranges
  <2>2. t \in Term
    BY <2>0, <2>1, StoredTerm
  <2> HIDE DEF t
  <2>3. l \in StoredLog
    BY <2>0, <2>2, CompactedLog
  <2>4. OnlyLogChanges(n) /\ log' = [log EXCEPT ![n] = l]
    BY <1>17 DEF TakeSnapshot, SnapshotAt, lg, i, t
  <2> HIDE DEF l
  <2> QED
    BY <1>0, <2>3, <2>4 DEF SomeLog, ElectionNext, QuorateNext
<1>18. ASSUME NEW n \in Node, RaftRestart(n) \/ CrashInTakeSnapshot(n) PROVE ElectionNext
  BY <1>18 DEF RaftRestart, CrashInTakeSnapshot, ElectionNext, QuorateNext
<1>19. ASSUME NEW m \in requests, RaftCrashInHandleRequestVote(m) PROVE ElectionNext
  BY <1>19 DEF RaftCrashInHandleRequestVote, ElectionNext, QuorateNext
<1>20. ASSUME NEW n \in Node, RaftLoadState(n) PROVE ElectionNext
  <2> DEFINE l == CompactTo(diskLog[n], snapFile[n].index, snapFile[n].term)
  <2>1. l \in StoredLog
    <3> DEFINE dl == diskLog[n]
               i == snapFile[n].index
               t == snapFile[n].term
    <3>1. dl \in StoredLog /\ i \in Index /\ t \in Term
      BY NodeFacts
    <3> HIDE DEF dl, i, t
    <3>2. CompactTo(dl, i, t) \in StoredLog
      BY <3>1, CompactedLog
    <3> QED
      BY <3>2 DEF dl, i, t
  <2>2. LoadState(n) /\ log' = [log EXCEPT ![n] = l]
    BY <1>20 DEF RaftLoadState
  <2> HIDE DEF l
  <2> QED
    BY <1>0, <2>1, <2>2 DEF SomeLog, ElectionNext, QuorateNext
<1>21. ASSUME UNCHANGED raftVars PROVE UNCHANGED electionVars
  BY <1>21 DEF raftVars
<1> QED
  BY <1>1, <1>2, <1>3, <1>4, <1>5, <1>6, <1>7, <1>8, <1>9, <1>10, <1>11, <1>12, <1>13, <1>14,
     <1>15, <1>16, <1>17, <1>18, <1>19, <1>20, <1>21
  DEF Next, HandleAccepted, HandleRejected, HandleInstalled

-----------------------------------------------------------------------------
(* The type invariant is preserved.                                        *)

\* Candidates and leaders have a term above zero.
LEMMA PositiveStep ==
    ASSUME ~BootWindow, ElectionInv, TermsPositive, [ElectionNext]_electionVars
    PROVE  TermsPositive'
<1> USE ElectionAssumption
<1>0. \A n \in Node : currentTerm[n] \in Nat
  BY DEF ElectionInv, TypeOK, Term
<1>a. ASSUME NEW k \in Node, \A n \in Node : n # k => state'[n] = state[n] /\ currentTerm'[n] = currentTerm[n],
             \/ state'[k] = Follower
             \/ state'[k] # Follower /\ currentTerm'[k] # 0
      PROVE  TermsPositive'
  BY <1>a DEF TermsPositive
<1>b. ASSUME UNCHANGED <<state, currentTerm>> PROVE TermsPositive'
  BY <1>b DEF TermsPositive
<1>t. state \in [Node -> {Follower, Candidate, Leader}] /\ currentTerm \in [Node -> Term]
  BY DEF ElectionInv, TypeOK
<1>c. ASSUME NEW k \in Node, NEW s, NEW t,
             state' = [state EXCEPT ![k] = s], currentTerm' = [currentTerm EXCEPT ![k] = t],
             s = Follower \/ t # 0
      PROVE  TermsPositive'
  BY <1>c, <1>t, <1>a
<1>1. ASSUME NEW n \in Node, BecomeCandidate(n) PROVE TermsPositive'
  <2>1. currentTerm[n] + 1 # 0
    BY <1>0
  <2> QED
    BY <1>1, <1>c, <2>1 DEF BecomeCandidate
<1>2. ASSUME NEW n \in Node, NEW S \in SUBSET Peers(n), StartElection(n, S) PROVE TermsPositive'
  BY <1>2, <1>b DEF StartElection, nodeVars
<1>3. ASSUME NEW m \in requests, NEW d \in BOOLEAN, HandleRequestVote(m, d) PROVE TermsPositive'
  <2>1. m.to \in Node
    BY DEF ElectionInv, TypeOK, Request
  <2>2. CASE HigherTerm(m)
    BY <1>3, <1>c, <2>1, <2>2 DEF HandleRequestVote
  <2>3. CASE ~HigherTerm(m)
    <3>1. /\ state' = [state EXCEPT ![m.to] = state[m.to]]
          /\ currentTerm' = [currentTerm EXCEPT ![m.to] = currentTerm[m.to]]
      BY <1>3, <2>3 DEF HandleRequestVote
    <3> QED
      BY <1>c, <2>1, <3>1 DEF TermsPositive
  <2> QED
    BY <2>2, <2>3
<1>4. ASSUME NEW r \in replies, StepDownOnVoteReply(r) PROVE TermsPositive'
  <2>1. r.cand \in Node
    BY DEF ElectionInv, TypeOK, Reply
  <2> QED
    BY <1>4, <1>c, <2>1 DEF StepDownOnVoteReply, BecomeFollower
<1>5. ASSUME NEW r \in replies, CountVote(r) PROVE TermsPositive'
  <2>1. r.cand \in Node
    BY DEF ElectionInv, TypeOK, Reply
  <2>2. state[r.cand] = Candidate
    BY <1>5 DEF CountVote, CountsFor
  <2>3. currentTerm[r.cand] # 0
    BY <2>1, <2>2 DEF TermsPositive, Candidate, Follower
  <2>4. \A n \in Node : currentTerm'[n] = currentTerm[n] /\ (n # r.cand => state'[n] = state[n])
    BY <1>5, <1>t DEF CountVote
  <2> QED
    BY <2>1, <2>3, <2>4 DEF TermsPositive
<1>6. ASSUME NEW n \in Node, CheckQuorum(n) PROVE TermsPositive'
  BY <1>6, <1>c DEF CheckQuorum, BecomeFollower
<1>7. ASSUME NEW n \in Node, NEW e \in elected, NEW a \in BOOLEAN, HearFromLeader(n, e, a)
      PROVE  TermsPositive'
  <2>0. e[1] \in Nat
    BY DEF ElectionInv, TypeOK, Term
  <2>1. ObserveLeader(n, e[1], e[2], a)
    BY <1>7 DEF HearFromLeader
  <2>2. CASE e[1] > currentTerm[n]
    BY <1>c, <2>1, <2>2 DEF ObserveLeader
  <2>3. CASE ~(e[1] > currentTerm[n])
    <3>1. e[1] = currentTerm[n]
      BY <1>0, <2>0, <2>1, <2>3 DEF ObserveLeader
    <3>2. \A k \in Node : /\ currentTerm'[k] = currentTerm[k]
                          /\ state'[k] = Follower \/ state'[k] = state[k]
      BY <1>t, <2>1, <2>3, <3>1 DEF ObserveLeader
    <3> QED
      BY <3>2 DEF TermsPositive
  <2> QED
    BY <2>2, <2>3
<1>8. ASSUME NEW n \in Node, NEW t \in Term, StepDownOnPeerReply(n, t) PROVE TermsPositive'
  BY <1>8, <1>c DEF StepDownOnPeerReply, BecomeFollower
<1>9. ASSUME NEW n \in Node, OnlyLogChanges(n), SomeLog(n) PROVE TermsPositive'
  BY <1>9, <1>b DEF OnlyLogChanges, nodeVars
<1>10. ASSUME NEW n \in Node, Restart(n) PROVE TermsPositive'
  BY <1>10, <1>c DEF Restart, FreshMemory
<1>11. ASSUME NEW m \in requests, CrashInHandleRequestVote(m) PROVE TermsPositive'
  <2>1. m.to \in Node
    BY DEF ElectionInv, TypeOK, Request
  <2> QED
    BY <1>11, <1>c, <2>1 DEF CrashInHandleRequestVote, FreshMemory
<1>12. ASSUME NEW n \in Node, LoadState(n), SomeLog(n) PROVE TermsPositive'
  <2>1. state[n] = Follower
    BY <1>12 DEF LoadState, ElectionInv, Booting
  <2>2. /\ state' = [state EXCEPT ![n] = Follower]
        /\ currentTerm' = [currentTerm EXCEPT ![n] = disk[n].term]
    BY <1>12, <1>t, <2>1 DEF LoadState
  <2> QED
    BY <1>c, <2>2
<1>13. ASSUME UNCHANGED electionVars PROVE TermsPositive'
  BY <1>13, <1>b DEF electionVars, nodeVars
<1> QED
  BY <1>1, <1>2, <1>3, <1>4, <1>5, <1>6, <1>7, <1>8, <1>9, <1>10, <1>11, <1>12, <1>13
  DEF ElectionNext, QuorateNext

\* What a peer's answers make of the leader's two indices.
LEMMA TrackingIndices ==
    ASSUME RaftTypeInv, NEW a \in answers
    PROVE  LET n == a.call.from
               p == a.call.to
           IN  /\ a.call.kind = "Append" =>
                     /\ MatchAfterAccept(n, a) \in Index
                     /\ MatchAfterAccept(n, a) >= matchIndex[n][p]
                     /\ NextAfterReject(log[n], a) \in 1 .. MaxIndex + 1
               /\ a.call.kind = "Install" => Max({matchIndex[n][p], a.call.lastIndex}) \in Index
<1> DEFINE n == a.call.from
           p == a.call.to
           m == a.call
<1>1. Sent(m) /\ TypeOK /\ a.conflictIndex \in 0 .. MaxIndex + 1
  BY DEF RaftTypeInv, ElectionInv, AnswersOK, Answered
<1>2. n \in Node /\ p \in Node
  BY <1>1, CallFacts
<1>3. matchIndex[n][p] \in Index
  BY <1>2 DEF RaftTypeInv, VariablesOK
<1>4. ASSUME m.kind = "Append"
      PROVE  MatchAfterAccept(n, a) \in Index /\ MatchAfterAccept(n, a) >= matchIndex[n][p]
  <2> DEFINE x == m.prevIndex
             y == Len(m.entries)
             z == matchIndex[n][p]
  <2>1. x \in Index /\ IsBatch(Cmd, Term, x, m.entries) /\ x + y <= MaxIndex
    BY <1>1, <1>4, CallFacts
  <2>2. y \in Nat
    BY <2>1 DEF IsBatch
  <2> HIDE DEF x, y, z
  <2>i. x \in Index /\ z \in Index
    BY <1>3, <2>1 DEF z
  <2>3. x \in Nat /\ z \in Nat /\ MaxIndex \in Nat /\ z <= MaxIndex
    BY <2>i, RaftAssumption DEF Index
  <2>4. Max({z, x + y}) = IF z >= x + y THEN z ELSE x + y
    BY <2>2, <2>3, MaxOfTwo
  <2>5. Max({z, x + y}) \in Nat /\ Max({z, x + y}) <= MaxIndex /\ Max({z, x + y}) >= z
    BY <2>1, <2>2, <2>3, <2>4
  <2>6. Max({z, x + y}) \in Index
    BY <2>5, Ranges
  <2> QED
    BY <2>5, <2>6 DEF MatchAfterAccept, x, y, z
<1>5. ASSUME m.kind = "Install" PROVE Max({matchIndex[n][p], m.lastIndex}) \in Index
  <2> DEFINE x == m.lastIndex
             z == matchIndex[n][p]
  <2>1. x \in Index /\ z \in Index
    BY <1>1, <1>3, <1>5, CallFacts
  <2> HIDE DEF x, z
  <2>2. x \in Int /\ z \in Int
    BY <2>1 DEF Index
  <2>3. Max({z, x}) \in Index
    BY <2>1, <2>2, MaxOfTwo
  <2> QED
    BY <2>3 DEF x, z
<1>6. NextAfterReject(log[n], a) \in 1 .. MaxIndex + 1
  <2> DEFINE l == log[n]
             f == LastIndexWithTerm(l, a.conflictTerm)
             y == IF a.conflictTerm # 0 /\ f > 0 THEN f + 1 ELSE a.conflictIndex
  <2>1. l \in StoredLog
    BY <1>2, NodeFacts
  <2> HIDE DEF l
  <2>2. IsLog(Cmd, Term, l) /\ LastIndex(l) \in Index
    BY <2>1, StoredFacts
  <2>3. Term \in SUBSET Nat /\ MaxIndex \in Nat /\ LastIndex(l) \in Nat /\ LastIndex(l) <= MaxIndex
    BY <2>2, Ranges
  <2>4. f \in Nat /\ f <= LastIndex(l)
    BY <2>2, <2>3, LastIndexWithTermFacts
  <2> HIDE DEF f
  <2>5. y \in 0 .. MaxIndex + 1
    BY <1>1, <2>3, <2>4
  <2>6. NextAfterReject(l, a) = Max({1, y})
    BY DEF NextAfterReject, f
  <2> HIDE DEF y
  <2>7. Max({1, y}) = IF 1 >= y THEN 1 ELSE y
    BY <2>5, MaxOfTwo
  <2>8. NextAfterReject(l, a) \in 1 .. MaxIndex + 1
    BY <2>3, <2>5, <2>6, <2>7
  <2> QED
    BY <2>8 DEF l
<1> QED
  BY <1>4, <1>5, <1>6

\* The index HandleAppendEntries takes from the leader.
LEMMA LearnedCommit ==
    ASSUME NEW l \in StoredLog, NEW c \in Index
    PROVE  Min({c, LastIndex(l)}) = IF c <= LastIndex(l) THEN c ELSE LastIndex(l)
<1>1. LastIndex(l) \in Nat
  BY StoredFacts
<1>2. c \in Nat
  BY Ranges
<1> QED
  BY <1>1, <1>2, MinOfTwo

\* Every step keeps logs well formed and indices in range.
LEMMA VariablesStep ==
    ASSUME ~BootWindow, EveryLogAllowed, RaftTypeInv, [Next]_raftVars
    PROVE  VariablesOK'
<1>v. /\ log \in [Node -> StoredLog] /\ diskLog \in [Node -> StoredLog]
      /\ leaderLog \in [Term -> StoredLog]
      /\ nextIndex \in [Node -> [Node -> 0 .. MaxIndex + 1]]
      /\ matchIndex \in [Node -> [Node -> Index]]
      /\ commitIndex \in [Node -> Index] /\ lastApplied \in [Node -> Index]
      /\ snapFile \in [Node -> [index : Index, term : Term]]
      /\ acks \subseteq Node \X Term \X Index
  BY DEF RaftTypeInv, VariablesOK
<1>0. /\ TypeOK /\ 0 \in Index /\ 0 \in Term /\ MaxIndex \in Nat /\ 0 \in 0 .. MaxIndex + 1
      /\ Term \subseteq Nat
  BY Ranges DEF RaftTypeInv, ElectionInv
<1>p. ASSUME NEW n \in Node, NEW l \in StoredLog, PersistLog(n, l)
      PROVE  diskLog' \in [Node -> StoredLog]
  BY <1>p, <1>v DEF PersistLog
<1>q. ASSUME NEW n \in Node, PersistLog(n, log[n]) \/ UNCHANGED diskLog
      PROVE  diskLog' \in [Node -> StoredLog]
  BY <1>p, <1>q, <1>v
<1>l. ASSUME NEW n \in Node, NEW l \in StoredLog, log' = [log EXCEPT ![n] = l]
      PROVE  log' \in [Node -> StoredLog]
  BY <1>l, <1>v
<1>e. ASSUME UNCHANGED log PROVE log' \in [Node -> StoredLog]
  BY <1>e, <1>v
<1>f. ASSUME NEW n \in Node, FreshMemory(n), FreshReplication(n)
      PROVE  /\ log' \in [Node -> StoredLog]
             /\ nextIndex' \in [Node -> [Node -> 0 .. MaxIndex + 1]]
             /\ matchIndex' \in [Node -> [Node -> Index]]
             /\ commitIndex' \in [Node -> Index] /\ lastApplied' \in [Node -> Index]
             /\ leaderLog' = leaderLog /\ acks' = acks
  BY <1>f, <1>v, <1>0, EmptyStored DEF FreshMemory, FreshReplication, ledger
<1>c. ASSUME NEW m \in calls
      PROVE  /\ m.to \in Node /\ m.term \in Term /\ log[m.to] \in StoredLog
             /\ m.kind = "Append" =>
                   m.prevIndex + Len(m.entries) \in Index /\ m.commit \in Index
             /\ m.kind = "Install" => m.lastIndex \in Index /\ m.lastTerm \in Term
  <2>1. Sent(m)
    BY DEF RaftTypeInv, CallsOK
  <2>2. m.to \in Node /\ m.term \in Term
    BY <1>0, <2>1, CallFacts
  <2>3. m.kind = "Install" => m.lastIndex \in Index /\ m.lastTerm \in Term
    BY <1>0, <2>1, CallFacts
  <2>4. ASSUME m.kind = "Append" PROVE m.prevIndex + Len(m.entries) \in Index /\ m.commit \in Index
    <3>1. /\ m.prevIndex \in Index /\ IsBatch(Cmd, Term, m.prevIndex, m.entries)
          /\ m.prevIndex + Len(m.entries) <= MaxIndex /\ m.commit \in Index
      BY <1>0, <2>1, <2>4, CallFacts
    <3>2. Len(m.entries) \in Nat
      BY <3>1 DEF IsBatch
    <3>3. m.prevIndex \in Nat
      BY <3>1, Ranges
    <3>4. m.prevIndex + Len(m.entries) \in Nat
      BY <3>2, <3>3
    <3> QED
      BY <3>1, <3>4, Ranges
  <2> QED
    BY <1>v, <2>2, <2>3, <2>4
<1>a. ASSUME NEW a \in answers PROVE a.call.from \in Node /\ a.call.to \in Node
  <2>1. Sent(a.call)
    BY DEF RaftTypeInv, AnswersOK, Answered
  <2> QED
    BY <1>0, <2>1, CallFacts
<1>1. ASSUME NEW n \in Node, RaftBecomeCandidate(n) PROVE VariablesOK'
  BY <1>1, <1>v, <1>q, <1>e DEF RaftBecomeCandidate, BecomeCandidate, VariablesOK, ledger
<1>2. ASSUME NEW n \in Node, NEW S \in SUBSET Peers(n), RaftStartElection(n, S)
      PROVE  VariablesOK'
  BY <1>2, <1>v, <1>e DEF RaftStartElection, StartElection, VariablesOK, replicationVars, ledger
<1>3. ASSUME NEW m \in requests, NEW d \in BOOLEAN, RaftHandleRequestVote(m, d)
      PROVE  VariablesOK'
  <2>1. m.to \in Node
    BY <1>0 DEF TypeOK, Request
  <2>2. UNCHANGED log /\ (PersistLog(m.to, log[m.to]) \/ UNCHANGED diskLog)
    BY <1>3 DEF RaftHandleRequestVote, HandleRequestVote
  <2> QED
    BY <1>3, <1>v, <1>q, <1>e, <2>1, <2>2 DEF RaftHandleRequestVote, VariablesOK, ledger
<1>4. ASSUME NEW r \in replies, RaftStepDownOnVoteReply(r) PROVE VariablesOK'
  <2>1. r.cand \in Node
    BY <1>0 DEF TypeOK, Reply
  <2> QED
    BY <1>4, <1>v, <1>q, <1>e, <2>1
    DEF RaftStepDownOnVoteReply, StepDownOnVoteReply, VariablesOK, ledger
<1>5. ASSUME NEW r \in replies, RaftCountVote(r) PROVE VariablesOK'
  <2>1. r.cand \in Node
    BY <1>0 DEF TypeOK, Reply
  <2>2. log[r.cand] \in StoredLog /\ currentTerm[r.cand] \in Term
    BY <1>0, <1>v, <2>1 DEF TypeOK
  <2>3. LastIndex(log[r.cand]) + 1 \in 0 .. MaxIndex + 1
    <3> DEFINE i == LastIndex(log[r.cand])
    <3>1. i \in Index
      BY <2>2, StoredFacts
    <3> HIDE DEF i
    <3>2. i + 1 \in 0 .. MaxIndex + 1
      BY <3>1, RaftAssumption DEF Index
    <3> QED
      BY <3>2 DEF i
  <2>4. UNCHANGED <<log, commitIndex, lastApplied, diskLog, snapFile, acks>>
    BY <1>5 DEF RaftCountVote, CountVote
  <2>5. CASE state'[r.cand] = Leader
    <3> DEFINE k == LastIndex(log[r.cand]) + 1
    <3>1. /\ nextIndex' = [nextIndex EXCEPT ![r.cand] = [p \in Node |-> k]]
          /\ matchIndex' = [matchIndex EXCEPT ![r.cand] = [p \in Node |-> 0]]
          /\ leaderLog' = [leaderLog EXCEPT ![currentTerm[r.cand]] = log[r.cand]]
      BY <1>5, <2>5 DEF RaftCountVote, ResetTracking
    <3> HIDE DEF k
    <3>2. nextIndex' \in [Node -> [Node -> 0 .. MaxIndex + 1]]
      BY <1>v, <2>1, <2>3, <3>1 DEF k
    <3>3. matchIndex' \in [Node -> [Node -> Index]]
      BY <1>0, <1>v, <2>1, <3>1
    <3>4. leaderLog' \in [Term -> StoredLog]
      BY <1>v, <2>2, <3>1
    <3> QED
      BY <1>v, <2>4, <3>2, <3>3, <3>4 DEF VariablesOK
  <2>6. CASE state'[r.cand] # Leader
    BY <1>5, <1>v, <2>4, <2>6 DEF RaftCountVote, VariablesOK
  <2> QED
    BY <2>5, <2>6
<1>6. ASSUME NEW n \in Node, NEW S \in SUBSET Peers(n), SendHeartbeats(n, S)
      PROVE  VariablesOK'
  BY <1>6, <1>v DEF SendHeartbeats, VariablesOK, ledger, electionVars
<1>7. ASSUME NEW n \in Node, NEW S \in SUBSET Peers(n), TickWithoutQuorum(n, S)
      PROVE  VariablesOK'
  BY <1>7, <1>v, <1>q, <1>e DEF TickWithoutQuorum, CheckQuorum, VariablesOK, ledger
<1>8. ASSUME NEW n \in Node, NEW c \in Cmd, NEW S \in SUBSET Peers(n), Submit(n, c, S)
      PROVE  VariablesOK'
  <2> DEFINE l == log[n] \o <<[term |-> currentTerm[n], index |-> LastIndex(log[n]) + 1,
                               cmd |-> c]>>
  <2>1. /\ log[n] \in StoredLog /\ LastIndex(log[n]) < MaxIndex
        /\ currentTerm[n] \in Term /\ currentTerm[n] # 0
    BY <1>8, NodeFacts DEF Submit
  <2>2. l \in StoredLog
    BY <2>1, SubmittedLog
  <2>3. /\ log' = [log EXCEPT ![n] = l] /\ PersistLog(n, l)
        /\ leaderLog' = [leaderLog EXCEPT ![currentTerm[n]] = l]
        /\ UNCHANGED <<nextIndex, matchIndex, commitIndex, lastApplied, snapFile, acks>>
    BY <1>8 DEF Submit
  <2> HIDE DEF l
  <2> QED
    BY <1>v, <1>l, <1>p, <2>1, <2>2, <2>3 DEF VariablesOK
<1>9. ASSUME NEW m \in calls, NEW d \in BOOLEAN, HandleStaleCall(m, d) PROVE VariablesOK'
  BY <1>9, <1>v DEF HandleStaleCall, VariablesOK, ledger, electionVars
<1>10. ASSUME NEW m \in calls, NEW d \in BOOLEAN, RejectAppendEntries(m, d) PROVE VariablesOK'
  <2>1. /\ UNCHANGED <<log, nextIndex, matchIndex, commitIndex, lastApplied, snapFile, ledger>>
        /\ PersistLog(m.to, log[m.to]) \/ UNCHANGED diskLog
    BY <1>10 DEF RejectAppendEntries
  <2> QED
    BY <1>v, <1>q, <1>c, <2>1 DEF VariablesOK, ledger
<1>11. ASSUME NEW m \in calls, NEW d \in BOOLEAN, AcceptAppendEntries(m, d) PROVE VariablesOK'
  <2> DEFINE l == AppendBatch(log[m.to], m.entries)
  <2>1. /\ log' = [log EXCEPT ![m.to] = l] /\ PersistLog(m.to, l) /\ m.kind = "Append"
        /\ UNCHANGED <<nextIndex, matchIndex, lastApplied, snapFile, leaderLog>>
        /\ acks' = acks \cup {<<m.to, m.term, m.prevIndex + Len(m.entries)>>}
        /\ \/ commitIndex' = [commitIndex EXCEPT ![m.to] = Min({m.commit, LastIndex(l)})]
           \/ UNCHANGED commitIndex
    BY <1>11 DEF AcceptAppendEntries, Commit
  <2>2. l \in StoredLog
    BY <1>11, AcceptedLog
  <2> HIDE DEF l
  <2>3. m.commit \in Index /\ m.to \in Node /\ m.term \in Term
    BY <1>c, <2>1
  <2>4. m.prevIndex + Len(m.entries) \in Index
    BY <1>c, <2>1
  <2>5. LastIndex(l) \in Index
    BY <2>2, StoredFacts
  <2>6. Min({m.commit, LastIndex(l)}) \in Index
    BY <2>2, <2>3, <2>5, LearnedCommit
  <2>7. commitIndex' \in [Node -> Index]
    BY <1>v, <2>1, <2>3, <2>6
  <2>8. acks' \subseteq Node \X Term \X Index
    BY <1>v, <2>1, <2>3, <2>4
  <2> QED
    BY <1>v, <1>l, <1>p, <2>1, <2>2, <2>3, <2>7, <2>8 DEF VariablesOK
<1>12. ASSUME NEW m \in calls, NEW d \in BOOLEAN, IgnoreSnapshot(m, d) PROVE VariablesOK'
  <2>1. /\ UNCHANGED <<log, nextIndex, matchIndex, commitIndex, lastApplied, snapFile, ledger>>
        /\ PersistLog(m.to, log[m.to]) \/ UNCHANGED diskLog
    BY <1>12 DEF IgnoreSnapshot
  <2> QED
    BY <1>v, <1>q, <1>c, <2>1 DEF VariablesOK, ledger
<1>i. ASSUME NEW n \in Node, NEW i \in Index
      PROVE  Max({lastApplied[n], i}) \in Index /\ Max({commitIndex[n], i}) \in Index
  <2> DEFINE x == lastApplied[n]
             y == commitIndex[n]
  <2>1. x \in Index /\ y \in Index
    BY <1>v
  <2> HIDE DEF x, y
  <2>2. x \in Int /\ y \in Int /\ i \in Int
    BY <2>1, Ranges
  <2>3. Max({x, i}) \in Index /\ Max({y, i}) \in Index
    BY <2>1, <2>2, MaxOfTwo
  <2> QED
    BY <2>3 DEF x, y
<1>13. ASSUME NEW m \in calls, NEW d \in BOOLEAN, InstallSnapshot(m, d) PROVE VariablesOK'
  <2> DEFINE l == CompactTo(log[m.to], m.lastIndex, m.lastTerm)
             i == m.lastIndex
  <2>1. /\ log' = [log EXCEPT ![m.to] = l] /\ PersistLog(m.to, l) /\ m.kind = "Install"
        /\ snapFile' = [snapFile EXCEPT ![m.to] = [index |-> m.lastIndex, term |-> m.lastTerm]]
        /\ lastApplied' = [lastApplied EXCEPT ![m.to] = Max({lastApplied[m.to], i})]
        /\ commitIndex' = [commitIndex EXCEPT ![m.to] = Max({commitIndex[m.to], i})]
        /\ UNCHANGED <<nextIndex, matchIndex, leaderLog, acks>>
    BY <1>13 DEF InstallSnapshot, ledger
  <2>2. m.lastIndex \in Index /\ m.lastTerm \in Term /\ m.to \in Node
    BY <1>c, <2>1
  <2>3. l \in StoredLog
    BY <1>c, <2>2, CompactedLog
  <2> HIDE DEF l
  <2>4. Max({lastApplied[m.to], i}) \in Index /\ Max({commitIndex[m.to], i}) \in Index
    BY <1>i, <2>2
  <2>5. lastApplied' \in [Node -> Index] /\ commitIndex' \in [Node -> Index]
    BY <1>v, <2>1, <2>4
  <2>6. snapFile' \in [Node -> [index : Index, term : Term]]
    BY <1>v, <2>1, <2>2
  <2> QED
    BY <1>v, <1>l, <1>p, <2>1, <2>2, <2>3, <2>5, <2>6 DEF VariablesOK
<1>14. ASSUME NEW a \in answers, StepDownOnAnswer(a) PROVE VariablesOK'
  BY <1>14, <1>v, <1>q, <1>a DEF StepDownOnAnswer, VariablesOK, ledger
<1>15. ASSUME NEW a \in answers, HandleAccepted(a) PROVE VariablesOK'
  <2> DEFINE n == a.call.from
             p == a.call.to
             match == MatchAfterAccept(n, a)
             ms == [matchIndex[n] EXCEPT ![p] = match]
             q == QuorumIndex(n, ms)
  <2>1. /\ UNCHANGED <<electionVars, lastApplied, diskLog, snapFile, ledger>>
        /\ a.call.kind = "Append"
        /\ matchIndex' = [matchIndex EXCEPT ![n][p] = match]
        /\ nextIndex' = [nextIndex EXCEPT ![n][p] = match + 1]
        /\ commitIndex' = [commitIndex EXCEPT ![n] = q] \/ UNCHANGED commitIndex
    BY <1>15 DEF HandleAccepted, CurrentAnswer, MaybeCommit, Commit
  <2>2. n \in Node /\ p \in Node /\ log[n] \in StoredLog
    BY <1>a, <1>v
  <2>3. match \in Index
    BY <2>1, TrackingIndices
  <2> HIDE DEF n, p, match
  <2>4. match + 1 \in 0 .. MaxIndex + 1
    BY <2>3, Ranges
  <2>5. ms \in [Node -> Index]
    BY <1>v, <2>2, <2>3
  <2> HIDE DEF ms
  <2>6. q \in Index
    BY <2>2, <2>5, QuorumIndexFacts
  <2> HIDE DEF q
  <2>7. commitIndex' \in [Node -> Index]
    BY <1>v, <2>1, <2>2, <2>6
  <2>8. matchIndex' \in [Node -> [Node -> Index]]
    BY <1>v, <2>1, <2>2, <2>3
  <2>9. nextIndex' \in [Node -> [Node -> 0 .. MaxIndex + 1]]
    BY <1>v, <2>1, <2>2, <2>4
  <2> QED
    BY <1>v, <2>1, <2>7, <2>8, <2>9 DEF VariablesOK, ledger, electionVars
<1>16. ASSUME NEW a \in answers, HandleRejected(a) PROVE VariablesOK'
  <2> DEFINE n == a.call.from
             p == a.call.to
             next == NextAfterReject(log[n], a)
  <2>1. /\ UNCHANGED <<electionVars, lastApplied, diskLog, snapFile, ledger, matchIndex, commitIndex>>
        /\ a.call.kind = "Append"
        /\ nextIndex' = [nextIndex EXCEPT ![n][p] = next]
    BY <1>16 DEF HandleRejected, CurrentAnswer
  <2>2. n \in Node /\ p \in Node
    BY <1>a
  <2>3. next \in 1 .. MaxIndex + 1
    BY <2>1, TrackingIndices
  <2> HIDE DEF n, p, next
  <2>4. nextIndex' \in [Node -> [Node -> 0 .. MaxIndex + 1]]
    BY <1>0, <1>v, <2>1, <2>2, <2>3
  <2> QED
    BY <1>v, <2>1, <2>4 DEF VariablesOK, ledger, electionVars
<1>17. ASSUME NEW a \in answers, HandleInstalled(a) PROVE VariablesOK'
  <2> DEFINE n == a.call.from
             p == a.call.to
             match == Max({matchIndex[n][p], a.call.lastIndex})
  <2>1. /\ UNCHANGED <<electionVars, lastApplied, diskLog, snapFile, ledger, commitIndex>>
        /\ a.call.kind = "Install"
        /\ matchIndex' = [matchIndex EXCEPT ![n][p] = match]
        /\ nextIndex' = [nextIndex EXCEPT ![n][p] = match + 1]
    BY <1>17 DEF HandleInstalled, CurrentAnswer
  <2>2. n \in Node /\ p \in Node
    BY <1>a
  <2>3. match \in Index
    BY <2>1, TrackingIndices
  <2> HIDE DEF n, p, match
  <2>4. match + 1 \in 0 .. MaxIndex + 1
    BY <2>3, Ranges
  <2>5. matchIndex' \in [Node -> [Node -> Index]]
    BY <1>v, <2>1, <2>2, <2>3
  <2>6. nextIndex' \in [Node -> [Node -> 0 .. MaxIndex + 1]]
    BY <1>v, <2>1, <2>2, <2>4
  <2> QED
    BY <1>v, <2>1, <2>5, <2>6 DEF VariablesOK, ledger, electionVars
<1>18. ASSUME NEW n \in Node, ApplyEntry(n) PROVE VariablesOK'
  <2>1. lastApplied[n] + 1 \in Index
    <3>1. lastApplied[n] < commitIndex[n] /\ lastApplied[n] \in Index /\ commitIndex[n] \in Index
      BY <1>18, <1>v DEF ApplyEntry
    <3> QED
      BY <3>1, <1>0 DEF Index
  <2> QED
    BY <1>18, <1>v, <2>1 DEF ApplyEntry, VariablesOK, ledger, electionVars
<1>19. ASSUME NEW n \in Node, TakeSnapshot(n) PROVE VariablesOK'
  <2> DEFINE lg == log[n]
             i == lastApplied[n]
             t == Get(lg, i).term
             l == CompactTo(lg, i, t)
  <2>0. lg \in StoredLog /\ i \in Index
    BY NodeFacts
  <2>4. /\ log' = [log EXCEPT ![n] = l] /\ PersistLog(n, l)
        /\ snapFile' = [snapFile EXCEPT ![n] = [index |-> i, term |-> t]]
        /\ UNCHANGED <<nextIndex, matchIndex, commitIndex, lastApplied, leaderLog, acks>>
    BY <1>19 DEF TakeSnapshot, SnapshotAt, ledger
  <2> HIDE DEF lg, i
  <2>1. i \in Int
    BY <2>0, Ranges
  <2>2. t \in Term
    BY <2>0, <2>1, StoredTerm
  <2> HIDE DEF t
  <2>3. l \in StoredLog
    BY <2>0, <2>2, CompactedLog
  <2> HIDE DEF l
  <2>5. snapFile' \in [Node -> [index : Index, term : Term]]
    BY <1>v, <2>0, <2>2, <2>4
  <2> QED
    BY <1>v, <1>l, <1>p, <2>3, <2>4, <2>5 DEF VariablesOK
<1>20. ASSUME NEW n \in Node, RaftRestart(n) PROVE VariablesOK'
  BY <1>20, <1>f, <1>v DEF RaftRestart, Restart, VariablesOK
<1>21. ASSUME NEW m \in requests, RaftCrashInHandleRequestVote(m) PROVE VariablesOK'
  <2>1. m.to \in Node
    BY <1>0 DEF TypeOK, Request
  <2> QED
    BY <1>21, <1>f, <1>q, <1>v, <2>1
    DEF RaftCrashInHandleRequestVote, CrashInHandleRequestVote, VariablesOK
<1>22. ASSUME NEW n \in Node, CrashInTakeSnapshot(n) PROVE VariablesOK'
  <2>1. SnapshotAt(n) \in [index : Index, term : Term]
    <3>1. log[n] \in StoredLog /\ lastApplied[n] \in Index
      BY <1>v
    <3>2. lastApplied[n] \in Int
      BY <3>1, Ranges
    <3>3. Get(log[n], lastApplied[n]).term \in Term
      BY <3>1, <3>2, StoredTerm
    <3> QED
      BY <3>1, <3>3 DEF SnapshotAt
  <2>2. snapFile' \in [Node -> [index : Index, term : Term]]
    BY <1>22, <1>v, <2>1 DEF CrashInTakeSnapshot
  <2>3. FreshMemory(n) /\ FreshReplication(n) /\ UNCHANGED diskLog
    BY <1>22 DEF CrashInTakeSnapshot, Restart
  <2> QED
    BY <1>f, <1>v, <2>2, <2>3 DEF VariablesOK
<1>23. ASSUME NEW n \in Node, RaftLoadState(n) PROVE VariablesOK'
  <2> DEFINE dl == diskLog[n]
             i == snapFile[n].index
             t == snapFile[n].term
             l == CompactTo(dl, i, t)
  <2>1. dl \in StoredLog /\ i \in Index /\ t \in Term
    BY NodeFacts
  <2>2. /\ log' = [log EXCEPT ![n] = l]
        /\ lastApplied' = [lastApplied EXCEPT ![n] = Max({lastApplied[n], i})]
        /\ commitIndex' = [commitIndex EXCEPT ![n] = Max({commitIndex[n], i})]
        /\ UNCHANGED <<nextIndex, matchIndex, diskLog, snapFile, leaderLog, acks>>
    BY <1>23 DEF RaftLoadState, RestoreIndices, ledger
  <2> HIDE DEF dl, i, t
  <2>3. l \in StoredLog
    BY <2>1, CompactedLog
  <2> HIDE DEF l
  <2>4. Max({lastApplied[n], i}) \in Index /\ Max({commitIndex[n], i}) \in Index
    BY <1>i, <2>1
  <2>5. lastApplied' \in [Node -> Index] /\ commitIndex' \in [Node -> Index]
    BY <1>v, <2>2, <2>4
  <2> QED
    BY <1>v, <1>l, <2>2, <2>3, <2>5 DEF VariablesOK
<1>24. ASSUME UNCHANGED raftVars PROVE VariablesOK'
  BY <1>24, <1>v DEF raftVars, replicationVars, electionVars, ledger, VariablesOK
<1> QED
  BY <1>1, <1>2, <1>3, <1>4, <1>5, <1>6, <1>7, <1>8, <1>9, <1>10, <1>11, <1>12, <1>13, <1>14,
     <1>15, <1>16, <1>17, <1>18, <1>19, <1>20, <1>21, <1>22, <1>23, <1>24
  DEF Next

\* The hint of a rejected AppendEntries.
LEMMA ConflictHint ==
    ASSUME RaftTypeInv, NEW m \in calls, m.kind = "Append"
    PROVE  /\ LastIndex(log[m.to]) + 1 \in 0 .. MaxIndex + 1
           /\ LET t == Get(log[m.to], m.prevIndex).term
              IN  /\ t \in Term
                  /\ t # 0 => /\ FirstIndexForTerm(log[m.to], t) \in 0 .. MaxIndex + 1
                              /\ FirstIndexForTerm(log[m.to], t) <= m.prevIndex
<1> DEFINE l == log[m.to]
           i == m.prevIndex
           t == Get(l, i).term
           f == FirstIndexForTerm(l, t)
           k == LastIndex(l)
<1>1. Sent(m) /\ TypeOK
  BY DEF RaftTypeInv, ElectionInv, CallsOK
<1>2. m.to \in Node /\ i \in Index
  BY <1>1, CallFacts
<1>3. l \in StoredLog
  BY <1>2, NodeFacts
<1> HIDE DEF l, i
<1>4. /\ IsLog(Cmd, Term, l) /\ k \in Index /\ k \in Nat
      /\ SnapshotIndex(l) \in Nat
  BY <1>3, StoredFacts
<1>5. i \in Nat /\ i \in Int /\ i <= MaxIndex /\ MaxIndex \in Nat
  BY <1>2, RaftAssumption DEF Index
<1>6. t \in Term /\ (t # 0 => SnapshotIndex(l) <= i /\ i <= k)
  BY <1>3, <1>5, StoredTerm
<1>7. k + 1 \in 0 .. MaxIndex + 1
  <2> HIDE DEF k
  <2> QED
    BY <1>4, RaftAssumption DEF Index
<1>8. ASSUME t # 0 PROVE f \in 0 .. MaxIndex + 1 /\ f <= i
  <2>1. Term \in SUBSET Nat
    BY Ranges
  <2>2. f \in Nat /\ f <= i
    BY <1>4, <1>5, <1>6, <1>8, <2>1, FirstIndexFacts
  <2> HIDE DEF f
  <2> QED
    BY <1>5, <2>2
<1> QED
  BY <1>6, <1>7, <1>8 DEF l, i

\* Every call and every answer on the network was built by an elected leader.
LEMMA MessagesStep ==
    ASSUME ~BootWindow, EveryLogAllowed, RaftTypeInv, [Next]_raftVars
    PROVE  CallsOK' /\ AnswersOK'
<1> DEFINE Goal == CallsOK' /\ AnswersOK'
<1>0. /\ TypeOK /\ TypeOK' /\ elected \subseteq elected'
      /\ \A n \in Node : disk'[n].term >= disk[n].term
  <2>1. ElectionInv /\ [ElectionNext]_electionVars
    BY StepRefines DEF RaftTypeInv
  <2>2. ElectionInv'
    BY <2>1, InvStep
  <2>3. elected \subseteq elected' /\ \A n \in Node : disk'[n].term >= disk[n].term
    BY <2>1, TermsGrow
  <2> QED
    BY <2>1, <2>2, <2>3 DEF ElectionInv
<1>t. \A n \in Node : disk[n].term \in Nat /\ disk'[n].term \in Nat /\ currentTerm[n] \in Term
  BY <1>0, Ranges DEF TypeOK
<1>n. 0 \in Term /\ 0 \in 0 .. MaxIndex + 1
  BY Ranges
<1>s. ASSUME NEW m, Sent(m) PROVE Sent(m)'
  BY <1>s, <1>0 DEF Sent
<1>m. ASSUME NEW m \in calls
      PROVE  /\ Sent(m) /\ m.from \in Node /\ m.to \in Node /\ m.term \in Term /\ m.term \in Nat
             /\ m.waiting => loaded[m.from]
  <2>1. Sent(m) /\ (m.waiting => loaded[m.from])
    BY DEF RaftTypeInv, CallsOK
  <2> QED
    BY <1>0, <2>1, CallFacts
<1>a. ASSUME NEW a \in answers
      PROVE  /\ Answered(a) /\ a.term <= disk[a.call.to].term /\ loaded[a.call.from]
             /\ a.call.from \in Node /\ a.call.to \in Node /\ a.term \in Nat
  <2>1. Answered(a) /\ a.term <= disk[a.call.to].term /\ loaded[a.call.from]
    BY DEF RaftTypeInv, AnswersOK
  <2>2. Sent(a.call) /\ a.term \in Term
    BY <2>1 DEF Answered
  <2>3. a.call.from \in Node /\ a.call.to \in Node
    BY <1>0, <2>2, CallFacts
  <2> QED
    BY <2>1, <2>2, <2>3, Ranges
<1>b. ASSUME NEW a \in answers PROVE Answered(a)' /\ a.term <= disk'[a.call.to].term
  <2>1. Answered(a)'
    BY <1>a, <1>s DEF Answered
  <2> QED
    BY <1>0, <1>a, <1>t, <2>1
\* A step that stops no process.
<1>C. ASSUME \A n \in Node : loaded[n] => loaded'[n],
             \A m \in calls' : m \in calls \/ (Sent(m) /\ m.from \in Node /\ loaded[m.from])
      PROVE  CallsOK'
  <2> SUFFICES ASSUME NEW m \in calls' PROVE Sent(m)' /\ (m.waiting => loaded'[m.from])
    BY DEF CallsOK
  <2>1. CASE m \in calls
    BY <1>C, <1>m, <1>s, <2>1
  <2>2. CASE Sent(m) /\ m.from \in Node /\ loaded[m.from]
    BY <1>C, <1>s, <2>2
  <2> QED
    BY <1>C, <2>1, <2>2
<1>A. ASSUME \A n \in Node : loaded[n] => loaded'[n], answers' \subseteq answers
      PROVE  AnswersOK'
  BY <1>A, <1>a, <1>b DEF AnswersOK
<1>S. ASSUME \A n \in Node : loaded[n] => loaded'[n], calls' = calls,
             answers' \subseteq answers
      PROVE  Goal
  BY <1>S, <1>A, <1>C
<1>B. ASSUME NEW n \in Node, NEW l \in StoredLog, NEW S \in SUBSET Peers(n),
             Broadcast(n, l, S), state[n] = Leader, loaded' = loaded, answers' = answers
      PROVE  Goal
  <2>1. /\ VariablesOK /\ currentTerm[n] \in Term /\ <<currentTerm[n], n>> \in elected
        /\ loaded[n]
    BY <1>B, NodeFacts DEF RaftTypeInv
  <2>2. ASSUME NEW p \in S
        PROVE  Sent(BuildArgs(n, l, p)) /\ BuildArgs(n, l, p).from = n
    BY <2>1, BuiltCall
  <2>3. calls' = calls \cup {BuildArgs(n, l, p) : p \in S}
    BY <1>B DEF Broadcast
  <2>4. \A m \in calls' : m \in calls \/ (Sent(m) /\ m.from \in Node /\ loaded[m.from])
    BY <2>1, <2>2, <2>3
  <2> QED
    BY <1>A, <1>B, <1>C, <2>4
<1>R. ASSUME NEW m \in calls, NEW t \in Term, NEW ok \in BOOLEAN, NEW ct \in Term,
             NEW ci \in 0 .. MaxIndex + 1, NEW d \in BOOLEAN, Answer(m, t, ok, ct, ci, d),
             t <= disk'[m.to].term, loaded' = loaded
      PROVE  Goal
  <2> DEFINE a == [call |-> m, term |-> t, success |-> ok, conflictTerm |-> ct,
                   conflictIndex |-> ci]
  <2>1. /\ calls' = calls \ {m} /\ (d => m.waiting)
        /\ answers' = IF d THEN answers \cup {a} ELSE answers
    BY <1>R DEF Answer
  <2>2. CallsOK'
    BY <1>C, <1>R, <2>1
  <2>3. a.call = m /\ a.term = t
    OBVIOUS
  <2>4. Answered(a)'
    <3>1. Sent(m)'
      BY <1>m, <1>s
    <3> QED
      BY <3>1 DEF Answered
  <2> HIDE DEF a
  <2>5. AnswersOK'
    <3> SUFFICES ASSUME NEW x \in answers'
                 PROVE  Answered(x)' /\ x.term <= disk'[x.call.to].term /\ loaded'[x.call.from]
      BY DEF AnswersOK
    <3>1. CASE x \in answers
      BY <1>R, <1>a, <1>b, <3>1
    <3>2. CASE x = a /\ d
      <4>1. loaded[m.from]
        BY <1>m, <2>1, <3>2
      <4> QED
        BY <1>R, <2>3, <2>4, <3>2, <4>1
    <3> QED
      BY <2>1, <3>1, <3>2
  <2> QED
    BY <2>2, <2>5
<1>O. ASSUME NEW m \in calls, NEW b \in BOOLEAN, ObserveLeader(m.to, m.term, m.from, b)
      PROVE  m.term <= disk'[m.to].term /\ loaded' = loaded
  <2>1. m.to \in Node /\ m.term \in Nat
    BY <1>m
  <2>2. /\ loaded[m.to] /\ loaded' = loaded /\ m.term >= currentTerm[m.to]
        /\ disk[m.to].term = currentTerm[m.to]
    BY <1>O, <2>1, NodeFacts DEF ObserveLeader, Serving
  <2>3. CASE m.term > currentTerm[m.to]
    BY <1>O, <1>0, <2>1, <2>2, <2>3 DEF ObserveLeader, Persist, TypeOK
  <2>4. CASE ~(m.term > currentTerm[m.to])
    <3>1. disk'[m.to].term = disk[m.to].term
      BY <1>O, <2>4 DEF ObserveLeader
    <3> QED
      BY <1>t, <2>1, <2>2, <2>4, <3>1
  <2> QED
    BY <2>3, <2>4
\* A crash of k.
<1>K. ASSUME NEW k \in Node, FreshMemory(k), FreshReplication(k), calls' = Abandon(k, calls)
      PROVE  Goal
  <2>1. /\ \A n \in Node : n # k => (loaded'[n] <=> loaded[n])
        /\ answers' = {a \in answers : a.call.from # k}
    BY <1>K, <1>0 DEF FreshMemory, FreshReplication, TypeOK
  <2>2. CallsOK'
    <3> SUFFICES ASSUME NEW w \in calls' PROVE Sent(w)' /\ (w.waiting => loaded'[w.from])
      BY DEF CallsOK
    <3>1. PICK m \in calls : w = IF m.from = k THEN [m EXCEPT !.waiting = FALSE] ELSE m
      BY <1>K DEF Abandon
    <3>2. CASE m.from # k
      BY <1>m, <1>s, <2>1, <3>1, <3>2
    <3>3. CASE m.from = k
      <4>0. w = [m EXCEPT !.waiting = FALSE] /\ Sent(m)
        BY <1>m, <3>1, <3>3
      <4>1. CASE m \in AppendCall
        <5>1. /\ w \in AppendCall /\ w \notin InstallCall /\ ~w.waiting
              /\ w.to = m.to /\ w.from = m.from /\ w.term = m.term
              /\ w.prevIndex = m.prevIndex /\ w.entries = m.entries
          BY <4>0, <4>1 DEF AppendCall, InstallCall
        <5>2. Sent(w)
          BY <4>0, <4>1, <5>1 DEF Sent
        <5> QED
          BY <1>s, <5>1, <5>2
      <4>2. CASE m \in InstallCall
        <5>1. /\ w \in InstallCall /\ w \notin AppendCall /\ ~w.waiting
              /\ w.to = m.to /\ w.from = m.from /\ w.term = m.term
          BY <4>0, <4>2 DEF AppendCall, InstallCall
        <5>2. Sent(w)
          BY <4>0, <4>2, <5>1 DEF Sent
        <5> QED
          BY <1>s, <5>1, <5>2
      <4> QED
        BY <4>0, <4>1, <4>2 DEF Sent
    <3> QED
      BY <3>2, <3>3
  <2>3. AnswersOK'
    BY <1>a, <1>b, <2>1 DEF AnswersOK
  <2> QED
    BY <2>2, <2>3
<1> HIDE DEF Goal
<1>1. ASSUME NEW n \in Node, RaftBecomeCandidate(n) PROVE Goal
  BY <1>1, <1>S DEF RaftBecomeCandidate, BecomeCandidate
<1>2. ASSUME NEW n \in Node, NEW S \in SUBSET Peers(n), RaftStartElection(n, S) PROVE Goal
  BY <1>2, <1>S DEF RaftStartElection, StartElection, replicationVars
<1>3. ASSUME NEW m \in requests, NEW d \in BOOLEAN, RaftHandleRequestVote(m, d) PROVE Goal
  BY <1>3, <1>S DEF RaftHandleRequestVote, HandleRequestVote
<1>4. ASSUME NEW r \in replies, RaftStepDownOnVoteReply(r) PROVE Goal
  BY <1>4, <1>S DEF RaftStepDownOnVoteReply, StepDownOnVoteReply
<1>5. ASSUME NEW r \in replies, RaftCountVote(r) PROVE Goal
  BY <1>5, <1>S DEF RaftCountVote, CountVote
<1>6. ASSUME NEW n \in Node, NEW S \in SUBSET Peers(n), SendHeartbeats(n, S) PROVE Goal
  <2>1. log[n] \in StoredLog
    BY NodeFacts
  <2> QED
    BY <1>6, <1>B, <2>1 DEF SendHeartbeats, electionVars
<1>7. ASSUME NEW n \in Node, NEW S \in SUBSET Peers(n), TickWithoutQuorum(n, S) PROVE Goal
  <2>1. log[n] \in StoredLog
    BY NodeFacts
  <2> QED
    BY <1>7, <1>B, <2>1 DEF TickWithoutQuorum, CheckQuorum
<1>8. ASSUME NEW n \in Node, NEW c \in Cmd, NEW S \in SUBSET Peers(n), Submit(n, c, S) PROVE Goal
  <2> DEFINE l == log[n] \o <<[term |-> currentTerm[n], index |-> LastIndex(log[n]) + 1,
                               cmd |-> c]>>
  <2>1. /\ log[n] \in StoredLog /\ LastIndex(log[n]) < MaxIndex
        /\ currentTerm[n] \in Term /\ currentTerm[n] # 0
    BY <1>8, NodeFacts DEF Submit
  <2>2. l \in StoredLog
    BY <2>1, SubmittedLog
  <2>3. state[n] = Leader /\ Broadcast(n, l, S) /\ loaded' = loaded /\ answers' = answers
    BY <1>8 DEF Submit, OnlyLogChanges
  <2> HIDE DEF l
  <2> QED
    BY <1>B, <2>2, <2>3
<1>9. ASSUME NEW m \in calls, NEW d \in BOOLEAN, HandleStaleCall(m, d) PROVE Goal
  <2> DEFINE t == currentTerm[m.to]
  <2>1. m.to \in Node /\ loaded[m.to] /\ loaded' = loaded /\ disk' = disk
        /\ Answer(m, t, FALSE, 0, 0, d)
    BY <1>9, <1>m DEF HandleStaleCall, Serving, electionVars
  <2>2. t \in Term /\ t \in Nat /\ t = disk[m.to].term
    BY <2>1, NodeFacts
  <2> HIDE DEF t
  <2>3. t <= disk'[m.to].term
    BY <2>1, <2>2
  <2> QED
    BY <1>n, <1>R, <2>1, <2>2, <2>3
<1>10. ASSUME NEW m \in calls, NEW d \in BOOLEAN, RejectAppendEntries(m, d) PROVE Goal
  <2> DEFINE t == Get(log[m.to], m.prevIndex).term
             f == FirstIndexForTerm(log[m.to], t)
             k == LastIndex(log[m.to]) + 1
  <2>1. /\ ObserveLeader(m.to, m.term, m.from, TRUE) /\ m.kind = "Append"
        /\ \/ Answer(m, m.term, FALSE, 0, k, d)
           \/ t # 0 /\ Answer(m, m.term, FALSE, t, f, d)
    BY <1>10 DEF RejectAppendEntries, PrevConflicts
  <2>2. k \in 0 .. MaxIndex + 1 /\ t \in Term /\ (t # 0 => f \in 0 .. MaxIndex + 1)
    BY <2>1, ConflictHint
  <2>3. m.term \in Term /\ m.term <= disk'[m.to].term /\ loaded' = loaded
    BY <1>m, <1>O, <2>1
  <2> HIDE DEF t, f, k
  <2> QED
    BY <1>n, <1>R, <2>1, <2>2, <2>3
<1>11. ASSUME NEW m \in calls, NEW d \in BOOLEAN,
              AcceptAppendEntries(m, d) \/ IgnoreSnapshot(m, d) \/ InstallSnapshot(m, d)
       PROVE  Goal
  <2>1. /\ \E b \in BOOLEAN : ObserveLeader(m.to, m.term, m.from, b)
        /\ Answer(m, m.term, TRUE, 0, 0, d)
    BY <1>11 DEF AcceptAppendEntries, IgnoreSnapshot, InstallSnapshot
  <2>2. m.term \in Term /\ m.term <= disk'[m.to].term /\ loaded' = loaded
    BY <1>m, <1>O, <2>1
  <2> QED
    BY <1>n, <1>R, <2>1, <2>2
<1>14. ASSUME NEW a \in answers, StepDownOnAnswer(a) PROVE Goal
  BY <1>14, <1>S DEF StepDownOnAnswer
<1>15. ASSUME NEW a \in answers, CurrentAnswer(a) PROVE Goal
  BY <1>15, <1>S DEF CurrentAnswer, electionVars
<1>18. ASSUME NEW n \in Node, ApplyEntry(n) PROVE Goal
  BY <1>18, <1>S DEF ApplyEntry, electionVars
<1>19. ASSUME NEW n \in Node, TakeSnapshot(n) PROVE Goal
  BY <1>19, <1>S DEF TakeSnapshot, OnlyLogChanges
<1>20. ASSUME NEW n \in Node, RaftRestart(n) \/ CrashInTakeSnapshot(n) PROVE Goal
  BY <1>20, <1>K DEF RaftRestart, CrashInTakeSnapshot, Restart
<1>21. ASSUME NEW m \in requests, RaftCrashInHandleRequestVote(m) PROVE Goal
  <2>1. m.to \in Node
    BY <1>0 DEF TypeOK, Request
  <2> QED
    BY <1>21, <1>K, <2>1 DEF RaftCrashInHandleRequestVote, CrashInHandleRequestVote
<1>23. ASSUME NEW n \in Node, RaftLoadState(n) PROVE Goal
  <2>1. \A k \in Node : loaded[k] => loaded'[k]
    BY <1>23, <1>0 DEF RaftLoadState, LoadState, TypeOK
  <2> QED
    BY <1>23, <1>S, <2>1 DEF RaftLoadState
<1>24. ASSUME UNCHANGED raftVars PROVE Goal
  BY <1>24, <1>S DEF raftVars, replicationVars, electionVars
<1> QED
  BY <1>1, <1>2, <1>3, <1>4, <1>5, <1>6, <1>7, <1>8, <1>9, <1>10, <1>11, <1>14,
     <1>15, <1>18, <1>19, <1>20, <1>21, <1>23, <1>24
  DEF Next, HandleAccepted, HandleRejected, HandleInstalled, Goal

-----------------------------------------------------------------------------
(* The theorems.                                                           *)

\* The invariant holds of a freshly created cluster.
LEMMA RaftTypeInit == Init => RaftTypeInv
<1> SUFFICES ASSUME Init PROVE RaftTypeInv
  OBVIOUS
<1>1. ElectionInit
  BY DEF Init
<1>2. ElectionInv /\ TermsPositive
  BY <1>1, InvInit DEF ElectionInit, TermsPositive
<1>3. 0 \in Index /\ 0 \in Term /\ 0 \in 0 .. MaxIndex + 1
  BY Ranges
<1>4. VariablesOK
  BY <1>1, <1>3, EmptyStored DEF Init, ElectionInit, NoSnapshot, VariablesOK
<1> QED
  BY <1>2, <1>4 DEF Init, RaftTypeInv, CallsOK, AnswersOK

\* The invariant is preserved by every step of the detailed node.
LEMMA RaftTypeStep ==
    ASSUME ~BootWindow, EveryLogAllowed
    PROVE  RaftTypeInv /\ [Next]_raftVars => RaftTypeInv'
<1> SUFFICES ASSUME RaftTypeInv, [Next]_raftVars PROVE RaftTypeInv'
  OBVIOUS
<1>1. ElectionInv /\ TermsPositive /\ [ElectionNext]_electionVars
  BY StepRefines DEF RaftTypeInv
<1>2. ElectionInv'
  BY <1>1, InvStep
<1>3. TermsPositive'
  BY <1>1, PositiveStep
<1>4. VariablesOK' /\ CallsOK' /\ AnswersOK'
  BY VariablesStep, MessagesStep
<1> QED
  BY <1>2, <1>3, <1>4 DEF RaftTypeInv

\* The invariant holds for ever.
LEMMA RaftTypeInvariance ==
    ASSUME ~BootWindow, EveryLogAllowed
    PROVE  Spec => []RaftTypeInv
<1>1. Init => RaftTypeInv
  BY RaftTypeInit
<1>2. RaftTypeInv /\ [Next]_raftVars => RaftTypeInv'
  BY RaftTypeStep
<1> QED
  BY <1>1, <1>2, PTL DEF Spec

\* Every step of the full node (replication, commitment, snapshots, crashes)
\* is a step of the elections of election.go or leaves their state alone.
THEOREM NodeRefinesElection ==
    ASSUME ~BootWindow, EveryLogAllowed
    PROVE  Spec => RefinesElection
<1>1. RaftTypeInv /\ [Next]_raftVars => [ElectionNext]_electionVars
  BY StepRefines
<1> QED
  BY <1>1, RaftTypeInvariance, PTL DEF Spec, RefinesElection

\* The full node runs as the election specification, whose theorems
\* therefore hold of it.
THEOREM NodeImplementsElection ==
    ASSUME ~BootWindow, EveryLogAllowed
    PROVE  Spec => ElectionSpec
<1>1. Init => ElectionInit
  BY DEF Init
<1> QED
  BY <1>1, NodeRefinesElection, PTL DEF Spec, RefinesElection, ElectionSpec

\* At any moment at most one node of the full system acts as leader in a
\* term, however its replication, snapshots, step-downs and restarts interleave.
THEOREM NodeActiveLeaderUnique ==
    ASSUME ~BootWindow, EveryLogAllowed
    PROVE  Spec => []AtMostOneActiveLeader
BY NodeImplementsElection, ActiveLeaderUnique, PTL

-----------------------------------------------------------------------------
(* PART II.  Log Matching.  The invariant ties every log to the ledger of  *)
(* the leaders: an entry of term t at index i implies that the log is, up  *)
(* to i, the log of the leader of term t.                                  *)

\* A log that was never compacted.
PlainLog == {l \in StoredLog : SnapshotIndex(l) = 0 /\ SnapshotTerm(l) = 0}

\* Two logs have the same entries up to index i.
Agree(l, m, i) ==
    /\ i <= LastIndex(l) /\ i <= LastIndex(m)
    /\ \A j \in 1 .. i : Get(l, j) = Get(m, j)

\* Every entry of l came from the leader of its term, with all before it.
Traced(l, ledgerOf) ==
    \A i \in 1 .. LastIndex(l) : Agree(l, ledgerOf[Get(l, i).term], i)

TermsUpTo(l, t) == \A i \in 1 .. LastIndex(l) : Get(l, i).term <= t

\* An AppendEntries call carries a piece of its leader's log.
FromLeader(m, ledgerOf) ==
    /\ m.prevIndex + Len(m.entries) <= LastIndex(ledgerOf[m.term])
    /\ m.prevTerm = Get(ledgerOf[m.term], m.prevIndex).term
    /\ \A k \in 1 .. Len(m.entries) : m.entries[k] = Get(ledgerOf[m.term], m.prevIndex + k)

-----------------------------------------------------------------------------
(* The inductive invariant.                                                *)

LogsPlain ==
    /\ log \in [Node -> PlainLog] /\ diskLog \in [Node -> PlainLog]
    /\ leaderLog \in [Term -> PlainLog]
    /\ \A n \in Node : snapFile[n].index = 0
    /\ \A m \in calls : m.kind = "Append"
    /\ \A a \in answers : a.call.kind = "Append"

\* The log a running process works on is the one in raft-state.bin.
MemoryOK ==
    \A n \in Node : /\ loaded[n] => diskLog[n] = log[n]
                    /\ ~loaded[n] => log[n] = EmptyLog

ElectedOK ==
    /\ \A t \in Term, n \in Node : <<t, n>> \in elected => t # 0 /\ <<n, t, n>> \in grants
    /\ \A n \in Node : state[n] = Candidate => <<currentTerm[n], n>> \notin elected
    /\ \A t \in Term : (\A n \in Node : <<t, n>> \notin elected) => leaderLog[t] = EmptyLog

LeaderLogOK == \A n \in Node : state[n] = Leader => leaderLog[currentTerm[n]] = log[n]

LogsTraced ==
    /\ \A n \in Node : Traced(diskLog[n], leaderLog) /\ TermsUpTo(diskLog[n], disk[n].term)
    /\ \A t \in Term : Traced(leaderLog[t], leaderLog) /\ TermsUpTo(leaderLog[t], t)

CallsTraced ==
    /\ \A m \in calls : FromLeader(m, leaderLog)
    /\ \A a \in answers : /\ FromLeader(a.call, leaderLog)
                          /\ ~a.success => a.conflictIndex <= a.call.prevIndex

TrackingOK ==
    \A n \in Node : state[n] = Leader => \A p \in Node :
        /\ matchIndex[n][p] <= LastIndex(log[n])
        /\ nextIndex[n][p] \in 1 .. LastIndex(log[n]) + 1

LedgerInv == LogsPlain /\ MemoryOK /\ ElectedOK /\ LeaderLogOK /\ LogsTraced

MatchInv == VoteInv /\ RaftTypeInv /\ LedgerInv /\ CallsTraced /\ TrackingOK

\* The setting of this module's theorems.
Setting == ~BootWindow /\ ~QuorumLoss /\ Compacting = {} /\ EveryLogAllowed

-----------------------------------------------------------------------------
(* Plain logs and agreement.                                               *)

\* A log that was never compacted starts at index zero.
LEMMA PlainFacts ==
    ASSUME NEW l \in PlainLog
    PROVE  /\ l \in StoredLog /\ IsLog(Cmd, Term, l)
           /\ LastIndex(l) \in Nat /\ LastIndex(l) \in Index
           /\ SnapshotIndex(l) = 0
<1>1. l \in StoredLog /\ SnapshotIndex(l) = 0
  BY DEF PlainLog
<1> QED
  BY <1>1, StoredFacts

\* Every index from one to the last has an entry with a term.
LEMMA PlainEntry ==
    ASSUME NEW l \in PlainLog, NEW i \in Int, 1 <= i, i <= LastIndex(l)
    PROVE  /\ Get(l, i).term \in Term /\ Get(l, i).term # 0 /\ Get(l, i).index = i
           /\ Get(l, i).term \in Nat
<1>1. IsLog(Cmd, Term, l) /\ SnapshotIndex(l) = 0 /\ Term \in SUBSET Nat
  BY PlainFacts, Ranges
<1>2. SnapshotIndex(l) <= i /\ i > SnapshotIndex(l)
  BY <1>1
<1>3. Get(l, i).term \in Term /\ Get(l, i).term # 0
  BY <1>1, <1>2, GetEntry
<1>4. Get(l, i).index = i
  BY <1>1, <1>2, GetEntry
<1> QED
  BY <1>1, <1>3, <1>4

\* The sentinel of such a log is the zero entry.
LEMMA PlainZero ==
    ASSUME NEW l \in PlainLog
    PROVE  Get(l, 0) = ZeroEntry
<1>1. IsLog(Cmd, Term, l) /\ l[1].index = 0 /\ l[1].term = 0
  BY DEF PlainLog, StoredLog, SnapshotIndex, SnapshotTerm
<1>2. l[1] \in EntryOf(Cmd, Term) /\ l[1].cmd = NoCmd /\ Len(l) \in Nat /\ Len(l) >= 1
  BY <1>1 DEF IsLog
<1>3. l[1] = ZeroEntry
  BY <1>1, <1>2 DEF EntryOf, ZeroEntry
<1> QED
  BY <1>1, <1>2, <1>3 DEF Get, SnapshotIndex

\* get answers term zero beyond the last entry.
LEMMA PlainBeyond ==
    ASSUME NEW l \in PlainLog, NEW i \in Int, i > LastIndex(l)
    PROVE  Get(l, i).term = 0
<1>1. /\ IsLog(Cmd, Term, l) /\ SnapshotIndex(l) = 0 /\ Term \in SUBSET Nat
      /\ LastIndex(l) \in Nat
  BY PlainFacts, Ranges
<1>2. i \notin SnapshotIndex(l) .. LastIndex(l)
  BY <1>1
<1>3. Get(l, i) = ZeroEntry
  BY <1>1, <1>2, GetOutside
<1> QED
  BY <1>3 DEF ZeroEntry

\* The log of a new node is not compacted.
LEMMA EmptyPlain == EmptyLog \in PlainLog /\ LastIndex(EmptyLog) = 0
<1>1. LastIndex(EmptyLog) = 0 /\ SnapshotIndex(EmptyLog) = 0
  BY Ranges, EmptyLogFacts
<1>2. SnapshotTerm(EmptyLog) = 0
  BY DEF EmptyLog, SnapshotTerm, ZeroEntry
<1> QED
  BY <1>1, <1>2, EmptyStored DEF PlainLog

\* To agree up to an index is symmetric and transitive.
LEMMA AgreeFacts ==
    /\ \A l, m, i : Agree(l, m, i) => Agree(m, l, i)
    /\ \A l, m, k, i : Agree(l, m, i) /\ Agree(m, k, i) => Agree(l, k, i)
<1>1. ASSUME NEW l, NEW m, NEW i, Agree(l, m, i) PROVE Agree(m, l, i)
  BY <1>1 DEF Agree
<1>2. ASSUME NEW l, NEW m, NEW k, NEW i, Agree(l, m, i), Agree(m, k, i) PROVE Agree(l, k, i)
  BY <1>2 DEF Agree
<1> QED
  BY <1>1, <1>2

\* Logs that agree up to an index agree up to any smaller one.
LEMMA AgreeDown ==
    ASSUME NEW l \in PlainLog, NEW m \in PlainLog, NEW i \in Int, NEW j \in Int, j <= i,
           Agree(l, m, i)
    PROVE  Agree(l, m, j)
<1>1. LastIndex(l) \in Nat /\ LastIndex(m) \in Nat
  BY PlainFacts
<1> QED
  BY <1>1 DEF Agree

\* A log agrees with itself as far as it reaches.
LEMMA AgreeSelf ==
    ASSUME NEW l \in PlainLog, NEW i \in Int, i <= LastIndex(l)
    PROVE  Agree(l, l, i)
BY DEF Agree

\* l is m, or the beginning of m.
Prefix(l, m) == Agree(l, m, LastIndex(l))

\* Agreement with a log carries over to what extends that log.
LEMMA PrefixAgree ==
    ASSUME NEW l \in PlainLog, NEW m \in PlainLog, NEW k \in PlainLog, NEW i \in Int,
           Agree(l, m, i), Prefix(m, k)
    PROVE  Agree(l, k, i)
<1>1. i <= LastIndex(m) /\ LastIndex(m) \in Nat
  BY PlainFacts DEF Agree
<1>2. Agree(m, k, i)
  BY <1>1, AgreeDown DEF Prefix
<1> QED
  BY <1>2, AgreeFacts

\* Log Matching for two logs that are traced to the same ledger.
LEMMA TracedAgree ==
    ASSUME NEW ledgerOf \in [Term -> PlainLog], NEW l \in PlainLog, NEW m \in PlainLog,
           Traced(l, ledgerOf), Traced(m, ledgerOf),
           NEW i \in Int, 1 <= i, i <= LastIndex(l), i <= LastIndex(m),
           Get(l, i).term = Get(m, i).term
    PROVE  Agree(l, m, i)
<1>1. i \in 1 .. LastIndex(l) /\ i \in 1 .. LastIndex(m)
  BY PlainFacts
<1>2. Agree(l, ledgerOf[Get(l, i).term], i)
  BY <1>1 DEF Traced
<1>3. Agree(m, ledgerOf[Get(l, i).term], i)
  BY <1>1 DEF Traced
<1> QED
  BY <1>2, <1>3, AgreeFacts

\* A log that is traced to the leaders' logs stays so while these grow.
LEMMA TracedGrows ==
    ASSUME NEW ledgerOf \in [Term -> PlainLog], NEW newer \in [Term -> PlainLog],
           \A t \in Term : Prefix(ledgerOf[t], newer[t]),
           NEW l \in PlainLog, Traced(l, ledgerOf)
    PROVE  Traced(l, newer)
<1> SUFFICES ASSUME NEW i \in 1 .. LastIndex(l) PROVE Agree(l, newer[Get(l, i).term], i)
  BY DEF Traced
<1>1. i \in Int /\ 1 <= i /\ i <= LastIndex(l)
  BY PlainFacts
<1>2. Get(l, i).term \in Term
  BY <1>1, PlainEntry
<1>3. Agree(l, ledgerOf[Get(l, i).term], i)
  BY DEF Traced
<1> DEFINE t == Get(l, i).term
<1> HIDE DEF t
<1>4. t \in Term /\ Agree(l, ledgerOf[t], i) /\ Prefix(ledgerOf[t], newer[t])
  BY <1>2, <1>3 DEF t
<1>5. ledgerOf[t] \in PlainLog /\ newer[t] \in PlainLog
  BY <1>4
<1>6. Agree(l, newer[t], i)
  BY <1>1, <1>4, <1>5, PrefixAgree
<1> QED
  BY <1>6 DEF t

\* A beginning of a traced log is traced.
LEMMA TracedPart ==
    ASSUME NEW ledgerOf \in [Term -> PlainLog], NEW l \in PlainLog, NEW m \in PlainLog,
           Traced(m, ledgerOf), Prefix(l, m)
    PROVE  Traced(l, ledgerOf)
<1> SUFFICES ASSUME NEW i \in 1 .. LastIndex(l) PROVE Agree(l, ledgerOf[Get(l, i).term], i)
  BY DEF Traced
<1>1. /\ i \in Int /\ 1 <= i /\ i <= LastIndex(l) /\ LastIndex(l) \in Nat
      /\ LastIndex(m) \in Nat
  BY PlainFacts
<1>2. Agree(l, m, i)
  BY <1>1, AgreeDown DEF Prefix
<1>3. i \in 1 .. LastIndex(m) /\ Get(m, i) = Get(l, i)
  BY <1>1, <1>2 DEF Agree
<1>4. Agree(m, ledgerOf[Get(m, i).term], i)
  BY <1>3 DEF Traced
<1> QED
  BY <1>2, <1>3, <1>4, AgreeFacts

\* A prefix has no term that the whole log does not have.
LEMMA TermsPart ==
    ASSUME NEW l \in PlainLog, NEW m \in PlainLog, NEW t \in Nat, TermsUpTo(m, t), Prefix(l, m)
    PROVE  TermsUpTo(l, t)
<1> SUFFICES ASSUME NEW i \in 1 .. LastIndex(l) PROVE Get(l, i).term <= t
  BY DEF TermsUpTo
<1>1. LastIndex(l) \in Nat /\ LastIndex(m) \in Nat
  BY PlainFacts
<1>2. i \in 1 .. LastIndex(m) /\ Get(m, i) = Get(l, i)
  BY <1>1 DEF Prefix, Agree
<1> QED
  BY <1>2 DEF TermsUpTo

\* A bound on the terms of a log may be raised.
LEMMA TermsRaise ==
    ASSUME NEW l \in PlainLog, NEW t \in Nat, NEW u \in Nat, t <= u, TermsUpTo(l, t)
    PROVE  TermsUpTo(l, u)
<1> SUFFICES ASSUME NEW i \in 1 .. LastIndex(l) PROVE Get(l, i).term <= u
  BY DEF TermsUpTo
<1>1. i \in Int /\ 1 <= i /\ i <= LastIndex(l)
  BY PlainFacts
<1>2. Get(l, i).term \in Nat
  BY <1>1, PlainEntry
<1>3. Get(l, i).term <= t
  BY DEF TermsUpTo
<1> QED
  BY <1>2, <1>3

-----------------------------------------------------------------------------
(* Who becomes what in a step.                                             *)

\* n leads after a step only if it led or stood in that term before; it
\* stands only if it stood or counted its term up; only a candidate that
\* wins is added to the elected.
RoleKept(n) ==
    /\ state'[n] = Leader =>
          /\ loaded[n] /\ loaded'[n] /\ currentTerm'[n] = currentTerm[n]
          /\ state[n] = Leader \/ (state[n] = Candidate /\ <<currentTerm[n], n>> \in elected')
    /\ state'[n] = Candidate =>
          \/ state[n] = Candidate /\ currentTerm'[n] = currentTerm[n]
          \/ loaded[n] /\ currentTerm'[n] = currentTerm[n] + 1 /\ elected' = elected
    /\ \A t \in Term : <<t, n>> \in elected' =>
          \/ <<t, n>> \in elected
          \/ t = currentTerm[n] /\ state[n] = Candidate /\ state'[n] = Leader

\* A leader stays leader of its term or gives up the role; nobody becomes
\* leader without counting votes.
LEMMA RoleStep ==
    ASSUME ~BootWindow, ElectionInv, [ElectionNext]_electionVars
    PROVE  \A n \in Node : RoleKept(n)
<1> DEFINE Goal == \A n \in Node : RoleKept(n)
<1> USE ElectionAssumption DEF Follower, Candidate, Leader
<1>0. /\ TypeOK /\ Term \subseteq Nat
      /\ \A n \in Node : currentTerm[n] \in Nat /\ (state[n] # Follower => loaded[n])
  BY DEF ElectionInv, TypeOK, Term, Booting
<1>t. state \in [Node -> {Follower, Candidate, Leader}] /\ currentTerm \in [Node -> Term]
      /\ loaded \in [Node -> BOOLEAN]
  BY DEF ElectionInv, TypeOK
\* Nobody is elected and one node changes its role.
<1>a. ASSUME NEW k \in Node, elected' = elected,
             \A n \in Node : n # k => /\ state'[n] = state[n] /\ loaded'[n] = loaded[n]
                                      /\ currentTerm'[n] = currentTerm[n],
             \/ state'[k] = Follower
             \/ state'[k] = state[k] /\ currentTerm'[k] = currentTerm[k] /\ loaded'[k] = loaded[k]
      PROVE  Goal
  BY <1>a, <1>0 DEF RoleKept
<1>b. ASSUME UNCHANGED <<state, currentTerm, loaded, elected>> PROVE Goal
  BY <1>b, <1>0 DEF RoleKept
<1>c. ASSUME NEW k \in Node, NEW t, elected' = elected,
             state' = [state EXCEPT ![k] = Follower], currentTerm' = [currentTerm EXCEPT ![k] = t],
             \/ loaded' = loaded \/ loaded' = [loaded EXCEPT ![k] = FALSE]
      PROVE  Goal
  BY <1>c, <1>t, <1>a
<1>1. ASSUME NEW n \in Node, BecomeCandidate(n) PROVE Goal
  BY <1>1, <1>0, <1>t DEF BecomeCandidate, RoleKept
<1>2. ASSUME NEW n \in Node, NEW S \in SUBSET Peers(n), StartElection(n, S) PROVE Goal
  BY <1>2, <1>b DEF StartElection, nodeVars
<1>3. ASSUME NEW m \in requests, NEW d \in BOOLEAN, HandleRequestVote(m, d) PROVE Goal
  <2>1. m.to \in Node
    BY DEF ElectionInv, TypeOK, Request
  <2>2. CASE HigherTerm(m)
    BY <1>3, <1>c, <2>1, <2>2 DEF HandleRequestVote
  <2>3. CASE ~HigherTerm(m)
    <3>1. UNCHANGED <<state, currentTerm, loaded, elected>>
      BY <1>3, <1>t, <2>1, <2>3 DEF HandleRequestVote
    <3> QED
      BY <1>b, <3>1
  <2> QED
    BY <2>2, <2>3
<1>4. ASSUME NEW r \in replies, StepDownOnVoteReply(r) PROVE Goal
  <2>1. r.cand \in Node
    BY DEF ElectionInv, TypeOK, Reply
  <2> QED
    BY <1>4, <1>c, <2>1 DEF StepDownOnVoteReply, BecomeFollower
<1>5. ASSUME NEW r \in replies, CountVote(r) PROVE Goal
  <2>1. r.cand \in Node
    BY DEF ElectionInv, TypeOK, Reply
  <2>2. state[r.cand] = Candidate /\ currentTerm' = currentTerm /\ loaded' = loaded
    BY <1>5 DEF CountVote, CountsFor
  <2>3. CASE Tally(r.cand, r) >= Majority
    BY <1>5, <1>0, <1>t, <2>1, <2>2, <2>3 DEF CountVote, RoleKept
  <2>4. CASE ~(Tally(r.cand, r) >= Majority)
    <3>1. UNCHANGED <<state, currentTerm, loaded, elected>>
      BY <1>5, <1>t, <2>1, <2>2, <2>4 DEF CountVote
    <3> QED
      BY <1>b, <3>1
  <2> QED
    BY <2>3, <2>4
<1>6. ASSUME NEW n \in Node, CheckQuorum(n) PROVE Goal
  BY <1>6, <1>c DEF CheckQuorum, BecomeFollower
<1>7. ASSUME NEW n \in Node, NEW e \in elected, NEW a \in BOOLEAN, HearFromLeader(n, e, a)
      PROVE  Goal
  <2>0. e[1] \in Nat
    BY DEF ElectionInv, TypeOK, Term
  <2>1. ObserveLeader(n, e[1], e[2], a)
    BY <1>7 DEF HearFromLeader
  <2>2. CASE e[1] > currentTerm[n]
    BY <1>c, <2>1, <2>2 DEF ObserveLeader
  <2>3. CASE ~(e[1] > currentTerm[n])
    <3>1. e[1] = currentTerm[n]
      BY <1>0, <2>0, <2>1, <2>3 DEF ObserveLeader
    <3>2. /\ currentTerm' = currentTerm /\ loaded' = loaded /\ elected' = elected
          /\ \A k \in Node : k # n => state'[k] = state[k]
          /\ state'[n] = Follower \/ state'[n] = state[n]
      BY <1>t, <2>1, <2>3, <3>1 DEF ObserveLeader
    <3> QED
      BY <1>a, <3>2
  <2> QED
    BY <2>2, <2>3
<1>8. ASSUME NEW n \in Node, NEW t \in Term, StepDownOnPeerReply(n, t) PROVE Goal
  BY <1>8, <1>c DEF StepDownOnPeerReply, BecomeFollower
<1>9. ASSUME NEW n \in Node, OnlyLogChanges(n), SomeLog(n) PROVE Goal
  BY <1>9, <1>b DEF OnlyLogChanges, nodeVars
<1>10. ASSUME NEW n \in Node, Restart(n) PROVE Goal
  BY <1>10, <1>c DEF Restart, FreshMemory
<1>11. ASSUME NEW m \in requests, CrashInHandleRequestVote(m) PROVE Goal
  <2>1. m.to \in Node
    BY DEF ElectionInv, TypeOK, Request
  <2> QED
    BY <1>11, <1>c, <2>1 DEF CrashInHandleRequestVote, FreshMemory
<1>12. ASSUME NEW n \in Node, LoadState(n), SomeLog(n) PROVE Goal
  <2>1. state'[n] = Follower /\ elected' = elected
    BY <1>12 DEF LoadState, ElectionInv, Booting
  <2>2. \A k \in Node : k # n => /\ state'[k] = state[k] /\ loaded'[k] = loaded[k]
                                 /\ currentTerm'[k] = currentTerm[k]
    BY <1>12, <1>t DEF LoadState
  <2> QED
    BY <1>a, <2>1, <2>2
<1>13. ASSUME UNCHANGED electionVars PROVE Goal
  BY <1>13, <1>b DEF electionVars, nodeVars
<1> HIDE DEF Goal
<1>14. Goal
  BY <1>1, <1>2, <1>3, <1>4, <1>5, <1>6, <1>7, <1>8, <1>9, <1>10, <1>11, <1>12, <1>13
  DEF ElectionNext, QuorateNext
<1> QED
  BY <1>14 DEF Goal

\* One node per term.
LEMMA ElectedOnce ==
    ASSUME VoteInv, NEW t \in Term, NEW a \in Node, NEW b \in Node,
           <<t, a>> \in elected, <<t, b>> \in elected
    PROVE  a = b
<1>1. \E v \in Node : <<v, t, a>> \in grants /\ <<v, t, b>> \in grants
  BY CommonVoter DEF VoteInv, ElectionInv
<1> QED
  BY <1>1 DEF VoteInv, OneVote

-----------------------------------------------------------------------------
(* What a step does to the logs.                                           *)

Quiet == UNCHANGED <<log, diskLog, leaderLog, loaded, elected, acks>>

WonBy(n) ==
    /\ state[n] = Candidate /\ state' = [state EXCEPT ![n] = Leader]
    /\ elected' = elected \cup {<<currentTerm[n], n>>}
    /\ UNCHANGED <<log, diskLog, loaded, currentTerm, acks, disk, grants>>
    /\ leaderLog' = [leaderLog EXCEPT ![currentTerm[n]] = log[n]]

Crashed(n) ==
    /\ log' = [log EXCEPT ![n] = EmptyLog] /\ loaded' = [loaded EXCEPT ![n] = FALSE]
    /\ UNCHANGED <<diskLog, leaderLog, elected, acks>>

Revived(n) ==
    /\ ~loaded[n] /\ loaded' = [loaded EXCEPT ![n] = TRUE]
    /\ log' = [log EXCEPT ![n] = diskLog[n]]
    /\ UNCHANGED <<diskLog, leaderLog, elected, acks>>

\* The invariants that are already proved, after a step.
LEMMA StepFacts ==
    ASSUME Setting, VoteInv, RaftTypeInv, [Next]_raftVars
    PROVE  /\ VoteInv' /\ RaftTypeInv'
           /\ \A n \in Node : RoleKept(n) /\ disk'[n].term >= disk[n].term
           /\ elected \subseteq elected' /\ grants \subseteq grants'
<1>1. ~BootWindow /\ ~QuorumLoss /\ EveryLogAllowed
  BY DEF Setting
<1>2. ElectionInv /\ [ElectionNext]_electionVars
  BY <1>1, StepRefines DEF RaftTypeInv
<1>3. VoteInv'
  BY <1>1, <1>2, VoteStep
<1>4. RaftTypeInv'
  BY <1>1, RaftTypeStep
<1>5. \A n \in Node : RoleKept(n)
  BY <1>1, <1>2, RoleStep
<1>6. /\ \A n \in Node : disk'[n].term >= disk[n].term
      /\ elected \subseteq elected' /\ grants \subseteq grants'
  BY <1>1, <1>2, TermsGrow
<1> QED
  BY <1>3, <1>4, <1>5, <1>6

\* The steps that matter to logs: an election won, a crash, a load, a Submit,
\* an accepted AppendEntries; every other step leaves the logs alone.
LEMMA LogShape ==
    ASSUME Setting, RaftTypeInv, LogsPlain, MemoryOK, [Next]_raftVars
    PROVE  \/ Quiet
           \/ \E n \in Node : WonBy(n) \/ Crashed(n) \/ Revived(n)
           \/ \E n \in Node, c \in Cmd : \E S \in SUBSET Peers(n) : Submit(n, c, S)
           \/ \E m \in calls, d \in BOOLEAN : AcceptAppendEntries(m, d)
<1> DEFINE Goal == \/ Quiet
                   \/ \E n \in Node : WonBy(n) \/ Crashed(n) \/ Revived(n)
                   \/ \E n \in Node, c \in Cmd : \E S \in SUBSET Peers(n) : Submit(n, c, S)
                   \/ \E m \in calls, d \in BOOLEAN : AcceptAppendEntries(m, d)
<1>0. /\ ~BootWindow /\ ~QuorumLoss /\ Compacting = {} /\ TypeOK /\ ElectionInv
      /\ diskLog \in [Node -> PlainLog] /\ log \in [Node -> PlainLog]
  BY DEF Setting, RaftTypeInv, ElectionInv, LogsPlain
<1>k. ASSUME NEW n \in Node, loaded[n], PersistLog(n, log[n]) \/ UNCHANGED diskLog
      PROVE  UNCHANGED diskLog
  <2>1. diskLog[n] = log[n]
    BY <1>k DEF MemoryOK
  <2> QED
    BY <1>0, <1>k, <2>1 DEF PersistLog
<1>q. ASSUME NEW n \in Node, loaded[n], PersistLog(n, log[n]) \/ UNCHANGED diskLog,
             UNCHANGED <<log, loaded, leaderLog, elected, acks>>
      PROVE  Goal
  BY <1>q, <1>k DEF Quiet
<1>u. ASSUME UNCHANGED <<log, diskLog, leaderLog, loaded, elected, acks>> PROVE Goal
  BY <1>u DEF Quiet
<1>m. ASSUME NEW m \in calls PROVE m.to \in Node
  <2>1. Sent(m)
    BY DEF RaftTypeInv, CallsOK
  <2> QED
    BY <1>0, <2>1, CallFacts
<1>1. ASSUME NEW n \in Node, RaftBecomeCandidate(n) PROVE Goal
  BY <1>1, <1>q DEF RaftBecomeCandidate, BecomeCandidate, ledger
<1>2. ASSUME NEW n \in Node, NEW S \in SUBSET Peers(n), RaftStartElection(n, S) PROVE Goal
  BY <1>2, <1>u DEF RaftStartElection, StartElection, replicationVars, ledger
<1>3. ASSUME NEW m \in requests, NEW d \in BOOLEAN, RaftHandleRequestVote(m, d) PROVE Goal
  <2>1. m.to \in Node
    BY <1>0 DEF TypeOK, Request
  <2> QED
    BY <1>3, <1>0, <1>q, <2>1 DEF RaftHandleRequestVote, HandleRequestVote, Serving, ledger
<1>4. ASSUME NEW r \in replies, RaftStepDownOnVoteReply(r) PROVE Goal
  <2>1. r.cand \in Node /\ loaded[r.cand]
    BY <1>0 DEF TypeOK, Reply, ElectionInv, Booting
  <2> QED
    BY <1>4, <1>q, <2>1 DEF RaftStepDownOnVoteReply, StepDownOnVoteReply, ledger
<1>5. ASSUME NEW r \in replies, RaftCountVote(r) PROVE Goal
  <2>1. r.cand \in Node
    BY <1>0 DEF TypeOK, Reply
  <2>2. CASE state'[r.cand] = Leader
    <3>1. /\ state[r.cand] = Candidate
          /\ UNCHANGED <<log, diskLog, loaded, currentTerm, acks, disk, grants>>
          /\ leaderLog' = [leaderLog EXCEPT ![currentTerm[r.cand]] = log[r.cand]]
      BY <1>5, <2>2 DEF RaftCountVote, CountVote, CountsFor
    <3>2. Tally(r.cand, r) >= Majority
      <4> SUFFICES ASSUME ~(Tally(r.cand, r) >= Majority) PROVE FALSE
        OBVIOUS
      <4>1. state'[r.cand] = state[r.cand]
        BY <1>5, <1>0, <2>1 DEF RaftCountVote, CountVote, TypeOK
      <4> QED
        BY <2>2, <3>1, <4>1 DEF Leader, Candidate
    <3>3. /\ elected' = elected \cup {<<currentTerm[r.cand], r.cand>>}
          /\ state' = [state EXCEPT ![r.cand] = Leader]
      BY <1>5, <3>2 DEF RaftCountVote, CountVote
    <3>4. WonBy(r.cand)
      BY <2>2, <3>1, <3>3 DEF WonBy
    <3> QED
      BY <2>1, <3>4
  <2>3. CASE state'[r.cand] # Leader
    <3>1. ~(Tally(r.cand, r) >= Majority)
      BY <1>5, <1>0, <2>1, <2>3 DEF RaftCountVote, CountVote, TypeOK
    <3> QED
      BY <1>5, <1>u, <2>3, <3>1 DEF RaftCountVote, CountVote
  <2> QED
    BY <2>2, <2>3
<1>6. ASSUME NEW n \in Node, NEW S \in SUBSET Peers(n), SendHeartbeats(n, S) PROVE Goal
  BY <1>6, <1>u DEF SendHeartbeats, electionVars, ledger
<1>7. ASSUME NEW n \in Node, NEW S \in SUBSET Peers(n), TickWithoutQuorum(n, S) PROVE Goal
  BY <1>7, <1>0 DEF TickWithoutQuorum, CheckQuorum
<1>9. ASSUME NEW m \in calls, NEW d \in BOOLEAN, HandleStaleCall(m, d) PROVE Goal
  BY <1>9, <1>u DEF HandleStaleCall, electionVars, ledger
<1>10. ASSUME NEW m \in calls, NEW d \in BOOLEAN, RejectAppendEntries(m, d) PROVE Goal
  <2>1. loaded[m.to] /\ m.to \in Node
    BY <1>10, <1>0, <1>m DEF RejectAppendEntries, ObserveLeader, Serving
  <2>2. /\ PersistLog(m.to, log[m.to]) \/ UNCHANGED diskLog
        /\ UNCHANGED <<log, loaded, leaderLog, elected, acks>>
    BY <1>10 DEF RejectAppendEntries, ObserveLeader, ledger
  <2> QED
    BY <1>q, <2>1, <2>2
<1>12. ASSUME NEW m \in calls, NEW d \in BOOLEAN, IgnoreSnapshot(m, d) \/ InstallSnapshot(m, d)
       PROVE  Goal
  BY <1>12 DEF IgnoreSnapshot, InstallSnapshot, LogsPlain
<1>14. ASSUME NEW a \in answers, StepDownOnAnswer(a) PROVE Goal
  <2>1. Sent(a.call) /\ loaded[a.call.from]
    BY DEF RaftTypeInv, AnswersOK, Answered
  <2>2. a.call.from \in Node
    BY <1>0, <2>1, CallFacts
  <2> QED
    BY <1>14, <1>q, <2>1, <2>2 DEF StepDownOnAnswer, ledger
<1>15. ASSUME NEW a \in answers, CurrentAnswer(a) PROVE Goal
  BY <1>15, <1>u DEF CurrentAnswer, electionVars, ledger
<1>18. ASSUME NEW n \in Node, ApplyEntry(n) PROVE Goal
  BY <1>18, <1>u DEF ApplyEntry, electionVars, ledger
<1>19. ASSUME NEW n \in Node, TakeSnapshot(n) \/ CrashInTakeSnapshot(n) PROVE Goal
  BY <1>19, <1>0 DEF TakeSnapshot, CrashInTakeSnapshot, SnapshotDue
<1>20. ASSUME NEW n \in Node, RaftRestart(n) PROVE Goal
  BY <1>20 DEF RaftRestart, Restart, FreshMemory, FreshReplication, Crashed, ledger
<1>21. ASSUME NEW m \in requests, RaftCrashInHandleRequestVote(m) PROVE Goal
  <2>1. m.to \in Node /\ loaded[m.to] /\ PersistLog(m.to, log[m.to])
    BY <1>21, <1>0 DEF TypeOK, Request, RaftCrashInHandleRequestVote, CrashInHandleRequestVote
  <2>2. UNCHANGED diskLog
    BY <1>k, <2>1
  <2>3. FreshMemory(m.to) /\ UNCHANGED <<leaderLog, acks>>
    BY <1>21 DEF RaftCrashInHandleRequestVote, CrashInHandleRequestVote, FreshReplication, ledger
  <2>4. Crashed(m.to)
    BY <2>2, <2>3 DEF Crashed, FreshMemory
  <2> QED
    BY <2>1, <2>4
<1>23. ASSUME NEW n \in Node, RaftLoadState(n) PROVE Goal
  <2>1. CompactTo(diskLog[n], snapFile[n].index, snapFile[n].term) = diskLog[n]
    <3>1. diskLog[n] \in PlainLog /\ snapFile[n].index = 0
      BY <1>0 DEF LogsPlain
    <3>2. 0 <= SnapshotIndex(diskLog[n])
      BY <3>1, PlainFacts
    <3> QED
      BY <3>1, <3>2 DEF CompactTo
  <2>2. Revived(n)
    BY <1>23, <2>1 DEF RaftLoadState, LoadState, Revived, ledger
  <2> QED
    BY <2>2
<1>24. ASSUME UNCHANGED raftVars PROVE Goal
  BY <1>24, <1>u DEF raftVars, replicationVars, electionVars, ledger
<1> QED
  BY <1>1, <1>2, <1>3, <1>4, <1>5, <1>6, <1>7, <1>9, <1>10, <1>12, <1>14,
     <1>15, <1>18, <1>19, <1>20, <1>21, <1>23, <1>24
  DEF Next, HandleAccepted, HandleRejected, HandleInstalled

-----------------------------------------------------------------------------
(* The log HandleAppendEntries leaves behind.                              *)

\* A stored log with an empty sentinel is not compacted.
LEMMA PlainIntro ==
    ASSUME NEW l \in StoredLog, SnapshotIndex(l) = 0, Get(l, 0).term = 0
    PROVE  l \in PlainLog
<1>1. IsLog(Cmd, Term, l) /\ l[1].index = 0
  BY DEF StoredLog, SnapshotIndex
<1>2. Len(l) \in Nat /\ Len(l) >= 1
  BY <1>1 DEF IsLog
<1>3. Get(l, 0) = l[1]
  BY <1>1, <1>2 DEF Get, SnapshotIndex
<1> QED
  BY <1>3 DEF PlainLog, SnapshotTerm

\* The merged log m agrees with the leader's log L as far as the batch goes,
\* and wherever the follower's log l agreed with it.
MergedWith(l, L, end, m) ==
    /\ m \in PlainLog
    /\ Agree(m, L, end)
    /\ m = l \/ LastIndex(m) = end
    /\ \A i \in Int : Agree(l, L, i) => Agree(m, L, i)

\* Merging a batch of a leader's log behind a matching entry makes a log agree
\* with the leader's up to the end of the batch, and loses nothing that did.
LEMMA MergeAgrees ==
    ASSUME NEW ledgerOf \in [Term -> PlainLog], NEW l \in PlainLog, NEW L \in PlainLog,
           Traced(l, ledgerOf), Traced(L, ledgerOf),
           NEW p \in Nat, NEW es, IsBatch(Cmd, Term, p, es), p + Len(es) <= LastIndex(L),
           \A k \in 1 .. Len(es) : es[k] = Get(L, p + k),
           p <= LastIndex(l), p # 0 => Get(l, p).term = Get(L, p).term,
           NEW m \in StoredLog, MergeResult(l, p, es, m)
    PROVE  MergedWith(l, L, p + Len(es), m)
<1>0. /\ Len(es) \in Nat /\ LastIndex(l) \in Nat /\ LastIndex(L) \in Nat
      /\ SnapshotIndex(l) = 0 /\ p <= LastIndex(L)
  <2>1. Len(es) \in Nat
    BY DEF IsBatch
  <2>2. LastIndex(l) \in Nat /\ LastIndex(L) \in Nat /\ SnapshotIndex(l) = 0
    BY PlainFacts
  <2> QED
    BY <2>1, <2>2
<1>1. Agree(l, L, p)
  <2>1. CASE p = 0
    BY <1>0, <2>1 DEF Agree
  <2>2. CASE p # 0
    BY <1>0, <2>2, TracedAgree
  <2> QED
    BY <2>1, <2>2
<1>2. ASSUME NEW k \in 0 .. Len(es), \A q \in 1 .. k : ~Diverges(l, p, es, q)
      PROVE  Agree(l, L, p + k)
  <2>1. CASE k = 0
    BY <1>1, <2>1
  <2>2. CASE k # 0
    <3> DEFINE i == p + k
    <3>1. i \in Int /\ 1 <= i /\ i <= LastIndex(L) /\ k \in 1 .. Len(es) /\ i > 0
      BY <1>0, <2>2
    <3>2. Get(l, i).term = es[k].term /\ es[k] = Get(L, i)
      BY <1>0, <1>2, <3>1 DEF Diverges
    <3> HIDE DEF i
    <3>3. Get(L, i).term # 0
      BY <3>1, PlainEntry
    <3>4. i <= LastIndex(l)
      <4> SUFFICES ASSUME i > LastIndex(l) PROVE FALSE
        BY <1>0, <3>1
      <4>1. Get(l, i).term = 0
        BY <3>1, PlainBeyond
      <4> QED
        BY <3>2, <3>3, <4>1
    <3>5. Agree(l, L, i)
      BY <3>1, <3>2, <3>4, TracedAgree
    <3> QED
      BY <3>5 DEF i
  <2> QED
    BY <2>1, <2>2
<1>3. CASE m = l /\ \A k \in 1 .. Len(es) : ~Diverges(l, p, es, k)
  <2>1. Agree(l, L, p + Len(es))
    BY <1>0, <1>2, <1>3
  <2> QED
    BY <1>3, <2>1 DEF MergedWith
<1>4. CASE \E k \in 1 .. Len(es) : MergedAt(l, p, es, k, m)
  <2>1. PICK k \in 1 .. Len(es) : MergedAt(l, p, es, k, m)
    BY <1>4
  <2>2. k \in Nat /\ k >= 1 /\ k <= Len(es)
    BY <1>0
  <2>3. /\ Diverges(l, p, es, k) /\ LastIndex(m) = p + Len(es)
        /\ \A i \in 0 .. p + k - 1 : Get(m, i) = Get(l, i)
        /\ \A i \in p + k .. p + Len(es) : Get(m, i) = es[i - p]
    BY <1>0, <2>1 DEF MergedAt
  <2>4. Agree(l, L, p + (k - 1))
    <3>1. k - 1 \in 0 .. Len(es) /\ \A q \in 1 .. k - 1 : ~Diverges(l, p, es, q)
      BY <1>0, <2>1, <2>2 DEF MergedAt
    <3> QED
      BY <1>2, <3>1
  <2>5. ASSUME NEW j \in 1 .. p + Len(es) PROVE Get(m, j) = Get(L, j)
    <3>1. CASE j \in 1 .. p + (k - 1)
      <4>1. j \in 0 .. p + k - 1
        BY <2>2, <3>1
      <4>2. Get(l, j) = Get(L, j)
        BY <2>4, <3>1 DEF Agree
      <4> QED
        BY <2>3, <4>1, <4>2
    <3>2. CASE j \in p + k .. p + Len(es)
      <4>1. j - p \in 1 .. Len(es) /\ p + (j - p) = j
        BY <1>0, <2>2, <3>2
      <4>2. es[j - p] = Get(L, p + (j - p))
        BY <4>1
      <4>3. Get(m, j) = es[j - p]
        BY <2>3, <3>2
      <4> QED
        BY <4>1, <4>2, <4>3
    <3> QED
      BY <1>0, <2>2, <3>1, <3>2
  <2>6. Agree(m, L, p + Len(es))
    BY <1>0, <2>3, <2>5 DEF Agree
  <2>7. m \in PlainLog
    <3>1. Get(m, 0) = Get(l, 0)
      BY <1>0, <2>2, <2>3
    <3>2. Get(m, 0).term = 0
      BY <3>1, PlainZero DEF ZeroEntry
    <3>3. SnapshotIndex(m) = 0
      BY <1>0 DEF MergeResult
    <3> QED
      BY <3>2, <3>3, PlainIntro
  <2>8. ASSUME NEW i \in Int, Agree(l, L, i) PROVE Agree(m, L, i)
    <3>1. i < p + k
      <4> SUFFICES ASSUME p + k <= i PROVE FALSE
        BY <1>0, <2>2
      <4>1. Agree(l, L, p + k)
        BY <2>2, <2>8, AgreeDown
      <4>2. Get(l, p + k) = Get(L, p + k)
        BY <2>2, <4>1 DEF Agree
      <4> QED
        BY <2>3, <4>2 DEF Diverges
    <3>2. i <= p + Len(es) /\ p + Len(es) \in Int
      BY <1>0, <2>2, <3>1
    <3> QED
      BY <2>6, <2>7, <3>2, AgreeDown
  <2> QED
    BY <2>3, <2>6, <2>7, <2>8 DEF MergedWith
<1> QED
  BY <1>3, <1>4 DEF MergeResult

\* So does HandleAppendEntries when it accepts a call.
LEMMA AcceptAgrees ==
    ASSUME ~BootWindow, RaftTypeInv, LedgerInv, CallsTraced,
           NEW m \in calls, NEW d \in BOOLEAN, AcceptAppendEntries(m, d)
    PROVE  /\ m.to \in Node /\ m.term \in Term /\ loaded[m.to]
           /\ MergedWith(log[m.to], leaderLog[m.term], m.prevIndex + Len(m.entries),
                         AppendBatch(log[m.to], m.entries))
<1> DEFINE l == log[m.to]
           L == leaderLog[m.term]
           p == m.prevIndex
           es == m.entries
           r == AppendBatch(l, es)
<1>1. Sent(m) /\ TypeOK /\ m.kind = "Append"
  BY DEF RaftTypeInv, ElectionInv, CallsOK, AcceptAppendEntries
<1>2. /\ m.to \in Node /\ m.term \in Term /\ p \in Index /\ IsBatch(Cmd, Term, p, es)
  BY <1>1, CallFacts
<1>3. /\ l \in PlainLog /\ L \in PlainLog /\ leaderLog \in [Term -> PlainLog]
      /\ loaded[m.to]
  BY <1>2 DEF LedgerInv, LogsPlain, AcceptAppendEntries, ObserveLeader, Serving
<1>4. Traced(l, leaderLog) /\ Traced(L, leaderLog)
  <2>1. diskLog[m.to] = l
    BY <1>2, <1>3 DEF LedgerInv, MemoryOK
  <2>2. Traced(diskLog[m.to], leaderLog) /\ Traced(L, leaderLog)
    BY <1>2 DEF LedgerInv, LogsTraced
  <2> QED
    BY <2>1, <2>2
<1>5. /\ p + Len(es) <= LastIndex(L) /\ m.prevTerm = Get(L, p).term
      /\ \A k \in 1 .. Len(es) : es[k] = Get(L, p + k)
  BY DEF CallsTraced, FromLeader
<1>6. r \in StoredLog /\ MergeResult(l, p, es, r) /\ p <= LastIndex(l)
  BY AcceptedLog
<1>7. p # 0 => Get(l, p).term = Get(L, p).term
  <2> SUFFICES ASSUME p # 0 PROVE Get(l, p).term = Get(L, p).term
    OBVIOUS
  <2>1. p > 0
    BY <1>2 DEF Index
  <2>2. ~PrevMissing(m) /\ ~PrevConflicts(m)
    BY DEF AcceptAppendEntries
  <2> QED
    BY <1>5, <2>1, <2>2 DEF PrevMissing, PrevConflicts
<1>8. p \in Nat
  BY <1>2 DEF Index
<1> HIDE DEF l, L, p, es, r
<1>9. MergedWith(l, L, p + Len(es), r)
  BY <1>2, <1>3, <1>4, <1>5, <1>6, <1>7, <1>8, MergeAgrees
<1> QED
  BY <1>2, <1>3, <1>9 DEF l, L, p, es, r

-----------------------------------------------------------------------------
(* The logs after a step.                                                  *)

\* Submit extends the leader's log by one entry of its own term.
LEMMA SubmitPlain ==
    ASSUME RaftTypeInv, LogsPlain, NEW n \in Node, NEW c \in Cmd, NEW S, Submit(n, c, S)
    PROVE  /\ log'[n] \in PlainLog /\ Prefix(log[n], log'[n])
           /\ LastIndex(log'[n]) = LastIndex(log[n]) + 1
           /\ Get(log'[n], LastIndex(log[n]) + 1).term = currentTerm[n]
           /\ log' = [log EXCEPT ![n] = log'[n]] /\ diskLog' = [diskLog EXCEPT ![n] = log'[n]]
           /\ leaderLog' = [leaderLog EXCEPT ![currentTerm[n]] = log'[n]]
           /\ state[n] = Leader /\ loaded[n] /\ currentTerm[n] \in Term
           /\ UNCHANGED <<loaded, elected, currentTerm, state, disk>>
<1> DEFINE e == [term |-> currentTerm[n], index |-> LastIndex(log[n]) + 1, cmd |-> c]
           l == log[n] \o <<e>>
<1>1. /\ log[n] \in StoredLog /\ LastIndex(log[n]) < MaxIndex
      /\ currentTerm[n] \in Term /\ currentTerm[n] # 0 /\ state[n] = Leader /\ loaded[n]
  BY NodeFacts DEF Submit
<1>2. l \in StoredLog
  BY <1>1, SubmittedLog
<1>3. /\ SnapshotIndex(l) = SnapshotIndex(log[n])
      /\ LastIndex(l) = LastIndex(log[n]) + 1 /\ Get(l, LastIndex(log[n]) + 1) = e
      /\ \A i \in SnapshotIndex(log[n]) .. LastIndex(log[n]) : Get(l, i) = Get(log[n], i)
  BY <1>1, SubmittedLog
<1>4. /\ log' = [log EXCEPT ![n] = l] /\ diskLog' = [diskLog EXCEPT ![n] = l]
      /\ leaderLog' = [leaderLog EXCEPT ![currentTerm[n]] = l]
      /\ UNCHANGED <<loaded, elected, currentTerm, state, disk>>
  BY DEF Submit, PersistLog, OnlyLogChanges, nodeVars
<1>5. e.term = currentTerm[n]
  OBVIOUS
<1> HIDE DEF l, e
<1>6. log[n] \in PlainLog /\ log \in [Node -> PlainLog]
  BY DEF LogsPlain
<1>7. log'[n] = l
  BY <1>4, <1>6
<1>8. LastIndex(log[n]) \in Nat /\ SnapshotIndex(log[n]) = 0
  BY <1>6, PlainFacts
<1>9. l \in PlainLog
  <2>1. Get(l, 0) = Get(log[n], 0) /\ SnapshotIndex(l) = 0
    BY <1>3, <1>8
  <2>2. Get(l, 0).term = 0
    BY <1>6, <2>1, PlainZero DEF ZeroEntry
  <2> QED
    BY <1>2, <2>1, <2>2, PlainIntro
<1>10. Prefix(log[n], l)
  <2>1. \A i \in 1 .. LastIndex(log[n]) : Get(log[n], i) = Get(l, i)
    BY <1>3, <1>8
  <2>2. LastIndex(log[n]) <= LastIndex(log[n]) /\ LastIndex(log[n]) <= LastIndex(l)
    BY <1>3, <1>8
  <2> QED
    BY <2>1, <2>2 DEF Prefix, Agree
<1> QED
  BY <1>1, <1>3, <1>4, <1>5, <1>7, <1>9, <1>10

\* A log is a prefix of itself.
LEMMA PrefixSelf ==
    ASSUME NEW l \in PlainLog PROVE Prefix(l, l)
<1>1. LastIndex(l) \in Nat
  BY PlainFacts
<1>2. LastIndex(l) <= LastIndex(l)
  BY <1>1
<1> QED
  BY <1>2 DEF Prefix, Agree

\* A new node's log is a prefix of every log.
LEMMA PrefixEmpty ==
    ASSUME NEW l \in PlainLog PROVE Prefix(EmptyLog, l)
<1>1. LastIndex(l) \in Nat /\ LastIndex(EmptyLog) = 0
  BY PlainFacts, EmptyPlain
<1> QED
  BY <1>1 DEF Prefix, Agree

\* What is known of the logs after a step.
LogsAfter ==
    /\ log' \in [Node -> PlainLog] /\ diskLog' \in [Node -> PlainLog]
    /\ leaderLog' \in [Term -> PlainLog]
    /\ \A t \in Term : Prefix(leaderLog[t], leaderLog'[t])
    /\ MemoryOK' /\ LeaderLogOK' /\ LogsTraced'

\* Every step keeps the logs traced to the leaders' logs.
LEMMA LogsStep ==
    ASSUME Setting, MatchInv, [Next]_raftVars
    PROVE  LogsAfter
<1>i. /\ VoteInv /\ RaftTypeInv /\ LedgerInv /\ CallsTraced /\ TypeOK /\ ElectionInv
      /\ LogsPlain /\ MemoryOK /\ ElectedOK /\ LeaderLogOK /\ LogsTraced
  BY DEF MatchInv, LedgerInv, VoteInv, ElectionInv
<1>f. /\ VoteInv' /\ RaftTypeInv' /\ elected \subseteq elected'
      /\ \A n \in Node : RoleKept(n) /\ disk'[n].term >= disk[n].term
  BY <1>i, StepFacts
<1>v. /\ log \in [Node -> PlainLog] /\ diskLog \in [Node -> PlainLog]
      /\ leaderLog \in [Term -> PlainLog] /\ Term \subseteq Nat
  BY <1>i, Ranges DEF LogsPlain
<1>t. \A n \in Node : /\ disk[n].term \in Nat /\ disk'[n].term \in Nat /\ currentTerm[n] \in Term
                      /\ loaded \in [Node -> BOOLEAN]
                      /\ loaded[n] => disk[n].term = currentTerm[n]
  BY <1>i, <1>f, <1>v DEF RaftTypeInv, ElectionInv, TypeOK, DiskInSync
<1>e. ASSUME NEW a \in Node, state[a] = Leader PROVE <<currentTerm[a], a>> \in elected
  BY <1>i, <1>e, NodeFacts
\* The parts that hold once the leaders' logs only grew.
<1>T. ASSUME leaderLog' \in [Term -> PlainLog],
             \A t \in Term : Prefix(leaderLog[t], leaderLog'[t]),
             NEW l \in PlainLog, Traced(l, leaderLog)
      PROVE  Traced(l, leaderLog')
  BY <1>T, <1>v, TracedGrows
<1>D. ASSUME leaderLog' \in [Term -> PlainLog],
             \A t \in Term : Prefix(leaderLog[t], leaderLog'[t]),
             NEW n \in Node, diskLog'[n] = diskLog[n]
      PROVE  Traced(diskLog'[n], leaderLog') /\ TermsUpTo(diskLog'[n], disk'[n].term)
  <2>1. diskLog[n] \in PlainLog /\ disk[n].term \in Nat /\ disk'[n].term \in Nat
        /\ disk[n].term <= disk'[n].term
    BY <1>f, <1>t, <1>v
  <2>2. Traced(diskLog[n], leaderLog) /\ TermsUpTo(diskLog[n], disk[n].term)
    BY <1>i DEF LogsTraced
  <2>3. Traced(diskLog[n], leaderLog')
    BY <1>D, <1>T, <2>1, <2>2
  <2>4. TermsUpTo(diskLog[n], disk'[n].term)
    BY <2>1, <2>2, TermsRaise
  <2> QED
    BY <1>D, <2>3, <2>4
<1>L. ASSUME leaderLog' \in [Term -> PlainLog],
             \A t \in Term : Prefix(leaderLog[t], leaderLog'[t]),
             NEW t \in Term, leaderLog'[t] = leaderLog[t]
      PROVE  Traced(leaderLog'[t], leaderLog') /\ TermsUpTo(leaderLog'[t], t)
  <2>1. leaderLog[t] \in PlainLog
    BY <1>v
  <2>2. Traced(leaderLog[t], leaderLog) /\ TermsUpTo(leaderLog[t], t)
    BY <1>i DEF LogsTraced
  <2>3. Traced(leaderLog[t], leaderLog')
    BY <1>L, <1>T, <2>1, <2>2
  <2> QED
    BY <1>L, <2>2, <2>3
<1>S. \A t \in Term : Prefix(leaderLog[t], leaderLog[t])
  BY <1>v, PrefixSelf
\* Steps that elect nobody and leave the leaders' logs alone.
<1>N. ASSUME elected' = elected, leaderLog' = leaderLog, diskLog' = diskLog,
             \A n \in Node : state'[n] = Leader => log'[n] = log[n],
             log' \in [Node -> PlainLog], MemoryOK'
      PROVE  LogsAfter
  <2>1. leaderLog' \in [Term -> PlainLog] /\ \A t \in Term : Prefix(leaderLog[t], leaderLog'[t])
    BY <1>N, <1>S, <1>v
  <2>2. LogsTraced'
    BY <1>N, <1>D, <1>L, <2>1 DEF LogsTraced
  <2>3. LeaderLogOK'
    <3> SUFFICES ASSUME NEW n \in Node, state'[n] = Leader
                 PROVE  leaderLog'[currentTerm'[n]] = log'[n]
      BY DEF LeaderLogOK
    <3>1. currentTerm'[n] = currentTerm[n] /\ state[n] = Leader
      BY <1>N, <1>f, <1>i DEF RoleKept, ElectedOK
    <3> QED
      BY <1>N, <1>i, <3>1 DEF LeaderLogOK
  <2> QED
    BY <1>N, <1>v, <2>1, <2>2, <2>3 DEF LogsAfter
<1>1. CASE Quiet
  <2>1. MemoryOK'
    BY <1>1, <1>i DEF MemoryOK, Quiet
  <2> QED
    BY <1>1, <1>N, <1>v, <2>1 DEF Quiet
<1>2. ASSUME NEW n \in Node, WonBy(n) PROVE LogsAfter
  <2> DEFINE T == currentTerm[n]
  <2>1. /\ T \in Term /\ T \in Nat /\ loaded[n] /\ state[n] = Candidate
        /\ <<T, n>> \in elected' /\ state'[n] = Leader /\ leaderLog' = [leaderLog EXCEPT ![T] = log[n]]
        /\ UNCHANGED <<log, diskLog, loaded, currentTerm>>
    <3>1. /\ state[n] = Candidate /\ <<T, n>> \in elected' /\ state'[n] = Leader
          /\ leaderLog' = [leaderLog EXCEPT ![T] = log[n]]
          /\ UNCHANGED <<log, diskLog, loaded, currentTerm>>
      BY <1>2, <1>i DEF WonBy, TypeOK
    <3> QED
      BY <1>f, <1>t, <1>v, <3>1 DEF RoleKept
  <2>2. ASSUME NEW b \in Node, <<T, b>> \in elected' PROVE b = n
    <3>1. \A x, y \in Node : <<T, x>> \in elected' /\ <<T, y>> \in elected' => x = y
      <4> SUFFICES ASSUME NEW x \in Node, NEW y \in Node,
                          <<T, x>> \in elected', <<T, y>> \in elected'
                   PROVE  x = y
        OBVIOUS
      <4> HIDE DEF T
      <4>1. \E v \in Node : <<v, T, x>> \in grants' /\ <<v, T, y>> \in grants'
        <5>1. TypeOK' /\ ElectedByMajority'
          BY <1>f DEF VoteInv, ElectionInv
        <5>2. Cardinality({v \in Node : <<v, T, x>> \in grants'}) >= Majority
          BY <5>1 DEF ElectedByMajority
        <5>3. Cardinality({v \in Node : <<v, T, y>> \in grants'}) >= Majority
          BY <5>1 DEF ElectedByMajority
        <5> QED
          BY <5>2, <5>3, MajoritiesMeet
      <4> QED
        BY <1>f, <2>1, <4>1 DEF VoteInv, OneVote
    <3> QED
      BY <2>1, <2>2, <3>1
  <2>3. leaderLog[T] = EmptyLog
    <3>1. ASSUME NEW b \in Node PROVE <<T, b>> \notin elected
      <4> SUFFICES ASSUME <<T, b>> \in elected PROVE FALSE
        OBVIOUS
      <4>1. b = n
        BY <1>f, <2>2
      <4> QED
        BY <1>i, <2>1, <4>1 DEF ElectedOK
    <3> QED
      BY <1>i, <2>1, <3>1 DEF ElectedOK
  <2>4. leaderLog' \in [Term -> PlainLog] /\ log[n] \in PlainLog
    BY <1>v, <2>1
  <2> HIDE DEF T
  <2>5. ASSUME NEW t \in Term PROVE Prefix(leaderLog[t], leaderLog'[t])
    <3>1. CASE t = T
      <4>1. leaderLog'[t] = log[n]
        BY <1>v, <2>1, <3>1
      <4> QED
        BY <2>3, <2>4, <3>1, <4>1, PrefixEmpty
    <3>2. CASE t # T
      <4>1. leaderLog'[t] = leaderLog[t]
        BY <1>v, <2>1, <3>2
      <4> QED
        BY <1>S, <4>1
    <3> QED
      BY <3>1, <3>2
  <2>6. Traced(log[n], leaderLog') /\ TermsUpTo(log[n], T)
    <3>1. diskLog[n] = log[n] /\ disk[n].term = T
      BY <1>i, <1>t, <2>1 DEF MemoryOK, T
    <3>2. Traced(log[n], leaderLog) /\ TermsUpTo(log[n], T)
      BY <1>i, <3>1 DEF LogsTraced
    <3> QED
      BY <1>T, <2>4, <2>5, <3>2
  <2>7. LogsTraced'
    <3>1. ASSUME NEW t \in Term PROVE Traced(leaderLog'[t], leaderLog') /\ TermsUpTo(leaderLog'[t], t)
      <4>1. CASE t = T
        BY <1>v, <2>1, <2>6, <4>1
      <4>2. CASE t # T
        BY <1>L, <1>v, <2>1, <2>4, <2>5, <4>2
      <4> QED
        BY <4>1, <4>2
    <3>2. ASSUME NEW k \in Node
          PROVE  Traced(diskLog'[k], leaderLog') /\ TermsUpTo(diskLog'[k], disk'[k].term)
      BY <1>D, <2>1, <2>4, <2>5
    <3> QED
      BY <3>1, <3>2 DEF LogsTraced
  <2>8. LeaderLogOK'
    <3> SUFFICES ASSUME NEW k \in Node, state'[k] = Leader
                 PROVE  leaderLog'[currentTerm'[k]] = log'[k]
      BY DEF LeaderLogOK
    <3>1. CASE k = n
      BY <1>v, <2>1, <3>1 DEF T
    <3>2. CASE k # n
      <4>1. /\ currentTerm'[k] = currentTerm[k] /\ currentTerm[k] \in Term
            /\ <<currentTerm[k], k>> \in elected'
        BY <1>e, <1>f, <1>t DEF RoleKept
      <4>2. currentTerm[k] # T
        BY <2>2, <3>2, <4>1
      <4>3. state[k] = Leader
        BY <1>2, <1>i, <3>2 DEF WonBy, TypeOK
      <4>4. leaderLog'[currentTerm[k]] = leaderLog[currentTerm[k]]
        BY <1>v, <2>1, <4>1, <4>2
      <4> QED
        BY <1>i, <2>1, <4>1, <4>3, <4>4 DEF LeaderLogOK
    <3> QED
      BY <3>1, <3>2
  <2>9. MemoryOK'
    BY <1>i, <2>1 DEF MemoryOK
  <2> QED
    BY <1>v, <2>1, <2>4, <2>5, <2>7, <2>8, <2>9 DEF LogsAfter
<1>3. ASSUME NEW n \in Node, Crashed(n) PROVE LogsAfter
  <2>1. /\ log' = [log EXCEPT ![n] = EmptyLog] /\ loaded' = [loaded EXCEPT ![n] = FALSE]
        /\ diskLog' = diskLog /\ leaderLog' = leaderLog /\ elected' = elected
    BY <1>3 DEF Crashed
  <2>2. log' \in [Node -> PlainLog]
    BY <1>v, <2>1, EmptyPlain
  <2>3. MemoryOK'
    BY <1>i, <1>t, <1>v, <2>1 DEF MemoryOK
  <2>4. \A k \in Node : state'[k] = Leader => log'[k] = log[k]
    BY <1>f, <1>t, <1>v, <2>1 DEF RoleKept
  <2> QED
    BY <1>N, <2>1, <2>2, <2>3, <2>4
<1>4. ASSUME NEW n \in Node, Revived(n) PROVE LogsAfter
  <2>1. /\ log' = [log EXCEPT ![n] = diskLog[n]] /\ loaded' = [loaded EXCEPT ![n] = TRUE]
        /\ diskLog' = diskLog /\ leaderLog' = leaderLog /\ elected' = elected /\ ~loaded[n]
    BY <1>4 DEF Revived
  <2>2. log' \in [Node -> PlainLog]
    BY <1>v, <2>1
  <2>3. MemoryOK'
    BY <1>i, <1>t, <1>v, <2>1 DEF MemoryOK
  <2>4. \A k \in Node : state'[k] = Leader => log'[k] = log[k]
    BY <1>f, <1>t, <1>v, <2>1 DEF RoleKept
  <2> QED
    BY <1>N, <2>1, <2>2, <2>3, <2>4
<1>5. ASSUME NEW n \in Node, NEW c \in Cmd, NEW S, Submit(n, c, S) PROVE LogsAfter
  <2> DEFINE T == currentTerm[n]
             l == log'[n]
  <2>1. /\ l \in PlainLog /\ Prefix(log[n], l) /\ T \in Term /\ state[n] = Leader /\ loaded[n]
        /\ LastIndex(l) = LastIndex(log[n]) + 1 /\ Get(l, LastIndex(log[n]) + 1).term = T
    BY <1>i, <1>5, SubmitPlain
  <2>2. /\ log' = [log EXCEPT ![n] = l] /\ diskLog' = [diskLog EXCEPT ![n] = l]
        /\ leaderLog' = [leaderLog EXCEPT ![T] = l]
        /\ UNCHANGED <<loaded, elected, currentTerm, state, disk>>
    BY <1>i, <1>5, SubmitPlain
  <2> HIDE DEF T, l
  <2>3. leaderLog[T] = log[n] /\ <<T, n>> \in elected /\ disk[n].term = T
    BY <1>e, <1>i, <1>t, <2>1 DEF LeaderLogOK, T
  <2>4. /\ log' \in [Node -> PlainLog] /\ diskLog' \in [Node -> PlainLog]
        /\ leaderLog' \in [Term -> PlainLog] /\ log[n] \in PlainLog /\ T \in Nat
    BY <1>v, <2>1, <2>2
  <2>5. ASSUME NEW t \in Term PROVE Prefix(leaderLog[t], leaderLog'[t])
    BY <1>S, <1>v, <2>1, <2>2, <2>3
  <2>6. leaderLog'[T] = l
    BY <1>v, <2>1, <2>2
  <2>7. Traced(log[n], leaderLog') /\ TermsUpTo(log[n], T)
    <3>1. Traced(log[n], leaderLog) /\ TermsUpTo(log[n], T)
      BY <1>i, <2>1, <2>3 DEF LogsTraced
    <3> QED
      BY <1>T, <2>4, <2>5, <3>1
  <2>8. ASSUME NEW i \in 1 .. LastIndex(l)
        PROVE  Agree(l, leaderLog'[Get(l, i).term], i) /\ Get(l, i).term <= T
    <3>0. LastIndex(log[n]) \in Nat /\ i \in Int
      BY <2>4, PlainFacts
    <3>1. CASE i \in 1 .. LastIndex(log[n])
      <4>1. Get(l, i) = Get(log[n], i)
        BY <2>1, <3>1 DEF Prefix, Agree
      <4>2. Agree(log[n], leaderLog'[Get(l, i).term], i) /\ Get(l, i).term <= T
        BY <2>7, <3>1, <4>1 DEF Traced, TermsUpTo
      <4>3. Agree(log[n], l, i)
        <5>1. LastIndex(log[n]) \in Int /\ i <= LastIndex(log[n])
          BY <3>0, <3>1
        <5>2. Agree(log[n], l, LastIndex(log[n]))
          BY <2>1 DEF Prefix
        <5> QED
          BY <2>1, <2>4, <3>0, <5>1, <5>2, AgreeDown
      <4> QED
        BY <4>2, <4>3, AgreeFacts
    <3>2. CASE i = LastIndex(log[n]) + 1
      <4>1. Get(l, i).term = T /\ i <= LastIndex(l)
        BY <2>1, <3>0, <3>2
      <4>2. Agree(l, l, i)
        BY <2>1, <3>0, <4>1, AgreeSelf
      <4> QED
        BY <2>4, <2>6, <4>1, <4>2
    <3> QED
      BY <2>1, <3>0, <3>1, <3>2
  <2>9. Traced(l, leaderLog') /\ TermsUpTo(l, T)
    BY <2>8 DEF Traced, TermsUpTo
  <2>10. LogsTraced'
    <3>1. ASSUME NEW t \in Term PROVE Traced(leaderLog'[t], leaderLog') /\ TermsUpTo(leaderLog'[t], t)
      <4>1. CASE t = T
        BY <2>6, <2>9, <4>1
      <4>2. CASE t # T
        BY <1>L, <1>v, <2>2, <2>4, <2>5, <4>2
      <4> QED
        BY <4>1, <4>2
    <3>2. ASSUME NEW k \in Node
          PROVE  Traced(diskLog'[k], leaderLog') /\ TermsUpTo(diskLog'[k], disk'[k].term)
      <4>1. CASE k = n
        <5>1. diskLog'[k] = l /\ disk'[k].term = T
          BY <1>v, <2>2, <2>3, <4>1
        <5> QED
          BY <2>9, <5>1
      <4>2. CASE k # n
        BY <1>D, <1>v, <2>2, <2>4, <2>5, <4>2
      <4> QED
        BY <4>1, <4>2
    <3> QED
      BY <3>1, <3>2 DEF LogsTraced
  <2>11. LeaderLogOK'
    <3> SUFFICES ASSUME NEW k \in Node, state'[k] = Leader
                 PROVE  leaderLog'[currentTerm'[k]] = log'[k]
      BY DEF LeaderLogOK
    <3>1. CASE k = n
      BY <1>v, <2>2, <2>6, <3>1 DEF T
    <3>2. CASE k # n
      <4>1. state[k] = Leader /\ currentTerm[k] \in Term /\ <<currentTerm[k], k>> \in elected
        BY <1>e, <1>t, <2>2
      <4>2. currentTerm[k] # T
        BY <1>i, <2>1, <2>3, <3>2, <4>1, ElectedOnce
      <4>3. leaderLog'[currentTerm[k]] = leaderLog[currentTerm[k]]
        BY <1>v, <2>2, <4>1, <4>2
      <4> QED
        BY <1>i, <1>v, <2>2, <3>2, <4>1, <4>3 DEF LeaderLogOK
    <3> QED
      BY <3>1, <3>2
  <2>12. MemoryOK'
    BY <1>i, <1>v, <2>1, <2>2 DEF MemoryOK
  <2> QED
    BY <2>4, <2>5, <2>10, <2>11, <2>12 DEF LogsAfter
<1>6. ASSUME NEW m \in calls, NEW d \in BOOLEAN, AcceptAppendEntries(m, d) PROVE LogsAfter
  <2> DEFINE n == m.to
             l == AppendBatch(log[n], m.entries)
             L == leaderLog[m.term]
             end == m.prevIndex + Len(m.entries)
  <2>1. n \in Node /\ m.term \in Term /\ loaded[n] /\ MergedWith(log[n], L, end, l)
    BY <1>i, <1>6, AcceptAgrees DEF Setting
  <2>2. /\ log' = [log EXCEPT ![n] = l] /\ diskLog' = [diskLog EXCEPT ![n] = l]
        /\ leaderLog' = leaderLog /\ loaded' = loaded /\ elected' = elected
        /\ currentTerm' = [currentTerm EXCEPT ![n] = m.term]
    BY <1>6 DEF AcceptAppendEntries, ObserveLeader, PersistLog
  <2>3. Sent(m)
    BY <1>i DEF RaftTypeInv, CallsOK
  <2>4. m.from \in Node /\ <<m.term, m.from>> \in elected /\ m.from # n
    BY <1>i, <2>3, CallFacts
  <2>5. disk'[n].term = m.term
    <3>1. loaded'[n] /\ ElectionInv'
      BY <1>f, <2>1, <2>2 DEF VoteInv
    <3>2. disk'[n].term = currentTerm'[n]
      BY <2>1, <3>1 DEF ElectionInv, DiskInSync
    <3> QED
      BY <1>i, <2>1, <2>2, <3>2 DEF TypeOK
  <2> HIDE DEF n, l, L, end
  <2>6. l \in PlainLog /\ L \in PlainLog /\ m.term \in Nat /\ log[n] \in PlainLog
    BY <1>v, <2>1 DEF MergedWith, L
  <2>7. /\ log' \in [Node -> PlainLog] /\ diskLog' \in [Node -> PlainLog]
        /\ leaderLog' \in [Term -> PlainLog]
        /\ \A t \in Term : Prefix(leaderLog[t], leaderLog'[t])
    BY <1>S, <1>v, <2>1, <2>2, <2>6
  <2>8. Traced(l, leaderLog) /\ TermsUpTo(l, disk'[n].term)
    <3>1. CASE l = log[n]
      <4>1. diskLog[n] = l /\ diskLog[n] \in PlainLog
        BY <1>i, <1>v, <2>1, <3>1 DEF MemoryOK
      <4>2. /\ Traced(diskLog[n], leaderLog) /\ TermsUpTo(diskLog[n], disk[n].term)
            /\ disk[n].term \in Nat /\ disk'[n].term \in Nat /\ disk[n].term <= disk'[n].term
        BY <1>i, <1>t, <1>f, <2>1 DEF LogsTraced
      <4>3. TermsUpTo(diskLog[n], disk'[n].term)
        BY <4>1, <4>2, TermsRaise
      <4> QED
        BY <4>1, <4>2, <4>3
    <3>2. CASE LastIndex(l) = end
      <4>1. Prefix(l, L)
        BY <2>1, <3>2 DEF MergedWith, Prefix
      <4>2. Traced(L, leaderLog) /\ TermsUpTo(L, m.term)
        BY <1>i, <2>1 DEF LogsTraced, L
      <4>3. Traced(l, leaderLog)
        BY <1>v, <2>6, <4>1, <4>2, TracedPart
      <4>4. TermsUpTo(l, m.term)
        BY <2>6, <4>1, <4>2, TermsPart
      <4> QED
        BY <2>5, <4>3, <4>4
    <3> QED
      BY <2>1, <3>1, <3>2 DEF MergedWith
  <2>9. LogsTraced'
    <3>1. ASSUME NEW t \in Term PROVE Traced(leaderLog'[t], leaderLog') /\ TermsUpTo(leaderLog'[t], t)
      BY <1>L, <2>2, <2>7
    <3>2. ASSUME NEW k \in Node
          PROVE  Traced(diskLog'[k], leaderLog') /\ TermsUpTo(diskLog'[k], disk'[k].term)
      <4>1. CASE k = n
        <5>1. diskLog'[k] = l
          BY <1>v, <2>2, <4>1
        <5> QED
          BY <2>2, <2>8, <4>1, <5>1
      <4>2. CASE k # n
        BY <1>D, <1>v, <2>2, <2>7, <4>2
      <4> QED
        BY <4>1, <4>2
    <3> QED
      BY <3>1, <3>2 DEF LogsTraced
  <2>10. ASSUME state'[n] = Leader PROVE FALSE
    <3>1. currentTerm'[n] = currentTerm[n] /\ currentTerm'[n] = m.term
      BY <1>f, <1>i, <2>1, <2>2, <2>10 DEF RoleKept, TypeOK
    <3>2. <<m.term, n>> \in elected
      BY <1>e, <1>f, <2>1, <2>2, <2>10, <3>1 DEF RoleKept
    <3> QED
      BY <1>i, <2>1, <2>4, <3>2, ElectedOnce
  <2>11. LeaderLogOK'
    <3> SUFFICES ASSUME NEW k \in Node, state'[k] = Leader
                 PROVE  leaderLog'[currentTerm'[k]] = log'[k]
      BY DEF LeaderLogOK
    <3>1. currentTerm'[k] = currentTerm[k] /\ state[k] = Leader
      BY <1>f, <1>i, <2>2 DEF RoleKept, ElectedOK
    <3>2. k # n
      BY <2>10
    <3> QED
      BY <1>i, <1>v, <2>2, <3>1, <3>2 DEF LeaderLogOK
  <2>12. MemoryOK'
    BY <1>i, <1>v, <2>1, <2>2 DEF MemoryOK
  <2> QED
    BY <2>7, <2>9, <2>11, <2>12 DEF LogsAfter
<1> QED
  <2>1. \/ Quiet
        \/ \E n \in Node : WonBy(n) \/ Crashed(n) \/ Revived(n)
        \/ \E n \in Node, c \in Cmd : \E S \in SUBSET Peers(n) : Submit(n, c, S)
        \/ \E m \in calls, d \in BOOLEAN : AcceptAppendEntries(m, d)
    BY <1>i, LogShape
  <2> QED
    BY <1>1, <1>2, <1>3, <1>4, <1>5, <1>6, <2>1

-----------------------------------------------------------------------------
(* Elections and the ledger.                                               *)

\* Nobody is elected twice in a term, and a term without a leader has no log.
LEMMA ElectedStep ==
    ASSUME Setting, MatchInv, [Next]_raftVars
    PROVE  ElectedOK'
<1>i. /\ VoteInv /\ RaftTypeInv /\ ElectionInv /\ ElectedOK /\ LogsPlain /\ MemoryOK
      /\ TermsPositive
  BY DEF MatchInv, LedgerInv, VoteInv, RaftTypeInv
<1>f. /\ VoteInv' /\ elected \subseteq elected' /\ grants \subseteq grants'
      /\ \A n \in Node : RoleKept(n)
  BY <1>i, StepFacts
<1>1. ASSUME NEW t \in Term, NEW n \in Node, <<t, n>> \in elected'
      PROVE  t # 0 /\ <<n, t, n>> \in grants'
  <2>1. CASE <<t, n>> \in elected
    BY <1>f, <1>i, <2>1 DEF ElectedOK
  <2>2. CASE t = currentTerm[n] /\ state[n] = Candidate
    <3>1. state[n] # Follower
      BY <2>2 DEF Candidate, Follower
    <3>2. t # 0
      BY <1>i, <2>2, <3>1 DEF TermsPositive
    <3>3. <<n, t, n>> \in grants
      BY <1>i, <2>2, <3>1 DEF ElectionInv, StandsWithOwnVote
    <3> QED
      BY <1>f, <3>2, <3>3
  <2> QED
    BY <1>1, <1>f, <2>1, <2>2 DEF RoleKept
<1>2. ASSUME NEW n \in Node, state'[n] = Candidate, <<currentTerm'[n], n>> \in elected'
      PROVE  FALSE
  <2>t. currentTerm'[n] \in Term /\ currentTerm[n] \in Term
    BY <1>f, <1>i DEF VoteInv, ElectionInv, TypeOK
  <2>1. CASE state[n] = Candidate /\ currentTerm'[n] = currentTerm[n]
    <3>1. <<currentTerm[n], n>> \notin elected
      BY <1>i, <2>1 DEF ElectedOK
    <3>2. state'[n] = Leader
      BY <1>2, <1>f, <2>1, <2>t, <3>1 DEF RoleKept
    <3> QED
      BY <1>2, <3>2 DEF Leader, Candidate
  <2>2. CASE loaded[n] /\ currentTerm'[n] = currentTerm[n] + 1 /\ elected' = elected
    <3>1. <<n, currentTerm'[n], n>> \in grants
      BY <1>2, <1>i, <2>2, <2>t DEF ElectedOK
    <3>2. currentTerm'[n] <= disk[n].term
      BY <1>i, <2>t, <3>1 DEF ElectionInv, GrantsRecorded
    <3>3. disk[n].term = currentTerm[n] /\ currentTerm[n] \in Nat
      BY <1>i, <2>2, NodeFacts
    <3> QED
      BY <2>2, <3>2, <3>3
  <2> QED
    BY <1>2, <1>f, <2>1, <2>2 DEF RoleKept
<1>3. ASSUME NEW t \in Term, \A n \in Node : <<t, n>> \notin elected'
      PROVE  leaderLog'[t] = EmptyLog
  <2>0. leaderLog[t] = EmptyLog /\ leaderLog \in [Term -> PlainLog]
    BY <1>3, <1>f, <1>i DEF ElectedOK, LogsPlain
  <2>1. ASSUME NEW n \in Node, WonBy(n) PROVE leaderLog'[t] = leaderLog[t]
    <3>1. t # currentTerm[n]
      BY <1>3, <2>1 DEF WonBy
    <3> QED
      BY <2>0, <2>1, <3>1 DEF WonBy
  <2>2. ASSUME NEW n \in Node, NEW c \in Cmd, NEW S, Submit(n, c, S)
        PROVE  leaderLog'[t] = leaderLog[t]
    <3>1. state[n] = Leader /\ leaderLog' = [leaderLog EXCEPT ![currentTerm[n]] = log'[n]]
      BY <1>i, <2>2, SubmitPlain
    <3>2. <<currentTerm[n], n>> \in elected'
      BY <1>f, <1>i, <3>1, NodeFacts
    <3> QED
      BY <1>3, <2>0, <3>1, <3>2
  <2>3. leaderLog'[t] = leaderLog[t]
    <3>1. \/ Quiet
          \/ \E n \in Node : WonBy(n) \/ Crashed(n) \/ Revived(n)
          \/ \E n \in Node, c \in Cmd : \E S \in SUBSET Peers(n) : Submit(n, c, S)
          \/ \E m \in calls, d \in BOOLEAN : AcceptAppendEntries(m, d)
      BY <1>i, LogShape
    <3> QED
      BY <2>1, <2>2, <3>1 DEF Quiet, Crashed, Revived, AcceptAppendEntries
  <2> QED
    BY <2>0, <2>3
<1> QED
  BY <1>1, <1>2, <1>3 DEF ElectedOK

-----------------------------------------------------------------------------
(* What is on the network.                                                 *)

\* A piece of the leader's log stays one while that log grows.
LEMMA CallGrows ==
    ASSUME NEW ledgerOf \in [Term -> PlainLog], NEW newer \in [Term -> PlainLog],
           \A t \in Term : Prefix(ledgerOf[t], newer[t]),
           NEW m, m.term \in Term, m.prevIndex \in Nat, Len(m.entries) \in Nat,
           FromLeader(m, ledgerOf)
    PROVE  FromLeader(m, newer)
<1> DEFINE L == ledgerOf[m.term]
           N == newer[m.term]
           p == m.prevIndex
           es == m.entries
           k == Len(es)
<1>1. /\ p + k <= LastIndex(L) /\ m.prevTerm = Get(L, p).term
      /\ \A j \in 1 .. k : es[j] = Get(L, p + j)
  BY DEF FromLeader
<1>2. L \in PlainLog /\ N \in PlainLog /\ Prefix(L, N) /\ p \in Nat /\ k \in Nat
  OBVIOUS
<1> HIDE DEF L, N, p, es, k
<1>3. LastIndex(L) \in Nat /\ LastIndex(N) \in Nat
  BY <1>2, PlainFacts
<1>4. LastIndex(L) <= LastIndex(N) /\ \A j \in 1 .. LastIndex(L) : Get(L, j) = Get(N, j)
  BY <1>2 DEF Prefix, Agree
<1>5. Get(L, p) = Get(N, p)
  <2>1. CASE p = 0
    BY <1>2, <2>1, PlainZero
  <2>2. CASE p # 0
    BY <1>1, <1>2, <1>3, <1>4, <2>2
  <2> QED
    BY <2>1, <2>2
<1>6. p + k <= LastIndex(N)
  BY <1>1, <1>2, <1>3, <1>4
<1>7. ASSUME NEW j \in 1 .. k PROVE es[j] = Get(N, p + j)
  <2>1. p + j \in 1 .. LastIndex(L)
    BY <1>1, <1>2, <1>3
  <2> QED
    BY <1>1, <1>4, <2>1
<1> QED
  BY <1>1, <1>5, <1>6, <1>7 DEF FromLeader, L, N, p, es, k

\* The batch that buildArgsLocked cuts out of a log is the suffix from an index.
LEMMA PlainSlice ==
    ASSUME NEW l \in PlainLog, NEW from \in Nat, from >= 1
    PROVE  LET es == Slice(l, from, LastIndex(l) + 1)
           IN  /\ Len(es) = IF from <= LastIndex(l) THEN LastIndex(l) - from + 1 ELSE 0
               /\ \A k \in 1 .. Len(es) : es[k] = Get(l, from - 1 + k)
<1>1. IsLog(Cmd, Term, l) /\ Term \in SUBSET Nat /\ from > SnapshotIndex(l)
  BY PlainFacts, Ranges
<1> QED
  BY <1>1, SliceFacts, ZenonT(30)

\* What BuildArgs puts on the network is a piece of the leader's log that
\* reaches its end.
LEMMA BuiltFromLeader ==
    ASSUME NEW n, NEW p, NEW l \in PlainLog, NEW ledgerOf, ledgerOf[currentTerm[n]] = l,
           nextIndex[n][p] \in 1 .. LastIndex(l) + 1
    PROVE  LET m == BuildArgs(n, l, p)
           IN  /\ m.kind = "Append" /\ FromLeader(m, ledgerOf)
               /\ m.prevIndex + Len(m.entries) = LastIndex(l)
               /\ m.term = currentTerm[n] /\ m.commit = commitIndex[n]
<1> DEFINE from == nextIndex[n][p]
           es == Slice(l, from, LastIndex(l) + 1)
           m == BuildArgs(n, l, p)
<1>1. /\ LastIndex(l) \in Nat /\ SnapshotIndex(l) = 0 /\ IsLog(Cmd, Term, l)
      /\ Term \in SUBSET Nat
  BY PlainFacts, Ranges
<1>2. from \in Nat /\ from > SnapshotIndex(l) /\ from >= 1 /\ from <= LastIndex(l) + 1
  BY <1>1
<1>3. m = [kind |-> "Append", from |-> n, to |-> p, term |-> currentTerm[n],
           prevIndex |-> from - 1, prevTerm |-> Get(l, from - 1).term,
           entries |-> es, commit |-> commitIndex[n], waiting |-> TRUE]
  BY <1>1, <1>2 DEF BuildArgs
<1> HIDE DEF from, m
<1>4. Len(es) = IF from <= LastIndex(l) THEN LastIndex(l) - from + 1 ELSE 0
  BY <1>2, PlainSlice
<1>5. \A k \in 1 .. Len(es) : es[k] = Get(l, from - 1 + k)
  BY <1>2, PlainSlice
<1> HIDE DEF es
<1>6. from - 1 + Len(es) = LastIndex(l)
  BY <1>1, <1>2, <1>4
<1>7. /\ m.kind = "Append" /\ m.term = currentTerm[n] /\ m.prevIndex = from - 1
      /\ m.prevTerm = Get(l, from - 1).term /\ m.entries = es /\ m.commit = commitIndex[n]
  BY <1>3
<1>8. FromLeader(m, ledgerOf)
  BY <1>1, <1>5, <1>6, <1>7 DEF FromLeader
<1> QED
  BY <1>6, <1>7, <1>8 DEF m

MessagesAfter ==
    /\ \A n \in Node : snapFile'[n].index = 0
    /\ \A m \in calls' : m.kind = "Append"
    /\ \A a \in answers' : a.call.kind = "Append"
    /\ CallsTraced'

\* Every call carries a part of the log of its term's leader, also when the
\* leader has meanwhile appended more or stepped down.
LEMMA MessagesTraced ==
    ASSUME Setting, MatchInv, [Next]_raftVars
    PROVE  MessagesAfter
<1>i. /\ VoteInv /\ RaftTypeInv /\ LogsPlain /\ MemoryOK /\ CallsTraced /\ TypeOK
      /\ TrackingOK /\ ElectionInv /\ LeaderLogOK /\ ~QuorumLoss /\ Compacting = {} /\ ~BootWindow
  BY DEF MatchInv, LedgerInv, VoteInv, ElectionInv, Setting
<1>v. /\ log \in [Node -> PlainLog] /\ leaderLog \in [Term -> PlainLog]
      /\ leaderLog' \in [Term -> PlainLog]
      /\ \A t \in Term : Prefix(leaderLog[t], leaderLog'[t])
      /\ \A n \in Node : snapFile[n].index = 0
  BY <1>i, LogsStep DEF LogsAfter, LogsPlain
<1>s. ASSUME NEW m, Sent(m), m.kind = "Append"
      PROVE  /\ m.to \in Node /\ m.from \in Node /\ m.term \in Term /\ m.prevIndex \in Index
             /\ m.prevIndex \in Nat /\ Len(m.entries) \in Nat
  <2>1. /\ m.to \in Node /\ m.from \in Node /\ m.term \in Term /\ m.prevIndex \in Index
        /\ IsBatch(Cmd, Term, m.prevIndex, m.entries)
    BY <1>i, <1>s, CallFacts
  <2>2. Len(m.entries) \in Nat
    BY <2>1 DEF IsBatch
  <2>3. m.prevIndex \in Nat
    BY <2>1, Ranges
  <2> QED
    BY <2>1, <2>2, <2>3
<1>m. ASSUME NEW m \in calls
      PROVE  /\ m.kind = "Append" /\ Sent(m) /\ FromLeader(m, leaderLog')
             /\ m.to \in Node /\ m.from \in Node /\ m.prevIndex \in Nat
  <2>1. m.kind = "Append" /\ Sent(m) /\ FromLeader(m, leaderLog)
    BY <1>i DEF LogsPlain, RaftTypeInv, CallsOK, CallsTraced
  <2>2. m.term \in Term /\ m.prevIndex \in Nat /\ Len(m.entries) \in Nat
    BY <1>s, <2>1
  <2>3. FromLeader(m, leaderLog')
    BY <1>v, <2>1, <2>2, CallGrows
  <2> QED
    BY <1>s, <2>1, <2>3
<1>a. ASSUME NEW a \in answers
      PROVE  /\ a.call.kind = "Append" /\ FromLeader(a.call, leaderLog')
             /\ ~a.success => a.conflictIndex <= a.call.prevIndex
  <2> DEFINE m == a.call
  <2>1. m.kind = "Append" /\ Sent(m) /\ FromLeader(m, leaderLog)
    BY <1>i DEF LogsPlain, RaftTypeInv, AnswersOK, Answered, CallsTraced
  <2>2. ~a.success => a.conflictIndex <= a.call.prevIndex
    BY <1>i DEF CallsTraced
  <2> HIDE DEF m
  <2>3. m.term \in Term /\ m.prevIndex \in Nat /\ Len(m.entries) \in Nat
    BY <1>s, <2>1
  <2>4. FromLeader(m, leaderLog')
    BY <1>v, <2>1, <2>3, CallGrows
  <2> QED
    BY <2>1, <2>2, <2>4 DEF m
<1>M. ASSUME snapFile' = snapFile,
             \A m \in calls' : m \in calls \/ (m.kind = "Append" /\ FromLeader(m, leaderLog')),
             \A a \in answers' : \/ a \in answers
                                 \/ /\ a.call \in calls
                                    /\ ~a.success => a.conflictIndex <= a.call.prevIndex
      PROVE  MessagesAfter
  BY <1>M, <1>a, <1>m, <1>v DEF MessagesAfter, CallsTraced
<1>S. ASSUME snapFile' = snapFile, calls' = calls, answers' \subseteq answers
      PROVE  MessagesAfter
  BY <1>M, <1>S
<1>B. ASSUME NEW n \in Node, NEW l \in PlainLog, NEW S \in SUBSET Peers(n), Broadcast(n, l, S),
             leaderLog'[currentTerm[n]] = l,
             \A p \in Node : nextIndex[n][p] \in 1 .. LastIndex(l) + 1,
             snapFile' = snapFile, answers' = answers
      PROVE  MessagesAfter
  <2>1. calls' = calls \cup {BuildArgs(n, l, p) : p \in S}
    BY <1>B DEF Broadcast
  <2>2. ASSUME NEW p \in S
        PROVE  BuildArgs(n, l, p).kind = "Append" /\ FromLeader(BuildArgs(n, l, p), leaderLog')
    <3>1. p \in Node
      BY DEF Peers
    <3> QED
      BY <1>B, <3>1, BuiltFromLeader
  <2> QED
    BY <1>B, <1>M, <2>1, <2>2
<1>R. ASSUME NEW m \in calls, NEW t, NEW ok \in BOOLEAN, NEW ct, NEW ci, NEW d \in BOOLEAN,
             Answer(m, t, ok, ct, ci, d), ~ok => ci <= m.prevIndex, snapFile' = snapFile
      PROVE  MessagesAfter
  <2> DEFINE a == [call |-> m, term |-> t, success |-> ok, conflictTerm |-> ct,
                   conflictIndex |-> ci]
  <2>1. calls' = calls \ {m} /\ answers' = IF d THEN answers \cup {a} ELSE answers
    BY <1>R DEF Answer
  <2>2. a.call = m /\ a.success = ok /\ a.conflictIndex = ci
    OBVIOUS
  <2> HIDE DEF a
  <2> QED
    BY <1>M, <1>R, <2>1, <2>2
<1>K. ASSUME NEW k \in Node, FreshReplication(k), calls' = Abandon(k, calls), snapFile' = snapFile
      PROVE  MessagesAfter
  <2>1. answers' \subseteq answers
    BY <1>K DEF FreshReplication
  <2>2. ASSUME NEW w \in calls' PROVE w.kind = "Append" /\ FromLeader(w, leaderLog')
    <3>1. PICK m \in calls : w = IF m.from = k THEN [m EXCEPT !.waiting = FALSE] ELSE m
      BY <1>K DEF Abandon
    <3>2. m \in AppendCall
      BY <1>m DEF Sent, InstallCall
    <3>3. /\ w.kind = m.kind /\ w.term = m.term /\ w.prevIndex = m.prevIndex
          /\ w.prevTerm = m.prevTerm /\ w.entries = m.entries
      BY <3>1, <3>2 DEF AppendCall
    <3>4. m.kind = "Append" /\ FromLeader(m, leaderLog')
      BY <1>m
    <3> QED
      BY <3>3, <3>4 DEF FromLeader
  <2> QED
    BY <1>K, <1>M, <2>1, <2>2
<1>1. ASSUME NEW n \in Node, RaftBecomeCandidate(n) PROVE MessagesAfter
  BY <1>1, <1>S DEF RaftBecomeCandidate
<1>2. ASSUME NEW n \in Node, NEW S \in SUBSET Peers(n), RaftStartElection(n, S) PROVE MessagesAfter
  BY <1>2, <1>S DEF RaftStartElection, replicationVars
<1>3. ASSUME NEW m \in requests, NEW d \in BOOLEAN, RaftHandleRequestVote(m, d)
      PROVE  MessagesAfter
  BY <1>3, <1>S DEF RaftHandleRequestVote
<1>4. ASSUME NEW r \in replies, RaftStepDownOnVoteReply(r) \/ RaftCountVote(r)
      PROVE  MessagesAfter
  BY <1>4, <1>S DEF RaftStepDownOnVoteReply, RaftCountVote
<1>6. ASSUME NEW n \in Node, NEW S \in SUBSET Peers(n), SendHeartbeats(n, S) PROVE MessagesAfter
  <2> DEFINE l == log[n]
  <2>1. /\ l \in PlainLog /\ state[n] = Leader /\ Broadcast(n, l, S) /\ leaderLog' = leaderLog
        /\ snapFile' = snapFile /\ answers' = answers
    BY <1>6, <1>v DEF SendHeartbeats, ledger
  <2>2. leaderLog'[currentTerm[n]] = l
    BY <1>i, <2>1 DEF LeaderLogOK
  <2>3. \A p \in Node : nextIndex[n][p] \in 1 .. LastIndex(l) + 1
    BY <1>i, <2>1 DEF TrackingOK
  <2> HIDE DEF l
  <2> QED
    BY <1>B, <2>1, <2>2, <2>3
<1>7. ASSUME NEW n \in Node, NEW S \in SUBSET Peers(n), TickWithoutQuorum(n, S)
      PROVE  MessagesAfter
  BY <1>7, <1>i DEF TickWithoutQuorum, CheckQuorum
<1>8. ASSUME NEW n \in Node, NEW c \in Cmd, NEW S \in SUBSET Peers(n), Submit(n, c, S)
      PROVE  MessagesAfter
  <2> DEFINE l == log[n] \o <<[term |-> currentTerm[n], index |-> LastIndex(log[n]) + 1,
                               cmd |-> c]>>
  <2>1. /\ state[n] = Leader /\ Broadcast(n, l, S) /\ snapFile' = snapFile /\ answers' = answers
        /\ log' = [log EXCEPT ![n] = l]
    BY <1>8 DEF Submit
  <2> HIDE DEF l
  <2>2. log'[n] = l
    BY <1>v, <2>1
  <2>3. /\ log'[n] \in PlainLog /\ LastIndex(log'[n]) = LastIndex(log[n]) + 1
        /\ leaderLog' = [leaderLog EXCEPT ![currentTerm[n]] = log'[n]] /\ currentTerm[n] \in Term
    BY <1>i, <1>8, SubmitPlain
  <2>4. leaderLog'[currentTerm[n]] = l /\ l \in PlainLog
    BY <1>v, <2>2, <2>3
  <2>5. \A p \in Node : nextIndex[n][p] \in 1 .. LastIndex(l) + 1
    <3>1. \A p \in Node : nextIndex[n][p] \in 1 .. LastIndex(log[n]) + 1
      BY <1>i, <2>1 DEF TrackingOK
    <3>2. LastIndex(log[n]) \in Nat /\ LastIndex(l) = LastIndex(log[n]) + 1
      BY <1>v, <2>2, <2>3, PlainFacts
    <3> QED
      BY <3>1, <3>2
  <2> QED
    BY <1>B, <2>1, <2>4, <2>5
<1>9. ASSUME NEW m \in calls, NEW d \in BOOLEAN, HandleStaleCall(m, d) PROVE MessagesAfter
  <2>1. 0 <= m.prevIndex
    BY <1>m
  <2> QED
    BY <1>9, <1>R, <2>1 DEF HandleStaleCall
<1>10. ASSUME NEW m \in calls, NEW d \in BOOLEAN, RejectAppendEntries(m, d) PROVE MessagesAfter
  <2> DEFINE l == log[m.to]
             t == Get(l, m.prevIndex).term
             f == FirstIndexForTerm(l, t)
             k == LastIndex(l) + 1
  <2>1. /\ snapFile' = snapFile
        /\ \/ PrevMissing(m) /\ Answer(m, m.term, FALSE, 0, k, d)
           \/ t # 0 /\ Answer(m, m.term, FALSE, t, f, d)
    BY <1>10 DEF RejectAppendEntries, PrevConflicts
  <2>2. t # 0 => f <= m.prevIndex
    BY <1>i, <1>m, ConflictHint
  <2>3. l \in PlainLog /\ m.prevIndex \in Nat
    BY <1>m, <1>v
  <2>4. PrevMissing(m) => t = 0 /\ m.prevIndex > 0
    BY DEF PrevMissing
  <2> HIDE DEF l, f
  <2>5. PrevMissing(m) => k <= m.prevIndex
    <3> SUFFICES ASSUME PrevMissing(m), ~(k <= m.prevIndex) PROVE FALSE
      OBVIOUS
    <3>1. LastIndex(l) \in Nat
      BY <2>3, PlainFacts
    <3>2. m.prevIndex \in Int /\ 1 <= m.prevIndex /\ m.prevIndex <= LastIndex(l)
      BY <2>3, <2>4, <3>1
    <3> QED
      BY <2>3, <2>4, <3>2, PlainEntry
  <2> HIDE DEF k, t
  <2> QED
    BY <1>R, <2>1, <2>2, <2>5
<1>11. ASSUME NEW m \in calls, NEW d \in BOOLEAN, AcceptAppendEntries(m, d)
       PROVE  MessagesAfter
  BY <1>11, <1>R DEF AcceptAppendEntries
<1>12. ASSUME NEW m \in calls, NEW d \in BOOLEAN, IgnoreSnapshot(m, d) \/ InstallSnapshot(m, d)
       PROVE  MessagesAfter
  BY <1>12, <1>m DEF IgnoreSnapshot, InstallSnapshot
<1>14. ASSUME NEW a \in answers, StepDownOnAnswer(a) PROVE MessagesAfter
  BY <1>14, <1>S DEF StepDownOnAnswer
<1>15. ASSUME NEW a \in answers, CurrentAnswer(a) PROVE MessagesAfter
  BY <1>15, <1>S DEF CurrentAnswer
<1>18. ASSUME NEW n \in Node, ApplyEntry(n) PROVE MessagesAfter
  BY <1>18, <1>S DEF ApplyEntry
<1>19. ASSUME NEW n \in Node, TakeSnapshot(n) \/ CrashInTakeSnapshot(n) PROVE MessagesAfter
  BY <1>19, <1>i DEF TakeSnapshot, CrashInTakeSnapshot, SnapshotDue
<1>20. ASSUME NEW n \in Node, RaftRestart(n) PROVE MessagesAfter
  BY <1>20, <1>K DEF RaftRestart
<1>21. ASSUME NEW m \in requests, RaftCrashInHandleRequestVote(m) PROVE MessagesAfter
  <2>1. m.to \in Node
    BY <1>i DEF TypeOK, Request
  <2> QED
    BY <1>21, <1>K, <2>1 DEF RaftCrashInHandleRequestVote
<1>23. ASSUME NEW n \in Node, RaftLoadState(n) PROVE MessagesAfter
  BY <1>23, <1>S DEF RaftLoadState
<1>24. ASSUME UNCHANGED raftVars PROVE MessagesAfter
  BY <1>24, <1>S DEF raftVars, replicationVars
<1> QED
  BY <1>1, <1>2, <1>3, <1>4, <1>6, <1>7, <1>8, <1>9, <1>10, <1>11, <1>12, <1>14,
     <1>15, <1>18, <1>19, <1>20, <1>21, <1>23, <1>24
  DEF Next, HandleAccepted, HandleRejected, HandleInstalled

-----------------------------------------------------------------------------
(* What a leader knows of its peers.                                       *)

\* A leader that goes on leading keeps what its log holds.
LEMMA LeaderLogGrows ==
    ASSUME Setting, MatchInv, [Next]_raftVars,
           NEW n \in Node, state[n] = Leader, state'[n] = Leader
    PROVE  /\ currentTerm'[n] = currentTerm[n] /\ Prefix(log[n], log'[n])
           /\ log[n] \in PlainLog /\ log'[n] \in PlainLog
           /\ LastIndex(log[n]) <= LastIndex(log'[n])
<1>1. /\ VoteInv /\ RaftTypeInv /\ LogsPlain /\ LeaderLogOK
  BY DEF MatchInv, LedgerInv
<1>2. LogsAfter /\ RoleKept(n)
  BY <1>1, LogsStep, StepFacts
<1>3. currentTerm'[n] = currentTerm[n] /\ currentTerm[n] \in Term
  BY <1>1, <1>2, NodeFacts DEF RoleKept
<1>4. log[n] = leaderLog[currentTerm[n]] /\ log'[n] = leaderLog'[currentTerm[n]]
  BY <1>1, <1>2, <1>3 DEF LogsAfter, LeaderLogOK
<1>5. Prefix(log[n], log'[n]) /\ log[n] \in PlainLog /\ log'[n] \in PlainLog
  BY <1>1, <1>2, <1>3, <1>4 DEF LogsAfter, LogsPlain
<1> QED
  BY <1>3, <1>5 DEF Prefix, Agree

\* An accepted call reached at most the end of the leader's log.
LEMMA AcceptedMatch ==
    ASSUME MatchInv, NEW a \in answers, a.call.kind = "Append",
           state[a.call.from] = Leader, currentTerm[a.call.from] = a.call.term
    PROVE  LET n == a.call.from
               k == MatchAfterAccept(n, a)
           IN  /\ n \in Node /\ a.call.to \in Node /\ a.call.to # n
               /\ k \in Nat /\ k <= LastIndex(log[n])
               /\ k \in {matchIndex[n][a.call.to], a.call.prevIndex + Len(a.call.entries)}
<1> DEFINE m == a.call
           n == m.from
           x == m.prevIndex
           y == Len(m.entries)
           z == matchIndex[n][m.to]
           L == LastIndex(log[n])
<1>1. /\ RaftTypeInv /\ TypeOK /\ Sent(m) /\ TrackingOK /\ LeaderLogOK /\ LogsPlain
      /\ FromLeader(m, leaderLog)
  BY DEF MatchInv, LedgerInv, RaftTypeInv, ElectionInv, AnswersOK, Answered, CallsTraced
<1>2. /\ n \in Node /\ m.to \in Node /\ m.to # n /\ x \in Index
      /\ IsBatch(Cmd, Term, x, m.entries)
  BY <1>1, CallFacts
<1>3. z <= L /\ z \in Index
  BY <1>1, <1>2 DEF TrackingOK, RaftTypeInv, VariablesOK
<1>4. x + y <= L
  BY <1>1, <1>2 DEF FromLeader, LeaderLogOK
<1>5. L \in Nat
  BY <1>1, <1>2, PlainFacts DEF LogsPlain
<1>6. y \in Nat
  BY <1>2 DEF IsBatch
<1>7. x \in Nat /\ z \in Nat
  BY <1>2, <1>3, RaftAssumption DEF Index
<1>8. MatchAfterAccept(n, a) = Max({z, x + y})
  BY DEF MatchAfterAccept
<1> HIDE DEF x, y, z, L
<1>9. Max({z, x + y}) = IF z >= x + y THEN z ELSE x + y
  BY <1>6, <1>7, MaxOfTwo
<1>10. /\ MatchAfterAccept(n, a) \in Nat /\ MatchAfterAccept(n, a) <= L
       /\ MatchAfterAccept(n, a) \in {z, x + y}
  BY <1>3, <1>4, <1>5, <1>6, <1>7, <1>8, <1>9
<1> QED
  BY <1>2, <1>10 DEF x, y, z, L

\* The follower's hint points into the leader's log.
LEMMA RejectedNext ==
    ASSUME MatchInv, NEW a \in answers, a.call.kind = "Append", ~a.success,
           state[a.call.from] = Leader, currentTerm[a.call.from] = a.call.term
    PROVE  NextAfterReject(log[a.call.from], a) \in 1 .. LastIndex(log[a.call.from]) + 1
<1> DEFINE m == a.call
           l == log[m.from]
           f == LastIndexWithTerm(l, a.conflictTerm)
           y == IF a.conflictTerm # 0 /\ f > 0 THEN f + 1 ELSE a.conflictIndex
           x == m.prevIndex
           L == LastIndex(l)
           c == a.conflictIndex
           e == Len(m.entries)
<1>1. /\ RaftTypeInv /\ TypeOK /\ Sent(m) /\ LeaderLogOK /\ LogsPlain
      /\ FromLeader(m, leaderLog) /\ c <= x /\ c \in 0 .. MaxIndex + 1
  BY DEF MatchInv, LedgerInv, RaftTypeInv, ElectionInv, AnswersOK, Answered, CallsTraced
<1>2. m.from \in Node /\ x \in Index /\ IsBatch(Cmd, Term, x, m.entries)
  BY <1>1, CallFacts
<1>3. e \in Nat
  BY <1>2 DEF IsBatch
<1>4. x \in Nat /\ c \in Nat
  BY <1>1, <1>2, RaftAssumption DEF Index
<1>5. x + e <= L /\ l \in PlainLog
  BY <1>1, <1>2 DEF FromLeader, LeaderLogOK, LogsPlain
<1> HIDE DEF l
<1>6. IsLog(Cmd, Term, l) /\ L \in Nat /\ Term \in SUBSET Nat
  BY <1>5, PlainFacts, Ranges
<1>7. f \in Nat /\ f <= L
  BY <1>6, LastIndexWithTermFacts
<1>8. NextAfterReject(l, a) = Max({1, y})
  BY DEF NextAfterReject
<1> HIDE DEF f, x, e, c, L
<1>9. y \in Nat /\ y <= L + 1
  BY <1>1, <1>3, <1>4, <1>5, <1>6, <1>7 DEF c
<1> HIDE DEF y
<1>10. Max({1, y}) = IF 1 >= y THEN 1 ELSE y
  BY <1>9, MaxOfTwo
<1>11. NextAfterReject(l, a) \in 1 .. L + 1
  BY <1>6, <1>8, <1>9, <1>10
<1> QED
  BY <1>11 DEF l, L

\* nextIndex and matchIndex of a leader stay within its log.
LEMMA TrackingStep ==
    ASSUME Setting, MatchInv, [Next]_raftVars
    PROVE  TrackingOK'
<1>i. /\ VoteInv /\ RaftTypeInv /\ LogsPlain /\ TypeOK /\ ElectedOK
      /\ TrackingOK /\ ~QuorumLoss /\ Compacting = {}
  BY DEF MatchInv, LedgerInv, VoteInv, ElectionInv, Setting
<1>f. VoteInv' /\ \A n \in Node : RoleKept(n)
  BY <1>i, StepFacts
<1>v. /\ log \in [Node -> PlainLog] /\ log' \in [Node -> PlainLog]
      /\ nextIndex \in [Node -> [Node -> 0 .. MaxIndex + 1]]
      /\ matchIndex \in [Node -> [Node -> Index]]
  BY <1>i, LogsStep DEF LogsAfter, LogsPlain, RaftTypeInv, VariablesOK
<1>l. \A n \in Node : /\ LastIndex(log[n]) \in Nat /\ LastIndex(log'[n]) \in Nat
                      /\ \A p \in Node : matchIndex[n][p] \in Nat
  <2> SUFFICES ASSUME NEW n \in Node
               PROVE  /\ LastIndex(log[n]) \in Nat /\ LastIndex(log'[n]) \in Nat
                      /\ \A p \in Node : matchIndex[n][p] \in Nat
    OBVIOUS
  <2>1. log[n] \in PlainLog /\ log'[n] \in PlainLog
    BY <1>v
  <2>2. \A p \in Node : matchIndex[n][p] \in Index
    BY <1>v
  <2>3. \A p \in Node : matchIndex[n][p] \in Nat
    BY <2>2, RaftAssumption DEF Index
  <2> QED
    BY <2>1, <2>3, PlainFacts
\* A leader that led before, with the tracking it had.
<1>k. ASSUME NEW n \in Node, state[n] = Leader, state'[n] = Leader, NEW p \in Node,
             nextIndex'[n][p] \in 1 .. LastIndex(log[n]) + 1,
             matchIndex'[n][p] \in Nat, matchIndex'[n][p] <= LastIndex(log[n])
      PROVE  /\ matchIndex'[n][p] <= LastIndex(log'[n])
             /\ nextIndex'[n][p] \in 1 .. LastIndex(log'[n]) + 1
  <2>1. LastIndex(log[n]) <= LastIndex(log'[n])
    BY <1>k, LeaderLogGrows
  <2> QED
    BY <1>k, <1>l, <2>1
<1>e. ASSUME elected' = elected, NEW n \in Node, state'[n] = Leader PROVE state[n] = Leader
  BY <1>e, <1>f, <1>i DEF RoleKept, ElectedOK
<1>u. ASSUME NEW n \in Node, state[n] = Leader, NEW p \in Node
      PROVE  /\ nextIndex[n][p] \in 1 .. LastIndex(log[n]) + 1
             /\ matchIndex[n][p] \in Nat /\ matchIndex[n][p] <= LastIndex(log[n])
  BY <1>u, <1>i, <1>l DEF TrackingOK
<1>U. ASSUME UNCHANGED <<nextIndex, matchIndex, elected>> PROVE TrackingOK'
  BY <1>U, <1>e, <1>k, <1>u DEF TrackingOK
\* One entry of one leader's tracking changes.
<1>T. ASSUME NEW n \in Node, NEW q \in Node, elected' = elected, state[n] = Leader,
             NEW x \in 1 .. LastIndex(log[n]) + 1, NEW y \in Nat, y <= LastIndex(log[n]),
             nextIndex' = [nextIndex EXCEPT ![n][q] = x],
             matchIndex' = [matchIndex EXCEPT ![n][q] = y]
      PROVE  TrackingOK'
  <2> SUFFICES ASSUME NEW k \in Node, state'[k] = Leader, NEW p \in Node
               PROVE  /\ matchIndex'[k][p] <= LastIndex(log'[k])
                      /\ nextIndex'[k][p] \in 1 .. LastIndex(log'[k]) + 1
    BY DEF TrackingOK
  <2>1. state[k] = Leader
    BY <1>T, <1>e
  <2>2. CASE k = n /\ p = q
    <3>1. nextIndex'[k][p] = x /\ matchIndex'[k][p] = y
      BY <1>T, <1>v, <2>2
    <3> QED
      BY <1>T, <1>k, <2>1, <2>2, <3>1
  <2>3. CASE ~(k = n /\ p = q)
    <3>1. nextIndex'[k][p] = nextIndex[k][p] /\ matchIndex'[k][p] = matchIndex[k][p]
      BY <1>T, <1>v, <2>3
    <3> QED
      BY <1>k, <1>u, <2>1, <3>1
  <2> QED
    BY <2>2, <2>3
<1>K. ASSUME NEW k \in Node, FreshReplication(k), FreshMemory(k) PROVE TrackingOK'
  <2> SUFFICES ASSUME NEW n \in Node, state'[n] = Leader, NEW p \in Node
               PROVE  /\ matchIndex'[n][p] <= LastIndex(log'[n])
                      /\ nextIndex'[n][p] \in 1 .. LastIndex(log'[n]) + 1
    BY DEF TrackingOK
  <2>1. n # k
    BY <1>K, <1>i DEF FreshMemory, TypeOK, Leader, Follower
  <2>2. state[n] = Leader
    BY <1>K, <1>e DEF FreshMemory
  <2>3. nextIndex'[n][p] = nextIndex[n][p] /\ matchIndex'[n][p] = matchIndex[n][p]
    BY <1>K, <1>v, <2>1 DEF FreshReplication
  <2> QED
    BY <1>k, <1>u, <2>2, <2>3
<1>1. ASSUME NEW n \in Node, RaftBecomeCandidate(n) PROVE TrackingOK'
  BY <1>1, <1>U DEF RaftBecomeCandidate, BecomeCandidate
<1>2. ASSUME NEW n \in Node, NEW S \in SUBSET Peers(n), RaftStartElection(n, S) PROVE TrackingOK'
  BY <1>2, <1>U DEF RaftStartElection, StartElection, replicationVars
<1>3. ASSUME NEW m \in requests, NEW d \in BOOLEAN, RaftHandleRequestVote(m, d) PROVE TrackingOK'
  BY <1>3, <1>U DEF RaftHandleRequestVote, HandleRequestVote
<1>4. ASSUME NEW r \in replies, RaftStepDownOnVoteReply(r) PROVE TrackingOK'
  BY <1>4, <1>U DEF RaftStepDownOnVoteReply, StepDownOnVoteReply
<1>5. ASSUME NEW r \in replies, RaftCountVote(r) PROVE TrackingOK'
  <2>1. r.cand \in Node
    BY <1>i DEF TypeOK, Reply
  <2>2. CASE state'[r.cand] = Leader
    <3> SUFFICES ASSUME NEW n \in Node, state'[n] = Leader, NEW p \in Node
                 PROVE  /\ matchIndex'[n][p] <= LastIndex(log'[n])
                        /\ nextIndex'[n][p] \in 1 .. LastIndex(log'[n]) + 1
      BY DEF TrackingOK
    <3>1. ResetTracking(r.cand) /\ log' = log
      BY <1>5, <2>2 DEF RaftCountVote, CountVote
    <3>2. CASE n = r.cand
      <4>1. matchIndex'[n][p] = 0 /\ nextIndex'[n][p] = LastIndex(log[n]) + 1
        BY <1>v, <3>1, <3>2 DEF ResetTracking
      <4> QED
        BY <1>l, <3>1, <4>1
    <3>3. CASE n # r.cand
      <4>1. matchIndex'[n][p] = matchIndex[n][p] /\ nextIndex'[n][p] = nextIndex[n][p]
        BY <1>v, <3>1, <3>3 DEF ResetTracking
      <4>2. state[n] = Leader
        BY <1>5, <1>i, <2>1, <3>3 DEF RaftCountVote, CountVote, TypeOK
      <4> QED
        BY <1>k, <1>u, <4>1, <4>2
    <3> QED
      BY <3>2, <3>3
  <2>3. CASE state'[r.cand] # Leader
    <3>1. ~(Tally(r.cand, r) >= Majority)
      BY <1>5, <1>i, <2>1, <2>3 DEF RaftCountVote, CountVote, TypeOK
    <3> QED
      BY <1>5, <1>U, <2>3, <3>1 DEF RaftCountVote, CountVote
  <2> QED
    BY <2>2, <2>3
<1>6. ASSUME NEW n \in Node, NEW S \in SUBSET Peers(n), SendHeartbeats(n, S) PROVE TrackingOK'
  BY <1>6, <1>U DEF SendHeartbeats, electionVars
<1>7. ASSUME NEW n \in Node, NEW S \in SUBSET Peers(n), TickWithoutQuorum(n, S) PROVE TrackingOK'
  BY <1>7, <1>i DEF TickWithoutQuorum, CheckQuorum
<1>8. ASSUME NEW n \in Node, NEW c \in Cmd, NEW S \in SUBSET Peers(n), Submit(n, c, S)
      PROVE  TrackingOK'
  BY <1>8, <1>U DEF Submit, OnlyLogChanges
<1>9. ASSUME NEW m \in calls, NEW d \in BOOLEAN, HandleStaleCall(m, d) PROVE TrackingOK'
  BY <1>9, <1>U DEF HandleStaleCall, electionVars
<1>10. ASSUME NEW m \in calls, NEW d \in BOOLEAN,
              RejectAppendEntries(m, d) \/ AcceptAppendEntries(m, d)
       PROVE  TrackingOK'
  BY <1>10, <1>U DEF RejectAppendEntries, AcceptAppendEntries, ObserveLeader
<1>12. ASSUME NEW m \in calls, NEW d \in BOOLEAN, IgnoreSnapshot(m, d) \/ InstallSnapshot(m, d)
       PROVE  TrackingOK'
  BY <1>12, <1>i DEF IgnoreSnapshot, InstallSnapshot, LogsPlain
<1>14. ASSUME NEW a \in answers, StepDownOnAnswer(a) PROVE TrackingOK'
  BY <1>14, <1>U DEF StepDownOnAnswer
<1>15. ASSUME NEW a \in answers, HandleAccepted(a) PROVE TrackingOK'
  <2> DEFINE n == a.call.from
             p == a.call.to
             y == MatchAfterAccept(n, a)
  <2>1. /\ state[n] = Leader /\ currentTerm[n] = a.call.term /\ a.call.kind = "Append"
        /\ elected' = elected
        /\ matchIndex' = [matchIndex EXCEPT ![n][p] = y]
        /\ nextIndex' = [nextIndex EXCEPT ![n][p] = y + 1]
    BY <1>15 DEF HandleAccepted, CurrentAnswer, electionVars
  <2>2. n \in Node /\ p \in Node /\ y \in Nat /\ y <= LastIndex(log[n])
    BY <2>1, AcceptedMatch
  <2> HIDE DEF n, p, y
  <2>3. y + 1 \in 1 .. LastIndex(log[n]) + 1
    BY <1>l, <2>2
  <2> QED
    BY <1>T, <2>1, <2>2, <2>3
<1>16. ASSUME NEW a \in answers, HandleRejected(a) PROVE TrackingOK'
  <2> DEFINE n == a.call.from
             p == a.call.to
             x == NextAfterReject(log[n], a)
             y == matchIndex[n][p]
  <2>1. /\ state[n] = Leader /\ currentTerm[n] = a.call.term /\ a.call.kind = "Append"
        /\ elected' = elected /\ ~a.success
        /\ matchIndex' = matchIndex
        /\ nextIndex' = [nextIndex EXCEPT ![n][p] = x]
    BY <1>16 DEF HandleRejected, CurrentAnswer, electionVars
  <2>2. n \in Node /\ p \in Node
    BY <2>1, AcceptedMatch
  <2>3. x \in 1 .. LastIndex(log[n]) + 1
    BY <2>1, RejectedNext
  <2>4. y \in Nat /\ y <= LastIndex(log[n])
    BY <1>u, <2>1, <2>2
  <2>5. matchIndex' = [matchIndex EXCEPT ![n][p] = y]
    BY <1>v, <2>1, <2>2
  <2> HIDE DEF n, p, x, y
  <2> QED
    BY <1>T, <2>1, <2>2, <2>3, <2>4, <2>5
<1>17. ASSUME NEW a \in answers, HandleInstalled(a) PROVE TrackingOK'
  BY <1>17, <1>i DEF HandleInstalled, LogsPlain
<1>18. ASSUME NEW n \in Node, ApplyEntry(n) PROVE TrackingOK'
  BY <1>18, <1>U DEF ApplyEntry, electionVars
<1>19. ASSUME NEW n \in Node, TakeSnapshot(n) \/ CrashInTakeSnapshot(n) PROVE TrackingOK'
  BY <1>19, <1>i DEF TakeSnapshot, CrashInTakeSnapshot, SnapshotDue
<1>20. ASSUME NEW n \in Node, RaftRestart(n) PROVE TrackingOK'
  BY <1>20, <1>K DEF RaftRestart, Restart
<1>21. ASSUME NEW m \in requests, RaftCrashInHandleRequestVote(m) PROVE TrackingOK'
  <2>1. m.to \in Node
    BY <1>i DEF TypeOK, Request
  <2> QED
    BY <1>21, <1>K, <2>1 DEF RaftCrashInHandleRequestVote, CrashInHandleRequestVote
<1>23. ASSUME NEW n \in Node, RaftLoadState(n) PROVE TrackingOK'
  BY <1>23, <1>U DEF RaftLoadState, LoadState
<1>24. ASSUME UNCHANGED raftVars PROVE TrackingOK'
  BY <1>24, <1>U DEF raftVars, replicationVars, electionVars
<1> QED
  BY <1>1, <1>2, <1>3, <1>4, <1>5, <1>6, <1>7, <1>8, <1>9, <1>10, <1>12, <1>14,
     <1>15, <1>16, <1>17, <1>18, <1>19, <1>20, <1>21, <1>23, <1>24
  DEF Next

-----------------------------------------------------------------------------
(* The theorems.                                                           *)

\* The invariant holds of a freshly created cluster.
LEMMA MatchInit == Init => MatchInv
<1> SUFFICES ASSUME Init PROVE MatchInv
  OBVIOUS
<1>1. ElectionInit /\ ElectionInv /\ RaftTypeInv
  BY RaftTypeInit DEF Init, RaftTypeInv
<1>2. VoteInv
  BY <1>1 DEF ElectionInit, VoteInv, AllGrantsRecorded, OneVote
<1>3. /\ log = [n \in Node |-> EmptyLog] /\ diskLog = [n \in Node |-> EmptyLog]
      /\ leaderLog = [t \in Term |-> EmptyLog] /\ elected = {} /\ calls = {} /\ answers = {}
      /\ state = [n \in Node |-> Follower] /\ loaded = [n \in Node |-> TRUE]
      /\ snapFile = [n \in Node |-> [index |-> 0, term |-> 0]]
  BY DEF Init, ElectionInit, NoSnapshot
<1>4. LogsPlain /\ MemoryOK
  BY <1>3, EmptyPlain DEF LogsPlain, MemoryOK
<1>5. ElectedOK /\ LeaderLogOK /\ CallsTraced /\ TrackingOK
  BY <1>3 DEF ElectedOK, LeaderLogOK, CallsTraced, TrackingOK, Follower, Leader, Candidate
<1>6. \A t : Traced(EmptyLog, leaderLog) /\ TermsUpTo(EmptyLog, t)
  BY EmptyPlain DEF Traced, TermsUpTo
<1>7. LogsTraced
  BY <1>3, <1>6 DEF LogsTraced
<1> QED
  BY <1>1, <1>2, <1>4, <1>5, <1>7 DEF MatchInv, LedgerInv

\* The invariant is preserved by every step.
LEMMA MatchStep ==
    ASSUME Setting
    PROVE  MatchInv /\ [Next]_raftVars => MatchInv'
<1> SUFFICES ASSUME MatchInv, [Next]_raftVars PROVE MatchInv'
  OBVIOUS
<1>1. VoteInv' /\ RaftTypeInv'
  BY StepFacts DEF MatchInv
<1>2. LogsAfter /\ ElectedOK' /\ MessagesAfter /\ TrackingOK'
  BY LogsStep, ElectedStep, MessagesTraced, TrackingStep
<1>3. LogsPlain'
  BY <1>2 DEF LogsAfter, MessagesAfter, LogsPlain
<1>4. LedgerInv' /\ CallsTraced'
  BY <1>2, <1>3 DEF LogsAfter, MessagesAfter, LedgerInv
<1> QED
  BY <1>1, <1>2, <1>4 DEF MatchInv

\* The invariant holds for ever.
LEMMA MatchInvariance ==
    ASSUME Setting
    PROVE  Spec => []MatchInv
<1>1. Init => MatchInv
  BY MatchInit
<1>2. MatchInv /\ [Next]_raftVars => MatchInv'
  BY MatchStep
<1> QED
  BY <1>1, <1>2, PTL DEF Spec

\* The log in memory is traced as the one on disk is.
LEMMA MemoryTraced ==
    ASSUME LedgerInv, NEW n \in Node
    PROVE  log[n] \in PlainLog /\ Traced(log[n], leaderLog)
<1>1. log[n] \in PlainLog
  BY DEF LedgerInv, LogsPlain
<1>2. CASE loaded[n]
  BY <1>1, <1>2 DEF LedgerInv, MemoryOK, LogsTraced
<1>3. CASE ~loaded[n]
  <2>1. log[n] = EmptyLog
    BY <1>3 DEF LedgerInv, MemoryOK
  <2> QED
    BY <1>1, <2>1, EmptyPlain DEF Traced
<1> QED
  BY <1>2, <1>3

\* Log Matching: two logs that have an entry of the same term at an index
\* are the same up to there, as HandleAppendEntries' consistency check and
\* its truncation of conflicts intend; through crashes, delayed, lost and
\* reordered calls, and any number of leaders.
THEOREM LogsMatch ==
    ASSUME Setting
    PROVE  Spec => []LogMatching
<1>1. MatchInv => LogMatching
  <2> SUFFICES ASSUME MatchInv, NEW a \in Node, NEW b \in Node,
                      NEW i \in 1 .. Min({LastIndex(log[a]), LastIndex(log[b])}),
                      Get(log[a], i).term = Get(log[b], i).term
               PROVE  LET boundary == Max({SnapshotIndex(log[a]), SnapshotIndex(log[b])})
                      IN  /\ Get(log[a], boundary).term = Get(log[b], boundary).term
                          /\ \A j \in boundary + 1 .. i : Get(log[a], j) = Get(log[b], j)
    BY DEF LogMatching
  <2> DEFINE l == log[a]
             m == log[b]
  <2>1. LedgerInv /\ leaderLog \in [Term -> PlainLog]
    BY DEF MatchInv, LedgerInv, LogsPlain
  <2>2. /\ l \in PlainLog /\ Traced(l, leaderLog) /\ m \in PlainLog /\ Traced(m, leaderLog)
        /\ Get(l, i).term = Get(m, i).term
    BY <2>1, MemoryTraced
  <2>3. i \in 1 .. Min({LastIndex(l), LastIndex(m)})
    OBVIOUS
  <2> HIDE DEF l, m
  <2>4. /\ LastIndex(l) \in Nat /\ LastIndex(m) \in Nat
        /\ SnapshotIndex(l) = 0 /\ SnapshotIndex(m) = 0
    BY <2>2, PlainFacts
  <2>5. i \in Int /\ 1 <= i /\ i <= LastIndex(l) /\ i <= LastIndex(m)
    <3>1. Min({LastIndex(l), LastIndex(m)})
            = IF LastIndex(l) <= LastIndex(m) THEN LastIndex(l) ELSE LastIndex(m)
      BY <2>4, MinOfTwo
    <3> QED
      BY <2>3, <2>4, <3>1
  <2>6. Agree(l, m, i)
    BY <2>1, <2>2, <2>5, TracedAgree
  <2>7. Max({SnapshotIndex(l), SnapshotIndex(m)}) = 0
    BY <2>4, MaxOfTwo
  <2>8. Get(l, 0).term = Get(m, 0).term /\ \A j \in 0 + 1 .. i : Get(l, j) = Get(m, j)
    BY <2>2, <2>6, PlainZero DEF Agree
  <2> QED
    BY <2>7, <2>8 DEF l, m
<1> QED
  BY <1>1, MatchInvariance, PTL

\* Election Safety of the full node: no term ever elects two nodes.
THEOREM NodeElectionsSafe ==
    ASSUME ~BootWindow, ~QuorumLoss, EveryLogAllowed
    PROVE  Spec => []ElectionSafety
BY NodeImplementsElection, ElectionsSafe, PTL

\* Log m has the last entries of l, from where m was compacted on.
Continues(l, m) ==
    /\ LastIndex(m) >= LastIndex(l)
    /\ \A i \in SnapshotIndex(m) + 1 .. LastIndex(l) : Get(m, i) = Get(l, i)

\* compactTo keeps what is after the boundary.
LEMMA CompactContinues ==
    ASSUME NEW l, IsLog(Cmd, Term, l), NEW i \in Nat, NEW t \in Term, i > SnapshotIndex(l)
    PROVE  Continues(l, CompactTo(l, i, t))
<1>0. Term \in SUBSET Nat
  BY Ranges
<1>1. LastIndex(l) \in Nat /\ SnapshotIndex(l) \in Nat
  BY <1>0, LogFacts
<1> DEFINE m == CompactTo(l, i, t)
<1>2. SnapshotIndex(m) = i
  BY <1>0, <1>1, CompactToFacts
<1>3. LastIndex(m) = (IF i <= LastIndex(l) THEN LastIndex(l) ELSE i)
  BY <1>0, <1>1, CompactToFacts
<1>4. \A j \in i + 1 .. LastIndex(m) : Get(m, j) = Get(l, j)
  BY <1>0, <1>1, CompactToFacts
<1> HIDE DEF m
<1>5. LastIndex(m) >= LastIndex(l) /\ LastIndex(m) \in Nat
  BY <1>1, <1>3
<1>6. \A j \in i + 1 .. LastIndex(l) : Get(m, j) = Get(l, j)
  BY <1>1, <1>4, <1>5
<1>7. Continues(l, m)
  BY <1>2, <1>5, <1>6 DEF Continues
<1> QED
  BY <1>7 DEF m

\* A node that leads and goes on leading only appends and compacts: nobody
\* else leads its term, so nobody sends it entries or a snapshot of that term.
LEMMA LeaderLogKept ==
    ASSUME ~BootWindow, RaftTypeInv, ElectionSafety, [Next]_raftVars,
           NEW n \in Node, state[n] = Leader, state'[n] = Leader,
           currentTerm'[n] = currentTerm[n]
    PROVE  Continues(log[n], log'[n])
<1> USE DEF Follower, Candidate, Leader
<1>0. TypeOK /\ log \in [Node -> StoredLog]
  BY DEF RaftTypeInv, ElectionInv, VariablesOK
<1>l. PICK l \in StoredLog : l = log[n]
  BY <1>0
<1>i. /\ IsLog(Cmd, Term, l) /\ Term \in SUBSET Nat
      /\ LastIndex(l) \in Nat /\ SnapshotIndex(l) \in Nat
  <2>1. IsLog(Cmd, Term, l) /\ Term \in SUBSET Nat
    BY Ranges DEF StoredLog
  <2> QED
    BY <2>1, LogFacts
<1>s. ASSUME log'[n] = log[n] PROVE Continues(log[n], log'[n])
  BY <1>l, <1>i, <1>s DEF Continues
<1>o. ASSUME NEW k \in Node, k # n, NEW x, log' = [log EXCEPT ![k] = x]
      PROVE  Continues(log[n], log'[n])
  BY <1>0, <1>s, <1>o
<1>f. ASSUME NEW k \in Node, FreshMemory(k) PROVE Continues(log[n], log'[n])
  <2>1. k # n
    BY <1>0, <1>f DEF FreshMemory, TypeOK
  <2> QED
    BY <1>f, <1>o, <2>1 DEF FreshMemory
<1>c. ASSUME NEW m \in calls, NEW b \in BOOLEAN, ObserveLeader(m.to, m.term, m.from, b)
      PROVE  m.to \in Node /\ m.to # n
  <2>1. Sent(m)
    BY DEF RaftTypeInv, CallsOK
  <2>2. m.to \in Node /\ m.from \in Node /\ m.to # m.from /\ <<m.term, m.from>> \in elected
    BY <1>0, <2>1, CallFacts
  <2>3. <<currentTerm[n], n>> \in elected
    BY NodeFacts
  <2>4. ASSUME m.to = n PROVE FALSE
    <3>1. currentTerm' = [currentTerm EXCEPT ![m.to] = m.term]
      BY <1>c DEF ObserveLeader
    <3>2. m.term = currentTerm[n]
      BY <1>0, <2>4, <3>1 DEF TypeOK
    <3>3. m.from = n
      BY <2>2, <2>3, <3>2 DEF ElectionSafety
    <3> QED
      BY <2>2, <2>4, <3>3
  <2> QED
    BY <2>2, <2>4
<1>1. ASSUME NEW k \in Node, NEW c \in Cmd, NEW S \in SUBSET Peers(k), Submit(k, c, S)
      PROVE  Continues(log[n], log'[n])
  <2>1. CASE k # n
    BY <1>1, <1>o, <2>1 DEF Submit
  <2>2. CASE k = n
    <3> DEFINE e == [term |-> currentTerm[n], index |-> LastIndex(l) + 1, cmd |-> c]
    <3>1. e \in EntryOf(Cmd, Term) /\ e.index = LastIndex(l) + 1 /\ e.term # 0 /\ e.cmd \in Cmd
      <4>1. currentTerm[n] \in Term /\ currentTerm[n] # 0
        BY NodeFacts
      <4>2. LastIndex(l) + 1 \in Nat
        BY <1>i
      <4> QED
        BY <4>1, <4>2 DEF EntryOf
    <3>2. log'[n] = l \o <<e>>
      BY <1>0, <1>1, <1>l, <2>2 DEF Submit
    <3> HIDE DEF e
    <3>3. /\ SnapshotIndex(l \o <<e>>) = SnapshotIndex(l)
          /\ LastIndex(l \o <<e>>) = LastIndex(l) + 1
          /\ \A i \in SnapshotIndex(l) .. LastIndex(l) : Get(l \o <<e>>, i) = Get(l, i)
      BY <1>i, <3>1, AppendOne
    <3> QED
      BY <1>i, <1>l, <3>2, <3>3 DEF Continues
  <2> QED
    BY <2>1, <2>2
<1>2. ASSUME NEW k \in Node, TakeSnapshot(k) PROVE Continues(log[n], log'[n])
  <2>1. CASE k # n
    BY <1>2, <1>o, <2>1 DEF TakeSnapshot
  <2>2. CASE k = n
    <3>1. PICK a \in Index : a = lastApplied[n]
      BY NodeFacts
    <3>2. a \in Nat /\ a > SnapshotIndex(l)
      BY <1>2, <1>l, <2>2, <3>1, Ranges DEF TakeSnapshot, SnapshotDue
    <3>3. PICK t \in Term : t = Get(l, a).term
      BY <3>2, StoredTerm
    <3>4. log'[n] = CompactTo(l, a, t)
      BY <1>0, <1>2, <1>l, <2>2, <3>1, <3>3 DEF TakeSnapshot, SnapshotAt
    <3>5. Continues(l, CompactTo(l, a, t))
      BY <1>i, <3>2, CompactContinues
    <3> QED
      BY <1>l, <3>4, <3>5
  <2> QED
    BY <2>1, <2>2
<1>3. ASSUME NEW k \in Node, RaftLoadState(k) PROVE Continues(log[n], log'[n])
  <2>1. k # n
    BY <1>3, NodeFacts DEF RaftLoadState, LoadState
  <2> QED
    BY <1>3, <1>o, <2>1 DEF RaftLoadState
<1>4. ASSUME NEW m \in calls, NEW d \in BOOLEAN,
             AcceptAppendEntries(m, d) \/ InstallSnapshot(m, d)
      PROVE  Continues(log[n], log'[n])
  <2>1. \E b \in BOOLEAN : ObserveLeader(m.to, m.term, m.from, b)
    BY <1>4 DEF AcceptAppendEntries, InstallSnapshot
  <2>2. m.to \in Node /\ m.to # n
    BY <1>c, <2>1
  <2> QED
    BY <1>4, <1>o, <2>2 DEF AcceptAppendEntries, InstallSnapshot
<1>5. ASSUME NEW k \in Node, RaftRestart(k) \/ CrashInTakeSnapshot(k)
      PROVE  Continues(log[n], log'[n])
  BY <1>5, <1>f DEF RaftRestart, CrashInTakeSnapshot, Restart
<1>6. ASSUME NEW m \in requests, RaftCrashInHandleRequestVote(m)
      PROVE  Continues(log[n], log'[n])
  <2>1. m.to \in Node
    BY <1>0 DEF TypeOK, Request
  <2> QED
    BY <1>6, <1>f, <2>1 DEF RaftCrashInHandleRequestVote, CrashInHandleRequestVote
<1>7. ASSUME UNCHANGED log PROVE Continues(log[n], log'[n])
  BY <1>7, <1>s
<1>8. ASSUME NEW k \in Node, \/ RaftBecomeCandidate(k) \/ ApplyEntry(k)
                             \/ \E S \in SUBSET Peers(k) :
                                   \/ RaftStartElection(k, S) \/ SendHeartbeats(k, S)
                                   \/ TickWithoutQuorum(k, S)
      PROVE  UNCHANGED log
  BY <1>8 DEF RaftBecomeCandidate, BecomeCandidate, ApplyEntry, RaftStartElection, StartElection,
              SendHeartbeats, TickWithoutQuorum, CheckQuorum, electionVars
<1>9. ASSUME NEW m, NEW d, \/ RaftHandleRequestVote(m, d) \/ HandleStaleCall(m, d)
                           \/ RejectAppendEntries(m, d) \/ IgnoreSnapshot(m, d)
      PROVE  UNCHANGED log
  BY <1>9 DEF RaftHandleRequestVote, HandleRequestVote, HandleStaleCall, RejectAppendEntries,
              IgnoreSnapshot, electionVars
<1>10. ASSUME NEW r, RaftStepDownOnVoteReply(r) \/ RaftCountVote(r) PROVE UNCHANGED log
  BY <1>10 DEF RaftStepDownOnVoteReply, StepDownOnVoteReply, RaftCountVote, CountVote
<1>11. ASSUME NEW a, \/ StepDownOnAnswer(a) \/ HandleAccepted(a) \/ HandleRejected(a)
                     \/ HandleInstalled(a)
       PROVE  UNCHANGED log
  BY <1>11 DEF StepDownOnAnswer, HandleAccepted, HandleRejected, HandleInstalled, CurrentAnswer,
               electionVars
<1>12. ASSUME UNCHANGED raftVars PROVE UNCHANGED log
  BY <1>12 DEF raftVars, electionVars
<1> QED
  BY <1>1, <1>2, <1>3, <1>4, <1>5, <1>6, <1>7, <1>8, <1>9, <1>10, <1>11, <1>12, Zenon DEF Next

\* Leader Append-Only: no step changes or removes an entry of a node that
\* goes on leading its term, except that TakeSnapshot moves the boundary;
\* Submit alone writes entries to its log, and only adds.  Logs may be
\* compacted and snapshots installed anywhere.
THEOREM LeadersAppend ==
    ASSUME ~BootWindow, ~QuorumLoss, EveryLogAllowed
    PROVE  Spec => LeaderAppendOnly
<1>1. RaftTypeInv /\ ElectionSafety /\ [Next]_raftVars =>
        [\A n \in Node :
           (/\ state[n] = Leader /\ state'[n] = Leader
            /\ currentTerm'[n] = currentTerm[n]) =>
              /\ LastIndex(log'[n]) >= LastIndex(log[n])
              /\ \A i \in SnapshotIndex(log'[n]) + 1 .. LastIndex(log[n]) :
                    Get(log'[n], i) = Get(log[n], i)]_log
  <2> SUFFICES ASSUME RaftTypeInv, ElectionSafety, [Next]_raftVars, NEW n \in Node,
                      state[n] = Leader, state'[n] = Leader,
                      currentTerm'[n] = currentTerm[n]
               PROVE  /\ LastIndex(log'[n]) >= LastIndex(log[n])
                      /\ \A i \in SnapshotIndex(log'[n]) + 1 .. LastIndex(log[n]) :
                            Get(log'[n], i) = Get(log[n], i)
    OBVIOUS
  <2>1. Continues(log[n], log'[n])
    BY LeaderLogKept
  <2> QED
    BY <2>1, Zenon DEF Continues
<1> QED
  BY <1>1, RaftTypeInvariance, NodeElectionsSafe, PTL DEF Spec, LeaderAppendOnly

-----------------------------------------------------------------------------
(* PART III.  Committed entries.  An entry that the leader of term t wrote *)
(* itself at index i is named by <<t, i>>.  It is chosen once a majority   *)
(* accepted it.  The argument: a later leader has the entry, or a majority *)
(* passed term t without accepting it, so that it can no longer be chosen. *)

\* The leader of term t wrote the entry at index i.
Own(t, i) == i \in 1 .. LastIndex(leaderLog[t]) /\ Get(leaderLog[t], i).term = t

Has(l, t, i) == i \in 1 .. LastIndex(l) /\ Get(l, i).term = t

\* Node v accepted the log of the leader of term t up to i, or is that leader.
Acked(v, t, i) ==
    \/ \E j \in Index : j >= i /\ <<v, t, j>> \in acks
    \/ <<t, v>> \in elected

\* The entry can no longer be chosen.
Blocked(t, i) ==
    \E Q \in SUBSET Node :
        Cardinality(Q) >= Majority /\ \A v \in Q : disk[v].term > t /\ ~Acked(v, t, i)

Chosen(t, i) == Own(t, i) /\ Cardinality({v \in Node : Acked(v, t, i)}) >= Majority

-----------------------------------------------------------------------------
(* The inductive invariant.                                                *)

AcksOK ==
    \A v \in Node, t \in Term, j \in Index : <<v, t, j>> \in acks =>
        /\ t <= disk[v].term
        /\ j <= LastIndex(leaderLog[t])
        /\ disk[v].term = t => Agree(diskLog[v], leaderLog[t], j)

\* A candidate has reached the term it asks for, and its log is still the
\* one it advertised.
RequestsOK ==
    \A m \in requests :
        /\ m.term <= disk[m.cand].term
        /\ (state[m.cand] = Candidate /\ currentTerm[m.cand] = m.term) =>
              m.lastTerm = LastTerm(log[m.cand]) /\ m.lastIndex = LastIndex(log[m.cand])

GrantsReached ==
    \A v \in Node, t \in Term, c \in Node : <<v, t, c>> \in grants => t <= disk[c].term

\* Whoever accepted an entry still has it on disk.
AckHeld ==
    \A v \in Node, t \in Term, i \in Index :
        Own(t, i) /\ Acked(v, t, i) => Has(diskLog[v], t, i) \/ Blocked(t, i)

\* Later leaders have it.
Witness ==
    \A t \in Term, u \in Term, i \in Index, n \in Node :
        Own(t, i) /\ t < u /\ <<u, n>> \in elected => Has(leaderLog[u], t, i) \/ Blocked(t, i)

\* A candidate has what those who voted for it accepted.
VoteKnows ==
    \A n \in Node, v \in Node, t \in Term, i \in Index :
        (/\ state[n] = Candidate /\ <<v, currentTerm[n], n>> \in grants
         /\ t < currentTerm[n] /\ Own(t, i) /\ Acked(v, t, i))
            => Has(log[n], t, i) \/ Blocked(t, i)

HistoryInv == AcksOK /\ RequestsOK /\ GrantsReached /\ AckHeld /\ Witness /\ VoteKnows

-----------------------------------------------------------------------------
(* Logs.                                                                   *)

\* Indices and terms are numbers.
LEMMA Numbers ==
    /\ \A i \in Index : i \in Nat /\ i \in Int
    /\ \A t \in Term : t \in Nat /\ t <= t
BY ElectionAssumption, RaftAssumption DEF Index, Term

\* The last term of a log that was never compacted.
LEMMA PlainLast ==
    ASSUME NEW l \in PlainLog
    PROVE  /\ LastTerm(l) = Get(l, LastIndex(l)).term
           /\ LastIndex(l) = 0 => LastTerm(l) = 0
<1>1. /\ IsLog(Cmd, Term, l) /\ LastIndex(l) \in Nat /\ SnapshotIndex(l) = 0
      /\ Term \in SUBSET Nat
  BY PlainFacts, Ranges
<1>2. Len(l) = LastIndex(l) - SnapshotIndex(l) + 1
  BY <1>1, LogFacts
<1>3. LastIndex(l) \in SnapshotIndex(l) .. LastIndex(l)
  BY <1>1
<1>4. Get(l, LastIndex(l)) = l[LastIndex(l) - SnapshotIndex(l) + 1]
  BY <1>1, <1>3, GetAt
<1>5. LastTerm(l) = Get(l, LastIndex(l)).term
  BY <1>2, <1>4 DEF LastTerm
<1>6. LastIndex(l) = 0 => LastTerm(l) = 0
  BY <1>5, PlainZero DEF ZeroEntry
<1> QED
  BY <1>5, <1>6

\* A traced log that has the entry <<t, i>> agrees with its leader up to it.
LEMMA HasAgrees ==
    ASSUME NEW ledgerOf \in [Term -> PlainLog], NEW l \in PlainLog, Traced(l, ledgerOf),
           NEW t \in Term, NEW i \in Int
    PROVE  Has(l, t, i) => Agree(l, ledgerOf[t], i)
BY DEF Has, Traced

\* Logs that agree far enough have the same entries.
LEMMA AgreesHas ==
    ASSUME NEW l \in PlainLog, NEW L \in PlainLog, NEW i \in Int, NEW k \in Int, i <= k,
           Agree(l, L, k), NEW t, Has(L, t, i)
    PROVE  Has(l, t, i)
<1>1. LastIndex(l) \in Nat /\ LastIndex(L) \in Nat
  BY PlainFacts
<1> QED
  BY <1>1 DEF Agree, Has

\* Terms do not decrease along a traced log.
LEMMA TracedMonotone ==
    ASSUME NEW ledgerOf \in [Term -> PlainLog],
           \A t \in Term : TermsUpTo(ledgerOf[t], t),
           NEW l \in PlainLog, Traced(l, ledgerOf),
           NEW i \in Int, NEW j \in Int, 1 <= i, i <= j, j <= LastIndex(l)
    PROVE  Get(l, i).term <= Get(l, j).term
<1> DEFINE t == Get(l, j).term
<1>1. j \in 1 .. LastIndex(l) /\ 1 <= j
  BY PlainFacts
<1>2. t \in Term
  BY <1>1, PlainEntry
<1>3. Agree(l, ledgerOf[t], j)
  BY <1>1 DEF Traced
<1> HIDE DEF t
<1>4. LastIndex(ledgerOf[t]) \in Nat
  BY <1>2, PlainFacts
<1>5. i \in 1 .. LastIndex(ledgerOf[t]) /\ Get(l, i) = Get(ledgerOf[t], i)
  BY <1>3, <1>4 DEF Agree
<1>6. TermsUpTo(ledgerOf[t], t)
  BY <1>2
<1> QED
  BY <1>5, <1>6 DEF TermsUpTo, t

\* The vote rule on logs: the log that is at least as up-to-date has the
\* entry too, unless a leader in between lacked it.
LEMMA UpToDateHas ==
    ASSUME NEW ledgerOf \in [Term -> PlainLog],
           \A t \in Term : Traced(ledgerOf[t], ledgerOf) /\ TermsUpTo(ledgerOf[t], t),
           NEW l \in PlainLog, Traced(l, ledgerOf), NEW m \in PlainLog, Traced(m, ledgerOf),
           NEW t \in Term, NEW i \in Int, Has(l, t, i),
           \/ LastTerm(m) > LastTerm(l)
           \/ LastTerm(m) = LastTerm(l) /\ LastIndex(m) >= LastIndex(l)
    PROVE  \/ Has(m, t, i)
           \/ \E w \in Term : t < w /\ LastIndex(ledgerOf[w]) >= 1 /\ ~Has(ledgerOf[w], t, i)
<1> DEFINE k == LastIndex(l)
           j == LastIndex(m)
           u == LastTerm(l)
           w == LastTerm(m)
<1>1. /\ k \in Nat /\ j \in Nat /\ Term \subseteq Nat
      /\ \A x \in Term : TermsUpTo(ledgerOf[x], x)
  BY PlainFacts, Ranges
<1>2. 1 <= i /\ i <= k /\ Get(l, i).term = t /\ 1 <= k /\ k <= k
  BY <1>1 DEF Has
<1>3. u = Get(l, k).term /\ w = Get(m, j).term /\ (j = 0 => w = 0)
  BY PlainLast
<1>4. u \in Term /\ u \in Nat /\ u # 0
  <2>1. Get(l, k).term \in Term /\ Get(l, k).term # 0
    BY <1>1, <1>2, PlainEntry
  <2> QED
    BY <1>1, <1>3, <2>1
<1>5. t <= u
  <2>1. Get(l, i).term <= Get(l, k).term
    BY <1>1, <1>2, TracedMonotone
  <2> QED
    BY <1>2, <1>3, <2>1
<1>6. j >= 1 /\ j <= j
  <2> SUFFICES ASSUME j = 0 PROVE FALSE
    BY <1>1
  <2> QED
    BY <1>3, <1>4
<1>7. w \in Term /\ w \in Nat
  <2>1. Get(m, j).term \in Term
    BY <1>1, <1>6, PlainEntry
  <2> QED
    BY <1>1, <1>3, <2>1
<1>8. Agree(m, ledgerOf[w], j) /\ ledgerOf[w] \in PlainLog
  <2>1. j \in 1 .. LastIndex(m)
    BY <1>1, <1>6
  <2> QED
    BY <1>3, <1>7, <2>1 DEF Traced
<1> HIDE DEF k, j, u, w
<1>9. CASE w = u /\ j >= k
  <2>1. Agree(l, ledgerOf[u], k)
    <3>1. k \in 1 .. LastIndex(l)
      BY <1>1, <1>2 DEF k
    <3> QED
      BY <1>3, <3>1 DEF Traced
  <2>2. Agree(m, ledgerOf[u], k)
    BY <1>1, <1>8, <1>9, AgreeDown
  <2>3. Agree(m, l, k)
    BY <2>1, <2>2, AgreeFacts
  <2> QED
    BY <1>1, <1>2, <2>3, AgreesHas
<1>10. CASE w > u
  <2>1. t < w
    BY <1>1, <1>4, <1>5, <1>7, <1>10
  <2>2. LastIndex(ledgerOf[w]) \in Nat /\ LastIndex(ledgerOf[w]) >= 1
        /\ j <= LastIndex(ledgerOf[w])
    <3>1. LastIndex(ledgerOf[w]) \in Nat
      BY <1>8, PlainFacts
    <3>2. j <= LastIndex(ledgerOf[w])
      BY <1>8 DEF Agree
    <3> QED
      BY <1>1, <1>6, <3>1, <3>2
  <2>3. CASE ~Has(ledgerOf[w], t, i)
    BY <1>7, <2>1, <2>2, <2>3
  <2>4. CASE Has(ledgerOf[w], t, i)
    <3>1. i <= j
      <4> SUFFICES ASSUME j < i PROVE FALSE
        BY <1>1
      <4>1. i <= LastIndex(ledgerOf[w]) /\ Get(ledgerOf[w], i).term = t
        BY <2>2, <2>4 DEF Has
      <4>2. Traced(ledgerOf[w], ledgerOf)
        BY <1>7
      <4>3. Get(ledgerOf[w], j).term <= Get(ledgerOf[w], i).term
        BY <1>1, <1>6, <1>8, <4>1, <4>2, TracedMonotone
      <4>4. Get(ledgerOf[w], j) = Get(m, j)
        BY <1>1, <1>6, <1>8 DEF Agree
      <4> QED
        BY <1>1, <1>3, <1>7, <2>1, <4>1, <4>3, <4>4
    <3>2. Has(m, t, i)
      BY <1>1, <1>8, <2>4, <3>1, AgreesHas
    <3> QED
      BY <3>2
  <2> QED
    BY <2>3, <2>4
<1> QED
  BY <1>9, <1>10 DEF k, j, u, w

-----------------------------------------------------------------------------
(* What a step does to the ledger.                                         *)

Settled == UNCHANGED <<diskLog, leaderLog, elected, acks>>

\* Leader n of term t appended one entry.
Appended(n, t) ==
    /\ t \in Term /\ state[n] = Leader /\ loaded[n] /\ t = currentTerm[n] /\ disk[n].term = t
    /\ <<t, n>> \in elected /\ leaderLog[t] = diskLog[n]
    /\ log'[n] \in PlainLog /\ Prefix(leaderLog[t], log'[n])
    /\ LastIndex(log'[n]) = LastIndex(leaderLog[t]) + 1
    /\ leaderLog' = [leaderLog EXCEPT ![t] = log'[n]]
    /\ diskLog' = [diskLog EXCEPT ![n] = log'[n]]
    /\ UNCHANGED <<acks, elected, disk, grants>>

\* Node n took the log of the leader of term t up to end.
Accepted(n, t, end) ==
    /\ t \in Term /\ end \in Index /\ end <= LastIndex(leaderLog[t])
    /\ loaded[n] /\ disk[n].term <= t /\ disk'[n].term = t
    /\ \E k \in Node : <<t, k>> \in elected
    /\ MergedWith(diskLog[n], leaderLog[t], end, diskLog'[n])
    /\ diskLog[n] = log[n] /\ diskLog'[n] = log'[n]
    /\ \A k \in Node : k # n => diskLog'[k] = diskLog[k] /\ log'[k] = log[k]
    /\ acks' = acks \cup {<<n, t, end>>}
    /\ UNCHANGED <<leaderLog, elected>>

\* What an accepted AppendEntries does to log, disk and acknowledgements.
LEMMA AcceptedShape ==
    ASSUME Setting, MatchInv, [Next]_raftVars,
           NEW m \in calls, NEW d \in BOOLEAN, AcceptAppendEntries(m, d)
    PROVE  m.to \in Node /\ Accepted(m.to, m.term, m.prevIndex + Len(m.entries))
<1> DEFINE n == m.to
           L == leaderLog[m.term]
           end == m.prevIndex + Len(m.entries)
           l == AppendBatch(log[n], m.entries)
<1>i. /\ RaftTypeInv /\ VoteInv /\ LedgerInv /\ CallsTraced /\ TypeOK /\ ~BootWindow
  BY DEF MatchInv, RaftTypeInv, ElectionInv, Setting
<1>1. n \in Node /\ m.term \in Term /\ loaded[n] /\ MergedWith(log[n], L, end, l)
  BY <1>i, AcceptAgrees
<1>2. /\ log' = [log EXCEPT ![n] = l] /\ diskLog' = [diskLog EXCEPT ![n] = l]
      /\ leaderLog' = leaderLog /\ loaded' = loaded /\ elected' = elected
      /\ currentTerm' = [currentTerm EXCEPT ![n] = m.term] /\ m.term >= currentTerm[n]
      /\ acks' = acks \cup {<<n, m.term, end>>}
  BY DEF AcceptAppendEntries, ObserveLeader, PersistLog
<1>3. Sent(m) /\ m.kind = "Append" /\ FromLeader(m, leaderLog)
  BY <1>i DEF RaftTypeInv, CallsOK, LedgerInv, LogsPlain, CallsTraced
<1>4. /\ m.from \in Node /\ <<m.term, m.from>> \in elected /\ m.prevIndex \in Index
      /\ IsBatch(Cmd, Term, m.prevIndex, m.entries) /\ end <= MaxIndex
  BY <1>i, <1>3, CallFacts
<1>5. end \in Index
  <2>1. Len(m.entries) \in Nat
    BY <1>4 DEF IsBatch
  <2>2. m.prevIndex \in Nat
    BY <1>4, Ranges
  <2>3. end \in Nat
    <3>1. \A x, y \in Nat : x + y \in Nat
      OBVIOUS
    <3> QED
      BY <2>1, <2>2, <3>1, Zenon
  <2>4. end <= MaxIndex
    BY <1>4
  <2> HIDE DEF end
  <2> QED
    BY <2>3, <2>4, Ranges
<1>6. end <= LastIndex(L)
  BY <1>3 DEF FromLeader
<1>7. disk'[n].term = m.term
  <2>1. loaded'[n] /\ VoteInv'
    BY <1>i, <1>1, <1>2, StepFacts
  <2>2. disk'[n].term = currentTerm'[n]
    BY <1>1, <2>1 DEF VoteInv, ElectionInv, DiskInSync
  <2> QED
    BY <1>i, <1>1, <1>2, <2>2 DEF TypeOK
<1>8. disk[n].term <= m.term
  <2>1. disk[n].term = currentTerm[n] /\ currentTerm[n] \in Nat /\ m.term \in Nat
    BY <1>i, <1>1, NodeFacts, Ranges
  <2> QED
    BY <1>2, <2>1
<1>9. log \in [Node -> PlainLog] /\ diskLog \in [Node -> PlainLog] /\ diskLog[n] = log[n]
  BY <1>i, <1>1 DEF LedgerInv, LogsPlain, MemoryOK
<1> HIDE DEF n, L, end, l
<1>10. log'[n] = l /\ diskLog'[n] = l
  BY <1>1, <1>2, <1>9
<1>11. \A k \in Node : k # n => diskLog'[k] = diskLog[k] /\ log'[k] = log[k]
  BY <1>2, <1>9
<1>12. \E k \in Node : <<m.term, k>> \in elected
  BY <1>4
<1>13. MergedWith(diskLog[n], leaderLog[m.term], end, diskLog'[n])
  BY <1>1, <1>9, <1>10 DEF L
<1>14. end <= LastIndex(leaderLog[m.term])
  BY <1>6 DEF L
<1> QED
  BY <1>1, <1>2, <1>5, <1>7, <1>8, <1>9, <1>10, <1>11, <1>12, <1>13, <1>14 DEF Accepted, n, end

\* What Submit does to the leader's log.
LEMMA AppendedShape ==
    ASSUME Setting, MatchInv, NEW n \in Node, NEW c \in Cmd, NEW S, Submit(n, c, S)
    PROVE  Appended(n, currentTerm[n])
<1>i. RaftTypeInv /\ LedgerInv /\ LogsPlain /\ LeaderLogOK /\ MemoryOK
  BY DEF MatchInv, LedgerInv
<1>1. /\ log'[n] \in PlainLog /\ Prefix(log[n], log'[n])
      /\ LastIndex(log'[n]) = LastIndex(log[n]) + 1
      /\ diskLog' = [diskLog EXCEPT ![n] = log'[n]]
      /\ leaderLog' = [leaderLog EXCEPT ![currentTerm[n]] = log'[n]]
      /\ state[n] = Leader /\ loaded[n] /\ currentTerm[n] \in Term
      /\ UNCHANGED <<elected, disk>>
  BY <1>i, SubmitPlain
<1>2. UNCHANGED <<acks, grants>>
  BY DEF Submit, OnlyLogChanges
<1>3. <<currentTerm[n], n>> \in elected /\ disk[n].term = currentTerm[n]
  BY <1>i, <1>1, NodeFacts
<1>4. leaderLog[currentTerm[n]] = log[n] /\ diskLog[n] = log[n]
  BY <1>i, <1>1 DEF LeaderLogOK, MemoryOK
<1> QED
  BY <1>1, <1>2, <1>3, <1>4 DEF Appended

\* The only steps that change logs on disk or their histories.
LEMMA LedgerShape ==
    ASSUME Setting, MatchInv, [Next]_raftVars
    PROVE  \/ Settled
           \/ \E n \in Node : WonBy(n) \/ Appended(n, currentTerm[n])
           \/ \E n \in Node : \E t \in Term, end \in Index : Accepted(n, t, end)
<1>i. RaftTypeInv /\ LogsPlain /\ MemoryOK
  BY DEF MatchInv, LedgerInv
<1>1. \/ Quiet
      \/ \E n \in Node : WonBy(n) \/ Crashed(n) \/ Revived(n)
      \/ \E n \in Node, c \in Cmd : \E S \in SUBSET Peers(n) : Submit(n, c, S)
      \/ \E m \in calls, d \in BOOLEAN : AcceptAppendEntries(m, d)
  BY <1>i, LogShape
<1>2. ASSUME NEW m \in calls, NEW d \in BOOLEAN, AcceptAppendEntries(m, d)
      PROVE  \E n \in Node : \E t \in Term, end \in Index : Accepted(n, t, end)
  <2>1. m.to \in Node /\ Accepted(m.to, m.term, m.prevIndex + Len(m.entries))
    BY <1>2, AcceptedShape
  <2>2. m.term \in Term /\ m.prevIndex + Len(m.entries) \in Index
    BY <2>1 DEF Accepted
  <2> QED
    BY <2>1, <2>2
<1>3. ASSUME NEW n \in Node, NEW c \in Cmd, NEW S, Submit(n, c, S)
      PROVE  Appended(n, currentTerm[n])
  BY <1>3, AppendedShape
<1>4. Quiet \/ (\E n \in Node : Crashed(n) \/ Revived(n)) => Settled
  BY DEF Quiet, Crashed, Revived, Settled
<1> QED
  BY <1>1, <1>2, <1>3, <1>4

\* A candidate's log stays what it is.
LEMMA CandidateLog ==
    ASSUME Setting, MatchInv, [Next]_raftVars, NEW n \in Node, state'[n] = Candidate
    PROVE  log'[n] = log[n] /\ loaded[n]
<1>i. /\ RaftTypeInv /\ VoteInv /\ LogsPlain /\ MemoryOK /\ TypeOK /\ ElectionInv
      /\ log \in [Node -> PlainLog]
  BY DEF MatchInv, LedgerInv, VoteInv, ElectionInv, LogsPlain
<1>f. VoteInv' /\ RoleKept(n)
  BY <1>i, StepFacts
<1>1. loaded'[n] /\ loaded[n]
  <2>1. loaded'[n]
    BY <1>f DEF VoteInv, ElectionInv, TypeOK, Booting, Candidate, Follower
  <2>2. state[n] = Candidate => loaded[n]
    BY <1>i DEF ElectionInv, TypeOK, Booting, Candidate, Follower
  <2> QED
    BY <1>f, <2>1, <2>2 DEF RoleKept
<1>2. ASSUME NEW k \in Node, Crashed(k) \/ Revived(k) PROVE log'[n] = log[n]
  <2>1. k # n
    BY <1>1, <1>2, <1>i DEF Crashed, Revived, TypeOK
  <2> QED
    BY <1>2, <1>i, <2>1 DEF Crashed, Revived
<1>3. ASSUME NEW k \in Node, NEW c \in Cmd, NEW S, Submit(k, c, S) PROVE log'[n] = log[n]
  <2>1. /\ log' = [log EXCEPT ![k] = log'[k]] /\ state[k] = Leader /\ state' = state
    BY <1>3, <1>i, SubmitPlain
  <2>2. k # n
    BY <2>1 DEF Leader, Candidate
  <2> QED
    BY <1>i, <2>1, <2>2
<1>4. ASSUME NEW m \in calls, NEW d \in BOOLEAN, AcceptAppendEntries(m, d) PROVE log'[n] = log[n]
  <2>1. state'[m.to] # Candidate \/ m.to \notin Node
    BY <1>4, <1>i DEF AcceptAppendEntries, ObserveLeader, TypeOK, Follower, Candidate
  <2> QED
    BY <1>4, <1>i, <2>1 DEF AcceptAppendEntries
<1>5. \/ Quiet
      \/ \E k \in Node : WonBy(k) \/ Crashed(k) \/ Revived(k)
      \/ \E k \in Node, c \in Cmd : \E S \in SUBSET Peers(k) : Submit(k, c, S)
      \/ \E m \in calls, d \in BOOLEAN : AcceptAppendEntries(m, d)
  BY <1>i, LogShape
<1> QED
  BY <1>1, <1>2, <1>3, <1>4, <1>5 DEF Quiet, WonBy

-----------------------------------------------------------------------------
(* Accepting is for good.                                                  *)

\* What the rest of the proof uses of the invariant and of a step.
LEMMA LedgerFacts ==
    ASSUME Setting, MatchInv, [Next]_raftVars
    PROVE  /\ leaderLog \in [Term -> PlainLog] /\ leaderLog' \in [Term -> PlainLog]
           /\ diskLog \in [Node -> PlainLog] /\ diskLog' \in [Node -> PlainLog]
           /\ log \in [Node -> PlainLog] /\ log' \in [Node -> PlainLog]
           /\ \A t \in Term : Prefix(leaderLog[t], leaderLog'[t])
           /\ \A n \in Node : /\ disk[n].term \in Nat /\ disk'[n].term \in Nat
                              /\ disk[n].term <= disk'[n].term
                              /\ currentTerm[n] \in Term
                              /\ loaded[n] => disk[n].term = currentTerm[n]
           /\ elected \subseteq elected' /\ grants \subseteq grants' /\ acks \subseteq acks'
<1>i. RaftTypeInv /\ VoteInv /\ LogsPlain
  BY DEF MatchInv, LedgerInv
<1>1. LogsAfter
  BY LogsStep
<1>2. /\ VoteInv' /\ RaftTypeInv' /\ elected \subseteq elected' /\ grants \subseteq grants'
      /\ \A n \in Node : disk'[n].term >= disk[n].term
  BY <1>i, StepFacts
<1>3. \A n \in Node : disk'[n].term \in Nat
  BY <1>2, Ranges DEF VoteInv, ElectionInv, TypeOK
<1>4. \A n \in Node : /\ disk[n].term \in Nat /\ currentTerm[n] \in Term
                      /\ loaded[n] => disk[n].term = currentTerm[n]
  BY <1>i, NodeFacts
<1>5. acks \subseteq acks'
  BY LedgerShape DEF Settled, WonBy, Appended, Accepted
<1> QED
  BY <1>i, <1>1, <1>2, <1>3, <1>4, <1>5 DEF LogsAfter, LogsPlain

\* An acknowledgement is never taken back.
LEMMA AckedStays ==
    ASSUME Setting, MatchInv, [Next]_raftVars, NEW v, NEW t, NEW i, Acked(v, t, i)
    PROVE  Acked(v, t, i)'
BY LedgerFacts DEF Acked

\* An entry of a leader's own term stays in that leader's log.
LEMMA OwnStays ==
    ASSUME Setting, MatchInv, [Next]_raftVars, NEW t \in Term, NEW i, Own(t, i)
    PROVE  Own(t, i)'
<1> DEFINE L == leaderLog[t]
           N == leaderLog'[t]
<1>1. L \in PlainLog /\ N \in PlainLog /\ Prefix(L, N)
  BY LedgerFacts
<1>2. i \in 1 .. LastIndex(L) /\ Get(L, i).term = t
  BY DEF Own
<1> HIDE DEF L, N
<1>3. LastIndex(L) \in Nat /\ LastIndex(N) \in Nat
  BY <1>1, PlainFacts
<1>4. i \in 1 .. LastIndex(N) /\ Get(N, i).term = t
  BY <1>1, <1>2, <1>3 DEF Prefix, Agree
<1> QED
  BY <1>4 DEF Own, N

\* Once past a term, a node accepts nothing of it.
LEMMA AckedPast ==
    ASSUME Setting, MatchInv, [Next]_raftVars,
           NEW v \in Node, NEW t \in Term, NEW i, disk'[v].term > t, Acked(v, t, i)'
    PROVE  Acked(v, t, i)
<1>i. RaftTypeInv /\ VoteInv /\ t \in Nat
  BY Ranges DEF MatchInv
<1>1. ASSUME <<t, v>> \in elected', <<t, v>> \notin elected PROVE FALSE
  <2>1. t = currentTerm[v] /\ state'[v] = Leader /\ RoleKept(v) /\ VoteInv'
    BY <1>1, <1>i, StepFacts DEF RoleKept
  <2>2. loaded'[v] /\ currentTerm'[v] = t
    BY <2>1 DEF RoleKept
  <2>3. disk'[v].term = t
    BY <2>1, <2>2 DEF VoteInv, ElectionInv, DiskInSync
  <2> QED
    BY <1>i, <2>3
<1>2. ASSUME NEW j \in Index, <<v, t, j>> \in acks', <<v, t, j>> \notin acks PROVE FALSE
  <2>1. ASSUME NEW n \in Node, NEW u \in Term, NEW end \in Index, Accepted(n, u, end) PROVE FALSE
    <3>1. v = n /\ t = u
      BY <1>2, <2>1 DEF Accepted
    <3> QED
      BY <1>i, <2>1, <3>1 DEF Accepted
  <2> QED
    BY <1>2, <2>1, LedgerShape DEF Settled, WonBy, Appended
<1> QED
  BY <1>1, <1>2 DEF Acked

\* An entry that can no longer be chosen never can: terms on disk only grow.
LEMMA BlockedStays ==
    ASSUME Setting, MatchInv, [Next]_raftVars, NEW t \in Term, NEW i, Blocked(t, i)
    PROVE  Blocked(t, i)'
<1>1. PICK Q \in SUBSET Node : /\ Cardinality(Q) >= Majority
                               /\ \A v \in Q : disk[v].term > t /\ ~Acked(v, t, i)
  BY DEF Blocked
<1>2. ASSUME NEW v \in Q PROVE disk'[v].term > t /\ ~Acked(v, t, i)'
  <2>1. v \in Node /\ disk[v].term > t /\ ~Acked(v, t, i) /\ t \in Nat
    BY <1>1, Ranges
  <2>2. disk'[v].term > t
    BY <2>1, LedgerFacts
  <2> QED
    BY <2>1, <2>2, AckedPast
<1> QED
  BY <1>1, <1>2 DEF Blocked
-----------------------------------------------------------------------------
(* Entries and acknowledgements, one step at a time.                       *)

\* Only an append adds to what leaders wrote themselves.
LEMMA OwnStep ==
    ASSUME Setting, MatchInv, [Next]_raftVars, NEW t \in Term, NEW i \in Int,
           Own(t, i)', ~Own(t, i)
    PROVE  \E k \in Node : Appended(k, t) /\ i = LastIndex(leaderLog[t]) + 1
<1> DEFINE L == leaderLog[t]
           N == leaderLog'[t]
<1>v. L \in PlainLog /\ N \in PlainLog /\ leaderLog \in [Term -> PlainLog]
  BY LedgerFacts
<1>o. /\ i \in 1 .. LastIndex(N) /\ Get(N, i).term = t
      /\ ~(i \in 1 .. LastIndex(L) /\ Get(L, i).term = t)
  BY DEF Own
<1>l. LastIndex(L) \in Nat /\ LastIndex(N) \in Nat
  BY <1>v, PlainFacts
<1>1. N # L
  BY <1>o
<1>2. ASSUME NEW n \in Node, WonBy(n) PROVE FALSE
  <2> DEFINE M == log[n]
  <2>1. t = currentTerm[n] /\ N = M
    BY <1>1, <1>2, <1>v DEF WonBy
  <2>2. M \in PlainLog /\ Traced(M, leaderLog)
    BY MemoryTraced DEF MatchInv
  <2>3. Agree(M, L, i)
    BY <1>o, <2>1, <2>2 DEF Traced
  <2> HIDE DEF M, L, N
  <2> QED
    BY <1>o, <1>l, <2>1, <2>3 DEF Agree
<1>3. ASSUME NEW n \in Node, Appended(n, currentTerm[n])
      PROVE  Appended(n, t) /\ i = LastIndex(leaderLog[t]) + 1
  <2>1. currentTerm[n] = t
    BY <1>1, <1>3, <1>v DEF Appended
  <2>2. Prefix(L, N) /\ LastIndex(N) = LastIndex(L) + 1
    BY <1>3, <2>1, <1>v DEF Appended
  <2>3. i = LastIndex(L) + 1
    <3> HIDE DEF L, N
    <3> QED
      BY <1>o, <1>l, <2>2 DEF Prefix, Agree
  <2> QED
    BY <1>3, <2>1, <2>3
<1>4. ~Settled /\ \A n \in Node : \A u \in Term, end \in Index : ~Accepted(n, u, end)
  BY <1>1 DEF Settled, Accepted
<1> QED
  BY <1>2, <1>3, <1>4, LedgerShape

\* Whoever accepted an entry of term t has reached that term.
LEMMA AckedTerm ==
    ASSUME MatchInv, AcksOK, NEW v \in Node, NEW t \in Term, NEW i, Acked(v, t, i)
    PROVE  t <= disk[v].term
<1>1. CASE \E j \in Index : <<v, t, j>> \in acks
  BY <1>1 DEF AcksOK
<1>2. CASE <<t, v>> \in elected
  <2>1. <<v, t, v>> \in grants
    BY <1>2 DEF MatchInv, LedgerInv, ElectedOK
  <2> QED
    BY <2>1 DEF MatchInv, VoteInv, ElectionInv, GrantsRecorded
<1> QED
  BY <1>1, <1>2 DEF Acked

\* What the leader has just appended, nobody but the leader has accepted.
LEMMA FreshEntry ==
    ASSUME MatchInv, AcksOK, NEW k \in Node, NEW t \in Term, Appended(k, t),
           NEW v \in Node, Acked(v, t, LastIndex(leaderLog[t]) + 1)
    PROVE  v = k
<1>1. <<t, k>> \in elected
  BY DEF Appended
<1>2. LastIndex(leaderLog[t]) \in Nat
  BY PlainFacts DEF MatchInv, LedgerInv, LogsPlain
<1>3. ASSUME NEW j \in Index, j >= LastIndex(leaderLog[t]) + 1, <<v, t, j>> \in acks PROVE FALSE
  <2>1. j <= LastIndex(leaderLog[t]) /\ j \in Nat
    BY <1>3, Ranges DEF AcksOK
  <2> QED
    BY <1>2, <1>3, <2>1
<1>4. <<t, v>> \in elected
  BY <1>3 DEF Acked
<1> QED
  BY <1>1, <1>4, ElectedOnce DEF MatchInv

\* What a node past term t has accepted was there before the step.
LEMMA OwnPast ==
    ASSUME Setting, MatchInv, AcksOK, [Next]_raftVars,
           NEW v \in Node, NEW t \in Term, NEW i \in Int, disk'[v].term > t,
           Own(t, i)', Acked(v, t, i)'
    PROVE  Own(t, i) /\ Acked(v, t, i)
<1>1. Acked(v, t, i)
  BY AckedPast
<1>2. ASSUME ~Own(t, i) PROVE FALSE
  <2>1. PICK k \in Node : Appended(k, t) /\ i = LastIndex(leaderLog[t]) + 1
    BY <1>2, OwnStep
  <2>2. v = k
    BY <1>1, <2>1, FreshEntry
  <2>3. disk'[v].term = t /\ t \in Nat
    BY <2>1, <2>2, Ranges DEF Appended
  <2> QED
    BY <2>3
<1> QED
  BY <1>1, <1>2

\* The log on disk changes only by Submit or by an accepted AppendEntries.
LEMMA DiskLogStep ==
    ASSUME Setting, MatchInv, [Next]_raftVars, NEW v \in Node
    PROVE  \/ diskLog'[v] = diskLog[v]
           \/ Appended(v, currentTerm[v])
           \/ \E t \in Term, end \in Index : Accepted(v, t, end)
<1>1. diskLog \in [Node -> PlainLog]
  BY LedgerFacts
<1>2. ASSUME NEW n \in Node, Appended(n, currentTerm[n])
      PROVE  n = v \/ diskLog'[v] = diskLog[v]
  BY <1>1, <1>2 DEF Appended
<1>3. ASSUME NEW n \in Node, NEW t \in Term, NEW end \in Index, Accepted(n, t, end)
      PROVE  n = v \/ diskLog'[v] = diskLog[v]
  BY <1>3 DEF Accepted
<1> QED
  BY <1>2, <1>3, LedgerShape DEF Settled, WonBy

\* A node still in the term of its acknowledgement has what it acknowledged.
LEMMA AcksStep ==
    ASSUME Setting, MatchInv, AcksOK, [Next]_raftVars
    PROVE  AcksOK'
<1> SUFFICES ASSUME NEW v \in Node, NEW t \in Term, NEW j \in Index, <<v, t, j>> \in acks'
             PROVE  /\ t <= disk'[v].term
                    /\ j <= LastIndex(leaderLog'[t])
                    /\ disk'[v].term = t => Agree(diskLog'[v], leaderLog'[t], j)
  BY DEF AcksOK
<1> DEFINE L == leaderLog[t]
           N == leaderLog'[t]
           D == diskLog[v]
           E == diskLog'[v]
<1>v. /\ L \in PlainLog /\ N \in PlainLog /\ D \in PlainLog /\ E \in PlainLog
      /\ Prefix(L, N) /\ j \in Int
  BY LedgerFacts, Ranges
<1>n. t \in Nat /\ disk[v].term \in Nat /\ disk'[v].term \in Nat /\ disk[v].term <= disk'[v].term
  BY LedgerFacts, Ranges
<1>l. LastIndex(L) \in Nat /\ LastIndex(N) \in Nat /\ LastIndex(L) <= LastIndex(N) /\ j \in Nat
  <2>1. LastIndex(L) <= LastIndex(N)
    BY <1>v DEF Prefix, Agree
  <2>2. LastIndex(L) \in Nat /\ LastIndex(N) \in Nat
    BY <1>v, PlainFacts
  <2> QED
    BY <2>1, <2>2, Ranges
<1>1. CASE <<v, t, j>> \notin acks
  <2>1. PICK n \in Node, u \in Term, end \in Index : Accepted(n, u, end)
    BY <1>1, LedgerShape DEF Settled, WonBy, Appended
  <2>2. v = n /\ t = u /\ j = end
    BY <1>1, <2>1 DEF Accepted
  <2>3. /\ disk'[v].term = t /\ j <= LastIndex(leaderLog[t]) /\ leaderLog' = leaderLog
        /\ Agree(diskLog'[v], leaderLog[t], j)
    BY <2>1, <2>2 DEF Accepted, MergedWith
  <2> QED
    BY <1>n, <2>3
<1>2. CASE <<v, t, j>> \in acks
  <2>1. t <= disk[v].term /\ j <= LastIndex(L) /\ (disk[v].term = t => Agree(D, L, j))
    BY <1>2 DEF AcksOK
  <2>2. ASSUME disk'[v].term = t PROVE Agree(E, N, j)
    <3>0. disk[v].term = t /\ Agree(D, L, j)
      BY <1>n, <2>1, <2>2
    <3>1. CASE E = D
      <4> HIDE DEF L, N, D, E
      <4> QED
        BY <1>v, <3>0, <3>1, PrefixAgree
    <3>2. CASE Appended(v, currentTerm[v])
      <4>1. currentTerm[v] = t
        BY <3>0, <3>2 DEF Appended
      <4>2. E = N
        BY <3>2, <4>1, LedgerFacts DEF Appended
      <4>3. j <= LastIndex(N)
        BY <1>l, <2>1
      <4> HIDE DEF L, N, D, E
      <4> QED
        BY <1>v, <4>2, <4>3, AgreeSelf
    <3>3. ASSUME NEW u \in Term, NEW end \in Index, Accepted(v, u, end) PROVE Agree(E, N, j)
      <4>1. u = t
        BY <2>2, <3>3 DEF Accepted
      <4>2. Agree(E, L, j) /\ N = L
        BY <1>v, <3>0, <3>3, <4>1 DEF Accepted, MergedWith
      <4> QED
        BY <4>2
    <3> QED
      BY <3>1, <3>2, <3>3, DiskLogStep
  <2>3. t <= disk'[v].term /\ j <= LastIndex(N)
    BY <1>n, <1>l, <2>1
  <2> QED
    BY <2>2, <2>3
<1> QED
  BY <1>1, <1>2
-----------------------------------------------------------------------------
(* Requests and votes.                                                     *)

\* A request is an old one, or the candidate has just read term and log.
RequestFrom(m) ==
    \/ \E o \in requests : /\ m.cand = o.cand /\ m.term = o.term
                           /\ m.lastTerm = o.lastTerm /\ m.lastIndex = o.lastIndex
    \/ /\ m.cand \in Node /\ loaded[m.cand] /\ m.term = currentTerm[m.cand]
       /\ m.lastTerm = LastTerm(log[m.cand]) /\ m.lastIndex = LastIndex(log[m.cand])
       /\ UNCHANGED <<nodeVars, log, loaded, disk>>

\* A vote is an old one, the candidate's own, or answers a request.
GrantFrom(v, t, c) ==
    \/ <<v, t, c>> \in grants
    \/ v = c /\ loaded[v] /\ t = currentTerm[v] + 1 /\ disk'[v].term = t
    \/ \E m \in requests : /\ v = m.to /\ t = m.term /\ c = m.cand /\ loaded[v]
                           /\ UpToDate(m, log[v])

\* Where a new request for votes and a new vote come from.
LEMMA VoteShape ==
    ASSUME ~BootWindow, ElectionInv, [ElectionNext]_electionVars
    PROVE  /\ \A m \in requests' : RequestFrom(m)
           /\ \A v, t, c : <<v, t, c>> \in grants' => GrantFrom(v, t, c)
<1> DEFINE Goal == /\ \A m \in requests' : RequestFrom(m)
                   /\ \A v, t, c : <<v, t, c>> \in grants' => GrantFrom(v, t, c)
<1>0. /\ TypeOK /\ \A m \in requests : m \in Request
      /\ \A n \in Node : spawned[n] > 0 => loaded[n]
  BY DEF ElectionInv, TypeOK, Booting
<1>a. ASSUME requests' \subseteq requests, grants' = grants PROVE Goal
  BY <1>a DEF RequestFrom, GrantFrom
<1>b. ASSUME NEW n, grants' = grants, NEW ms \in SUBSET requests, requests' = Orphan(n, ms)
      PROVE  Goal
  <2>1. ASSUME NEW o \in ms
        PROVE  LET m == [o EXCEPT !.round = 0]
               IN  /\ m.cand = o.cand /\ m.term = o.term
                   /\ m.lastTerm = o.lastTerm /\ m.lastIndex = o.lastIndex
    BY <1>0 DEF Request
  <2>2. ASSUME NEW m \in requests' PROVE RequestFrom(m)
    <3>1. PICK o \in ms : m = IF o.cand = n THEN [o EXCEPT !.round = 0] ELSE o
      BY <1>b DEF Orphan
    <3>2. /\ m.cand = o.cand /\ m.term = o.term
          /\ m.lastTerm = o.lastTerm /\ m.lastIndex = o.lastIndex
      BY <2>1, <3>1
    <3> QED
      BY <3>2 DEF RequestFrom
  <2> QED
    BY <1>b, <2>2 DEF GrantFrom
<1>1. ASSUME NEW n \in Node, BecomeCandidate(n) PROVE Goal
  <2>1. disk'[n].term = currentTerm[n] + 1
    BY <1>0, <1>1 DEF BecomeCandidate, Persist, TypeOK
  <2> QED
    BY <1>1, <2>1 DEF BecomeCandidate, RequestFrom, GrantFrom
<1>2. ASSUME NEW n \in Node, NEW S \in SUBSET Peers(n), StartElection(n, S) PROVE Goal
  <2>1. loaded[n] /\ grants' = grants /\ UNCHANGED <<nodeVars, log, loaded, disk>>
    BY <1>0, <1>2 DEF StartElection
  <2>2. ASSUME NEW p \in S
        PROVE  RequestFrom([cand |-> n, to |-> p, term |-> currentTerm[n], round |-> spawned[n],
                            lastTerm |-> LastTerm(log[n]), lastIndex |-> LastIndex(log[n])])
    BY <2>1 DEF RequestFrom
  <2>3. \A m \in requests : RequestFrom(m)
    BY DEF RequestFrom
  <2> QED
    BY <1>2, <2>1, <2>2, <2>3 DEF StartElection, GrantFrom
<1>3. ASSUME NEW m \in requests, NEW d \in BOOLEAN, HandleRequestVote(m, d) PROVE Goal
  <2>1. requests' \subseteq requests /\ loaded[m.to]
    BY <1>3 DEF HandleRequestVote, Serving
  <2>2. grants' = grants \/ (grants' = grants \cup {<<m.to, m.term, m.cand>>} /\ UpToDate(m, log[m.to]))
    BY <1>3 DEF HandleRequestVote, Grants
  <2> QED
    BY <2>1, <2>2 DEF RequestFrom, GrantFrom
<1>4. ASSUME NEW r \in replies, StepDownOnVoteReply(r) PROVE Goal
  BY <1>4, <1>a DEF StepDownOnVoteReply
<1>5. ASSUME NEW r \in replies, CountVote(r) PROVE Goal
  BY <1>5, <1>a DEF CountVote
<1>6. ASSUME NEW n \in Node, NEW e \in elected, NEW b \in BOOLEAN, HearFromLeader(n, e, b) PROVE Goal
  BY <1>6, <1>a DEF HearFromLeader, ObserveLeader
<1>7. ASSUME NEW n \in Node, NEW t \in Term, StepDownOnPeerReply(n, t) PROVE Goal
  BY <1>7, <1>a DEF StepDownOnPeerReply
<1>8. ASSUME NEW n \in Node, OnlyLogChanges(n) PROVE Goal
  BY <1>8, <1>a DEF OnlyLogChanges
<1>9. ASSUME NEW n \in Node, Restart(n) PROVE Goal
  BY <1>9, <1>b DEF Restart, FreshMemory
<1>10. ASSUME NEW m \in requests, CrashInHandleRequestVote(m) PROVE Goal
  BY <1>10, <1>b DEF CrashInHandleRequestVote, FreshMemory
<1>11. ASSUME NEW n \in Node, LoadState(n) PROVE Goal
  BY <1>11, <1>a DEF LoadState
<1>12. ASSUME NEW n \in Node, CheckQuorum(n) PROVE Goal
  BY <1>12, <1>a DEF CheckQuorum
<1>13. ASSUME UNCHANGED electionVars PROVE Goal
  BY <1>13, <1>a DEF electionVars
<1> QED
  BY <1>1, <1>2, <1>3, <1>4, <1>5, <1>6, <1>7, <1>8, <1>9, <1>10, <1>11, <1>12, <1>13
  DEF ElectionNext, QuorateNext

\* A candidate's log is the one it advertised, and nobody votes for a term
\* that the candidate has not reached.
LEMMA VotingStep ==
    ASSUME Setting, MatchInv, RequestsOK, GrantsReached, [Next]_raftVars
    PROVE  /\ RequestsOK' /\ GrantsReached'
           /\ \A v, t, c : <<v, t, c>> \in grants' => GrantFrom(v, t, c)
<1>i. /\ VoteInv /\ RaftTypeInv /\ ElectionInv /\ TypeOK /\ ~BootWindow /\ EveryLogAllowed
  BY DEF MatchInv, VoteInv, ElectionInv, Setting
<1>f. /\ \A n \in Node : RoleKept(n)
  BY <1>i, StepFacts
<1>s. /\ \A m \in requests' : RequestFrom(m)
      /\ \A v, t, c : <<v, t, c>> \in grants' => GrantFrom(v, t, c)
  BY <1>i, StepRefines, VoteShape
<1>d. /\ \A n \in Node : /\ disk[n].term \in Nat /\ disk'[n].term \in Nat
                         /\ disk[n].term <= disk'[n].term
                         /\ currentTerm[n] \in Nat
                         /\ loaded[n] => disk[n].term = currentTerm[n]
      /\ \A m \in requests : m.cand \in Node /\ m.term \in Nat
  BY <1>i, LedgerFacts, Ranges DEF TypeOK, Request
<1>1. ASSUME NEW m \in requests'
      PROVE  /\ m.term <= disk'[m.cand].term
             /\ (state'[m.cand] = Candidate /\ currentTerm'[m.cand] = m.term) =>
                   m.lastTerm = LastTerm(log'[m.cand]) /\ m.lastIndex = LastIndex(log'[m.cand])
  <2>1. ASSUME NEW o \in requests, m.cand = o.cand, m.term = o.term,
               m.lastTerm = o.lastTerm, m.lastIndex = o.lastIndex
        PROVE  /\ o.term <= disk'[o.cand].term
               /\ (state'[o.cand] = Candidate /\ currentTerm'[o.cand] = o.term) =>
                     o.lastTerm = LastTerm(log'[o.cand]) /\ o.lastIndex = LastIndex(log'[o.cand])
    <3> DEFINE c == o.cand
    <3>1. c \in Node /\ o.term \in Nat /\ o.term <= disk[c].term
      BY <1>d DEF RequestsOK
    <3>2. o.term <= disk'[c].term
      BY <1>d, <3>1
    <3>3. ASSUME state'[c] = Candidate, currentTerm'[c] = o.term
          PROVE  o.lastTerm = LastTerm(log'[c]) /\ o.lastIndex = LastIndex(log'[c])
      <4>1. log'[c] = log[c] /\ loaded[c]
        BY <3>1, <3>3, CandidateLog
      <4>2. currentTerm'[c] # currentTerm[c] + 1
        BY <1>d, <3>1, <3>3, <4>1
      <4>3. state[c] = Candidate /\ currentTerm[c] = o.term
        BY <1>f, <3>1, <3>3, <4>2 DEF RoleKept
      <4> QED
        BY <4>1, <4>3 DEF RequestsOK
    <3> QED
      BY <3>2, <3>3
  <2>2. CASE /\ m.cand \in Node /\ loaded[m.cand] /\ m.term = currentTerm[m.cand]
             /\ m.lastTerm = LastTerm(log[m.cand]) /\ m.lastIndex = LastIndex(log[m.cand])
             /\ UNCHANGED <<nodeVars, log, loaded, disk>>
    <3>1. m.term <= disk'[m.cand].term
      BY <1>d, <2>2
    <3> QED
      BY <2>2, <3>1
  <2> QED
    BY <1>s, <2>1, <2>2 DEF RequestFrom
<1>2. ASSUME NEW v \in Node, NEW t \in Term, NEW c \in Node, <<v, t, c>> \in grants'
      PROVE  t <= disk'[c].term
  <2>0. t \in Nat
    BY Ranges
  <2>1. CASE <<v, t, c>> \in grants
    <3>1. t <= disk[c].term
      BY <2>1 DEF GrantsReached
    <3> QED
      BY <1>d, <2>0, <3>1
  <2>2. CASE v = c /\ disk'[v].term = t
    BY <2>0, <2>2
  <2>3. ASSUME NEW m \in requests, t = m.term, c = m.cand PROVE t <= disk'[c].term
    <3>1. t <= disk[c].term
      BY <2>3 DEF RequestsOK
    <3> QED
      BY <1>d, <2>0, <3>1
  <2> QED
    BY <1>2, <1>s, <2>1, <2>2, <2>3 DEF GrantFrom
<1> QED
  BY <1>1, <1>2, <1>s DEF RequestsOK, GrantsReached
-----------------------------------------------------------------------------
(* Accepted entries are not lost.                                          *)

\* A term whose leader has written something has a leader.
LEMMA OwnElected ==
    ASSUME MatchInv, NEW t \in Term, LastIndex(leaderLog[t]) >= 1
    PROVE  \E k \in Node : <<t, k>> \in elected
BY EmptyPlain DEF MatchInv, LedgerInv, ElectedOK

\* One leader per term, after the step.
LEMMA ElectedOnceAfter ==
    ASSUME VoteInv', NEW t \in Term, NEW a \in Node, NEW b \in Node,
           <<t, a>> \in elected', <<t, b>> \in elected'
    PROVE  a = b
<1> DEFINE A == {v \in Node : <<v, t, a>> \in grants'}
           B == {v \in Node : <<v, t, b>> \in grants'}
<1>1. ElectedByMajority' /\ OneVote'
  BY DEF VoteInv, ElectionInv
<1>2. Cardinality(A) >= Majority /\ Cardinality(B) >= Majority
  BY <1>1 DEF ElectedByMajority
<1>3. A \subseteq Node /\ B \subseteq Node
  OBVIOUS
<1> HIDE DEF A, B
<1>4. \E v \in Node : v \in A /\ v \in B
  BY <1>2, <1>3, MajoritiesMeet
<1> QED
  BY <1>1, <1>4 DEF A, B, OneVote

\* A truncation by HandleAppendEntries removes no acknowledged entry unless
\* that entry can no longer be chosen.
LEMMA AckHeldStep ==
    ASSUME Setting, MatchInv, HistoryInv, [Next]_raftVars
    PROVE  AckHeld'
<1>h. AcksOK /\ AckHeld /\ Witness
  BY DEF HistoryInv
<1> SUFFICES ASSUME NEW v \in Node, NEW t \in Term, NEW i \in Index, Own(t, i)', Acked(v, t, i)',
                    ~Blocked(t, i)'
             PROVE  Has(diskLog'[v], t, i)
  BY DEF AckHeld
<1>b. ~Blocked(t, i)
  BY BlockedStays
<1> DEFINE L == leaderLog[t]
           N == leaderLog'[t]
           D == diskLog[v]
           E == diskLog'[v]
<1>v. /\ L \in PlainLog /\ N \in PlainLog /\ D \in PlainLog /\ E \in PlainLog
      /\ i \in Int /\ t \in Nat
      /\ leaderLog \in [Term -> PlainLog] /\ Traced(D, leaderLog)
      /\ \A u \in Term : Traced(leaderLog[u], leaderLog)
  BY LedgerFacts, Ranges DEF MatchInv, LedgerInv, LogsTraced
<1>1. CASE ~Own(t, i)
  <2>1. PICK k \in Node : Appended(k, t) /\ i = LastIndex(leaderLog[t]) + 1
    BY <1>1, <1>v, OwnStep
  <2>2. Acked(v, t, i)
    BY <2>1 DEF Acked, Appended
  <2>3. v = k
    BY <1>h, <2>1, <2>2, FreshEntry
  <2>4. E = N
    BY <2>1, <2>3, LedgerFacts DEF Appended
  <2> QED
    BY <2>4 DEF Own, Has
<1>2. CASE Own(t, i) /\ Acked(v, t, i)
  <2>1. Has(D, t, i)
    BY <1>2, <1>h, <1>b DEF AckHeld
  <2>2. CASE E = D
    BY <2>1, <2>2
  <2>3. CASE Appended(v, currentTerm[v])
    <3>1. Prefix(D, E)
      BY <2>3, LedgerFacts DEF Appended
    <3>2. i \in 1 .. LastIndex(D) /\ LastIndex(D) \in Nat
      BY <1>v, <2>1, PlainFacts DEF Has
    <3>3. Agree(D, E, LastIndex(D))
      BY <3>1 DEF Prefix
    <3>4. Agree(E, D, LastIndex(D)) /\ i <= LastIndex(D) /\ LastIndex(D) \in Int
      BY <3>2, <3>3, AgreeFacts
    <3> HIDE DEF D, E
    <3>5. Has(E, t, i)
      BY <1>v, <2>1, <3>4, AgreesHas
    <3> QED
      BY <3>5 DEF E
  <2>4. ASSUME NEW u \in Term, NEW end \in Index, Accepted(v, u, end) PROVE Has(E, t, i)
    <3> DEFINE M == leaderLog[u]
    <3>1. /\ disk[v].term <= u /\ MergedWith(D, M, end, E) /\ M \in PlainLog
          /\ \E k \in Node : <<u, k>> \in elected
      BY <2>4, <1>v DEF Accepted
    <3>2. t <= u /\ u \in Nat
      <4>1. t <= disk[v].term /\ disk[v].term \in Nat /\ u \in Nat
        BY <1>2, <1>h, AckedTerm, LedgerFacts, Ranges
      <4> QED
        BY <1>v, <3>1, <4>1
    <3>3. Has(M, t, i)
      <4>1. CASE t = u
        BY <1>2, <4>1 DEF Own, Has
      <4>2. CASE t < u
        BY <1>2, <1>h, <1>b, <3>1, <4>2 DEF Witness
      <4> QED
        BY <1>v, <3>2, <4>1, <4>2
    <3>4. Traced(M, leaderLog)
      BY <1>v
    <3> HIDE DEF M
    <3>5. Agree(M, L, i) /\ Agree(D, L, i)
      BY <1>v, <2>1, <3>1, <3>3, <3>4, HasAgrees
    <3>6. Agree(D, M, i)
      BY <3>5, AgreeFacts
    <3>7. Agree(E, M, i)
      BY <1>v, <3>1, <3>6 DEF MergedWith
    <3>8. i <= i
      BY <1>v
    <3> HIDE DEF D, E, L, N
    <3> QED
      BY <1>v, <3>1, <3>3, <3>7, <3>8, AgreesHas
  <2> QED
    BY <2>2, <2>3, <2>4, DiskLogStep
<1>3. CASE Own(t, i) /\ ~Acked(v, t, i)
  <2>1. ASSUME <<t, v>> \in elected' PROVE FALSE
    <3>1. LastIndex(L) >= 1
      <4>1. LastIndex(L) \in Nat /\ i \in 1 .. LastIndex(L)
        BY <1>3, <1>v, PlainFacts DEF Own
      <4> QED
        BY <4>1
    <3>2. PICK k \in Node : <<t, k>> \in elected
      BY <3>1, OwnElected
    <3>3. <<t, k>> \in elected' /\ VoteInv'
      BY <3>2, LedgerFacts, StepFacts DEF MatchInv
    <3>4. k = v
      BY <2>1, <3>3, ElectedOnceAfter
    <3> QED
      BY <1>3, <3>2, <3>4 DEF Acked
  <2>2. PICK j \in Index : j >= i /\ <<v, t, j>> \in acks'
    BY <2>1 DEF Acked
  <2>3. <<v, t, j>> \notin acks
    BY <1>3, <2>2 DEF Acked
  <2>4. PICK n \in Node, u \in Term, end \in Index : Accepted(n, u, end)
    BY <2>2, <2>3, LedgerShape DEF Settled, WonBy, Appended
  <2>5. v = n /\ t = u /\ j = end
    BY <2>2, <2>3, <2>4 DEF Accepted
  <2>6. Agree(E, L, j)
    BY <2>4, <2>5 DEF Accepted, MergedWith
  <2>7. Has(L, t, i) /\ i <= j /\ j \in Int
    <3>1. Has(L, t, i)
      BY <1>3 DEF Own, Has
    <3>2. i \in Nat /\ j \in Nat
      BY Ranges
    <3> QED
      BY <2>2, <3>1, <3>2
  <2> HIDE DEF L, N, D, E
  <2>8. Has(E, t, i)
    BY <1>v, <2>6, <2>7, AgreesHas
  <2> QED
    BY <2>8 DEF E
<1> QED
  BY <1>1, <1>2, <1>3
\* A candidate's voters are past every earlier term.
LEMMA VoterTerm ==
    ASSUME VoteInv, NEW v \in Node, NEW u \in Term, NEW c \in Node, <<v, u, c>> \in grants,
           NEW t \in Term, t < u
    PROVE  disk[v].term > t
<1>1. u <= disk[v].term /\ disk[v].term \in Nat
  BY Ranges DEF VoteInv, ElectionInv, GrantsRecorded, TypeOK
<1>2. t \in Nat /\ u \in Nat
  BY Ranges
<1> QED
  BY <1>1, <1>2

\* A newly elected leader has every entry that can still be chosen.
LEMMA WitnessStep ==
    ASSUME Setting, MatchInv, HistoryInv, [Next]_raftVars
    PROVE  Witness'
<1>h. AcksOK /\ Witness /\ VoteKnows
  BY DEF HistoryInv
<1> SUFFICES ASSUME NEW t \in Term, NEW u \in Term, NEW i \in Index, NEW n \in Node,
                    Own(t, i)', t < u, <<u, n>> \in elected', ~Blocked(t, i)'
             PROVE  Has(leaderLog'[u], t, i)
  BY DEF Witness
<1>b. ~Blocked(t, i)
  BY BlockedStays
<1> DEFINE M == leaderLog[u]
           P == leaderLog'[u]
           Q == {v \in Node : <<v, u, n>> \in grants}
<1>v. /\ M \in PlainLog /\ P \in PlainLog /\ Prefix(M, P) /\ i \in Int /\ t \in Nat /\ u \in Nat
      /\ leaderLog \in [Term -> PlainLog]
  BY LedgerFacts, Ranges
<1>i. VoteInv /\ VoteInv'
  BY StepFacts DEF MatchInv
<1>p. ASSUME NEW v \in Q PROVE v \in Node /\ disk[v].term > t
  BY <1>i, VoterTerm
<1>q. ASSUME grants' = grants, \A v \in Q : ~Acked(v, t, i) PROVE FALSE
  <2>1. Cardinality(Q) >= Majority
    BY <1>i, <1>q DEF VoteInv, ElectionInv, ElectedByMajority
  <2>2. Q \in SUBSET Node
    OBVIOUS
  <2> HIDE DEF Q
  <2> QED
    BY <1>b, <1>p, <1>q, <2>1, <2>2 DEF Blocked
<1>1. CASE ~Own(t, i)
  <2>1. PICK k \in Node : Appended(k, t) /\ i = LastIndex(leaderLog[t]) + 1
    BY <1>1, <1>v, OwnStep
  <2>2. ASSUME NEW v \in Q, Acked(v, t, i) PROVE FALSE
    <3>1. v = k
      BY <1>h, <1>p, <2>1, <2>2, FreshEntry
    <3>2. disk[v].term = t
      BY <2>1, <3>1 DEF Appended
    <3> QED
      BY <1>p, <1>v, <3>2
  <2>3. grants' = grants
    BY <2>1 DEF Appended
  <2> QED
    BY <1>q, <2>2, <2>3
<1>2. CASE Own(t, i) /\ <<u, n>> \in elected
  <2>1. Has(M, t, i)
    BY <1>2, <1>h, <1>b DEF Witness
  <2> HIDE DEF M, P
  <2>2. LastIndex(M) \in Nat /\ i \in 1 .. LastIndex(M)
    BY <1>v, <2>1, PlainFacts DEF Has
  <2>3. Agree(P, M, LastIndex(M)) /\ i <= LastIndex(M) /\ LastIndex(M) \in Int
    BY <1>v, <2>2, AgreeFacts DEF Prefix
  <2>4. Has(P, t, i)
    BY <1>v, <2>1, <2>3, AgreesHas
  <2> QED
    BY <2>4 DEF P
<1>3. CASE Own(t, i) /\ <<u, n>> \notin elected
  <2>0. PICK k \in Node : WonBy(k)
    BY <1>3, LedgerShape DEF Settled, Appended, Accepted
  <2>1. WonBy(n) /\ u = currentTerm[n]
    <3>1. <<u, n>> = <<currentTerm[k], k>>
      BY <1>3, <2>0 DEF WonBy
    <3> QED
      BY <2>0, <3>1
  <2>2. grants' = grants /\ state[n] = Candidate /\ leaderLog'[u] = log[n]
    BY <1>v, <2>1 DEF WonBy
  <2>3. PICK v \in Q : Acked(v, t, i)
    BY <1>q, <2>2
  <2>4. v \in Node /\ <<v, currentTerm[n], n>> \in grants
    BY <2>1, <2>3
  <2>5. Has(log[n], t, i)
    BY <1>3, <1>h, <1>b, <2>1, <2>2, <2>3, <2>4 DEF VoteKnows
  <2> QED
    BY <2>2, <2>5
<1> QED
  BY <1>1, <1>2, <1>3

\* The comparison of logs in HandleRequestVote gives a candidate what its
\* voters acknowledged.
LEMMA VoteKnowsStep ==
    ASSUME Setting, MatchInv, HistoryInv, [Next]_raftVars
    PROVE  VoteKnows'
<1>h. AcksOK /\ RequestsOK /\ GrantsReached /\ AckHeld /\ Witness /\ VoteKnows
  BY DEF HistoryInv
<1> SUFFICES ASSUME NEW n \in Node, NEW v \in Node, NEW t \in Term, NEW i \in Index,
                    state'[n] = Candidate, <<v, currentTerm'[n], n>> \in grants',
                    t < currentTerm'[n], Own(t, i)', Acked(v, t, i)', ~Blocked(t, i)'
             PROVE  Has(log'[n], t, i)
  BY DEF VoteKnows
<1> DEFINE T == currentTerm'[n]
<1>b. ~Blocked(t, i)
  BY BlockedStays
<1>i. /\ VoteInv /\ VoteInv' /\ RaftTypeInv /\ RoleKept(n) /\ MemoryOK /\ ElectedOK /\ LedgerInv
  BY StepFacts DEF MatchInv, LedgerInv
<1>n. /\ i \in Int /\ t \in Nat /\ T \in Term /\ T \in Nat /\ currentTerm[n] \in Nat
      /\ disk[n].term \in Nat
  <2>1. T \in Term
    BY <1>i DEF VoteInv, ElectionInv, TypeOK
  <2>2. currentTerm[n] \in Nat /\ disk[n].term \in Nat
    BY <1>i, NodeFacts
  <2>3. i \in Nat /\ t \in Nat
    BY Ranges
  <2> HIDE DEF T
  <2>4. T \in Nat
    BY <2>1, Ranges
  <2> QED
    BY <2>1, <2>2, <2>3, <2>4
<1>l. log'[n] = log[n] /\ loaded[n] /\ diskLog[n] = log[n] /\ disk[n].term = currentTerm[n]
  BY <1>i, CandidateLog, LedgerFacts DEF MemoryOK
<1>p. disk'[v].term > t
  <2>1. T <= disk'[v].term /\ disk'[v].term \in Nat
    BY <1>i, <1>n, LedgerFacts DEF VoteInv, ElectionInv, GrantsRecorded
  <2> HIDE DEF T
  <2>2. t < T
    BY DEF T
  <2> QED
    BY <1>n, <2>1, <2>2
<1>o. Own(t, i) /\ Acked(v, t, i)
  BY <1>h, <1>n, <1>p, OwnPast
<1>d. Has(diskLog[v], t, i)
  BY <1>h, <1>b, <1>o DEF AckHeld
<1>g. GrantFrom(v, T, n)
  BY <1>h, VotingStep
<1>s. ASSUME NEW m \in requests, T = m.term, n = m.cand PROVE T <= disk[n].term
  BY <1>h, <1>s DEF RequestsOK
<1>1. CASE state[n] = Candidate /\ T = currentTerm[n]
  <2>1. CASE <<v, T, n>> \in grants
    BY <1>1, <1>h, <1>b, <1>l, <1>o, <2>1 DEF VoteKnows
  <2>2. ASSUME T = currentTerm[n] + 1 PROVE FALSE
    BY <1>1, <1>n, <2>2
  <2>3. ASSUME NEW m \in requests, T = m.term, n = m.cand, loaded[v], UpToDate(m, log[v])
        PROVE  Has(log[n], t, i)
    <3> DEFINE a == log[v]
               c == log[n]
    <3>1. m.lastTerm = LastTerm(c) /\ m.lastIndex = LastIndex(c)
      BY <1>1, <1>h, <2>3 DEF RequestsOK
    <3>2. /\ a \in PlainLog /\ Traced(a, leaderLog) /\ c \in PlainLog /\ Traced(c, leaderLog)
      BY <1>i, MemoryTraced
    <3>3. Has(a, t, i)
      BY <1>d, <1>i, <2>3 DEF MemoryOK
    <3>4. \/ LastTerm(c) > LastTerm(a)
          \/ LastTerm(c) = LastTerm(a) /\ LastIndex(c) >= LastIndex(a)
      BY <2>3, <3>1 DEF UpToDate
    <3>5. /\ leaderLog \in [Term -> PlainLog]
          /\ \A w \in Term : Traced(leaderLog[w], leaderLog) /\ TermsUpTo(leaderLog[w], w)
      BY <1>i DEF LedgerInv, LogsPlain, LogsTraced
    <3> HIDE DEF a, c
    <3>6. \/ Has(c, t, i)
          \/ \E w \in Term : t < w /\ LastIndex(leaderLog[w]) >= 1 /\ ~Has(leaderLog[w], t, i)
      BY <1>n, <3>2, <3>3, <3>4, <3>5, UpToDateHas
    <3>7. ASSUME NEW w \in Term, t < w, LastIndex(leaderLog[w]) >= 1 PROVE Has(leaderLog[w], t, i)
      <4>1. \E k \in Node : <<w, k>> \in elected
        BY <3>7, OwnElected
      <4> QED
        BY <1>h, <1>b, <1>o, <3>7, <4>1 DEF Witness
    <3> QED
      BY <3>6, <3>7 DEF c
  <2> QED
    BY <1>g, <1>l, <2>1, <2>2, <2>3 DEF GrantFrom
<1>2. CASE T = currentTerm[n] + 1
  <2>1. ~(T <= disk[n].term)
    BY <1>2, <1>n, <1>l
  <2>2. <<v, T, n>> \notin grants
    BY <1>h, <1>n, <2>1 DEF GrantsReached
  <2>3. v = n
    BY <1>g, <1>s, <2>1, <2>2 DEF GrantFrom
  <2> QED
    BY <1>d, <1>l, <2>3
<1> QED
  BY <1>1, <1>2, <1>i DEF RoleKept

\* Nothing is acknowledged in a freshly created cluster.
LEMMA HistoryInit == Init => HistoryInv
<1> SUFFICES ASSUME Init PROVE HistoryInv
  OBVIOUS
<1>1. /\ acks = {} /\ requests = {} /\ grants = {} /\ elected = {}
      /\ leaderLog = [t \in Term |-> EmptyLog]
  BY DEF Init, ElectionInit
<1>2. \A t \in Term : \A i : ~Own(t, i)
  BY <1>1, EmptyPlain DEF Own
<1> QED
  BY <1>1, <1>2 DEF HistoryInv, AcksOK, RequestsOK, GrantsReached, AckHeld, Witness, VoteKnows

\* Every step keeps the invariant of the histories.
LEMMA HistoryStep ==
    ASSUME Setting, MatchInv, HistoryInv, [Next]_raftVars
    PROVE  HistoryInv'
<1>1. AcksOK' /\ RequestsOK' /\ GrantsReached'
  BY AcksStep, VotingStep DEF HistoryInv
<1>2. AckHeld' /\ Witness' /\ VoteKnows'
  BY AckHeldStep, WitnessStep, VoteKnowsStep
<1> QED
  BY <1>1, <1>2 DEF HistoryInv
-----------------------------------------------------------------------------
(* What a step does to indices, calls and answers.                         *)

Idle ==
    /\ UNCHANGED <<matchIndex, commitIndex, lastApplied, committed, elected>>
    /\ calls' \subseteq calls
    /\ \A a \in answers' : a.success => a \in answers
    /\ \A n \in Node : loaded[n] => loaded'[n]

Won(n) ==
    /\ WonBy(n) /\ matchIndex' = [matchIndex EXCEPT ![n] = [p \in Node |-> 0]]
    /\ UNCHANGED <<commitIndex, lastApplied, committed, calls, answers>>

Sends(n, S) ==
    /\ state[n] = Leader /\ S \in SUBSET Peers(n)
    /\ calls' = calls \cup {BuildArgs(n, log'[n], p) : p \in S}
    /\ UNCHANGED <<matchIndex, commitIndex, lastApplied, committed, elected, answers, loaded,
                   nextIndex, currentTerm, state, disk>>

Forgets(n) ==
    FreshMemory(n) /\ FreshReplication(n) /\ calls' = Abandon(n, calls)

\* The steps that matter to commit indices; every other step leaves them,
\* the messages and the leaders alone or only takes messages away.
LEMMA StepKinds ==
    ASSUME Setting, MatchInv, [Next]_raftVars
    PROVE  \/ Idle
           \/ \E n \in Node : Won(n) \/ Forgets(n) \/ ApplyEntry(n)
           \/ \E n \in Node : \E S \in SUBSET Peers(n) : Sends(n, S)
           \/ \E m \in calls, d \in BOOLEAN : AcceptAppendEntries(m, d)
           \/ \E a \in answers : HandleAccepted(a)
<1> DEFINE Goal == \/ Idle
                   \/ \E n \in Node : Won(n) \/ Forgets(n) \/ ApplyEntry(n)
                   \/ \E n \in Node : \E S \in SUBSET Peers(n) : Sends(n, S)
                   \/ \E m \in calls, d \in BOOLEAN : AcceptAppendEntries(m, d)
                   \/ \E a \in answers : HandleAccepted(a)
<1>i. /\ RaftTypeInv /\ LogsPlain /\ TypeOK /\ ~QuorumLoss /\ Compacting = {} /\ ~BootWindow
      /\ log \in [Node -> PlainLog]
  BY DEF MatchInv, LedgerInv, RaftTypeInv, ElectionInv, Setting, LogsPlain
<1>r. ASSUME NEW m \in calls, NEW t, NEW ct, NEW ci, NEW d \in BOOLEAN,
             Answer(m, t, FALSE, ct, ci, d)
      PROVE  calls' \subseteq calls /\ \A a \in answers' : a.success => a \in answers
  <2> DEFINE b == [call |-> m, term |-> t, success |-> FALSE, conflictTerm |-> ct,
                   conflictIndex |-> ci]
  <2>1. b.success = FALSE
    OBVIOUS
  <2>2. calls' = calls \ {m} /\ answers' = IF d THEN answers \cup {b} ELSE answers
    BY <1>r DEF Answer
  <2> HIDE DEF b
  <2> QED
    BY <2>1, <2>2
<1>1. ASSUME NEW n \in Node, RaftBecomeCandidate(n) PROVE Goal
  BY <1>1 DEF RaftBecomeCandidate, BecomeCandidate, Idle
<1>2. ASSUME NEW n \in Node, NEW S \in SUBSET Peers(n), RaftStartElection(n, S) PROVE Goal
  BY <1>2 DEF RaftStartElection, StartElection, replicationVars, Idle
<1>3. ASSUME NEW m \in requests, NEW d \in BOOLEAN, RaftHandleRequestVote(m, d) PROVE Goal
  BY <1>3 DEF RaftHandleRequestVote, HandleRequestVote, Idle
<1>4. ASSUME NEW r \in replies, RaftStepDownOnVoteReply(r) PROVE Goal
  BY <1>4 DEF RaftStepDownOnVoteReply, StepDownOnVoteReply, Idle
<1>5. ASSUME NEW r \in replies, RaftCountVote(r) PROVE Goal
  <2>1. r.cand \in Node
    BY <1>i DEF TypeOK, Reply
  <2>2. CASE state'[r.cand] = Leader
    <3>1. /\ state[r.cand] = Candidate
          /\ UNCHANGED <<log, diskLog, loaded, currentTerm, acks, disk, grants>>
          /\ UNCHANGED <<commitIndex, lastApplied, committed, calls, answers>>
          /\ leaderLog' = [leaderLog EXCEPT ![currentTerm[r.cand]] = log[r.cand]]
          /\ matchIndex' = [matchIndex EXCEPT ![r.cand] = [p \in Node |-> 0]]
      BY <1>5, <2>2 DEF RaftCountVote, CountVote, CountsFor, ResetTracking
    <3>2. Tally(r.cand, r) >= Majority
      <4> SUFFICES ASSUME ~(Tally(r.cand, r) >= Majority) PROVE FALSE
        OBVIOUS
      <4>1. state'[r.cand] = state[r.cand]
        BY <1>5, <1>i, <2>1 DEF RaftCountVote, CountVote, TypeOK
      <4> QED
        BY <2>2, <3>1, <4>1 DEF Leader, Candidate
    <3>3. /\ elected' = elected \cup {<<currentTerm[r.cand], r.cand>>}
          /\ state' = [state EXCEPT ![r.cand] = Leader]
      BY <1>5, <3>2 DEF RaftCountVote, CountVote
    <3>4. Won(r.cand)
      BY <3>1, <3>3 DEF Won, WonBy
    <3> QED
      BY <2>1, <3>4
  <2>3. CASE state'[r.cand] # Leader
    <3>1. ~(Tally(r.cand, r) >= Majority)
      BY <1>5, <1>i, <2>1, <2>3 DEF RaftCountVote, CountVote, TypeOK
    <3> QED
      BY <1>5, <2>3, <3>1 DEF RaftCountVote, CountVote, Idle
  <2> QED
    BY <2>2, <2>3
<1>6. ASSUME NEW n \in Node, NEW S \in SUBSET Peers(n), SendHeartbeats(n, S) PROVE Goal
  <2>1. Sends(n, S)
    BY <1>6 DEF SendHeartbeats, Broadcast, Sends, electionVars, nodeVars
  <2> QED
    BY <2>1
<1>7. ASSUME NEW n \in Node, NEW S \in SUBSET Peers(n), TickWithoutQuorum(n, S) PROVE Goal
  BY <1>7, <1>i DEF TickWithoutQuorum, CheckQuorum
<1>8. ASSUME NEW n \in Node, NEW c \in Cmd, NEW S \in SUBSET Peers(n), Submit(n, c, S)
      PROVE  Goal
  <2> DEFINE l == log[n] \o <<[term |-> currentTerm[n], index |-> LastIndex(log[n]) + 1,
                               cmd |-> c]>>
  <2>1. /\ state[n] = Leader /\ Broadcast(n, l, S) /\ log' = [log EXCEPT ![n] = l]
        /\ UNCHANGED <<matchIndex, commitIndex, lastApplied, committed, answers, nextIndex>>
        /\ OnlyLogChanges(n)
    BY <1>8 DEF Submit
  <2> HIDE DEF l
  <2>2. log'[n] = l
    BY <1>i, <2>1
  <2>3. Sends(n, S)
    BY <2>1, <2>2 DEF Sends, Broadcast, OnlyLogChanges, nodeVars
  <2> QED
    BY <2>3
<1>9. ASSUME NEW m \in calls, NEW d \in BOOLEAN, HandleStaleCall(m, d) PROVE Goal
  BY <1>9, <1>r DEF HandleStaleCall, electionVars, Idle
<1>10. ASSUME NEW m \in calls, NEW d \in BOOLEAN, RejectAppendEntries(m, d) PROVE Goal
  <2>1. /\ UNCHANGED <<matchIndex, commitIndex, lastApplied, committed, elected, loaded>>
        /\ \E ct, ci : Answer(m, m.term, FALSE, ct, ci, d)
    BY <1>10 DEF RejectAppendEntries, ObserveLeader
  <2> QED
    BY <1>r, <2>1 DEF Idle
<1>12. ASSUME NEW m \in calls, NEW d \in BOOLEAN, IgnoreSnapshot(m, d) \/ InstallSnapshot(m, d)
       PROVE  Goal
  BY <1>12, <1>i DEF IgnoreSnapshot, InstallSnapshot, LogsPlain
<1>14. ASSUME NEW a \in answers, StepDownOnAnswer(a) PROVE Goal
  BY <1>14 DEF StepDownOnAnswer, Idle
<1>16. ASSUME NEW a \in answers, HandleRejected(a) PROVE Goal
  BY <1>16 DEF HandleRejected, CurrentAnswer, electionVars, Idle
<1>17. ASSUME NEW a \in answers, HandleInstalled(a) PROVE Goal
  BY <1>17, <1>i DEF HandleInstalled, LogsPlain
<1>19. ASSUME NEW n \in Node, TakeSnapshot(n) \/ CrashInTakeSnapshot(n) PROVE Goal
  BY <1>19, <1>i DEF TakeSnapshot, CrashInTakeSnapshot, SnapshotDue
<1>20. ASSUME NEW n \in Node, RaftRestart(n) PROVE Goal
  BY <1>20 DEF RaftRestart, Restart, Forgets
<1>21. ASSUME NEW m \in requests, RaftCrashInHandleRequestVote(m) PROVE Goal
  <2>1. m.to \in Node
    BY <1>i DEF TypeOK, Request
  <2> QED
    BY <1>21, <2>1 DEF RaftCrashInHandleRequestVote, CrashInHandleRequestVote, Forgets
<1>23. ASSUME NEW n \in Node, RaftLoadState(n) PROVE Goal
  <2> DEFINE a == lastApplied[n]
             c == commitIndex[n]
  <2>1. a \in Nat /\ c \in Nat /\ snapFile[n].index = 0
    BY <1>i, NodeFacts, Ranges DEF LogsPlain
  <2>2. Max({a, 0}) = a /\ Max({c, 0}) = c
    <3>1. \A x \in Nat : Max({x, 0}) = IF x >= 0 THEN x ELSE 0
      BY MaxOfTwo
    <3>2. \A x \in Nat : Max({x, 0}) = x
      BY <3>1
    <3> QED
      BY <2>1, <3>2
  <2>3. /\ lastApplied' = [lastApplied EXCEPT ![n] = a] /\ commitIndex' = [commitIndex EXCEPT ![n] = c]
    BY <1>23, <2>1, <2>2 DEF RaftLoadState, RestoreIndices
  <2>4. lastApplied' = lastApplied /\ commitIndex' = commitIndex
    BY <1>i, <2>3 DEF RaftTypeInv, VariablesOK
  <2>5. /\ UNCHANGED <<matchIndex, committed, elected, calls, answers>>
        /\ loaded' = [loaded EXCEPT ![n] = TRUE]
    BY <1>23 DEF RaftLoadState, LoadState
  <2> QED
    BY <1>i, <2>4, <2>5 DEF Idle, TypeOK
<1>24. ASSUME UNCHANGED raftVars PROVE Goal
  BY <1>24 DEF raftVars, replicationVars, electionVars, Idle
<1> QED
  BY <1>1, <1>2, <1>3, <1>4, <1>5, <1>6, <1>7, <1>8, <1>9, <1>10, <1>12, <1>14,
     <1>16, <1>17, <1>19, <1>20, <1>21, <1>23, <1>24
  DEF Next
-----------------------------------------------------------------------------
(* Commitment: the rest of the inductive invariant.                        *)

Picked == {x \in Term \X Index : Chosen(x[1], x[2])}

\* The first c entries of l are those of a leader up to one of term T at
\* most, and were chosen with an entry it wrote.
Committable(l, c, T, ledgerOf, picked) ==
    \/ c = 0
    \/ \E t \in Term, i \in Index :
          t <= T /\ <<t, i>> \in picked /\ c <= i /\ Agree(l, ledgerOf[t], c)

Recorded(e, ledgerOf, picked) ==
    \E t \in Term, i \in Index :
        <<t, i>> \in picked /\ e.index \in 1 .. i /\ e = Get(ledgerOf[t], e.index)

NodesCommit ==
    \A n \in Node :
        /\ Committable(diskLog[n], commitIndex[n], disk[n].term, leaderLog, Picked)
        /\ lastApplied[n] <= commitIndex[n]
        /\ ~loaded[n] => commitIndex[n] = 0

CallsCommit ==
    \A m \in calls :
        /\ Committable(leaderLog[m.term], m.commit, m.term, leaderLog, Picked)
        /\ m.commit <= m.prevIndex + Len(m.entries)

\* matchIndex and a successful answer stand for something accepted.
MatchAcked ==
    /\ \A n \in Node : state[n] = Leader => \A p \in Peers(n) : matchIndex[n][p] > 0 =>
          \E j \in Index : j >= matchIndex[n][p] /\ <<p, currentTerm[n], j>> \in acks
    /\ \A a \in answers : a.success =>
          <<a.call.to, a.call.term, a.call.prevIndex + Len(a.call.entries)>> \in acks

AllRecorded == \A e \in committed : Recorded(e, leaderLog, Picked)

SafetyInv == HistoryInv /\ NodesCommit /\ CallsCommit /\ MatchAcked /\ AllRecorded

-----------------------------------------------------------------------------
(* What is chosen stays chosen, and later leaders have it.                 *)

\* The set of chosen entries, before the step ...
LEMMA PickedIs == \A t \in Term, i \in Index : <<t, i>> \in Picked <=> Chosen(t, i)
BY DEF Picked

\* ... and after it.
LEMMA PickedAfter == \A t \in Term, i \in Index : <<t, i>> \in Picked' <=> Chosen(t, i)'
BY DEF Picked

\* A chosen entry stays chosen.
LEMMA PickedGrows ==
    ASSUME Setting, MatchInv, [Next]_raftVars
    PROVE  Picked \subseteq Picked'
<1>1. ASSUME NEW t \in Term, NEW i \in Index, Chosen(t, i) PROVE Chosen(t, i)'
  <2> DEFINE A == {v \in Node : Acked(v, t, i)}
             B == {v \in Node : Acked(v, t, i)'}
  <2>1. Own(t, i)' /\ Cardinality(A) >= Majority
    BY <1>1, OwnStays DEF Chosen
  <2>2. A \subseteq B /\ B \subseteq Node
    BY AckedStays
  <2> HIDE DEF A, B
  <2>3. IsFiniteSet(B) /\ IsFiniteSet(A) /\ Cardinality(A) <= Cardinality(B)
        /\ Cardinality(A) \in Nat /\ Cardinality(B) \in Nat
    BY <2>2, FS_Subset, FS_CardinalityType, ElectionAssumption
  <2>4. Majority \in Nat
    BY FS_CardinalityType, ElectionAssumption DEF Majority
  <2>5. Cardinality(B) >= Majority
    BY <2>1, <2>3, <2>4
  <2> QED
    BY <2>1, <2>5 DEF Chosen, B
<1>2. \A x \in Picked : \E t \in Term, i \in Index : x = <<t, i>> /\ <<t, i>> \in Picked
  BY DEF Picked
<1>3. ASSUME NEW x \in Picked PROVE x \in Picked'
  <2>1. PICK t \in Term, i \in Index : x = <<t, i>> /\ <<t, i>> \in Picked
    BY <1>2
  <2>2. Chosen(t, i)'
    BY <1>1, <2>1, PickedIs
  <2> QED
    BY <2>1, <2>2, PickedAfter
<1> QED
  BY <1>3

\* A chosen entry is not blocked: two majorities meet.
LEMMA ChosenOpen ==
    ASSUME NEW t \in Term, NEW i \in Index, Chosen(t, i) PROVE ~Blocked(t, i)
<1> SUFFICES ASSUME Blocked(t, i) PROVE FALSE
  OBVIOUS
<1> DEFINE A == {v \in Node : Acked(v, t, i)}
<1>1. Cardinality(A) >= Majority /\ A \subseteq Node
  BY DEF Chosen
<1>2. PICK Q \in SUBSET Node : /\ Cardinality(Q) >= Majority
                               /\ \A v \in Q : ~Acked(v, t, i)
  BY DEF Blocked
<1> HIDE DEF A
<1>3. PICK v \in Node : v \in A /\ v \in Q
  BY <1>1, <1>2, MajoritiesMeet
<1> QED
  BY <1>2, <1>3 DEF A

\* Facts about one chosen entry.
LEMMA ChosenFacts ==
    ASSUME MatchInv, NEW t \in Term, NEW i \in Index, Chosen(t, i)
    PROVE  /\ i \in Int /\ 1 <= i /\ i <= LastIndex(leaderLog[t])
           /\ \E k \in Node : <<t, k>> \in elected
<1>1. i \in 1 .. LastIndex(leaderLog[t]) /\ LastIndex(leaderLog[t]) \in Nat
  BY PlainFacts DEF Chosen, Own, MatchInv, LedgerInv, LogsPlain
<1>2. i \in Int /\ 1 <= i /\ i <= LastIndex(leaderLog[t]) /\ LastIndex(leaderLog[t]) >= 1
  BY <1>1
<1> QED
  BY <1>2, OwnElected

\* Leader Completeness on the histories.
LEMMA ChosenHeld ==
    ASSUME MatchInv, HistoryInv, NEW t \in Term, NEW i \in Index, Chosen(t, i),
           NEW u \in Term, t <= u, NEW k \in Node, <<u, k>> \in elected
    PROVE  Agree(leaderLog[u], leaderLog[t], i)
<1> DEFINE L == leaderLog[t]
           M == leaderLog[u]
<1>v. /\ leaderLog \in [Term -> PlainLog] /\ L \in PlainLog /\ M \in PlainLog
      /\ Traced(M, leaderLog) /\ t \in Nat /\ u \in Nat
  BY Ranges DEF MatchInv, LedgerInv, LogsPlain, LogsTraced
<1>c. i \in Int /\ i <= LastIndex(L)
  BY ChosenFacts
<1>1. CASE t = u
  <2>1. M = L
    BY <1>1
  <2> HIDE DEF L, M
  <2>2. Agree(M, L, i)
    BY <1>c, <1>v, <2>1, AgreeSelf
  <2> QED
    BY <2>2 DEF L, M
<1>2. CASE t < u
  <2>1. Own(t, i) /\ ~Blocked(t, i)
    BY ChosenOpen DEF Chosen
  <2>2. Has(M, t, i)
    BY <1>2, <2>1 DEF HistoryInv, Witness
  <2> QED
    BY <1>c, <1>v, <2>2, HasAgrees
<1> QED
  BY <1>v, <1>1, <1>2

\* Two chosen entries: the logs agree as far as both are chosen.
LEMMA ChosenAgree ==
    ASSUME MatchInv, HistoryInv, NEW t \in Term, NEW i \in Index, Chosen(t, i),
           NEW u \in Term, NEW j \in Index, Chosen(u, j),
           NEW k \in Int, 1 <= k, k <= i, k <= j
    PROVE  Get(leaderLog[t], k) = Get(leaderLog[u], k)
<1>1. i \in Int /\ j \in Int /\ t \in Nat /\ u \in Nat
  BY Ranges
<1>2. PICK a \in Node : <<t, a>> \in elected
  BY ChosenFacts
<1>3. PICK b \in Node : <<u, b>> \in elected
  BY ChosenFacts
<1>4. CASE t <= u
  <2>1. Agree(leaderLog[u], leaderLog[t], i)
    BY <1>3, <1>4, ChosenHeld
  <2> QED
    BY <1>1, <2>1 DEF Agree
<1>5. CASE u <= t
  <2>1. Agree(leaderLog[t], leaderLog[u], j)
    BY <1>2, <1>5, ChosenHeld
  <2> QED
    BY <1>1, <2>1 DEF Agree
<1> QED
  BY <1>1, <1>4, <1>5

-----------------------------------------------------------------------------
(* Committable prefixes.                                                   *)

\* What may be committed stays so while terms, leaders' logs and the chosen
\* entries grow.
LEMMA CommitGrows ==
    ASSUME NEW ledgerOf \in [Term -> PlainLog], NEW newer \in [Term -> PlainLog],
           \A t \in Term : Prefix(ledgerOf[t], newer[t]), NEW P, NEW Q, P \subseteq Q,
           NEW l \in PlainLog, NEW c \in Int, NEW T \in Nat, NEW U \in Nat, T <= U,
           Committable(l, c, T, ledgerOf, P)
    PROVE  Committable(l, c, U, newer, Q)
<1>1. ASSUME NEW t \in Term, NEW i \in Index, t <= T, <<t, i>> \in P, c <= i,
             Agree(l, ledgerOf[t], c)
      PROVE  t <= U /\ <<t, i>> \in Q /\ Agree(l, newer[t], c)
  <2>1. t <= U
    <3>1. t \in Nat
      BY Ranges
    <3> QED
      BY <1>1, <3>1
  <2>2. Agree(l, newer[t], c)
    BY <1>1, PrefixAgree
  <2> QED
    BY <1>1, <2>1, <2>2
<1> QED
  BY <1>1 DEF Committable

\* A log that agrees up to a commit index may commit the same.
LEMMA CommitMoves ==
    ASSUME NEW l, NEW m, NEW c, NEW T, NEW ledgerOf, NEW P,
           Committable(l, c, T, ledgerOf, P), Agree(m, l, c)
    PROVE  Committable(m, c, T, ledgerOf, P)
BY AgreeFacts DEF Committable

\* A commit index is within the log.
LEMMA CommitInside ==
    ASSUME NEW l \in PlainLog, NEW c \in Int, NEW T, NEW ledgerOf, NEW P,
           Committable(l, c, T, ledgerOf, P)
    PROVE  c <= LastIndex(l)
<1>1. LastIndex(l) \in Nat
  BY PlainFacts
<1>2. c = 0 \/ \E m : Agree(l, m, c)
  BY DEF Committable
<1>3. c = 0 \/ c <= LastIndex(l)
  BY <1>2 DEF Agree
<1> QED
  BY <1>1, <1>3

\* Every entry up to a commit index is at or below a chosen one.
LEMMA CommitRecorded ==
    ASSUME NEW ledgerOf \in [Term -> PlainLog], NEW l \in PlainLog, NEW c \in Int, NEW T, NEW P,
           Committable(l, c, T, ledgerOf, P), NEW k \in Int, 1 <= k, k <= c
    PROVE  Recorded(Get(l, k), ledgerOf, P)
<1>1. c # 0
  OBVIOUS
<1>2. PICK t \in Term, i \in Index : <<t, i>> \in P /\ c <= i /\ Agree(l, ledgerOf[t], c)
  BY <1>1 DEF Committable
<1>3. c <= LastIndex(l) /\ LastIndex(l) \in Nat
  BY <1>2, PlainFacts DEF Agree
<1>4. k <= LastIndex(l)
  BY <1>3
<1>5. Get(l, k).index = k
  BY <1>4, PlainEntry
<1>6. Get(l, k) = Get(ledgerOf[t], k)
  BY <1>2 DEF Agree
<1>7. k \in 1 .. i
  <2>1. i \in Nat
    BY Ranges
  <2> QED
    BY <1>2, <2>1
<1> QED
  BY <1>2, <1>5, <1>6, <1>7 DEF Recorded

\* What is committable in the term of a leader is in that leader's log.
LEMMA CommitLeader ==
    ASSUME MatchInv, HistoryInv, NEW l \in PlainLog, NEW c \in Int, NEW T \in Nat,
           Committable(l, c, T, leaderLog, Picked),
           NEW u \in Term, T <= u, NEW k \in Node, <<u, k>> \in elected
    PROVE  Agree(l, leaderLog[u], c)
<1>v. leaderLog \in [Term -> PlainLog] /\ leaderLog[u] \in PlainLog
  BY DEF MatchInv, LedgerInv, LogsPlain
<1>1. CASE c = 0
  <2>1. LastIndex(l) \in Nat /\ LastIndex(leaderLog[u]) \in Nat
    BY <1>v, PlainFacts
  <2> QED
    BY <1>1, <2>1 DEF Agree
<1>2. ASSUME NEW t \in Term, NEW i \in Index, t <= T, <<t, i>> \in Picked, c <= i,
             Agree(l, leaderLog[t], c)
      PROVE  Agree(l, leaderLog[u], c)
  <2> DEFINE L == leaderLog[t]
             M == leaderLog[u]
  <2>1. t <= u /\ i \in Int
    <3>1. t \in Nat /\ u \in Nat /\ i \in Nat
      BY Ranges
    <3> QED
      BY <1>2, <3>1
  <2>2. Chosen(t, i)
    BY <1>2, PickedIs
  <2>3. Agree(M, L, i) /\ M \in PlainLog /\ L \in PlainLog
    BY <1>v, <2>1, <2>2, ChosenHeld
  <2>4. Agree(l, L, c)
    BY <1>2
  <2> HIDE DEF L, M
  <2>5. Agree(M, L, c)
    BY <1>2, <2>1, <2>3, AgreeDown
  <2>6. Agree(l, M, c)
    BY <2>4, <2>5, AgreeFacts
  <2> QED
    BY <2>6 DEF M
<1> QED
  BY <1>1, <1>2 DEF Committable
\* Whatever a step does to a node's log, what the node had committed is
\* still the beginning of it.
LEMMA CommitKept ==
    ASSUME Setting, MatchInv, HistoryInv, NodesCommit, [Next]_raftVars, NEW n \in Node
    PROVE  Committable(diskLog'[n], commitIndex[n], disk'[n].term, leaderLog', Picked')
<1> DEFINE D == diskLog[n]
           E == diskLog'[n]
           c == commitIndex[n]
           T == disk[n].term
<1>v. /\ leaderLog \in [Term -> PlainLog] /\ leaderLog' \in [Term -> PlainLog]
      /\ \A t \in Term : Prefix(leaderLog[t], leaderLog'[t])
      /\ D \in PlainLog /\ E \in PlainLog /\ T \in Nat /\ disk'[n].term \in Nat
      /\ T <= disk'[n].term /\ Picked \subseteq Picked'
  BY LedgerFacts, PickedGrows
<1>c. c \in Int
  <2>1. c \in Index
    BY NodeFacts DEF MatchInv
  <2> QED
    BY <2>1, Numbers
<1>0. Committable(D, c, T, leaderLog, Picked)
  BY DEF NodesCommit
<1>d. c <= LastIndex(D)
  <2> HIDE DEF D, c, T
  <2> QED
    BY <1>0, <1>c, <1>v, CommitInside
<1>s. Agree(D, D, c)
  <2> HIDE DEF D, c
  <2> QED
    BY <1>c, <1>d, <1>v, AgreeSelf
<1>1. Agree(E, D, c)
  <2>1. CASE E = D
    BY <1>s, <2>1
  <2>2. CASE Appended(n, currentTerm[n])
    <3>1. Prefix(D, E)
      BY <2>2, LedgerFacts DEF Appended
    <3>2. LastIndex(D) \in Int
      BY <1>v, PlainFacts
    <3>3. Agree(E, D, LastIndex(D))
      BY <3>1, AgreeFacts DEF Prefix
    <3> HIDE DEF D, E, c
    <3> QED
      BY <1>c, <1>d, <1>v, <3>2, <3>3, AgreeDown
  <2>3. ASSUME NEW u \in Term, NEW end \in Index, Accepted(n, u, end) PROVE Agree(E, D, c)
    <3> DEFINE M == leaderLog[u]
    <3>1. /\ T <= u /\ MergedWith(D, M, end, E)
          /\ \E k \in Node : <<u, k>> \in elected
      BY <2>3 DEF Accepted
    <3>2. PICK k \in Node : <<u, k>> \in elected
      BY <3>1
    <3>3. Agree(D, M, c)
      <4> HIDE DEF D, T, c
      <4> QED
        BY <1>0, <1>c, <1>v, <3>1, <3>2, CommitLeader
    <3>4. Agree(E, M, c)
      BY <1>c, <3>1, <3>3 DEF MergedWith
    <3> QED
      BY <3>3, <3>4, AgreeFacts
  <2> QED
    BY <2>1, <2>2, <2>3, DiskLogStep
<1> HIDE DEF D, E, c, T
<1>2. Committable(E, c, T, leaderLog, Picked)
  BY <1>0, <1>1, CommitMoves
<1>3. Committable(E, c, disk'[n].term, leaderLog', Picked')
  BY <1>c, <1>v, <1>2, CommitGrows
<1> QED
  BY <1>3 DEF E, c

\* A node learns of a new commit index.
Advances(n, c) ==
    /\ c \in Index /\ c > commitIndex[n] /\ loaded'[n] /\ diskLog'[n] = log'[n]
    /\ Committable(log'[n], c, disk'[n].term, leaderLog', Picked')
    /\ commitIndex' = [commitIndex EXCEPT ![n] = c]
    /\ committed' = committed \cup {Get(log'[n], i) : i \in commitIndex[n] + 1 .. c}
    /\ lastApplied' = lastApplied /\ loaded' = loaded

\* Commit, for a log that is not compacted.
LEMMA PlainCommit ==
    ASSUME RaftTypeInv, NEW n \in Node, NEW l \in PlainLog, NEW c, Commit(n, l, c)
    PROVE  /\ commitIndex' = [commitIndex EXCEPT ![n] = c]
           /\ committed' = committed \cup {Get(l, i) : i \in commitIndex[n] + 1 .. c}
<1>1. SnapshotIndex(l) = 0 /\ commitIndex[n] \in Nat
  BY PlainFacts, NodeFacts, Ranges
<1>2. \A x \in Nat : Max({x, 0}) = IF x >= 0 THEN x ELSE 0
  BY MaxOfTwo
<1>3. Max({commitIndex[n], SnapshotIndex(l)}) = commitIndex[n]
  BY <1>1, <1>2
<1> QED
  BY <1>3 DEF Commit

\* A follower's commit index never passes what the leader vouched for.
LEMMA AcceptCommits ==
    ASSUME Setting, MatchInv, HistoryInv, CallsCommit, [Next]_raftVars,
           NEW m \in calls, NEW d \in BOOLEAN, AcceptAppendEntries(m, d)
    PROVE  /\ lastApplied' = lastApplied /\ loaded' = loaded
           /\ \/ UNCHANGED <<commitIndex, committed>>
              \/ m.to \in Node /\ Advances(m.to, m.commit)
<1> DEFINE n == m.to
           c == m.commit
           l == log'[n]
           L == leaderLog[m.term]
           end == m.prevIndex + Len(m.entries)
<1>0. RaftTypeInv /\ TypeOK /\ VoteInv /\ LogsPlain
  BY DEF MatchInv, RaftTypeInv, ElectionInv, LedgerInv
<1>1. n \in Node /\ Accepted(n, m.term, end)
  BY AcceptedShape
<1>2. Sent(m) /\ m.kind = "Append"
  BY <1>0 DEF RaftTypeInv, CallsOK, LogsPlain
<1>3. c \in Index /\ m.term \in Term
  BY <1>0, <1>2, CallFacts
<1>4. /\ loaded' = loaded /\ lastApplied' = lastApplied
      /\ log' = [log EXCEPT ![n] = AppendBatch(log[n], m.entries)]
      /\ IF c > commitIndex[n]
         THEN Commit(n, AppendBatch(log[n], m.entries),
                     Min({c, LastIndex(AppendBatch(log[n], m.entries))}))
         ELSE UNCHANGED <<commitIndex, committed>>
  BY DEF AcceptAppendEntries, ObserveLeader
<1>5. AppendBatch(log[n], m.entries) = l
  BY <1>0, <1>1, <1>4 DEF LogsPlain
<1>6. /\ loaded[n] /\ disk'[n].term = m.term /\ diskLog'[n] = l /\ leaderLog' = leaderLog
      /\ end \in Index /\ Agree(l, L, end) /\ l \in PlainLog
  BY <1>1 DEF Accepted, MergedWith
<1>7. Committable(L, c, m.term, leaderLog, Picked) /\ c <= end
  BY DEF CallsCommit
<1>8. L \in PlainLog /\ leaderLog \in [Term -> PlainLog] /\ Picked \subseteq Picked'
  BY <1>0, <1>3, PickedGrows DEF LogsPlain
<1>9. end \in Int /\ c \in Int /\ m.term \in Nat /\ m.term <= m.term
  <2>1. end \in Index
    BY <1>6
  <2> HIDE DEF end, c
  <2> QED
    BY <1>3, <2>1, Numbers
<1>10. \A t \in Term : Prefix(leaderLog[t], leaderLog'[t])
  BY LedgerFacts
<1> HIDE DEF n, c, l, L, end
<1>11. Agree(l, L, c)
  BY <1>6, <1>7, <1>8, <1>9, AgreeDown
<1>12. Committable(l, c, m.term, leaderLog, Picked)
  BY <1>7, <1>11, CommitMoves
<1>13. Committable(l, c, m.term, leaderLog', Picked')
  BY <1>6, <1>8, <1>9, <1>10, <1>12, CommitGrows
<1>14. Min({c, LastIndex(l)}) = c
  <2>1. c <= LastIndex(l)
    BY <1>11 DEF Agree
  <2>2. l \in StoredLog
    BY <1>6, PlainFacts
  <2>3. Min({c, LastIndex(l)}) = IF c <= LastIndex(l) THEN c ELSE LastIndex(l)
    BY <1>3, <2>2, LearnedCommit
  <2> QED
    BY <2>1, <2>3
<1>15. ASSUME c > commitIndex[n] PROVE Advances(n, c)
  <2>1. Commit(n, l, c)
    BY <1>4, <1>5, <1>14, <1>15
  <2>2. /\ commitIndex' = [commitIndex EXCEPT ![n] = c]
        /\ committed' = committed \cup {Get(l, i) : i \in commitIndex[n] + 1 .. c}
    BY <1>0, <1>1, <1>6, <2>1, PlainCommit
  <2> QED
    BY <1>3, <1>4, <1>6, <1>13, <1>15, <2>2 DEF Advances, l
<1> QED
  BY <1>1, <1>4, <1>15 DEF n, c
\* maybeCommit: the index is new, its entry is the leader's own, and a
\* majority of matchIndex entries vouches for it.
LEMMA AcceptedCommits ==
    ASSUME Setting, MatchInv, HistoryInv, MatchAcked, [Next]_raftVars,
           NEW a \in answers, HandleAccepted(a)
    PROVE  /\ lastApplied' = lastApplied /\ loaded' = loaded
           /\ \/ UNCHANGED <<commitIndex, committed>>
              \/ \E c \in Index : a.call.from \in Node /\ Advances(a.call.from, c)
<1> DEFINE n == a.call.from
           p == a.call.to
           k == MatchAfterAccept(n, a)
           match == [matchIndex[n] EXCEPT ![p] = k]
           q == QuorumIndex(n, match)
           T == currentTerm[n]
           l == log[n]
<1>0. RaftTypeInv /\ LogsPlain /\ LeaderLogOK /\ MemoryOK /\ VoteInv
  BY DEF MatchInv, LedgerInv
<1>1. /\ state[n] = Leader /\ T = a.call.term /\ a.call.kind = "Append" /\ a.success
      /\ lastApplied' = lastApplied /\ UNCHANGED <<electionVars, diskLog, ledger>>
      /\ MaybeCommit(n, match)
  BY DEF HandleAccepted, CurrentAnswer
<1>2. /\ UNCHANGED <<log, loaded, disk, elected, currentTerm, state, diskLog, leaderLog, acks>>
  BY <1>1 DEF electionVars, nodeVars, ledger
<1>3. /\ n \in Node /\ p \in Node /\ p # n /\ k \in Nat
      /\ k \in {matchIndex[n][p], a.call.prevIndex + Len(a.call.entries)}
  BY <1>1, AcceptedMatch
<1>4. k \in Index /\ matchIndex \in [Node -> [Node -> Index]]
  BY <1>0, <1>1, TrackingIndices DEF RaftTypeInv, VariablesOK
<1>5. match \in [Node -> Index]
  <2> HIDE DEF k
  <2> QED
    BY <1>3, <1>4
<1>6. /\ T \in Term /\ T # 0 /\ <<T, n>> \in elected /\ l \in PlainLog /\ leaderLog[T] = l
      /\ loaded[n] /\ diskLog[n] = l /\ disk[n].term = T
  BY <1>0, <1>1, <1>3, NodeFacts DEF LogsPlain, LeaderLogOK, MemoryOK
\* Whom the leader counts for i, has accepted its log up to i.
<1>7. ASSUME NEW v \in Node, v # n, NEW i \in Index, i > 0, match[v] >= i PROVE Acked(v, T, i)
  <2>0. i \in Nat /\ \A j \in Index : j \in Nat
    BY Numbers
  <2>1. ASSUME NEW x \in Index, x >= i, x = matchIndex[n][v] PROVE Acked(v, T, i)
    <3>1. matchIndex[n][v] > 0 /\ v \in Peers(n)
      BY <1>7, <2>0, <2>1 DEF Peers
    <3>2. PICK j \in Index : j >= matchIndex[n][v] /\ <<v, T, j>> \in acks
      BY <1>1, <1>3, <3>1 DEF MatchAcked
    <3>3. j >= i
      BY <2>0, <2>1, <3>2
    <3> QED
      BY <3>2, <3>3 DEF Acked
  <2>2. CASE v # p
    <3>1. match[v] = matchIndex[n][v]
      BY <1>3, <1>4, <2>2
    <3> QED
      BY <1>5, <1>7, <2>1, <3>1
  <2>3. CASE v = p
    <3>1. match[v] = k
      BY <1>3, <1>4, <2>3
    <3>2. CASE k = matchIndex[n][p]
      BY <1>4, <1>7, <2>1, <2>3, <3>1, <3>2
    <3>3. CASE k = a.call.prevIndex + Len(a.call.entries)
      <4>1. <<p, T, k>> \in acks
        BY <1>1, <3>3 DEF MatchAcked
      <4> QED
        BY <1>4, <1>7, <2>3, <3>1, <4>1 DEF Acked
    <3> QED
      BY <1>3, <3>2, <3>3
  <2> QED
    BY <2>2, <2>3
<1> DEFINE I == [v \in Node |-> IF v = n THEN LastIndex(log[n]) ELSE match[v]]
           A == {v \in Node : I[v] >= q}
<1>8. q \in Index /\ Cardinality(A) >= Majority
  <2>1. log[n] \in StoredLog
    BY <1>6, PlainFacts
  <2> HIDE DEF match
  <2> QED
    BY <1>3, <1>5, <2>1, QuorumIndexFacts
<1>9. ASSUME q > commitIndex[n], Get(l, q).term = T PROVE Advances(n, q)
  <2>1. Commit(n, l, q)
    BY <1>1, <1>9 DEF MaybeCommit
  <2>2. q \in Int /\ q \in Nat /\ commitIndex[n] \in Nat
    BY <1>0, <1>3, <1>8, NodeFacts, Numbers
  <2>3. q > 0
    BY <1>9, <2>2
  <2>4. q <= LastIndex(l) /\ LastIndex(l) \in Nat
    <3>1. q > LastIndex(l) => Get(l, q).term = 0
      <4> HIDE DEF q, l
      <4> QED
        BY <1>6, <2>2, PlainBeyond
    <3>2. LastIndex(l) \in Nat
      BY <1>6, PlainFacts
    <3> QED
      BY <1>6, <1>9, <2>2, <3>1, <3>2
  <2>5. Own(T, q)
    BY <1>6, <1>9, <2>2, <2>3, <2>4 DEF Own
  <2>6. A \subseteq {v \in Node : Acked(v, T, q)}
    <3> SUFFICES ASSUME NEW v \in Node, I[v] >= q PROVE Acked(v, T, q)
      OBVIOUS
    <3>1. CASE v = n
      BY <1>6, <3>1 DEF Acked
    <3>2. CASE v # n
      <4>1. match[v] >= q
        BY <3>2
      <4> HIDE DEF match, q
      <4> QED
        BY <1>7, <1>8, <2>3, <3>2, <4>1
    <3> QED
      BY <3>1, <3>2
  <2>7. Chosen(T, q)
    <3> DEFINE B == {v \in Node : Acked(v, T, q)}
    <3>1. A \subseteq B /\ B \subseteq Node
      BY <2>6
    <3> HIDE DEF A, B
    <3>2. /\ Cardinality(A) <= Cardinality(B) /\ Cardinality(A) \in Nat
          /\ Cardinality(B) \in Nat
      BY <3>1, FS_Subset, FS_CardinalityType, ElectionAssumption
    <3>3. Majority \in Nat
      BY FS_CardinalityType, ElectionAssumption DEF Majority
    <3>4. Cardinality(B) >= Majority
      BY <1>8, <3>2, <3>3
    <3> QED
      BY <2>5, <3>4 DEF Chosen, B
  <2>8. <<T, q>> \in Picked'
    BY <1>6, <1>8, <2>7, PickedIs, PickedGrows
  <2>9. Committable(l, q, T, leaderLog, Picked')
    <3>1. Agree(l, l, q)
      <4> HIDE DEF l, q
      <4> QED
        BY <1>6, <2>2, <2>4, AgreeSelf
    <3>2. T <= T /\ q <= q
      BY <1>6, <2>2, Numbers
    <3> HIDE DEF l, q, T
    <3> QED
      BY <1>6, <1>8, <2>8, <3>1, <3>2 DEF Committable
  <2>10. /\ commitIndex' = [commitIndex EXCEPT ![n] = q]
         /\ committed' = committed \cup {Get(l, i) : i \in commitIndex[n] + 1 .. q}
    <3> HIDE DEF l, q
    <3> QED
      BY <1>0, <1>3, <1>6, <2>1, PlainCommit
  <2> HIDE DEF q
  <2> QED
    BY <1>1, <1>2, <1>6, <1>8, <1>9, <2>9, <2>10 DEF Advances
<1>10. ASSUME ~(q > commitIndex[n] /\ Get(l, q).term = T)
       PROVE  UNCHANGED <<commitIndex, committed>>
  BY <1>1, <1>10 DEF MaybeCommit
<1> HIDE DEF q
<1> QED
  BY <1>1, <1>2, <1>3, <1>8, <1>9, <1>10

-----------------------------------------------------------------------------
(* The invariant, one step at a time.                                      *)

\* Commit and apply indices: what a node had committed it keeps, and what
\* it newly commits is committable.
LEMMA NodesStep ==
    ASSUME Setting, MatchInv, HistoryInv, NodesCommit, CallsCommit, MatchAcked, [Next]_raftVars
    PROVE  NodesCommit'
<1> DEFINE Kept(n, c) == Committable(diskLog'[n], c, disk'[n].term, leaderLog', Picked')
<1>i. /\ commitIndex \in [Node -> Index] /\ lastApplied \in [Node -> Index]
      /\ loaded \in [Node -> BOOLEAN]
  BY DEF MatchInv, RaftTypeInv, VariablesOK, ElectionInv, TypeOK
<1>n. \A n \in Node : /\ commitIndex[n] \in Nat /\ lastApplied[n] \in Nat
                      /\ lastApplied[n] <= commitIndex[n]
                      /\ ~loaded[n] => commitIndex[n] = 0
  <2>1. \A n \in Node : commitIndex[n] \in Index /\ lastApplied[n] \in Index
    BY <1>i
  <2> QED
    BY <2>1, Numbers DEF NodesCommit
<1>k. \A n \in Node : Kept(n, commitIndex[n]) /\ Kept(n, 0)
  BY CommitKept DEF Committable
<1>g. NodesCommit' <=> \A n \in Node : /\ Kept(n, commitIndex'[n])
                                       /\ lastApplied'[n] <= commitIndex'[n]
                                       /\ ~loaded'[n] => commitIndex'[n] = 0
  BY DEF NodesCommit
<1> HIDE DEF Kept
<1>a. ASSUME UNCHANGED <<commitIndex, lastApplied>>, \A n \in Node : loaded[n] => loaded'[n]
      PROVE  NodesCommit'
  BY <1>a, <1>g, <1>k, <1>n
<1>b. ASSUME NEW n \in Node, NEW c, Advances(n, c) PROVE NodesCommit'
  <2>1. /\ c \in Index /\ c > commitIndex[n] /\ loaded'[n] /\ Kept(n, c)
        /\ commitIndex' = [commitIndex EXCEPT ![n] = c]
        /\ lastApplied' = lastApplied /\ loaded' = loaded
    BY <1>b DEF Advances, Kept
  <2>2. c \in Nat
    BY <2>1, Numbers
  <2>3. ASSUME NEW k \in Node
        PROVE  /\ Kept(k, commitIndex'[k]) /\ lastApplied'[k] <= commitIndex'[k]
               /\ ~loaded'[k] => commitIndex'[k] = 0
    <3>1. CASE k = n
      <4>1. commitIndex'[k] = c
        BY <1>i, <2>1, <3>1
      <4> QED
        BY <1>n, <2>1, <2>2, <3>1, <4>1
    <3>2. CASE k # n
      <4>1. commitIndex'[k] = commitIndex[k]
        BY <1>i, <2>1, <3>2
      <4> QED
        BY <1>k, <1>n, <2>1, <4>1
    <3> QED
      BY <3>1, <3>2
  <2> QED
    BY <1>g, <2>3
<1>1. CASE Idle
  BY <1>1, <1>a DEF Idle
<1>2. ASSUME NEW n \in Node, Won(n) PROVE NodesCommit'
  BY <1>2, <1>a DEF Won, WonBy
<1>3. ASSUME NEW n \in Node, Forgets(n) PROVE NodesCommit'
  <2>1. /\ commitIndex' = [commitIndex EXCEPT ![n] = 0]
        /\ lastApplied' = [lastApplied EXCEPT ![n] = 0]
        /\ loaded' = [loaded EXCEPT ![n] = FALSE]
    BY <1>3 DEF Forgets, FreshReplication, FreshMemory
  <2>2. ASSUME NEW k \in Node
        PROVE  /\ Kept(k, commitIndex'[k]) /\ lastApplied'[k] <= commitIndex'[k]
               /\ ~loaded'[k] => commitIndex'[k] = 0
    <3>1. CASE k = n
      <4>1. commitIndex'[k] = 0 /\ lastApplied'[k] = 0
        BY <1>i, <2>1, <3>1
      <4> QED
        BY <1>k, <4>1
    <3>2. CASE k # n
      <4>1. /\ commitIndex'[k] = commitIndex[k] /\ lastApplied'[k] = lastApplied[k]
            /\ loaded'[k] = loaded[k]
        BY <1>i, <2>1, <3>2
      <4> QED
        BY <1>k, <1>n, <4>1
    <3> QED
      BY <3>1, <3>2
  <2> QED
    BY <1>g, <2>2
<1>4. ASSUME NEW n \in Node, ApplyEntry(n) PROVE NodesCommit'
  <2>1. /\ commitIndex' = commitIndex /\ lastApplied' = [lastApplied EXCEPT ![n] = @ + 1]
        /\ loaded' = loaded /\ lastApplied[n] < commitIndex[n]
    BY <1>4 DEF ApplyEntry, electionVars, nodeVars
  <2>2. ASSUME NEW k \in Node PROVE lastApplied'[k] <= commitIndex[k]
    BY <1>i, <1>n, <2>1
  <2> QED
    BY <1>g, <1>k, <1>n, <2>1, <2>2
<1>5. ASSUME NEW n \in Node, NEW S \in SUBSET Peers(n), Sends(n, S) PROVE NodesCommit'
  BY <1>5, <1>a DEF Sends
<1>6. ASSUME NEW m \in calls, NEW d \in BOOLEAN, AcceptAppendEntries(m, d) PROVE NodesCommit'
  BY <1>6, <1>a, <1>b, AcceptCommits
<1>7. ASSUME NEW a \in answers, HandleAccepted(a) PROVE NodesCommit'
  BY <1>7, <1>a, <1>b, AcceptedCommits
<1> QED
  BY <1>1, <1>2, <1>3, <1>4, <1>5, <1>6, <1>7, StepKinds

\* What is recorded as committed stays a chosen leader's entry.
LEMMA RecordedGrows ==
    ASSUME Setting, MatchInv, [Next]_raftVars, NEW e, Recorded(e, leaderLog, Picked)
    PROVE  Recorded(e, leaderLog', Picked')
<1>1. PICK t \in Term, i \in Index :
         <<t, i>> \in Picked /\ e.index \in 1 .. i /\ e = Get(leaderLog[t], e.index)
  BY DEF Recorded
<1> DEFINE L == leaderLog[t]
           N == leaderLog'[t]
<1>2. <<t, i>> \in Picked' /\ i \in Int /\ i <= LastIndex(L)
  BY <1>1, PickedGrows, PickedIs, ChosenFacts
<1>3. Prefix(L, N) /\ L \in PlainLog
  BY LedgerFacts
<1>4. LastIndex(L) \in Nat
  BY <1>3, PlainFacts
<1>5. Get(N, e.index) = Get(L, e.index)
  <2> HIDE DEF L, N
  <2> QED
    BY <1>1, <1>2, <1>3, <1>4 DEF Prefix, Agree
<1> QED
  BY <1>1, <1>2, <1>5 DEF Recorded

\* Every entry that was ever committed or applied is at or below a chosen one.
LEMMA RecordedStep ==
    ASSUME Setting, MatchInv, SafetyInv, [Next]_raftVars
    PROVE  AllRecorded'
<1>i. /\ HistoryInv /\ NodesCommit /\ CallsCommit /\ MatchAcked /\ AllRecorded
      /\ commitIndex \in [Node -> Index] /\ lastApplied \in [Node -> Index]
      /\ leaderLog \in [Term -> PlainLog]
  BY LedgerFacts DEF SafetyInv, MatchInv, RaftTypeInv, VariablesOK
<1>o. \A e \in committed : Recorded(e, leaderLog', Picked')
  BY <1>i, RecordedGrows DEF AllRecorded
<1>g. AllRecorded' <=> \A e \in committed' : Recorded(e, leaderLog', Picked')
  BY DEF AllRecorded
<1>a. ASSUME committed' = committed PROVE AllRecorded'
  BY <1>a, <1>g, <1>o
<1>b. ASSUME NEW n \in Node, NEW c, Advances(n, c) PROVE AllRecorded'
  <2> DEFINE l == log'[n]
             b == commitIndex[n]
             T == disk'[n].term
  <2>1. /\ c \in Index /\ Committable(l, c, T, leaderLog', Picked')
        /\ committed' = committed \cup {Get(l, i) : i \in b + 1 .. c}
    BY <1>b DEF Advances
  <2>2. b \in Index /\ l \in PlainLog /\ leaderLog' \in [Term -> PlainLog]
    BY <1>i, LedgerFacts
  <2> HIDE DEF l, b, T
  <2>3. b \in Nat /\ c \in Int
    BY <2>1, <2>2, Numbers
  <2>4. ASSUME NEW i \in b + 1 .. c PROVE Recorded(Get(l, i), leaderLog', Picked')
    <3>1. i \in Int /\ 1 <= i /\ i <= c
      BY <2>3
    <3> QED
      BY <2>1, <2>2, <2>3, <3>1, CommitRecorded
  <2> QED
    BY <1>g, <1>o, <2>1, <2>4
<1>1. CASE Idle
  BY <1>1, <1>a DEF Idle
<1>2. ASSUME NEW n \in Node, Won(n) PROVE AllRecorded'
  BY <1>2, <1>a DEF Won
<1>3. ASSUME NEW n \in Node, Forgets(n) PROVE AllRecorded'
  BY <1>3, <1>a DEF Forgets, FreshReplication
<1>4. ASSUME NEW n \in Node, ApplyEntry(n) PROVE AllRecorded'
  <2> DEFINE l == log[n]
             c == commitIndex[n]
             k == lastApplied[n] + 1
             T == disk[n].term
  <2>1. /\ committed' = committed \cup {Get(l, k)} /\ loaded[n] /\ lastApplied[n] < c
    BY <1>4 DEF ApplyEntry
  <2>2. l = diskLog[n] /\ l \in PlainLog
    BY <2>1 DEF MatchInv, LedgerInv, MemoryOK, LogsPlain
  <2>3. Committable(l, c, T, leaderLog, Picked)
    BY <1>i, <2>2 DEF NodesCommit
  <2>4. lastApplied[n] \in Nat /\ c \in Nat
    BY <1>i, Numbers
  <2>5. k \in Int /\ 1 <= k /\ k <= c /\ c \in Int
    BY <2>1, <2>4
  <2> HIDE DEF l, c, k, T
  <2>6. Recorded(Get(l, k), leaderLog, Picked)
    BY <1>i, <2>2, <2>3, <2>5, CommitRecorded
  <2>7. Recorded(Get(l, k), leaderLog', Picked')
    BY <2>6, RecordedGrows
  <2> QED
    BY <1>g, <1>o, <2>1, <2>7
<1>5. ASSUME NEW n \in Node, NEW S \in SUBSET Peers(n), Sends(n, S) PROVE AllRecorded'
  BY <1>5, <1>a DEF Sends
<1>6. ASSUME NEW m \in calls, NEW d \in BOOLEAN, AcceptAppendEntries(m, d) PROVE AllRecorded'
  BY <1>6, <1>a, <1>b, <1>i, AcceptCommits
<1>7. ASSUME NEW a \in answers, HandleAccepted(a) PROVE AllRecorded'
  BY <1>7, <1>a, <1>b, <1>i, AcceptedCommits
<1> QED
  BY <1>1, <1>2, <1>3, <1>4, <1>5, <1>6, <1>7, StepKinds

\* matchIndex: a leader counts only what a peer accepted in its own term.
LEMMA MatchAckedStep ==
    ASSUME Setting, MatchInv, MatchAcked, [Next]_raftVars
    PROVE  MatchAcked'
<1> DEFINE Known(n, p, k, t) == k > 0 => \E j \in Index : j >= k /\ <<p, t, j>> \in acks'
           Took(a) == <<a.call.to, a.call.term, a.call.prevIndex + Len(a.call.entries)>> \in acks'
           Peered == \A n \in Node : state'[n] = Leader =>
                        \A p \in Peers(n) : Known(n, p, matchIndex'[n][p], currentTerm'[n])
           Heard == \A a \in answers' : a.success => Took(a)
<1>i. /\ VoteInv /\ RaftTypeInv /\ TypeOK /\ ElectedOK
      /\ matchIndex \in [Node -> [Node -> Index]] /\ acks \subseteq acks'
  BY LedgerFacts DEF MatchInv, LedgerInv, VoteInv, ElectionInv, RaftTypeInv, VariablesOK
<1>f. \A n \in Node : RoleKept(n)
  BY <1>i, StepFacts
<1>g. MatchAcked' <=> Peered /\ Heard
  BY DEF MatchAcked
<1>e. ASSUME elected' = elected, NEW n \in Node, state'[n] = Leader PROVE state[n] = Leader
  BY <1>e, <1>f, <1>i DEF RoleKept, ElectedOK
<1>t. ASSUME NEW n \in Node, state[n] = Leader, state'[n] = Leader
      PROVE  currentTerm'[n] = currentTerm[n]
  BY <1>f, <1>t DEF RoleKept
<1>k. ASSUME NEW n \in Node, state[n] = Leader, NEW p \in Peers(n)
      PROVE  Known(n, p, matchIndex[n][p], currentTerm[n])
  BY <1>i, <1>k DEF MatchAcked
<1>h. ASSUME NEW a \in answers, a.success PROVE Took(a)
  BY <1>h, <1>i DEF MatchAcked
<1>z. \A n, p, t : Known(n, p, 0, t)
  OBVIOUS
<1>p. \A n : \A p \in Peers(n) : p \in Node
  BY DEF Peers
<1> HIDE DEF Known, Took
<1>m. ASSUME UNCHANGED <<matchIndex, elected>> PROVE Peered
  BY <1>e, <1>k, <1>m, <1>t
<1>a. ASSUME \A a \in answers' : a.success => a \in answers PROVE Heard
  BY <1>a, <1>h
<1>1. CASE Idle
  BY <1>1, <1>a, <1>g, <1>m DEF Idle
<1>2. ASSUME NEW n \in Node, Won(n) PROVE MatchAcked'
  <2>1. /\ state' = [state EXCEPT ![n] = Leader]
        /\ matchIndex' = [matchIndex EXCEPT ![n] = [p \in Node |-> 0]] /\ answers' = answers
    BY <1>2 DEF Won, WonBy
  <2>2. ASSUME NEW k \in Node, state'[k] = Leader, NEW p \in Peers(k)
        PROVE  Known(k, p, matchIndex'[k][p], currentTerm'[k])
    <3>1. CASE k = n
      <4>1. matchIndex'[k][p] = 0
        BY <1>i, <1>p, <2>1, <3>1
      <4> QED
        BY <1>z, <4>1
    <3>2. CASE k # n
      <4>1. matchIndex'[k][p] = matchIndex[k][p]
        BY <1>i, <2>1, <3>2
      <4>2. state[k] = Leader
        BY <1>i, <2>1, <2>2, <3>2 DEF TypeOK
      <4> QED
        BY <1>k, <1>t, <2>2, <4>1, <4>2
    <3> QED
      BY <3>1, <3>2
  <2> QED
    BY <1>a, <1>g, <2>1, <2>2
<1>3. ASSUME NEW n \in Node, Forgets(n) PROVE MatchAcked'
  <2>1. /\ matchIndex' = [matchIndex EXCEPT ![n] = [p \in Node |-> 0]]
        /\ answers' \subseteq answers /\ elected' = elected
    BY <1>3 DEF Forgets, FreshReplication, FreshMemory
  <2>2. ASSUME NEW k \in Node, state'[k] = Leader, NEW p \in Peers(k)
        PROVE  Known(k, p, matchIndex'[k][p], currentTerm'[k])
    <3>1. CASE k = n
      <4>1. matchIndex'[k][p] = 0
        BY <1>i, <1>p, <2>1, <3>1
      <4> QED
        BY <1>z, <4>1
    <3>2. CASE k # n
      <4>1. matchIndex'[k][p] = matchIndex[k][p]
        BY <1>i, <2>1, <3>2
      <4>2. state[k] = Leader
        BY <1>e, <2>1, <2>2
      <4> QED
        BY <1>k, <1>t, <2>2, <4>1, <4>2
    <3> QED
      BY <3>1, <3>2
  <2> QED
    BY <1>a, <1>g, <2>1, <2>2
<1>4. ASSUME NEW n \in Node, ApplyEntry(n) PROVE MatchAcked'
  BY <1>4, <1>a, <1>g, <1>m DEF ApplyEntry, electionVars
<1>5. ASSUME NEW n \in Node, NEW S \in SUBSET Peers(n), Sends(n, S) PROVE MatchAcked'
  BY <1>5, <1>a, <1>g, <1>m DEF Sends
<1>6. ASSUME NEW m \in calls, NEW d \in BOOLEAN, AcceptAppendEntries(m, d) PROVE MatchAcked'
  <2> DEFINE b == [call |-> m, term |-> m.term, success |-> TRUE, conflictTerm |-> 0,
                   conflictIndex |-> 0]
  <2>1. /\ UNCHANGED <<matchIndex, elected>>
        /\ acks' = acks \cup {<<m.to, m.term, m.prevIndex + Len(m.entries)>>}
        /\ answers' = IF d THEN answers \cup {b} ELSE answers
    BY <1>6 DEF AcceptAppendEntries, ObserveLeader, Answer
  <2>2. b.call = m
    OBVIOUS
  <2> HIDE DEF b
  <2>3. Took(b)
    BY <2>1, <2>2 DEF Took
  <2> QED
    BY <1>g, <1>h, <1>m, <2>1, <2>3
<1>7. ASSUME NEW a \in answers, HandleAccepted(a) PROVE MatchAcked'
  <2> DEFINE n == a.call.from
             q == a.call.to
             y == MatchAfterAccept(n, a)
             end == a.call.prevIndex + Len(a.call.entries)
  <2>1. /\ state[n] = Leader /\ currentTerm[n] = a.call.term /\ a.call.kind = "Append"
        /\ elected' = elected /\ answers' \subseteq answers /\ a.success
        /\ matchIndex' = [matchIndex EXCEPT ![n][q] = y]
    BY <1>7 DEF HandleAccepted, CurrentAnswer, electionVars
  <2>2. n \in Node /\ q \in Node /\ q # n /\ y \in {matchIndex[n][q], end}
    BY <2>1, AcceptedMatch
  <2>3. y \in Index
    BY <1>i, <2>1, TrackingIndices
  <2>4. <<q, currentTerm[n], end>> \in acks'
    BY <1>h, <2>1 DEF Took
  <2>5. y <= y
    <3> HIDE DEF y
    <3> QED
      BY <2>3, Numbers
  <2> HIDE DEF n, q, y, end
  <2>6. Known(n, q, y, currentTerm[n])
    <3>1. CASE y = matchIndex[n][q]
      BY <1>k, <2>1, <2>2, <3>1 DEF Peers
    <3>2. CASE y = end
      BY <2>3, <2>4, <2>5, <3>2 DEF Known
    <3> QED
      BY <2>2, <3>1, <3>2
  <2>7. ASSUME NEW k \in Node, state'[k] = Leader, NEW p \in Peers(k)
        PROVE  Known(k, p, matchIndex'[k][p], currentTerm'[k])
    <3>0. state[k] = Leader /\ currentTerm'[k] = currentTerm[k]
      BY <1>e, <1>t, <2>1, <2>7
    <3>1. CASE k = n /\ p = q
      <4>1. matchIndex'[k][p] = y
        BY <1>i, <2>1, <2>2, <3>1
      <4> QED
        BY <2>6, <3>0, <3>1, <4>1
    <3>2. CASE ~(k = n /\ p = q)
      <4>1. matchIndex'[k][p] = matchIndex[k][p]
        BY <1>i, <1>p, <2>1, <2>2, <3>2
      <4> QED
        BY <1>k, <3>0, <4>1
    <3> QED
      BY <3>1, <3>2
  <2> QED
    BY <1>a, <1>g, <2>1, <2>7
<1> QED
  BY <1>1, <1>2, <1>3, <1>4, <1>5, <1>6, <1>7, StepKinds

\* Calls on the network: the commit index a call carries is within the
\* entries the follower will have when it takes the call.
LEMMA CallsStep ==
    ASSUME Setting, MatchInv, SafetyInv, [Next]_raftVars
    PROVE  CallsCommit'
<1> DEFINE Good(m) == /\ Committable(leaderLog'[m.term], m.commit, m.term, leaderLog', Picked')
                      /\ m.commit <= m.prevIndex + Len(m.entries)
<1>i. /\ HistoryInv /\ NodesCommit /\ CallsCommit /\ MatchAcked /\ RaftTypeInv /\ LogsPlain
      /\ VoteInv /\ TrackingOK
  BY DEF SafetyInv, MatchInv, LedgerInv
<1>v. /\ leaderLog \in [Term -> PlainLog] /\ leaderLog' \in [Term -> PlainLog]
      /\ log' \in [Node -> PlainLog]
      /\ \A t \in Term : Prefix(leaderLog[t], leaderLog'[t])
      /\ Picked \subseteq Picked'
  BY LedgerFacts, PickedGrows
<1>g. CallsCommit' <=> \A m \in calls' : Good(m)
  BY DEF CallsCommit
<1>m. ASSUME NEW m \in calls PROVE Good(m) /\ m \in AppendCall
  <2> DEFINE L == leaderLog[m.term]
             N == leaderLog'[m.term]
             c == m.commit
             T == m.term
  <2>1. Sent(m) /\ m.kind = "Append"
    BY <1>i DEF RaftTypeInv, CallsOK, LogsPlain
  <2>2. m \in AppendCall
    BY <2>1 DEF Sent, InstallCall
  <2>3. c \in Index /\ T \in Term
    BY <2>2 DEF AppendCall
  <2>4. Committable(L, c, T, leaderLog, Picked) /\ c <= m.prevIndex + Len(m.entries)
    BY <1>i DEF CallsCommit
  <2>5. L \in PlainLog /\ N \in PlainLog /\ Prefix(L, N)
    BY <1>v, <2>3
  <2> HIDE DEF L, N, c, T
  <2>6. c \in Int /\ T \in Nat /\ T <= T
    BY <2>3, Numbers
  <2>7. Committable(L, c, T, leaderLog', Picked')
    BY <1>v, <2>4, <2>5, <2>6, CommitGrows
  <2>8. c <= LastIndex(L)
    BY <2>4, <2>5, <2>6, CommitInside
  <2>9. Agree(N, L, c)
    <3>1. Agree(L, L, c)
      BY <2>5, <2>6, <2>8, AgreeSelf
    <3>2. Agree(L, N, c)
      BY <2>5, <2>6, <3>1, PrefixAgree
    <3> QED
      BY <3>2, AgreeFacts
  <2>10. Committable(N, c, T, leaderLog', Picked')
    BY <2>7, <2>9, CommitMoves
  <2> QED
    BY <2>2, <2>4, <2>10 DEF N, c, T
<1> HIDE DEF Good
<1>a. ASSUME calls' \subseteq calls PROVE CallsCommit'
  BY <1>a, <1>g, <1>m
<1>1. CASE Idle
  BY <1>1, <1>a DEF Idle
<1>2. ASSUME NEW n \in Node, Won(n) PROVE CallsCommit'
  BY <1>2, <1>a DEF Won
<1>3. ASSUME NEW n \in Node, Forgets(n) PROVE CallsCommit'
  <2>1. ASSUME NEW w \in calls' PROVE Good(w)
    <3>1. PICK m \in calls : w = IF m.from = n THEN [m EXCEPT !.waiting = FALSE] ELSE m
      BY <1>3 DEF Forgets, Abandon
    <3>2. m \in AppendCall /\ Good(m)
      BY <1>m
    <3>3. /\ w.term = m.term /\ w.prevIndex = m.prevIndex /\ w.commit = m.commit
          /\ w.entries = m.entries
      BY <3>1, <3>2 DEF AppendCall
    <3> QED
      BY <3>2, <3>3 DEF Good
  <2> QED
    BY <1>g, <2>1
<1>4. ASSUME NEW n \in Node, ApplyEntry(n) PROVE CallsCommit'
  BY <1>4, <1>a DEF ApplyEntry
<1>5. ASSUME NEW n \in Node, NEW S \in SUBSET Peers(n), Sends(n, S) PROVE CallsCommit'
  <2> DEFINE l == log'[n]
             c == commitIndex[n]
             T == currentTerm[n]
  <2>1. /\ calls' = calls \cup {BuildArgs(n, l, p) : p \in S} /\ state[n] = Leader
        /\ UNCHANGED <<commitIndex, nextIndex, currentTerm, state, disk, loaded>>
    BY <1>5 DEF Sends
  <2>2. NodesCommit' /\ TrackingOK' /\ LogsAfter
    BY <1>i, NodesStep, TrackingStep, LogsStep
  <2>3. /\ leaderLog'[T] = l /\ T \in Term /\ l \in PlainLog /\ loaded[n] /\ disk[n].term = T
    BY <1>i, <1>v, <2>1, <2>2, NodeFacts DEF LogsAfter, LeaderLogOK
  <2>4. diskLog'[n] = l
    BY <2>1, <2>2, <2>3 DEF LogsAfter, MemoryOK
  <2>5. \A p \in Node : nextIndex[n][p] \in 1 .. LastIndex(l) + 1
    BY <2>1, <2>2 DEF TrackingOK
  <2>6. Committable(l, c, T, leaderLog', Picked')
    BY <2>1, <2>2, <2>3, <2>4 DEF NodesCommit
  <2>7. c \in Index
    BY <1>i, NodeFacts
  <2> HIDE DEF l, c
  <2>8. c <= LastIndex(l)
    <3>1. c \in Int
      BY <2>7, Numbers
    <3> QED
      BY <2>3, <2>6, <3>1, CommitInside
  <2>9. ASSUME NEW p \in S PROVE Good(BuildArgs(n, l, p))
    <3> DEFINE m == BuildArgs(n, l, p)
    <3>1. p \in Node /\ nextIndex[n][p] \in 1 .. LastIndex(l) + 1 /\ leaderLog'[currentTerm[n]] = l
      BY <2>3, <2>5 DEF Peers
    <3>2. /\ m.prevIndex + Len(m.entries) = LastIndex(l)
          /\ m.term = T /\ m.commit = commitIndex[n]
      BY <2>3, <3>1, BuiltFromLeader
    <3> HIDE DEF m
    <3>3. Good(m)
      BY <2>3, <2>6, <2>8, <3>2 DEF Good, c
    <3> QED
      BY <3>3 DEF m
  <2> QED
    BY <1>g, <1>m, <2>1, <2>9
<1>6. ASSUME NEW m \in calls, NEW d \in BOOLEAN, AcceptAppendEntries(m, d) PROVE CallsCommit'
  BY <1>6, <1>a DEF AcceptAppendEntries, Answer
<1>7. ASSUME NEW a \in answers, HandleAccepted(a) PROVE CallsCommit'
  BY <1>7, <1>a DEF HandleAccepted, CurrentAnswer
<1> QED
  BY <1>1, <1>2, <1>3, <1>4, <1>5, <1>6, <1>7, StepKinds

-----------------------------------------------------------------------------
(* The theorems.                                                           *)

\* The invariant holds of a freshly created cluster.
LEMMA SafetyInit == Init => SafetyInv
<1> SUFFICES ASSUME Init PROVE SafetyInv
  OBVIOUS
<1>1. /\ commitIndex = [n \in Node |-> 0] /\ lastApplied = [n \in Node |-> 0]
      /\ matchIndex = [n \in Node |-> [p \in Node |-> 0]]
      /\ calls = {} /\ answers = {} /\ committed = {}
  BY DEF Init
<1>2. NodesCommit
  BY <1>1 DEF NodesCommit, Committable
<1>3. MatchAcked
  BY <1>1 DEF MatchAcked, Peers
<1> QED
  BY <1>1, <1>2, <1>3, HistoryInit DEF SafetyInv, CallsCommit, AllRecorded

\* The invariant is preserved by every step.
LEMMA SafetyStep ==
    ASSUME Setting, MatchInv, SafetyInv, [Next]_raftVars
    PROVE  SafetyInv'
<1>1. HistoryInv /\ NodesCommit /\ CallsCommit /\ MatchAcked
  BY DEF SafetyInv
<1>2. HistoryInv' /\ NodesCommit' /\ MatchAcked'
  BY <1>1, HistoryStep, NodesStep, MatchAckedStep
<1>3. CallsCommit' /\ AllRecorded'
  BY CallsStep, RecordedStep
<1> QED
  BY <1>2, <1>3 DEF SafetyInv

\* The invariant holds for ever.
LEMMA SafetyInvariance ==
    ASSUME Setting
    PROVE  Spec => []SafetyInv
<1>1. MatchInv /\ SafetyInv /\ [Next]_raftVars => SafetyInv'
  BY SafetyStep
<1>2. Init => SafetyInv
  BY SafetyInit
<1>3. Spec => []MatchInv
  BY MatchInvariance
<1> QED
  BY <1>1, <1>2, <1>3, PTL DEF Spec

\* A committed entry, unfolded: it is an entry of the log of the leader of
\* some term, at or below an entry of that leader that was chosen.
LEMMA CommittedFacts ==
    ASSUME MatchInv, SafetyInv, NEW e \in committed
    PROVE  \E t \in Term, i \in Index :
              /\ Chosen(t, i) /\ e.index \in Nat /\ 1 <= e.index /\ e.index <= i /\ i \in Int
              /\ e = Get(leaderLog[t], e.index)
<1>1. PICK t \in Term, i \in Index :
         <<t, i>> \in Picked /\ e.index \in 1 .. i /\ e = Get(leaderLog[t], e.index)
  BY DEF SafetyInv, AllRecorded, Recorded
<1>2. i \in Nat /\ Chosen(t, i)
  BY <1>1, Numbers, PickedIs
<1>3. e.index \in Nat /\ 1 <= e.index /\ e.index <= i /\ i \in Int
  BY <1>1, <1>2
<1> QED
  BY <1>1, <1>2, <1>3

\* State Machine Safety of the whole node (maybeCommit in replication.go,
\* the commit rule of HandleAppendEntries, applyLoop in apply.go): whatever
\* is committed or applied at an index on any node, at any time, is the same
\* entry, and never the zero entry that get returns beyond the log.
THEOREM StateMachinesSafe ==
    ASSUME Setting
    PROVE  Spec => []StateMachineSafety
<1>1. ASSUME MatchInv, SafetyInv PROVE StateMachineSafety
  <2> SUFFICES ASSUME NEW e \in committed, NEW f \in committed
               PROVE  e.index > 0 /\ (e.index = f.index => e = f)
    BY DEF StateMachineSafety
  <2>1. PICK t \in Term, i \in Index :
              /\ Chosen(t, i) /\ e.index \in Nat /\ 1 <= e.index /\ e.index <= i /\ i \in Int
              /\ e = Get(leaderLog[t], e.index)
    BY <1>1, CommittedFacts
  <2>2. PICK u \in Term, j \in Index :
              /\ Chosen(u, j) /\ f.index \in Nat /\ 1 <= f.index /\ f.index <= j /\ j \in Int
              /\ f = Get(leaderLog[u], f.index)
    BY <1>1, CommittedFacts
  <2>3. ASSUME e.index = f.index PROVE e = f
    <3> DEFINE k == e.index
    <3>1. k \in Int /\ 1 <= k /\ k <= i /\ k <= j
      BY <2>1, <2>2, <2>3
    <3>2. e = Get(leaderLog[t], k) /\ f = Get(leaderLog[u], k) /\ HistoryInv
      BY <1>1, <2>1, <2>2, <2>3 DEF SafetyInv
    <3> HIDE DEF k
    <3>3. Get(leaderLog[t], k) = Get(leaderLog[u], k)
      BY <1>1, <2>1, <2>2, <3>1, <3>2, ChosenAgree
    <3> QED
      BY <3>2, <3>3
  <2> QED
    BY <2>1, <2>3
<1> QED
  BY <1>1, MatchInvariance, SafetyInvariance, PTL

\* Leader Completeness: the leader of the newest term (becomeLeader after a
\* vote that compares logs) has every entry ever committed.
THEOREM LeadersComplete ==
    ASSUME Setting
    PROVE  Spec => []LeaderCompleteness
<1>1. ASSUME MatchInv, SafetyInv PROVE LeaderCompleteness
  <2> SUFFICES ASSUME NEW n \in Node, state[n] = Leader,
                      \A p \in Node : disk[p].term <= currentTerm[n], NEW e \in committed
               PROVE  Holds(log[n], e)
    BY DEF LeaderCompleteness
  <2> DEFINE u == currentTerm[n]
  <2>0. RaftTypeInv /\ HistoryInv /\ AcksOK /\ LeaderLogOK
    BY <1>1 DEF MatchInv, SafetyInv, HistoryInv, LedgerInv
  <2>1. PICK t \in Term, i \in Index :
              /\ Chosen(t, i) /\ e.index \in Nat /\ 1 <= e.index /\ e.index <= i /\ i \in Int
              /\ e = Get(leaderLog[t], e.index)
    BY <1>1, CommittedFacts
  <2>2. u \in Term /\ u \in Nat /\ <<u, n>> \in elected /\ leaderLog[u] = log[n]
    BY <2>0, NodeFacts DEF LeaderLogOK
  <2>3. PICK k \in Node : <<t, k>> \in elected
    BY <1>1, <2>1, ChosenFacts
  <2>4. t <= disk[k].term /\ disk[k].term <= u
    BY <1>1, <2>0, <2>3, AckedTerm DEF Acked
  <2>5. t \in Nat /\ disk[k].term \in Nat
    BY <2>0, NodeFacts, Numbers
  <2>6. t <= u
    BY <2>2, <2>4, <2>5
  <2> HIDE DEF u
  <2>7. Agree(leaderLog[u], leaderLog[t], i)
    BY <1>1, <2>0, <2>1, <2>2, <2>6, ChosenHeld
  <2>8. Get(leaderLog[u], e.index) = Get(leaderLog[t], e.index)
    BY <2>1, <2>7 DEF Agree
  <2> QED
    BY <2>1, <2>2, <2>8 DEF Holds
<1> QED
  BY <1>1, MatchInvariance, SafetyInvariance, PTL

\* Durability (persist before the answer in HandleAppendEntries and Submit):
\* a majority has every committed entry on disk, at any time.
THEOREM CommittedDurably ==
    ASSUME Setting
    PROVE  Spec => []CommittedOnMajority
<1>1. ASSUME MatchInv, SafetyInv PROVE CommittedOnMajority
  <2> SUFFICES ASSUME NEW e \in committed
               PROVE  Cardinality({n \in Node : Holds(diskLog[n], e) \/ e.index <= snapFile[n].index})
                         >= Majority
    BY DEF CommittedOnMajority
  <2>0. /\ HistoryInv /\ leaderLog \in [Term -> PlainLog] /\ diskLog \in [Node -> PlainLog]
        /\ \A n \in Node : Traced(diskLog[n], leaderLog)
    BY <1>1 DEF MatchInv, SafetyInv, LedgerInv, LogsPlain, LogsTraced
  <2>1. PICK t \in Term, i \in Index :
              /\ Chosen(t, i) /\ e.index \in Nat /\ 1 <= e.index /\ e.index <= i /\ i \in Int
              /\ e = Get(leaderLog[t], e.index)
    BY <1>1, CommittedFacts
  <2> DEFINE A == {v \in Node : Acked(v, t, i)}
             B == {n \in Node : Holds(diskLog[n], e) \/ e.index <= snapFile[n].index}
  <2>2. ASSUME NEW v \in Node, Acked(v, t, i) PROVE Holds(diskLog[v], e)
    <3> DEFINE D == diskLog[v]
    <3>1. Own(t, i) /\ ~Blocked(t, i)
      BY <2>1, ChosenOpen DEF Chosen
    <3>2. Has(D, t, i)
      BY <2>0, <2>2, <3>1 DEF HistoryInv, AckHeld
    <3>3. D \in PlainLog /\ Traced(D, leaderLog)
      BY <2>0
    <3> HIDE DEF D
    <3>4. Agree(D, leaderLog[t], i)
      BY <2>0, <2>1, <3>2, <3>3, HasAgrees
    <3>5. Get(D, e.index) = e
      BY <2>1, <3>4 DEF Agree
    <3> QED
      BY <3>5 DEF Holds, D
  <2>3. A \subseteq B /\ B \subseteq Node
    BY <2>2
  <2>4. Cardinality(A) >= Majority
    BY <2>1 DEF Chosen
  <2> HIDE DEF A, B
  <2>5. Cardinality(A) <= Cardinality(B) /\ Cardinality(A) \in Nat /\ Cardinality(B) \in Nat
    BY <2>3, FS_Subset, FS_CardinalityType, ElectionAssumption
  <2>6. Majority \in Nat
    BY FS_CardinalityType, ElectionAssumption DEF Majority
  <2>7. Cardinality(B) >= Majority
    BY <2>4, <2>5, <2>6
  <2> QED
    BY <2>7 DEF B
<1> QED
  BY <1>1, MatchInvariance, SafetyInvariance, PTL

\* What sendToPeer records in matchIndex after an accepted call, the peer has
\* on disk, as long as it has not moved on to a newer term.
THEOREM MatchIndicesSound ==
    ASSUME Setting
    PROVE  Spec => []MatchIndexSound
<1>1. ASSUME MatchInv, SafetyInv PROVE MatchIndexSound
  <2> SUFFICES ASSUME NEW n \in Node, NEW p \in Peers(n), state[n] = Leader,
                      disk[p].term <= currentTerm[n],
                      NEW i \in SnapshotIndex(log[n]) + 1 .. matchIndex[n][p]
               PROVE  Holds(diskLog[p], Get(log[n], i))
    BY DEF MatchIndexSound
  <2> DEFINE T == currentTerm[n]
             l == log[n]
             D == diskLog[p]
             k == matchIndex[n][p]
  <2>0. /\ RaftTypeInv /\ AcksOK /\ LeaderLogOK /\ MatchAcked /\ LogsPlain /\ p \in Node
        /\ matchIndex \in [Node -> [Node -> Index]]
    BY <1>1 DEF MatchInv, SafetyInv, HistoryInv, LedgerInv, Peers, RaftTypeInv, VariablesOK
  <2>1. /\ l \in PlainLog /\ D \in PlainLog /\ leaderLog[T] = l /\ T \in Term /\ T \in Nat
        /\ disk[p].term \in Nat /\ disk[p].term <= T
    BY <2>0, NodeFacts DEF LogsPlain, LeaderLogOK
  <2>2. k \in Nat
    BY <2>0, Numbers
  <2>3. SnapshotIndex(l) = 0 /\ LastIndex(l) \in Nat
    BY <2>1, PlainFacts
  <2>4. i \in Int /\ 1 <= i /\ i <= k
    BY <2>2, <2>3
  <2>5. PICK j \in Index : j >= k /\ <<p, T, j>> \in acks
    <3>1. k > 0
      <4> HIDE DEF k
      <4> QED
        BY <2>2, <2>4
    <3> QED
      BY <2>0, <3>1 DEF MatchAcked
  <2>6. /\ T <= disk[p].term /\ j <= LastIndex(l)
        /\ disk[p].term = T => Agree(D, l, j)
    BY <2>0, <2>1, <2>5 DEF AcksOK
  <2>7. Agree(D, l, j) /\ j \in Nat
    <3>1. disk[p].term = T
      <4> HIDE DEF T
      <4> QED
        BY <2>1, <2>6
    <3> QED
      BY <2>6, <3>1, Numbers
  <2> HIDE DEF T, l, D, k
  <2>8. i <= j /\ i <= LastIndex(l)
    BY <2>2, <2>3, <2>4, <2>5, <2>6, <2>7
  <2>9. Get(D, i) = Get(l, i) /\ Get(l, i).index = i
    <3>1. Get(D, i) = Get(l, i)
      BY <2>4, <2>7, <2>8 DEF Agree
    <3>2. Get(l, i).index = i
      BY <2>1, <2>4, <2>8, PlainEntry
    <3> QED
      BY <3>1, <3>2
  <2>10. Holds(D, Get(l, i))
    BY <2>9 DEF Holds
  <2> QED
    BY <2>10 DEF D, l
<1> QED
  BY <1>1, MatchInvariance, SafetyInvariance, PTL

-----------------------------------------------------------------------------
(* PART IV.  Snapshot boundaries and next indices.  Nothing here needs a   *)
(* quorum, and every node may take and install snapshots.                  *)

\* What is compacted out of a log l is applied, and the snapshot file reaches
\* as far as the boundary of the log, in memory and on disk (dl).  The log on
\* disk is never compacted further than the one in memory.
BoundaryOK(l, dl, file, applied, isLoaded) ==
    /\ SnapshotIndex(l) <= applied
    /\ SnapshotIndex(l) <= file /\ SnapshotIndex(dl) <= file
    /\ isLoaded => SnapshotIndex(dl) <= SnapshotIndex(l)

BoundaryAt(n) ==
    BoundaryOK(log[n], diskLog[n], snapFile[n].index, lastApplied[n], loaded[n])

\* A leader asks for entries from 1 on.
NextPositive(n) == state[n] = Leader => \A p \in Node : nextIndex[n][p] >= 1

OrderInv == RaftTypeInv /\ (\A n \in Node : BoundaryAt(n)) /\ (\A n \in Node : NextPositive(n))

\* compactTo moves the boundary to where it is told, if that is forward.
LEMMA CompactForward ==
    ASSUME NEW l, IsLog(Cmd, Term, l), NEW i \in Nat, NEW t \in Term, i > SnapshotIndex(l)
    PROVE  SnapshotIndex(CompactTo(l, i, t)) = i
<1>0. Term \in SUBSET Nat
  BY Ranges
<1>1. LastIndex(l) \in Nat /\ SnapshotIndex(l) \in Nat
  BY <1>0, LogFacts
<1> QED
  BY <1>0, <1>1, CompactToFacts

\* And never back.
LEMMA CompactBoundary ==
    ASSUME NEW l \in StoredLog, NEW i \in Index, NEW t \in Term
    PROVE  SnapshotIndex(CompactTo(l, i, t)) = IF i > SnapshotIndex(l) THEN i ELSE SnapshotIndex(l)
<1>1. IsLog(Cmd, Term, l) /\ SnapshotIndex(l) \in Nat /\ i \in Nat
  BY StoredFacts, Ranges
<1>2. CASE i <= SnapshotIndex(l)
  BY <1>1, <1>2 DEF CompactTo
<1>3. CASE i > SnapshotIndex(l)
  BY <1>1, <1>3, CompactForward
<1> QED
  BY <1>1, <1>2, <1>3

\* The boundary of a new node is at zero.
LEMMA EmptyBoundary == SnapshotIndex(EmptyLog) = 0
BY Ranges, EmptyLogFacts

\* A boundary stays in order when the log is persisted or replaced by one with
\* the same boundary, and when more is applied.
LEMMA BoundaryMoves ==
    ASSUME NEW l \in StoredLog, NEW dl \in StoredLog, NEW file \in Index,
           NEW applied \in Index, NEW isLoaded \in BOOLEAN,
           BoundaryOK(l, dl, file, applied, isLoaded)
    PROVE  /\ \A m \in StoredLog : SnapshotIndex(m) = SnapshotIndex(l) =>
                 BoundaryOK(m, m, file, applied, isLoaded)
           /\ \A a \in Index : a > applied => BoundaryOK(l, dl, file, a, isLoaded)
<1>1. /\ SnapshotIndex(l) \in Nat /\ SnapshotIndex(dl) \in Nat /\ file \in Nat
      /\ applied \in Nat /\ Index \subseteq Nat
  BY StoredFacts, Ranges
<1> USE <1>1 DEF BoundaryOK
<1>2. ASSUME NEW m \in StoredLog, SnapshotIndex(m) = SnapshotIndex(l)
      PROVE  BoundaryOK(m, m, file, applied, isLoaded)
  BY <1>2
<1>3. \A a \in Index : a > applied => BoundaryOK(l, dl, file, a, isLoaded)
  OBVIOUS
<1> QED
  BY <1>2, <1>3

\* In a crash too, with the log of the disk or of memory, and with the file as
\* it was or as the snapshot of all that is applied.
LEMMA CrashBoundary ==
    ASSUME NEW l \in StoredLog, NEW dl \in StoredLog, NEW file \in Index,
           NEW applied \in Index, NEW isLoaded \in BOOLEAN,
           BoundaryOK(l, dl, file, applied, isLoaded)
    PROVE  /\ BoundaryOK(EmptyLog, dl, file, 0, FALSE)
           /\ BoundaryOK(EmptyLog, l, file, 0, FALSE)
           /\ isLoaded => BoundaryOK(EmptyLog, dl, applied, 0, FALSE)
<1>1. /\ SnapshotIndex(l) \in Nat /\ SnapshotIndex(dl) \in Nat /\ file \in Nat
      /\ applied \in Nat
  BY StoredFacts, Ranges
<1> QED
  BY <1>1, EmptyBoundary DEF BoundaryOK

\* Every step leaves the snapshot boundary of every node in order.
LEMMA BoundaryStep ==
    ASSUME RaftTypeInv, \A n \in Node : BoundaryAt(n), [Next]_raftVars
    PROVE  \A n \in Node : BoundaryAt(n)'
<1> DEFINE Goal == \A n \in Node : BoundaryAt(n)'
           Elsewhere(k) == \A n \in Node : n # k =>
               /\ log'[n] = log[n] /\ diskLog'[n] = diskLog[n] /\ snapFile'[n] = snapFile[n]
               /\ lastApplied'[n] = lastApplied[n] /\ loaded'[n] = loaded[n]
<1>v. /\ log \in [Node -> StoredLog] /\ diskLog \in [Node -> StoredLog]
      /\ lastApplied \in [Node -> Index]
      /\ snapFile \in [Node -> [index : Index, term : Term]]
      /\ loaded \in [Node -> BOOLEAN] /\ TypeOK
  BY DEF RaftTypeInv, VariablesOK, ElectionInv, TypeOK
<1>o. ASSUME NEW k \in Node, Elsewhere(k), BoundaryAt(k)' PROVE Goal
  BY <1>o DEF BoundaryAt
<1>b. ASSUME NEW k \in Node
      PROVE  /\ log[k] \in StoredLog /\ diskLog[k] \in StoredLog /\ snapFile[k].index \in Index
             /\ lastApplied[k] \in Index /\ loaded[k] \in BOOLEAN
             /\ BoundaryOK(log[k], diskLog[k], snapFile[k].index, lastApplied[k], loaded[k])
  BY <1>v DEF BoundaryAt
<1>p. ASSUME NEW k \in Node, PersistLog(k, log[k]) \/ UNCHANGED diskLog,
             UNCHANGED <<log, snapFile, lastApplied, loaded>>
      PROVE  Goal
  <2>1. Elsewhere(k) /\ (diskLog'[k] = log[k] \/ diskLog'[k] = diskLog[k])
    BY <1>v, <1>p DEF PersistLog
  <2>2. BoundaryOK(log[k], log[k], snapFile[k].index, lastApplied[k], loaded[k])
    BY <1>b, BoundaryMoves
  <2>3. BoundaryAt(k)'
    BY <1>b, <1>p, <2>1, <2>2 DEF BoundaryAt
  <2> QED
    BY <1>o, <2>1, <2>3
<1>u. ASSUME UNCHANGED <<log, diskLog, snapFile, lastApplied, loaded>> PROVE Goal
  BY <1>u DEF BoundaryAt
<1>1. ASSUME NEW n \in Node, RaftBecomeCandidate(n) PROVE Goal
  BY <1>1, <1>p DEF RaftBecomeCandidate, BecomeCandidate
<1>2. ASSUME NEW n \in Node, NEW S \in SUBSET Peers(n), RaftStartElection(n, S) PROVE Goal
  BY <1>2, <1>u DEF RaftStartElection, StartElection, replicationVars
<1>3. ASSUME NEW m \in requests, NEW d \in BOOLEAN, RaftHandleRequestVote(m, d) PROVE Goal
  <2>1. m.to \in Node
    BY <1>v DEF TypeOK, Request
  <2> QED
    BY <1>3, <1>p, <2>1 DEF RaftHandleRequestVote, HandleRequestVote
<1>4. ASSUME NEW r \in replies, RaftStepDownOnVoteReply(r) PROVE Goal
  <2>1. r.cand \in Node
    BY <1>v DEF TypeOK, Reply
  <2> QED
    BY <1>4, <1>p, <2>1 DEF RaftStepDownOnVoteReply, StepDownOnVoteReply
<1>5. ASSUME NEW r \in replies, RaftCountVote(r) PROVE Goal
  BY <1>5, <1>u DEF RaftCountVote, CountVote
<1>6. ASSUME NEW n \in Node, NEW S \in SUBSET Peers(n), SendHeartbeats(n, S) PROVE Goal
  BY <1>6, <1>u DEF SendHeartbeats, electionVars
<1>7. ASSUME NEW n \in Node, NEW S \in SUBSET Peers(n), TickWithoutQuorum(n, S) PROVE Goal
  BY <1>7, <1>p DEF TickWithoutQuorum, CheckQuorum
<1>8. ASSUME NEW n \in Node, NEW c \in Cmd, NEW S \in SUBSET Peers(n), Submit(n, c, S) PROVE Goal
  <2> DEFINE l == log[n] \o <<[term |-> currentTerm[n], index |-> LastIndex(log[n]) + 1,
                               cmd |-> c]>>
  <2>1. /\ log[n] \in StoredLog /\ LastIndex(log[n]) < MaxIndex
        /\ currentTerm[n] \in Term /\ currentTerm[n] # 0
    BY <1>8, NodeFacts DEF Submit
  <2>2. l \in StoredLog /\ SnapshotIndex(l) = SnapshotIndex(log[n])
    BY <2>1, SubmittedLog
  <2>3. /\ log' = [log EXCEPT ![n] = l] /\ diskLog' = [diskLog EXCEPT ![n] = l]
        /\ UNCHANGED <<lastApplied, snapFile, loaded>>
    BY <1>8 DEF Submit, PersistLog, OnlyLogChanges
  <2> HIDE DEF l
  <2>4. BoundaryOK(l, l, snapFile[n].index, lastApplied[n], loaded[n])
    BY <1>b, <2>2, BoundaryMoves
  <2>5. Elsewhere(n) /\ BoundaryAt(n)'
    BY <1>v, <2>3, <2>4 DEF BoundaryAt
  <2> QED
    BY <1>o, <2>5
<1>c. ASSUME NEW m \in calls PROVE Sent(m) /\ m.to \in Node
  <2>1. Sent(m)
    BY DEF RaftTypeInv, CallsOK
  <2> QED
    BY <1>v, <2>1, CallFacts
<1>9. ASSUME NEW m \in calls, NEW d \in BOOLEAN, HandleStaleCall(m, d) PROVE Goal
  BY <1>9, <1>u DEF HandleStaleCall, electionVars
<1>10. ASSUME NEW m \in calls, NEW d \in BOOLEAN, RejectAppendEntries(m, d) PROVE Goal
  BY <1>10, <1>c, <1>p DEF RejectAppendEntries, ObserveLeader
<1>11. ASSUME NEW m \in calls, NEW d \in BOOLEAN, AcceptAppendEntries(m, d) PROVE Goal
  <2> DEFINE n == m.to
             l == AppendBatch(log[n], m.entries)
  <2>1. /\ log' = [log EXCEPT ![n] = l] /\ diskLog' = [diskLog EXCEPT ![n] = l]
        /\ UNCHANGED <<lastApplied, snapFile, loaded>>
    BY <1>11 DEF AcceptAppendEntries, ObserveLeader, PersistLog
  <2>2. l \in StoredLog /\ SnapshotIndex(l) = SnapshotIndex(log[n])
    BY <1>11, AcceptedLog DEF MergeResult
  <2>3. n \in Node
    BY <1>c
  <2> HIDE DEF l, n
  <2>4. BoundaryOK(l, l, snapFile[n].index, lastApplied[n], loaded[n])
    BY <1>b, <2>2, <2>3, BoundaryMoves
  <2>5. Elsewhere(n) /\ BoundaryAt(n)'
    BY <1>v, <2>1, <2>3, <2>4 DEF BoundaryAt
  <2> QED
    BY <1>o, <2>3, <2>5
<1>12. ASSUME NEW m \in calls, NEW d \in BOOLEAN, IgnoreSnapshot(m, d) PROVE Goal
  BY <1>12, <1>c, <1>p DEF IgnoreSnapshot, ObserveLeader
\* A snapshot is installed, or restored, at index i: both indices follow.
<1>i. ASSUME NEW x \in Index, NEW i \in Index
      PROVE  Max({x, i}) \in Index /\ i <= Max({x, i}) /\ x <= Max({x, i})
  <2>1. x \in Nat /\ i \in Nat
    BY Ranges
  <2> QED
    BY <2>1, MaxOfTwo
<1>13. ASSUME NEW m \in calls, NEW d \in BOOLEAN, InstallSnapshot(m, d) PROVE Goal
  <2> DEFINE n == m.to
             i == m.lastIndex
             l == CompactTo(log[n], i, m.lastTerm)
             a == Max({lastApplied[n], i})
  <2>1. /\ log' = [log EXCEPT ![n] = l] /\ diskLog' = [diskLog EXCEPT ![n] = l]
        /\ snapFile' = [snapFile EXCEPT ![n] = [index |-> i, term |-> m.lastTerm]]
        /\ lastApplied' = [lastApplied EXCEPT ![n] = a]
        /\ UNCHANGED loaded /\ m.kind = "Install" /\ i > SnapshotIndex(log[n])
    BY <1>13 DEF InstallSnapshot, ObserveLeader, PersistLog
  <2>2. i \in Index /\ m.lastTerm \in Term /\ n \in Node
    BY <1>c, <1>v, <2>1, CallFacts
  <2>3. SnapshotIndex(l) = i
    BY <1>b, <2>1, <2>2, CompactBoundary
  <2>4. i <= a
    BY <1>b, <1>i, <2>2
  <2> HIDE DEF n, i, l, a
  <2>5. i \in Nat
    BY <2>2, Ranges
  <2>6. BoundaryOK(l, l, i, a, loaded[n])
    BY <2>3, <2>4, <2>5 DEF BoundaryOK
  <2>7. Elsewhere(n) /\ BoundaryAt(n)'
    BY <1>v, <2>1, <2>2, <2>6 DEF BoundaryAt
  <2> QED
    BY <1>o, <2>2, <2>7
<1>a. ASSUME NEW a \in answers PROVE a.call.from \in Node /\ a.call.to \in Node
  <2>1. Sent(a.call)
    BY DEF RaftTypeInv, AnswersOK, Answered
  <2> QED
    BY <1>v, <2>1, CallFacts
<1>14. ASSUME NEW a \in answers, StepDownOnAnswer(a) PROVE Goal
  BY <1>14, <1>a, <1>p DEF StepDownOnAnswer
<1>15. ASSUME NEW a \in answers, HandleAccepted(a) \/ HandleRejected(a) \/ HandleInstalled(a)
       PROVE  Goal
  BY <1>15, <1>u DEF HandleAccepted, HandleRejected, HandleInstalled, CurrentAnswer, electionVars
<1>16. ASSUME NEW n \in Node, ApplyEntry(n) PROVE Goal
  <2> DEFINE a == lastApplied[n] + 1
  <2>1. /\ lastApplied' = [lastApplied EXCEPT ![n] = a] /\ lastApplied[n] < commitIndex[n]
        /\ UNCHANGED <<log, diskLog, snapFile, loaded>>
    BY <1>16 DEF ApplyEntry, electionVars
  <2>2. a \in Index /\ a > lastApplied[n]
    <3>1. lastApplied[n] \in Index /\ commitIndex[n] \in Index
      BY NodeFacts
    <3> QED
      BY <2>1, <3>1, RaftAssumption DEF Index
  <2> HIDE DEF a
  <2>3. BoundaryOK(log[n], diskLog[n], snapFile[n].index, a, loaded[n])
    BY <1>b, <2>2, BoundaryMoves
  <2>4. Elsewhere(n) /\ BoundaryAt(n)'
    BY <1>v, <2>1, <2>3 DEF BoundaryAt
  <2> QED
    BY <1>o, <2>4
<1>17. ASSUME NEW n \in Node, TakeSnapshot(n) PROVE Goal
  <2> DEFINE lg == log[n]
             i == lastApplied[n]
             t == Get(lg, i).term
             l == CompactTo(lg, i, t)
  <2>0. lg \in StoredLog /\ i \in Index /\ i = lastApplied[n]
    BY <1>b
  <2>1. /\ log' = [log EXCEPT ![n] = l] /\ diskLog' = [diskLog EXCEPT ![n] = l]
        /\ snapFile' = [snapFile EXCEPT ![n] = [index |-> i, term |-> t]]
        /\ UNCHANGED <<lastApplied, loaded>> /\ i > SnapshotIndex(lg)
    BY <1>17 DEF TakeSnapshot, SnapshotDue, SnapshotAt, PersistLog, OnlyLogChanges
  <2> HIDE DEF lg, i
  <2>2. i \in Nat
    BY <2>0, Ranges
  <2>3. t \in Term
    BY <2>0, <2>2, StoredTerm
  <2> HIDE DEF t
  <2>4. SnapshotIndex(l) = i
    BY <2>0, <2>1, <2>3, CompactBoundary
  <2> HIDE DEF l
  <2>5. BoundaryOK(l, l, i, i, loaded[n])
    BY <2>2, <2>4 DEF BoundaryOK
  <2>6. Elsewhere(n) /\ BoundaryAt(n)'
    BY <1>v, <2>0, <2>1, <2>5 DEF BoundaryAt
  <2> QED
    BY <1>o, <2>6
<1>f. ASSUME NEW n \in Node, FreshMemory(n), FreshReplication(n),
             NEW f \in [index : Index, term : Term], snapFile' = [snapFile EXCEPT ![n] = f],
             NEW dl, diskLog' = [diskLog EXCEPT ![n] = dl], BoundaryOK(EmptyLog, dl, f.index, 0, FALSE)
      PROVE  Goal
  <2>1. /\ log' = [log EXCEPT ![n] = EmptyLog] /\ loaded' = [loaded EXCEPT ![n] = FALSE]
        /\ lastApplied' = [lastApplied EXCEPT ![n] = 0]
    BY <1>f DEF FreshMemory, FreshReplication
  <2>2. Elsewhere(n) /\ BoundaryAt(n)'
    BY <1>v, <1>f, <2>1 DEF BoundaryAt
  <2> QED
    BY <1>o, <2>2
<1>18. ASSUME NEW n \in Node, RaftRestart(n) PROVE Goal
  <2>1. FreshMemory(n) /\ FreshReplication(n) /\ UNCHANGED <<diskLog, snapFile>>
    BY <1>18 DEF RaftRestart, Restart
  <2>2. /\ snapFile[n] \in [index : Index, term : Term]
        /\ snapFile' = [snapFile EXCEPT ![n] = snapFile[n]]
        /\ diskLog' = [diskLog EXCEPT ![n] = diskLog[n]]
    BY <1>v, <2>1
  <2>3. BoundaryOK(EmptyLog, diskLog[n], snapFile[n].index, 0, FALSE)
    BY <1>b, CrashBoundary
  <2> QED
    BY <1>f, <2>1, <2>2, <2>3
<1>19. ASSUME NEW m \in requests, RaftCrashInHandleRequestVote(m) PROVE Goal
  <2> DEFINE n == m.to
  <2>0. n \in Node
    BY <1>v DEF TypeOK, Request
  <2>1. /\ FreshMemory(n) /\ FreshReplication(n) /\ UNCHANGED snapFile
        /\ diskLog' = [diskLog EXCEPT ![n] = log[n]]
    BY <1>19 DEF RaftCrashInHandleRequestVote, CrashInHandleRequestVote, PersistLog
  <2> HIDE DEF n
  <2>2. /\ snapFile[n] \in [index : Index, term : Term]
        /\ snapFile' = [snapFile EXCEPT ![n] = snapFile[n]]
    BY <1>v, <2>0, <2>1
  <2>3. BoundaryOK(EmptyLog, log[n], snapFile[n].index, 0, FALSE)
    BY <1>b, <2>0, CrashBoundary
  <2> QED
    BY <1>f, <2>0, <2>1, <2>2, <2>3
<1>20. ASSUME NEW n \in Node, CrashInTakeSnapshot(n) PROVE Goal
  <2>1. /\ FreshMemory(n) /\ FreshReplication(n) /\ UNCHANGED diskLog /\ loaded[n]
        /\ snapFile' = [snapFile EXCEPT ![n] = SnapshotAt(n)]
    BY <1>20 DEF CrashInTakeSnapshot, Restart, SnapshotDue
  <2>2. diskLog' = [diskLog EXCEPT ![n] = diskLog[n]]
    BY <1>v, <2>1
  <2>3. SnapshotAt(n) \in [index : Index, term : Term] /\ SnapshotAt(n).index = lastApplied[n]
    <3>1. log[n] \in StoredLog /\ lastApplied[n] \in Index
      BY <1>b
    <3>2. lastApplied[n] \in Int
      BY <3>1 DEF Index
    <3>3. Get(log[n], lastApplied[n]).term \in Term
      BY <3>1, <3>2, StoredTerm
    <3> QED
      BY <3>1, <3>3 DEF SnapshotAt
  <2>4. BoundaryOK(EmptyLog, diskLog[n], lastApplied[n], 0, FALSE)
    BY <1>b, <2>1, CrashBoundary
  <2> QED
    BY <1>f, <2>1, <2>2, <2>3, <2>4
<1>21. ASSUME NEW n \in Node, RaftLoadState(n) PROVE Goal
  <2> DEFINE dl == diskLog[n]
             i == snapFile[n].index
             t == snapFile[n].term
             l == CompactTo(dl, i, t)
             a == Max({lastApplied[n], i})
  <2>0. dl \in StoredLog /\ i \in Index /\ t \in Term /\ dl = diskLog[n] /\ i = snapFile[n].index
    BY NodeFacts
  <2>1. /\ log' = [log EXCEPT ![n] = l] /\ lastApplied' = [lastApplied EXCEPT ![n] = a]
        /\ loaded' = [loaded EXCEPT ![n] = TRUE] /\ UNCHANGED <<diskLog, snapFile>>
    BY <1>21 DEF RaftLoadState, LoadState, RestoreIndices
  <2>2. i <= a
    BY <1>b, <1>i
  <2>3. SnapshotIndex(dl) <= i
    BY <1>b DEF BoundaryOK
  <2> HIDE DEF dl, i, t, a
  <2>4. i \in Nat /\ SnapshotIndex(dl) \in Nat
    BY <2>0, StoredFacts, Ranges
  <2>5. SnapshotIndex(l) = i
    BY <2>0, <2>3, <2>4, CompactBoundary
  <2> HIDE DEF l
  <2>6. BoundaryOK(l, dl, i, a, TRUE)
    BY <2>2, <2>3, <2>4, <2>5 DEF BoundaryOK
  <2>7. Elsewhere(n) /\ BoundaryAt(n)'
    BY <1>v, <2>0, <2>1, <2>6 DEF BoundaryAt
  <2> QED
    BY <1>o, <2>7
<1>22. ASSUME UNCHANGED raftVars PROVE Goal
  BY <1>22, <1>u DEF raftVars, replicationVars, electionVars
<1> HIDE DEF Goal
<1>23. Goal
  BY <1>1, <1>2, <1>3, <1>4, <1>5, <1>6, <1>7, <1>8, <1>9, <1>10, <1>11, <1>12, <1>13, <1>14,
     <1>15, <1>16, <1>17, <1>18, <1>19, <1>20, <1>21, <1>22
  DEF Next
<1> QED
  BY <1>23 DEF Goal


\* Every step keeps the next indices of a leader at 1 or more.
LEMMA NextPositiveStep ==
    ASSUME RaftTypeInv, \A n \in Node : NextPositive(n), [Next]_raftVars
    PROVE  \A n \in Node : NextPositive(n)'
<1> DEFINE Goal == \A n \in Node : NextPositive(n)'
<1> USE DEF Follower, Candidate, Leader
<1>v. /\ nextIndex \in [Node -> [Node -> 0 .. MaxIndex + 1]] /\ TypeOK
      /\ log \in [Node -> StoredLog] /\ state \in [Node -> {Follower, Candidate, Leader}]
  BY DEF RaftTypeInv, VariablesOK, ElectionInv, TypeOK
\* Nobody becomes leader.
<1>u. ASSUME NEW k \in Node, UNCHANGED nextIndex,
             \A n \in Node : n # k => state'[n] = state[n],
             state'[k] = state[k] \/ state'[k] # Leader
      PROVE  Goal
  BY <1>u DEF NextPositive
<1>s. ASSUME UNCHANGED <<nextIndex, state>> PROVE Goal
  BY <1>s DEF NextPositive
\* One next index is set.
<1>w. ASSUME NEW k \in Node, NEW q \in Node, NEW i \in Nat, i >= 1, UNCHANGED state,
             nextIndex' = [nextIndex EXCEPT ![k][q] = i]
      PROVE  Goal
  <2>1. ASSUME NEW n \in Node, state'[n] = Leader, NEW p \in Node PROVE nextIndex'[n][p] >= 1
    <3>1. nextIndex[n][p] >= 1
      BY <1>w, <2>1 DEF NextPositive
    <3>2. nextIndex'[n][p] = nextIndex[n][p] \/ nextIndex'[n][p] = i
      BY <1>v, <1>w, <2>1
    <3> QED
      BY <1>w, <3>1, <3>2
  <2> QED
    BY <2>1 DEF NextPositive
<1>f. ASSUME NEW k \in Node, FreshMemory(k), FreshReplication(k) PROVE Goal
  <2>1. /\ state' = [state EXCEPT ![k] = Follower]
        /\ nextIndex' = [nextIndex EXCEPT ![k] = [p \in Node |-> 0]]
    BY <1>f DEF FreshMemory, FreshReplication
  <2> QED
    BY <1>v, <2>1 DEF NextPositive
<1>o. ASSUME NEW m \in calls, NEW b \in BOOLEAN, ObserveLeader(m.to, m.term, m.from, b),
             UNCHANGED nextIndex
      PROVE  Goal
  <2>1. m.to \in Node
    <3>1. Sent(m)
      BY DEF RaftTypeInv, CallsOK
    <3> QED
      BY <1>v, <3>1, CallFacts
  <2>2. /\ \A n \in Node : n # m.to => state'[n] = state[n]
        /\ state'[m.to] = state[m.to] \/ state'[m.to] # Leader
    BY <1>o, <1>v, <2>1 DEF ObserveLeader
  <2> QED
    BY <1>o, <1>u, <2>1, <2>2
<1>b. ASSUME NEW k \in Node, NEW t, BecomeFollower(k, t), UNCHANGED nextIndex PROVE Goal
  BY <1>b, <1>u, <1>v DEF BecomeFollower
<1>a. ASSUME NEW a \in answers PROVE a.call.from \in Node /\ a.call.to \in Node
  <2>1. Sent(a.call)
    BY DEF RaftTypeInv, AnswersOK, Answered
  <2> QED
    BY <1>v, <2>1, CallFacts
<1>1. ASSUME NEW n \in Node, RaftBecomeCandidate(n) PROVE Goal
  BY <1>1, <1>u, <1>v DEF RaftBecomeCandidate, BecomeCandidate
<1>2. ASSUME NEW n \in Node, NEW S \in SUBSET Peers(n),
             RaftStartElection(n, S) \/ SendHeartbeats(n, S)
      PROVE  Goal
  BY <1>2, <1>s DEF RaftStartElection, StartElection, SendHeartbeats, replicationVars,
                    electionVars, nodeVars
<1>3. ASSUME NEW m \in requests, NEW d \in BOOLEAN, RaftHandleRequestVote(m, d) PROVE Goal
  <2>1. m.to \in Node
    BY <1>v DEF TypeOK, Request
  <2>2. UNCHANGED nextIndex
    BY <1>3 DEF RaftHandleRequestVote
  <2>3. state' = [state EXCEPT ![m.to] = IF HigherTerm(m) THEN Follower ELSE @]
    BY <1>3 DEF RaftHandleRequestVote, HandleRequestVote
  <2>4. /\ \A n \in Node : n # m.to => state'[n] = state[n]
        /\ state'[m.to] = state[m.to] \/ state'[m.to] # Leader
    BY <1>v, <2>1, <2>3
  <2> QED
    BY <1>u, <2>1, <2>2, <2>4
<1>4. ASSUME NEW r \in replies, RaftStepDownOnVoteReply(r) PROVE Goal
  <2>1. r.cand \in Node
    BY <1>v DEF TypeOK, Reply
  <2> QED
    BY <1>4, <1>b, <2>1 DEF RaftStepDownOnVoteReply, StepDownOnVoteReply
<1>5. ASSUME NEW r \in replies, RaftCountVote(r) PROVE Goal
  <2> DEFINE k == r.cand
             i == LastIndex(log[k]) + 1
  <2>1. k \in Node
    BY <1>v DEF TypeOK, Reply
  <2>2. i \in Nat /\ i >= 1
    <3>1. LastIndex(log[k]) \in Nat
      BY <1>v, <2>1, StoredFacts
    <3> QED
      BY <3>1
  <2>3. \A n \in Node : n # k => state'[n] = state[n]
    BY <1>5, <1>v, <2>1 DEF RaftCountVote, CountVote
  <2>4. CASE state'[k] = Leader
    <3>1. nextIndex' = [nextIndex EXCEPT ![k] = [p \in Node |-> i]]
      BY <1>5, <2>4 DEF RaftCountVote, ResetTracking
    <3> HIDE DEF k, i
    <3> QED
      BY <1>v, <2>1, <2>2, <2>3, <3>1 DEF NextPositive
  <2>5. CASE state'[k] # Leader
    <3>1. UNCHANGED nextIndex
      BY <1>5, <2>5 DEF RaftCountVote
    <3> QED
      BY <1>u, <2>1, <2>3, <2>5, <3>1
  <2> QED
    BY <2>4, <2>5
<1>6. ASSUME NEW n \in Node, NEW S \in SUBSET Peers(n), TickWithoutQuorum(n, S) PROVE Goal
  BY <1>6, <1>b DEF TickWithoutQuorum, CheckQuorum
<1>7. ASSUME NEW n \in Node, TakeSnapshot(n) \/ ApplyEntry(n)
                             \/ \E c \in Cmd, S \in SUBSET Peers(n) : Submit(n, c, S)
      PROVE  Goal
  BY <1>7, <1>s DEF TakeSnapshot, ApplyEntry, Submit, OnlyLogChanges, nodeVars, electionVars
<1>8. ASSUME NEW m \in calls, NEW d \in BOOLEAN, HandleStaleCall(m, d) PROVE Goal
  BY <1>8, <1>s DEF HandleStaleCall, electionVars, nodeVars
<1>9. ASSUME NEW m \in calls, NEW d \in BOOLEAN,
             \/ RejectAppendEntries(m, d) \/ AcceptAppendEntries(m, d)
             \/ IgnoreSnapshot(m, d) \/ InstallSnapshot(m, d)
      PROVE  Goal
  <2>1. (\E b \in BOOLEAN : ObserveLeader(m.to, m.term, m.from, b)) /\ UNCHANGED nextIndex
    BY <1>9 DEF RejectAppendEntries, AcceptAppendEntries, IgnoreSnapshot, InstallSnapshot
  <2> QED
    BY <1>o, <2>1
<1>10. ASSUME NEW a \in answers, StepDownOnAnswer(a) PROVE Goal
  BY <1>10, <1>a, <1>b DEF StepDownOnAnswer
<1>11. ASSUME NEW a \in answers, HandleAccepted(a) PROVE Goal
  <2> DEFINE i == MatchAfterAccept(a.call.from, a)
  <2>1. /\ UNCHANGED state /\ a.call.kind = "Append"
        /\ nextIndex' = [nextIndex EXCEPT ![a.call.from][a.call.to] = i + 1]
    BY <1>11 DEF HandleAccepted, CurrentAnswer, electionVars, nodeVars
  <2>2. i \in Index
    BY <2>1, TrackingIndices
  <2> HIDE DEF i
  <2>3. i + 1 \in Nat /\ i + 1 >= 1
    BY <2>2 DEF Index
  <2> QED
    BY <1>a, <1>w, <2>1, <2>3
<1>12. ASSUME NEW a \in answers, HandleRejected(a) PROVE Goal
  <2> DEFINE i == NextAfterReject(log[a.call.from], a)
  <2>1. /\ UNCHANGED state /\ a.call.kind = "Append"
        /\ nextIndex' = [nextIndex EXCEPT ![a.call.from][a.call.to] = i]
    BY <1>12 DEF HandleRejected, CurrentAnswer, electionVars, nodeVars
  <2>2. i \in 1 .. MaxIndex + 1
    BY <2>1, TrackingIndices
  <2> HIDE DEF i
  <2>3. i \in Nat /\ i >= 1
    BY <2>2
  <2> QED
    BY <1>a, <1>w, <2>1, <2>3
<1>13. ASSUME NEW a \in answers, HandleInstalled(a) PROVE Goal
  <2> DEFINE i == Max({matchIndex[a.call.from][a.call.to], a.call.lastIndex})
  <2>1. /\ UNCHANGED state /\ a.call.kind = "Install"
        /\ nextIndex' = [nextIndex EXCEPT ![a.call.from][a.call.to] = i + 1]
    BY <1>13 DEF HandleInstalled, CurrentAnswer, electionVars, nodeVars
  <2>2. i \in Index
    BY <2>1, TrackingIndices
  <2> HIDE DEF i
  <2>3. i + 1 \in Nat /\ i + 1 >= 1
    BY <2>2 DEF Index
  <2> QED
    BY <1>a, <1>w, <2>1, <2>3
<1>14. ASSUME NEW n \in Node, RaftRestart(n) \/ CrashInTakeSnapshot(n) PROVE Goal
  BY <1>14, <1>f DEF RaftRestart, CrashInTakeSnapshot, Restart
<1>15. ASSUME NEW m \in requests, RaftCrashInHandleRequestVote(m) PROVE Goal
  <2>1. m.to \in Node
    BY <1>v DEF TypeOK, Request
  <2> QED
    BY <1>15, <1>f, <2>1 DEF RaftCrashInHandleRequestVote, CrashInHandleRequestVote
<1>16. ASSUME NEW n \in Node, RaftLoadState(n) PROVE Goal
  BY <1>16, <1>s DEF RaftLoadState, LoadState
<1>17. ASSUME UNCHANGED raftVars PROVE Goal
  BY <1>17, <1>s DEF raftVars, replicationVars, electionVars, nodeVars
<1> HIDE DEF Goal
<1>18. Goal
  BY <1>1, <1>2, <1>3, <1>4, <1>5, <1>6, <1>7, <1>8, <1>9, <1>10, <1>11, <1>12, <1>13, <1>14,
     <1>15, <1>16, <1>17
  DEF Next
<1> QED
  BY <1>18 DEF Goal

\* What TakeSnapshot, InstallSnapshot and a restart compact away is applied and
\* in the snapshot file, also after a crash between the two files; and a leader
\* never asks for what is before index 1 (PrevLogIndex := nextIndex - 1 in
\* sendToPeer), whatever answers arrive in whatever order.  Leaders may lose
\* their quorum, and every node may compact.
THEOREM IndicesInOrder ==
    ASSUME ~BootWindow, EveryLogAllowed
    PROVE  Spec => []IndicesOrdered
<1>1. Init => OrderInv
  <2> SUFFICES ASSUME Init PROVE OrderInv
    OBVIOUS
  <2>1. RaftTypeInv
    BY RaftTypeInit
  <2>2. ASSUME NEW n \in Node PROVE BoundaryAt(n) /\ NextPositive(n)
    BY EmptyBoundary
    DEF Init, ElectionInit, NoSnapshot, BoundaryAt, BoundaryOK, NextPositive, Leader, Follower
  <2> QED
    BY <2>1, <2>2 DEF OrderInv
<1>2. OrderInv /\ [Next]_raftVars => OrderInv'
  <2> SUFFICES ASSUME OrderInv, [Next]_raftVars PROVE OrderInv'
    OBVIOUS
  <2>1. RaftTypeInv /\ RaftTypeInv'
    BY RaftTypeStep DEF OrderInv
  <2>2. \A n \in Node : BoundaryAt(n)'
    BY <2>1, BoundaryStep DEF OrderInv
  <2>3. \A n \in Node : NextPositive(n)'
    BY <2>1, NextPositiveStep DEF OrderInv
  <2> QED
    BY <2>1, <2>2, <2>3 DEF OrderInv
<1>3. OrderInv => IndicesOrdered
  BY DEF OrderInv, BoundaryAt, BoundaryOK, NextPositive, IndicesOrdered, Peers
<1> QED
  BY <1>1, <1>2, <1>3, PTL DEF Spec

=============================================================================
