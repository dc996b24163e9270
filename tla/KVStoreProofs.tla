--------------------------- MODULE KVStoreProofs ---------------------------
(***************************************************************************)
(* Machine-checked proofs about module KVStore and the apply loop under    *)
(* it: for every number of clients, every bound, every channel capacity    *)
(* and snapshot threshold, with installed snapshots and restarts.          *)
(***************************************************************************)
EXTENDS KVStore, TLAPS

Increasing(s) == \A j, k \in DOMAIN s : j < k => s[j] < s[k]

Below(s, b) == \A k \in DOMAIN s : s[k] <= b

Snapshot == [index : Nat, data : Seq(Nat)]

Notice == [isSnapshot : BOOLEAN, index : Nat]

Call == [pc : {"idle", "submitted", "waiting", "returned"}, index : Nat, term : Nat,
         ch : Seq({"ok", "notLeader"}),
         result : {"none", "ok", "notLeader", "timeout", "died"}]

-----------------------------------------------------------------------------
(* The inductive invariant.                                                *)

ApplyTypes ==
    /\ entries \in Seq(1 .. MaxTerm)
    /\ commitIndex \in Nat /\ lastApplied \in Nat
    /\ snapshot \in Snapshot /\ snapshotNotifyC \in Seq(Snapshot)
    /\ applyCh \in Seq(Notice)
    /\ loop \in [pc : {"select", "apply", "send", "relock", "sendSnapshot"}, index : Nat]
    /\ data \in Seq(Nat)

StoreTypes ==
    /\ call \in [Client -> Call]
    /\ pending \in [1 .. MaxIndex -> Client \cup {Nobody}]
    /\ reader \in [pc : {"range", "snapshot", "take"}, applied : Nat, bytes : Seq(Nat)]

IndicesOK ==
    /\ Len(entries) <= MaxIndex /\ commitIndex <= Len(entries)
    /\ lastApplied <= commitIndex /\ snapshot.index <= lastApplied
    /\ Len(snapshotNotifyC) <= 1 /\ Len(applyCh) <= ChanCap

\* Nothing in the machine, or on its way into it by a snapshot, is beyond
\* lastApplied, and nothing in a snapshot beyond its label; what the loop is
\* about to apply is beyond everything in the machine.
MachineOK ==
    /\ Increasing(data) /\ Below(data, lastApplied)
    /\ Increasing(snapshot.data) /\ Below(snapshot.data, snapshot.index)
    /\ Increasing(reader.bytes) /\ Below(reader.bytes, lastApplied)
    /\ \A k \in DOMAIN snapshotNotifyC :
          /\ Increasing(snapshotNotifyC[k].data)
          /\ Below(snapshotNotifyC[k].data, snapshotNotifyC[k].index)
          /\ snapshotNotifyC[k].index <= lastApplied
    /\ loop.pc = "apply" =>
          /\ loop.index <= lastApplied
          /\ \A k \in DOMAIN data : data[k] < loop.index

\* Whatever is delivered on applyCh is committed.
DeliveryOK ==
    /\ loop.pc \in {"apply", "send", "sendSnapshot"} => loop.index \in 1 .. Len(entries)
    /\ \A k \in DOMAIN snapshotNotifyC : snapshotNotifyC[k].index \in 1 .. Len(entries)
    /\ \A k \in DOMAIN applyCh : applyCh[k].index \in 1 .. Len(entries)

\* The entry committed at the call's index is the call's own.
Own(c) == call[c].index \in 1 .. Len(entries) /\ entries[call[c].index] = call[c].term

\* A call has at most one result, and success only of its own entry.
CallOK(c) ==
    /\ call[c].pc \in {"idle", "submitted"} => call[c].ch = <<>> /\ call[c].result = "none"
    /\ Len(call[c].ch) <= 1
    /\ (\E k \in DOMAIN call[c].ch : call[c].ch[k] = "ok") => Own(c)
    /\ call[c].result = "ok" => Own(c)

\* A registered call waits for its index and has no result yet.
RegisteredOK ==
    \A i \in 1 .. MaxIndex : pending[i] \in Client =>
        call[pending[i]].pc = "waiting" /\ call[pending[i]].index = i /\ call[pending[i]].ch = <<>>

CallsOK == RegisteredOK /\ \A c \in Client : CallOK(c)

KVInv == ApplyTypes /\ StoreTypes /\ IndicesOK /\ MachineOK /\ DeliveryOK /\ CallsOK

-----------------------------------------------------------------------------
(* Sequences.                                                              *)

\* Max of a pair.
LEMMA MaxOfTwo ==
    ASSUME NEW a \in Int, NEW b \in Int
    PROVE  Max({a, b}) = IF a >= b THEN a ELSE b
BY DEF Max

\* The state machine after entries 1 to i.
LEMMA UptoFacts ==
    ASSUME NEW i \in Nat
    PROVE  Upto(i) \in Seq(Nat) /\ Increasing(Upto(i)) /\ Below(Upto(i), i)
<1>1. Upto(i) \in [1 .. i -> Nat]
  BY DEF Upto
<1>2. Upto(i) \in Seq(Nat)
  BY <1>1
<1>3. DOMAIN Upto(i) = 1 .. i /\ \A k \in 1 .. i : Upto(i)[k] = k
  BY DEF Upto
<1> QED
  BY <1>2, <1>3 DEF Increasing, Below

\* An empty state machine has nothing applied.
LEMMA EmptyFacts == <<>> \in Seq(Nat) /\ Increasing(<<>>) /\ \A b : Below(<<>>, b)
BY DEF Increasing, Below

\* Applying the next entry keeps the order.
LEMMA AppendIncreasing ==
    ASSUME NEW s \in Seq(Nat), NEW x \in Nat, Increasing(s), \A k \in DOMAIN s : s[k] < x
    PROVE  /\ Append(s, x) \in Seq(Nat) /\ Increasing(Append(s, x))
           /\ Below(Append(s, x), x)
<1> DEFINE r == Append(s, x)
<1>1. /\ r \in Seq(Nat) /\ Len(r) = Len(s) + 1 /\ Len(s) \in Nat /\ r[Len(s) + 1] = x
      /\ \A k \in 1 .. Len(s) : r[k] = s[k]
      /\ DOMAIN r = 1 .. Len(s) + 1 /\ DOMAIN s = 1 .. Len(s)
  OBVIOUS
<1>2. \A k \in 1 .. Len(s) : s[k] \in Nat /\ s[k] < x
  BY <1>1
<1> HIDE DEF r
<1>3. Increasing(r)
  <2> SUFFICES ASSUME NEW j \in 1 .. Len(s) + 1, NEW k \in 1 .. Len(s) + 1, j < k
               PROVE  r[j] < r[k]
    BY <1>1 DEF Increasing
  <2>1. j \in 1 .. Len(s) /\ r[j] = s[j]
    BY <1>1
  <2>2. CASE k = Len(s) + 1
    BY <1>1, <1>2, <2>1, <2>2
  <2>3. CASE k \in 1 .. Len(s)
    <3>1. s[j] < s[k]
      BY <1>1, <2>1, <2>3 DEF Increasing
    <3> QED
      BY <1>1, <2>1, <2>3, <3>1
  <2>4. k = Len(s) + 1 \/ k \in 1 .. Len(s)
    OBVIOUS
  <2> QED
    BY <2>2, <2>3, <2>4
<1>4. Below(r, x)
  BY <1>1, <1>2 DEF Below
<1> QED
  BY <1>1, <1>3, <1>4 DEF r

\* A bound on what is applied may be raised.
LEMMA BelowRaise ==
    ASSUME NEW s \in Seq(Nat), NEW a \in Nat, NEW b \in Nat, a <= b, Below(s, a)
    PROVE  Below(s, b)
<1>1. \A k \in DOMAIN s : s[k] \in Nat /\ s[k] <= a
  BY DEF Below
<1> QED
  BY <1>1 DEF Below

-----------------------------------------------------------------------------
(* The node and its apply goroutine.                                       *)

\* The invariant holds of a freshly started process.
LEMMA InitialState == Init => KVInv
<1> SUFFICES ASSUME Init PROVE KVInv
  OBVIOUS
<1> USE ApplyAssumption, KVAssumption
<1>1. /\ entries = <<>> /\ commitIndex = 0 /\ lastApplied = 0
      /\ snapshot = [index |-> 0, data |-> <<>>] /\ snapshotNotifyC = <<>> /\ applyCh = <<>>
      /\ loop = [pc |-> "select", index |-> 0] /\ data = <<>>
  BY DEF Init, ApplyInit, NoSnapshot, Selecting
<1>2. /\ call = [c \in Client |-> [pc |-> "idle", index |-> 0, term |-> 0, ch |-> <<>>,
                                   result |-> "none"]]
      /\ pending = [i \in 1 .. MaxIndex |-> Nobody]
      /\ reader = [pc |-> "range", applied |-> 0, bytes |-> <<>>]
  BY DEF Init, Idle, Reading
<1>3. ApplyTypes /\ StoreTypes
  BY <1>1, <1>2 DEF ApplyTypes, StoreTypes, Snapshot, Call
<1>4. IndicesOK /\ DeliveryOK
  BY <1>1 DEF IndicesOK, DeliveryOK
<1>5. MachineOK
  BY <1>1, <1>2, EmptyFacts DEF MachineOK
<1>6. CallsOK
  BY <1>2 DEF CallsOK, CallOK, RegisteredOK
<1> QED
  BY <1>3, <1>4, <1>5, <1>6 DEF KVInv

\* The part of the invariant that is about the node and its apply goroutine.
NodeOK == ApplyTypes /\ IndicesOK /\ MachineOK /\ DeliveryOK

\* NextEntry hands the loop an entry beyond everything in the machine.
LEMMA NextEntryOK ==
    ASSUME NodeOK, StoreTypes, NextEntry,
           UNCHANGED <<entries, commitIndex, snapshot, snapshotNotifyC, applyCh, data, reader>>
    PROVE  NodeOK'
<1> USE ApplyAssumption
<1>t. /\ ApplyTypes /\ IndicesOK /\ MachineOK /\ DeliveryOK /\ lastApplied \in Nat
      /\ commitIndex \in Nat /\ Len(entries) \in Nat /\ data \in Seq(Nat)
      /\ reader.bytes \in Seq(Nat) /\ lastApplied <= commitIndex /\ commitIndex <= Len(entries)
  BY DEF NodeOK, ApplyTypes, StoreTypes, IndicesOK
<1>1. CASE lastApplied < commitIndex
  <2> DEFINE n == lastApplied + 1
  <2>1. /\ lastApplied' = n /\ loop' = [pc |-> "apply", index |-> n] /\ n \in Nat
        /\ n \in 1 .. Len(entries) /\ n <= commitIndex /\ lastApplied <= n
    BY <1>1, <1>t DEF NextEntry
  <2>2. ApplyTypes' /\ DeliveryOK'
    BY <1>t, <2>1 DEF ApplyTypes, DeliveryOK
  <2>3. IndicesOK'
    <3>1. snapshot.index \in Nat
      BY <1>t DEF ApplyTypes, Snapshot
    <3> QED
      BY <1>t, <2>1, <3>1 DEF IndicesOK
  <2>4. \A k \in DOMAIN data : data[k] \in Nat /\ data[k] < n
    BY <1>t DEF MachineOK, Below
  <2>5. Below(data, n) /\ Below(reader.bytes, n)
    BY <1>t, <2>1, BelowRaise DEF MachineOK
  <2>6. \A k \in DOMAIN snapshotNotifyC : /\ snapshotNotifyC[k].index \in Nat
                                          /\ snapshotNotifyC[k].index <= n
    <3>1. \A k \in DOMAIN snapshotNotifyC : snapshotNotifyC[k] \in Snapshot
      BY <1>t DEF ApplyTypes
    <3>2. \A k \in DOMAIN snapshotNotifyC : snapshotNotifyC[k].index \in Nat
      BY <3>1 DEF Snapshot
    <3>3. \A k \in DOMAIN snapshotNotifyC : snapshotNotifyC[k].index <= lastApplied
      BY <1>t DEF MachineOK
    <3> QED
      BY <1>t, <3>2, <3>3
  <2>7. MachineOK'
    BY <1>t, <2>1, <2>4, <2>5, <2>6 DEF MachineOK
  <2> QED
    BY <2>2, <2>3, <2>7 DEF NodeOK
<1>2. CASE ~(lastApplied < commitIndex)
  <2>1. lastApplied' = lastApplied /\ loop' = [pc |-> "select", index |-> 0]
    BY <1>2 DEF NextEntry, Selecting
  <2> QED
    BY <1>t, <2>1 DEF NodeOK, ApplyTypes, IndicesOK, MachineOK, DeliveryOK
<1> QED
  BY <1>1, <1>2

\* One step of the node or of its apply goroutine.
LEMMA ClusterCommitsOK ==
    ASSUME NodeOK, NEW t \in 1 .. MaxTerm, ClusterCommits(t), reader' = reader
    PROVE  NodeOK' /\ \A i \in 1 .. Len(entries) : /\ i \in 1 .. Len(entries')
                                                   /\ entries'[i] = entries[i]
<1>t. /\ ApplyTypes /\ IndicesOK /\ MachineOK /\ DeliveryOK
      /\ entries \in Seq(1 .. MaxTerm) /\ commitIndex \in Nat /\ MaxIndex \in Nat
  BY ApplyAssumption DEF NodeOK, ApplyTypes
<1>1. /\ entries' = Append(entries, t) /\ Len(entries) < MaxIndex
      /\ UNCHANGED <<commitIndex, lastApplied, snapshot, snapshotNotifyC, applyCh, loop, data>>
  BY DEF ClusterCommits, nodeState
<1>2. /\ entries' \in Seq(1 .. MaxTerm) /\ Len(entries') = Len(entries) + 1 /\ Len(entries) \in Nat
      /\ \A i \in 1 .. Len(entries) : entries'[i] = entries[i]
  BY <1>1, <1>t
<1>3. ApplyTypes' /\ IndicesOK'
  BY <1>1, <1>2, <1>t DEF ApplyTypes, IndicesOK
<1>4. \A i \in 1 .. Len(entries) : i \in 1 .. Len(entries')
  BY <1>2
<1>5. MachineOK' /\ DeliveryOK'
  BY <1>1, <1>4, <1>t DEF MachineOK, DeliveryOK
<1> QED
  BY <1>2, <1>3, <1>4, <1>5 DEF NodeOK

\* Raising commitIndex and the wake-up it may drop keep the node consistent.
LEMMA AdvanceCommitOK ==
    ASSUME NodeOK, NEW i \in 1 .. Len(entries), AdvanceCommit(i), reader' = reader
    PROVE  NodeOK'
<1>t. /\ ApplyTypes /\ IndicesOK /\ MachineOK /\ DeliveryOK /\ Len(entries) \in Nat
      /\ commitIndex \in Nat /\ lastApplied \in Nat
  BY DEF NodeOK, ApplyTypes
<1>1. /\ commitIndex' = i /\ i > commitIndex
      /\ UNCHANGED <<entries, lastApplied, snapshot, snapshotNotifyC, applyCh, loop, data>>
  BY DEF AdvanceCommit
<1>2. ApplyTypes' /\ IndicesOK'
  BY <1>1, <1>t DEF ApplyTypes, IndicesOK
<1>3. MachineOK' /\ DeliveryOK'
  BY <1>1, <1>t DEF MachineOK, DeliveryOK
<1> QED
  BY <1>2, <1>3 DEF NodeOK

\* An installed snapshot raises lastApplied with its label.
LEMMA InstallOK ==
    ASSUME NodeOK, StoreTypes, NEW s \in 1 .. Len(entries), HandleInstallSnapshot(s),
           reader' = reader
    PROVE  NodeOK'
<1> DEFINE snap == [index |-> s, data |-> Upto(s)]
           a == Max({lastApplied, s})
           c == Max({commitIndex, s})
<1>t. /\ ApplyTypes /\ IndicesOK /\ MachineOK /\ DeliveryOK /\ Len(entries) \in Nat
      /\ commitIndex \in Nat /\ lastApplied \in Nat /\ data \in Seq(Nat)
      /\ reader.bytes \in Seq(Nat) /\ loop.index \in Nat
  BY DEF NodeOK, ApplyTypes, StoreTypes
<1>1. /\ snapshot' = snap /\ lastApplied' = a /\ commitIndex' = c /\ snapshotNotifyC' = <<snap>>
      /\ UNCHANGED <<entries, applyCh, loop, data>>
  BY DEF HandleInstallSnapshot, RaiseApplied
<1>2. /\ a \in Nat /\ c \in Nat /\ lastApplied <= a /\ s <= a /\ a <= c /\ c <= Len(entries)
      /\ s \in Nat
  <2>1. /\ a = IF lastApplied >= s THEN lastApplied ELSE s
        /\ c = IF commitIndex >= s THEN commitIndex ELSE s
    <3>1. s \in Int /\ lastApplied \in Int /\ commitIndex \in Int
      BY <1>t
    <3>2. a = IF lastApplied >= s THEN lastApplied ELSE s
      BY <3>1, MaxOfTwo
    <3>3. c = IF commitIndex >= s THEN commitIndex ELSE s
      BY <3>1, MaxOfTwo
    <3> QED
      BY <3>2, <3>3
  <2>2. lastApplied <= commitIndex /\ commitIndex <= Len(entries)
    BY <1>t DEF IndicesOK
  <2> HIDE DEF a, c
  <2> QED
    BY <1>t, <2>1, <2>2
<1>3. Upto(s) \in Seq(Nat) /\ Increasing(Upto(s)) /\ Below(Upto(s), s)
  BY <1>2, UptoFacts
<1>4. snap \in Snapshot /\ snap.index = s /\ snap.data = Upto(s)
  BY <1>2, <1>3 DEF Snapshot
<1> HIDE DEF snap, a, c
<1>5. /\ snapshotNotifyC' \in Seq(Snapshot) /\ Len(snapshotNotifyC') = 1
      /\ DOMAIN snapshotNotifyC' = {1} /\ snapshotNotifyC'[1] = snap
  BY <1>1, <1>4
<1>6. ApplyTypes' /\ IndicesOK'
  BY <1>1, <1>2, <1>4, <1>5, <1>t DEF ApplyTypes, IndicesOK
<1>7. DeliveryOK'
  BY <1>1, <1>4, <1>5, <1>t DEF DeliveryOK
<1>8. Below(data, a) /\ Below(reader.bytes, a)
  BY <1>2, <1>t, BelowRaise DEF MachineOK
<1>9. loop.pc = "apply" => loop.index <= a
  BY <1>2, <1>t DEF MachineOK
<1>10. MachineOK'
  BY <1>1, <1>2, <1>3, <1>4, <1>5, <1>8, <1>9, <1>t DEF MachineOK
<1> QED
  BY <1>6, <1>7, <1>10 DEF NodeOK

\* Every step of the apply goroutine does.
LEMMA LoopOK ==
    ASSUME NodeOK, StoreTypes, ApplyLoopStep, reader' = reader
    PROVE  NodeOK'
<1>t. /\ ApplyTypes /\ IndicesOK /\ MachineOK /\ DeliveryOK /\ Len(entries) \in Nat
      /\ commitIndex \in Nat /\ lastApplied \in Nat /\ data \in Seq(Nat)
      /\ loop \in [pc : {"select", "apply", "send", "relock", "sendSnapshot"}, index : Nat]
      /\ applyCh \in Seq(Notice) /\ snapshotNotifyC \in Seq(Snapshot)
  BY DEF NodeOK, ApplyTypes
<1>1. CASE WakeUp \/ Relock
  BY <1>1, NextEntryOK DEF WakeUp, Relock
<1>2. CASE ApplyEntry
  <2> DEFINE i == loop.index
  <2>1. /\ loop.pc = "apply" /\ data' = Append(data, i) /\ loop' = [loop EXCEPT !.pc = "send"]
        /\ UNCHANGED <<entries, commitIndex, lastApplied, snapshot, snapshotNotifyC, applyCh>>
    BY <1>2 DEF ApplyEntry, MachineApply, nodeState
  <2>2. i \in Nat /\ i <= lastApplied /\ \A k \in DOMAIN data : data[k] < i
    BY <1>t, <2>1 DEF MachineOK
  <2> HIDE DEF i
  <2>3. data' \in Seq(Nat) /\ Increasing(data') /\ Below(data', i)
    BY <1>t, <2>1, <2>2, AppendIncreasing DEF MachineOK
  <2>4. Below(data', lastApplied)
    BY <1>t, <2>2, <2>3, BelowRaise
  <2>5. /\ loop' \in [pc : {"select", "apply", "send", "relock", "sendSnapshot"}, index : Nat]
        /\ loop'.pc = "send" /\ loop'.index = loop.index
    BY <1>t, <2>1
  <2>6. ApplyTypes' /\ IndicesOK' /\ DeliveryOK'
    BY <1>t, <2>1, <2>3, <2>5 DEF ApplyTypes, IndicesOK, DeliveryOK
  <2>7. MachineOK'
    BY <1>t, <2>1, <2>3, <2>4, <2>5 DEF MachineOK
  <2> QED
    BY <2>6, <2>7 DEF NodeOK
<1>3. ASSUME NEW b \in BOOLEAN, loop.pc \in {"send", "sendSnapshot"}, Deliver(b),
             loop' \in {[loop EXCEPT !.pc = "relock"], Selecting}
      PROVE  NodeOK'
  <2> DEFINE m == [isSnapshot |-> b, index |-> loop.index]
  <2>1. /\ Len(applyCh) < ChanCap /\ applyCh' = Append(applyCh, m)
        /\ UNCHANGED <<entries, commitIndex, lastApplied, snapshot, snapshotNotifyC, data>>
    BY <1>3 DEF Deliver, nodeState
  <2>2. m \in Notice /\ m.index \in 1 .. Len(entries)
    BY <1>3, <1>t DEF Notice, DeliveryOK
  <2> HIDE DEF m
  <2>3. /\ applyCh' \in Seq(Notice) /\ Len(applyCh') = Len(applyCh) + 1 /\ Len(applyCh) \in Nat
        /\ \A k \in DOMAIN applyCh' : applyCh'[k] = m \/ (k \in DOMAIN applyCh
                                                          /\ applyCh'[k] = applyCh[k])
    BY <1>t, <2>1, <2>2
  <2>4. /\ loop' \in [pc : {"select", "apply", "send", "relock", "sendSnapshot"}, index : Nat]
        /\ loop'.pc \notin {"apply", "send", "sendSnapshot"}
    BY <1>3, <1>t DEF Selecting
  <2>5. \A k \in DOMAIN applyCh' : applyCh'[k].index \in 1 .. Len(entries)
    BY <1>t, <2>2, <2>3 DEF DeliveryOK
  <2>6. ApplyTypes' /\ DeliveryOK'
    BY <1>t, <2>1, <2>3, <2>4, <2>5 DEF ApplyTypes, DeliveryOK
  <2>7. IndicesOK'
    BY <1>t, <2>1, <2>3, ApplyAssumption DEF IndicesOK
  <2>8. MachineOK'
    BY <1>t, <2>1, <2>4 DEF MachineOK
  <2> QED
    BY <2>6, <2>7, <2>8 DEF NodeOK
<1>4. CASE SendEntry \/ SendSnapshot
  BY <1>3, <1>4 DEF SendEntry, SendSnapshot
<1>5. CASE Restore
  <2> DEFINE snap == Head(snapshotNotifyC)
  <2>1. /\ snapshotNotifyC # <<>> /\ data' = snap.data /\ snapshotNotifyC' = <<>>
        /\ loop' = [pc |-> "sendSnapshot", index |-> snap.index]
        /\ UNCHANGED <<entries, commitIndex, lastApplied, snapshot, applyCh>>
    BY <1>5 DEF Restore, MachineRestore
  <2>2. snap = snapshotNotifyC[1] /\ 1 \in DOMAIN snapshotNotifyC /\ snap \in Snapshot
    BY <1>t, <2>1
  <2>3. /\ Increasing(snap.data) /\ Below(snap.data, snap.index) /\ snap.index <= lastApplied
        /\ snap.index \in 1 .. Len(entries)
    BY <1>t, <2>2 DEF MachineOK, DeliveryOK
  <2> HIDE DEF snap
  <2>4. snap.index \in Nat /\ snap.data \in Seq(Nat)
    BY <2>2 DEF Snapshot
  <2>5. Below(snap.data, lastApplied)
    BY <1>t, <2>3, <2>4, BelowRaise
  <2>6. ApplyTypes' /\ DeliveryOK' /\ IndicesOK'
    BY <1>t, <2>1, <2>3, <2>4 DEF ApplyTypes, DeliveryOK, IndicesOK
  <2>7. MachineOK'
    BY <1>t, <2>1, <2>3, <2>5 DEF MachineOK
  <2> QED
    BY <2>6, <2>7 DEF NodeOK
<1> QED
  BY <1>1, <1>2, <1>4, <1>5 DEF ApplyLoopStep

\* readApplyCh: the bytes of a snapshot are an earlier state of the machine.
LEMMA ReaderOK ==
    ASSUME NodeOK, StoreTypes, ReaderStep
    PROVE  NodeOK' /\ reader' \in [pc : {"range", "snapshot", "take"}, applied : Nat,
                                   bytes : Seq(Nat)]
<1> DEFINE Readers == [pc : {"range", "snapshot", "take"}, applied : Nat, bytes : Seq(Nat)]
<1>t. /\ ApplyTypes /\ IndicesOK /\ MachineOK /\ DeliveryOK /\ Len(entries) \in Nat
      /\ commitIndex \in Nat /\ lastApplied \in Nat /\ data \in Seq(Nat)
      /\ applyCh \in Seq(Notice) /\ snapshot \in Snapshot
      /\ reader \in Readers
  BY DEF NodeOK, ApplyTypes, StoreTypes
<1>1. ASSUME applyCh # <<>>, applyCh' = Tail(applyCh),
             UNCHANGED <<entries, nodeState, loop, data>>, reader'.bytes = reader.bytes
      PROVE  NodeOK'
  <2>1. /\ applyCh' \in Seq(Notice) /\ Len(applyCh') <= Len(applyCh)
        /\ Len(applyCh') \in Nat /\ Len(applyCh) \in Nat
        /\ \A k \in DOMAIN applyCh' : \E j \in DOMAIN applyCh : applyCh'[k] = applyCh[j]
    <3>1. /\ applyCh' \in Seq(Notice) /\ Len(applyCh') = Len(applyCh) - 1 /\ Len(applyCh) \in Nat
          /\ Len(applyCh) > 0 /\ \A k \in 1 .. Len(applyCh) - 1 : applyCh'[k] = applyCh[k + 1]
      BY <1>1, <1>t
    <3>2. DOMAIN applyCh' = 1 .. Len(applyCh) - 1 /\ DOMAIN applyCh = 1 .. Len(applyCh)
      BY <1>t, <3>1
    <3>3. \A k \in 1 .. Len(applyCh) - 1 : k + 1 \in 1 .. Len(applyCh)
      BY <3>1
    <3> QED
      BY <3>1, <3>2, <3>3
  <2>2. \A k \in DOMAIN applyCh' : applyCh'[k].index \in 1 .. Len(entries)
    BY <1>t, <2>1 DEF DeliveryOK
  <2>3. UNCHANGED <<entries, commitIndex, lastApplied, snapshot, snapshotNotifyC, loop, data>>
    BY <1>1 DEF nodeState
  <2>4. ApplyTypes' /\ DeliveryOK'
    BY <1>t, <2>1, <2>2, <2>3 DEF ApplyTypes, DeliveryOK
  <2>5. IndicesOK'
    BY <1>t, <2>1, <2>3, ApplyAssumption DEF IndicesOK
  <2>6. MachineOK'
    BY <1>1, <1>t, <2>3 DEF MachineOK
  <2> QED
    BY <2>4, <2>5, <2>6 DEF NodeOK
<1>2. CASE ReadEntry
  <2> DEFINE n == reader.applied + 1
             p == IF SnapshotDue(n) THEN "snapshot" ELSE "range"
  <2>1. /\ applyCh # <<>> /\ applyCh' = Tail(applyCh)
        /\ UNCHANGED <<entries, nodeState, loop, data>>
        /\ reader' = [reader EXCEPT !.applied = n, !.pc = p]
    BY <1>2 DEF ReadEntry
  <2>2. p \in {"range", "snapshot"} /\ n \in Nat
    BY <1>t
  <2> HIDE DEF n, p
  <2>3. reader' \in Readers /\ reader'.bytes = reader.bytes
    BY <1>t, <2>1, <2>2
  <2> QED
    BY <1>1, <2>1, <2>3
<1>3. CASE ReadSnapshot
  <2> DEFINE i == Head(applyCh).index
  <2>1. /\ applyCh # <<>> /\ applyCh' = Tail(applyCh)
        /\ UNCHANGED <<entries, nodeState, loop, data>>
        /\ reader' = [reader EXCEPT !.applied = i]
    BY <1>3 DEF ReadSnapshot
  <2>2. i \in Nat
    <3>1. Head(applyCh) \in Notice
      BY <1>t, <2>1
    <3> QED
      BY <3>1 DEF Notice
  <2> HIDE DEF i
  <2>3. reader' \in Readers /\ reader'.bytes = reader.bytes
    BY <1>t, <2>1, <2>2
  <2> QED
    BY <1>1, <2>1, <2>3
<1>4. CASE CopyData
  <2>1. /\ reader' = [reader EXCEPT !.pc = "take", !.bytes = data]
        /\ UNCHANGED <<entries, commitIndex, lastApplied, snapshot, snapshotNotifyC, applyCh,
                       loop, data>>
    BY <1>4 DEF CopyData, applyVars, nodeState
  <2>2. reader' \in Readers /\ reader'.bytes = data
    BY <1>t, <2>1
  <2>3. ApplyTypes' /\ DeliveryOK' /\ IndicesOK'
    BY <1>t, <2>1 DEF ApplyTypes, DeliveryOK, IndicesOK
  <2>4. MachineOK'
    BY <1>t, <2>1, <2>2 DEF MachineOK
  <2> QED
    BY <2>2, <2>3, <2>4 DEF NodeOK
<1>5. CASE SaveCopy
  <2> DEFINE snap == IF lastApplied > snapshot.index
                     THEN [index |-> lastApplied, data |-> reader.bytes] ELSE snapshot
  <2>1. /\ snapshot' = snap
        /\ UNCHANGED <<entries, commitIndex, lastApplied, snapshotNotifyC, applyCh, loop, data>>
        /\ reader' = [reader EXCEPT !.pc = "range", !.bytes = <<>>]
    BY <1>5 DEF SaveCopy, TakeSnapshot
  <2>2. reader' \in Readers /\ reader'.bytes = <<>>
    <3>1. <<>> \in Seq(Nat)
      OBVIOUS
    <3> QED
      BY <1>t, <2>1, <3>1
  <2>3. /\ snap \in Snapshot /\ snap.index <= lastApplied
        /\ Increasing(snap.data) /\ Below(snap.data, snap.index)
    <3>1. CASE lastApplied > snapshot.index
      <4>1. snap = [index |-> lastApplied, data |-> reader.bytes]
        BY <3>1
      <4> HIDE DEF snap
      <4> QED
        BY <1>t, <4>1 DEF Snapshot, MachineOK
    <3>2. CASE ~(lastApplied > snapshot.index)
      <4>1. snap = snapshot
        BY <3>2
      <4> HIDE DEF snap
      <4> QED
        BY <1>t, <4>1 DEF MachineOK, IndicesOK
    <3> QED
      BY <3>1, <3>2
  <2> HIDE DEF snap
  <2>4. ApplyTypes' /\ DeliveryOK' /\ IndicesOK'
    BY <1>t, <2>1, <2>3 DEF ApplyTypes, DeliveryOK, IndicesOK
  <2>5. MachineOK'
    BY <1>t, <2>1, <2>2, <2>3, EmptyFacts DEF MachineOK
  <2> QED
    BY <2>2, <2>4, <2>5 DEF NodeOK
<1> QED
  BY <1>2, <1>3, <1>4, <1>5 DEF ReaderStep

\* A new process starts from the snapshot; nothing in it is beyond its label.
LEMMA RestartOK ==
    ASSUME NodeOK, Restart
    PROVE  NodeOK'
<1>t. ApplyTypes /\ IndicesOK /\ MachineOK /\ DeliveryOK /\ Len(entries) \in Nat
  BY DEF NodeOK, ApplyTypes
<1>1. /\ data' = snapshot.data /\ lastApplied' = snapshot.index /\ commitIndex' = snapshot.index
      /\ snapshotNotifyC' = <<>> /\ applyCh' = <<>> /\ loop' = [pc |-> "select", index |-> 0]
      /\ UNCHANGED <<entries, snapshot>> /\ reader'.bytes = <<>>
  BY DEF Restart, RestoreFromSnapshot, MachineRestore, Selecting, Reading
<1>2. snapshot.index \in Nat /\ snapshot.data \in Seq(Nat)
  BY <1>t DEF ApplyTypes, Snapshot
<1>3. ApplyTypes' /\ DeliveryOK'
  BY <1>t, <1>1, <1>2 DEF ApplyTypes, DeliveryOK
<1>4. IndicesOK'
  BY <1>t, <1>1, <1>2, ApplyAssumption DEF IndicesOK, ApplyTypes
<1>5. MachineOK'
  BY <1>t, <1>1, EmptyFacts DEF MachineOK
<1> QED
  BY <1>3, <1>4, <1>5 DEF NodeOK

-----------------------------------------------------------------------------
(* The calls.                                                              *)

Readers == [pc : {"range", "snapshot", "take"}, applied : Nat, bytes : Seq(Nat)]

\* Committed entries stay, and nothing happens to the calls.
LEMMA CallsKept ==
    ASSUME StoreTypes, CallsOK, call' = call, pending' = pending, reader' \in Readers,
           \A i \in 1 .. Len(entries) : i \in 1 .. Len(entries') /\ entries'[i] = entries[i]
    PROVE  StoreTypes' /\ CallsOK'
<1>1. StoreTypes'
  BY DEF StoreTypes, Readers
<1>2. \A c \in Client : Own(c) => Own(c)'
  BY DEF Own
<1>3. \A c \in Client : CallOK(c)'
  BY <1>2 DEF CallsOK, CallOK
<1>4. RegisteredOK'
  BY DEF CallsOK, RegisteredOK
<1> QED
  BY <1>1, <1>3, <1>4 DEF CallsOK

\* Call c becomes r, and only c's registration may change.
LEMMA OneCall ==
    ASSUME StoreTypes, CallsOK, entries' = entries, reader' \in Readers,
           NEW c \in Client, NEW r \in Call, call' = [call EXCEPT ![c] = r],
           r.pc \in {"idle", "submitted"} => r.ch = <<>> /\ r.result = "none",
           Len(r.ch) <= 1,
           r.result = "ok" \/ (\E k \in DOMAIN r.ch : r.ch[k] = "ok")
              => r.index \in 1 .. Len(entries) /\ entries[r.index] = r.term,
           pending' \in [1 .. MaxIndex -> Client \cup {Nobody}],
           \A i \in 1 .. MaxIndex : pending'[i] \in Client =>
              \/ pending'[i] = c /\ r.pc = "waiting" /\ r.index = i /\ r.ch = <<>>
              \/ pending'[i] # c /\ pending'[i] = pending[i]
    PROVE  StoreTypes' /\ CallsOK'
<1>t. call \in [Client -> Call] /\ \A d \in Client : CallOK(d)
  BY DEF StoreTypes, CallsOK
<1>1. call' \in [Client -> Call] /\ call'[c] = r /\ \A d \in Client \ {c} : call'[d] = call[d]
  BY <1>t
<1>2. StoreTypes'
  BY <1>1 DEF StoreTypes, Readers
<1>3. CallOK(c)'
  BY <1>1 DEF CallOK, Own
<1>4. \A d \in Client \ {c} : CallOK(d)'
  BY <1>1, <1>t DEF CallOK, Own
<1>5. RegisteredOK'
  <2> SUFFICES ASSUME NEW i \in 1 .. MaxIndex, pending'[i] \in Client
               PROVE  /\ call'[pending'[i]].pc = "waiting" /\ call'[pending'[i]].index = i
                      /\ call'[pending'[i]].ch = <<>>
    BY DEF RegisteredOK
  <2>1. CASE pending'[i] = c /\ r.pc = "waiting" /\ r.index = i /\ r.ch = <<>>
    BY <1>1, <2>1
  <2>2. CASE pending'[i] # c /\ pending'[i] = pending[i]
    <3>1. call'[pending'[i]] = call[pending[i]] /\ pending[i] \in Client
      BY <1>1, <2>2
    <3> QED
      BY <3>1 DEF CallsOK, RegisteredOK
  <2> QED
    BY <2>1, <2>2
<1> QED
  BY <1>2, <1>3, <1>4, <1>5 DEF CallsOK

\* The client's own steps: kv.propose.
ClientStep(c) ==
    \/ \E i \in 1 .. MaxIndex, t \in 1 .. MaxTerm : Submit(c, i, t)
    \/ SubmitRefused(c) \/ Register(c) \/ Return(c) \/ Timeout(c)

\* Every step of a client's call keeps the table of pending calls.
LEMMA ClientOK ==
    ASSUME StoreTypes, CallsOK, NEW c \in Client, ClientStep(c)
    PROVE  StoreTypes' /\ CallsOK'
<1>t. /\ call[c] \in Call /\ call \in [Client -> Call] /\ CallOK(c)
      /\ pending \in [1 .. MaxIndex -> Client \cup {Nobody}]
  BY DEF StoreTypes, CallsOK
<1>r. /\ entries' = entries /\ reader' = reader /\ reader \in Readers
  BY DEF ClientStep, Submit, SubmitRefused, Register, Return, Timeout, applyVars, StoreTypes,
         Readers
<1>w. \A i \in 1 .. MaxIndex : pending[i] = c =>
         call[c].pc = "waiting" /\ call[c].index = i /\ call[c].ch = <<>>
  BY DEF CallsOK, RegisteredOK
<1>1. ASSUME NEW i \in 1 .. MaxIndex, NEW t \in 1 .. MaxTerm, Submit(c, i, t)
      PROVE  StoreTypes' /\ CallsOK'
  <2> DEFINE r == [call[c] EXCEPT !.pc = "submitted", !.index = i, !.term = t]
  <2>1. call[c].pc = "idle" /\ call' = [call EXCEPT ![c] = r] /\ pending' = pending
    BY <1>1, <1>t DEF Submit
  <2>2. /\ r \in Call /\ r.pc = "submitted" /\ r.ch = call[c].ch /\ r.result = call[c].result
    <3>1. i \in Nat /\ t \in Nat
      OBVIOUS
    <3> QED
      BY <1>t, <3>1 DEF Call
  <2>3. r.ch = <<>> /\ r.result = "none"
    BY <1>t, <2>1, <2>2 DEF CallOK
  <2> HIDE DEF r
  <2>4. Len(r.ch) <= 1 /\ ~(r.result = "ok" \/ \E k \in DOMAIN r.ch : r.ch[k] = "ok")
    BY <2>2, <2>3
  <2>5. \A k \in 1 .. MaxIndex : pending'[k] \in Client =>
            pending'[k] # c /\ pending'[k] = pending[k]
    BY <1>w, <2>1
  <2>6. pending' \in [1 .. MaxIndex -> Client \cup {Nobody}]
    BY <1>t, <2>1
  <2> QED
    BY <1>r, <2>1, <2>2, <2>3, <2>4, <2>5, <2>6, OneCall
<1>2. CASE SubmitRefused(c)
  <2> DEFINE r == [call[c] EXCEPT !.pc = "returned", !.result = "notLeader"]
  <2>1. call[c].pc = "idle" /\ call' = [call EXCEPT ![c] = r] /\ pending' = pending
    BY <1>2, <1>t DEF SubmitRefused
  <2>2. /\ r \in Call /\ r.pc = "returned" /\ r.ch = call[c].ch /\ r.result = "notLeader"
    BY <1>t DEF Call
  <2>3. r.ch = <<>>
    BY <1>t, <2>1, <2>2 DEF CallOK
  <2> HIDE DEF r
  <2>4. Len(r.ch) <= 1 /\ ~(r.result = "ok" \/ \E k \in DOMAIN r.ch : r.ch[k] = "ok")
    BY <2>2, <2>3
  <2>5. \A k \in 1 .. MaxIndex : pending'[k] \in Client =>
            pending'[k] # c /\ pending'[k] = pending[k]
    BY <1>w, <2>1
  <2>6. pending' \in [1 .. MaxIndex -> Client \cup {Nobody}]
    BY <1>t, <2>1
  <2> QED
    BY <1>r, <2>1, <2>2, <2>3, <2>4, <2>5, <2>6, OneCall
<1>3. CASE Register(c)
  <2> DEFINE r == [call[c] EXCEPT !.pc = "waiting"]
             n == call[c].index
  <2>1. /\ call[c].pc = "submitted" /\ call' = [call EXCEPT ![c] = r]
        /\ pending' = [pending EXCEPT ![n] = c]
    BY <1>3, <1>t DEF Register
  <2>2. /\ r \in Call /\ r.pc = "waiting" /\ r.ch = call[c].ch /\ r.result = call[c].result
        /\ r.index = n
    BY <1>t DEF Call
  <2>3. r.ch = <<>> /\ r.result = "none"
    BY <1>t, <2>1, <2>2 DEF CallOK
  <2> HIDE DEF r, n
  <2>4. /\ pending' \in [1 .. MaxIndex -> Client \cup {Nobody}]
        /\ \A i \in 1 .. MaxIndex : IF i = n THEN pending'[i] = c ELSE pending'[i] = pending[i]
    BY <1>t, <2>1
  <2>5. Len(r.ch) <= 1 /\ ~(r.result = "ok" \/ \E k \in DOMAIN r.ch : r.ch[k] = "ok")
    BY <2>2, <2>3
  <2>6. \A i \in 1 .. MaxIndex : pending'[i] \in Client =>
            \/ pending'[i] = c /\ r.pc = "waiting" /\ r.index = i /\ r.ch = <<>>
            \/ pending'[i] # c /\ pending'[i] = pending[i]
    BY <1>w, <2>1, <2>2, <2>3, <2>4
  <2> QED
    BY <1>r, <2>1, <2>2, <2>3, <2>4, <2>5, <2>6, OneCall
<1>4. CASE Return(c)
  <2> DEFINE h == Head(call[c].ch)
             r == [call[c] EXCEPT !.pc = "returned", !.result = h]
  <2>1. /\ call[c].ch # <<>> /\ call' = [call EXCEPT ![c] = r] /\ pending' = pending
    BY <1>4, <1>t DEF Return
  <2>2. /\ call[c].ch \in Seq({"ok", "notLeader"}) /\ h = call[c].ch[1] /\ 1 \in DOMAIN call[c].ch
        /\ h \in {"ok", "notLeader"}
    BY <1>t, <2>1 DEF Call
  <2> HIDE DEF h
  <2>3. /\ r \in Call /\ r.pc = "returned" /\ r.ch = call[c].ch /\ r.result = h
        /\ r.index = call[c].index /\ r.term = call[c].term
    BY <1>t, <2>2 DEF Call
  <2> HIDE DEF r
  <2>4. r.result = "ok" \/ (\E k \in DOMAIN r.ch : r.ch[k] = "ok")
           => r.index \in 1 .. Len(entries) /\ entries[r.index] = r.term
    BY <1>t, <2>2, <2>3 DEF CallOK, Own
  <2>5. Len(r.ch) <= 1
    BY <1>t, <2>3 DEF CallOK
  <2> QED
    BY <1>t, <1>r, <1>w, <2>1, <2>3, <2>4, <2>5, OneCall
<1>5. CASE Timeout(c)
  <2> DEFINE r == [call[c] EXCEPT !.pc = "returned", !.result = "timeout"]
             n == call[c].index
  <2>1. /\ call' = [call EXCEPT ![c] = r] /\ pending' = [pending EXCEPT ![n] = Nobody]
    BY <1>5, <1>t DEF Timeout
  <2>2. /\ r \in Call /\ r.pc = "returned" /\ r.ch = call[c].ch /\ r.result = "timeout"
        /\ r.index = call[c].index /\ r.term = call[c].term
    BY <1>t DEF Call
  <2> HIDE DEF r
  <2>3. r.result = "ok" \/ (\E k \in DOMAIN r.ch : r.ch[k] = "ok")
           => r.index \in 1 .. Len(entries) /\ entries[r.index] = r.term
    BY <1>t, <2>2 DEF CallOK, Own
  <2>4. Len(r.ch) <= 1
    BY <1>t, <2>2 DEF CallOK
  <2>5. \A i \in 1 .. MaxIndex : pending[i] = c => i = n
    BY <1>w
  <2> HIDE DEF n
  <2>6. /\ pending' \in [1 .. MaxIndex -> Client \cup {Nobody}]
        /\ \A i \in 1 .. MaxIndex : IF i = n THEN pending'[i] = Nobody
                                             ELSE pending'[i] = pending[i]
    BY <1>t, <2>1
  <2>7. \A i \in 1 .. MaxIndex : pending'[i] \in Client =>
            pending'[i] # c /\ pending'[i] = pending[i]
    BY <2>5, <2>6, KVAssumption
  <2> QED
    BY <1>t, <1>r, <2>1, <2>2, <2>3, <2>4, <2>6, <2>7, OneCall
<1> QED
  BY <1>1, <1>2, <1>3, <1>4, <1>5 DEF ClientStep

\* Results go to the call registered for the index; a restored snapshot fails
\* every registered call.
LEMMA ResultsOK ==
    ASSUME NodeOK, StoreTypes, CallsOK, ReaderStep, reader' \in Readers
    PROVE  StoreTypes' /\ CallsOK'
<1>t. /\ call \in [Client -> Call] /\ \A c \in Client : CallOK(c)
      /\ pending \in [1 .. MaxIndex -> Client \cup {Nobody}]
      /\ applyCh \in Seq(Notice) /\ Len(entries) \in Nat /\ Len(entries) <= MaxIndex
      /\ entries \in Seq(1 .. MaxTerm)
      /\ MaxIndex \in Nat
  BY ApplyAssumption DEF StoreTypes, CallsOK, NodeOK, ApplyTypes, IndicesOK
<1>1. CASE CopyData \/ SaveCopy
  <2>1. call' = call /\ pending' = pending /\ entries' = entries
    BY <1>1 DEF CopyData, SaveCopy, applyVars, TakeSnapshot
  <2> QED
    BY <2>1, CallsKept
<1>2. CASE ReadEntry
  <2> DEFINE i == Head(applyCh).index
             c == pending[i]
             o == Outcome(c, i)
             r == [call[c] EXCEPT !.ch = Append(@, o)]
  <2>1. /\ applyCh # <<>> /\ entries' = entries
        /\ IF c # Nobody THEN /\ call' = [call EXCEPT ![c].ch = Append(@, o)]
                              /\ pending' = [pending EXCEPT ![i] = Nobody]
                         ELSE UNCHANGED <<call, pending>>
    BY <1>2 DEF ReadEntry, Unregister
  <2>2. CASE c = Nobody
    BY <2>1, <2>2, CallsKept
  <2>3. CASE c # Nobody
    <3>1. i \in 1 .. Len(entries)
      <4>1. 1 \in DOMAIN applyCh /\ Head(applyCh) = applyCh[1]
        BY <1>t, <2>1
      <4> QED
        BY <4>1 DEF NodeOK, DeliveryOK
    <3>2. i \in 1 .. MaxIndex
      BY <1>t, <3>1
    <3>3. c \in Client
      BY <1>t, <2>3, <3>2
    <3>4. call[c].pc = "waiting" /\ call[c].index = i /\ call[c].ch = <<>>
      BY <3>2, <3>3 DEF CallsOK, RegisteredOK
    <3>5. o \in {"ok", "notLeader"} /\ (o = "ok" => entries[i] = call[c].term)
      BY DEF Outcome
    <3>6. \A k \in 1 .. MaxIndex : pending[k] = c => k = i
      <4> SUFFICES ASSUME NEW k \in 1 .. MaxIndex, pending[k] = c PROVE k = i
        OBVIOUS
      <4>1. call[c].index = k
        BY <3>3 DEF CallsOK, RegisteredOK
      <4> QED
        BY <3>4, <4>1
    <3> HIDE DEF o
    <3>7. Append(call[c].ch, o) = <<o>> /\ <<o>> \in Seq({"ok", "notLeader"})
      BY <3>4, <3>5
    <3>8. r = [call[c] EXCEPT !.ch = <<o>>]
      BY <3>7
    <3>9. call' = [call EXCEPT ![c] = r]
      BY <1>t, <2>1, <2>3, <3>3
    <3>10. pending' = [pending EXCEPT ![i] = Nobody]
      BY <2>1, <2>3
    <3> HIDE DEF c, r
    <3>11. /\ r \in Call /\ r.ch = <<o>> /\ r.pc = "waiting" /\ r.index = i
           /\ r.term = call[c].term /\ r.result = call[c].result
      BY <1>t, <3>3, <3>4, <3>7, <3>8 DEF Call
    <3> HIDE DEF i
    <3>12. /\ pending' \in [1 .. MaxIndex -> Client \cup {Nobody}]
           /\ \A k \in 1 .. MaxIndex : IF k = i THEN pending'[k] = Nobody
                                                ELSE pending'[k] = pending[k]
      BY <1>t, <3>10
    <3>13. \A k \in 1 .. MaxIndex : pending'[k] \in Client =>
               pending'[k] # c /\ pending'[k] = pending[k]
      BY <3>6, <3>12, KVAssumption
    <3>14. Len(r.ch) = 1 /\ \A k \in DOMAIN r.ch : r.ch[k] = o
      BY <3>11
    <3>15. r.result = "ok" \/ (\E k \in DOMAIN r.ch : r.ch[k] = "ok")
              => r.index \in 1 .. Len(entries) /\ entries[r.index] = r.term
      <4>1. call[c].result = "ok" => i \in 1 .. Len(entries) /\ entries[i] = call[c].term
        BY <1>t, <3>3, <3>4 DEF CallOK, Own
      <4>2. o = "ok" => i \in 1 .. Len(entries) /\ entries[i] = call[c].term
        BY <3>1, <3>5
      <4> QED
        BY <3>11, <3>14, <4>1, <4>2
    <3>16. Len(r.ch) <= 1 /\ r.pc \notin {"idle", "submitted"} /\ entries' = entries
      BY <2>1, <3>11, <3>14
    <3>17. pending' \in [1 .. MaxIndex -> Client \cup {Nobody}]
      BY <3>12
    <3> QED
      BY <3>3, <3>9, <3>11, <3>13, <3>15, <3>16, <3>17, OneCall
  <2> QED
    BY <2>2, <2>3
<1>3. CASE ReadSnapshot
  <2> DEFINE Reg(c) == \E i \in DOMAIN pending : pending[i] = c
             Failed(c) == [call[c] EXCEPT !.ch = Append(@, "notLeader")]
  <2>1. /\ call' = [c \in Client |-> IF Reg(c) THEN Failed(c) ELSE call[c]]
        /\ pending' = [i \in DOMAIN pending |-> Nobody] /\ entries' = entries
    BY <1>3 DEF ReadSnapshot
  <2>2. ASSUME NEW c \in Client, Reg(c)
        PROVE  /\ Failed(c) \in Call /\ Failed(c).ch = <<"notLeader">> /\ Failed(c).pc = "waiting"
               /\ Failed(c).index = call[c].index /\ Failed(c).term = call[c].term
               /\ Failed(c).result = call[c].result
    <3>1. call[c].pc = "waiting" /\ call[c].ch = <<>>
      BY <1>t, <2>2 DEF CallsOK, RegisteredOK
    <3>2. /\ Append(call[c].ch, "notLeader") = <<"notLeader">>
          /\ <<"notLeader">> \in Seq({"ok", "notLeader"})
      BY <3>1
    <3>3. Failed(c) = [call[c] EXCEPT !.ch = <<"notLeader">>]
      BY <3>2
    <3> HIDE DEF Failed
    <3> QED
      BY <1>t, <3>1, <3>2, <3>3 DEF Call
  <2> HIDE DEF Reg, Failed
  <2>3. /\ call' \in [Client -> Call]
        /\ \A c \in Client : call'[c] = IF Reg(c) THEN Failed(c) ELSE call[c]
    BY <1>t, <2>1, <2>2
  <2>4. pending' \in [1 .. MaxIndex -> Client \cup {Nobody}]
        /\ \A i \in 1 .. MaxIndex : pending'[i] = Nobody
    BY <1>t, <2>1
  <2>5. StoreTypes' /\ RegisteredOK'
    BY <2>3, <2>4, KVAssumption DEF StoreTypes, RegisteredOK, Readers
  <2>6. ASSUME NEW c \in Client PROVE CallOK(c)'
    <3>1. CASE Reg(c)
      <4>1. call'[c] = Failed(c)
        BY <2>3, <3>1
      <4>2. \A k \in DOMAIN <<"notLeader">> : <<"notLeader">>[k] = "notLeader"
        OBVIOUS
      <4>3. Len(<<"notLeader">>) = 1
        OBVIOUS
      <4> DEFINE ch == <<"notLeader">>
      <4>4. /\ call'[c].ch = ch /\ call'[c].pc = "waiting" /\ call'[c].index = call[c].index
            /\ call'[c].term = call[c].term /\ call'[c].result = call[c].result
        BY <2>2, <3>1, <4>1
      <4>5. Len(ch) = 1 /\ \A k \in DOMAIN ch : ch[k] # "ok"
        BY <4>2, <4>3
      <4> HIDE DEF ch
      <4>6. Own(c) => Own(c)'
        BY <2>1, <4>4 DEF Own
      <4>7. call[c].result = "ok" => Own(c)
        BY <1>t DEF CallOK
      <4>8. Len(call'[c].ch) <= 1 /\ ~(\E k \in DOMAIN call'[c].ch : call'[c].ch[k] = "ok")
        BY <4>4, <4>5
      <4> QED
        BY <4>4, <4>6, <4>7, <4>8 DEF CallOK
    <3>2. CASE ~Reg(c)
      BY <1>t, <2>1, <2>3, <3>2 DEF CallOK, Own
    <3> QED
      BY <3>1, <3>2
  <2> QED
    BY <2>5, <2>6 DEF CallsOK
<1> QED
  BY <1>1, <1>2, <1>3 DEF ReaderStep

\* The process dies: no call is registered, none of the open ones has a result.
LEMMA RestartCallsOK ==
    ASSUME NodeOK, StoreTypes, CallsOK, Restart
    PROVE  StoreTypes' /\ CallsOK'
<1> DEFINE Open(c) == call[c].pc \in {"submitted", "waiting"}
           Died(c) == [call[c] EXCEPT !.pc = "returned", !.ch = <<>>, !.result = "died"]
<1>t. /\ call \in [Client -> Call] /\ \A c \in Client : CallOK(c)
      /\ pending \in [1 .. MaxIndex -> Client \cup {Nobody}]
  BY DEF StoreTypes, CallsOK
<1>1. /\ call' = [c \in Client |-> IF Open(c) THEN Died(c) ELSE call[c]]
      /\ pending' = [i \in DOMAIN pending |-> Nobody] /\ entries' = entries
      /\ reader' = Reading
  BY DEF Restart, RestoreFromSnapshot
<1>2. \A c \in Client : /\ Died(c) \in Call /\ Died(c).ch = <<>> /\ Died(c).result = "died"
                        /\ Died(c).pc = "returned"
  <2>1. <<>> \in Seq({"ok", "notLeader"})
    OBVIOUS
  <2> QED
    BY <1>t, <2>1 DEF Call
<1> HIDE DEF Open, Died
<1>3. /\ call' \in [Client -> Call]
      /\ \A c \in Client : call'[c] = IF Open(c) THEN Died(c) ELSE call[c]
  BY <1>t, <1>1, <1>2
<1>4. pending' \in [1 .. MaxIndex -> Client \cup {Nobody}]
      /\ \A i \in 1 .. MaxIndex : pending'[i] = Nobody
  BY <1>t, <1>1
<1>5. reader' \in Readers
  BY <1>1, EmptyFacts DEF Reading, Readers
<1>6. StoreTypes' /\ RegisteredOK'
  BY <1>3, <1>4, <1>5, KVAssumption DEF StoreTypes, RegisteredOK, Readers
<1>7. ASSUME NEW c \in Client PROVE CallOK(c)'
  <2>1. CASE Open(c)
    <3>1. /\ call'[c].ch = <<>> /\ call'[c].result = "died" /\ call'[c].pc = "returned"
      BY <1>2, <1>3, <2>1
    <3> QED
      BY <3>1 DEF CallOK
  <2>2. CASE ~Open(c)
    BY <1>t, <1>1, <1>3, <2>2 DEF CallOK, Own
  <2> QED
    BY <2>1, <2>2
<1> QED
  BY <1>6, <1>7 DEF CallsOK

-----------------------------------------------------------------------------
(* The step and the theorems.                                              *)

\* A step of the clients alone leaves the node as it is.
LEMMA NodeKept ==
    ASSUME NodeOK, UNCHANGED <<applyVars, reader>>
    PROVE  NodeOK'
BY DEF NodeOK, applyVars, nodeState, ApplyTypes, IndicesOK, MachineOK, DeliveryOK

\* Every step of the node, of its reader and of its clients keeps the invariant.
LEMMA KVStep == KVInv /\ [Next]_kvVars => KVInv'
<1> SUFFICES ASSUME KVInv, [Next]_kvVars PROVE KVInv'
  OBVIOUS
<1>t. NodeOK /\ StoreTypes /\ CallsOK
  BY DEF KVInv, NodeOK
<1>r. reader \in Readers
  BY <1>t DEF StoreTypes, Readers
<1> SUFFICES NodeOK' /\ StoreTypes' /\ CallsOK'
  BY DEF KVInv, NodeOK
<1>k. ASSUME entries' = entries, UNCHANGED <<call, pending, reader>>
      PROVE  StoreTypes' /\ CallsOK'
  BY <1>k, <1>t, <1>r, CallsKept
<1>1. ASSUME NEW t \in 1 .. MaxTerm, ClusterCommits(t), UNCHANGED <<call, pending, reader>>
      PROVE  NodeOK' /\ StoreTypes' /\ CallsOK'
  <2>1. NodeOK' /\ \A i \in 1 .. Len(entries) : i \in 1 .. Len(entries') /\ entries'[i] = entries[i]
    BY <1>1, <1>t, ClusterCommitsOK
  <2> QED
    BY <1>1, <1>t, <1>r, <2>1, CallsKept
<1>2. ASSUME NEW i \in 1 .. Len(entries), AdvanceCommit(i), UNCHANGED <<call, pending, reader>>
      PROVE  NodeOK' /\ StoreTypes' /\ CallsOK'
  <2>1. entries' = entries
    BY <1>2 DEF AdvanceCommit
  <2>2. NodeOK'
    BY <1>2, <1>t, AdvanceCommitOK
  <2> QED
    BY <1>2, <1>k, <2>1, <2>2
<1>3. ASSUME NEW s \in 1 .. Len(entries), HandleInstallSnapshot(s),
             UNCHANGED <<call, pending, reader>>
      PROVE  NodeOK' /\ StoreTypes' /\ CallsOK'
  <2>1. entries' = entries
    BY <1>3 DEF HandleInstallSnapshot
  <2>2. NodeOK'
    BY <1>3, <1>t, InstallOK
  <2> QED
    BY <1>3, <1>k, <2>1, <2>2
<1>4. CASE LoopStep
  <2>1. entries' = entries
    BY <1>4 DEF LoopStep, ApplyLoopStep, WakeUp, Relock, ApplyEntry, SendEntry, SendSnapshot,
                Restore, Deliver, NextEntry
  <2>2. NodeOK'
    BY <1>4, <1>t, LoopOK DEF LoopStep
  <2> QED
    BY <1>4, <1>k, <2>1, <2>2 DEF LoopStep
<1>5. CASE ReaderStep
  <2>1. NodeOK' /\ reader' \in Readers
    BY <1>5, <1>t, ReaderOK DEF Readers
  <2> QED
    BY <1>5, <1>t, <2>1, ResultsOK
<1>6. ASSUME NEW c \in Client, ClientStep(c)
      PROVE  NodeOK' /\ StoreTypes' /\ CallsOK'
  <2>1. UNCHANGED <<applyVars, reader>>
    BY <1>6 DEF ClientStep, Submit, SubmitRefused, Register, Return, Timeout
  <2>2. NodeOK'
    BY <1>t, <2>1, NodeKept
  <2> QED
    BY <1>6, <1>t, <2>2, ClientOK
<1>7. CASE Restart
  BY <1>7, <1>t, RestartOK, RestartCallsOK
<1>8. CASE UNCHANGED kvVars
  <2>1. UNCHANGED <<applyVars, reader>> /\ UNCHANGED <<call, pending, reader>>
    BY <1>8 DEF kvVars
  <2>2. entries' = entries
    BY <2>1 DEF applyVars
  <2> QED
    BY <1>k, <1>t, <2>1, <2>2, NodeKept
<1>9. ASSUME NEW c \in Client,
             \/ \E i \in 1 .. MaxIndex, t \in 1 .. MaxTerm : Submit(c, i, t)
             \/ SubmitRefused(c) \/ Register(c) \/ Return(c) \/ Timeout(c)
      PROVE  ClientStep(c)
  BY <1>9 DEF ClientStep
<1> QED
  BY <1>1, <1>2, <1>3, <1>4, <1>5, <1>6, <1>7, <1>8, <1>9 DEF Next

\* The invariant holds in every reachable state of the store.
LEMMA KVInvariance == Spec => []KVInv
<1>1. Init => KVInv
  BY InitialState
<1> QED
  BY <1>1, KVStep, PTL DEF Spec

\* Indices stay in order and every channel within its capacity: what the
\* snapshot covers is applied, what is applied is committed, whatever the
\* interleaving of commits, InstallSnapshot, TakeSnapshot and restarts.
THEOREM StoreTyped == Spec => []TypeOK
<1>1. KVInv => TypeOK
  <2> SUFFICES ASSUME KVInv PROVE TypeOK
    OBVIOUS
  <2>1. /\ ApplyTypes /\ StoreTypes /\ IndicesOK /\ Len(entries) \in Nat
        /\ snapshot.index \in Nat
    BY DEF KVInv, ApplyTypes, Snapshot
  <2> QED
    BY <2>1 DEF ApplyTypes, StoreTypes, IndicesOK, TypeOK
<1> QED
  BY <1>1, KVInvariance, PTL

\* The apply loop, Restore and a restart never apply an entry to a state
\* machine that already contains it or a later one.
THEOREM AppliesInOrder == Spec => []AppliedInOrder
<1>1. KVInv => AppliedInOrder
  BY DEF KVInv, MachineOK, Increasing, AppliedInOrder
<1> QED
  BY <1>1, KVInvariance, PTL

\* propose returns success only when the entry committed at its index is its
\* own: a result routed by index alone would not.
THEOREM SuccessesAreOwn == Spec => []SuccessIsOwn
<1>1. KVInv => SuccessIsOwn
  <2> SUFFICES ASSUME KVInv, NEW c \in Client, call[c].result = "ok"
               PROVE  call[c].index <= Len(entries) /\ entries[call[c].index] = call[c].term
    BY DEF SuccessIsOwn
  <2>1. Own(c) /\ Len(entries) \in Nat
    BY DEF KVInv, CallsOK, CallOK, ApplyTypes
  <2> QED
    BY <2>1 DEF Own
<1> QED
  BY <1>1, KVInvariance, PTL

\* A result channel of capacity 1 never gets a second result, so readApplyCh
\* and failAllPending never block on a client.
THEOREM ResultsFit == Spec => []OneResult
<1>1. KVInv => OneResult
  BY DEF KVInv, CallsOK, CallOK, OneResult
<1> QED
  BY <1>1, KVInvariance, PTL

=============================================================================
