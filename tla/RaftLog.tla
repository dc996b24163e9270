------------------------------ MODULE RaftLog ------------------------------
(***************************************************************************)
(* The replicated log of src/raft/log.go, as operators on its contents.    *)
(*                                                                         *)
(* A log is a non-empty sequence of entries.  The first one is the         *)
(* sentinel: index and term 0 in a fresh log, the last compacted entry     *)
(* after a snapshot.  An entry with logical index i sits at the (1-based)  *)
(* position i - SnapshotIndex(l) + 1.                                      *)
(*                                                                         *)
(* The last two operators are the loops over a log that                    *)
(* src/raft/replication.go runs: the leader's search for a conflicting     *)
(* term and the follower's merge of a batch of entries.                    *)
(***************************************************************************)
EXTENDS Integers, Sequences, FiniteSetsExt

CONSTANT NoCmd          \* the nil Command of the sentinel and of LogEntry{}

Entry(Cmd) == [term : Nat, index : Nat, cmd : Cmd \cup {NoCmd}]

ZeroEntry == [term |-> 0, index |-> 0, cmd |-> NoCmd]

EmptyLog == <<ZeroEntry>>

SnapshotIndex(l) == l[1].index

SnapshotTerm(l) == l[1].term

LastIndex(l) == l[1].index + Len(l) - 1

LastTerm(l) == l[Len(l)].term

\* The entry at logical index i; the zero entry when i is out of range.
Get(l, i) ==
    IF i < SnapshotIndex(l) \/ i - SnapshotIndex(l) >= Len(l)
    THEN ZeroEntry
    ELSE l[i - SnapshotIndex(l) + 1]

\* Drop the entries from logical index i on; never the sentinel.
TruncateFrom(l, i) ==
    IF i <= SnapshotIndex(l) \/ i - SnapshotIndex(l) >= Len(l)
    THEN l
    ELSE SubSeq(l, 1, i - SnapshotIndex(l))

\* Mutants of CompactTo: the entry at i stays behind its own sentinel; one
\* entry too many is dropped.
CompactToKeepsBoundary(l, i, t) ==
    IF i <= SnapshotIndex(l)
    THEN l
    ELSE <<[term |-> t, index |-> i, cmd |-> NoCmd]>>
            \o SubSeq(l, i - SnapshotIndex(l) + 1, Len(l))

CompactToDropsNext(l, i, t) ==
    IF i <= SnapshotIndex(l)
    THEN l
    ELSE <<[term |-> t, index |-> i, cmd |-> NoCmd]>>
            \o SubSeq(l, i - SnapshotIndex(l) + 3, Len(l))

\* Make <<i, t>> the sentinel and keep what is stored after index i.  The
\* entry stored at i is replaced without comparing its term with t.
CompactTo(l, i, t) ==
    IF i <= SnapshotIndex(l)
    THEN l
    ELSE <<[term |-> t, index |-> i, cmd |-> NoCmd]>>
            \o SubSeq(l, i - SnapshotIndex(l) + 2, Len(l))

\* Mutant of FirstIndexForTerm: the sentinel is skipped.
FirstIndexAfterSentinel(l, t) ==
    LET P == {k \in 2 .. Len(l) : l[k].term = t}
    IN  IF P = {} THEN 0 ELSE l[Min(P)].index

\* The first stored index whose term is t (the sentinel included), or 0.
FirstIndexForTerm(l, t) ==
    LET P == {k \in 1 .. Len(l) : l[k].term = t}
    IN  IF P = {} THEN 0 ELSE l[Min(P)].index

\* The entries of the half-open range from .. to - 1 that are still stored.
Slice(l, from, to) ==
    LET first == IF from <= SnapshotIndex(l) THEN SnapshotIndex(l) + 1 ELSE from
    IN  IF first >= to \/ first - SnapshotIndex(l) >= Len(l)
        THEN <<>>
        ELSE SubSeq(l, first - SnapshotIndex(l) + 1,
                    Min({to - SnapshotIndex(l), Len(l)}))

-----------------------------------------------------------------------------

\* sendToPeer: the leader's last entry of term t, or 0.
LastIndexWithTerm(l, t) ==
    LET I == {i \in 1 .. LastIndex(l) : Get(l, i).term = t}
    IN  IF I = {} THEN 0 ELSE Max(I)

\* Mutant of AppendBatch: an entry that conflicts is taken for one that is
\* already there.
AppendBatchKeepsConflicts(l, entries) ==
    LET New == {k \in 1 .. Len(entries) : entries[k].index > LastIndex(l)}
    IN  IF New = {} THEN l ELSE l \o SubSeq(entries, Min(New), Len(entries))

\* HandleAppendEntries: skip what is compacted or already there; from the
\* first entry that is missing or conflicts on, take the leader's entries.
AppendBatch(l, entries) ==
    LET New == {k \in 1 .. Len(entries) :
                  /\ entries[k].index > SnapshotIndex(l)
                  /\ Get(l, entries[k].index).term # entries[k].term}
    IN  IF New = {}
        THEN l
        ELSE LET k == Min(New)
             IN  TruncateFrom(l, entries[k].index) \o SubSeq(entries, k, Len(entries))

=============================================================================
