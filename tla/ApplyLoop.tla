----------------------------- MODULE ApplyLoop -----------------------------
(***************************************************************************)
(* How committed entries and snapshots of one node reach its state         *)
(* machine: apply.go, and the parts of snapshot.go and node.go it shares   *)
(* state with.  The apply goroutine holds the node's mutex only to take    *)
(* the next entry; Apply, Restore and the sends on applyCh run without it, *)
(* so that commits, InstallSnapshot and TakeSnapshot come in between.      *)
(*                                                                         *)
(* The cluster is one growing sequence of committed entries, of which only *)
(* the terms are kept.  The state machine is the sequence of the indices   *)
(* applied to it, and a snapshot such a sequence with the index it is      *)
(* labelled with; raft-snapshot.bin, snapshotData and the boundary of the  *)
(* log are always written together and are one variable here.              *)
(***************************************************************************)
EXTENDS Naturals, Sequences, FiniteSetsExt

CONSTANTS
    MaxIndex,           \* bound: committed entries of the cluster
    MaxTerm,            \* bound: their terms
    ChanCap,            \* capacity of applyCh (64 in the code)
    Installing,         \* does the leader send this node snapshots?
    MaxRestarts         \* bound: crashes of the process

ASSUME ApplyAssumption ==
    /\ MaxIndex \in Nat /\ MaxTerm \in Nat /\ MaxRestarts \in Nat
    /\ ChanCap \in Nat \ {0}
    /\ Installing \in BOOLEAN

VARIABLES
    entries,            \* the cluster's committed entries: their terms
    commitIndex, lastApplied,
    snapshot,           \* the node's latest snapshot
    commitNotifyC,      \* is there a signal in the channel of capacity 1?
    snapshotNotifyC,    \* the channel of capacity 1, a sequence
    applyCh,
    loop,               \* the apply goroutine: where it is, what it holds
    data,               \* the state machine
    restarts

nodeState == <<commitIndex, lastApplied, snapshot, commitNotifyC, snapshotNotifyC>>
applyVars == <<entries, nodeState, applyCh, loop, data, restarts>>

\* The state after applying entries 1 to i in order.
Upto(i) == [k \in 1 .. i |-> k]

NoSnapshot == [index |-> 0, data |-> <<>>]
Selecting == [pc |-> "select", index |-> 0]

ApplyInit ==
    /\ entries = <<>>
    /\ commitIndex = 0
    /\ lastApplied = 0
    /\ snapshot = NoSnapshot
    /\ commitNotifyC = FALSE
    /\ snapshotNotifyC = <<>>
    /\ applyCh = <<>>
    /\ loop = Selecting
    /\ data = <<>>
    /\ restarts = 0

-----------------------------------------------------------------------------
(* The node, under its mutex.                                              *)

\* Somewhere in the cluster the next entry is committed, with term t.
ClusterCommits(t) ==
    /\ Len(entries) < MaxIndex
    /\ \A k \in DOMAIN entries : entries[k] <= t
    /\ entries' = Append(entries, t)
    /\ UNCHANGED <<nodeState, applyCh, loop, data, restarts>>

\* This node learns of it, by maybeCommit or HandleAppendEntries.
AdvanceCommit(i) ==
    /\ i > commitIndex
    /\ commitIndex' = i
    /\ commitNotifyC' = TRUE
    /\ UNCHANGED <<entries, lastApplied, snapshot, snapshotNotifyC, applyCh, loop, data,
                   restarts>>

\* Mutant of RaiseApplied: an installed snapshot leaves lastApplied behind.
KeepApplied(i) == UNCHANGED lastApplied

RaiseApplied(i) == lastApplied' = Max({lastApplied, i})

\* HandleInstallSnapshot: the leader's snapshot through index s replaces ours,
\* whatever was applied here; what is pending in the channel is dropped.
HandleInstallSnapshot(s) ==
    LET snap == [index |-> s, data |-> Upto(s)]
    IN  /\ Installing
        /\ s > snapshot.index
        /\ snapshot' = snap
        /\ RaiseApplied(s)
        /\ commitIndex' = Max({commitIndex, s})
        /\ snapshotNotifyC' = <<snap>>
        /\ UNCHANGED <<entries, commitNotifyC, applyCh, loop, data, restarts>>

\* TakeSnapshot: the bytes of the application are labelled with lastApplied.
TakeSnapshot(bytes) ==
    /\ snapshot' = IF lastApplied > snapshot.index
                   THEN [index |-> lastApplied, data |-> bytes]
                   ELSE snapshot
    /\ UNCHANGED <<entries, commitIndex, lastApplied, commitNotifyC, snapshotNotifyC,
                   applyCh, loop, data, restarts>>

-----------------------------------------------------------------------------
(* The apply goroutine.                                                    *)

\* Mutant of NextEntry: one entry per wake-up.
OneEntryPerWakeUp ==
    IF loop.pc = "select" /\ lastApplied < commitIndex
    THEN /\ lastApplied' = lastApplied + 1
         /\ loop' = [pc |-> "apply", index |-> lastApplied + 1]
    ELSE /\ UNCHANGED lastApplied
         /\ loop' = Selecting

\* The test of the for loop, under the mutex: take the next committed entry,
\* counting it as applied, or go back to select.
NextEntry ==
    IF lastApplied < commitIndex
    THEN /\ lastApplied' = lastApplied + 1
         /\ loop' = [pc |-> "apply", index |-> lastApplied + 1]
    ELSE /\ UNCHANGED lastApplied
         /\ loop' = Selecting

WakeUp ==
    /\ loop.pc = "select"
    /\ commitNotifyC
    /\ commitNotifyC' = FALSE
    /\ NextEntry
    /\ UNCHANGED <<entries, commitIndex, snapshot, snapshotNotifyC, applyCh, data, restarts>>

\* The key-value store's Apply and Restore.
MachineApply(i) == data' = Append(data, i)
MachineRestore(snap) == data' = snap.data

\* stateMachine.Apply, without the mutex.
ApplyEntry ==
    /\ loop.pc = "apply"
    /\ MachineApply(loop.index)
    /\ loop' = [loop EXCEPT !.pc = "send"]
    /\ UNCHANGED <<entries, nodeState, applyCh, restarts>>

\* The sends on applyCh block while it is full.
Deliver(isSnapshot) ==
    /\ Len(applyCh) < ChanCap
    /\ applyCh' = Append(applyCh, [isSnapshot |-> isSnapshot, index |-> loop.index])
    /\ UNCHANGED <<entries, nodeState, data, restarts>>

SendEntry ==
    /\ loop.pc = "send"
    /\ Deliver(FALSE)
    /\ loop' = [loop EXCEPT !.pc = "relock"]

Relock ==
    /\ loop.pc = "relock"
    /\ NextEntry
    /\ UNCHANGED <<entries, commitIndex, snapshot, commitNotifyC, snapshotNotifyC, applyCh,
                   data, restarts>>

\* The other case of select, which may be chosen after a commit that came
\* later: stateMachine.Restore, then the notice on applyCh.
Restore ==
    /\ loop.pc = "select"
    /\ snapshotNotifyC # <<>>
    /\ MachineRestore(Head(snapshotNotifyC))
    /\ snapshotNotifyC' = <<>>
    /\ loop' = [pc |-> "sendSnapshot", index |-> Head(snapshotNotifyC).index]
    /\ UNCHANGED <<entries, commitIndex, lastApplied, snapshot, commitNotifyC, applyCh,
                   restarts>>

SendSnapshot ==
    /\ loop.pc = "sendSnapshot"
    /\ Deliver(TRUE)
    /\ loop' = Selecting

ApplyLoopStep == WakeUp \/ ApplyEntry \/ SendEntry \/ Relock \/ Restore \/ SendSnapshot

\* The process dies and a new one restores its snapshot before it starts the
\* apply goroutine.
RestoreFromSnapshot ==
    /\ restarts < MaxRestarts
    /\ restarts' = restarts + 1
    /\ MachineRestore(snapshot)
    /\ lastApplied' = snapshot.index
    /\ commitIndex' = snapshot.index
    /\ commitNotifyC' = FALSE
    /\ snapshotNotifyC' = <<>>
    /\ applyCh' = <<>>
    /\ loop' = Selecting
    /\ UNCHANGED <<entries, snapshot>>

=============================================================================
