------------------------------ MODULE Storage ------------------------------
(***************************************************************************)
(* The log of one node, in memory and in its two files                     *)
(* (src/raft/log.go, src/raft/persist.go, src/raft/snapshot.go).           *)
(*                                                                         *)
(* In memory: the stored log of RaftLog beside a reference that is never   *)
(* compacted (full) and the index up to which it was compacted (snap).     *)
(*                                                                         *)
(* On disk: raft-state.bin and raft-snapshot.bin, each replaced by writing *)
(* a temporary file, fsync and rename.  The directory is never synced, so  *)
(* renames reach the disk later, in order: disk is the sequence of what    *)
(* the two files held, from what a power cut would leave (the first) to    *)
(* what the node reads now (the last).                                     *)
(*                                                                         *)
(* The node's lock is held from the first change to the reply.  A call     *)
(* therefore is: Begin, for each file write, sync and rename, then Answer, *)
(* which makes the new memory visible.  Every file operation may fail, the *)
(* process may be killed and the power may go between any two steps.       *)
(***************************************************************************)
EXTENDS RaftLog

CONSTANTS
    Cmd,                \* commands
    MaxTerm,            \* bound on terms
    MaxLen,             \* bound on the length of the log
    MaxLag              \* bound on the renames not on disk when a call begins

ASSUME StorageAssumption ==
    /\ MaxTerm \in Nat \ {0} /\ MaxLen \in Nat \ {0} /\ MaxLag \in Nat
    /\ NoCmd \notin Cmd

VARIABLES
    mem,                \* [log, full, snap], as the last call left it
    call,               \* the call in progress
    disk,               \* what the files held: on disk first, visible last
    failed              \* was a call answered whose state could not be saved?

vars == <<mem, call, disk, failed>>

Term == 1 .. MaxTerm

FreshMem == [log |-> EmptyLog, full |-> <<>>, snap |-> 0]

Idle == [stage |-> "idle"]

NoSnapshot == [index |-> 0, term |-> 0, data |-> <<>>, synced |-> TRUE]

NoState == [log |-> EmptyLog, synced |-> TRUE]

NoFiles == [state |-> NoState, snapshot |-> NoSnapshot]

Visible == disk[Len(disk)]

Init ==
    /\ mem = FreshMem
    /\ call = Idle
    /\ disk = <<NoFiles>>
    /\ failed = FALSE

-----------------------------------------------------------------------------
(* The calls: the memory each can leave.                                   *)

\* Submit: one entry at LastIndex + 1, in a term not below the last one.
Submitted(m) ==
    {[m EXCEPT !.log = @ \o <<e>>, !.full = Append(@, e)] :
        e \in {x \in [term : Term, index : {LastIndex(m.log) + 1}, cmd : Cmd] :
                 x.index <= MaxLen /\ x.term >= LastTerm(m.log)}}

\* The logs a leader can hold whose first prev entries are also ours: what
\* lies beyond prev has terms that do not decrease.
LeaderLogs(m, prev) ==
    UNION {{SubSeq(m.full, 1, prev) \o
              [k \in 1 .. n |-> [term |-> ts[k], index |-> prev + k, cmd |-> c]] :
              ts \in {f \in [1 .. n -> Term] :
                        \A a, b \in 1 .. n : a <= b => f[a] <= f[b]},
              c \in Cmd} : n \in 0 .. MaxLen - prev}

\* A leader's log agrees with what is compacted (those entries are committed)
\* and with everything before an entry of ours that it has too.
Agrees(m, leader) ==
    /\ \A k \in 1 .. m.snap : k <= Len(leader) => leader[k].term = m.full[k].term
    /\ \A k \in 1 .. Min({Len(m.full), Len(leader)}) :
          leader[k].term = m.full[k].term => SubSeq(leader, 1, k) = SubSeq(m.full, 1, k)

\* HandleAppendEntries after a successful consistency check at prev: the
\* reference keeps its log if the batch is already there, else takes the
\* leader's.
Merged(m) ==
    UNION {{[m EXCEPT
               !.log  = AppendBatch(@, SubSeq(leader, prev + 1, Len(leader))),
               !.full = IF \A k \in prev + 1 .. Len(leader) :
                             k <= Len(@) /\ @[k].term = leader[k].term
                        THEN @
                        ELSE leader] :
             leader \in {l \in LeaderLogs(m, prev) : Agrees(m, l)}} :
           prev \in {0} \cup Max({m.snap, 1}) .. Len(m.full)}

\* TakeSnapshot: compact through an applied index.
Compacted(m) ==
    {[m EXCEPT !.log = CompactTo(@, i, Get(@, i).term), !.snap = i] :
        i \in m.snap + 1 .. Len(m.full)}

\* HandleInstallSnapshot: compact through an index that may lie beyond the
\* log, which then is empty.  (A snapshot that conflicts with the log is a
\* matter of module Raft.)
Installed(m) ==
    {[log |-> CompactTo(m.log, Len(l), l[Len(l)].term),
      full |-> IF Len(l) <= Len(m.full) THEN m.full ELSE l,
      snap |-> Len(l)] :
        l \in {l \in LeaderLogs(m, 0) :
                 /\ Len(l) > m.snap
                 /\ Agrees(m, l)
                 /\ Len(l) <= Len(m.full) => l = SubSeq(m.full, 1, Len(l))}}

-----------------------------------------------------------------------------
(* Writing the files.                                                      *)

Begin(after, files) ==
    /\ call = Idle
    /\ Len(disk) <= MaxLag + 1
    /\ call' = [stage |-> "write", files |-> files, after |-> after, synced |-> FALSE]
    /\ UNCHANGED <<mem, disk, failed>>

Submit == \E m \in Submitted(mem) : Begin(m, <<"state">>)

HandleAppendEntries == \E m \in Merged(mem) : Begin(m, <<"state">>)

\* Mutant of TakeSnapshot: the compacted log is saved before the snapshot.
TakeSnapshotStateFirst == \E m \in Compacted(mem) : Begin(m, <<"state", "snapshot">>)

TakeSnapshot == \E m \in Compacted(mem) : Begin(m, <<"snapshot", "state">>)

HandleInstallSnapshot == \E m \in Installed(mem) : Begin(m, <<"snapshot", "state">>)

\* Mutant of WriteTemporary: no fsync, the contents are in the cache.
WriteUnsynced ==
    /\ call.stage = "write"
    /\ call' = [call EXCEPT !.stage = "rename"]
    /\ UNCHANGED <<mem, disk, failed>>

\* Create, Encode and Sync; the temporary file is never read.
WriteTemporary ==
    /\ call.stage = "write"
    /\ call' = [call EXCEPT !.stage = "rename", !.synced = TRUE]
    /\ UNCHANGED <<mem, disk, failed>>

\* What the call writes to each file: the log, or the state machine's state
\* (every entry up to the snapshot's index) with that index and its term.
Contents(file) ==
    LET m == call.after
    IN  IF file = "state"
        THEN [log |-> m.log, synced |-> call.synced]
        ELSE [index |-> m.snap, term |-> SnapshotTerm(m.log),
              data |-> SubSeq(m.full, 1, m.snap), synced |-> call.synced]

Rename ==
    /\ call.stage = "rename"
    /\ disk' = Append(disk, [Visible EXCEPT ![Head(call.files)] = Contents(Head(call.files))])
    /\ call' = [call EXCEPT !.files = Tail(@), !.synced = FALSE,
                            !.stage = IF Len(call.files) > 1 THEN "write" ELSE "answer"]
    /\ UNCHANGED <<mem, failed>>

Answer ==
    /\ call.stage = "answer"
    /\ mem' = call.after
    /\ call' = Idle
    /\ failed' = FALSE
    /\ UNCHANGED disk

\* A file operation fails.  saveSnapshot's caller gives the call up before
\* anything changed; persist's caller does not notice.
SaveFails ==
    /\ call.stage \in {"write", "rename"}
    /\ IF Head(call.files) = "snapshot"
       THEN UNCHANGED <<mem, failed>>
       ELSE mem' = call.after /\ failed' = TRUE
    /\ call' = Idle
    /\ UNCHANGED disk

-----------------------------------------------------------------------------
(* Crashes and the restart.                                                *)

\* loadState, then restoreFromSnapshot: the machine takes the snapshot's
\* data and the log is compacted through its index.  The node then has the
\* entries the snapshot stands for and those its log holds beyond it.
Load(files) ==
    LET log == CompactTo(files.state.log, files.snapshot.index, files.snapshot.term)
    IN  [log |-> log, full |-> files.snapshot.data \o Tail(log), snap |-> files.snapshot.index]

\* A file renamed before its contents were synced is empty after a power
\* cut: loadState and loadSnapshotFile fail, and Run ignores their errors.
AfterPowerCut(files) ==
    [state    |-> IF files.state.synced THEN files.state ELSE NoState,
     snapshot |-> IF files.snapshot.synced THEN files.snapshot ELSE NoSnapshot]

\* The process is killed and started again: it finds the files as it left them.
Kill ==
    /\ mem' = Load(Visible)
    /\ call' = Idle
    /\ failed' = FALSE
    /\ UNCHANGED disk

\* The power goes and the node is started again.
PowerCut ==
    /\ disk' = <<AfterPowerCut(disk[1])>>
    /\ mem' = Load(disk'[1])
    /\ call' = Idle
    /\ failed' = FALSE

\* The oldest rename reaches the disk.
Flush ==
    /\ Len(disk) > 1
    /\ disk' = Tail(disk)
    /\ UNCHANGED <<mem, call, failed>>

Next ==
    \/ Submit \/ HandleAppendEntries \/ TakeSnapshot \/ HandleInstallSnapshot
    \/ WriteTemporary \/ Rename \/ Answer \/ SaveFails
    \/ Kill \/ PowerCut \/ Flush

Spec == Init /\ [][Next]_vars

-----------------------------------------------------------------------------

\* After any sequence of appends, merges, compactions, failed saves, crashes
\* and restarts the stored log (log.go) is the reference log behind the
\* boundary, with the boundary's own index and term in the sentinel.
StoredIsImage ==
    LET log == mem.log
        full == mem.full
        snap == mem.snap
    IN  /\ SnapshotIndex(log) = snap
        /\ SnapshotTerm(log) = (IF snap = 0 THEN 0 ELSE full[snap].term)
        /\ LastIndex(log) = Len(full)
        /\ \A i \in snap + 1 .. Len(full) : log[i - snap + 1] = full[i]

\* Every read of log.go agrees with the reference: get and slice for every
\* argument (out of range included), the last term the vote rule compares,
\* and the two conflict searches: the hint of the follower is the first index
\* of the term that is still stored, the leader's search finds its last one.
ReadsAgree ==
    LET log == mem.log
        full == mem.full
        Readable == Max({mem.snap, 1}) .. Len(full)
        Stored(t) == {i \in Readable : full[i].term = t}
    IN  /\ \A i \in 0 .. MaxLen + 1 :
             Get(log, i).term = (IF i \in Readable THEN full[i].term ELSE 0)
        /\ \A from, to \in 0 .. MaxLen + 2 :
             Slice(log, from, to) =
               SubSeq(full, Max({from, mem.snap + 1}), Min({to - 1, Len(full)}))
        /\ LastTerm(log) = (IF full = <<>> THEN 0 ELSE full[Len(full)].term)
        /\ \A t \in Term :
             IF Stored(t) = {}
             THEN FirstIndexForTerm(log, t) = 0 /\ LastIndexWithTerm(log, t) = 0
             ELSE /\ FirstIndexForTerm(log, t) = Min(Stored(t))
                  /\ LastIndexWithTerm(log, t) = Max(Stored(t))

\* In every pair of files a crash can leave, failed saves included, the
\* snapshot reaches at least as far as the log was compacted: no entry is
\* missing from both (TakeSnapshot and HandleInstallSnapshot save the
\* snapshot before they compact).
SnapshotCoversLog ==
    \A k \in 1 .. Len(disk) : SnapshotIndex(disk[k].state.log) <= disk[k].snapshot.index

\* The files implement a state that is saved in one step (persist.go:30-33):
\* what an answered call left is what a restart loads, and a power cut goes
\* back to a state that was saved, never to a mixture of two files.
Durable == INSTANCE DurableState WITH
    Value  <- Seq([term : Term, index : 1 .. MaxLen, cmd : Cmd]),
    Fresh  <- <<>>,
    value  <- mem.full,
    saved  <- Load(Visible).full,
    past   <- {Load(disk[k]).full : k \in 1 .. Len(disk)},
    busy   <- call # Idle

RefinesDurable == Durable!Spec

=============================================================================
