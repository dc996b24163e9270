------------------------------ MODULE KVStore ------------------------------
(***************************************************************************)
(* The key-value store of src/kvstore on one node: clients that wait for   *)
(* their command, the goroutine that reads applyCh and routes results, and *)
(* the snapshots it takes, together with the apply loop that feeds it.     *)
(*                                                                         *)
(* A command is identified by the index and term that Submit returned; a   *)
(* client makes one call.  Operations and values are left out: every       *)
(* command is applied to the map, and only which ones were is kept.        *)
(***************************************************************************)
EXTENDS ApplyLoop, TLC

CONSTANTS
    Client,             \* client goroutines
    Nobody,             \* no registration
    SnapshotThreshold   \* take a snapshot every so many applied entries

ASSUME KVAssumption == Nobody \notin Client /\ SnapshotThreshold \in Nat

VARIABLES
    call,               \* each client's call: where it is, index and term,
                        \* the results in its channel, what it returned
    pending,            \* index -> client registered for it
    reader              \* the readApplyCh goroutine: where it is, its count
                        \* of applied entries, the bytes of a snapshot

kvVars == <<applyVars, call, pending, reader>>

Idle == [pc |-> "idle", index |-> 0, term |-> 0, ch |-> <<>>, result |-> "none"]
Reading == [pc |-> "range", applied |-> 0, bytes |-> <<>>]

Init ==
    /\ ApplyInit
    /\ call = [c \in Client |-> Idle]
    /\ pending = [i \in 1 .. MaxIndex |-> Nobody]
    /\ reader = Reading

-----------------------------------------------------------------------------
(* Clients.                                                                *)

\* Submit on a leader of term t whose log ends before i.  A leader has every
\* committed entry; the index and term it gives out are later than any before.
Submit(c, i, t) ==
    /\ call[c].pc = "idle"
    /\ i > Len(entries)
    /\ \A k \in DOMAIN entries : entries[k] <= t
    /\ \A d \in Client : call[d].term < t \/ (call[d].term = t /\ call[d].index < i)
    /\ call' = [call EXCEPT ![c].pc = "submitted", ![c].index = i, ![c].term = t]
    /\ UNCHANGED <<applyVars, pending, reader>>

\* Submit on a node that does not lead.
SubmitRefused(c) ==
    /\ call[c].pc = "idle"
    /\ call' = [call EXCEPT ![c].pc = "returned", ![c].result = "notLeader"]
    /\ UNCHANGED <<applyVars, pending, reader>>

\* Only now is the call registered; a call registered for the index before
\* is replaced.
Register(c) ==
    /\ call[c].pc = "submitted"
    /\ pending' = [pending EXCEPT ![call[c].index] = c]
    /\ call' = [call EXCEPT ![c].pc = "waiting"]
    /\ UNCHANGED <<applyVars, reader>>

Return(c) ==
    /\ call[c].pc = "waiting"
    /\ call[c].ch # <<>>
    /\ call' = [call EXCEPT ![c].pc = "returned", ![c].result = Head(call[c].ch)]
    /\ UNCHANGED <<applyVars, pending, reader>>

\* The 5 seconds are over, maybe with a result in the channel.  Whoever is
\* registered for the index now is removed.
Timeout(c) ==
    /\ call[c].pc = "waiting"
    /\ call' = [call EXCEPT ![c].pc = "returned", ![c].result = "timeout"]
    /\ pending' = [pending EXCEPT ![call[c].index] = Nobody]
    /\ UNCHANGED <<applyVars, reader>>

-----------------------------------------------------------------------------
(* readApplyCh.                                                            *)

\* Mutant of Outcome: the result goes to whoever waits for the index.
OutcomeAnyTerm(c, i) == "ok"

\* The result for client c of the entry applied at index i.
Outcome(c, i) == IF call[c].term = entries[i] THEN "ok" ELSE "notLeader"

\* Mutant of Unregister: a call stays registered after it got its result.
UnregisterNever(i) == UNCHANGED pending

Unregister(i) == pending' = [pending EXCEPT ![i] = Nobody]

SnapshotDue(n) == SnapshotThreshold > 0 /\ n % SnapshotThreshold = 0

ReadEntry ==
    LET i == Head(applyCh).index
        c == pending[i]
    IN  /\ reader.pc = "range"
        /\ applyCh # <<>> /\ ~Head(applyCh).isSnapshot
        /\ applyCh' = Tail(applyCh)
        /\ IF c # Nobody
           THEN /\ call' = [call EXCEPT ![c].ch = Append(@, Outcome(c, i))]
                /\ Unregister(i)
           ELSE UNCHANGED <<call, pending>>
        /\ reader' = [reader EXCEPT !.applied = @ + 1,
                                    !.pc = IF SnapshotDue(reader.applied + 1)
                                           THEN "snapshot" ELSE "range"]
        /\ UNCHANGED <<entries, nodeState, loop, data, restarts>>

\* A snapshot was restored: every registered call fails.
ReadSnapshot ==
    /\ reader.pc = "range"
    /\ applyCh # <<>> /\ Head(applyCh).isSnapshot
    /\ applyCh' = Tail(applyCh)
    /\ call' = [c \in Client |->
                  IF \E i \in DOMAIN pending : pending[i] = c
                  THEN [call[c] EXCEPT !.ch = Append(@, "notLeader")]
                  ELSE call[c]]
    /\ pending' = [i \in DOMAIN pending |-> Nobody]
    /\ reader' = [reader EXCEPT !.applied = Head(applyCh).index]
    /\ UNCHANGED <<entries, nodeState, loop, data, restarts>>

\* Snapshot copies the map; TakeSnapshot is called with the copy later.
CopyData ==
    /\ reader.pc = "snapshot"
    /\ reader' = [reader EXCEPT !.pc = "take", !.bytes = data]
    /\ UNCHANGED <<applyVars, call, pending>>

SaveCopy ==
    /\ reader.pc = "take"
    /\ TakeSnapshot(reader.bytes)
    /\ reader' = [reader EXCEPT !.pc = "range", !.bytes = <<>>]
    /\ UNCHANGED <<call, pending>>

ReaderStep == ReadEntry \/ ReadSnapshot \/ CopyData \/ SaveCopy

\* The process dies with its clients; New starts a reader that counts from 0.
Restart ==
    /\ RestoreFromSnapshot
    /\ call' = [c \in Client |->
                  IF call[c].pc \in {"submitted", "waiting"}
                  THEN [call[c] EXCEPT !.pc = "returned", !.ch = <<>>, !.result = "died"]
                  ELSE call[c]]
    /\ pending' = [i \in DOMAIN pending |-> Nobody]
    /\ reader' = Reading

-----------------------------------------------------------------------------

\* The apply goroutine next to the store's own variables.
LoopStep == ApplyLoopStep /\ UNCHANGED <<call, pending, reader>>

Next ==
    \/ \E t \in 1 .. MaxTerm : ClusterCommits(t) /\ UNCHANGED <<call, pending, reader>>
    \/ \E i \in 1 .. Len(entries) : AdvanceCommit(i) /\ UNCHANGED <<call, pending, reader>>
    \/ \E s \in 1 .. Len(entries) :
          HandleInstallSnapshot(s) /\ UNCHANGED <<call, pending, reader>>
    \/ LoopStep
    \/ ReaderStep
    \/ \E c \in Client, i \in 1 .. MaxIndex, t \in 1 .. MaxTerm : Submit(c, i, t)
    \/ \E c \in Client : SubmitRefused(c)
    \/ \E c \in Client : Register(c)
    \/ \E c \in Client : Return(c)
    \/ \E c \in Client : Timeout(c)
    \/ Restart

\* The goroutines of the node run; clients, commits and crashes need not.
Spec == Init /\ [][Next]_kvVars /\ WF_kvVars(LoopStep) /\ WF_kvVars(ReaderStep)

-----------------------------------------------------------------------------
(* Properties.                                                             *)

\* Channels stay within their capacity and the indices in order: what the
\* snapshot covers is applied, what is applied is committed.
TypeOK ==
    /\ entries \in Seq(1 .. MaxTerm)
    /\ commitIndex \in 0 .. Len(entries)
    /\ lastApplied \in 0 .. commitIndex
    /\ snapshot.index \in 0 .. lastApplied
    /\ Len(snapshotNotifyC) <= 1
    /\ Len(applyCh) <= ChanCap
    /\ loop.pc \in {"select", "apply", "send", "relock", "sendSnapshot"}
    /\ pending \in [1 .. MaxIndex -> Client \cup {Nobody}]
    /\ reader.pc \in {"range", "snapshot", "take"}

\* Whatever the interleaving of commits, installed snapshots, TakeSnapshot
\* and restarts, no entry is applied to a state that already contains it or a
\* later one.
AppliedInOrder == \A j, k \in DOMAIN data : j < k => data[j] < data[k]

\* A call that returns success had its own command applied: the entry
\* committed at its index is the one its leader appended, not one that
\* replaced it.
SuccessIsOwn ==
    \A c \in Client : call[c].result = "ok" =>
        /\ call[c].index <= Len(entries)
        /\ entries[call[c].index] = call[c].term

\* A call's channel of capacity 1 never gets a second result, which would
\* block the reader for ever, in failAllPending with the lock on pending.
OneResult == \A c \in Client : Len(call[c].ch) <= 1

\* What is committed is eventually taken up by the apply loop, although
\* wake-up signals are dropped while one is pending and sends on applyCh block
\* (unless the process dies and forgets).
CommittedIsApplied ==
    \A i \in 1 .. MaxIndex :
        commitIndex >= i ~> (lastApplied >= i \/ commitIndex < i)

\* A snapshot contains every entry up to the index it is labelled with
\* (snapshot.go: "the full serialized state machine state at that point").
SnapshotHoldsItsIndex == snapshot.data = Upto(snapshot.index)

\* When the apply loop rests with nothing pending, the state machine contains
\* exactly the entries that lastApplied says it does (apply.go: "applies every
\* committed log entry to the state machine in index order").
MachineIsCurrent ==
    (loop.pc = "select" /\ snapshotNotifyC = <<>>) => data = Upto(lastApplied)

=============================================================================
