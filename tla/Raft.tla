-------------------------------- MODULE Raft --------------------------------
(***************************************************************************)
(* Log replication, commitment and log compaction of src/raft, on top of   *)
(* the elections of module Election: replication.go, snapshot.go, Submit   *)
(* and the bookkeeping of apply.go.                                        *)
(*                                                                         *)
(* A call is an AppendEntries or InstallSnapshot RPC on its way to a peer, *)
(* an answer its reply on the way back together with the arguments the     *)
(* waiting goroutine still holds.  A call that will be lost is not put on  *)
(* the network, and neither is a lost answer; the others arrive in any     *)
(* order.  Snapshot contents and the state machine are left out: the index *)
(* a snapshot stands for is all that replication depends on.               *)
(***************************************************************************)
EXTENDS Election

CONSTANTS
    Cmd,                \* client commands
    MaxIndex,           \* bound: index of the last entry a leader accepts
    MaxInFlight,        \* bound: calls and answers on the network
    Applying,           \* bound: the nodes whose apply loop gets to run
    Compacting          \* bound: the nodes whose application takes snapshots

ASSUME RaftAssumption ==
    /\ NoCmd \notin Cmd
    /\ MaxIndex \in Nat /\ MaxInFlight \in Nat
    /\ Applying \subseteq Node /\ Compacting \subseteq Node

VARIABLES
    nextIndex, matchIndex,      \* per peer, meaningful on a leader
    commitIndex, lastApplied,
    diskLog,                    \* the log in raft-state.bin
    snapFile,                   \* index and term in raft-snapshot.bin
    calls, answers,
    committed,                  \* history: entries committed or applied anywhere
    leaderLog,                  \* history: the log of the leader of each term,
                                \* as becomeLeader found it or Submit left it
    acks                        \* history: <<node, term, index>> when node
                                \* accepted the leader's log up to index

ledger == <<leaderLog, acks>>
replicationVars == <<nextIndex, matchIndex, commitIndex, lastApplied,
                     diskLog, snapFile, calls, answers, committed, ledger>>
raftVars == <<electionVars, replicationVars>>

NoSnapshot == [index |-> 0, term |-> 0]

Init ==
    /\ ElectionInit
    /\ nextIndex = [n \in Node |-> [p \in Node |-> 0]]
    /\ matchIndex = [n \in Node |-> [p \in Node |-> 0]]
    /\ commitIndex = [n \in Node |-> 0]
    /\ lastApplied = [n \in Node |-> 0]
    /\ diskLog = [n \in Node |-> EmptyLog]
    /\ snapFile = [n \in Node |-> NoSnapshot]
    /\ calls = {}
    /\ answers = {}
    /\ committed = {}
    /\ leaderLog = [t \in Term |-> EmptyLog]
    /\ acks = {}

-----------------------------------------------------------------------------
(* Sending.                                                                *)

\* persist writes the whole state: with term and vote goes the log.
PersistLog(n, l) == diskLog' = [diskLog EXCEPT ![n] = l]

\* The call to peer p that leader n builds from its log l: a snapshot when
\* what the peer needs is compacted, else everything from nextIndex on.
BuildArgs(n, l, p) ==
    IF nextIndex[n][p] <= SnapshotIndex(l)
    THEN [kind |-> "Install", from |-> n, to |-> p, term |-> currentTerm[n],
          lastIndex |-> SnapshotIndex(l), lastTerm |-> SnapshotTerm(l),
          waiting |-> TRUE]
    ELSE [kind |-> "Append", from |-> n, to |-> p, term |-> currentTerm[n],
          prevIndex |-> nextIndex[n][p] - 1,
          prevTerm |-> Get(l, nextIndex[n][p] - 1).term,
          entries |-> Slice(l, nextIndex[n][p], LastIndex(l) + 1),
          commit |-> commitIndex[n],
          waiting |-> TRUE]

\* One goroutine per peer; S are the peers whose call will arrive.
Broadcast(n, l, S) ==
    /\ Cardinality(calls) + Cardinality(answers) + Cardinality(S) <= MaxInFlight
    /\ calls' = calls \cup {BuildArgs(n, l, p) : p \in S}

\* The heartbeat tick of a leader that has a quorum.
SendHeartbeats(n, S) ==
    /\ S # {}
    /\ state[n] = Leader
    /\ Broadcast(n, log[n], S)
    /\ UNCHANGED <<electionVars, nextIndex, matchIndex, commitIndex, lastApplied,
                   diskLog, snapFile, answers, committed, ledger>>

\* The heartbeat tick of a leader that lost it: it steps down and still
\* sends one round of heartbeats in its old term.
TickWithoutQuorum(n, S) ==
    /\ CheckQuorum(n)
    /\ Broadcast(n, log[n], S)
    /\ PersistLog(n, log[n])
    /\ UNCHANGED <<nextIndex, matchIndex, commitIndex, lastApplied, snapFile,
                   answers, committed, ledger>>

\* Submit: append in the current term, persist, replicate at once.
Submit(n, c, S) ==
    LET l == log[n] \o <<[term |-> currentTerm[n], index |-> LastIndex(log[n]) + 1,
                          cmd |-> c]>>
    IN  /\ state[n] = Leader
        /\ LastIndex(log[n]) < MaxIndex
        /\ OnlyLogChanges(n)
        /\ log' = [log EXCEPT ![n] = l]
        /\ PersistLog(n, l)
        /\ leaderLog' = [leaderLog EXCEPT ![currentTerm[n]] = l]
        /\ Broadcast(n, l, S)
        /\ UNCHANGED <<nextIndex, matchIndex, commitIndex, lastApplied, snapFile,
                       answers, committed, acks>>

-----------------------------------------------------------------------------
(* The follower's side.                                                    *)

\* The reply to call m; lost when the caller is gone or the network drops it.
\* (InstallSnapshotReply is only a term: the other fields are not read then.)
Answer(m, t, ok, conflictTerm, conflictIndex, delivered) ==
    /\ calls' = calls \ {m}
    /\ delivered => m.waiting
    /\ answers' = IF delivered
                  THEN answers \cup {[call |-> m, term |-> t, success |-> ok,
                                      conflictTerm |-> conflictTerm,
                                      conflictIndex |-> conflictIndex]}
                  ELSE answers

\* Newly committed entries of n, for the history.
Commit(n, l, index) ==
    /\ commitIndex' = [commitIndex EXCEPT ![n] = index]
    /\ committed' = committed \cup
         {Get(l, i) : i \in Max({commitIndex[n], SnapshotIndex(l)}) + 1 .. index}

\* A call from a deposed leader is answered with the current term only.
HandleStaleCall(m, delivered) ==
    /\ m \in calls
    /\ Serving(m.to)
    /\ m.term < currentTerm[m.to]
    /\ Answer(m, currentTerm[m.to], FALSE, 0, 0, delivered)
    /\ UNCHANGED <<electionVars, nextIndex, matchIndex, commitIndex, lastApplied,
                   diskLog, snapFile, committed, ledger>>

\* The consistency check of HandleAppendEntries.
PrevMissing(m) == m.prevIndex > 0 /\ Get(log[m.to], m.prevIndex).term = 0
PrevConflicts(m) ==
    /\ m.prevIndex > 0
    /\ Get(log[m.to], m.prevIndex).term \notin {0, m.prevTerm}

RejectAppendEntries(m, delivered) ==
    LET n == m.to
        prev == Get(log[n], m.prevIndex)
    IN  /\ m \in calls /\ m.kind = "Append"
        /\ ObserveLeader(n, m.term, m.from, TRUE)
        /\ UNCHANGED log
        /\ \/ /\ PrevMissing(m)
              /\ Answer(m, m.term, FALSE, 0, LastIndex(log[n]) + 1, delivered)
           \/ /\ PrevConflicts(m)
              /\ Answer(m, m.term, FALSE, prev.term, FirstIndexForTerm(log[n], prev.term),
                        delivered)
        /\ IF m.term > currentTerm[n] THEN PersistLog(n, log[n]) ELSE UNCHANGED diskLog
        /\ UNCHANGED <<nextIndex, matchIndex, commitIndex, lastApplied, snapFile, committed,
                       ledger>>

AcceptAppendEntries(m, delivered) ==
    LET n == m.to
        l == AppendBatch(log[n], m.entries)
    IN  /\ m \in calls /\ m.kind = "Append"
        /\ ObserveLeader(n, m.term, m.from, TRUE)
        /\ ~PrevMissing(m) /\ ~PrevConflicts(m)
        /\ log' = [log EXCEPT ![n] = l]
        /\ IF m.commit > commitIndex[n]
           THEN Commit(n, l, Min({m.commit, LastIndex(l)}))
           ELSE UNCHANGED <<commitIndex, committed>>
        /\ PersistLog(n, l)
        /\ Answer(m, m.term, TRUE, 0, 0, delivered)
        /\ UNCHANGED <<nextIndex, matchIndex, lastApplied, snapFile, leaderLog>>
        /\ acks' = acks \cup {<<n, m.term, m.prevIndex + Len(m.entries)>>}

\* HandleInstallSnapshot of a snapshot that is not newer than ours, and of
\* one that is: save it, compact, raise both indices, persist.
IgnoreSnapshot(m, delivered) ==
    LET n == m.to
    IN  /\ m \in calls /\ m.kind = "Install"
        /\ ObserveLeader(n, m.term, m.from, FALSE)
        /\ m.lastIndex <= SnapshotIndex(log[n])
        /\ UNCHANGED log
        /\ IF m.term > currentTerm[n] THEN PersistLog(n, log[n]) ELSE UNCHANGED diskLog
        /\ Answer(m, m.term, TRUE, 0, 0, delivered)
        /\ UNCHANGED <<nextIndex, matchIndex, commitIndex, lastApplied, snapFile, committed,
                       ledger>>

InstallSnapshot(m, delivered) ==
    LET n == m.to
        l == CompactTo(log[n], m.lastIndex, m.lastTerm)
    IN  /\ m \in calls /\ m.kind = "Install"
        /\ ObserveLeader(n, m.term, m.from, FALSE)
        /\ m.lastIndex > SnapshotIndex(log[n])
        /\ snapFile' = [snapFile EXCEPT ![n] = [index |-> m.lastIndex, term |-> m.lastTerm]]
        /\ log' = [log EXCEPT ![n] = l]
        /\ lastApplied' = [lastApplied EXCEPT ![n] = Max({@, m.lastIndex})]
        /\ commitIndex' = [commitIndex EXCEPT ![n] = Max({@, m.lastIndex})]
        /\ PersistLog(n, l)
        /\ Answer(m, m.term, TRUE, 0, 0, delivered)
        /\ UNCHANGED <<nextIndex, matchIndex, committed, ledger>>

-----------------------------------------------------------------------------
(* The leader's side.                                                      *)

\* Mutant of StepDownOnAnswer: an answer of the node's own term suffices.
StepDownOnAnyAnswer(a) ==
    LET n == a.call.from
    IN  /\ a \in answers
        /\ a.term >= currentTerm[n]
        /\ BecomeFollower(n, a.term)
        /\ PersistLog(n, log[n])
        /\ answers' = answers \ {a}
        /\ UNCHANGED <<log, loaded, spawned, votes, requests, replies, grants, elected,
                       nextIndex, matchIndex, commitIndex, lastApplied, snapFile,
                       calls, committed, ledger>>

\* Any answer with a higher term makes the caller step down.
StepDownOnAnswer(a) ==
    LET n == a.call.from
    IN  /\ a \in answers
        /\ a.term > currentTerm[n]
        /\ BecomeFollower(n, a.term)
        /\ PersistLog(n, log[n])
        /\ answers' = answers \ {a}
        /\ UNCHANGED <<log, loaded, spawned, votes, requests, replies, grants, elected,
                       nextIndex, matchIndex, commitIndex, lastApplied, snapFile,
                       calls, committed, ledger>>

\* An answer to a call of the current leadership.  (One that is stale
\* changes nothing, as if it never arrived.)
CurrentAnswer(a) ==
    LET n == a.call.from
    IN  /\ a \in answers
        /\ a.term <= currentTerm[n]
        /\ state[n] = Leader
        /\ currentTerm[n] = a.call.term
        /\ answers' = answers \ {a}
        /\ UNCHANGED <<electionVars, lastApplied, diskLog, snapFile, calls, ledger>>

\* Mutant of QuorumIndex: one replica short of a majority.
QuorumIndexMinusOne(n, match) ==
    LET Index == [p \in Node |-> IF p = n THEN LastIndex(log[n]) ELSE match[p]]
    IN  CHOOSE i \in {Index[p] : p \in Node} :
          /\ Cardinality({p \in Node : Index[p] >= i}) >= Majority - 1
          /\ Cardinality({p \in Node : Index[p] > i}) < Majority - 1

\* maybeCommit: the majority-th largest replicated index, if it is new and
\* its entry is of the current term.
QuorumIndex(n, match) ==
    LET Index == [p \in Node |-> IF p = n THEN LastIndex(log[n]) ELSE match[p]]
    IN  CHOOSE i \in {Index[p] : p \in Node} :
          /\ Cardinality({p \in Node : Index[p] >= i}) >= Majority
          /\ Cardinality({p \in Node : Index[p] > i}) < Majority

\* Mutant of MaybeCommit: entries of earlier terms are committed by counting.
MaybeCommitAnyTerm(n, match) ==
    LET i == QuorumIndex(n, match)
    IN  IF i > commitIndex[n]
        THEN Commit(n, log[n], i)
        ELSE UNCHANGED <<commitIndex, committed>>

MaybeCommit(n, match) ==
    LET i == QuorumIndex(n, match)
    IN  IF i > commitIndex[n] /\ Get(log[n], i).term = currentTerm[n]
        THEN Commit(n, log[n], i)
        ELSE UNCHANGED <<commitIndex, committed>>

\* Mutant of MatchAfterAccept: the peer is credited with the leader's whole
\* log as it is when the answer arrives.
MatchWholeLog(n, a) == Max({matchIndex[n][a.call.to], LastIndex(log[n])})

MatchAfterAccept(n, a) ==
    Max({matchIndex[n][a.call.to], a.call.prevIndex + Len(a.call.entries)})

\* sendToPeer, accepted: both indices advance, then maybeCommit.
HandleAccepted(a) ==
    LET n == a.call.from
        p == a.call.to
        match == MatchAfterAccept(n, a)
    IN  /\ CurrentAnswer(a)
        /\ a.call.kind = "Append" /\ a.success
        /\ matchIndex' = [matchIndex EXCEPT ![n][p] = match]
        /\ nextIndex' = [nextIndex EXCEPT ![n][p] = match + 1]
        /\ MaybeCommit(n, [matchIndex[n] EXCEPT ![p] = match])

\* sendToPeer, rejected: back up by the follower's hint, never below 1.
NextAfterReject(l, a) ==
    LET found == LastIndexWithTerm(l, a.conflictTerm)
    IN  Max({1, IF a.conflictTerm # 0 /\ found > 0 THEN found + 1 ELSE a.conflictIndex})

HandleRejected(a) ==
    LET n == a.call.from
    IN  /\ CurrentAnswer(a)
        /\ a.call.kind = "Append" /\ ~a.success
        /\ nextIndex' = [nextIndex EXCEPT ![n][a.call.to] = NextAfterReject(log[n], a)]
        /\ UNCHANGED <<matchIndex, commitIndex, committed>>

\* sendSnapshotToPeer: any current answer counts as an installed snapshot;
\* commitIndex is not reconsidered.
HandleInstalled(a) ==
    LET n == a.call.from
        p == a.call.to
        match == Max({matchIndex[n][p], a.call.lastIndex})
    IN  /\ CurrentAnswer(a)
        /\ a.call.kind = "Install"
        /\ matchIndex' = [matchIndex EXCEPT ![n][p] = match]
        /\ nextIndex' = [nextIndex EXCEPT ![n][p] = match + 1]
        /\ UNCHANGED <<commitIndex, committed>>

-----------------------------------------------------------------------------
(* Applying and compacting.                                                *)

\* applyLoop takes the next committed entry.
ApplyEntry(n) ==
    /\ n \in Applying
    /\ loaded[n]
    /\ lastApplied[n] < commitIndex[n]
    /\ lastApplied' = [lastApplied EXCEPT ![n] = @ + 1]
    /\ committed' = committed \cup {Get(log[n], lastApplied[n] + 1)}
    /\ UNCHANGED <<electionVars, nextIndex, matchIndex, commitIndex, diskLog, snapFile,
                   calls, answers, ledger>>

\* TakeSnapshot: save the file, compact through lastApplied, persist.
SnapshotDue(n) == n \in Compacting /\ loaded[n] /\ lastApplied[n] > SnapshotIndex(log[n])
SnapshotAt(n) == [index |-> lastApplied[n], term |-> Get(log[n], lastApplied[n]).term]

TakeSnapshot(n) ==
    LET l == CompactTo(log[n], SnapshotAt(n).index, SnapshotAt(n).term)
    IN  /\ SnapshotDue(n)
        /\ snapFile' = [snapFile EXCEPT ![n] = SnapshotAt(n)]
        /\ OnlyLogChanges(n)
        /\ log' = [log EXCEPT ![n] = l]
        /\ PersistLog(n, l)
        /\ UNCHANGED <<nextIndex, matchIndex, commitIndex, lastApplied, calls, answers,
                       committed, ledger>>

-----------------------------------------------------------------------------
(* Elections, with what they do to the replication state.                  *)

RaftBecomeCandidate(n) ==
    /\ BecomeCandidate(n)
    /\ PersistLog(n, log[n])
    /\ UNCHANGED <<nextIndex, matchIndex, commitIndex, lastApplied, snapFile, calls,
                   answers, committed, ledger>>

RaftStartElection(n, S) == StartElection(n, S) /\ UNCHANGED replicationVars

RaftHandleRequestVote(m, delivered) ==
    /\ HandleRequestVote(m, delivered)
    /\ IF HigherTerm(m) \/ Grants(m) THEN PersistLog(m.to, log[m.to]) ELSE UNCHANGED diskLog
    /\ UNCHANGED <<nextIndex, matchIndex, commitIndex, lastApplied, snapFile, calls,
                   answers, committed, ledger>>

RaftStepDownOnVoteReply(r) ==
    /\ StepDownOnVoteReply(r)
    /\ PersistLog(r.cand, log[r.cand])
    /\ UNCHANGED <<nextIndex, matchIndex, commitIndex, lastApplied, snapFile, calls,
                   answers, committed, ledger>>

\* Mutant of ResetTracking: what an earlier leadership knew is kept.
ResetNextIndexOnly(n) ==
    /\ nextIndex' = [nextIndex EXCEPT ![n] = [p \in Node |-> LastIndex(log[n]) + 1]]
    /\ UNCHANGED matchIndex

\* becomeLeader also resets the tracking of every peer.
ResetTracking(n) ==
    /\ nextIndex' = [nextIndex EXCEPT ![n] = [p \in Node |-> LastIndex(log[n]) + 1]]
    /\ matchIndex' = [matchIndex EXCEPT ![n] = [p \in Node |-> 0]]

RaftCountVote(r) ==
    LET n == r.cand
    IN  /\ CountVote(r)
        /\ IF state'[n] = Leader
           THEN /\ ResetTracking(n)
                /\ leaderLog' = [leaderLog EXCEPT ![currentTerm[n]] = log[n]]
           ELSE UNCHANGED <<nextIndex, matchIndex, leaderLog>>
        /\ UNCHANGED <<commitIndex, lastApplied, diskLog, snapFile, calls, answers, committed,
                       acks>>

\* The volatile replication state of a fresh process; nobody waits for the
\* answers to the calls of the old one.
FreshReplication(n) ==
    /\ nextIndex' = [nextIndex EXCEPT ![n] = [p \in Node |-> 0]]
    /\ matchIndex' = [matchIndex EXCEPT ![n] = [p \in Node |-> 0]]
    /\ commitIndex' = [commitIndex EXCEPT ![n] = 0]
    /\ lastApplied' = [lastApplied EXCEPT ![n] = 0]
    /\ answers' = {a \in answers : a.call.from # n}
    /\ UNCHANGED <<committed, ledger>>

Abandon(n, cs) == {IF m.from = n THEN [m EXCEPT !.waiting = FALSE] ELSE m : m \in cs}

RaftRestart(n) ==
    /\ Restart(n)
    /\ FreshReplication(n)
    /\ calls' = Abandon(n, calls)
    /\ UNCHANGED <<diskLog, snapFile>>

RaftCrashInHandleRequestVote(m) ==
    /\ CrashInHandleRequestVote(m)
    /\ FreshReplication(m.to)
    /\ calls' = Abandon(m.to, calls)
    /\ PersistLog(m.to, log[m.to])
    /\ UNCHANGED snapFile

\* A crash between the two files: the snapshot is saved, raft-state.bin still
\* holds the log before compaction.
CrashInTakeSnapshot(n) ==
    /\ SnapshotDue(n)
    /\ snapFile' = [snapFile EXCEPT ![n] = SnapshotAt(n)]
    /\ Restart(n)
    /\ FreshReplication(n)
    /\ calls' = Abandon(n, calls)
    /\ UNCHANGED diskLog

\* Mutant of RestoreIndices: only commitIndex is raised to the snapshot.
RestoreCommitOnly(n) ==
    /\ commitIndex' = [commitIndex EXCEPT ![n] = Max({@, snapFile[n].index})]
    /\ UNCHANGED lastApplied

RestoreIndices(n) ==
    /\ lastApplied' = [lastApplied EXCEPT ![n] = Max({@, snapFile[n].index})]
    /\ commitIndex' = [commitIndex EXCEPT ![n] = Max({@, snapFile[n].index})]

\* loadState, then restoreFromSnapshot.
RaftLoadState(n) ==
    /\ LoadState(n)
    /\ log' = [log EXCEPT ![n] = CompactTo(diskLog[n], snapFile[n].index, snapFile[n].term)]
    /\ RestoreIndices(n)
    /\ UNCHANGED <<nextIndex, matchIndex, diskLog, snapFile, calls, answers, committed,
                   ledger>>

-----------------------------------------------------------------------------

Next ==
    \/ \E n \in Node : RaftBecomeCandidate(n)
    \/ \E n \in Node : \E S \in SUBSET Peers(n) : RaftStartElection(n, S)
    \/ \E m \in requests, d \in BOOLEAN : RaftHandleRequestVote(m, d)
    \/ \E r \in replies : RaftStepDownOnVoteReply(r)
    \/ \E r \in replies : RaftCountVote(r)
    \/ \E n \in Node : \E S \in SUBSET Peers(n) : SendHeartbeats(n, S)
    \/ \E n \in Node : \E S \in SUBSET Peers(n) : TickWithoutQuorum(n, S)
    \/ \E n \in Node, c \in Cmd : \E S \in SUBSET Peers(n) : Submit(n, c, S)
    \/ \E m \in calls, d \in BOOLEAN : HandleStaleCall(m, d)
    \/ \E m \in calls, d \in BOOLEAN : RejectAppendEntries(m, d)
    \/ \E m \in calls, d \in BOOLEAN : AcceptAppendEntries(m, d)
    \/ \E m \in calls, d \in BOOLEAN : IgnoreSnapshot(m, d)
    \/ \E m \in calls, d \in BOOLEAN : InstallSnapshot(m, d)
    \/ \E a \in answers : StepDownOnAnswer(a)
    \/ \E a \in answers : HandleAccepted(a)
    \/ \E a \in answers : HandleRejected(a)
    \/ \E a \in answers : HandleInstalled(a)
    \/ \E n \in Node : ApplyEntry(n)
    \/ \E n \in Node : TakeSnapshot(n)
    \/ \E n \in Node : RaftRestart(n)
    \/ \E m \in requests : RaftCrashInHandleRequestVote(m)
    \/ \E n \in Node : CrashInTakeSnapshot(n)
    \/ \E n \in Node : RaftLoadState(n)

Spec == Init /\ [][Next]_raftVars

-----------------------------------------------------------------------------
(* Properties.                                                             *)

\* Every step of the full node is a step of Election or leaves its variables
\* alone: what is shown of elections there holds of the whole node.
RefinesElection == [][ElectionNext]_electionVars

\* Is entry e in log l, or compacted into its snapshot?
Holds(l, e) == e.index <= SnapshotIndex(l) \/ Get(l, e.index) = e

\* Log Matching: two logs that agree on the term at an index agree from
\* there down to where both are stored, the snapshot boundary included.
LogMatching ==
    \A a, b \in Node : \A i \in 1 .. Min({LastIndex(log[a]), LastIndex(log[b])}) :
        (Get(log[a], i).term = Get(log[b], i).term /\ Get(log[a], i).term # 0) =>
            LET boundary == Max({SnapshotIndex(log[a]), SnapshotIndex(log[b])})
            IN  /\ Get(log[a], boundary).term = Get(log[b], boundary).term
                /\ \A j \in boundary + 1 .. i : Get(log[a], j) = Get(log[b], j)

\* State Machine Safety: what is committed or applied at an index anywhere,
\* ever, is the same entry everywhere, and never the zero entry that get
\* returns for an index it does not have.
StateMachineSafety ==
    \A e, f \in committed : e.index > 0 /\ (e.index = f.index => e = f)

\* Leader Completeness: the leader of the newest term has every entry that
\* was ever committed.
LeaderCompleteness ==
    \A n \in Node :
        (state[n] = Leader /\ \A p \in Node : disk[p].term <= currentTerm[n])
            => \A e \in committed : Holds(log[n], e)

\* A committed entry survives the crash of any minority: a majority has it
\* on disk, in the log or in the snapshot.
CommittedOnMajority ==
    \A e \in committed :
        Cardinality({n \in Node : Holds(diskLog[n], e) \/ e.index <= snapFile[n].index})
            >= Majority

\* What a leader believes a peer has, the peer has on disk, until a newer
\* term may have replaced it.
MatchIndexSound ==
    \A n \in Node : \A p \in Peers(n) :
        (state[n] = Leader /\ disk[p].term <= currentTerm[n]) =>
            \A i \in SnapshotIndex(log[n]) + 1 .. matchIndex[n][p] :
                \/ Holds(diskLog[p], Get(log[n], i))
                \/ i <= snapFile[p].index

\* The snapshot boundary stays in order with the indices around it, whether a
\* node's own snapshot moves it, a leader's, or the files it restarts from: the
\* apply loop never needs an entry that is compacted away, and what
\* raft-state.bin lacks, raft-snapshot.bin has.  And no answer, however late,
\* takes a leader's next index below 1, where PrevLogIndex would wrap around.
IndicesOrdered ==
    /\ \A n \in Node : /\ loaded[n] => SnapshotIndex(log[n]) <= lastApplied[n]
                       /\ SnapshotIndex(diskLog[n]) <= snapFile[n].index
    /\ \A n \in Node : \A p \in Peers(n) : state[n] = Leader => nextIndex[n][p] >= 1

\* A leader's next index is not beyond its log.  Not so when it and a follower
\* compact: a call from before the snapshot that the follower installed is
\* rejected with a hint from the end of a stale suffix (RaftOvershoot.cfg).
NextIndexInLog ==
    \A n \in Node : \A p \in Peers(n) :
        state[n] = Leader => nextIndex[n][p] <= LastIndex(log[n]) + 1

\* Leader Append-Only: while a node leads a term it only appends; compaction
\* may move its snapshot boundary.
LeaderAppendOnly ==
    [][\A n \in Node :
         (/\ state[n] = Leader /\ state'[n] = Leader
          /\ currentTerm'[n] = currentTerm[n]) =>
            /\ LastIndex(log'[n]) >= LastIndex(log[n])
            /\ \A i \in SnapshotIndex(log'[n]) + 1 .. LastIndex(log[n]) :
                  Get(log'[n], i) = Get(log[n], i)]_log

=============================================================================
