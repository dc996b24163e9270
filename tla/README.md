# TLA+ models of the Raft implementation

This directory specifies, model-checks and proves properties of the Raft
library in `src/raft` and of how the programs around it use it. The models are
translated from the Go code, not from the Raft paper: where the code differs
from the paper, the model follows the code, and some of the runs below show
what follows from the difference.

## 1. The system

| part | source | state | operations | talks to |
|---|---|---|---|---|
| replicated log | `raft/log.go` | slice of entries behind a sentinel that stands for everything compacted | `append`, `get`, `slice`, `truncateFrom`, `compactTo`, `firstIndexForTerm` | used under the node's mutex |
| leader election | `raft/election.go`, `raft/node.go` | `currentTerm`, `votedFor`, `state`, `leaderID`, timers | election timer, pre-vote, `becomeCandidate`, `startElection`, `HandleRequestVote`, vote counting, `checkQuorum` | peers by RequestVote; disk by `persist` |
| replication and commitment | `raft/replication.go`, `Submit` in `raft/node.go` | `nextIndex`, `matchIndex`, `commitIndex` | `Submit`, `sendHeartbeats`, `sendToPeer`, `HandleAppendEntries`, `maybeCommit` | peers by AppendEntries; wakes the apply loop |
| snapshots | `raft/snapshot.go` | `snapshotData`, `raft-snapshot.bin` | `TakeSnapshot`, `HandleInstallSnapshot`, `sendSnapshotToPeer`, `restoreFromSnapshot` | peers by InstallSnapshot; apply loop by `snapshotNotifyC` |
| persistence | `raft/persist.go` | `raft-state.bin` | `persist` (tmp, fsync, rename), `loadState` | every operation that changes term, vote or log |
| apply loop | `raft/apply.go` | `lastApplied`, `applyCh` | apply committed entries, restore snapshots, outside the mutex | the state machine, the application |
| membership | `AddPeer`, `RemovePeer`, `applyConfigEntry` in `raft/node.go` | `peers` | single-server changes through the log | all of the above |
| transports | `raft/transport*.go` | connections, down flags | three RPCs over memory, gRPC, HTTP | node handlers |
| key-value store | `kvstore/kvstore.go` | map, `pending` calls by log index | `Set`, `Get`, `Delete`, `Apply`, `Snapshot`, `Restore`, `readApplyCh` | `Submit`, `ApplyCh`, `TakeSnapshot` |
| key-value server | `cmd/kvstore/main.go` | the HTTP addresses of the peers | start-up order, write and admin handlers, redirects | clients, node, store |
| dashboard sidecar | `cmd/sidecar/main.go` | registry of nodes, set of paused nodes | create, stop, restart, pause, unpause, four live scenarios | Docker; `/status` and `/admin` of the nodes |
| tools | `cmd/chaos`, `cmd/readstate` | | run the scenarios, print a state file | |
| chaos | `chaos/*.go` | partitions, drop rules, injected delays | scenarios over an in-memory cluster | transports |
| generated code, dashboard | `proto`, `dashboard` | | | |

What is hard here is that a node is many goroutines around one mutex. The timer
goroutine, one goroutine per started election, one per RequestVote,
AppendEntries or InstallSnapshot call, the RPC handlers, the apply loop and the
application all take the mutex for one step each and act on what they read in an
earlier one. Calls and replies are lost, delayed and reordered; a call whose
context expired may still be handled. Processes crash between any two steps,
also between the two file writes of one operation. `PROJECT.json` lists these
hazards at the lines where they bite, with the properties that cover them.

Correctness of the parts, in the terms of `src/README.md` ("Safety Conditions"):
Election Safety, one vote per term across restarts, Leader Append-Only, Log
Matching, Leader Completeness, State Machine Safety; for the log, that its
offset arithmetic is invisible; for a leader's bookkeeping, that what it
believes a peer has, the peer has on disk.

## 2. Modules

    RaftLog --+- Storage ..> DurableState      the log, its files; the promise
              |
              +- Membership -- MCMembership    changing the set of servers
              |
              Election --- MCElection          terms, votes, roles, crashes
               | | |
               | | PreVote --- MCPreVote       the pre-vote round, loyal followers
               | Gateway ----- MCGateway       HTTP handlers and redirected clients
               Raft --- MCRaft --- MCRaftFive  replication, commitment, snapshots

    ApplyLoop -- KVStore -- MCKVStore          from committed entries to clients

    Sidecar ---- MCSidecar                     containers, registry, scenarios

and the proofs, each of which also EXTENDS the module it is about:

    RaftLogProofs (RaftLog) --+-- StorageProofs (Storage)
                              |
                              +-- MembershipProofs (Membership)
                              |
                              +-- RaftProofs (Raft)   I refines Election, II Log Matching,
                              |                       III commitment, IV indices
    ElectionProofs (Election) +
                              |
                              +-- ServiceProofs (Gateway, PreVote)

    KVStoreProofs (KVStore)                SidecarProofs (Sidecar)

(lines: EXTENDS; dots: INSTANCE with a refinement mapping)

**RaftLog** gives every method of `Log` as an operator on a sequence whose first
element is the sentinel; `AppendBatch` is the loop of `HandleAppendEntries` that
merges a batch and `LastIndexWithTerm` the backward scan of `sendToPeer`. A
command is a model value.

**Storage** is the log of one node in memory and in its two files. Beside the
stored log it keeps `full`, the log that would exist if nothing were ever compacted,
and `snap`, the index compacted through. A call (`Submit`, `HandleAppendEntries`,
`TakeSnapshot`, `HandleInstallSnapshot`) is `Begin`, then for each of its files
`WriteTemporary` (create, encode, fsync) and `Rename`, then `Answer`; every file
operation may fail (`SaveFails`: `saveSnapshot`'s callers give up before anything
changed, `persist`'s do not notice). The directory is never synced, so `disk` is the
sequence of what the files held, from what a power cut would leave to what the node
reads now; `Flush` lets a rename reach the disk. `Kill` and `PowerCut` may come
between any two steps, and `Load` is `loadState` with `restoreFromSnapshot`.

**DurableState** is what a node relies on: a state that is saved in one step before
the answer. `RefinesDurable` says that Storage implements it under the mapping *value*
= the reference log, *saved* = what a restart would load, *past* = what a power cut
may leave. Two files, two renames and a compaction are thus one atomic register;
the one thing it cannot hide is an unnoticed failed save (`AnswerUnsaved`).

**Election** has the variables of a node that elections depend on (same names as
the fields of `RaftNode`), `disk` for `raft-state.bin`, `loaded` for the time
between process start and the end of `loadState`, the goroutines `spawned` by
`becomeCandidate`, the `votes` each round has counted, and the messages. `grants`
and `elected` are history variables: every vote cast, every `becomeLeader`. Each
function body under the mutex is one action:

| action | code |
|---|---|
| `BecomeCandidate` | timer case of `Run`: re-check, `becomeCandidate`, spawn |
| `StartElection` | `startElection` up to the calls; term and log are read here, later than `becomeCandidate` |
| `HandleRequestVote`, `CrashInHandleRequestVote` | the real-vote path; a crash between its two `persist` calls |
| `StepDownOnVoteReply`, `CountVote` | the per-peer goroutine of `startElection`; each round counts on its own |
| `CheckQuorum` | `checkQuorum` when it fires |
| `HearFromLeader`, `StepDownOnPeerReply`, `OnlyLogChanges` | what replication does to these variables; the log that results is any member of `LogSpace` |
| `Restart`, `LoadState` | process death and `NewRaftNode`; `loadState` and `restoreFromSnapshot` in `Run` |

**Raft** EXTENDS Election and conjoins each election action with what it does to
the replication state, and replaces the open steps by the real ones: `Submit`,
`SendHeartbeats`, `TickWithoutQuorum` (`checkQuorum` and the heartbeats the same
tick still sends), the handlers of AppendEntries (`HandleStaleCall`,
`RejectAppendEntries`, `AcceptAppendEntries`) and InstallSnapshot
(`IgnoreSnapshot`, `InstallSnapshot`), the reply side (`StepDownOnAnswer`,
`HandleAccepted`, `HandleRejected`, `HandleInstalled`), `ApplyEntry`,
`TakeSnapshot`, `CrashInTakeSnapshot`, restart and load. A call carries the
arguments that `buildArgsLocked` or `buildSnapshotArgsLocked` built under the
lock; an answer carries the call, because the waiting goroutine still holds its
arguments. `committed` is a history of the entries committed or applied anywhere.
`leaderLog` (the log of each term's leader, as `becomeLeader` found it or `Submit`
left it) and `acks` (who accepted which index in which term) are histories that only
the proofs speak about. No guard and no property of a run reads them, so the
configurations leave them out of the state by `VIEW WithoutLedger`; the numbers of
states are those of the model without them. `RefinesElection`
(`[][ElectionNext]_electionVars`) says that the detailed node implements Election:
since Raft has Election's variables, the refinement mapping is the identity.

**PreVote** EXTENDS Election with what stands between a fired timer and
`becomeCandidate`: `TimerFires`, the round that collects grants, `StandAfterPreVote`
(the goroutine that takes the mutex again), `contact` for `lastLeaderContact`. Of
time only what the code's comparisons tell apart is kept: a `Steady` node hears the
leader it follows often enough, of the others nothing is assumed.

**Gateway** EXTENDS Election with clients that send a write or an admin request to
any node. The handler's two reads (`State`, `LeaderID`) and the call that looks a
third time are separate steps with elections between them; a 307 takes the client
to the node named.

**Membership** gives every server its own `peers`, from the configuration, from
`submitConfigLocked` (an added peer counts at once on the leader) and from
`applyConfigEntry`. Majorities are counted over them. A call with its handling and
its answer is one step, and nothing is compacted: only the peers are new here.

**Sidecar** is the control server of the dashboard. Each handler is a small program
(`job`) whose steps are single docker commands and polls; registry and paused marks
are touched between them, as in the code, and any two handlers may work on one node at
once. Any docker command may fail, and does when the state of its container forbids it.
Three variables are histories: `witness` (who answered all the time since a request
came in), `holds` (which containers a scenario paused and has not tried to resume) and
`overlapped` (the nodes that two requests ever worked on at once).

**ApplyLoop** is one node's way from committed entries to its state machine. What
replication did is abstracted to one growing sequence of committed entries; of the
state machine only the sequence of indices applied to it is kept, of a snapshot
that sequence and the index it is labelled with. The apply goroutine is a program
counter (`select`, `apply`, `send`, `relock`, `sendSnapshot`) with a step between
any two lock operations; `commitNotifyC`, `snapshotNotifyC` and `applyCh` are the
channels with their capacities. **KVStore** EXTENDS it with the clients of `call`
(submit, register, wait, return or time out), `readApplyCh` (route a result, fail
all after a snapshot, copy the map, `TakeSnapshot` with the copy) and process
restarts. A client's command is the index and term `Submit` returned; whether the
entry committed there is its own is decided later by the cluster.

Messages: a call or a reply that is going to be lost is simply not put on the
network (the sets `S`, the flags `delivered`), one that is delayed for ever is
never taken off. Sets make the network unordered. A process that dies takes its
waiting goroutines with it: its calls may be handled (`round = 0`,
`waiting = FALSE`) but nobody processes the reply.

## 3. Runs

| run | instance | checks |
|---|---|---|
| `storage` | 1 command, 2 terms, 3 entries, 1 rename outstanding when a call begins | `StoredIsImage`, `ReadsAgree`, `SnapshotCoversLog`, `RefinesDurable` |
| `election` | 3 nodes, 2 of them stand in terms 1 and 2, 3 vote messages at once, all may crash | all properties of Election, no quorum loss |
| `prevote` | 4 nodes from a leader of term 1, 2 of them steady, 2 probing, 1 crashing, quorum loss | `SteadyLeaderStays` |
| `gateway` | 3 nodes from a leader of term 1, 1 client, n3's address unknown, quorum loss | `RedirectsGoForward`, `AtMostOneActiveLeader`, `ElectedByMajority` |
| `raft` | from a leader of term 1; n2 applies, compacts, crashes and may stand for term 2; 2 entries; quorum loss | `StateMachineSafety`, `LeaderCompleteness`, `CommittedOnMajority`, `MatchIndexSound`, `IndicesOrdered`, `LeaderAppendOnly`, `RefinesElection` |
| `raft_split` | from two leaders with conflicting entries; terms 4 and 5; 2 entries; the voter n3 crashes; no compaction | the figure-8 situations: `LogMatching` and the first four of `raft` |
| `membership` | 3 founders and a fourth server, 1 change at any time, 2 candidates for term 2, n2 restarts | `OneLeaderPerTerm`, `LeaderKeepsCommitted`, `SelfIsNoPeer` |
| `kvstore` | 2 clients, 2 entries, 2 terms, `applyCh` of capacity 1, snapshot every 2 entries, 1 restart, snapshots installed | `AppliedInOrder`, `SuccessIsOwn`, `OneResult`, `CommittedIsApplied` |
| `sidecar` | 3 preset nodes and a dynamic one, 2 handlers with a request each, churn of 2 rounds | `NothingLeftPaused`, `EveryScenarioRestores`, `RegisteredExists`, `KeepsDataWhileServed` |
| `commit_lost` (violation) | from a leader of term 3 | `CommittedOnMajority` with quorum loss |
| `membership_split` (violation) | 3 founders, 2 additions one after the other | `OneLeaderPerTerm` |
| `snapshot_mislabelled` (violation) | snapshot after every entry | `SnapshotHoldsItsIndex` |

Further configurations show single points and can be run by hand, each on the module
named with it: `ElectionTwice.cfg` (MCElection: `ElectionSafety` fails with
quorum loss), `ElectionQuorumLoss.cfg` (MCElection: with it, at most one *active*
leader, for logs of two lengths), `ElectionBoot.cfg` (MCElection: `OneVotePerTerm`
fails with the boot window), `RaftSnapshot.cfg` (MCRaftFive: `LogMatching` fails with
a conflicting snapshot), `RaftOvershoot.cfg` (MCRaft: `NextIndexInLog` fails with a
late call and a snapshot), `KVRestore.cfg` (MCKVStore: `MachineIsCurrent` fails), and on
MCSidecar `SidecarOverlap.cfg` (`ListedWhateverOverlaps` fails when two requests work on
one node), `SidecarWipe.cfg` (`EveryStartWipes` fails: not every start wipes the
volume) and `SidecarSilent.cfg` (`DroppedWasStopped` fails: a paused or starting node is
taken for a stopped one).

Bounds. Three nodes are the smallest cluster with a minority. The bounds are all
CONSTANTS: `Standing` says which node may stand for which term, `MaxVoteCalls`
and `MaxInFlight` how many messages exist at once (with one in flight, messages
are still lost, delayed past any number of other steps, and answered late, but no two
are reordered),
`MaxIndex` the log length, `Crashing`, `Applying`, `Compacting` the nodes that do
so; in KVStore `ChanCap` 1 stands for the 64 slots of `applyCh`, so that it is full
at once, and two entries suffice for a snapshot that is older than what is applied
and for an entry applied before a pending restore. The states the larger runs start from (`InitLed`, `InitSplit`, `InitDeposed`,
`InitStaleSuffix`, `InitStale` in the MC modules) are reachable from `Init` by the steps their
comments name; starting there spends the state space on what follows an election.
In `membership` only n1 and n2 apply, since two nodes whose peers differ are what
matters; in `storage` a third entry is needed for a boundary with an entry on either
side. `prevote` has four nodes because with three a leader that grants pre-votes
itself is enough for one isolated node, so no leader is ever undisputed. In `sidecar`
the initial states are those between two requests, with a dynamic node that exists,
does not, or is unknown to the registry, so that two requests at once are enough.
`CHECK_DEADLOCK FALSE` is set in all but `storage`: bounded terms, entries and
requests mean that an instance runs out of things to do.

Each property of a passing run has a mutant in its module, the bug it would
catch: an operator named after the change (`GrantsIgnoringVote`,
`MaybeCommitAnyTerm`, `CompactToKeepsBoundary`, ...) placed before the definition
it stands for.

What the violations show:

* `checkQuorum` steps down through `becomeFollower(n.currentTerm)`, which clears
  and persists `votedFor` within the term. The former leader may then elect the
  other candidate of the term (`ElectionTwice.cfg`). There is still at most one
  active leader at a time (`gateway`, and proved), but two leaderships of one term
  break what replication relies on: in `commit_lost` a late heartbeat of the first
  makes a follower truncate what it acknowledged to the second. The run `raft`
  allows quorum loss too, but with a single candidate for term 2, so it does not
  reach this case.
* A server that joins starts with no peers and learns only of servers added later:
  in `membership_split` the two added servers know only each other and form a
  majority of their own. With a single change (`membership`) majorities still meet.
* `lastApplied` is raised before `Apply` runs, and `TakeSnapshot` reads it after
  the map was copied: `snapshot_mislabelled`, an entry is compacted away without
  being in the snapshot.
* By hand: the gRPC server is started before `Run` has read the disk
  (`ElectionBoot.cfg`); `compactTo` keeps the suffix after the boundary whatever the
  term of its own boundary entry (`RaftSnapshot.cfg`); a call from before that boundary
  is then answered with a hint from the end of the stale suffix, which takes the
  leader's `nextIndex` beyond its own log until the next rejection brings it back
  (`RaftOvershoot.cfg`); the restore of an installed
  snapshot waits in a channel while `lastApplied` is raised at once
  (`KVRestore.cfg`). Still the state machine never gets an entry twice or out of
  order (`AppliedInOrder`): labels and `lastApplied` only ever run ahead of the
  contents.

What the passing runs show beyond the well-known Raft properties:

* `SteadyLeaderStays`: nodes with a bad connection cannot depose a leader, *if* the
  nodes outside its loyal followers, the leader itself included, are no majority. The
  code needs that proviso: a leader never sets its own `lastLeaderContact` and grants
  pre-votes, so in a cluster of three one isolated node that reaches the leader
  alone can depose it.
* `RedirectsGoForward`: no node sends a client to itself in the term of the redirect
  that brought the client there, whatever changes between the handler's reads. It says no
  more: in a term that elected two nodes a client can go back and forth between them.
* `RefinesDurable`, `SnapshotCoversLog`: writing the snapshot before the compacted
  log makes every crash, power cut and failed save harmless to what was saved.
* `IndicesOrdered`: a node never needs an entry that it compacted away, also when it
  restarts from the snapshot file of one moment and the state file of another.
* `NothingLeftPaused`, `EveryScenarioRestores`: no live scenario ends without having tried
  to resume every container it paused, also when two scenarios or an operator work on the
  same containers, and every scenario ends. A container that docker refuses to resume stays
  paused: `unpauseNode` is tried once, and some callers ignore its error.
* `RegisteredExists` is about nodes that no two requests ever worked on at once. Nothing
  enforces that they do not: the sidecar has no such check, and the dashboard keeps its
  `busy` flag in a table row that disappears when the node stops answering
  (`MembershipPanel.tsx`), while `api.ts` gives up on a request that the sidecar goes on
  with. A stop between `docker run` and `addDynamicNode` of a restart lists a node without
  a container (`SidecarOverlap.cfg`).
* `KeepsDataWhileServed`: a node restarted into a live cluster keeps its volume, as the
  comment in `startPresetNode` says. The comment of `clearNodeData`, the repository's
  README (516-520, 922-924, 1057-1063) and `dashboard/src/docs/diagrams.md` (156-168)
  still describe the older code, which wiped it before every start (`SidecarWipe.cfg`).

Fairness. `KVStore!Spec` assumes weak fairness of the apply goroutine and of the
reader goroutine, each as a whole: both only wait for channels and mutexes that no
step holds for ever, and the Go scheduler runs what is runnable. Nothing is assumed
of clients, of the cluster, or of which ready case a `select` picks. Under it
`CommittedIsApplied` holds: a dropped wake-up is harmless because the pending one,
or the inner loop, picks up the new `commitIndex`. `Sidecar!SidecarSpec` assumes weak
fairness of each handler: a docker command returns, every polling loop has a deadline,
and a handler of `net/http` runs to its end even if the client went away. It assumes
nothing about containers that start or elections. (A sidecar that is killed during a
scenario does leave containers paused.) The other specifications are safety only.

## 4. Proofs

TLAPS proves the following for every set of nodes, clients and commands and every
value of the bounds. The assumptions on constants are those of the modules
(`ElectionAssumption`, `LogSpaceAssumption`, `RaftAssumption`, `StorageAssumption`,
...), which TLC evaluates in every run; what a theorem needs beyond them is in the
last column.

| module | theorem | statement | needs |
|---|---|---|---|
| ElectionProofs | `TypeCorrect` | `[]TypeOK` | |
| | `ActiveLeaderUnique` | `[]AtMostOneActiveLeader` | B |
| | `MajorityElects` | `[]ElectedByMajority` | B |
| | `ReportedLeaderElected` | `[]LeaderIDWasElected` | B |
| | `VotesUnique` | `[]OneVotePerTerm` | B, Q |
| | `ElectionsSafe` | `[]ElectionSafety` | B, Q |
| | `VotesDurable` | `DurableVote` | B, Q |
| RaftProofs | `NodeRefinesElection` | `RefinesElection` | B, L |
| | `NodeImplementsElection` | `Spec => ElectionSpec` | B, L |
| | `NodeActiveLeaderUnique` | `[]AtMostOneActiveLeader` of the detailed node | B, L |
| | `NodeElectionsSafe` | `[]ElectionSafety` of the detailed node | B, Q, L |
| | `LogsMatch` | `[]LogMatching` | B, Q, L, C |
| | `LeadersAppend` | `LeaderAppendOnly` | B, Q, L |
| | `StateMachinesSafe` | `[]StateMachineSafety` | B, Q, L, C |
| | `LeadersComplete` | `[]LeaderCompleteness` | B, Q, L, C |
| | `CommittedDurably` | `[]CommittedOnMajority` | B, Q, L, C |
| | `MatchIndicesSound` | `[]MatchIndexSound` | B, Q, L, C |
| | `IndicesInOrder` | `[]IndicesOrdered` | B, L |
| KVStoreProofs | `StoreTyped` | `[]TypeOK` | |
| | `AppliesInOrder` | `[]AppliedInOrder` | |
| | `SuccessesAreOwn` | `[]SuccessIsOwn` | |
| | `ResultsFit` | `[]OneResult` | |
| StorageProofs | `LogStoredFaithfully` | `[]StoredIsImage` | |
| | `LogReadsAgree` | `[]ReadsAgree` | |
| | `SnapshotsCoverLogs` | `[]SnapshotCoversLog` | |
| | `FilesAreDurable` | `RefinesDurable` | |
| | `AnswersAreSaved` | `[]AnsweredIsSaved` of DurableState, of the files | |
| MembershipProofs | `NeverOwnPeer` | `[]SelfIsNoPeer` | |
| | `SingleChangeIsSafe` | `[]OneLeaderPerTerm` while servers change | 1 |
| | `SingleChangeKeepsCommitted` | `[]LeaderKeepsCommitted` while servers change | 1 |
| SidecarProofs | `RegistryConsistent` | `[]RegisteredExists` | |
| | `DataKeptWhileServed` | `KeepsDataWhileServed` | |
| | `ScenariosLetGo` | `[]NothingLeftPaused` | |
| ServiceProofs | `RedirectsProgress` | `RedirectsGoForward` of Gateway | B |
| | `SteadyLeaderKept` | `SteadyLeaderStays` of PreVote | B |

* **B**, no boot window (`~BootWindow`): no RPC is served before `loadState`. Needed:
  `ElectionBoot.cfg`.
* **Q**, no leader steps down by `checkQuorum` (`~QuorumLoss`). Needed: `ElectionTwice.cfg`
  for `ElectionSafety`, `commit_lost` for what is committed.
* **L**, `EveryLogAllowed`: the set `LogSpace` that Election takes a log from contains
  every well-formed log of at most `MaxIndex` entries. It is no restriction on the
  node: no step of Raft reads `LogSpace`, which is only what Election assumes of the
  part that Raft describes. (The runs use the logs whose terms do not decrease, which
  are the ones that occur.)
* **C**, no node compacts (`Compacting = {}`), so logs start at index 0 and no
  snapshot is sent. For `LogMatching` it is needed: a snapshot that conflicts with the
  follower's suffix breaks it (`RaftSnapshot.cfg`). For the other four it is not known
  to be needed, and little is shown beyond it: of the runs only `raft` compacts, on one
  node, with two entries and one message in flight, too small for a stale suffix.
* **1**, at most one change is ever submitted (`MaxChanges <= 1`), with or without
  patience. Needed: `MembershipTwo.cfg`.

B, Q, L and C together are `Setting` in RaftProofs. Parts I and IV of RaftProofs,
`LeadersAppend`, `NodeElectionsSafe` and StorageProofs cover compaction and snapshots in
full.

**Elections.** None of the properties is inductive. `ElectionInv` conjoins, besides
the types: memory and disk agree on a loaded node (`DiskInSync`); a booting node is
a follower with nothing running (`Booting`); a vote cast for another node is on the
voter's disk until the term there is higher (`GrantsRecorded`); a node standing or
leading has its own vote recorded in its current term (`StandsWithOwnVote`); within a
term, a node casts at most one vote for anybody else (`OneExternalVote`), which
survives `checkQuorum`, because the vote it forgets was for itself; a granting reply
on the network stands for a vote cast (`RepliesSound`); a counted vote of the current
candidacy was cast for it (`VotesSound`); hence a leader has a majority of grants
(`LeaderElected`, `ElectedByMajority`). Two majorities meet (`MajoritiesMeet`, from the
cardinality theorems of the library): the common voter (`CommonVoter`) of two active
leaders of a term would have voted for two others, or leads itself on its own vote.
Without quorum loss `VoteInv` adds that every vote cast in the term on disk is the
one on disk (`AllGrantsRecorded`), so that no second one is ever cast (`OneVote`);
`PromisesKept` is the step lemma, from which Election Safety over the whole
history and `DurableVote` follow.

**The log.** RaftLogProofs has the lemmas about the operators of `log.go` on a
compacted log, from `get` to `compactTo`. The central one is `AppendBatchFacts`: what
the merge loop of `HandleAppendEntries` leaves is the batch on top of the old log, and
the old suffix survives exactly when no entry of the batch conflicts (`MergeResult`).

**The detailed node refines Election** (RaftProofs, part I). That every step of Raft is a step
of Election needs to know that a call on the network was built by an elected leader
for another node (`Sent`, `CallsOK`, `AnswersOK`) and that whatever handlers, loads
and compactions make of a log is again a log of `LogSpace` (`VariablesOK`). This is
`RaftTypeInv`; it includes `ElectionInv`, which the refinement itself then preserves.

**Log Matching** (part II). The invariant `MatchInv` traces every log to the
history `leaderLog`: up to an entry of term *t* a log agrees with `leaderLog[t]`
(`Traced`, for logs in memory, on disk and of the leaders themselves). A call is part of
`leaderLog` of its own term (`FromLeader`), also long after the leader went on or
stepped down, because that history only grows (`TracedGrows`). `MergeAgrees` is the
heart: a batch accepted behind a matching previous entry makes the log agree with the
leader's up to the end of the batch. Two logs with the same term at an index then agree
up to it because both agree with the same leader's log. Leader Append-Only needs less
(`LeaderLogKept`): by Election Safety no call of a leader's own term can come from another
node, so only its own `Submit` and `TakeSnapshot` touch its log.

**What is committed stays** (part III). An entry that a leader made in its own
term is *chosen* when a majority acknowledged it in that term (`Chosen`, from `acks`)
and *blocked* when a majority has moved to a higher term without having done so
(`Blocked`). Blocked is for ever, and the two exclude each other because majorities
meet. `HistoryInv` says that what was acknowledged is still held on disk (`AckHeld`),
that all later leaders have it (`Witness`), and that a candidate has what its voters
acknowledged (`VoteKnows`, from the comparison of logs in `HandleRequestVote` and the
fact that a candidate's log stays the one it advertised, `RequestsOK`), each *unless the
entry is blocked*. That clause makes it inductive: a step needs no knowledge of the
future votes, and `Witness` for a new leader follows from its majority of voters. The
rest of `SafetyInv` ties the code's indices to it: the commit index of a node, and the
one a call carries, are at or below a chosen entry of a term that is not in the future
(`Committable`), a leader's `matchIndex` is backed by acknowledgements (`MatchAcked`),
and everything in `committed` is at or below a chosen entry (`AllRecorded`). The
restriction of `maybeCommit` to entries of the current term is where `Chosen` comes
from.

**Boundaries and indices** (part IV). `OrderInv` has to know more than `IndicesOrdered`
says: the snapshot file also reaches as far as the log in memory, which the next `persist`
writes to disk, and the log on disk is compacted no further than the one in memory
(`BoundaryOK`), or a crash between the two files of `TakeSnapshot` could leave an older
snapshot than the log needs. `commitIndex` is not in it: `HandleAppendEntries` can lower it
when a log was truncated below it, which two leaders of one term can cause.

**The store** (KVStoreProofs). `KVInv` relates the program counter of the apply
goroutine to what it read before it unlocked: the entry in hand is at most
`lastApplied` and above everything in the state machine (`MachineOK`), results on
`applyCh` were applied at committed indices (`DeliveryOK`), and a registered call is in
`pending` at its own index, with an empty channel, or has been answered once
(`RegisteredOK`, `CallOK`). Labels of snapshots and `lastApplied` run ahead of the
contents (`snapshot_mislabelled`), and the invariant says only that: they are never
behind.

**The files** (StorageProofs). `StorageInv` says that the log in memory is the image of
the reference log (`MemOK`); that every pair of files which any prefix of the
outstanding renames leaves can be loaded and gives such an image again (`DiskOK`,
`FilesOK`), the old snapshot with the old log, the new one with either; and what a call
under way has saved so far (`Unsaved`, `Serving`). Each step then maps to one step of
DurableState or a stutter; the rename of `raft-state.bin` is the step that saves.

**Changing servers** (MembershipProofs). `MembershipInv` says that there is a set *D*
of at most one change such that no log holds another one (`LogsOK`), every server has
the configured peers or those the change moves it to (`PeersOK`), and a server that was
never a member has committed nothing and so applies nothing (`OutsideOK`). A candidate
then counts in the founders' cluster or in that cluster with one server more or less
(`PeersAreCluster`), whoever has applied, forgotten or overwritten the change. Majorities
of the two meet (`QuorumsMeet`), and the rest is that votes are given once per term
(`VotedStays`): candidates of a term have disjoint backers (`Rivals`), and whoever was
elected had a majority that backs no other candidate of the term (`ElectedOK`). The
witness *D* changes in one step only, when the change is submitted.

What is committed while servers change needs no history of acknowledgements, because a
call and its answer are one step in Membership: a leader's own `matchIndex` says who has
what. `KeepInv` adds to `MembershipInv` Log Matching (`LogInv`; an entry of the term of a
leader is also in that leader's log) and, for every entry of its own term that a leader
has, an alternative (`EntriesInv`). Either it is `Lost`: a majority of one of the clusters
went on to later terms without it. Or it is `Spread`: whoever the leader counted for it,
every later leader, every candidate of a later term that one of the counted voted for,
and every log that ends in a later term, has it. A vote cannot break the second without
making the first true, since `HandleRequestVote` compares the logs: a candidate that wins
without the entry has a quorum of voters who lack it (`CalmEntries`). A majority that has
the entry contradicts the first (`QuorumsMeet`), so what `maybeCommit` counts is spread;
and from then on the quorum that has it is kept as a witness (`Kept`, `CommittedInv`),
whatever the leader's bookkeeping becomes when it restarts or applies the change. The
steps fall into three kinds, for each of which the three parts are shown to stay: logs
untouched (`Calm`: elections, crashes, applying), a leader appends (`Appends`), a
follower takes a leader's log (`Merges`).

**The sidecar** (SidecarProofs). `SidecarInv` ties each handler's place in its program to
the registry and the containers, for the nodes that are not in `overlapped`: one request at
a time works on such a node (`JobsOK`), its entry is without container only between
`docker rm` and `removeDynamicNode`, it is not listed when it is about to be run, and it
exists when it is about to be registered (`RegistryOK`). Scenarios pause and resume any of
them at any time. Of all nodes, whoever answered all the time since a request came in
answers now (`WitnessOK`), so that the probe of `startPresetNode` cannot have missed it.
`HoldsInv` says where a scenario remembers what it holds: what it paused is the node whose
mark it is about to set or is in `toRestore`, and a node leaves `toRestore` only by an
attempt to resume it.

**Who relies on a leader** (ServiceProofs). Gateway and PreVote take steps of Election, so
`ElectionInv` holds of them; `ServiceInv` adds that a node never stands again in a term it
was elected in, that who names itself leads, and that no reply speaks of a term its sender
has not reached. For redirects, `ClientsOK` says that the node a client was sent to was
elected in the term of the redirect: when it redirects again in that term, it is not
leader any more and cannot name itself. For `SteadyLeaderStays` the loyal followers `Q`
refuse pre-votes, so no round that opens later gets a majority, no term is raised
(`Steadfast`, `StrangerStep`) and the leader keeps its quorum. `PreVoteSpec` is the
specification from `ElectionInit`; the run `prevote` starts from its leader of term 1.

All inductive invariants were checked by TLC on the instances of the runs before they
were proved.

Only model-checked, within the bounds of `raft`: what is committed stays and `matchIndex`
is sound with compacted logs, or with the quorum loss that a single candidate allows.
Liveness (`CommittedIsApplied`, `EveryScenarioRestores`) is out
of the prover's reach and stays with TLC.

## 5. Not modelled, and what the models assume

* Time. In Election any node that is not leader may stand at any moment and, when
  `QuorumLoss` is TRUE, any leader may lose its quorum; PreVote restricts both by
  what the code compares. That a leader is eventually elected or a command
  eventually committed is not claimed: it needs timing assumptions on network and
  clients, and the code appends no entry of its own when a node is elected.
* Disk errors and power cuts are in Storage only. In Election and Raft a write is
  atomic and succeeds; crashes between two writes of one handler are modelled in
  `HandleRequestVote` and `TakeSnapshot`; in `HandleInstallSnapshot` the state after
  such a crash and the load that follows equals that of a crash after it; the first
  `persist` of `HandleAppendEntries` with a higher term followed by a crash is left
  out. What an acknowledged but unsaved vote or entry does to the cluster is not
  modelled.
* Membership changes exist in Membership only; snapshots do not carry the peers,
  which is visible there as servers that join without them. The slice `n.peers` is
  edited in place by `applyConfigEntry` while `sendHeartbeats` may still range over
  it: a data race that is left out. A removed follower that is stopped before it
  learns of the commit keeps its peers, as in the code.
* Snapshot contents in Raft, and replication in ApplyLoop: the two are not composed.
  Operations and values of the key-value store; local reads (`Get`), which change
  no state.
* The boot window is explored in Election only.
* Sidecar: a leader churn looks for its leader in the registry as it is, the code in a copy
  from when the churn began. Whether `add-node` and `remove-node` take effect is the matter of
  Membership. `stopNode` leaves the paused mark of a node, and a pause racing a
  resume can leave a wrong one, so no property relates the marks to docker. The
  listing handlers read only. A sidecar that is killed loses its registry and its
  marks; the initial states include what it leaves of dynamic containers.
* Transports and generated code marshal and connect; what callers rely on (calls and
  answers lost or delayed) is part of the models. The chaos package is a test
  harness: its network, injector and scenarios produce faults the models have, on a
  schedule of sleeps. The state reader and the dashboard keep no state of the system.

## 6. What is left

The system's own logic is modelled, and the safety of elections, replication, single
changes of the servers, files, store, redirects, pre-vote and sidecar is proved in the
settings above. One extension of the proofs is open: compaction in Raft, a weaker
`LogsPlain` under which `compactTo` and InstallSnapshot keep what is committed, so that
`Compacting = {}` can go from the theorems that do not need it. What makes it hard is
the stale suffix that `compactTo` may keep behind an installed snapshot
(`RaftSnapshot.cfg`): such a log is not traced to any leader's, and its node grants votes
by the term of that suffix. The argument would be that such a node was not among those who
acknowledged what the snapshot stands for, so the majority that did still refuses.
