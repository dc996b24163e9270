------------------------------ MODULE Election ------------------------------
(***************************************************************************)
(* Leader election of src/raft: terms, votes, roles and their persistence. *)
(*                                                                         *)
(* Every function that runs under the node's mutex is one step.  An        *)
(* election is three kinds of steps of different goroutines: the timer     *)
(* goroutine becomes candidate and spawns startElection; that goroutine    *)
(* reads the term and the log again and sends the requests; one goroutine  *)
(* per peer processes a reply.  Messages are delayed, reordered and lost   *)
(* at will: a request or a reply that will be lost (the reply to a call    *)
(* whose context expired is) is not put on the network, the others arrive  *)
(* at any time or never.                                                   *)
(*                                                                         *)
(* Time is not modelled: an election timer may fire and a pre-vote round   *)
(* may succeed whenever the code would then become candidate.  What the    *)
(* log holds is left open here (any value of LogSpace after a step that    *)
(* writes it); module Raft says what it is.                                *)
(***************************************************************************)
EXTENDS RaftLog, FiniteSets

CONSTANTS
    Node,               \* the members; peers of n are the others
    Nil,                \* the empty node ID
    MaxTerm,            \* bound on terms
    Standing,           \* bound: <<n, t>> when n may stand for term t
    MaxVoteCalls,       \* bound: RequestVote calls and replies on the network
    Crashing,           \* bound: the nodes that crash and restart
    LogSpace,           \* the logs a node can have
    QuorumLoss,         \* may a leader lose its majority for a whole
                        \* ElectionTimeoutMax, so that checkQuorum fires?
    BootWindow          \* may an RPC be served between process start and
                        \* loadState (the server starts in its own goroutine)?

ASSUME ElectionAssumption ==
    /\ IsFiniteSet(Node) /\ Nil \notin Node
    /\ MaxTerm \in Nat /\ MaxVoteCalls \in Nat
    /\ Standing \subseteq Node \X (1 .. MaxTerm)
    /\ Crashing \subseteq Node
    /\ QuorumLoss \in BOOLEAN /\ BootWindow \in BOOLEAN

ASSUME LogSpaceAssumption ==
    /\ EmptyLog \in LogSpace
    /\ \A l \in LogSpace : LastTerm(l) \in Nat /\ LastIndex(l) \in Nat

VARIABLES
    currentTerm, votedFor, state, leaderID,     \* RaftNode, in memory
    log,                \* RaftNode.log
    disk,               \* currentTerm and votedFor in raft-state.bin
    loaded,             \* has Run finished loadState and restoreFromSnapshot?
    spawned,            \* startElection goroutines that have not started yet
    votes,              \* replies counted for the node's current candidacy:
                        \* pairs <<round, peer>>
    requests,           \* RequestVote calls that have not been handled
    replies,            \* their replies, not yet processed by the caller
    grants,             \* history: <<voter, term, candidate>> of every vote cast
    elected             \* history: <<term, node>> of every becomeLeader

nodeVars == <<currentTerm, votedFor, state, leaderID>>
electionVars == <<nodeVars, log, disk, loaded, spawned, votes, requests,
                  replies, grants, elected>>

Follower == "Follower"
Candidate == "Candidate"
Leader == "Leader"

Peers(n) == Node \ {n}

\* (len(peers) + 1) / 2 + 1, with every other member a peer.
Majority == Cardinality(Node) \div 2 + 1

Term == 0 .. MaxTerm

\* A round is one run of startElection; round 0 marks a call whose caller
\* died before the reply.
Request == [cand : Node, to : Node, term : Term, round : Nat,
            lastTerm : Nat, lastIndex : Nat]
Reply == [cand : Node, from : Node, term : Term, round : Nat,
          replyTerm : Term, granted : BOOLEAN]

TypeOK ==
    /\ currentTerm \in [Node -> Term]
    /\ votedFor \in [Node -> Node \cup {Nil}]
    /\ state \in [Node -> {Follower, Candidate, Leader}]
    /\ leaderID \in [Node -> Node \cup {Nil}]
    /\ log \in [Node -> LogSpace]
    /\ disk \in [Node -> [term : Term, vote : Node \cup {Nil}]]
    /\ loaded \in [Node -> BOOLEAN]
    /\ spawned \in [Node -> Nat]
    /\ votes \in [Node -> SUBSET (Nat \X Node)]
    /\ requests \subseteq Request
    /\ replies \subseteq Reply
    /\ grants \subseteq Node \X Term \X Node
    /\ elected \subseteq Term \X Node

\* NewRaftNode: a follower in term 0; nothing on disk.
ElectionInit ==
    /\ currentTerm = [n \in Node |-> 0]
    /\ votedFor = [n \in Node |-> Nil]
    /\ state = [n \in Node |-> Follower]
    /\ leaderID = [n \in Node |-> Nil]
    /\ log = [n \in Node |-> EmptyLog]
    /\ disk = [n \in Node |-> [term |-> 0, vote |-> Nil]]
    /\ loaded = [n \in Node |-> TRUE]
    /\ spawned = [n \in Node |-> 0]
    /\ votes = [n \in Node |-> {}]
    /\ requests = {}
    /\ replies = {}
    /\ grants = {}
    /\ elected = {}

-----------------------------------------------------------------------------
(* State transitions.                                                      *)

\* persist, for the two fields elections depend on.
Persist(n, t, v) == disk' = [disk EXCEPT ![n] = [term |-> t, vote |-> v]]

\* Mutants of BecomeFollower: the term is counted up; the leader is not
\* forgotten.
BecomeFollowerNextTerm(n, t) ==
    /\ state' = [state EXCEPT ![n] = Follower]
    /\ currentTerm' = [currentTerm EXCEPT ![n] = t + 1]
    /\ votedFor' = [votedFor EXCEPT ![n] = Nil]
    /\ leaderID' = [leaderID EXCEPT ![n] = Nil]
    /\ Persist(n, t + 1, Nil)

BecomeFollowerKeepsLeader(n, t) ==
    /\ state' = [state EXCEPT ![n] = Follower]
    /\ currentTerm' = [currentTerm EXCEPT ![n] = t]
    /\ votedFor' = [votedFor EXCEPT ![n] = Nil]
    /\ UNCHANGED leaderID
    /\ Persist(n, t, Nil)

\* becomeFollower: whatever the term, the vote is forgotten.
BecomeFollower(n, t) ==
    /\ state' = [state EXCEPT ![n] = Follower]
    /\ currentTerm' = [currentTerm EXCEPT ![n] = t]
    /\ votedFor' = [votedFor EXCEPT ![n] = Nil]
    /\ leaderID' = [leaderID EXCEPT ![n] = Nil]
    /\ Persist(n, t, Nil)

\* An RPC handler runs as soon as the server is registered.
Serving(n) == loaded[n] \/ BootWindow

\* Mutant of UpToDate: the logs are not compared.
UpToDateAlways(m, l) == m.lastIndex >= 0

\* The vote rule on logs: at least as up-to-date as ours.
UpToDate(m, l) ==
    \/ m.lastTerm > LastTerm(l)
    \/ m.lastTerm = LastTerm(l) /\ m.lastIndex >= LastIndex(l)

\* The election timer fired, the pre-vote round succeeded and the re-check
\* passed: becomeCandidate, then spawn startElection.
BecomeCandidate(n) ==
    /\ <<n, currentTerm[n] + 1>> \in Standing
    /\ loaded[n]
    /\ state[n] # Leader
    /\ Peers(n) # {}
    /\ state' = [state EXCEPT ![n] = Candidate]
    /\ currentTerm' = [currentTerm EXCEPT ![n] = @ + 1]
    /\ votedFor' = [votedFor EXCEPT ![n] = n]
    /\ leaderID' = [leaderID EXCEPT ![n] = Nil]
    /\ Persist(n, currentTerm[n] + 1, n)
    /\ spawned' = [spawned EXCEPT ![n] = @ + 1]
    /\ votes' = [votes EXCEPT ![n] = {}]
    /\ grants' = grants \cup {<<n, currentTerm[n] + 1, n>>}
    /\ UNCHANGED <<log, loaded, requests, replies, elected>>

\* startElection reads the term when it runs, in whatever state the node is
\* by then.  Within a term the number of goroutines left only decreases, so
\* it names the round.  S are the peers that the request will reach.
StartElection(n, S) ==
    /\ spawned[n] > 0
    /\ Cardinality(requests) + Cardinality(replies) + Cardinality(S) <= MaxVoteCalls
    /\ spawned' = [spawned EXCEPT ![n] = @ - 1]
    /\ requests' = requests \cup
         {[cand |-> n, to |-> p, term |-> currentTerm[n], round |-> spawned[n],
           lastTerm |-> LastTerm(log[n]), lastIndex |-> LastIndex(log[n])] :
            p \in S}
    /\ UNCHANGED <<nodeVars, log, disk, loaded, votes, replies, grants, elected>>

\* Mutant of HigherTerm: an equal term counts as higher.
HigherOrEqualTerm(m) == m.term >= currentTerm[m.to]

\* HandleRequestVote, the real-vote path: a higher term first makes the node
\* a follower without a vote, then the two voting conditions are tested.
HigherTerm(m) == m.term > currentTerm[m.to]

\* Mutant of Grants: the vote already cast is not looked at.
GrantsIgnoringVote(m) == m.term >= currentTerm[m.to] /\ UpToDate(m, log[m.to])

Grants(m) ==
    /\ m.term >= currentTerm[m.to]
    /\ HigherTerm(m) \/ votedFor[m.to] \in {Nil, m.cand}
    /\ UpToDate(m, log[m.to])

HandleRequestVote(m, delivered) ==
    LET n == m.to
        term == IF HigherTerm(m) THEN m.term ELSE currentTerm[n]
        vote == IF Grants(m) THEN m.cand
                ELSE IF HigherTerm(m) THEN Nil ELSE votedFor[n]
    IN  /\ m \in requests
        /\ Serving(n)
        /\ currentTerm' = [currentTerm EXCEPT ![n] = term]
        /\ votedFor' = [votedFor EXCEPT ![n] = vote]
        /\ state' = [state EXCEPT ![n] = IF HigherTerm(m) THEN Follower ELSE @]
        /\ leaderID' = [leaderID EXCEPT ![n] = IF HigherTerm(m) THEN Nil ELSE @]
        /\ IF HigherTerm(m) \/ Grants(m) THEN Persist(n, term, vote) ELSE UNCHANGED disk
        /\ requests' = requests \ {m}
        /\ delivered => m.round # 0
        /\ replies' = IF delivered
                      THEN replies \cup
                             {[cand |-> m.cand, from |-> n, term |-> m.term,
                               round |-> m.round, replyTerm |-> term,
                               granted |-> Grants(m)]}
                      ELSE replies
        /\ grants' = IF Grants(m) THEN grants \cup {<<n, m.term, m.cand>>} ELSE grants
        /\ UNCHANGED <<log, loaded, spawned, votes, elected>>

\* The votes a round has after counting the reply r, the candidate's included.
Tally(n, r) == 1 + Cardinality({p \in Node : <<r.round, p>> \in votes[n] \cup {<<r.round, r.from>>}})

\* A peer goroutine of startElection processes its reply.  Any higher term
\* makes the node step down, whatever became of the election.
StepDownOnVoteReply(r) ==
    /\ r \in replies
    /\ r.replyTerm > currentTerm[r.cand]
    /\ BecomeFollower(r.cand, r.replyTerm)
    /\ replies' = replies \ {r}
    /\ UNCHANGED <<log, loaded, spawned, votes, requests, grants, elected>>

\* Mutants of CountsFor: a reply of an earlier candidacy counts; a refusal
\* counts.
CountsInAnyTerm(r) == r.granted /\ state[r.cand] = Candidate
CountsRefusal(r) == state[r.cand] = Candidate /\ currentTerm[r.cand] = r.term

\* A reply that is stale or refuses changes nothing, which is the same as
\* never processing it; one that counts may make the candidate leader.
CountsFor(r) == r.granted /\ state[r.cand] = Candidate /\ currentTerm[r.cand] = r.term

CountVote(r) ==
    LET n == r.cand
        wins == Tally(n, r) >= Majority
    IN  /\ r \in replies
        /\ r.replyTerm <= currentTerm[n]
        /\ CountsFor(r)
        /\ votes' = [votes EXCEPT ![n] = @ \cup {<<r.round, r.from>>}]
        /\ state' = [state EXCEPT ![n] = IF wins THEN Leader ELSE @]
        /\ leaderID' = [leaderID EXCEPT ![n] = IF wins THEN n ELSE @]
        /\ elected' = IF wins THEN elected \cup {<<currentTerm[n], n>>} ELSE elected
        /\ replies' = replies \ {r}
        /\ UNCHANGED <<currentTerm, votedFor, log, disk, loaded, spawned, requests, grants>>

\* Mutant of CheckQuorum: the vote is forgotten, the node goes on leading.
CheckQuorumKeepsLeading(n) ==
    /\ QuorumLoss
    /\ state[n] = Leader
    /\ votedFor' = [votedFor EXCEPT ![n] = Nil]
    /\ Persist(n, currentTerm[n], Nil)
    /\ UNCHANGED <<currentTerm, state, leaderID, log, loaded, spawned, votes, requests,
                   replies, grants, elected>>

\* checkQuorum: a leader that has not heard from a majority steps down, in
\* its own term.
CheckQuorum(n) ==
    /\ QuorumLoss
    /\ state[n] = Leader
    /\ BecomeFollower(n, currentTerm[n])
    /\ UNCHANGED <<log, loaded, spawned, votes, requests, replies, grants, elected>>

-----------------------------------------------------------------------------
(* What replication does to the state above.                               *)

\* HandleAppendEntries and HandleInstallSnapshot up to the consistency
\* check, for a sender of term t that is not behind.  Only AppendEntries
\* turns a candidate of the same term into a follower.
ObserveLeader(n, t, leader, isAppend) ==
    LET higher == t > currentTerm[n]
    IN  /\ Serving(n)
        /\ t >= currentTerm[n]
        /\ currentTerm' = [currentTerm EXCEPT ![n] = t]
        /\ votedFor' = [votedFor EXCEPT ![n] = IF higher THEN Nil ELSE @]
        /\ state' = [state EXCEPT ![n] =
                       IF higher \/ (isAppend /\ @ = Candidate) THEN Follower ELSE @]
        /\ leaderID' = [leaderID EXCEPT ![n] = leader]
        /\ IF higher THEN Persist(n, t, Nil) ELSE UNCHANGED disk
        /\ UNCHANGED <<loaded, spawned, votes, requests, replies, grants, elected>>

\* Here the log that results is left open.
SomeLog(n) == \E l \in LogSpace : log' = [log EXCEPT ![n] = l]

\* A leader only sends in the term it was elected in, also in the heartbeat
\* round that follows a checkQuorum step-down.
HearFromLeader(n, e, isAppend) ==
    /\ e[2] # n
    /\ ObserveLeader(n, e[1], e[2], isAppend)
    /\ SomeLog(n)

\* sendToPeer, sendSnapshotToPeer: a reply of a peer that is ahead.  The
\* reply carries a term that peer has reached.
StepDownOnPeerReply(n, t) ==
    /\ loaded[n]
    /\ \E e \in elected : e[2] = n
    /\ \E p \in Peers(n) : t <= disk[p].term
    /\ t > currentTerm[n]
    /\ BecomeFollower(n, t)
    /\ UNCHANGED <<log, loaded, spawned, votes, requests, replies, grants, elected>>

\* Submit, submitConfigLocked, TakeSnapshot: only the log changes.
OnlyLogChanges(n) ==
    /\ loaded[n]
    /\ UNCHANGED <<nodeVars, disk, loaded, spawned, votes, requests, replies, grants, elected>>

-----------------------------------------------------------------------------
(* Crashes.                                                                *)

\* The process of n dies and a new one starts: NewRaftNode on fresh memory.
\* Its goroutines are gone; its calls may still be handled, unanswered.
FreshMemory(n) ==
    /\ currentTerm' = [currentTerm EXCEPT ![n] = 0]
    /\ votedFor' = [votedFor EXCEPT ![n] = Nil]
    /\ state' = [state EXCEPT ![n] = Follower]
    /\ leaderID' = [leaderID EXCEPT ![n] = Nil]
    /\ log' = [log EXCEPT ![n] = EmptyLog]
    /\ loaded' = [loaded EXCEPT ![n] = FALSE]
    /\ spawned' = [spawned EXCEPT ![n] = 0]
    /\ votes' = [votes EXCEPT ![n] = {}]
    /\ replies' = {r \in replies : r.cand # n}
    /\ UNCHANGED <<grants, elected>>

\* The calls of n whose replies nobody waits for any more.
Orphan(n, ms) == {IF m.cand = n THEN [m EXCEPT !.round = 0] ELSE m : m \in ms}

Restart(n) ==
    /\ n \in Crashing
    /\ FreshMemory(n)
    /\ requests' = Orphan(n, requests)
    /\ UNCHANGED disk

\* HandleRequestVote persists twice when the term is higher.  A crash in
\* between leaves the new term on disk without the vote.
CrashInHandleRequestVote(m) ==
    /\ m \in requests
    /\ m.to \in Crashing
    /\ loaded[m.to]
    /\ HigherTerm(m)
    /\ FreshMemory(m.to)
    /\ Persist(m.to, m.term, Nil)
    /\ requests' = Orphan(m.to, requests \ {m})

\* Mutant of LoadState: the term is restored, the vote is not.
LoadStateWithoutVote(n) ==
    /\ ~loaded[n]
    /\ currentTerm' = [currentTerm EXCEPT ![n] = disk[n].term]
    /\ loaded' = [loaded EXCEPT ![n] = TRUE]
    /\ UNCHANGED <<votedFor, state, leaderID, disk, spawned, votes, requests, replies,
                   grants, elected>>

\* Run: loadState and restoreFromSnapshot.
LoadState(n) ==
    /\ ~loaded[n]
    /\ currentTerm' = [currentTerm EXCEPT ![n] = disk[n].term]
    /\ votedFor' = [votedFor EXCEPT ![n] = disk[n].vote]
    /\ loaded' = [loaded EXCEPT ![n] = TRUE]
    /\ UNCHANGED <<state, leaderID, disk, spawned, votes, requests, replies, grants, elected>>

-----------------------------------------------------------------------------

\* Every step while leaders hear from their peers.
QuorateNext ==
    \/ \E n \in Node : BecomeCandidate(n)
    \/ \E n \in Node : \E S \in SUBSET Peers(n) : StartElection(n, S)
    \/ \E m \in requests, d \in BOOLEAN : HandleRequestVote(m, d)
    \/ \E r \in replies : StepDownOnVoteReply(r)
    \/ \E r \in replies : CountVote(r)
    \/ \E n \in Node, e \in elected, isAppend \in BOOLEAN : HearFromLeader(n, e, isAppend)
    \/ \E n \in Node, t \in Term : StepDownOnPeerReply(n, t)
    \/ \E n \in Node : OnlyLogChanges(n) /\ SomeLog(n)
    \/ \E n \in Node : Restart(n)
    \/ \E m \in requests : CrashInHandleRequestVote(m)
    \/ \E n \in Node : LoadState(n) /\ SomeLog(n)

ElectionNext == QuorateNext \/ \E n \in Node : CheckQuorum(n)

ElectionSpec == ElectionInit /\ [][ElectionNext]_electionVars

\* The same when QuorumLoss is FALSE.
QuorateSpec == ElectionInit /\ [][QuorateNext]_electionVars

-----------------------------------------------------------------------------
(* Properties.                                                             *)

\* At any moment at most one node acts as leader in a term: becomeLeader
\* needs a majority of votes, and a node that leads or stands in a term has
\* voted for itself in it.  Holds even when checkQuorum makes leaders forget
\* the vote they were elected with.
AtMostOneActiveLeader ==
    \A a, b \in Node :
        (state[a] = Leader /\ state[b] = Leader /\ currentTerm[a] = currentTerm[b])
            => a = b

\* Election Safety over the whole history (README.md, "Raft guarantees"): no
\* term ever elects two nodes, whatever crashes and delays happen.
ElectionSafety ==
    \A e, f \in elected : e[1] = f[1] => e[2] = f[2]

\* A node votes for at most one candidate per term, across restarts.
OneVotePerTerm ==
    \A g, h \in grants : (g[1] = h[1] /\ g[2] = h[2]) => g[3] = h[3]

\* Whoever was elected had the votes of a majority in that term: no round
\* counts a stale, foreign or repeated reply.
ElectedByMajority ==
    \A e \in elected :
        Cardinality({v \in Node : <<v, e[1], e[2]>> \in grants}) >= Majority

\* The leader a node names (and the HTTP server redirects clients to) was
\* elected in the node's own current term.
LeaderIDWasElected ==
    \A n \in Node : leaderID[n] # Nil => <<currentTerm[n], leaderID[n]>> \in elected

\* What a node promised by persisting it is never taken back: the term on
\* disk does not decrease, and within a term a recorded vote stays.
DurableVote ==
    [][\A n \in Node :
          /\ disk'[n].term >= disk[n].term
          /\ (disk'[n].term = disk[n].term /\ disk[n].vote # Nil)
                => disk'[n].vote = disk[n].vote]_disk

=============================================================================
