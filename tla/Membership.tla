----------------------------- MODULE Membership -----------------------------
(***************************************************************************)
(* Changing the set of servers while the cluster runs: AddPeer, RemovePeer,*)
(* submitConfigLocked and applyConfigEntry of src/raft/node.go, and the    *)
(* elections and the replication that work with the peers each node has at *)
(* the moment.                                                             *)
(*                                                                         *)
(* A node's majority is counted over its own peers and itself.  An added   *)
(* peer counts on the leader when the entry is appended and elsewhere when *)
(* it is applied; a removed one leaves everywhere when the entry is        *)
(* applied.  The configured peers are in no log and no snapshot: a server  *)
(* that joins with an empty list learns only of servers added later, and a *)
(* restart goes back to the configured list.                               *)
(*                                                                         *)
(* Only the peers are new here, so calls and elections are coarser than in *)
(* Raft and Election: a call, its handling and its answer (which may be    *)
(* lost) are one step, nextIndex, pre-vote and checkQuorum are left out and *)
(* no log is compacted.                                                    *)
(***************************************************************************)
EXTENDS RaftLog

CONSTANTS
    Server,             \* every server there will be
    Founders,           \* the ones configured as each other's peers
    Cmd,                \* client commands
    Nil,                \* no vote
    Standing,           \* bound: <<server, term>> pairs that become candidate
    Restarting,         \* bound: the servers that restart
    Applying,           \* bound: the servers whose apply loop gets to run
    MaxIndex,           \* bound: index of the last entry a leader accepts
    MaxChanges,         \* bound: membership changes that are submitted
    Settled             \* is a change submitted only when everybody applied
                        \* all the entries before it?

ASSUME MembershipAssumption ==
    /\ Founders \subseteq Server /\ IsFiniteSet(Server)
    /\ Nil \notin Server
    /\ Standing \subseteq Server \X Nat /\ Restarting \subseteq Server /\ Applying \subseteq Server
    /\ MaxIndex \in Nat /\ MaxChanges \in Nat /\ Settled \in BOOLEAN

Follower == "Follower"
Candidate == "Candidate"
Leader == "Leader"

Change == [op : {"add", "remove"}, peer : Server]

\* IsConfig tells the entries apart.
ASSUME ChangeAssumption == Cmd \cap Change = {} /\ NoCmd \notin Change

VARIABLES
    currentTerm, votedFor, log,         \* persistent
    state, commitIndex, lastApplied,
    peers,
    matchIndex,                         \* per peer, meaningful on a leader
    round,                              \* the election a candidate runs: whom
                                        \* it asked and who granted
    changes,                            \* number of changes submitted
    elected,                            \* history: <<term, server>>
    committed                           \* history: <<term of the leader, entry>>

persistent == <<currentTerm, votedFor, log>>
history == <<changes, elected, committed>>
vars == <<persistent, state, commitIndex, lastApplied, peers, matchIndex, round, history>>

ConfiguredPeers(n) == IF n \in Founders THEN Founders \ {n} ELSE {}

NoRound == [asked |-> {}, granted |-> {}]

TypeOK ==
    /\ currentTerm \in [Server -> Nat] /\ votedFor \in [Server -> Server \cup {Nil}]
    /\ state \in [Server -> {Follower, Candidate, Leader}]
    /\ commitIndex \in [Server -> 0 .. MaxIndex] /\ lastApplied \in [Server -> 0 .. MaxIndex]
    /\ peers \in [Server -> SUBSET Server]
    /\ matchIndex \in [Server -> [Server -> 0 .. MaxIndex]]
    /\ changes \in 0 .. MaxChanges

Init ==
    /\ currentTerm = [n \in Server |-> 0]
    /\ votedFor = [n \in Server |-> Nil]
    /\ log = [n \in Server |-> EmptyLog]
    /\ state = [n \in Server |-> Follower]
    /\ commitIndex = [n \in Server |-> 0]
    /\ lastApplied = [n \in Server |-> 0]
    /\ peers = [n \in Server |-> ConfiguredPeers(n)]
    /\ matchIndex = [n \in Server |-> [p \in Server |-> 0]]
    /\ round = [n \in Server |-> NoRound]
    /\ changes = 0
    /\ elected = {}
    /\ committed = {}

\* Mutant of Wins: half of the peers instead of half of the cluster.
WinsHalfOfPeers(S, P) == Cardinality(S) + 1 >= Cardinality(P) \div 2 + 1

\* Is S, with the server itself, a majority of the server and its peers P?
Wins(S, P) == Cardinality(S) + 1 >= (Cardinality(P) + 1) \div 2 + 1

-----------------------------------------------------------------------------
(* Elections.                                                              *)

\* The election timer of a server with peers: becomeCandidate, and
\* startElection copies the peers it asks.
Stand(n) ==
    /\ <<n, currentTerm[n] + 1>> \in Standing
    /\ state[n] # Leader
    /\ peers[n] # {}
    /\ currentTerm' = [currentTerm EXCEPT ![n] = @ + 1]
    /\ votedFor' = [votedFor EXCEPT ![n] = n]
    /\ state' = [state EXCEPT ![n] = Candidate]
    /\ round' = [round EXCEPT ![n] = [asked |-> peers[n], granted |-> {}]]
    /\ UNCHANGED <<log, commitIndex, lastApplied, peers, matchIndex, history>>

\* HandleRequestVote on p for candidate n, whoever its peers are.
Grants(p, n) ==
    /\ \/ currentTerm[n] > currentTerm[p]
       \/ currentTerm[n] = currentTerm[p] /\ votedFor[p] \in {Nil, n}
    /\ \/ LastTerm(log[n]) > LastTerm(log[p])
       \/ LastTerm(log[n]) = LastTerm(log[p]) /\ LastIndex(log[n]) >= LastIndex(log[p])

BecomeFollower(p, t) ==
    /\ currentTerm' = [currentTerm EXCEPT ![p] = t]
    /\ votedFor' = [votedFor EXCEPT ![p] = Nil]
    /\ state' = [state EXCEPT ![p] = Follower]
    /\ round' = [round EXCEPT ![p] = NoRound]

\* The vote is granted and counted.  (A vote whose answer is lost helps
\* nobody, and is left out.)
GrantVote(n, p) ==
    LET granted == round[n].granted \cup {p}
        wins == Wins(granted, round[n].asked)
    IN  /\ state[n] = Candidate
        /\ p \in round[n].asked \ round[n].granted
        /\ Grants(p, n)
        /\ currentTerm' = [currentTerm EXCEPT ![p] = currentTerm[n]]
        /\ votedFor' = [votedFor EXCEPT ![p] = n]
        /\ state' = [state EXCEPT ![p] = IF currentTerm[n] > currentTerm[p] THEN Follower ELSE @,
                                  ![n] = IF wins THEN Leader ELSE @]
        /\ round' = [round EXCEPT ![n] = IF wins THEN NoRound ELSE [@ EXCEPT !.granted = granted]]
        /\ matchIndex' = IF wins
                         THEN [matchIndex EXCEPT ![n] = [q \in Server |-> 0]]
                         ELSE matchIndex
        /\ elected' = IF wins THEN elected \cup {<<currentTerm[n], n>>} ELSE elected
        /\ UNCHANGED <<log, commitIndex, lastApplied, peers, changes, committed>>

\* The vote is refused but the newer term is noticed.
RefuseVote(n, p) ==
    /\ state[n] = Candidate
    /\ p \in round[n].asked
    /\ ~Grants(p, n)
    /\ currentTerm[n] > currentTerm[p]
    /\ BecomeFollower(p, currentTerm[n])
    /\ UNCHANGED <<log, commitIndex, lastApplied, peers, matchIndex, history>>

\* Any answer of a newer term makes a candidate or leader step down.
StepDown(n, p) ==
    /\ state[n] # Follower
    /\ p \in peers[n] \cup round[n].asked
    /\ currentTerm[p] > currentTerm[n]
    /\ BecomeFollower(n, currentTerm[p])
    /\ UNCHANGED <<log, commitIndex, lastApplied, peers, matchIndex, history>>

-----------------------------------------------------------------------------
(* The leader's log.                                                       *)

Entry1(n, c) == [term |-> currentTerm[n], index |-> LastIndex(log[n]) + 1, cmd |-> c]

Append1(n, c) ==
    /\ state[n] = Leader
    /\ LastIndex(log[n]) < MaxIndex
    /\ log' = [log EXCEPT ![n] = @ \o <<Entry1(n, c)>>]
    /\ UNCHANGED <<currentTerm, votedFor, state, commitIndex, lastApplied, round, elected,
                   committed>>

Submit(n) ==
    /\ \E c \in Cmd : Append1(n, c)
    /\ UNCHANGED <<peers, matchIndex, changes>>

\* submitConfigLocked, and the caller's patience.
SubmitConfig(n, change) ==
    /\ changes < MaxChanges
    /\ Settled => \A p \in peers[n] \cup {n} :
                    log[p] = log[n] /\ lastApplied[p] = LastIndex(log[n])
    /\ Append1(n, change)
    /\ changes' = changes + 1

\* Mutant of AddPeer: the leader may be told to add itself.
AddAnyPeer(n, a) ==
    /\ a \notin peers[n]
    /\ SubmitConfig(n, [op |-> "add", peer |-> a])
    /\ peers' = [peers EXCEPT ![n] = @ \cup {a}]
    /\ matchIndex' = [matchIndex EXCEPT ![n][a] = 0]

\* Anything but a new server is no change.
AddPeer(n, a) ==
    /\ a \notin peers[n] \cup {n}
    /\ SubmitConfig(n, [op |-> "add", peer |-> a])
    /\ peers' = [peers EXCEPT ![n] = @ \cup {a}]
    /\ matchIndex' = [matchIndex EXCEPT ![n][a] = 0]

\* The leader may remove itself; nobody leaves before the entry is applied.
RemovePeer(n, a) ==
    /\ a \in peers[n] \cup {n}
    /\ SubmitConfig(n, [op |-> "remove", peer |-> a])
    /\ UNCHANGED <<peers, matchIndex>>

\* Mutant of QuorumIndex: the majority of the configured cluster.
QuorumOfFounders(n, match) ==
    Max({i \in 0 .. LastIndex(log[n]) :
           Wins({p \in peers[n] : match[p] >= i}, ConfiguredPeers(n))})

\* maybeCommit: the majority-th largest replicated index, over the peers of
\* the moment, if it is new and its entry is of the current term.
QuorumIndex(n, match) ==
    Max({i \in 0 .. LastIndex(log[n]) : Wins({p \in peers[n] : match[p] >= i}, peers[n])})

CommitAfter(n, match) ==
    LET i == QuorumIndex(n, match)
    IN  IF i > commitIndex[n] /\ Get(log[n], i).term = currentTerm[n] THEN i ELSE commitIndex[n]

\* The leader brings p up to date: wherever the logs turn out to agree, an
\* accepted batch leaves the same log as one that starts at index 1.  The
\* handler does not ask whether it knows the leader; the leader counts the
\* answer, if it arrives, and commits what a majority has.
AppendEntries(n, p, answered) ==
    LET l == AppendBatch(log[p], Tail(log[n]))
        match == IF answered
                 THEN [matchIndex[n] EXCEPT ![p] = Max({@, LastIndex(log[n])})]
                 ELSE matchIndex[n]
        commit == IF answered THEN CommitAfter(n, match) ELSE commitIndex[n]
        newer == currentTerm[n] > currentTerm[p]
    IN  /\ state[n] = Leader
        /\ p \in peers[n]
        /\ currentTerm[p] <= currentTerm[n]
        /\ log' = [log EXCEPT ![p] = l]
        /\ currentTerm' = [currentTerm EXCEPT ![p] = currentTerm[n]]
        /\ votedFor' = IF newer THEN [votedFor EXCEPT ![p] = Nil] ELSE votedFor
        /\ state' = [state EXCEPT ![p] = IF newer \/ @ = Candidate THEN Follower ELSE @]
        /\ matchIndex' = [matchIndex EXCEPT ![n] = match]
        /\ commitIndex' = [commitIndex EXCEPT
                             ![p] = Max({@, Min({commitIndex[n], LastIndex(l)})}),
                             ![n] = commit]
        /\ committed' = committed \cup
             {<<currentTerm[n], Get(log[n], i)>> : i \in commitIndex[n] + 1 .. commit}
        /\ UNCHANGED <<lastApplied, peers, round, changes, elected>>

-----------------------------------------------------------------------------
(* Applying and restarting.                                                *)

\* applyConfigEntry, without the leader's bookkeeping.
PeersAfter(n, change) ==
    IF change.op = "add"
    THEN peers[n] \cup ({change.peer} \ {n})
    ELSE IF change.peer = n THEN {} ELSE peers[n] \ {change.peer}

\* A leader that learns here of a peer starts to track it; a removed peer is
\* not tracked any more; a removed leader stops leading.
ApplyConfig(n, change) ==
    /\ peers' = [peers EXCEPT ![n] = PeersAfter(n, change)]
    /\ matchIndex' = [matchIndex EXCEPT ![n] =
                        [p \in Server |-> IF p \in peers'[n] \cap peers[n] THEN @[p] ELSE 0]]
    /\ state' = [state EXCEPT ![n] = IF change = [op |-> "remove", peer |-> n] /\ @ = Leader
                                     THEN Follower ELSE @]

\* One turn of applyLoop.
Apply(n) ==
    LET e == Get(log[n], lastApplied[n] + 1)
    IN  /\ n \in Applying
        /\ lastApplied[n] < commitIndex[n]
        /\ lastApplied' = [lastApplied EXCEPT ![n] = @ + 1]
        /\ IF e.cmd \in Change
           THEN ApplyConfig(n, e.cmd)
           ELSE UNCHANGED <<peers, matchIndex, state>>
        /\ UNCHANGED <<persistent, commitIndex, round, history>>

\* NewRaftNode with the configured peers, then loadState.
Restart(n) ==
    /\ n \in Restarting
    /\ state' = [state EXCEPT ![n] = Follower]
    /\ commitIndex' = [commitIndex EXCEPT ![n] = 0]
    /\ lastApplied' = [lastApplied EXCEPT ![n] = 0]
    /\ peers' = [peers EXCEPT ![n] = ConfiguredPeers(n)]
    /\ matchIndex' = [matchIndex EXCEPT ![n] = [p \in Server |-> 0]]
    /\ round' = [round EXCEPT ![n] = NoRound]
    /\ UNCHANGED <<persistent, history>>

Next ==
    \/ \E n \in Server : Stand(n)
    \/ \E n, p \in Server : GrantVote(n, p)
    \/ \E n, p \in Server : RefuseVote(n, p)
    \/ \E n, p \in Server : StepDown(n, p)
    \/ \E n \in Server : Submit(n)
    \/ \E n, a \in Server : AddPeer(n, a)
    \/ \E n, a \in Server : RemovePeer(n, a)
    \/ \E n, p \in Server, answered \in BOOLEAN : AppendEntries(n, p, answered)
    \/ \E n \in Server : Apply(n)
    \/ \E n \in Server : Restart(n)

Spec == Init /\ [][Next]_vars

-----------------------------------------------------------------------------
(* Properties.                                                             *)

\* No term elects two servers although they count majorities of different
\* clusters (README.md:739, "no split brain possible").
OneLeaderPerTerm == \A e, f \in elected : e[1] = f[1] => e = f

\* A change loses no committed entry: whoever leads a later term has it.
LeaderKeepsCommitted ==
    \A n \in Server : state[n] = Leader =>
        \A c \in committed : c[1] < currentTerm[n] => Get(log[n], c[2].index) = c[2]

\* A server never counts itself twice (node.go:287-291; "peers never contains
\* self", docs/raft-go-documentation.md:1088).
SelfIsNoPeer == \A n \in Server : n \notin peers[n]

=============================================================================
