-------------------------- MODULE MembershipProofs --------------------------
(***************************************************************************)
(* Elections and committed entries while the set of servers changes: with  *)
(* at most one change ever submitted, no term elects two servers and every *)
(* later leader has what was committed, although servers count majorities  *)
(* of different clusters, forget what they applied when they restart, and  *)
(* the entry of the change may be overwritten in the log.  And no server   *)
(* becomes a peer of itself, however many changes there are.               *)
(***************************************************************************)
EXTENDS Membership, RaftLogProofs, FiniteSetTheorems

-----------------------------------------------------------------------------
(* The changes submitted so far are a set D of at most one element.        *)

\* A change adds a server that is no founder or removes one that is.
Legal(ch) ==
    /\ ch \in Change
    /\ ch.op = "add" => ch.peer \notin Founders
    /\ ch.op = "remove" => ch.peer \in Founders

ChangesOK(D) ==
    /\ changes \in Nat /\ (changes = 0 => D = {})
    /\ \A ch \in D : Legal(ch)
    /\ \A ch, other \in D : ch = other

\* The peers of a server that applied the change, or submitted it.
Moved(n, ch) ==
    IF ch.op = "add"
    THEN IF n \in Founders THEN ConfiguredPeers(n) \cup {ch.peer} ELSE {}
    ELSE IF n = ch.peer THEN {} ELSE ConfiguredPeers(n) \ {ch.peer}

PeersOK(D) ==
    /\ peers \in [Server -> SUBSET Server]
    /\ \A n \in Server : \/ peers[n] = ConfiguredPeers(n)
                         \/ \E ch \in D : peers[n] = Moved(n, ch)

\* The logs hold no other change.
LogsOK(D) ==
    /\ log \in [Server -> Seq(EntryOf(Cmd \cup D, Nat))]
    /\ \A n \in Server : IsLog(Cmd \cup D, Nat, log[n]) /\ SnapshotIndex(log[n]) = 0

Member(D, n) == n \in Founders \/ \E ch \in D : n = ch.peer

\* Nobody writes to a server that was never a member, so it applies nothing.
OutsideOK(D) ==
    /\ commitIndex = [n \in Server |-> commitIndex[n]]
    /\ lastApplied \in [Server -> Nat]
    /\ \A n \in Server : ~Member(D, n) => commitIndex[n] = 0

RolesOK ==
    /\ currentTerm \in [Server -> Nat] /\ votedFor \in [Server -> Server \cup {Nil}]
    /\ state \in [Server -> {Follower, Candidate, Leader}]
    /\ round \in [Server -> [asked : SUBSET Server, granted : SUBSET Server]]
    /\ \A n \in Server : state[n] # Follower => n \in Founders /\ currentTerm[n] # 0

ConfigInv(D) ==
    ChangesOK(D) /\ PeersOK(D) /\ LogsOK(D) /\ OutsideOK(D) /\ RolesOK

-----------------------------------------------------------------------------
(* Elections.                                                              *)

\* The clusters a candidate may count in, and their majorities.
ClusterAfter(ch) == IF ch.op = "add" THEN Founders \cup {ch.peer} ELSE Founders \ {ch.peer}

Cluster(D, K) == K = Founders \/ \E ch \in D : K = ClusterAfter(ch)

QuorumOf(D, Q) ==
    \E K \in SUBSET Server : Cluster(D, K) /\ Q \subseteq K /\ 2 * Cardinality(Q) > Cardinality(K)

\* Whoever votes for n in term t votes for nobody else in it.
Voted(v, t, n) == currentTerm[v] > t \/ (currentTerm[v] = t /\ votedFor[v] = n)

Backers(n) == round[n].granted \cup {n}

CandidateOK(D, n) ==
    /\ votedFor[n] = n /\ n \notin round[n].asked
    /\ round[n].granted \subseteq round[n].asked
    /\ Cluster(D, round[n].asked \cup {n})
    /\ \A v \in round[n].granted : Voted(v, currentTerm[n], n)

\* Two candidates of a term have no backer in common.
Rivals ==
    \A n, m \in Server :
        (/\ state[n] = Candidate /\ state[m] = Candidate
         /\ currentTerm[n] = currentTerm[m] /\ n # m)
            => Backers(n) \cap Backers(m) = {}

\* A server that was elected had a majority, none of whom backs a candidate
\* of the same term.
BackedBy(t, n, Q) ==
    /\ \A v \in Q : Voted(v, t, n)
    /\ \A m \in Server : (state[m] = Candidate /\ currentTerm[m] = t /\ m # n)
                            => Backers(m) \cap Q = {}

ElectedOK(D) ==
    \A e \in elected :
        /\ e = <<e[1], e[2]>> /\ e[1] \in Nat /\ e[2] \in Server
        /\ \E Q \in SUBSET Server : QuorumOf(D, Q) /\ BackedBy(e[1], e[2], Q)

ElectInv(D) ==
    /\ \A n \in Server : state[n] = Candidate => CandidateOK(D, n)
    /\ Rivals
    /\ ElectedOK(D)
    /\ OneLeaderPerTerm

MembershipInv == \E D \in SUBSET Change : ConfigInv(D) /\ ElectInv(D)

-----------------------------------------------------------------------------
(* A server is never its own peer, however many changes are submitted.     *)

PeersType == peers \in [Server -> SUBSET Server]

\* The only peers a step changes are those of the server that takes it: it
\* appends an addition, applies a change or restarts.
LEMMA PeersStep ==
    ASSUME PeersType, SelfIsNoPeer, [Next]_vars
    PROVE  PeersType' /\ SelfIsNoPeer'
<1> USE DEF PeersType, SelfIsNoPeer
<1>1. CASE peers' = peers
  BY <1>1
<1>2. ASSUME NEW n \in Server, NEW P \in SUBSET Server, n \notin P,
             peers' = [peers EXCEPT ![n] = P]
      PROVE  PeersType' /\ SelfIsNoPeer'
  BY <1>2
<1>3. CASE \E n, a \in Server : AddPeer(n, a)
  <2>1. PICK n, a \in Server : AddPeer(n, a)
    BY <1>3
  <2>2. /\ a \notin peers[n] \cup {n}
        /\ peers' = [peers EXCEPT ![n] = peers[n] \cup {a}]
    BY <2>1 DEF AddPeer
  <2> QED
    BY <1>2, <2>2
<1>4. CASE \E n \in Server : Apply(n)
  <2>1. PICK n \in Server : Apply(n)
    BY <1>4
  <2> DEFINE ch == Get(log[n], lastApplied[n] + 1).cmd
  <2>2. CASE ch \in Change
    <3>1. peers' = [peers EXCEPT ![n] = PeersAfter(n, ch)]
      BY <2>1, <2>2 DEF Apply, ApplyConfig
    <3> HIDE DEF ch
    <3>2. ch.peer \in Server
      BY <2>2 DEF Change
    <3>3. PeersAfter(n, ch) \in SUBSET Server /\ n \notin PeersAfter(n, ch)
      BY <3>2 DEF PeersAfter
    <3> QED
      BY <1>2, <3>1, <3>3
  <2>3. CASE ch \notin Change
    BY <1>1, <2>1, <2>3 DEF Apply
  <2> QED
    BY <2>2, <2>3
<1>5. CASE \E n \in Server : Restart(n)
  <2>1. PICK n \in Server : Restart(n)
    BY <1>5
  <2>2. peers' = [peers EXCEPT ![n] = ConfiguredPeers(n)]
    BY <2>1 DEF Restart
  <2>3. ConfiguredPeers(n) \in SUBSET Server /\ n \notin ConfiguredPeers(n)
    BY MembershipAssumption DEF ConfiguredPeers
  <2> QED
    BY <1>2, <2>2, <2>3
<1>6. CASE \E n \in Server : Stand(n)
  BY <1>1, <1>6 DEF Stand
<1>7. CASE \E n, p \in Server : GrantVote(n, p) \/ RefuseVote(n, p) \/ StepDown(n, p)
  BY <1>1, <1>7 DEF GrantVote, RefuseVote, StepDown
<1>8. CASE \E n \in Server : Submit(n)
  BY <1>1, <1>8 DEF Submit
<1>9. CASE \E n, a \in Server : RemovePeer(n, a)
  BY <1>1, <1>9 DEF RemovePeer
<1>10. CASE \E n, p \in Server, answered \in BOOLEAN : AppendEntries(n, p, answered)
  BY <1>1, <1>10 DEF AppendEntries
<1>11. CASE UNCHANGED vars
  BY <1>1, <1>11 DEF vars
<1> HIDE DEF PeersType, SelfIsNoPeer
<1> QED
  BY <1>3, <1>4, <1>5, <1>6, <1>7, <1>8, <1>9, <1>10, <1>11, Zenon DEF Next

\* No server counts itself twice: neither AddPeer, which a leader may be asked
\* for with its own name, nor an applied configuration entry nor a restart
\* puts a server among its own peers (node.go:287-291).
THEOREM NeverOwnPeer == Spec => []SelfIsNoPeer
<1>1. Init => PeersType /\ SelfIsNoPeer
  BY MembershipAssumption DEF Init, PeersType, SelfIsNoPeer, ConfiguredPeers
<1>2. PeersType /\ SelfIsNoPeer /\ [Next]_vars => PeersType' /\ SelfIsNoPeer'
  BY PeersStep
<1> QED
  BY <1>1, <1>2, PTL DEF Spec

-----------------------------------------------------------------------------
(* Logs, peers and roles follow the one change.                            *)

\* All the lemmas about logs are used with these.
LEMMA LogOf ==
    ASSUME NEW D, LogsOK(D), NEW n \in Server
    PROVE  /\ IsLog(Cmd \cup D, Nat, log[n]) /\ SnapshotIndex(log[n]) = 0
           /\ LastIndex(log[n]) \in Nat
<1>1. IsLog(Cmd \cup D, Nat, log[n]) /\ SnapshotIndex(log[n]) = 0
  BY DEF LogsOK
<1> QED
  BY <1>1, LogFacts

\* A log that holds the changes of D holds those of a larger set.
LEMMA LogsGrow ==
    ASSUME NEW D, NEW E, D \subseteq E, LogsOK(D)
    PROVE  LogsOK(E)
<1>1. ASSUME NEW n \in Server PROVE IsLog(Cmd \cup E, Nat, log[n]) /\ SnapshotIndex(log[n]) = 0
  <2>1. IsLog(Cmd \cup D, Nat, log[n]) /\ SnapshotIndex(log[n]) = 0
    BY DEF LogsOK
  <2>2. EntryOf(Cmd \cup D, Nat) \subseteq EntryOf(Cmd \cup E, Nat)
    BY DEF EntryOf
  <2>3. log[n] \in Seq(EntryOf(Cmd \cup E, Nat))
    <3>1. log[n] \in Seq(EntryOf(Cmd \cup D, Nat))
      BY <2>1 DEF IsLog
    <3> QED
      BY <2>2, <3>1, SeqMonotonic
  <2> QED
    BY <2>1, <2>3 DEF IsLog
<1>2. log \in [Server -> Seq(EntryOf(Cmd \cup E, Nat))]
  BY <1>1 DEF LogsOK, IsLog
<1> QED
  BY <1>1, <1>2 DEF LogsOK

\* An entry a leader appends.
LEMMA LogsAppend ==
    ASSUME NEW D, LogsOK(D), NEW n \in Server, NEW c \in Cmd \cup D,
           currentTerm[n] \in Nat, currentTerm[n] # 0,
           log' = [log EXCEPT ![n] = @ \o <<Entry1(n, c)>>]
    PROVE  LogsOK(D)'
<1> DEFINE e == Entry1(n, c)
           m == log[n] \o <<e>>
<1>1. IsLog(Cmd \cup D, Nat, log[n]) /\ SnapshotIndex(log[n]) = 0 /\ LastIndex(log[n]) \in Nat
  BY LogOf
<1>2. /\ e \in EntryOf(Cmd \cup D, Nat)
      /\ e.index = LastIndex(log[n]) + 1 /\ e.term # 0 /\ e.cmd \in Cmd \cup D
  BY <1>1 DEF Entry1, EntryOf
<1> HIDE DEF e
<1>3. IsLog(Cmd \cup D, Nat, m) /\ SnapshotIndex(m) = 0
  BY <1>1, <1>2, AppendOne
<1>4. log' = [log EXCEPT ![n] = m]
  BY DEF e
<1> HIDE DEF m
<1>5. m \in Seq(EntryOf(Cmd \cup D, Nat))
  BY <1>3 DEF IsLog
<1> QED
  BY <1>3, <1>4, <1>5 DEF LogsOK

\* What the leader sends is a batch that follows the sentinel.
LEMMA WholeLogIsBatch ==
    ASSUME NEW C, NEW l, IsLog(C, Nat, l), SnapshotIndex(l) = 0
    PROVE  IsBatch(C, Nat, 0, Tail(l))
<1>1. l \in Seq(EntryOf(C, Nat)) /\ l # << >> /\ Len(l) \in Nat
  BY DEF IsLog
<1>2. /\ Tail(l) \in Seq(EntryOf(C, Nat)) /\ Len(Tail(l)) = Len(l) - 1
      /\ \A k \in 1 .. Len(Tail(l)) : Tail(l)[k] = l[k + 1]
  BY <1>1, HeadTailProperties
<1>3. ASSUME NEW k \in 1 .. Len(Tail(l))
      PROVE  Tail(l)[k].index = 0 + k /\ Tail(l)[k].term # 0 /\ Tail(l)[k].cmd \in C
  <2>1. k + 1 \in 1 .. Len(l) /\ k + 1 \in 2 .. Len(l) /\ Tail(l)[k] = l[k + 1]
    BY <1>1, <1>2
  <2>2. l[k + 1].index = l[1].index + (k + 1) - 1 /\ l[k + 1].term # 0 /\ l[k + 1].cmd \in C
    BY <2>1 DEF IsLog
  <2>3. l[1].index = 0
    BY DEF SnapshotIndex
  <2> QED
    BY <1>1, <2>1, <2>2, <2>3
<1> QED
  BY <1>2, <1>3 DEF IsBatch

\* A follower that takes a leader's log.
LEMMA LogsMerge ==
    ASSUME NEW D, LogsOK(D), NEW n \in Server, NEW p \in Server,
           log' = [log EXCEPT ![p] = AppendBatch(log[p], Tail(log[n]))]
    PROVE  LogsOK(D)'
<1> DEFINE m == AppendBatch(log[p], Tail(log[n]))
<1>1. IsLog(Cmd \cup D, Nat, log[n]) /\ SnapshotIndex(log[n]) = 0
  BY LogOf
<1>2. IsLog(Cmd \cup D, Nat, log[p]) /\ SnapshotIndex(log[p]) = 0 /\ LastIndex(log[p]) \in Nat
  BY LogOf
<1>3. IsBatch(Cmd \cup D, Nat, 0, Tail(log[n]))
  BY <1>1, WholeLogIsBatch
<1>4. IsLog(Cmd \cup D, Nat, m) /\ MergeResult(log[p], 0, Tail(log[n]), m)
  BY <1>2, <1>3, AppendBatchFacts
<1> HIDE DEF m
<1>5. SnapshotIndex(m) = 0 /\ m \in Seq(EntryOf(Cmd \cup D, Nat))
  BY <1>2, <1>4 DEF MergeResult, IsLog
<1> QED
  BY <1>4, <1>5 DEF LogsOK, m

\* A change that a server finds in its log is the one that was submitted.
LEMMA ChangeIsSubmitted ==
    ASSUME NEW D, LogsOK(D), NEW n \in Server, NEW i \in Nat, i # 0, Get(log[n], i).cmd \in Change
    PROVE  Get(log[n], i).cmd \in D
<1>1. IsLog(Cmd \cup D, Nat, log[n]) /\ SnapshotIndex(log[n]) = 0 /\ LastIndex(log[n]) \in Nat
  BY LogOf
<1>2. CASE i <= LastIndex(log[n])
  <2>1. Get(log[n], i).cmd \in Cmd \cup D
    BY <1>1, <1>2, GetEntry
  <2> QED
    BY <2>1, ChangeAssumption
<1>3. CASE ~(i <= LastIndex(log[n]))
  <2>1. Get(log[n], i) = ZeroEntry
    BY <1>1, <1>3, GetOutside
  <2> QED
    BY <2>1, ChangeAssumption DEF ZeroEntry
<1> QED
  BY <1>2, <1>3

-----------------------------------------------------------------------------
(* The steps.                                                              *)

\* Only a founder has peers to stand with.
LEMMA HasPeers ==
    ASSUME NEW D, ChangesOK(D), PeersOK(D), NEW n \in Server, peers[n] # {}
    PROVE  n \in Founders
<1>1. CASE peers[n] = ConfiguredPeers(n)
  BY <1>1 DEF ConfiguredPeers
<1>2. CASE \E ch \in D : peers[n] = Moved(n, ch)
  BY <1>2 DEF ConfiguredPeers, Moved
<1> QED
  BY <1>1, <1>2 DEF PeersOK

\* So only founders leave the Follower state, and in a term above 0.
LEMMA RolesStep ==
    ASSUME NEW D, ConfigInv(D), [Next]_vars
    PROVE  RolesOK'
<1> USE DEF RolesOK, Follower, Candidate, Leader
<1>0. RolesOK /\ Nil \notin Server /\ PeersOK(D) /\ ChangesOK(D)
  BY MembershipAssumption DEF ConfigInv
<1>p. peers \in [Server -> SUBSET Server]
  BY <1>0 DEF PeersOK
<1>1. ASSUME NEW n \in Server, Stand(n) PROVE RolesOK'
  <2>1. n \in Founders
    BY <1>0, <1>1, HasPeers DEF Stand
  <2> DEFINE r == [asked |-> peers[n], granted |-> {}]
  <2>2. /\ currentTerm' = [currentTerm EXCEPT ![n] = currentTerm[n] + 1]
        /\ votedFor' = [votedFor EXCEPT ![n] = n]
        /\ state' = [state EXCEPT ![n] = Candidate]
        /\ round' = [round EXCEPT ![n] = r]
    BY <1>1 DEF Stand
  <2>3. r \in [asked : SUBSET Server, granted : SUBSET Server]
    BY <1>p
  <2> HIDE DEF r
  <2>4. currentTerm[n] + 1 \in Nat /\ currentTerm[n] + 1 # 0
    BY <1>0
  <2> QED
    BY <1>0, <2>1, <2>2, <2>3, <2>4
<1>2. ASSUME NEW n \in Server, NEW p \in Server, GrantVote(n, p) PROVE RolesOK'
  <2> DEFINE wins == Wins(round[n].granted \cup {p}, round[n].asked)
             r == IF wins THEN NoRound ELSE [round[n] EXCEPT !.granted = round[n].granted \cup {p}]
  <2>1. /\ state[n] = Candidate
        /\ currentTerm' = [currentTerm EXCEPT ![p] = currentTerm[n]]
        /\ votedFor' = [votedFor EXCEPT ![p] = n]
        /\ state' = [state EXCEPT ![p] = IF currentTerm[n] > currentTerm[p] THEN Follower ELSE @,
                                  ![n] = IF wins THEN Leader ELSE @]
        /\ round' = [round EXCEPT ![n] = r]
    BY <1>2 DEF GrantVote
  <2>2. r \in [asked : SUBSET Server, granted : SUBSET Server]
    BY <1>0 DEF NoRound
  <2> HIDE DEF r, wins
  <2>3. round' \in [Server -> [asked : SUBSET Server, granted : SUBSET Server]]
    BY <1>0, <2>1, <2>2
  <2>4. /\ currentTerm' \in [Server -> Nat] /\ votedFor' \in [Server -> Server \cup {Nil}]
        /\ state' \in [Server -> {Follower, Candidate, Leader}]
    BY <1>0, <2>1
  <2>5. ASSUME NEW m \in Server, state'[m] # Follower PROVE m \in Founders /\ currentTerm'[m] # 0
    BY <1>0, <2>1, <2>5
  <2> QED
    BY <2>3, <2>4, <2>5
<1>3. ASSUME NEW n \in Server, NEW t \in Nat, BecomeFollower(n, t) PROVE RolesOK'
  BY <1>0, <1>3 DEF BecomeFollower, NoRound
<1>4. CASE \E n, p \in Server : RefuseVote(n, p)
  BY <1>0, <1>3, <1>4 DEF RefuseVote
<1>5. CASE \E n, p \in Server : StepDown(n, p)
  BY <1>0, <1>3, <1>5 DEF StepDown
<1>6. CASE UNCHANGED <<currentTerm, votedFor, state, round>>
  BY <1>0, <1>6
<1>7. CASE \E n \in Server : Submit(n)
  BY <1>6, <1>7 DEF Submit, Append1
<1>8. CASE \E n, a \in Server : AddPeer(n, a) \/ RemovePeer(n, a)
  BY <1>6, <1>8 DEF AddPeer, RemovePeer, SubmitConfig, Append1
<1>9. ASSUME NEW n \in Server, NEW p \in Server, NEW answered \in BOOLEAN,
             AppendEntries(n, p, answered)
      PROVE  RolesOK'
  <2>1. /\ state[n] = Leader
        /\ currentTerm' = [currentTerm EXCEPT ![p] = currentTerm[n]]
        /\ \/ votedFor' = votedFor
           \/ votedFor' = [votedFor EXCEPT ![p] = Nil]
        /\ \/ state' = state
           \/ state' = [state EXCEPT ![p] = Follower]
        /\ round' = round
    BY <1>0, <1>9 DEF AppendEntries
  <2> QED
    BY <1>0, <2>1
<1>10. ASSUME NEW n \in Server, Apply(n) PROVE RolesOK'
  <2>1. /\ UNCHANGED <<currentTerm, votedFor, round>>
        /\ state' = state \/ state' = [state EXCEPT ![n] = Follower]
    BY <1>0, <1>10 DEF Apply, ApplyConfig, persistent
  <2> QED
    BY <1>0, <2>1
<1>11. CASE \E n \in Server : Restart(n)
  BY <1>0, <1>11 DEF Restart, NoRound, persistent
<1>12. CASE UNCHANGED vars
  BY <1>6, <1>12 DEF vars, persistent
<1> HIDE DEF RolesOK
<1> QED
  BY <1>1, <1>2, <1>4, <1>5, <1>7, <1>8, <1>9, <1>10, <1>11, <1>12, Zenon DEF Next

\* A server that applies the change has the peers it moves to, whether it had
\* them already or went back to the configured ones.
LEMMA AppliedPeers ==
    ASSUME NEW D, ChangesOK(D), PeersOK(D), NEW n \in Server, Member(D, n), NEW ch \in D
    PROVE  PeersAfter(n, ch) = Moved(n, ch)
<1>1. Legal(ch) /\ (\A other \in D : other = ch) /\ ch.op \in {"add", "remove"}
  BY DEF ChangesOK, Legal, Change
<1>2. peers[n] = ConfiguredPeers(n) \/ peers[n] = Moved(n, ch)
  BY <1>1 DEF PeersOK
<1>3. n \in Founders \/ n = ch.peer
  BY <1>1 DEF Member
<1>4. CASE ch.op = "add"
  <2>1. ch.peer \notin Founders
    BY <1>1, <1>4 DEF Legal
  <2> QED
    BY <1>2, <1>3, <1>4, <2>1 DEF PeersAfter, Moved, ConfiguredPeers
<1>5. CASE ch.op = "remove"
  BY <1>2, <1>5 DEF PeersAfter, Moved, ConfiguredPeers
<1> QED
  BY <1>1, <1>4, <1>5

\* A leader has, beside itself, founders and the added server as peers.
LEMMA PeersAreMembers ==
    ASSUME NEW D, ChangesOK(D), PeersOK(D), NEW n \in Server, NEW p \in peers[n]
    PROVE  Member(D, p) /\ p \in Server /\ p # n
<1>0. p \in Server
  BY DEF PeersOK
<1>1. CASE peers[n] = ConfiguredPeers(n)
  BY <1>0, <1>1 DEF ConfiguredPeers, Member
<1>2. ASSUME NEW ch \in D, peers[n] = Moved(n, ch) PROVE Member(D, p) /\ p \in Server /\ p # n
  <2>1. Legal(ch)
    BY DEF ChangesOK
  <2> QED
    BY <1>0, <1>2, <2>1 DEF Moved, ConfiguredPeers, Member, Legal
<1> QED
  BY <1>1, <1>2 DEF PeersOK

\* What may be submitted while nothing was: a leader adds a server outside the
\* founders or removes one of them.
LEMMA FirstChange ==
    ASSUME NEW n \in Server, NEW a \in Server, ConfigInv({}), n \in Founders
    PROVE  /\ peers[n] = Founders \ {n}
           /\ a \notin peers[n] \cup {n} => Legal([op |-> "add", peer |-> a])
           /\ a \in peers[n] \cup {n} => Legal([op |-> "remove", peer |-> a])
<1>1. peers[n] = Founders \ {n}
  BY DEF ConfigInv, PeersOK, ConfiguredPeers
<1> QED
  BY <1>1 DEF Legal, Change

\* The submitted set after the first change.
LEMMA SubmitStep ==
    ASSUME NEW D, ConfigInv(D), changes = 0, NEW n \in Server, state[n] = Leader,
           NEW ch \in Change, Legal(ch), Append1(n, ch), changes' = changes + 1,
           peers' = peers \/ (/\ peers' = [peers EXCEPT ![n] = @ \cup {ch.peer}]
                              /\ ch.op = "add" /\ n \in Founders)
    PROVE  D = {} /\ ConfigInv({ch})'
<1> DEFINE E == {ch}
<1>1. D = {} /\ RolesOK /\ PeersOK({}) /\ LogsOK({}) /\ OutsideOK({})
  BY DEF ConfigInv, ChangesOK
<1>2. ChangesOK(E)'
  BY DEF ChangesOK, Legal
<1>3. PeersOK(E)'
  <2>1. \A m \in Server : peers[m] = ConfiguredPeers(m)
    BY <1>1 DEF PeersOK
  <2>2. peers \in [Server -> SUBSET Server] /\ ch.peer \in Server
    BY <1>1 DEF PeersOK, Change
  <2>3. CASE peers' = peers
    BY <2>1, <2>2, <2>3 DEF PeersOK
  <2>4. CASE /\ peers' = [peers EXCEPT ![n] = @ \cup {ch.peer}]
             /\ ch.op = "add" /\ n \in Founders
    <3>1. peers' \in [Server -> SUBSET Server]
      BY <2>2, <2>4
    <3>2. ASSUME NEW m \in Server PROVE peers'[m] = ConfiguredPeers(m) \/ peers'[m] = Moved(m, ch)
      BY <2>1, <2>2, <2>4 DEF Moved
    <3> QED
      BY <3>1, <3>2 DEF PeersOK
  <2> QED
    BY <2>3, <2>4
<1>4. LogsOK(E)'
  <2>1. LogsOK(E)
    BY <1>1, LogsGrow
  <2>2. ch \in Cmd \cup E /\ currentTerm[n] \in Nat /\ currentTerm[n] # 0
    BY <1>1 DEF RolesOK, Leader, Follower
  <2>3. log' = [log EXCEPT ![n] = @ \o <<Entry1(n, ch)>>]
    BY DEF Append1
  <2> QED
    BY <2>1, <2>2, <2>3, LogsAppend
<1>5. OutsideOK(E)'
  BY <1>1 DEF Append1, OutsideOK, Member
<1>6. RolesOK'
  BY <1>1 DEF Append1, RolesOK
<1> QED
  BY <1>1, <1>2, <1>3, <1>4, <1>5, <1>6 DEF ConfigInv

\* The steps that submit no change.
LEMMA QuietConfigStep ==
    ASSUME NEW D, ConfigInv(D), [Next]_vars,
           ~\E n, a \in Server : AddPeer(n, a) \/ RemovePeer(n, a)
    PROVE  ConfigInv(D)'
<1>0. ChangesOK(D) /\ PeersOK(D) /\ LogsOK(D) /\ OutsideOK(D) /\ RolesOK /\ RolesOK'
  BY RolesStep DEF ConfigInv
<1>1. ASSUME UNCHANGED <<changes, peers, log, commitIndex, lastApplied>> PROVE ConfigInv(D)'
  BY <1>0, <1>1 DEF ConfigInv, ChangesOK, PeersOK, LogsOK, OutsideOK
<1>2. ASSUME UNCHANGED <<changes, peers, commitIndex, lastApplied>>, LogsOK(D)'
      PROVE  ConfigInv(D)'
  BY <1>0, <1>2 DEF ConfigInv, ChangesOK, PeersOK, OutsideOK
<1>3. ASSUME UNCHANGED <<changes, log>>, PeersOK(D)', OutsideOK(D)' PROVE ConfigInv(D)'
  BY <1>0, <1>3 DEF ConfigInv, ChangesOK, LogsOK
<1>4. CASE \E n \in Server : Stand(n)
  BY <1>1, <1>4 DEF Stand, history
<1>5. CASE \E n, p \in Server : GrantVote(n, p)
  BY <1>1, <1>5 DEF GrantVote
<1>6. CASE \E n, p \in Server : RefuseVote(n, p) \/ StepDown(n, p)
  BY <1>1, <1>6 DEF RefuseVote, StepDown, history
<1>7. ASSUME NEW n \in Server, Submit(n) PROVE ConfigInv(D)'
  <2>1. PICK c \in Cmd : Append1(n, c)
    BY <1>7 DEF Submit
  <2>2. currentTerm[n] \in Nat /\ currentTerm[n] # 0 /\ c \in Cmd \cup D
    BY <1>0, <2>1 DEF RolesOK, Append1, Leader, Follower
  <2>3. LogsOK(D)'
    BY <1>0, <2>1, <2>2, LogsAppend DEF Append1
  <2> QED
    BY <1>2, <1>7, <2>1, <2>3 DEF Submit, Append1
<1>8. ASSUME NEW n \in Server, NEW p \in Server, NEW answered \in BOOLEAN,
             AppendEntries(n, p, answered)
      PROVE  ConfigInv(D)'
  <2>1. LogsOK(D)'
    BY <1>0, <1>8, LogsMerge DEF AppendEntries
  <2>2. /\ state[n] = Leader /\ p \in peers[n]
        /\ UNCHANGED <<lastApplied, peers, changes>>
        /\ \E x, y : commitIndex' = [commitIndex EXCEPT ![p] = x, ![n] = y]
    BY <1>8 DEF AppendEntries
  <2>3. Member(D, n) /\ Member(D, p)
    <3>1. n \in Founders
      BY <1>0, <2>2 DEF RolesOK, Leader, Follower
    <3> QED
      BY <1>0, <2>2, <3>1, PeersAreMembers DEF Member
  <2>4. OutsideOK(D)'
    <3>1. PICK x, y : commitIndex' = [commitIndex EXCEPT ![p] = x, ![n] = y]
      BY <2>2
    <3>2. commitIndex' = [m \in Server |-> IF m = n THEN y ELSE IF m = p THEN x ELSE commitIndex[m]]
      BY <1>0, <3>1 DEF OutsideOK
    <3> QED
      BY <1>0, <2>2, <2>3, <3>2 DEF OutsideOK, Member
  <2> QED
    BY <1>0, <2>1, <2>2, <2>4 DEF ConfigInv, ChangesOK, PeersOK
<1>9. ASSUME NEW n \in Server, Apply(n) PROVE ConfigInv(D)'
  <2> DEFINE i == lastApplied[n] + 1
             ch == Get(log[n], i).cmd
  <2>1. i \in Nat /\ i # 0 /\ Member(D, n)
    <3>1. lastApplied[n] \in Nat /\ lastApplied[n] < commitIndex[n]
      BY <1>0, <1>9 DEF OutsideOK, Apply
    <3>2. commitIndex[n] # 0
      BY <3>1
    <3> QED
      BY <1>0, <3>1, <3>2 DEF OutsideOK
  <2>2. OutsideOK(D)'
    BY <1>0, <1>9, <2>1 DEF OutsideOK, Apply, Member
  <2>3. CASE ch \in Change
    <3>1. ch \in D
      BY <1>0, <2>1, <2>3, ChangeIsSubmitted
    <3>2. peers' = [peers EXCEPT ![n] = PeersAfter(n, ch)]
      BY <1>9, <2>3 DEF Apply, ApplyConfig
    <3> HIDE DEF ch
    <3>3. PeersAfter(n, ch) = Moved(n, ch)
      BY <1>0, <2>1, <3>1, AppliedPeers
    <3>4. Moved(n, ch) \in SUBSET Server
      BY <2>3, MembershipAssumption DEF Moved, ConfiguredPeers, Change
    <3>5. PeersOK(D)'
      BY <1>0, <3>1, <3>2, <3>3, <3>4 DEF PeersOK
    <3> QED
      BY <1>3, <1>9, <2>2, <3>5 DEF Apply, persistent, history
  <2>4. CASE ch \notin Change
    <3>1. peers' = peers
      BY <1>9, <2>4 DEF Apply
    <3>2. PeersOK(D)'
      BY <1>0, <3>1 DEF PeersOK
    <3> QED
      BY <1>3, <1>9, <2>2, <3>2 DEF Apply, persistent, history
  <2> QED
    BY <2>3, <2>4
<1>10. ASSUME NEW n \in Server, Restart(n) PROVE ConfigInv(D)'
  <2>1. ConfiguredPeers(n) \in SUBSET Server
    BY MembershipAssumption DEF ConfiguredPeers
  <2>2. PeersOK(D)'
    BY <1>0, <1>10, <2>1 DEF PeersOK, Restart
  <2>3. OutsideOK(D)'
    BY <1>0, <1>10 DEF OutsideOK, Restart, Member
  <2> QED
    BY <1>3, <1>10, <2>2, <2>3 DEF Restart, persistent, history
<1>11. CASE UNCHANGED vars
  BY <1>1, <1>11 DEF vars, persistent, history
<1> QED
  BY <1>4, <1>5, <1>6, <1>7, <1>8, <1>9, <1>10, <1>11, Zenon DEF Next

\* Every step keeps the invariant, for the same change or for the one it
\* submits.
LEMMA ConfigStep ==
    ASSUME MaxChanges <= 1, NEW D \in SUBSET Change, ConfigInv(D), [Next]_vars
    PROVE  \E E \in SUBSET Change : D \subseteq E /\ ConfigInv(E)'
<1>1. CASE ~\E n, a \in Server : AddPeer(n, a) \/ RemovePeer(n, a)
  BY <1>1, QuietConfigStep
<1>2. ASSUME NEW n \in Server, changes < MaxChanges, state[n] = Leader
      PROVE  changes = 0 /\ D = {} /\ n \in Founders
  <2>1. changes \in Nat
    BY DEF ConfigInv, ChangesOK
  <2>2. changes = 0
    BY <1>2, <2>1, MembershipAssumption
  <2> QED
    BY <1>2, <2>2 DEF ConfigInv, ChangesOK, RolesOK, Leader, Follower
<1>3. ASSUME NEW n \in Server, NEW a \in Server, AddPeer(n, a)
      PROVE  \E E \in SUBSET Change : D \subseteq E /\ ConfigInv(E)'
  <2> DEFINE ch == [op |-> "add", peer |-> a]
  <2>1. /\ changes < MaxChanges /\ state[n] = Leader /\ Append1(n, ch) /\ changes' = changes + 1
        /\ a \notin peers[n] \cup {n} /\ peers' = [peers EXCEPT ![n] = @ \cup {a}]
    BY <1>3 DEF AddPeer, SubmitConfig, Append1
  <2>2. changes = 0 /\ D = {} /\ n \in Founders
    BY <1>2, <2>1
  <2>3. Legal(ch) /\ ch \in Change /\ ch.peer = a /\ ch.op = "add"
    BY <2>1, <2>2, FirstChange DEF Change
  <2> HIDE DEF ch
  <2>4. ConfigInv({ch})'
    BY <2>1, <2>2, <2>3, SubmitStep
  <2> QED
    BY <2>2, <2>3, <2>4
<1>4. ASSUME NEW n \in Server, NEW a \in Server, RemovePeer(n, a)
      PROVE  \E E \in SUBSET Change : D \subseteq E /\ ConfigInv(E)'
  <2> DEFINE ch == [op |-> "remove", peer |-> a]
  <2>1. /\ changes < MaxChanges /\ state[n] = Leader /\ Append1(n, ch) /\ changes' = changes + 1
        /\ a \in peers[n] \cup {n} /\ peers' = peers
    BY <1>4 DEF RemovePeer, SubmitConfig, Append1
  <2>2. changes = 0 /\ D = {} /\ n \in Founders
    BY <1>2, <2>1
  <2>3. Legal(ch) /\ ch \in Change
    BY <2>1, <2>2, FirstChange DEF Change
  <2> HIDE DEF ch
  <2>4. ConfigInv({ch})'
    BY <2>1, <2>2, <2>3, SubmitStep
  <2> QED
    BY <2>2, <2>3, <2>4
<1> QED
  BY <1>1, <1>3, <1>4

-----------------------------------------------------------------------------
(* Majorities of the two clusters.                                         *)

\* Two majorities meet when one cluster has at most one server more.
LEMMA NearMajoritiesMeet ==
    ASSUME NEW L, IsFiniteSet(L), NEW K \in SUBSET L, Cardinality(L) <= Cardinality(K) + 1,
           NEW Q \in SUBSET K, 2 * Cardinality(Q) > Cardinality(K),
           NEW R \in SUBSET L, 2 * Cardinality(R) > Cardinality(L)
    PROVE  Q \cap R # {}
<1>1. /\ IsFiniteSet(K) /\ IsFiniteSet(Q) /\ IsFiniteSet(R)
      /\ Cardinality(L) \in Nat /\ Cardinality(K) \in Nat
      /\ Cardinality(Q) \in Nat /\ Cardinality(R) \in Nat
  <2>1. IsFiniteSet(K)
    BY FS_Subset
  <2>2. IsFiniteSet(Q) /\ IsFiniteSet(R)
    BY <2>1, FS_Subset
  <2> QED
    BY <2>1, <2>2, FS_CardinalityType
<1>2. Cardinality(Q \cup R) = Cardinality(Q) + Cardinality(R) - Cardinality(Q \cap R)
  BY <1>1, FS_Union
<1>3. Q \cup R \in SUBSET L
  OBVIOUS
<1>4. IsFiniteSet(Q \cup R) /\ Cardinality(Q \cup R) <= Cardinality(L)
  BY <1>3, FS_Subset
<1>5. Cardinality(Q \cup R) \in Nat
  BY <1>4, FS_CardinalityType
<1>6. SUFFICES ASSUME Q \cap R = {} PROVE FALSE
  OBVIOUS
<1>7. Cardinality(Q \cap R) = 0
  BY <1>6, FS_EmptySet
<1> QED
  BY <1>1, <1>2, <1>4, <1>5, <1>7

\* The change moves one server in or out of the founders.
LEMMA ClustersAreNear ==
    ASSUME NEW ch, Legal(ch)
    PROVE  LET K == ClusterAfter(ch) IN
           /\ IsFiniteSet(Founders) /\ IsFiniteSet(K)
           /\ \/ Founders \subseteq K /\ Cardinality(K) <= Cardinality(Founders) + 1
              \/ K \subseteq Founders /\ Cardinality(Founders) <= Cardinality(K) + 1
<1>1. IsFiniteSet(Founders) /\ Cardinality(Founders) \in Nat
  BY MembershipAssumption, FS_Subset, FS_CardinalityType
<1>2. CASE ch.op = "add"
  <2>1. ClusterAfter(ch) = Founders \cup {ch.peer}
    BY <1>2 DEF ClusterAfter
  <2>2. /\ IsFiniteSet(Founders \cup {ch.peer})
        /\ \/ Cardinality(Founders \cup {ch.peer}) = Cardinality(Founders)
           \/ Cardinality(Founders \cup {ch.peer}) = Cardinality(Founders) + 1
    BY <1>1, FS_AddElement
  <2> QED
    BY <1>1, <2>1, <2>2
<1>3. CASE ch.op # "add"
  <2>1. ClusterAfter(ch) = Founders \ {ch.peer}
    BY <1>3 DEF ClusterAfter
  <2>2. /\ IsFiniteSet(Founders \ {ch.peer})
        /\ \/ Cardinality(Founders \ {ch.peer}) = Cardinality(Founders)
           \/ Cardinality(Founders \ {ch.peer}) = Cardinality(Founders) - 1
    BY <1>1, FS_RemoveElement
  <2> QED
    BY <1>1, <2>1, <2>2
<1> QED
  BY <1>2, <1>3

\* Any two majorities meet, whichever of the two clusters they are of.
LEMMA QuorumsMeet ==
    ASSUME NEW D, ChangesOK(D), NEW Q, NEW R, QuorumOf(D, Q), QuorumOf(D, R)
    PROVE  Q \cap R # {}
<1>1. PICK K \in SUBSET Server : /\ Cluster(D, K) /\ Q \subseteq K
                                 /\ 2 * Cardinality(Q) > Cardinality(K)
  BY DEF QuorumOf
<1>2. PICK L \in SUBSET Server : /\ Cluster(D, L) /\ R \subseteq L
                                 /\ 2 * Cardinality(R) > Cardinality(L)
  BY DEF QuorumOf
<1>3. IsFiniteSet(K) /\ IsFiniteSet(L) /\ Cardinality(K) \in Nat /\ Cardinality(L) \in Nat
  BY MembershipAssumption, FS_Subset, FS_CardinalityType
<1>4. CASE K = L
  <2>1. Cardinality(L) <= Cardinality(K) + 1
    BY <1>3, <1>4
  <2> QED
    BY <1>1, <1>2, <1>3, <1>4, <2>1, NearMajoritiesMeet
<1>5. CASE K # L
  <2>1. PICK ch \in D : \/ K = Founders /\ L = ClusterAfter(ch)
                        \/ L = Founders /\ K = ClusterAfter(ch)
    BY <1>1, <1>2, <1>5 DEF Cluster, ChangesOK
  <2>2. Legal(ch)
    BY DEF ChangesOK
  <2>3. \/ K \subseteq L /\ Cardinality(L) <= Cardinality(K) + 1
        \/ L \subseteq K /\ Cardinality(K) <= Cardinality(L) + 1
    BY <2>1, <2>2, ClustersAreNear
  <2>4. CASE K \subseteq L /\ Cardinality(L) <= Cardinality(K) + 1
    BY <1>1, <1>2, <1>3, <2>4, NearMajoritiesMeet
  <2>5. CASE L \subseteq K /\ Cardinality(K) <= Cardinality(L) + 1
    <3>1. R \cap Q # {}
      BY <1>1, <1>2, <1>3, <2>5, NearMajoritiesMeet
    <3> QED
      BY <3>1
  <2> QED
    BY <2>3, <2>4, <2>5
<1> QED
  BY <1>4, <1>5

\* The server and the peers it has are one of the clusters.
LEMMA PeersAreCluster ==
    ASSUME NEW D, ChangesOK(D), PeersOK(D), NEW n \in Server, peers[n] # {}
    PROVE  Cluster(D, peers[n] \cup {n})
<1>1. n \in Founders
  BY HasPeers
<1>2. CASE peers[n] = ConfiguredPeers(n)
  BY <1>1, <1>2 DEF Cluster, ConfiguredPeers
<1>3. ASSUME NEW ch \in D, peers[n] = Moved(n, ch) PROVE Cluster(D, peers[n] \cup {n})
  <2>1. peers[n] \cup {n} = ClusterAfter(ch)
    BY <1>1, <1>3 DEF Moved, ConfiguredPeers, ClusterAfter
  <2> QED
    BY <2>1 DEF Cluster
<1> QED
  BY <1>2, <1>3 DEF PeersOK

\* Wins counts a majority of the server and the peers it asked.
LEMMA WinsIsQuorum ==
    ASSUME NEW D, NEW n \in Server, NEW A \in SUBSET Server, n \notin A, NEW G \in SUBSET A,
           Cluster(D, A \cup {n}), Wins(G, A)
    PROVE  QuorumOf(D, G \cup {n})
<1>1. IsFiniteSet(A) /\ IsFiniteSet(G)
  <2>1. IsFiniteSet(A)
    BY MembershipAssumption, FS_Subset
  <2> QED
    BY <2>1, FS_Subset
<1>2. Cardinality(A) \in Nat /\ Cardinality(G) \in Nat
  BY <1>1, FS_CardinalityType
<1>3. Cardinality(A \cup {n}) = Cardinality(A) + 1
  BY <1>1, FS_AddElement
<1>4. Cardinality(G \cup {n}) = Cardinality(G) + 1
  BY <1>1, FS_AddElement
<1>5. 2 * (Cardinality(G) + 1) > Cardinality(A) + 1
  BY <1>2 DEF Wins
<1>6. A \cup {n} \in SUBSET Server /\ G \cup {n} \subseteq A \cup {n}
  OBVIOUS
<1> QED
  BY <1>3, <1>4, <1>5, <1>6 DEF QuorumOf

-----------------------------------------------------------------------------
(* Elections.                                                              *)

\* Within a term a vote is given once.
VoteOnce ==
    \A v \in Server :
        \/ currentTerm'[v] > currentTerm[v]
        \/ /\ currentTerm'[v] = currentTerm[v]
           /\ votedFor'[v] = votedFor[v] \/ votedFor[v] = Nil

\* A step that lets nobody stand and counts no vote.
NoCampaign ==
    /\ elected' = elected
    /\ \A n \in Server : state'[n] = Candidate =>
          /\ state[n] = Candidate
          /\ currentTerm'[n] = currentTerm[n] /\ votedFor'[n] = votedFor[n]
          /\ round'[n] = round[n]

\* Who voted for n in term t keeps doing so, or moves on.
LEMMA VotedStays ==
    ASSUME RolesOK, RolesOK', VoteOnce, NEW v \in Server, NEW t \in Nat, NEW n \in Server,
           Voted(v, t, n)
    PROVE  Voted(v, t, n)'
<1>1. currentTerm[v] \in Nat /\ currentTerm'[v] \in Nat /\ n # Nil
  BY MembershipAssumption DEF RolesOK
<1> QED
  BY <1>1 DEF VoteOnce, Voted

\* Every step but Stand and GrantVote is of both kinds.
LEMMA StepKinds ==
    ASSUME RolesOK, [Next]_vars
    PROVE  \/ \E n \in Server : Stand(n)
           \/ \E n, p \in Server : GrantVote(n, p)
           \/ VoteOnce /\ NoCampaign
<1> USE DEF Follower, Candidate, Leader
<1>0. /\ currentTerm \in [Server -> Nat] /\ votedFor \in [Server -> Server \cup {Nil}]
      /\ state \in [Server -> {Follower, Candidate, Leader}]
      /\ DOMAIN round = Server
  BY DEF RolesOK
<1>1. ASSUME UNCHANGED <<currentTerm, votedFor, state, round, elected>> PROVE VoteOnce /\ NoCampaign
  BY <1>1 DEF VoteOnce, NoCampaign
<1>2. ASSUME NEW n \in Server, NEW t \in Nat, t > currentTerm[n], BecomeFollower(n, t),
             elected' = elected
      PROVE  VoteOnce /\ NoCampaign
  BY <1>0, <1>2 DEF BecomeFollower, VoteOnce, NoCampaign
<1>3. CASE \E n, p \in Server : RefuseVote(n, p)
  BY <1>0, <1>2, <1>3 DEF RefuseVote, history
<1>4. CASE \E n, p \in Server : StepDown(n, p)
  BY <1>0, <1>2, <1>4 DEF StepDown, history
<1>5. CASE \E n \in Server : Submit(n)
  BY <1>1, <1>5 DEF Submit, Append1
<1>6. CASE \E n, a \in Server : AddPeer(n, a) \/ RemovePeer(n, a)
  BY <1>1, <1>6 DEF AddPeer, RemovePeer, SubmitConfig, Append1
<1>7. ASSUME NEW n \in Server, NEW p \in Server, NEW answered \in BOOLEAN,
             AppendEntries(n, p, answered)
      PROVE  VoteOnce /\ NoCampaign
  <2>1. /\ currentTerm[p] <= currentTerm[n]
        /\ currentTerm' = [currentTerm EXCEPT ![p] = currentTerm[n]]
        /\ votedFor' = IF currentTerm[n] > currentTerm[p] THEN [votedFor EXCEPT ![p] = Nil]
                                                          ELSE votedFor
        /\ state' = [state EXCEPT ![p] = IF currentTerm[n] > currentTerm[p] \/ @ = Candidate
                                         THEN Follower ELSE @]
        /\ round' = round /\ elected' = elected
    BY <1>7 DEF AppendEntries
  <2>2. VoteOnce
    BY <1>0, <2>1 DEF VoteOnce
  <2>3. NoCampaign
    BY <1>0, <2>1 DEF NoCampaign
  <2> QED
    BY <2>2, <2>3
<1>8. ASSUME NEW n \in Server, Apply(n) PROVE VoteOnce /\ NoCampaign
  <2>1. /\ UNCHANGED <<currentTerm, votedFor, round, elected>>
        /\ state' = state \/ state' = [state EXCEPT ![n] = Follower]
    BY <1>0, <1>8 DEF Apply, ApplyConfig, persistent, history
  <2> QED
    BY <1>0, <2>1 DEF VoteOnce, NoCampaign
<1>9. CASE \E n \in Server : Restart(n)
  BY <1>0, <1>9 DEF Restart, persistent, history, VoteOnce, NoCampaign
<1>10. CASE UNCHANGED vars
  BY <1>1, <1>10 DEF vars, persistent, history
<1> QED
  BY <1>3, <1>4, <1>5, <1>6, <1>7, <1>8, <1>9, <1>10, Zenon DEF Next

\* A larger set of changes has more clusters.
LEMMA QuorumsGrow ==
    ASSUME NEW D, NEW E, D \subseteq E
    PROVE  /\ \A K : Cluster(D, K) => Cluster(E, K)
           /\ \A Q : QuorumOf(D, Q) => QuorumOf(E, Q)
<1>1. \A K : Cluster(D, K) => Cluster(E, K)
  BY DEF Cluster
<1> QED
  BY <1>1 DEF QuorumOf

\* Only candidate c gets a backer, and one who has not voted for another
\* server in that term.
OneCampaign(c) ==
    \A m \in Server, v \in Server :
        (state'[m] = Candidate /\ v \in Backers(m)')
            => \/ /\ state[m] = Candidate /\ currentTerm'[m] = currentTerm[m]
                  /\ v \in Backers(m)
               \/ m = c /\ \A k \in Server : k # m => ~Voted(v, currentTerm'[m], k)

\* The quorum of an elected server stays behind it: no rival's new backer is
\* in it.
LEMMA ElectedStay ==
    ASSUME NEW D, NEW E, D \subseteq E, RolesOK, RolesOK', VoteOnce, ElectedOK(D),
           NEW c, OneCampaign(c), NEW e \in elected
    PROVE  /\ e = <<e[1], e[2]>> /\ e[1] \in Nat /\ e[2] \in Server
           /\ \E Q \in SUBSET Server : QuorumOf(E, Q) /\ BackedBy(e[1], e[2], Q)'
<1>1. /\ e = <<e[1], e[2]>> /\ e[1] \in Nat /\ e[2] \in Server
  BY DEF ElectedOK
<1>2. PICK Q \in SUBSET Server : QuorumOf(D, Q) /\ BackedBy(e[1], e[2], Q)
  BY DEF ElectedOK
<1> DEFINE t == e[1]
           n == e[2]
<1>t. t \in Nat /\ n \in Server /\ BackedBy(t, n, Q)
  BY <1>1, <1>2
<1> HIDE DEF t, n
<1>3. \A v \in Q : Voted(v, t, n)'
  <2> SUFFICES ASSUME NEW v \in Q PROVE Voted(v, t, n)'
    OBVIOUS
  <2>1. v \in Server /\ Voted(v, t, n)
    BY <1>2, <1>t DEF BackedBy
  <2> QED
    BY <1>t, <2>1, VotedStays
<1>4. ASSUME NEW m \in Server, state'[m] = Candidate, currentTerm'[m] = t, m # n,
             NEW v \in Q, v \in Backers(m)'
      PROVE  FALSE
  <2>1. v \in Server /\ Voted(v, t, n)
    BY <1>2, <1>t DEF BackedBy
  <2>2. CASE state[m] = Candidate /\ currentTerm'[m] = currentTerm[m] /\ v \in Backers(m)
    BY <1>4, <1>t, <2>2 DEF BackedBy
  <2>3. CASE \A k \in Server : k # m => ~Voted(v, currentTerm'[m], k)
    BY <1>4, <1>t, <2>1, <2>3
  <2> QED
    BY <1>4, <2>1, <2>2, <2>3 DEF OneCampaign
<1>5. BackedBy(t, n, Q)'
  BY <1>3, <1>4 DEF BackedBy
<1>6. QuorumOf(E, Q)
  BY <1>2, QuorumsGrow
<1> QED
  BY <1>1, <1>5, <1>6 DEF t, n

\* A backer of a candidate voted for it.
LEMMA BackersVoted ==
    ASSUME NEW D, RolesOK, NEW n \in Server, CandidateOK(D, n), NEW v \in Backers(n)
    PROVE  Voted(v, currentTerm[n], n)
BY DEF RolesOK, CandidateOK, Backers, Voted

\* No server backs two candidates of a term.
LEMMA RivalsStay ==
    ASSUME NEW D, RolesOK, RolesOK', ElectInv(D), NEW c, OneCampaign(c)
    PROVE  Rivals'
<1>1. SUFFICES ASSUME NEW n \in Server, NEW m \in Server, n # m,
                      state'[n] = Candidate, state'[m] = Candidate,
                      currentTerm'[n] = currentTerm'[m],
                      NEW v, v \in Backers(n)', v \in Backers(m)'
               PROVE  FALSE
  BY DEF Rivals
<1>2. v \in Server
  BY <1>1 DEF Backers, RolesOK
<1>3. ASSUME NEW k \in Server, state[k] = Candidate, v \in Backers(k)
      PROVE  Voted(v, currentTerm[k], k)
  BY <1>3, BackersVoted DEF ElectInv
<1> DEFINE Old(k) == /\ state[k] = Candidate /\ currentTerm'[k] = currentTerm[k]
                     /\ v \in Backers(k)
           Free(k) == k = c /\ \A j \in Server : j # k => ~Voted(v, currentTerm'[k], j)
<1>4. (Old(n) \/ Free(n)) /\ (Old(m) \/ Free(m))
  BY <1>1, <1>2 DEF OneCampaign
<1>5. CASE Old(n) /\ Old(m)
  BY <1>1, <1>5 DEF ElectInv, Rivals
<1>6. CASE Old(n) /\ Free(m)
  BY <1>1, <1>3, <1>6
<1>7. CASE Free(n) /\ Old(m)
  BY <1>1, <1>3, <1>7
<1>8. CASE Free(n) /\ Free(m)
  BY <1>1, <1>8
<1> QED
  BY <1>4, <1>5, <1>6, <1>7, <1>8

\* A candidate that goes on without a new vote.
LEMMA CandidateStays ==
    ASSUME NEW D, NEW E, D \subseteq E, RolesOK, RolesOK', VoteOnce,
           NEW n \in Server, CandidateOK(D, n),
           currentTerm'[n] = currentTerm[n], votedFor'[n] = votedFor[n], round'[n] = round[n]
    PROVE  CandidateOK(E, n)'
<1>1. \A v \in round[n].granted : Voted(v, currentTerm[n], n)'
  <2> SUFFICES ASSUME NEW v \in round[n].granted PROVE Voted(v, currentTerm[n], n)'
    OBVIOUS
  <2>1. v \in Server /\ currentTerm[n] \in Nat
    BY DEF RolesOK
  <2>2. Voted(v, currentTerm[n], n)
    BY DEF CandidateOK
  <2>3. PICK t \in Nat : t = currentTerm[n]
    BY <2>1
  <2> QED
    BY <2>1, <2>2, <2>3, VotedStays DEF Voted
<1>2. Cluster(E, round[n].asked \cup {n})
  BY QuorumsGrow DEF CandidateOK
<1> QED
  BY <1>1, <1>2 DEF CandidateOK, Voted

\* All but Stand and GrantVote.
LEMMA QuietElectStep ==
    ASSUME NEW D, NEW E, D \subseteq E, RolesOK, RolesOK', ElectInv(D), VoteOnce, NoCampaign
    PROVE  ElectInv(E)'
<1>1. OneCampaign(Nil)
  BY DEF OneCampaign, NoCampaign, Backers
<1>2. Rivals'
  BY <1>1, RivalsStay
<1>3. ElectedOK(E)'
  BY <1>1, ElectedStay DEF ElectedOK, ElectInv, NoCampaign
<1>4. ASSUME NEW n \in Server, state'[n] = Candidate PROVE CandidateOK(E, n)'
  BY <1>4, CandidateStays DEF NoCampaign, ElectInv
<1>5. OneLeaderPerTerm'
  BY DEF ElectInv, OneLeaderPerTerm, NoCampaign
<1> QED
  BY <1>2, <1>3, <1>4, <1>5 DEF ElectInv

\* A server that stands begins a term it has not voted in.
LEMMA StandStep ==
    ASSUME NEW D, NEW E, D \subseteq E, ConfigInv(D), RolesOK', ElectInv(D),
           NEW n \in Server, Stand(n)
    PROVE  ElectInv(E)'
<1>0. RolesOK /\ PeersOK(D) /\ ChangesOK(D) /\ peers[n] # {}
  BY DEF ConfigInv, Stand
<1>1. /\ currentTerm \in [Server -> Nat] /\ votedFor \in [Server -> Server \cup {Nil}]
      /\ DOMAIN state = Server /\ DOMAIN round = Server
  BY <1>0 DEF RolesOK
<1>2. /\ currentTerm' = [currentTerm EXCEPT ![n] = currentTerm[n] + 1]
      /\ votedFor' = [votedFor EXCEPT ![n] = n]
      /\ state' = [state EXCEPT ![n] = Candidate]
      /\ round' = [round EXCEPT ![n] = [asked |-> peers[n], granted |-> {}]]
      /\ elected' = elected
  BY DEF Stand, history
<1>3. VoteOnce
  BY <1>1, <1>2 DEF VoteOnce
<1>4. ASSUME NEW m \in Server, m # n
      PROVE  /\ state'[m] = state[m] /\ round'[m] = round[m]
             /\ currentTerm'[m] = currentTerm[m] /\ votedFor'[m] = votedFor[m]
  BY <1>1, <1>2, <1>4
<1>5. /\ currentTerm'[n] = currentTerm[n] + 1 /\ votedFor'[n] = n
      /\ round'[n].asked = peers[n] /\ round'[n].granted = {}
  BY <1>1, <1>2
<1>6. OneCampaign(n)
  <2>1. \A k \in Server : ~Voted(n, currentTerm'[n], k)
    <3>1. currentTerm[n] \in Nat
      BY <1>1
    <3> QED
      BY <1>5, <3>1 DEF Voted
  <2>2. Backers(n)' = {n}
    BY <1>5 DEF Backers
  <2>3. ASSUME NEW m \in Server, m # n PROVE Backers(m)' = Backers(m)
    BY <1>4, <2>3 DEF Backers
  <2> QED
    BY <1>4, <2>1, <2>2, <2>3 DEF OneCampaign
<1>7. Rivals'
  BY <1>0, <1>6, RivalsStay
<1>8. ElectedOK(E)'
  BY <1>0, <1>2, <1>3, <1>6, ElectedStay DEF ElectedOK, ElectInv
<1>9. ASSUME NEW m \in Server, state'[m] = Candidate PROVE CandidateOK(E, m)'
  <2>1. CASE m # n
    BY <1>0, <1>3, <1>4, <1>9, <2>1, CandidateStays DEF ElectInv
  <2>2. CASE m = n
    <3>1. n \notin peers[n]
      BY <1>0, PeersAreMembers
    <3>2. Cluster(E, peers[n] \cup {n})
      BY <1>0, PeersAreCluster, QuorumsGrow
    <3> QED
      BY <1>5, <2>2, <3>1, <3>2 DEF CandidateOK
  <2> QED
    BY <2>1, <2>2
<1>10. OneLeaderPerTerm'
  BY <1>2 DEF ElectInv, OneLeaderPerTerm
<1> QED
  BY <1>7, <1>8, <1>9, <1>10 DEF ElectInv

\* A vote goes to one candidate of its term; when it decides the election, the
\* winner's majority meets that of any server elected in the term before, who
\* therefore is the winner itself.
LEMMA GrantStep ==
    ASSUME NEW D, NEW E, D \subseteq E, ConfigInv(D), RolesOK', ElectInv(D),
           NEW n \in Server, NEW p \in Server, GrantVote(n, p)
    PROVE  ElectInv(E)'
<1>t. PICK t \in Nat : t = currentTerm[n]
  BY DEF ConfigInv, RolesOK
<1> DEFINE G == round[n].granted \cup {p}
           wins == Wins(G, round[n].asked)
<1>0. RolesOK /\ ChangesOK(D) /\ Nil \notin Server
  BY MembershipAssumption DEF ConfigInv
<1>1. /\ currentTerm \in [Server -> Nat] /\ votedFor \in [Server -> Server \cup {Nil}]
      /\ state \in [Server -> {Follower, Candidate, Leader}]
      /\ round \in [Server -> [asked : SUBSET Server, granted : SUBSET Server]]
  BY <1>0 DEF RolesOK
<1>2. /\ state[n] = Candidate
      /\ p \in round[n].asked /\ Grants(p, n)
      /\ currentTerm' = [currentTerm EXCEPT ![p] = t]
      /\ votedFor' = [votedFor EXCEPT ![p] = n]
      /\ state' = [state EXCEPT ![p] = IF t > currentTerm[p] THEN Follower ELSE @,
                                ![n] = IF wins THEN Leader ELSE @]
      /\ round' = [round EXCEPT ![n] = IF wins THEN NoRound ELSE [@ EXCEPT !.granted = G]]
      /\ elected' = IF wins THEN elected \cup {<<t, n>>} ELSE elected
  BY <1>t DEF GrantVote
<1>3. CandidateOK(D, n) /\ p # n
  BY <1>2 DEF ElectInv, CandidateOK
<1>4. \/ t > currentTerm[p]
      \/ t = currentTerm[p] /\ votedFor[p] \in {Nil, n}
  BY <1>2, <1>t DEF Grants
<1> HIDE DEF wins, G
<1>5. VoteOnce
  BY <1>0, <1>1, <1>2, <1>4 DEF VoteOnce
<1>6. \A k \in Server : k # n => ~Voted(p, t, k)
  BY <1>0, <1>1, <1>4 DEF Voted
<1>7. currentTerm'[n] = t /\ votedFor'[n] = votedFor[n] /\ currentTerm[n] = t
  BY <1>1, <1>2, <1>3, <1>t
<1>8. ASSUME NEW m \in Server, m # n, state'[m] = Candidate
      PROVE  /\ state[m] = Candidate /\ round'[m] = round[m]
             /\ currentTerm'[m] = currentTerm[m] /\ votedFor'[m] = votedFor[m]
  <2>1. CASE m # p
    BY <1>1, <1>2, <1>8, <2>1
  <2>2. CASE m = p
    <3>1. ~(t > currentTerm[p]) /\ state[p] = Candidate
      BY <1>1, <1>2, <1>3, <1>8, <2>2 DEF Follower, Candidate
    <3>2. votedFor[p] = p
      BY <3>1 DEF ElectInv, CandidateOK
    <3> QED
      BY <1>0, <1>3, <1>4, <3>1, <3>2
  <2> QED
    BY <2>1, <2>2
<1>9. state'[n] = Candidate => ~wins
  BY <1>1, <1>2, <1>3 DEF Candidate, Leader
<1>10. ASSUME ~wins PROVE round'[n].asked = round[n].asked /\ round'[n].granted = G
  BY <1>1, <1>2, <1>10
<1>11. OneCampaign(n)
  <2> SUFFICES ASSUME NEW m \in Server, NEW v \in Server,
                      state'[m] = Candidate, v \in Backers(m)'
               PROVE  \/ /\ state[m] = Candidate /\ currentTerm'[m] = currentTerm[m]
                         /\ v \in Backers(m)
                      \/ m = n /\ \A k \in Server : k # m => ~Voted(v, currentTerm'[m], k)
    BY DEF OneCampaign
  <2>1. CASE m # n
    BY <1>8, <2>1 DEF Backers
  <2>2. CASE m = n
    <3>1. v \in Backers(n) \/ v = p
      BY <1>9, <1>10, <2>2 DEF Backers, G
    <3> QED
      BY <1>2, <1>6, <1>7, <2>2, <3>1
  <2> QED
    BY <2>1, <2>2
<1>12. Rivals'
  BY <1>0, <1>11, RivalsStay
<1>13. ASSUME NEW e \in elected
       PROVE  /\ e = <<e[1], e[2]>> /\ e[1] \in Nat /\ e[2] \in Server
              /\ \E Q \in SUBSET Server : QuorumOf(E, Q) /\ BackedBy(e[1], e[2], Q)'
  BY <1>0, <1>5, <1>11, ElectedStay DEF ElectInv
<1>14. /\ G \subseteq round[n].asked /\ n \notin round[n].asked
       /\ round[n].asked \in SUBSET Server /\ Cluster(D, round[n].asked \cup {n})
  BY <1>1, <1>2, <1>3 DEF CandidateOK, G
<1>15. \A v \in G : Voted(v, t, n)'
  <2>1. Voted(p, t, n)'
    BY <1>1, <1>2 DEF Voted
  <2>2. ASSUME NEW v \in round[n].granted PROVE Voted(v, t, n)'
    <3>1. v \in Server /\ Voted(v, t, n)
      BY <1>1, <1>3, <1>7 DEF CandidateOK
    <3> QED
      BY <1>0, <1>5, <3>1, VotedStays
  <2> QED
    BY <2>1, <2>2 DEF G
<1>16. ASSUME NEW m \in Server, state'[m] = Candidate PROVE CandidateOK(E, m)'
  <2>1. CASE m # n
    BY <1>0, <1>5, <1>8, <1>16, <2>1, CandidateStays DEF ElectInv
  <2>2. CASE m = n
    <3>1. ~wins /\ round'[n].asked = round[n].asked /\ round'[n].granted = G
      BY <1>9, <1>10, <1>16, <2>2
    <3>2. Cluster(E, round[n].asked \cup {n}) /\ votedFor[n] = n
      BY <1>3, <1>14, QuorumsGrow DEF CandidateOK
    <3> QED
      BY <1>7, <1>14, <1>15, <2>2, <3>1, <3>2 DEF CandidateOK, Voted
  <2> QED
    BY <2>1, <2>2
<1>17. CASE ~wins
  <2>1. elected' = elected
    BY <1>2, <1>17
  <2> QED
    BY <1>12, <1>13, <1>16, <2>1 DEF ElectInv, ElectedOK, OneLeaderPerTerm
<1>18. CASE wins
  <2>0. PICK R \in SUBSET Server : R = G \cup {n}
    BY <1>14
  <2>1. elected' = elected \cup {<<t, n>>}
    BY <1>2, <1>18
  <2>2. QuorumOf(D, R) /\ QuorumOf(E, R)
    <3>1. QuorumOf(D, R)
      BY <1>14, <1>18, <2>0, WinsIsQuorum DEF wins
    <3> QED
      BY <3>1, QuorumsGrow
  <2>r. Backers(n) \cup {p} = R
    BY <2>0 DEF G, Backers
  <2>3. BackedBy(t, n, R)'
    <3>1. \A v \in R : Voted(v, t, n)'
      <4>1. Voted(n, t, n)'
        BY <1>3, <1>7 DEF Voted, CandidateOK
      <4> QED
        BY <1>15, <2>0, <4>1
    <3>2. ASSUME NEW m \in Server, state'[m] = Candidate, currentTerm'[m] = t, m # n,
                 NEW v \in R, v \in Backers(m)'
          PROVE  FALSE
      <4>1. state[m] = Candidate /\ currentTerm[m] = t /\ v \in Backers(m)
        BY <1>8, <3>2 DEF Backers
      <4>2. CASE v = p
        <5>1. Voted(v, t, m)
          BY <1>0, <4>1, BackersVoted DEF ElectInv
        <5> QED
          BY <1>6, <3>2, <4>2, <5>1
      <4>3. CASE v \in Backers(n)
        BY <1>2, <1>7, <3>2, <4>1, <4>3 DEF ElectInv, Rivals
      <4> QED
        BY <2>r, <3>2, <4>2, <4>3
    <3> QED
      BY <3>1, <3>2 DEF BackedBy
  <2>4. ASSUME NEW e \in elected, e[1] = t PROVE e = <<t, n>>
    <3>1. e = <<e[1], e[2]>> /\ e[2] \in Server
      BY DEF ElectInv, ElectedOK
    <3>2. PICK Q \in SUBSET Server : QuorumOf(D, Q) /\ BackedBy(e[1], e[2], Q)
      BY DEF ElectInv, ElectedOK
    <3>3. SUFFICES ASSUME e[2] # n PROVE FALSE
      BY <2>4, <3>1
    <3>4. PICK v \in Q : v \in R
      BY <1>0, <2>2, <3>2, QuorumsMeet
    <3>5. CASE v = p
      BY <1>6, <2>4, <3>1, <3>2, <3>3, <3>5 DEF BackedBy
    <3>6. CASE v \in Backers(n)
      BY <1>2, <1>7, <2>4, <3>2, <3>3, <3>6 DEF BackedBy
    <3> QED
      BY <2>r, <3>4, <3>5, <3>6
  <2>5. OneLeaderPerTerm'
    BY <2>1, <2>4 DEF OneLeaderPerTerm, ElectInv
  <2>6. ElectedOK(E)'
    <3>1. ASSUME NEW e \in {<<t, n>>}
          PROVE  /\ e = <<e[1], e[2]>> /\ e[1] \in Nat /\ e[2] \in Server
                 /\ \E Q \in SUBSET Server : QuorumOf(E, Q) /\ BackedBy(e[1], e[2], Q)'
      <4>1. e = <<t, n>> /\ e[1] = t /\ e[2] = n
        OBVIOUS
      <4> QED
        BY <1>0, <2>2, <2>3, <2>r, <4>1
    <3> QED
      BY <1>13, <2>1, <3>1 DEF ElectedOK
  <2> QED
    BY <1>12, <1>16, <2>5, <2>6 DEF ElectInv
<1> QED
  BY <1>17, <1>18

\* A step keeps the elections consistent.
LEMMA ElectStep ==
    ASSUME NEW D, NEW E, D \subseteq E, ConfigInv(D), ElectInv(D), ConfigInv(E)', [Next]_vars
    PROVE  ElectInv(E)'
<1>1. RolesOK /\ RolesOK'
  BY DEF ConfigInv
<1>2. CASE \E n \in Server : Stand(n)
  BY <1>1, <1>2, StandStep
<1>3. CASE \E n, p \in Server : GrantVote(n, p)
  BY <1>1, <1>3, GrantStep
<1>4. CASE VoteOnce /\ NoCampaign
  BY <1>1, <1>4, QuietElectStep
<1> QED
  BY <1>1, <1>2, <1>3, <1>4, StepKinds

\* A step keeps the whole invariant.
LEMMA MembershipStep ==
    ASSUME MaxChanges <= 1, MembershipInv, [Next]_vars
    PROVE  MembershipInv'
<1>1. PICK D \in SUBSET Change : ConfigInv(D) /\ ElectInv(D)
  BY DEF MembershipInv
<1>2. PICK E \in SUBSET Change : D \subseteq E /\ ConfigInv(E)'
  BY <1>1, ConfigStep
<1>3. ElectInv(E)'
  BY <1>1, <1>2, ElectStep
<1> QED
  BY <1>2, <1>3 DEF MembershipInv

\* At the start nothing was submitted and nobody stands.
LEMMA MembershipInit ==
    ASSUME Init
    PROVE  MembershipInv
<1> USE DEF Follower, Candidate, Leader
<1>1. ChangesOK({})
  BY DEF Init, ChangesOK
<1>2. PeersOK({})
  BY MembershipAssumption DEF Init, PeersOK, ConfiguredPeers
<1>3. LogsOK({})
  <2>1. IsLog(Cmd \cup {}, Nat, EmptyLog) /\ SnapshotIndex(EmptyLog) = 0
    BY EmptyLogFacts
  <2>2. EmptyLog \in Seq(EntryOf(Cmd \cup {}, Nat))
    BY <2>1 DEF IsLog
  <2>3. log = [n \in Server |-> EmptyLog]
    BY DEF Init
  <2> QED
    BY <2>1, <2>2, <2>3 DEF LogsOK
<1>4. OutsideOK({})
  BY DEF Init, OutsideOK
<1>5. RolesOK
  BY DEF Init, RolesOK, NoRound
<1>6. ElectInv({})
  BY DEF Init, ElectInv, Rivals, ElectedOK, OneLeaderPerTerm
<1>7. ConfigInv({}) /\ {} \in SUBSET Change
  BY <1>1, <1>2, <1>3, <1>4, <1>5 DEF ConfigInv
<1> QED
  BY <1>6, <1>7 DEF MembershipInv

\* With at most one AddPeer or RemovePeer ever submitted, no term has two
\* leaders, although the leader counts the new cluster at once, the others
\* when they apply the entry, a restarted server the configured one again,
\* and nobody waits for anything.  (Run membership_split shows that two
\* changes are too many, even with patience between them.)
THEOREM SingleChangeIsSafe ==
    ASSUME MaxChanges <= 1
    PROVE  Spec => []OneLeaderPerTerm
<1>1. Init => MembershipInv
  BY MembershipInit
<1>2. MembershipInv /\ [Next]_vars => MembershipInv'
  BY MembershipStep
<1>3. MembershipInv => OneLeaderPerTerm
  BY DEF MembershipInv, ElectInv
<1> QED
  BY <1>1, <1>2, <1>3, PTL DEF Spec

-----------------------------------------------------------------------------
(* Committed entries.  A leader's own entry can be committed, unless a     *)
(* majority went on to later terms without it.                             *)

\* The logs that HandleRequestVote prefers to one that ends with <<t, i>>.
AtLeast(l, t, i) == LastTerm(l) > t \/ (LastTerm(l) = t /\ LastIndex(l) >= i)

\* Two logs have the same entries up to index i.
Same(l, m, i) ==
    /\ i <= LastIndex(l) /\ i <= LastIndex(m)
    /\ \A j \in 1 .. i : Get(l, j) = Get(m, j)

Own(n, i) == i \in 1 .. LastIndex(log[n]) /\ Get(log[n], i).term = currentTerm[n]

\* An entry comes from an election, and its term bounds what is before it.
TermsOK ==
    \A n \in Server :
        /\ log[n][1] = ZeroEntry
        /\ LastTerm(log[n]) <= currentTerm[n]
        /\ \A i \in 1 .. LastIndex(log[n]) :
              /\ Get(log[n], i).term <= LastTerm(log[n])
              /\ \E e \in elected : e[1] = Get(log[n], i).term

\* Log Matching.
Matching ==
    \A n, m \in Server, i \in Nat :
        (/\ 1 <= i /\ i <= LastIndex(log[n]) /\ i <= LastIndex(log[m])
         /\ Get(log[n], i).term = Get(log[m], i).term)
            => Same(log[n], log[m], i)

LeadersOK ==
    /\ \A e \in elected : e[1] <= currentTerm[e[2]]
    /\ \A n \in Server : state[n] = Candidate => <<currentTerm[n], n>> \notin elected
    /\ \A n \in Server : state[n] = Leader =>
          /\ <<currentTerm[n], n>> \in elected
          /\ \A v \in Server : matchIndex[n][v] <= LastIndex(log[n])
          /\ \A m \in Server : \A i \in 1 .. LastIndex(log[m]) :
                Get(log[m], i).term = currentTerm[n] => Own(n, i)

Counters ==
    /\ commitIndex \in [Server -> Nat]
    /\ matchIndex \in [Server -> [Server -> Nat]]

LogInv == TermsOK /\ Matching /\ LeadersOK /\ Counters

\* A majority left the term of leader n without entry i.
Lost(D, n, i) ==
    \E Q \in SUBSET Server : QuorumOf(D, Q) /\
        \A v \in Q : currentTerm[v] > currentTerm[n] /\ matchIndex[n][v] < i

\* Whoever has entry i of leader n, or passed its term, does not lose it.
Spread(n, i) ==
    /\ \A s \in Server : LastTerm(log[s]) > currentTerm[n] => Same(log[s], log[n], i)
    /\ \A v \in Server : matchIndex[n][v] >= i => AtLeast(log[v], currentTerm[n], i)
    /\ \A s \in Server :
          (state[s] = Leader /\ currentTerm[s] > currentTerm[n]) => AtLeast(log[s], currentTerm[n], i)
    /\ \A s, v \in Server :
          (/\ state[s] = Candidate /\ currentTerm[s] > currentTerm[n]
           /\ v \in Backers(s) /\ matchIndex[n][v] >= i)
              => AtLeast(log[s], currentTerm[n], i)

EntriesInv(D) ==
    \A n \in Server, i \in Nat : (state[n] = Leader /\ Own(n, i)) => Lost(D, n, i) \/ Spread(n, i)

\* Entry e, committed in term t together with index i, which quorum Q has.
Kept(t, e, i, Q) ==
    /\ \A s \in Server : AtLeast(log[s], t, i) => Get(log[s], e.index) = e
    /\ \A v \in Q : AtLeast(log[v], t, i)
    /\ \A s \in Server : (state[s] = Leader /\ currentTerm[s] >= t) => AtLeast(log[s], t, i)
    /\ \A s, v \in Server : (state[s] = Candidate /\ currentTerm[s] > t /\ v \in Backers(s) /\ v \in Q)
                               => AtLeast(log[s], t, i)

CommittedInv(D) ==
    \A c \in committed :
        /\ c[1] \in Nat /\ c[2].index \in Nat /\ 1 <= c[2].index
        /\ \E e \in elected : e[1] = c[1]
        /\ \E i \in Nat, Q \in SUBSET Server : 1 <= i /\ QuorumOf(D, Q) /\ Kept(c[1], c[2], i, Q)

KeepInv ==
    /\ LogInv
    /\ \E D \in SUBSET Change :
          ConfigInv(D) /\ ElectInv(D) /\ EntriesInv(D) /\ CommittedInv(D)

-----------------------------------------------------------------------------
(* Logs that are merged or compared.                                       *)

\* What the lemmas below need of a log.
LEMMA LogNumbers ==
    ASSUME NEW D, LogsOK(D), NEW n \in Server
    PROVE  /\ LastIndex(log[n]) \in Nat /\ LastTerm(log[n]) \in Nat
           /\ LastTerm(log[n]) = Get(log[n], LastIndex(log[n])).term
           /\ \A i \in 1 .. LastIndex(log[n]) :
                 Get(log[n], i).term \in Nat /\ Get(log[n], i).term # 0 /\ Get(log[n], i).index = i
<1>1. IsLog(Cmd \cup D, Nat, log[n]) /\ SnapshotIndex(log[n]) = 0
  BY LogOf
<1>2. /\ LastIndex(log[n]) \in Nat /\ LastTerm(log[n]) \in Nat
      /\ LastTerm(log[n]) = Get(log[n], LastIndex(log[n])).term
  BY <1>1, LogFacts
<1>3. ASSUME NEW i \in 1 .. LastIndex(log[n])
      PROVE  Get(log[n], i).term \in Nat /\ Get(log[n], i).term # 0 /\ Get(log[n], i).index = i
  <2>1. i \in Int /\ SnapshotIndex(log[n]) <= i /\ i <= LastIndex(log[n]) /\ i > SnapshotIndex(log[n])
    BY <1>1, <1>2
  <2> QED
    BY <1>1, <2>1, GetEntry
<1> QED
  BY <1>2, <1>3

\* Beyond its end a log shows the zero entry.
LEMMA NothingBeyond ==
    ASSUME NEW D, LogsOK(D), NEW n \in Server, NEW i \in Nat, 1 <= i, Get(log[n], i) # ZeroEntry
    PROVE  i <= LastIndex(log[n])
<1>1. /\ IsLog(Cmd \cup D, Nat, log[n]) /\ SnapshotIndex(log[n]) = 0
      /\ LastIndex(log[n]) \in Nat
  BY LogOf
<1>2. SUFFICES ASSUME ~(i <= LastIndex(log[n])) PROVE FALSE
  OBVIOUS
<1>3. i \notin SnapshotIndex(log[n]) .. LastIndex(log[n]) /\ i \in Int
  BY <1>1, <1>2
<1> QED
  BY <1>1, <1>3, GetOutside

\* The entries a leader sends are those of its log.
LEMMA TailIsLog ==
    ASSUME NEW D, LogsOK(D), NEW n \in Server
    PROVE  /\ Len(Tail(log[n])) = LastIndex(log[n])
           /\ \A k \in 1 .. LastIndex(log[n]) : Tail(log[n])[k] = Get(log[n], k)
<1>1. /\ IsLog(Cmd \cup D, Nat, log[n]) /\ SnapshotIndex(log[n]) = 0
      /\ LastIndex(log[n]) \in Nat
  BY LogOf
<1>2. Len(log[n]) = LastIndex(log[n]) + 1
  BY <1>1, LogFacts
<1>3. log[n] \in Seq(EntryOf(Cmd \cup D, Nat)) /\ log[n] # << >>
  BY <1>1, <1>2 DEF IsLog
<1>4. /\ Len(Tail(log[n])) = Len(log[n]) - 1
      /\ \A k \in 1 .. Len(Tail(log[n])) : Tail(log[n])[k] = log[n][k + 1]
  BY <1>3, HeadTailProperties
<1>5. ASSUME NEW k \in 1 .. LastIndex(log[n]) PROVE Tail(log[n])[k] = Get(log[n], k)
  <2>1. k \in SnapshotIndex(log[n]) .. LastIndex(log[n]) /\ k - SnapshotIndex(log[n]) + 1 = k + 1
    BY <1>1
  <2>2. Get(log[n], k) = log[n][k - SnapshotIndex(log[n]) + 1]
    BY <1>1, <2>1, GetAt
  <2>3. k \in 1 .. Len(Tail(log[n]))
    BY <1>1, <1>2, <1>4
  <2> QED
    BY <1>4, <2>1, <2>2, <2>3
<1> QED
  BY <1>1, <1>2, <1>4, <1>5

\* Nothing is compacted: the sentinel is that of a fresh log.
LEMMA SentinelIsZero ==
    ASSUME NEW D, LogsOK(D), TermsOK, NEW m \in Server
    PROVE  /\ Get(log[m], 0) = ZeroEntry
           /\ LastIndex(log[m]) = 0 => LastTerm(log[m]) = 0
<1>1. IsLog(Cmd \cup D, Nat, log[m]) /\ SnapshotIndex(log[m]) = 0 /\ LastIndex(log[m]) \in Nat
  BY LogOf
<1>2. 0 \in SnapshotIndex(log[m]) .. LastIndex(log[m]) /\ 0 - SnapshotIndex(log[m]) + 1 = 1
  BY <1>1
<1>3. Get(log[m], 0) = log[m][1]
  BY <1>1, <1>2, GetAt
<1>4. Get(log[m], 0) = ZeroEntry
  BY <1>3 DEF TermsOK
<1>5. LastTerm(log[m]) = Get(log[m], LastIndex(log[m])).term
  BY LogNumbers
<1> QED
  BY <1>4, <1>5 DEF ZeroEntry

\* A merge leaves the log of the follower, if it continues the leader's, or
\* the log of the leader.
LEMMA MergeIsEither ==
    ASSUME NEW D, LogsOK(D), TermsOK, Matching, NEW n \in Server, NEW p \in Server
    PROVE  LET l == AppendBatch(log[p], Tail(log[n])) IN
           \/ l = log[n]
           \/ l = log[p] /\ Same(log[p], log[n], LastIndex(log[n]))
<1> DEFINE l == AppendBatch(log[p], Tail(log[n]))
           a == LastIndex(log[n])
<1>1. /\ IsLog(Cmd \cup D, Nat, log[n]) /\ SnapshotIndex(log[n]) = 0 /\ a \in Nat
  BY LogOf
<1>2. IsLog(Cmd \cup D, Nat, log[p]) /\ SnapshotIndex(log[p]) = 0 /\ LastIndex(log[p]) \in Nat
  BY LogOf
<1>3. IsBatch(Cmd \cup D, Nat, 0, Tail(log[n]))
  BY <1>1, WholeLogIsBatch
<1>4. IsLog(Cmd \cup D, Nat, l) /\ MergeResult(log[p], 0, Tail(log[n]), l)
  BY <1>2, <1>3, AppendBatchFacts
<1>5. Len(Tail(log[n])) = a /\ \A k \in 1 .. a : Tail(log[n])[k] = Get(log[n], k)
  BY TailIsLog
<1> HIDE DEF l
<1>6. ASSUME NEW k \in Nat, 1 <= k, k <= a, ~Diverges(log[p], 0, Tail(log[n]), k)
      PROVE  Same(log[p], log[n], k)
  <2>1. k \in 1 .. a /\ 0 + k = k /\ k > SnapshotIndex(log[p])
    BY <1>1, <1>2, <1>6
  <2>2. Get(log[p], k).term = Get(log[n], k).term
    BY <1>5, <1>6, <2>1 DEF Diverges
  <2>3. Get(log[n], k).term # 0
    BY <2>1, LogNumbers
  <2>4. k <= LastIndex(log[p])
    <3>1. Get(log[p], k) # ZeroEntry
      BY <2>2, <2>3 DEF ZeroEntry
    <3> QED
      BY <1>6, <3>1, NothingBeyond
  <2> QED
    BY <1>6, <2>2, <2>4 DEF Matching
<1>7. CASE l = log[p] /\ \A k \in 1 .. Len(Tail(log[n])) : ~Diverges(log[p], 0, Tail(log[n]), k)
  <2>1. CASE a = 0
    <3>1. Same(log[p], log[n], a)
      BY <1>1, <1>2, <2>1 DEF Same
    <3> QED
      BY <1>7, <3>1 DEF l
  <2>2. CASE a # 0
    <3>1. a \in Nat /\ 1 <= a /\ a <= a /\ a \in 1 .. Len(Tail(log[n]))
      BY <1>1, <1>5, <2>2
    <3>2. Same(log[p], log[n], a)
      BY <1>6, <1>7, <3>1
    <3> QED
      BY <1>7, <3>2 DEF l
  <2> QED
    BY <2>1, <2>2
<1>8. ASSUME NEW k \in 1 .. Len(Tail(log[n])), MergedAt(log[p], 0, Tail(log[n]), k, l)
      PROVE  l = log[n]
  <2>1. k \in 1 .. a /\ k \in Nat /\ 0 + k = k /\ 0 + k - 1 = k - 1 /\ 0 + a = a
    BY <1>1, <1>5
  <2>2. SnapshotIndex(l) = 0
    BY <1>2, <1>4 DEF MergeResult
  <2>3. LastIndex(l) = a
    BY <1>5, <1>8, <2>1 DEF MergedAt
  <2>4. \A i \in k .. a : Get(l, i) = Get(log[n], i)
    <3> SUFFICES ASSUME NEW i \in k .. a PROVE Get(l, i) = Get(log[n], i)
      OBVIOUS
    <3>1. i - 0 = i /\ i \in 1 .. a /\ i \in 0 + k .. 0 + Len(Tail(log[n]))
      BY <1>1, <1>5, <2>1
    <3>2. Get(l, i) = Tail(log[n])[i - 0]
      BY <1>8, <3>1 DEF MergedAt
    <3> QED
      BY <1>5, <3>1, <3>2
  <2>5. \A i \in 0 .. k - 1 : Get(l, i) = Get(log[p], i)
    <3> SUFFICES ASSUME NEW i \in 0 .. k - 1 PROVE Get(l, i) = Get(log[p], i)
      OBVIOUS
    <3>1. i \in SnapshotIndex(log[p]) .. 0 + k - 1
      BY <1>2, <2>1
    <3> QED
      BY <1>8, <3>1 DEF MergedAt
  <2>6. \A i \in 1 .. k - 1 : Get(log[p], i) = Get(log[n], i)
    <3>1. CASE k = 1
      BY <2>1, <3>1
    <3>2. CASE k # 1
      <4>1. k - 1 \in Nat /\ 1 <= k - 1 /\ k - 1 <= a /\ k - 1 \in 1 .. k - 1
        BY <1>1, <2>1, <3>2
      <4>2. ~Diverges(log[p], 0, Tail(log[n]), k - 1)
        BY <1>8, <4>1 DEF MergedAt
      <4>3. Same(log[p], log[n], k - 1)
        BY <1>6, <4>1, <4>2
      <4> QED
        BY <4>3 DEF Same
    <3> QED
      BY <3>1, <3>2
  <2>7. Get(log[p], 0) = ZeroEntry /\ Get(log[n], 0) = ZeroEntry
    BY SentinelIsZero
  <2>8. ASSUME NEW i \in 0 .. a PROVE Get(l, i) = Get(log[n], i)
    <3>1. CASE i \in k .. a
      BY <2>4, <3>1
    <3>2. CASE i \in 1 .. k - 1
      <4>1. i \in 0 .. k - 1
        BY <2>1, <3>2
      <4> QED
        BY <2>5, <2>6, <3>2, <4>1
    <3>3. CASE i = 0
      <4>1. 0 \in 0 .. k - 1
        BY <2>1
      <4> QED
        BY <2>5, <2>7, <3>3, <4>1
    <3>4. i \in k .. a \/ i \in 1 .. k - 1 \/ i = 0
      BY <1>1, <2>1
    <3> QED
      BY <3>1, <3>2, <3>3, <3>4
  <2> QED
    BY <1>1, <1>4, <2>2, <2>3, <2>8, LogEqual
<1> QED
  BY <1>4, <1>7, <1>8 DEF MergeResult, l

\* The comparison of HandleRequestVote.
UpToDate(l, m) ==
    \/ LastTerm(l) > LastTerm(m)
    \/ LastTerm(l) = LastTerm(m) /\ LastIndex(l) >= LastIndex(m)

\* A log no voter holds against the candidate passes on what the voter has.
LEMMA AtLeastPasses ==
    ASSUME NEW D, LogsOK(D), NEW s \in Server, NEW v \in Server, NEW t \in Nat, NEW i \in Nat,
           AtLeast(log[v], t, i), UpToDate(log[s], log[v])
    PROVE  AtLeast(log[s], t, i)
<1>1. LastIndex(log[s]) \in Nat /\ LastTerm(log[s]) \in Nat
  BY LogNumbers
<1>2. LastIndex(log[v]) \in Nat /\ LastTerm(log[v]) \in Nat
  BY LogNumbers
<1> QED
  BY <1>1, <1>2 DEF AtLeast, UpToDate

\* Two leaders are of different terms.
LEMMA LeadersDiffer ==
    ASSUME NEW D, ElectInv(D), LeadersOK, NEW n \in Server, NEW m \in Server,
           state[n] = Leader, state[m] = Leader, currentTerm[n] = currentTerm[m]
    PROVE  n = m
<1>1. <<currentTerm[n], n>> \in elected /\ <<currentTerm[m], m>> \in elected
  BY DEF LeadersOK
<1>2. OneLeaderPerTerm
  BY DEF ElectInv
<1>3. <<currentTerm[n], n>>[1] = <<currentTerm[m], m>>[1]
  OBVIOUS
<1>4. <<currentTerm[n], n>> = <<currentTerm[m], m>>
  BY <1>1, <1>2, <1>3 DEF OneLeaderPerTerm
<1> QED
  BY <1>4

\* The log of a leader ends in its own entries.
LEMMA OwnIsLast ==
    ASSUME NEW D, LogsOK(D), RolesOK, TermsOK, NEW n \in Server, NEW i \in Nat, Own(n, i)
    PROVE  LastTerm(log[n]) = currentTerm[n] /\ AtLeast(log[n], currentTerm[n], i)
<1>1. LastIndex(log[n]) \in Nat /\ LastTerm(log[n]) \in Nat /\ currentTerm[n] \in Nat
  BY LogNumbers DEF RolesOK
<1>2. i <= LastIndex(log[n]) /\ currentTerm[n] <= LastTerm(log[n])
  BY DEF Own, TermsOK
<1>3. LastTerm(log[n]) <= currentTerm[n]
  BY DEF TermsOK
<1> QED
  BY <1>1, <1>2, <1>3 DEF AtLeast

\* A log that ends in the term of a leader is a piece of the leader's log.
LEMMA OwnIsShared ==
    ASSUME NEW D, LogsOK(D), RolesOK, LogInv, NEW n \in Server, state[n] = Leader,
           NEW i \in Nat, Own(n, i), NEW s \in Server, AtLeast(log[s], currentTerm[n], i),
           LastTerm(log[s]) > currentTerm[n] => Same(log[s], log[n], i)
    PROVE  Same(log[s], log[n], i)
<1> DEFINE b == LastIndex(log[s])
<1>1. b \in Nat /\ LastTerm(log[s]) \in Nat /\ LastTerm(log[s]) = Get(log[s], b).term
  BY LogNumbers
<1>2. currentTerm[n] \in Nat /\ 1 <= i
  BY DEF RolesOK, Own
<1>3. SUFFICES ASSUME LastTerm(log[s]) = currentTerm[n], b >= i PROVE Same(log[s], log[n], i)
  BY <1>1, <1>2 DEF AtLeast
<1>4. b \in 1 .. LastIndex(log[s]) /\ 1 <= b /\ b <= LastIndex(log[s])
  BY <1>1, <1>2, <1>3
<1>5. Own(n, b)
  BY <1>1, <1>3, <1>4 DEF LogInv, LeadersOK
<1>6. b <= LastIndex(log[n]) /\ Get(log[n], b).term = Get(log[s], b).term
  BY <1>1, <1>3, <1>5 DEF Own
<1>7. Same(log[s], log[n], b)
  BY <1>1, <1>4, <1>6 DEF LogInv, Matching
<1>8. i <= LastIndex(log[n]) /\ i <= LastIndex(log[s])
  <2>1. LastIndex(log[n]) \in Nat
    BY LogNumbers
  <2> QED
    BY <1>1, <1>3, <1>6, <2>1
<1> HIDE DEF b
<1>9. \A j \in 1 .. i : j \in 1 .. b
  BY <1>1, <1>2, <1>3
<1> QED
  BY <1>1, <1>2, <1>3, <1>7, <1>8, <1>9 DEF Same

-----------------------------------------------------------------------------
(* The steps that leave the logs alone.                                    *)

\* Candidate w wins the election with quorum Q.
Victory(D, w) ==
    /\ state[w] = Candidate /\ state'[w] = Leader /\ currentTerm'[w] = currentTerm[w]
    /\ \A v \in Server : matchIndex'[w][v] = 0
    /\ elected' = elected \cup {<<currentTerm[w], w>>}
    /\ \E Q \in SUBSET Server : QuorumOf(D, Q) /\
          \A v \in Q : /\ currentTerm'[v] >= currentTerm[w]
                       /\ v \in Backers(w) \/ UpToDate(log[w], log[v])

\* Server w is elected, or nobody (Nil).
Calm(D, w) ==
    /\ log' = log /\ committed' = committed
    /\ \A v \in Server : currentTerm'[v] >= currentTerm[v]
    /\ \A m \in Server : (state'[m] = Leader /\ m # w) =>
          /\ state[m] = Leader /\ currentTerm'[m] = currentTerm[m]
          /\ \A v \in Server : matchIndex'[m][v] <= matchIndex[m][v]
    /\ \A s \in Server : state'[s] = Candidate =>
          \/ state[s] = Candidate /\ currentTerm'[s] = currentTerm[s]
          \/ currentTerm'[s] > currentTerm[s]
    /\ \A s, v \in Server : (state'[s] = Candidate /\ v \in Backers(s)') =>
          \/ state[s] = Candidate /\ currentTerm'[s] = currentTerm[s] /\ v \in Backers(s)
          \/ UpToDate(log[s], log[v])
    /\ IF w \in Server THEN Victory(D, w) ELSE elected' = elected

\* The term a candidate wins is not yet anybody's, nor is any entry of it.
LEMMA FreshTerm ==
    ASSUME NEW D, LogInv, NEW w \in Server, OneLeaderPerTerm', Victory(D, w)
    PROVE  /\ \A e \in elected : e[1] # currentTerm[w]
           /\ \A m \in Server : \A i \in 1 .. LastIndex(log[m]) : Get(log[m], i).term # currentTerm[w]
<1>1. ASSUME NEW e \in elected, e[1] = currentTerm[w] PROVE FALSE
  <2>1. e \in elected' /\ <<currentTerm[w], w>> \in elected' /\ <<currentTerm[w], w>>[1] = currentTerm[w]
    BY DEF Victory
  <2>2. e = <<currentTerm[w], w>>
    BY <1>1, <2>1 DEF OneLeaderPerTerm
  <2>3. <<currentTerm[w], w>> \notin elected
    BY DEF LogInv, LeadersOK, Victory
  <2> QED
    BY <2>2, <2>3
<1> QED
  BY <1>1 DEF LogInv, TermsOK

\* The logs keep matching, and the new leader has no entry of its own.
LEMMA CalmLog ==
    ASSUME NEW D, LogsOK(D), RolesOK, RolesOK', ElectedOK(D), LogInv, Counters', OneLeaderPerTerm',
           NEW w \in Server \cup {Nil}, Calm(D, w)
    PROVE  LogInv'
<1>1. log' = log /\ elected \subseteq elected'
  BY DEF Calm, Victory
<1>2. \A n \in Server : currentTerm[n] \in Nat /\ currentTerm'[n] \in Nat
                        /\ currentTerm'[n] >= currentTerm[n]
  BY DEF RolesOK, Calm
<1>3. \A n \in Server : LastTerm(log[n]) \in Nat /\ LastIndex(log[n]) \in Nat
  BY LogNumbers
<1>4. TermsOK'
  <2> SUFFICES ASSUME NEW n \in Server
               PROVE  /\ log[n][1] = ZeroEntry
                      /\ LastTerm(log[n]) <= currentTerm'[n]
                      /\ \A i \in 1 .. LastIndex(log[n]) :
                            /\ Get(log[n], i).term <= LastTerm(log[n])
                            /\ \E e \in elected' : e[1] = Get(log[n], i).term
    BY <1>1 DEF TermsOK
  <2>1. log[n][1] = ZeroEntry /\ LastTerm(log[n]) <= currentTerm[n]
    BY DEF LogInv, TermsOK
  <2>2. LastTerm(log[n]) <= currentTerm'[n]
    BY <1>2, <1>3, <2>1
  <2> QED
    BY <1>1, <2>1, <2>2 DEF LogInv, TermsOK
<1>5. Matching'
  BY <1>1 DEF LogInv, Matching
<1>6. \A e \in elected' : e[1] <= currentTerm'[e[2]]
  <2>1. ASSUME NEW e \in elected PROVE e[1] <= currentTerm'[e[2]]
    <3>1. e[1] <= currentTerm[e[2]] /\ e[1] \in Nat /\ e[2] \in Server
      BY DEF LogInv, LeadersOK, ElectedOK
    <3> QED
      BY <1>2, <3>1
  <2>2. CASE w \in Server
    <3>1. elected' = elected \cup {<<currentTerm[w], w>>}
      BY <2>2 DEF Calm, Victory
    <3>2. <<currentTerm[w], w>>[1] <= currentTerm'[<<currentTerm[w], w>>[2]]
      BY <1>2, <2>2
    <3> QED
      BY <2>1, <3>1, <3>2
  <2>3. CASE w \notin Server
    BY <2>1, <2>3 DEF Calm
  <2> QED
    BY <2>2, <2>3
<1>7. ASSUME NEW n \in Server, state'[n] = Candidate PROVE <<currentTerm'[n], n>> \notin elected'
  <2>1. <<currentTerm'[n], n>> \notin elected
    <3>1. CASE state[n] = Candidate /\ currentTerm'[n] = currentTerm[n]
      BY <3>1 DEF LogInv, LeadersOK
    <3>2. CASE currentTerm'[n] > currentTerm[n]
      <4>1. SUFFICES ASSUME <<currentTerm'[n], n>> \in elected PROVE FALSE
        OBVIOUS
      <4>2. currentTerm'[n] <= currentTerm[n]
        BY <4>1 DEF LogInv, LeadersOK
      <4> QED
        BY <1>2, <3>2, <4>2
    <3> QED
      BY <1>7, <3>1, <3>2 DEF Calm
  <2>2. CASE n = w
    BY <1>7, <2>2 DEF Calm, Victory, Leader, Candidate
  <2>3. CASE n # w
    <3>1. \A e \in elected' : e \in elected \/ e = <<currentTerm[w], w>>
      BY DEF Calm, Victory
    <3> QED
      BY <2>1, <2>3, <3>1
  <2> QED
    BY <2>2, <2>3
<1>8. ASSUME NEW n \in Server, state'[n] = Leader
      PROVE  /\ <<currentTerm'[n], n>> \in elected'
             /\ \A v \in Server : matchIndex'[n][v] <= LastIndex(log[n])
             /\ \A m \in Server : \A i \in 1 .. LastIndex(log[m]) :
                   Get(log[m], i).term = currentTerm'[n] => Own(n, i)'
  <2>1. CASE n # w
    <3>1. /\ state[n] = Leader /\ currentTerm'[n] = currentTerm[n]
          /\ \A v \in Server : matchIndex'[n][v] <= matchIndex[n][v]
      BY <1>8, <2>1 DEF Calm
    <3>2. ASSUME NEW v \in Server PROVE matchIndex'[n][v] <= LastIndex(log[n])
      <4>0. matchIndex[n][v] \in Nat /\ matchIndex'[n][v] \in Nat
        BY DEF LogInv, Counters
      <4>1. matchIndex[n][v] <= LastIndex(log[n])
        BY <3>1 DEF LogInv, LeadersOK
      <4>2. matchIndex'[n][v] <= matchIndex[n][v] /\ LastIndex(log[n]) \in Nat
        BY <1>3, <3>1
      <4> QED
        BY <4>0, <4>1, <4>2
    <3> QED
      BY <1>1, <3>1, <3>2 DEF LogInv, LeadersOK, Own
  <2>2. CASE n = w
    <3>1. Victory(D, n)
      BY <2>2 DEF Calm
    <3>2. \A m \in Server : \A i \in 1 .. LastIndex(log[m]) : Get(log[m], i).term # currentTerm[n]
      BY <3>1, FreshTerm
    <3> QED
      BY <1>3, <3>1, <3>2 DEF Victory
  <2> QED
    BY <2>1, <2>2
<1>9. LeadersOK'
  BY <1>1, <1>6, <1>7, <1>8 DEF LeadersOK
<1> QED
  BY <1>4, <1>5, <1>9 DEF LogInv

\* An entry that may be committed: the new leader got the vote of one who has
\* it, or its whole quorum is without it and is lost to the entry's leader.
LEMMA CalmEntries ==
    ASSUME NEW D, LogsOK(D), RolesOK, RolesOK', LogInv, Counters', EntriesInv(D), OneLeaderPerTerm',
           NEW w \in Server \cup {Nil}, Calm(D, w)
    PROVE  EntriesInv(D)'
<1> SUFFICES ASSUME NEW n \in Server, NEW i \in Nat, state'[n] = Leader, Own(n, i)'
             PROVE  Lost(D, n, i)' \/ Spread(n, i)'
  BY DEF EntriesInv
<1>1. log' = log
  BY DEF Calm
<1>2. n # w
  <2>1. SUFFICES ASSUME n = w PROVE FALSE
    OBVIOUS
  <2>2. Victory(D, n) /\ currentTerm'[n] = currentTerm[n]
    BY <2>1 DEF Calm, Victory
  <2> QED
    BY <1>1, <2>2, FreshTerm DEF Own
<1>3. /\ state[n] = Leader /\ currentTerm'[n] = currentTerm[n]
      /\ \A v \in Server : matchIndex'[n][v] <= matchIndex[n][v]
  BY <1>2 DEF Calm
<1>4. Lost(D, n, i) \/ Spread(n, i)
  BY <1>1, <1>3 DEF EntriesInv, Own
<1>5. \A v \in Server : /\ currentTerm[v] \in Nat /\ currentTerm'[v] \in Nat
                        /\ currentTerm'[v] >= currentTerm[v]
                        /\ matchIndex[n][v] \in Nat /\ matchIndex'[n][v] \in Nat
                        /\ matchIndex'[n][v] <= matchIndex[n][v]
  BY <1>3 DEF RolesOK, Calm, LogInv, Counters
<1>6. CASE Lost(D, n, i)
  <2>1. PICK Q \in SUBSET Server :
            QuorumOf(D, Q) /\ \A v \in Q : currentTerm[v] > currentTerm[n] /\ matchIndex[n][v] < i
    BY <1>6 DEF Lost
  <2>2. \A v \in Q : currentTerm'[v] > currentTerm'[n] /\ matchIndex'[n][v] < i
    BY <1>3, <1>5, <2>1
  <2>3. Lost(D, n, i)'
    BY <2>1, <2>2 DEF Lost
  <2> QED
    BY <2>3
<1>7. CASE Spread(n, i)
  <2>t. PICK t \in Nat : t = currentTerm[n] /\ t = currentTerm'[n]
    BY <1>3, <1>5
  <2>1. CASE w \in Server /\ currentTerm[w] > t /\ ~AtLeast(log[w], t, i)
    <3>1. PICK Q \in SUBSET Server : QuorumOf(D, Q) /\
              \A v \in Q : /\ currentTerm'[v] >= currentTerm[w]
                           /\ v \in Backers(w) \/ UpToDate(log[w], log[v])
      BY <2>1 DEF Calm, Victory
    <3>2. ASSUME NEW v \in Q PROVE currentTerm'[v] > currentTerm'[n] /\ matchIndex'[n][v] < i
      <4>1. v \in Server /\ currentTerm'[v] > currentTerm'[n]
        BY <1>5, <2>1, <2>t, <3>1
      <4>2. SUFFICES ASSUME matchIndex[n][v] >= i PROVE FALSE
        BY <1>5, <4>1
      <4>3. CASE v \in Backers(w)
        BY <1>7, <2>1, <2>t, <4>1, <4>2, <4>3 DEF Spread, Calm, Victory
      <4>4. CASE UpToDate(log[w], log[v])
        <5>1. AtLeast(log[v], t, i)
          BY <1>7, <2>t, <4>1, <4>2 DEF Spread
        <5> QED
          BY <2>1, <4>1, <4>4, <5>1, AtLeastPasses
      <4> QED
        BY <3>1, <4>3, <4>4
    <3>3. Lost(D, n, i)'
      BY <3>1, <3>2 DEF Lost
    <3> QED
      BY <3>3
  <2>2. CASE ~(w \in Server /\ currentTerm[w] > t /\ ~AtLeast(log[w], t, i))
    <3>1. \A s \in Server : LastTerm(log'[s]) > t => Same(log'[s], log'[n], i)
      BY <1>1, <1>7, <2>t DEF Spread
    <3>2. ASSUME NEW v \in Server, matchIndex'[n][v] >= i PROVE AtLeast(log[v], t, i)
      <4>1. matchIndex[n][v] >= i
        BY <1>5, <3>2
      <4> QED
        BY <1>7, <2>t, <4>1 DEF Spread
    <3>3. ASSUME NEW s \in Server, state'[s] = Leader, currentTerm'[s] > t
          PROVE  AtLeast(log[s], t, i)
      <4>1. CASE s = w
        BY <2>2, <3>3, <4>1 DEF Calm, Victory
      <4>2. CASE s # w
        <5>1. state[s] = Leader /\ currentTerm'[s] = currentTerm[s]
          BY <3>3, <4>2 DEF Calm
        <5> QED
          BY <1>7, <2>t, <3>3, <5>1 DEF Spread
      <4> QED
        BY <4>1, <4>2
    <3>4. ASSUME NEW s \in Server, NEW v \in Server, state'[s] = Candidate, currentTerm'[s] > t,
                 v \in Backers(s)', matchIndex'[n][v] >= i
          PROVE  AtLeast(log[s], t, i)
      <4>1. matchIndex[n][v] >= i
        BY <1>5, <3>4
      <4>2. CASE state[s] = Candidate /\ currentTerm'[s] = currentTerm[s] /\ v \in Backers(s)
        BY <1>7, <2>t, <3>4, <4>1, <4>2 DEF Spread
      <4>3. CASE UpToDate(log[s], log[v])
        <5>1. AtLeast(log[v], t, i)
          BY <3>2, <3>4
        <5> QED
          BY <4>3, <5>1, AtLeastPasses
      <4> QED
        BY <3>4, <4>2, <4>3 DEF Calm
    <3>5. Spread(n, i)'
      BY <1>1, <2>t, <3>1, <3>2, <3>3, <3>4 DEF Spread
    <3> QED
      BY <3>5
  <2> QED
    BY <2>1, <2>2
<1> QED
  BY <1>4, <1>6, <1>7

\* A committed entry: the new leader's quorum meets the one that has it.
LEMMA CalmCommitted ==
    ASSUME NEW D, LogsOK(D), RolesOK, RolesOK', ChangesOK(D), LogInv, CommittedInv(D),
           OneLeaderPerTerm', NEW w \in Server \cup {Nil}, Calm(D, w)
    PROVE  CommittedInv(D)'
<1>1. log' = log /\ committed' = committed /\ elected \subseteq elected'
  BY DEF Calm, Victory
<1> SUFFICES ASSUME NEW c \in committed
             PROVE  /\ c[1] \in Nat /\ c[2].index \in Nat /\ 1 <= c[2].index
                    /\ \E e \in elected' : e[1] = c[1]
                    /\ \E i \in Nat, Q \in SUBSET Server :
                          1 <= i /\ QuorumOf(D, Q) /\ Kept(c[1], c[2], i, Q)'
  BY <1>1 DEF CommittedInv
<1>2. /\ c[1] \in Nat /\ c[2].index \in Nat /\ 1 <= c[2].index
      /\ \E e \in elected : e[1] = c[1]
  BY DEF CommittedInv
<1>3. PICK i \in Nat, Q \in SUBSET Server : 1 <= i /\ QuorumOf(D, Q) /\ Kept(c[1], c[2], i, Q)
  BY DEF CommittedInv
<1>t. PICK t \in Nat : t = c[1]
  BY <1>2
<1>e. PICK e : e = c[2]
  OBVIOUS
<1>4. Kept(t, e, i, Q)
  BY <1>3, <1>t, <1>e
<1>5. \A v \in Server : currentTerm[v] \in Nat /\ currentTerm'[v] \in Nat
  BY DEF RolesOK
<1>6. ASSUME NEW s \in Server, state'[s] = Leader, currentTerm'[s] >= t PROVE AtLeast(log[s], t, i)
  <2>1. CASE s # w
    <3>1. state[s] = Leader /\ currentTerm'[s] = currentTerm[s]
      BY <1>6, <2>1 DEF Calm
    <3> QED
      BY <1>4, <1>6, <3>1 DEF Kept
  <2>2. CASE s = w
    <3>1. Victory(D, s)
      BY <2>2 DEF Calm
    <3>2. PICK R \in SUBSET Server : QuorumOf(D, R) /\
              \A v \in R : v \in Backers(s) \/ UpToDate(log[s], log[v])
      BY <3>1 DEF Victory
    <3>3. PICK v \in Q : v \in R
      BY <1>3, <3>2, QuorumsMeet
    <3>4. AtLeast(log[v], t, i) /\ v \in Server
      BY <1>3, <1>4, <3>3 DEF Kept
    <3>5. state[s] = Candidate /\ currentTerm[s] > t
      <4>1. currentTerm[s] # t
        BY <1>2, <1>t, <3>1, FreshTerm
      <4> QED
        BY <1>5, <1>6, <3>1, <4>1 DEF Victory
    <3>6. CASE v \in Backers(s)
      BY <1>4, <3>3, <3>4, <3>5, <3>6 DEF Kept
    <3>7. CASE UpToDate(log[s], log[v])
      BY <3>4, <3>7, AtLeastPasses
    <3> QED
      BY <3>2, <3>3, <3>6, <3>7
  <2> QED
    BY <2>1, <2>2
<1>7. ASSUME NEW s \in Server, NEW v \in Server, state'[s] = Candidate, currentTerm'[s] > t,
             v \in Backers(s)', v \in Q
      PROVE  AtLeast(log[s], t, i)
  <2>1. CASE state[s] = Candidate /\ currentTerm'[s] = currentTerm[s] /\ v \in Backers(s)
    BY <1>4, <1>7, <2>1 DEF Kept
  <2>2. CASE UpToDate(log[s], log[v])
    <3>1. AtLeast(log[v], t, i)
      BY <1>4, <1>7 DEF Kept
    <3> QED
      BY <2>2, <3>1, AtLeastPasses
  <2> QED
    BY <1>7, <2>1, <2>2 DEF Calm
<1>8. Kept(t, e, i, Q)'
  BY <1>1, <1>4, <1>6, <1>7 DEF Kept
<1> QED
  BY <1>1, <1>2, <1>3, <1>8, <1>t, <1>e

\* A step in which nobody stands, wins or gets a vote counted.
LEMMA QuietIsCalm ==
    ASSUME NEW D, RolesOK, RolesOK', VoteOnce, NoCampaign, log' = log, committed' = committed,
           \A m \in Server : state'[m] = Leader =>
               /\ state[m] = Leader /\ currentTerm'[m] = currentTerm[m]
               /\ \A v \in Server : matchIndex'[m][v] <= matchIndex[m][v]
    PROVE  Calm(D, Nil)
<1>1. ASSUME NEW v \in Server PROVE currentTerm'[v] >= currentTerm[v]
  <2>1. currentTerm[v] \in Nat /\ currentTerm'[v] \in Nat
    BY DEF RolesOK
  <2> QED
    BY <2>1 DEF VoteOnce
<1>2. \A s \in Server : state'[s] = Candidate =>
          state[s] = Candidate /\ currentTerm'[s] = currentTerm[s] /\ Backers(s)' = Backers(s)
  BY DEF NoCampaign, Backers
<1>3. Nil \notin Server /\ elected' = elected
  BY MembershipAssumption DEF NoCampaign
<1> QED
  BY <1>1, <1>2, <1>3 DEF Calm

\* A vote that is counted.
LEMMA GrantIsCalm ==
    ASSUME NEW D, ConfigInv(D), ElectInv(D), Counters, NEW n \in Server, NEW p \in Server,
           GrantVote(n, p), RolesOK'
    PROVE  \E w \in Server \cup {Nil} : Calm(D, w)
<1>t. PICK t \in Nat : t = currentTerm[n]
  BY DEF ConfigInv, RolesOK
<1> DEFINE G == round[n].granted \cup {p}
           wins == Wins(G, round[n].asked)
<1>0. RolesOK /\ ChangesOK(D) /\ LogsOK(D) /\ Nil \notin Server
  BY MembershipAssumption DEF ConfigInv
<1>1. /\ currentTerm \in [Server -> Nat] /\ votedFor \in [Server -> Server \cup {Nil}]
      /\ state \in [Server -> {Follower, Candidate, Leader}]
      /\ round \in [Server -> [asked : SUBSET Server, granted : SUBSET Server]]
      /\ matchIndex \in [Server -> [Server -> Nat]]
  BY <1>0 DEF RolesOK, Counters
<1>2. /\ state[n] = Candidate
      /\ p \in round[n].asked /\ Grants(p, n)
      /\ currentTerm' = [currentTerm EXCEPT ![p] = t]
      /\ state' = [state EXCEPT ![p] = IF t > currentTerm[p] THEN Follower ELSE @,
                                ![n] = IF wins THEN Leader ELSE @]
      /\ round' = [round EXCEPT ![n] = IF wins THEN NoRound ELSE [@ EXCEPT !.granted = G]]
      /\ matchIndex' = IF wins THEN [matchIndex EXCEPT ![n] = [q \in Server |-> 0]] ELSE matchIndex
      /\ elected' = IF wins THEN elected \cup {<<t, n>>} ELSE elected
      /\ log' = log /\ committed' = committed
  BY <1>t DEF GrantVote
<1>3. CandidateOK(D, n) /\ p # n
  BY <1>2 DEF ElectInv, CandidateOK
<1>4. /\ t > currentTerm[p] \/ (t = currentTerm[p] /\ votedFor[p] \in {Nil, n})
      /\ UpToDate(log[n], log[p])
  BY <1>2, <1>t DEF Grants, UpToDate
<1>5. G \in SUBSET Server /\ n \notin round[n].asked /\ G \subseteq round[n].asked
      /\ round[n].asked \in SUBSET Server /\ Cluster(D, round[n].asked \cup {n})
  BY <1>1, <1>2, <1>3 DEF CandidateOK
<1>6. wins => QuorumOf(D, G \cup {n})
  BY <1>5, WinsIsQuorum
<1> HIDE DEF wins
<1>7. \A v \in Server : currentTerm'[v] >= currentTerm[v]
  BY <1>1, <1>2, <1>4
<1>8. currentTerm'[n] = t /\ state'[n] = IF wins THEN Leader ELSE Candidate
  BY <1>1, <1>2, <1>3, <1>t
<1>9. ASSUME NEW m \in Server, state'[m] = Leader, m # n
      PROVE  /\ state[m] = Leader /\ currentTerm'[m] = currentTerm[m]
             /\ \A v \in Server : matchIndex'[m][v] <= matchIndex[m][v]
  <2>1. state[m] = Leader /\ currentTerm'[m] = currentTerm[m]
    <3>1. CASE m # p
      BY <1>1, <1>2, <1>9, <3>1
    <3>2. CASE m = p
      BY <1>1, <1>2, <1>3, <1>4, <1>9, <3>2 DEF Follower, Leader
    <3> QED
      BY <3>1, <3>2
  <2>2. ASSUME NEW v \in Server PROVE matchIndex'[m][v] <= matchIndex[m][v]
    <3>1. matchIndex[m][v] \in Nat /\ matchIndex'[m] = matchIndex[m]
      BY <1>1, <1>2, <1>9
    <3> QED
      BY <3>1
  <2> QED
    BY <2>1, <2>2
<1>10. ASSUME NEW s \in Server, state'[s] = Candidate
       PROVE  /\ state[s] = Candidate /\ currentTerm'[s] = currentTerm[s]
              /\ \A v \in Server : v \in Backers(s)' => v \in Backers(s) \/ UpToDate(log[s], log[v])
  <2>1. CASE s = n
    <3>1. ~wins
      BY <1>8, <1>10, <2>1 DEF Candidate, Leader
    <3>2. round'[n].granted = G
      BY <1>1, <1>2, <3>1
    <3> QED
      BY <1>2, <1>4, <1>8, <1>t, <2>1, <3>2 DEF Backers
  <2>2. CASE s # n
    <3>1. round'[s] = round[s]
      BY <1>1, <1>2, <2>2
    <3>2. state[s] = Candidate /\ currentTerm'[s] = currentTerm[s]
      <4>1. CASE s # p
        BY <1>1, <1>2, <1>10, <2>2, <4>1
      <4>2. CASE s = p
        BY <1>1, <1>2, <1>3, <1>4, <1>10, <4>2 DEF Follower, Candidate
      <4> QED
        BY <4>1, <4>2
    <3> QED
      BY <3>1, <3>2 DEF Backers
  <2> QED
    BY <2>1, <2>2
<1>11. CASE ~wins
  <2>1. ASSUME NEW m \in Server, state'[m] = Leader PROVE m # n
    BY <1>8, <1>11, <2>1 DEF Candidate, Leader
  <2>2. elected' = elected
    BY <1>2, <1>11
  <2>3. Calm(D, Nil)
    BY <1>0, <1>2, <1>7, <1>9, <1>10, <2>1, <2>2 DEF Calm
  <2> QED
    BY <2>3
<1>12. CASE wins
  <2>1. ASSUME NEW v \in G \cup {n}
        PROVE  currentTerm'[v] >= currentTerm[n] /\ (v \in Backers(n) \/ UpToDate(log[n], log[v]))
    <3>1. CASE v = n
      BY <1>1, <1>8, <1>t, <3>1 DEF Backers
    <3>2. CASE v = p
      BY <1>1, <1>2, <1>4, <1>t, <3>2
    <3>3. CASE v \in round[n].granted
      <4>1. v \in Server /\ Voted(v, currentTerm[n], n)
        BY <1>1, <1>3, <3>3 DEF CandidateOK
      <4>2. currentTerm[v] \in Nat /\ currentTerm'[v] \in Nat /\ currentTerm[v] >= currentTerm[n]
        BY <1>1, <1>2, <4>1 DEF Voted
      <4>3. currentTerm'[v] >= currentTerm[n]
        BY <1>7, <1>t, <4>1, <4>2
      <4> QED
        BY <3>3, <4>3 DEF Backers
    <3> QED
      BY <3>1, <3>2, <3>3
  <2>2. \A v \in Server : matchIndex'[n][v] = 0
    BY <1>1, <1>2, <1>12
  <2>3. G \cup {n} \in SUBSET Server /\ QuorumOf(D, G \cup {n})
    BY <1>5, <1>6, <1>12
  <2>4. /\ state[n] = Candidate /\ state'[n] = Leader /\ currentTerm'[n] = currentTerm[n]
        /\ elected' = elected \cup {<<currentTerm[n], n>>}
    BY <1>2, <1>8, <1>12, <1>t
  <2> HIDE DEF G
  <2>5. Victory(D, n)
    BY <2>1, <2>2, <2>3, <2>4 DEF Victory
  <2>6. Calm(D, n)
    BY <1>2, <1>7, <1>9, <1>10, <2>5 DEF Calm
  <2> QED
    BY <2>6
<1> QED
  BY <1>11, <1>12

\* All the steps that are calm.
LEMMA CalmSteps ==
    ASSUME NEW D, ConfigInv(D), ElectInv(D), Counters, RolesOK', [Next]_vars
    PROVE  \/ \E w \in Server \cup {Nil} : Calm(D, w)
           \/ \E n \in Server : Submit(n)
           \/ \E n, a \in Server : AddPeer(n, a) \/ RemovePeer(n, a)
           \/ \E n, p \in Server, answered \in BOOLEAN : AppendEntries(n, p, answered)
<1> USE DEF Follower, Candidate, Leader
<1> DEFINE Goal == \E w \in Server \cup {Nil} : Calm(D, w)
<1>0. /\ RolesOK /\ currentTerm \in [Server -> Nat]
      /\ state \in [Server -> {Follower, Candidate, Leader}]
      /\ matchIndex \in [Server -> [Server -> Nat]]
      /\ Nil \notin Server
  BY MembershipAssumption DEF ConfigInv, RolesOK, Counters
<1>1. ASSUME NEW n \in Server, Stand(n) PROVE Goal
  <2>1. /\ currentTerm' = [currentTerm EXCEPT ![n] = currentTerm[n] + 1]
        /\ state' = [state EXCEPT ![n] = Candidate]
        /\ round' = [round EXCEPT ![n] = [asked |-> peers[n], granted |-> {}]]
        /\ UNCHANGED <<log, matchIndex, elected, committed>>
    BY <1>1 DEF Stand, history
  <2>2. DOMAIN round = Server
    BY <1>0 DEF RolesOK
  <2>3. \A v \in Server : currentTerm'[v] >= currentTerm[v]
    BY <1>0, <2>1
  <2>4. ASSUME NEW m \in Server, state'[m] = Leader
        PROVE  /\ state[m] = Leader /\ currentTerm'[m] = currentTerm[m]
               /\ \A v \in Server : matchIndex'[m][v] <= matchIndex[m][v]
    <3>1. state[m] = Leader /\ currentTerm'[m] = currentTerm[m]
      BY <1>0, <2>1, <2>4
    <3>2. \A v \in Server : matchIndex[m][v] \in Nat
      BY <1>0
    <3> QED
      BY <2>1, <3>1, <3>2
  <2>5. ASSUME NEW s \in Server, state'[s] = Candidate
        PROVE  /\ \/ state[s] = Candidate /\ currentTerm'[s] = currentTerm[s]
                  \/ currentTerm'[s] > currentTerm[s]
               /\ \A v \in Server : v \in Backers(s)' =>
                     \/ state[s] = Candidate /\ currentTerm'[s] = currentTerm[s] /\ v \in Backers(s)
                     \/ UpToDate(log[s], log[v])
    <3>1. CASE s = n
      <4>1. Backers(s)' = {n} /\ currentTerm'[s] > currentTerm[s]
        BY <1>0, <2>1, <2>2, <3>1 DEF Backers
      <4>2. UpToDate(log[n], log[n])
        <5>1. LogsOK(D)
          BY DEF ConfigInv
        <5>2. LastIndex(log[n]) \in Nat
          BY <5>1, LogNumbers
        <5> QED
          BY <5>2 DEF UpToDate
      <4> QED
        BY <3>1, <4>1, <4>2
    <3>2. CASE s # n
      BY <1>0, <2>1, <2>2, <2>5, <3>2 DEF Backers
    <3> QED
      BY <3>1, <3>2
  <2>6. Calm(D, Nil)
    BY <1>0, <2>1, <2>3, <2>4, <2>5 DEF Calm
  <2> QED
    BY <2>6
<1>2. ASSUME NEW n \in Server, NEW p \in Server, GrantVote(n, p) PROVE Goal
  BY <1>2, GrantIsCalm
<1>3. ASSUME VoteOnce, NoCampaign, log' = log, committed' = committed,
             \A m \in Server : state'[m] = Leader =>
               /\ state[m] = Leader /\ currentTerm'[m] = currentTerm[m]
               /\ \A v \in Server : matchIndex'[m][v] <= matchIndex[m][v]
      PROVE  Goal
  <2>1. Calm(D, Nil)
    BY <1>0, <1>3, QuietIsCalm
  <2> QED
    BY <2>1
<1> HIDE DEF Goal
<1>4. ASSUME VoteOnce, NoCampaign, log' = log, committed' = committed, matchIndex' = matchIndex,
             \A m \in Server : state'[m] = Leader =>
                 state[m] = Leader /\ currentTerm'[m] = currentTerm[m]
      PROVE  Goal
  <2>1. \A m, v \in Server : matchIndex[m][v] \in Nat
    BY <1>0
  <2>2. \A m, v \in Server : matchIndex'[m][v] <= matchIndex[m][v]
    BY <1>4, <2>1
  <2> QED
    BY <1>3, <1>4, <2>2
<1>5. ASSUME NEW n \in Server, NEW t, BecomeFollower(n, t), UNCHANGED <<log, matchIndex, history>>,
             VoteOnce, NoCampaign
      PROVE  Goal
  <2>1. /\ currentTerm' = [currentTerm EXCEPT ![n] = t]
        /\ state' = [state EXCEPT ![n] = Follower]
        /\ log' = log /\ committed' = committed /\ matchIndex' = matchIndex
    BY <1>5 DEF BecomeFollower, history
  <2>2. \A m \in Server : state'[m] = Leader =>
            state[m] = Leader /\ currentTerm'[m] = currentTerm[m]
    BY <1>0, <2>1
  <2> QED
    BY <1>4, <1>5, <2>1, <2>2
<1>6. ASSUME VoteOnce, NoCampaign, \E n, p \in Server : RefuseVote(n, p) \/ StepDown(n, p) PROVE Goal
  BY <1>5, <1>6 DEF RefuseVote, StepDown
<1>7. ASSUME VoteOnce, NoCampaign, NEW n \in Server, Apply(n) PROVE Goal
  <2>1. UNCHANGED <<log, currentTerm, committed>>
    BY <1>7 DEF Apply, persistent, history
  <2>2. ASSUME NEW m \in Server, state'[m] = Leader
        PROVE  state[m] = Leader /\ currentTerm'[m] = currentTerm[m]
    <3>1. state' = state \/ state' = [state EXCEPT ![n] = Follower]
      BY <1>0, <1>7 DEF Apply, ApplyConfig
    <3> QED
      BY <1>0, <2>1, <2>2, <3>1
  <2>3. ASSUME NEW m \in Server, NEW v \in Server PROVE matchIndex'[m][v] <= matchIndex[m][v]
    <3>1. matchIndex[m][v] \in Nat
      BY <1>0
    <3>2. matchIndex'[m][v] \in {matchIndex[m][v], 0}
      <4>1. CASE matchIndex' = matchIndex
        BY <4>1
      <4>2. ASSUME NEW ch, ApplyConfig(n, ch) PROVE matchIndex'[m][v] \in {matchIndex[m][v], 0}
        <5>1. matchIndex' = [matchIndex EXCEPT ![n] =
                  [p \in Server |-> IF p \in peers'[n] \cap peers[n] THEN matchIndex[n][p] ELSE 0]]
          BY <4>2 DEF ApplyConfig
        <5>2. CASE m = n
          BY <1>0, <5>1, <5>2
        <5>3. CASE m # n
          BY <1>0, <5>1, <5>3
        <5> QED
          BY <5>2, <5>3
      <4> QED
        BY <1>7, <4>1, <4>2 DEF Apply
    <3> QED
      BY <3>1, <3>2
  <2> QED
    BY <1>3, <1>7, <2>1, <2>2, <2>3
<1>8. ASSUME VoteOnce, NoCampaign, NEW n \in Server, Restart(n) PROVE Goal
  <2>1. /\ UNCHANGED <<log, currentTerm, committed>>
        /\ state' = [state EXCEPT ![n] = Follower]
        /\ matchIndex' = [matchIndex EXCEPT ![n] = [p \in Server |-> 0]]
    BY <1>8 DEF Restart, persistent, history
  <2>2. ASSUME NEW m \in Server, state'[m] = Leader
        PROVE  /\ state[m] = Leader /\ currentTerm'[m] = currentTerm[m]
               /\ \A v \in Server : matchIndex'[m][v] <= matchIndex[m][v]
    <3>1. m # n /\ state[m] = Leader /\ currentTerm'[m] = currentTerm[m]
      BY <1>0, <2>1, <2>2
    <3>2. \A v \in Server : matchIndex[m][v] \in Nat /\ matchIndex'[m] = matchIndex[m]
      BY <1>0, <2>1, <3>1
    <3> QED
      BY <3>1, <3>2
  <2> QED
    BY <1>3, <1>8, <2>1, <2>2
<1>9. ASSUME VoteOnce, NoCampaign, UNCHANGED vars PROVE Goal
  BY <1>4, <1>9 DEF vars, persistent, history
<1>10. \/ \E n \in Server : Stand(n)
       \/ \E n, p \in Server : GrantVote(n, p)
       \/ VoteOnce /\ NoCampaign
  BY <1>0, StepKinds
<1>11. CASE VoteOnce /\ NoCampaign
  <2>1. \/ Goal
        \/ \E n \in Server : Stand(n)
        \/ \E n, p \in Server : GrantVote(n, p)
        \/ \E n \in Server : Submit(n)
        \/ \E n, a \in Server : AddPeer(n, a) \/ RemovePeer(n, a)
        \/ \E n, p \in Server, answered \in BOOLEAN : AppendEntries(n, p, answered)
    BY <1>6, <1>7, <1>8, <1>9, <1>11, Zenon DEF Next
  <2> QED
    BY <1>1, <1>2, <2>1 DEF Goal
<1> QED
  BY <1>1, <1>2, <1>10, <1>11 DEF Goal

-----------------------------------------------------------------------------
(* A leader appends.                                                       *)

\* Log m is log l with one more entry, of term t.
Grown(l, m, t) ==
    /\ LastIndex(m) = LastIndex(l) + 1 /\ LastTerm(m) = t /\ m[1] = l[1]
    /\ Get(m, LastIndex(l) + 1).term = t
    /\ \A i \in 1 .. LastIndex(l) : Get(m, i) = Get(l, i)

Appends(n) ==
    /\ state[n] = Leader
    /\ DOMAIN log' = Server /\ Grown(log[n], log'[n], currentTerm[n])
    /\ \A m \in Server : m # n => log'[m] = log[m]
    /\ UNCHANGED <<currentTerm, state, round, elected, committed>>
    /\ \A m, v \in Server : matchIndex'[m][v] <= matchIndex[m][v]

\* Submit, AddPeer and RemovePeer.
LEMMA AppendIsGrown ==
    ASSUME NEW D, LogsOK(D), RolesOK, NEW n \in Server, NEW c \in Cmd \cup D, Append1(n, c),
           \A m, v \in Server : matchIndex'[m][v] <= matchIndex[m][v]
    PROVE  Appends(n)
<1> DEFINE e == Entry1(n, c)
           m == log[n] \o <<e>>
<1>1. IsLog(Cmd \cup D, Nat, log[n]) /\ SnapshotIndex(log[n]) = 0 /\ LastIndex(log[n]) \in Nat
  BY LogOf
<1>2. /\ state[n] = Leader /\ log' = [log EXCEPT ![n] = m]
      /\ UNCHANGED <<currentTerm, state, round, elected, committed>>
  BY DEF Append1
<1>3. currentTerm[n] \in Nat /\ currentTerm[n] # 0
  BY <1>2 DEF RolesOK, Follower, Leader
<1>4. /\ e \in EntryOf(Cmd \cup D, Nat) /\ e.term = currentTerm[n]
      /\ e.index = LastIndex(log[n]) + 1 /\ e.term # 0 /\ e.cmd \in Cmd \cup D
  BY <1>1, <1>3 DEF Entry1, EntryOf
<1> HIDE DEF e
<1>5. /\ IsLog(Cmd \cup D, Nat, m) /\ LastIndex(m) = LastIndex(log[n]) + 1
      /\ Get(m, LastIndex(log[n]) + 1) = e
      /\ \A i \in SnapshotIndex(log[n]) .. LastIndex(log[n]) : Get(m, i) = Get(log[n], i)
  BY <1>1, <1>4, AppendOne
<1>6. m[1] = log[n][1]
  <2>1. log[n] \in Seq(EntryOf(Cmd \cup D, Nat)) /\ Len(log[n]) >= 1
    BY <1>1 DEF IsLog
  <2> QED
    BY <1>4, <2>1
<1> HIDE DEF m
<1>7. LastTerm(m) = currentTerm[n]
  <2>1. LastTerm(m) = Get(m, LastIndex(m)).term
    BY <1>5, LogFacts
  <2> QED
    BY <1>4, <1>5, <2>1
<1>8. \A i \in 1 .. LastIndex(log[n]) : Get(m, i) = Get(log[n], i)
  BY <1>1, <1>5
<1>9. Grown(log[n], m, currentTerm[n])
  BY <1>4, <1>5, <1>6, <1>7, <1>8 DEF Grown
<1>10. DOMAIN log = Server
  BY DEF LogsOK
<1>11. log'[n] = m /\ DOMAIN log' = Server /\ \A k \in Server : k # n => log'[k] = log[k]
  BY <1>2, <1>10
<1> QED
  BY <1>2, <1>9, <1>11 DEF Appends

\* No other log has an entry where the leader writes its next.
LEMMA AppendLog ==
    ASSUME NEW D, LogsOK(D), RolesOK, ElectInv(D), LogInv, Counters', NEW n \in Server, Appends(n)
    PROVE  LogInv'
<1>t. PICK t \in Nat : t = currentTerm[n]
  BY DEF RolesOK
<1>l. PICK l : l = log'[n]
  OBVIOUS
<1> DEFINE a == LastIndex(log[n])
<1>0. /\ state[n] = Leader /\ Grown(log[n], l, t)
      /\ \A k \in Server : k # n => log'[k] = log[k]
      /\ currentTerm' = currentTerm /\ state' = state /\ elected' = elected
  BY <1>t, <1>l DEF Appends
<1>1. \A k \in Server : LastIndex(log[k]) \in Nat /\ LastTerm(log[k]) \in Nat
  BY LogNumbers
<1>2. /\ a \in Nat /\ LastIndex(l) = a + 1 /\ LastTerm(l) = t /\ l[1] = log[n][1]
      /\ Get(l, a + 1).term = t
      /\ \A i \in 1 .. a : Get(l, i) = Get(log[n], i)
  BY <1>0, <1>1 DEF Grown
<1>3. /\ <<t, n>> \in elected
      /\ \A k \in Server : \A i \in 1 .. LastIndex(log[k]) :
            Get(log[k], i).term = t => i \in 1 .. a /\ Get(log[n], i).term = t
  BY <1>0, <1>t DEF LogInv, LeadersOK, Own
<1> HIDE DEF a
<1>4. ASSUME NEW k \in Server
      PROVE  /\ log'[k][1] = ZeroEntry
             /\ LastTerm(log'[k]) <= currentTerm'[k]
             /\ \A i \in 1 .. LastIndex(log'[k]) :
                   /\ Get(log'[k], i).term <= LastTerm(log'[k])
                   /\ \E e \in elected' : e[1] = Get(log'[k], i).term
  <2>1. CASE k # n
    BY <1>0, <2>1 DEF LogInv, TermsOK
  <2>2. CASE k = n
    <3>1. l[1] = ZeroEntry /\ LastTerm(log[n]) <= t /\ LastTerm(l) <= t
      BY <1>2, <1>t DEF LogInv, TermsOK
    <3>2. ASSUME NEW i \in 1 .. LastIndex(l)
          PROVE  Get(l, i).term <= LastTerm(l) /\ \E e \in elected : e[1] = Get(l, i).term
      <4>1. CASE i \in 1 .. a
        <5>1. /\ Get(log[n], i).term <= LastTerm(log[n])
              /\ \E e \in elected : e[1] = Get(log[n], i).term
          BY <4>1 DEF LogInv, TermsOK, a
        <5>2. Get(log[n], i).term \in Nat
          BY <4>1, LogNumbers DEF a
        <5>3. LastTerm(log[n]) \in Nat /\ Get(l, i) = Get(log[n], i)
          BY <1>1, <1>2, <4>1
        <5> QED
          BY <1>2, <3>1, <5>1, <5>2, <5>3
      <4>2. CASE i = a + 1
        <5>1. <<t, n>>[1] = t
          OBVIOUS
        <5> QED
          BY <1>2, <1>3, <4>2, <5>1
      <4> QED
        BY <1>2, <4>1, <4>2
    <3> QED
      BY <1>0, <1>l, <1>t, <2>2, <3>1, <3>2
  <2> QED
    BY <2>1, <2>2
<1>5. TermsOK'
  BY <1>4 DEF TermsOK
<1>6. ASSUME NEW k \in Server, k # n, NEW i \in Nat, 1 <= i, i <= LastIndex(l),
             i <= LastIndex(log[k]), Get(l, i).term = Get(log[k], i).term
      PROVE  \A j \in 1 .. i : Get(l, j) = Get(log[k], j)
  <2>1. i \in 1 .. LastIndex(log[k])
    BY <1>1, <1>6
  <2>2. i <= a
    <3>1. SUFFICES ASSUME ~(i <= a) PROVE FALSE
      OBVIOUS
    <3>2. i = a + 1
      BY <1>2, <1>6, <3>1
    <3>3. i \in 1 .. a
      BY <1>2, <1>3, <1>6, <2>1, <3>2
    <3> QED
      BY <1>2, <3>1, <3>3
  <2>3. Get(log[n], i).term = Get(log[k], i).term /\ i <= LastIndex(log[n])
    <3>1. i \in 1 .. a
      BY <1>2, <1>6, <2>2
    <3> QED
      BY <1>2, <1>6, <2>2, <3>1 DEF a
  <2>4. Same(log[n], log[k], i)
    BY <1>6, <2>3 DEF LogInv, Matching
  <2>5. \A j \in 1 .. i : j \in 1 .. a
    BY <1>2, <2>2
  <2> QED
    BY <1>2, <2>4, <2>5 DEF Same
<1>7. Matching'
  <2> SUFFICES ASSUME NEW x \in Server, NEW y \in Server, NEW i \in Nat, 1 <= i,
                      i <= LastIndex(log'[x]), i <= LastIndex(log'[y]),
                      Get(log'[x], i).term = Get(log'[y], i).term
               PROVE  Same(log'[x], log'[y], i)
    BY DEF Matching
  <2>1. CASE x = n /\ y = n
    BY <2>1 DEF Same
  <2>2. CASE x = n /\ y # n
    <3>1. \A j \in 1 .. i : Get(l, j) = Get(log[y], j)
      BY <1>0, <1>6, <1>l, <2>2
    <3> QED
      BY <1>0, <1>l, <2>2, <3>1 DEF Same
  <2>3. CASE x # n /\ y = n
    <3>1. \A j \in 1 .. i : Get(l, j) = Get(log[x], j)
      BY <1>0, <1>6, <1>l, <2>3
    <3> QED
      BY <1>0, <1>l, <2>3, <3>1 DEF Same
  <2>4. CASE x # n /\ y # n
    BY <1>0, <2>4 DEF LogInv, Matching
  <2> QED
    BY <2>1, <2>2, <2>3, <2>4
<1>8. ASSUME NEW k \in Server, state[k] = Leader, NEW x \in Server, NEW i \in 1 .. LastIndex(log'[x]),
             Get(log'[x], i).term = currentTerm[k]
      PROVE  Own(k, i)'
  <2>1. CASE k = n
    <3>1. CASE x = n
      BY <1>0, <1>8, <2>1, <3>1 DEF Own
    <3>2. CASE x # n
      <4>1. i \in 1 .. a /\ Get(log[n], i).term = t
        BY <1>0, <1>3, <1>8, <1>t, <2>1, <3>2
      <4>2. i \in 1 .. LastIndex(l) /\ Get(l, i).term = t
        BY <1>2, <4>1
      <4> QED
        BY <1>0, <1>l, <1>t, <2>1, <4>2 DEF Own
    <3> QED
      BY <3>1, <3>2
  <2>2. CASE k # n
    <3>0. currentTerm[k] # t /\ log'[k] = log[k]
      BY <1>0, <1>8, <1>t, <2>2, LeadersDiffer DEF LogInv
    <3>1. i \in 1 .. LastIndex(log[x]) /\ Get(log[x], i).term = currentTerm[k]
      <4>1. CASE x # n
        BY <1>0, <1>8, <4>1
      <4>2. CASE x = n
        <5>1. i \in 1 .. a \/ i = a + 1
          BY <1>2, <1>8, <1>l, <4>2
        <5>2. i # a + 1
          BY <1>2, <1>8, <1>l, <3>0, <4>2
        <5> QED
          BY <1>2, <1>8, <1>l, <4>2, <5>1, <5>2 DEF a
      <4> QED
        BY <4>1, <4>2
    <3>2. Own(k, i)
      BY <1>8, <3>1 DEF LogInv, LeadersOK
    <3> QED
      BY <1>0, <3>0, <3>2 DEF Own
  <2> QED
    BY <2>1, <2>2
<1>9. ASSUME NEW k \in Server, state[k] = Leader, NEW v \in Server
      PROVE  matchIndex'[k][v] <= LastIndex(log'[k])
  <2>1. matchIndex[k][v] \in Nat /\ matchIndex'[k][v] \in Nat
    BY DEF LogInv, Counters
  <2>2. matchIndex[k][v] <= LastIndex(log[k]) /\ matchIndex'[k][v] <= matchIndex[k][v]
    BY <1>9 DEF LogInv, LeadersOK, Appends
  <2>3. LastIndex(log[k]) \in Nat /\ LastIndex(log'[k]) \in {LastIndex(log[k]), LastIndex(log[k]) + 1}
    BY <1>0, <1>1, <1>2, <1>l DEF a
  <2> QED
    BY <2>1, <2>2, <2>3
<1>10. LeadersOK'
  BY <1>0, <1>8, <1>9 DEF LogInv, LeadersOK
<1> QED
  BY <1>5, <1>7, <1>10 DEF LogInv

\* A new entry that a later leader cannot have is lost from the start.
LEMMA LaterElection ==
    ASSUME NEW D, LogsOK(D), RolesOK, ElectInv(D), LogInv, Counters', NEW n \in Server, Appends(n),
           NEW e \in elected, e[1] > currentTerm[n], NEW i \in Nat, i = LastIndex(log[n]) + 1
    PROVE  Lost(D, n, i)'
<1>1. PICK Q \in SUBSET Server : QuorumOf(D, Q) /\ BackedBy(e[1], e[2], Q)
  BY DEF ElectInv, ElectedOK
<1>2. e[1] \in Nat
  BY DEF ElectInv, ElectedOK
<1>3. ASSUME NEW v \in Q
      PROVE  currentTerm'[v] > currentTerm'[n] /\ matchIndex'[n][v] < i
  <2>1. v \in Server /\ Voted(v, e[1], e[2])
    BY <1>1 DEF BackedBy
  <2>2. currentTerm[v] \in Nat /\ currentTerm[n] \in Nat /\ currentTerm' = currentTerm
    BY <2>1 DEF RolesOK, Appends
  <2>3. matchIndex[n][v] \in Nat /\ matchIndex'[n][v] \in Nat
    BY <2>1 DEF LogInv, Counters
  <2>4. matchIndex[n][v] <= LastIndex(log[n]) /\ matchIndex'[n][v] <= matchIndex[n][v]
    BY <2>1 DEF LogInv, LeadersOK, Appends
  <2>5. currentTerm[v] > currentTerm[n]
    BY <1>2, <2>1, <2>2 DEF Voted
  <2>6. LastIndex(log[n]) \in Nat
    BY LogNumbers
  <2> QED
    BY <2>2, <2>3, <2>4, <2>5, <2>6
<1> QED
  BY <1>1, <1>3 DEF Lost

\* The entries that may be committed stay so.
LEMMA AppendKeepsEntries ==
    ASSUME NEW D, LogsOK(D), RolesOK, ElectInv(D), LogInv, Counters', EntriesInv(D),
           NEW n \in Server, Appends(n)
    PROVE  EntriesInv(D)'
<1>t. PICK t \in Nat : t = currentTerm[n]
  BY DEF RolesOK
<1>l. PICK l : l = log'[n]
  OBVIOUS
<1> DEFINE a == LastIndex(log[n])
<1>0. /\ state[n] = Leader /\ Grown(log[n], l, t)
      /\ \A k \in Server : k # n => log'[k] = log[k]
      /\ currentTerm' = currentTerm /\ state' = state /\ elected' = elected /\ round' = round
  BY <1>t, <1>l DEF Appends
<1>1. \A k \in Server : LastIndex(log[k]) \in Nat /\ LastTerm(log[k]) \in Nat /\ currentTerm[k] \in Nat
                        /\ LastTerm(log[k]) <= currentTerm[k]
  BY LogNumbers DEF RolesOK, LogInv, TermsOK
<1>2. /\ a \in Nat /\ LastIndex(l) = a + 1 /\ LastTerm(l) = t
      /\ \A i \in 1 .. a : Get(l, i) = Get(log[n], i)
  BY <1>0, <1>1 DEF Grown
<1>3. \A k, v \in Server : /\ matchIndex[k][v] \in Nat /\ matchIndex'[k][v] \in Nat
                           /\ matchIndex'[k][v] <= matchIndex[k][v]
  BY DEF Appends, LogInv, Counters
<1>b. \A s \in Server : Backers(s)' = Backers(s)
  BY <1>0 DEF Backers
<1>4. ASSUME NEW k \in Server, NEW i \in Nat, Lost(D, k, i) PROVE Lost(D, k, i)'
  <2>1. PICK Q \in SUBSET Server :
            QuorumOf(D, Q) /\ \A v \in Q : currentTerm[v] > currentTerm[k] /\ matchIndex[k][v] < i
    BY <1>4 DEF Lost
  <2>2. \A v \in Q : currentTerm'[v] > currentTerm'[k] /\ matchIndex'[k][v] < i
    BY <1>0, <1>3, <2>1
  <2> QED
    BY <2>1, <2>2 DEF Lost
<1>5. ASSUME NEW i \in Nat, NEW u, i <= a, Same(log[n], u, i) PROVE Same(l, u, i)
  <2>1. \A j \in 1 .. i : j \in 1 .. a
    BY <1>2, <1>5
  <2>2. i <= LastIndex(l)
    BY <1>2, <1>5
  <2> QED
    BY <1>2, <1>5, <2>1, <2>2 DEF Same
<1>6. ASSUME NEW i \in Nat, NEW u, i <= a, Same(u, log[n], i) PROVE Same(u, l, i)
  <2>1. \A j \in 1 .. i : j \in 1 .. a
    BY <1>2, <1>6
  <2>2. i <= LastIndex(l)
    BY <1>2, <1>6
  <2> QED
    BY <1>2, <1>6, <2>1, <2>2 DEF Same
<1> HIDE DEF a
<1>7. ASSUME NEW k \in Server, k # n, NEW i \in Nat, state[k] = Leader, Own(k, i)'
      PROVE  Lost(D, k, i)' \/ Spread(k, i)'
  <2>k. PICK r \in Nat : r = currentTerm[k]
    BY <1>1
  <2>1. Own(k, i) /\ log'[k] = log[k]
    BY <1>0, <1>7 DEF Own
  <2>2. SUFFICES ASSUME Spread(k, i) PROVE Spread(k, i)'
    BY <1>4, <1>7, <2>1 DEF EntriesInv
  <2>3. r # t
    BY <1>0, <1>7, <1>t, <2>k, LeadersDiffer DEF LogInv
  <2>4. t > r => AtLeast(log[n], r, i) /\ AtLeast(l, r, i)
    BY <1>0, <1>2, <1>t, <2>2, <2>k DEF Spread, AtLeast
  <2>5. ASSUME NEW s \in Server, LastTerm(log'[s]) > r PROVE Same(log'[s], log[k], i)
    <3>1. CASE s # n
      BY <1>0, <2>2, <2>5, <2>k, <3>1 DEF Spread
    <3>2. CASE s = n
      <4>1. t > r
        BY <1>2, <1>l, <2>5, <3>2
      <4>2. Same(log[n], log[k], i)
        <5>1. LastTerm(log[n]) > currentTerm[k] => Same(log[n], log[k], i)
          BY <2>2 DEF Spread
        <5> QED
          BY <1>7, <2>1, <2>4, <2>k, <4>1, <5>1, OwnIsShared
      <4>3. i <= a
        BY <4>2 DEF Same, a
      <4> QED
        BY <1>5, <1>l, <3>2, <4>2, <4>3
    <3> QED
      BY <3>1, <3>2
  <2>6. ASSUME NEW v \in Server, matchIndex'[k][v] >= i PROVE AtLeast(log'[v], r, i)
    <3>1. AtLeast(log[v], r, i)
      <4>1. matchIndex[k][v] >= i
        BY <1>3, <2>6
      <4> QED
        BY <2>2, <2>k, <4>1 DEF Spread
    <3>2. CASE v = n
      <4>1. LastTerm(log[n]) >= r
        BY <1>1, <3>1, <3>2 DEF AtLeast
      <4>2. t > r
        BY <1>1, <1>t, <2>3, <4>1
      <4> QED
        BY <1>l, <2>4, <3>2, <4>2
    <3>3. CASE v # n
      BY <1>0, <3>1, <3>3
    <3> QED
      BY <3>2, <3>3
  <2>7. ASSUME NEW s \in Server, state'[s] = Leader, currentTerm'[s] > r PROVE AtLeast(log'[s], r, i)
    <3>1. CASE s = n
      BY <1>0, <1>l, <1>t, <2>4, <2>7, <3>1
    <3>2. CASE s # n
      BY <1>0, <2>2, <2>7, <2>k, <3>2 DEF Spread
    <3> QED
      BY <3>1, <3>2
  <2>8. ASSUME NEW s \in Server, NEW v \in Server, state'[s] = Candidate, currentTerm'[s] > r,
               v \in Backers(s)', matchIndex'[k][v] >= i
        PROVE  AtLeast(log'[s], r, i)
    <3>1. s # n /\ matchIndex[k][v] >= i
      BY <1>0, <1>3, <2>8 DEF Leader, Candidate
    <3> QED
      BY <1>0, <1>b, <2>2, <2>8, <2>k, <3>1 DEF Spread
  <2> QED
    BY <1>0, <2>1, <2>5, <2>6, <2>7, <2>8, <2>k DEF Spread
<1>8. ASSUME NEW i \in Nat, Own(n, i)' PROVE Lost(D, n, i)' \/ Spread(n, i)'
  <2>0. i \in 1 .. a \/ i = a + 1
    BY <1>2, <1>8, <1>l DEF Own
  <2>1. CASE i \in 1 .. a
    <3>1. Own(n, i)
      BY <1>0, <1>2, <1>8, <1>l, <2>1 DEF Own, a
    <3>2. SUFFICES ASSUME Spread(n, i) PROVE Spread(n, i)'
      BY <1>0, <1>4, <3>1 DEF EntriesInv
    <3>3. ASSUME NEW s \in Server, LastTerm(log'[s]) > t PROVE Same(log'[s], l, i)
      <4>1. s # n
        BY <1>2, <1>l, <3>3
      <4>2. Same(log[s], log[n], i) /\ log'[s] = log[s] /\ i <= a
        BY <1>0, <1>2, <1>t, <2>1, <3>2, <3>3, <4>1 DEF Spread
      <4> QED
        BY <1>6, <4>2
    <3>4. AtLeast(l, t, i)
      BY <1>2, <2>1 DEF AtLeast
    <3>5. ASSUME NEW v \in Server, matchIndex'[n][v] >= i PROVE AtLeast(log'[v], t, i)
      <4>1. matchIndex[n][v] >= i
        BY <1>3, <3>5
      <4> QED
        BY <1>0, <1>l, <1>t, <3>2, <3>4, <4>1 DEF Spread
    <3>6. ASSUME NEW s \in Server, state'[s] = Leader, currentTerm'[s] > t PROVE AtLeast(log'[s], t, i)
      BY <1>0, <1>l, <1>t, <3>2, <3>4, <3>6 DEF Spread
    <3>7. ASSUME NEW s \in Server, NEW v \in Server, state'[s] = Candidate, currentTerm'[s] > t,
                 v \in Backers(s)', matchIndex'[n][v] >= i
          PROVE  AtLeast(log'[s], t, i)
      <4>1. s # n /\ matchIndex[n][v] >= i
        BY <1>0, <1>3, <3>7 DEF Leader, Candidate
      <4> QED
        BY <1>0, <1>b, <1>t, <3>2, <3>7, <4>1 DEF Spread
    <3> QED
      BY <1>0, <1>l, <1>t, <3>3, <3>5, <3>6, <3>7 DEF Spread
  <2>2. CASE i = a + 1
    <3>1. CASE \E e \in elected : e[1] > t
      BY <1>t, <2>2, <3>1, LaterElection DEF a
    <3>2. CASE ~\E e \in elected : e[1] > t
      <4>1. ASSUME NEW s \in Server, LastTerm(log'[s]) > t PROVE FALSE
        <5>1. s # n /\ log'[s] = log[s]
          BY <1>0, <1>2, <1>l, <4>1
        <5>2. LastIndex(log[s]) \in 1 .. LastIndex(log[s])
          <6>1. LastIndex(log[s]) # 0
            BY <1>1, <4>1, <5>1, SentinelIsZero DEF LogInv
          <6> QED
            BY <1>1, <6>1
        <5>3. LastTerm(log[s]) = Get(log[s], LastIndex(log[s])).term
          BY LogNumbers
        <5>4. \E e \in elected : e[1] = LastTerm(log[s])
          BY <5>2, <5>3 DEF LogInv, TermsOK
        <5> QED
          BY <3>2, <4>1, <5>1, <5>4
      <4>2. ASSUME NEW v \in Server PROVE ~(matchIndex'[n][v] >= i)
        <5>1. matchIndex[n][v] <= a
          BY <1>0 DEF LogInv, LeadersOK, a
        <5> QED
          BY <1>2, <1>3, <2>2, <5>1
      <4>3. ASSUME NEW s \in Server, state'[s] = Leader, currentTerm'[s] > t PROVE FALSE
        <5>1. <<currentTerm[s], s>> \in elected /\ <<currentTerm[s], s>>[1] = currentTerm[s]
          BY <1>0, <4>3 DEF LogInv, LeadersOK
        <5> QED
          BY <1>0, <3>2, <4>3, <5>1
      <4>4. Spread(n, i)'
        BY <1>0, <1>t, <4>1, <4>2, <4>3 DEF Spread
      <4> QED
        BY <4>4
    <3> QED
      BY <3>1, <3>2
  <2> QED
    BY <2>0, <2>1, <2>2
<1> QED
  BY <1>0, <1>7, <1>8 DEF EntriesInv

\* Whoever appends in the term of a commit, or later, has what was committed.
LEMMA AppendKeepsCommitted ==
    ASSUME NEW D, LogsOK(D), RolesOK, ElectInv(D), LogInv, CommittedInv(D),
           NEW n \in Server, Appends(n)
    PROVE  CommittedInv(D)'
<1>r. PICK r \in Nat : r = currentTerm[n]
  BY DEF RolesOK
<1>l. PICK l : l = log'[n]
  OBVIOUS
<1> DEFINE a == LastIndex(log[n])
<1>0. /\ state[n] = Leader /\ Grown(log[n], l, r)
      /\ \A k \in Server : k # n => log'[k] = log[k]
      /\ currentTerm' = currentTerm /\ state' = state /\ elected' = elected /\ round' = round
      /\ committed' = committed
  BY <1>r, <1>l DEF Appends
<1>1. /\ a \in Nat /\ LastTerm(log[n]) \in Nat /\ LastTerm(log[n]) <= r
  BY <1>r, LogNumbers DEF LogInv, TermsOK
<1>2. /\ LastIndex(l) = a + 1 /\ LastTerm(l) = r
      /\ \A i \in 1 .. a : Get(l, i) = Get(log[n], i)
  BY <1>0, <1>1 DEF Grown
<1>b. \A s \in Server : Backers(s)' = Backers(s)
  BY <1>0 DEF Backers
<1> SUFFICES ASSUME NEW c \in committed
             PROVE  /\ c[1] \in Nat /\ c[2].index \in Nat /\ 1 <= c[2].index
                    /\ \E e \in elected : e[1] = c[1]
                    /\ \E i \in Nat, Q \in SUBSET Server :
                          1 <= i /\ QuorumOf(D, Q) /\ Kept(c[1], c[2], i, Q)'
  BY <1>0 DEF CommittedInv
<1>3. /\ c[1] \in Nat /\ c[2].index \in Nat /\ 1 <= c[2].index
      /\ \E e \in elected : e[1] = c[1]
  BY DEF CommittedInv
<1>4. PICK i \in Nat, Q \in SUBSET Server : 1 <= i /\ QuorumOf(D, Q) /\ Kept(c[1], c[2], i, Q)
  BY DEF CommittedInv
<1>t. PICK t \in Nat : t = c[1]
  BY <1>3
<1>e. PICK e : e = c[2]
  OBVIOUS
<1>5. Kept(t, e, i, Q) /\ e.index \in Nat /\ 1 <= e.index
  BY <1>3, <1>4, <1>t, <1>e
<1>6. r >= t => AtLeast(log[n], t, i) /\ AtLeast(l, t, i)
  <2> SUFFICES ASSUME r >= t PROVE AtLeast(log[n], t, i) /\ AtLeast(l, t, i)
    OBVIOUS
  <2>1. AtLeast(log[n], t, i)
    BY <1>0, <1>5, <1>r DEF Kept
  <2> HIDE DEF a
  <2>2. AtLeast(l, t, i)
    BY <1>1, <1>2, <2>1 DEF AtLeast, a
  <2> QED
    BY <2>1, <2>2
<1>7. AtLeast(log[n], t, i) => r >= t
  BY <1>1 DEF AtLeast
<1>8. AtLeast(l, t, i) => Get(l, e.index) = e
  <2>1. SUFFICES ASSUME AtLeast(l, t, i) PROVE Get(l, e.index) = e
    OBVIOUS
  <2>2. r >= t
    BY <1>2, <2>1 DEF AtLeast
  <2>3. Get(log[n], e.index) = e
    BY <1>5, <1>6, <2>2 DEF Kept
  <2>4. Get(log[n], e.index) # ZeroEntry
    BY <1>5, <2>3 DEF ZeroEntry
  <2>5. e.index <= a
    BY <1>5, <2>4, NothingBeyond
  <2>6. e.index \in 1 .. a
    BY <1>1, <1>5, <2>5
  <2> QED
    BY <1>2, <2>3, <2>6
<1>9. \A s \in Server : AtLeast(log'[s], t, i) => Get(log'[s], e.index) = e
  BY <1>0, <1>5, <1>8, <1>l DEF Kept
<1>10. \A v \in Q : AtLeast(log'[v], t, i)
  BY <1>0, <1>4, <1>5, <1>6, <1>7, <1>l DEF Kept
<1>11. \A s \in Server : (state'[s] = Leader /\ currentTerm'[s] >= t) => AtLeast(log'[s], t, i)
  BY <1>0, <1>5, <1>6, <1>l, <1>r DEF Kept
<1>12. \A s, v \in Server : (state'[s] = Candidate /\ currentTerm'[s] > t /\ v \in Backers(s)' /\ v \in Q)
                               => AtLeast(log'[s], t, i)
  <2> SUFFICES ASSUME NEW s \in Server, NEW v \in Server, state'[s] = Candidate, currentTerm'[s] > t,
                      v \in Backers(s)', v \in Q
               PROVE  AtLeast(log'[s], t, i)
    OBVIOUS
  <2>1. s # n
    BY <1>0 DEF Leader, Candidate
  <2> QED
    BY <1>0, <1>5, <1>b, <2>1 DEF Kept
<1>13. Kept(t, e, i, Q)'
  BY <1>9, <1>10, <1>11, <1>12 DEF Kept
<1> QED
  BY <1>3, <1>4, <1>13, <1>t, <1>e

-----------------------------------------------------------------------------
(* A follower takes the log of a leader.                                   *)

Merges(n, p) ==
    /\ state[n] = Leader /\ p # n /\ currentTerm[p] <= currentTerm[n]
    /\ \/ log'[p] = log[n]
       \/ log'[p] = log[p] /\ Same(log[p], log[n], LastIndex(log[n]))
    /\ \A m \in Server : m # p => log'[m] = log[m]
    /\ currentTerm' = [currentTerm EXCEPT ![p] = currentTerm[n]]
    /\ state' = [state EXCEPT ![p] = Follower]
    /\ round' = round /\ elected' = elected
    /\ \A m, v \in Server : ~(m = n /\ v = p) => matchIndex'[m][v] = matchIndex[m][v]
    /\ matchIndex'[n][p] <= LastIndex(log[n])

\* No log is new.
LEMMA MergedLogs ==
    ASSUME NEW n \in Server, NEW p \in Server, Merges(n, p), NEW s \in Server
    PROVE  \E y \in Server : log'[s] = log[y]
BY DEF Merges

\* The logs keep matching.
LEMMA MergeLog ==
    ASSUME NEW D, LogsOK(D), RolesOK, ElectInv(D), LogInv, Counters',
           NEW n \in Server, NEW p \in Server, Merges(n, p)
    PROVE  LogInv'
<1>0. /\ state[n] = Leader /\ p # n /\ currentTerm[p] <= currentTerm[n]
      /\ log'[p] = log[n] \/ log'[p] = log[p]
      /\ \A m \in Server : m # p => log'[m] = log[m]
      /\ currentTerm' = [currentTerm EXCEPT ![p] = currentTerm[n]]
      /\ state' = [state EXCEPT ![p] = Follower]
      /\ elected' = elected
  BY DEF Merges
<1>1. \A k \in Server : /\ LastIndex(log[k]) \in Nat /\ LastTerm(log[k]) \in Nat
                        /\ currentTerm[k] \in Nat /\ LastTerm(log[k]) <= currentTerm[k]
  BY LogNumbers DEF RolesOK, LogInv, TermsOK
<1>2. currentTerm \in [Server -> Nat] /\ state \in [Server -> {Follower, Candidate, Leader}]
  BY DEF RolesOK
<1>3. \A k \in Server : k # p => currentTerm'[k] = currentTerm[k] /\ state'[k] = state[k]
  BY <1>0, <1>2
<1>4. currentTerm'[p] = currentTerm[n] /\ state'[p] = Follower
  BY <1>0, <1>2
<1>5. ASSUME NEW k \in Server
      PROVE  /\ log'[k][1] = ZeroEntry
             /\ LastTerm(log'[k]) <= currentTerm'[k]
             /\ \A i \in 1 .. LastIndex(log'[k]) :
                   /\ Get(log'[k], i).term <= LastTerm(log'[k])
                   /\ \E e \in elected' : e[1] = Get(log'[k], i).term
  <2>1. LastTerm(log'[k]) <= currentTerm'[k]
    <3>1. CASE k # p
      BY <1>0, <1>1, <1>3, <3>1
    <3>2. CASE k = p
      BY <1>0, <1>1, <1>4, <3>2
    <3> QED
      BY <3>1, <3>2
  <2>2. PICK y \in Server : log'[k] = log[y]
    BY MergedLogs
  <2> QED
    BY <1>0, <2>1, <2>2 DEF LogInv, TermsOK
<1>6. TermsOK'
  BY <1>5 DEF TermsOK
<1>7. Matching'
  <2> SUFFICES ASSUME NEW x \in Server, NEW y \in Server, NEW i \in Nat, 1 <= i,
                      i <= LastIndex(log'[x]), i <= LastIndex(log'[y]),
                      Get(log'[x], i).term = Get(log'[y], i).term
               PROVE  Same(log'[x], log'[y], i)
    BY DEF Matching
  <2>1. PICK q \in Server : log'[x] = log[q]
    BY MergedLogs
  <2>2. PICK r \in Server : log'[y] = log[r]
    BY MergedLogs
  <2> QED
    BY <2>1, <2>2 DEF LogInv, Matching
<1>8. \A e \in elected' : e[1] <= currentTerm'[e[2]]
  <2> SUFFICES ASSUME NEW e \in elected PROVE e[1] <= currentTerm'[e[2]]
    BY <1>0
  <2>1. e[1] \in Nat /\ e[2] \in Server /\ e[1] <= currentTerm[e[2]]
    BY DEF ElectInv, ElectedOK, LogInv, LeadersOK
  <2>2. currentTerm'[e[2]] >= currentTerm[e[2]] /\ currentTerm'[e[2]] \in Nat
    BY <1>0, <1>1, <1>3, <1>4, <2>1
  <2> QED
    BY <1>1, <2>1, <2>2
<1>9. \A k \in Server : state'[k] = Candidate => <<currentTerm'[k], k>> \notin elected'
  <2> SUFFICES ASSUME NEW k \in Server, state'[k] = Candidate
               PROVE  <<currentTerm'[k], k>> \notin elected'
    OBVIOUS
  <2>1. k # p
    BY <1>4 DEF Candidate, Follower
  <2> QED
    BY <1>0, <1>3, <2>1 DEF LogInv, LeadersOK
<1>10. ASSUME NEW k \in Server, state'[k] = Leader
       PROVE  /\ <<currentTerm'[k], k>> \in elected'
              /\ \A v \in Server : matchIndex'[k][v] <= LastIndex(log'[k])
              /\ \A m \in Server : \A i \in 1 .. LastIndex(log'[m]) :
                    Get(log'[m], i).term = currentTerm'[k] => Own(k, i)'
  <2>1. k # p
    BY <1>4, <1>10 DEF Leader, Follower
  <2>2. state[k] = Leader /\ currentTerm'[k] = currentTerm[k] /\ log'[k] = log[k]
    BY <1>0, <1>3, <1>10, <2>1
  <2>3. ASSUME NEW v \in Server PROVE matchIndex'[k][v] <= LastIndex(log[k])
    <3>1. CASE k = n /\ v = p
      BY <3>1 DEF Merges
    <3>2. CASE ~(k = n /\ v = p)
      BY <2>2, <3>2 DEF Merges, LogInv, LeadersOK
    <3> QED
      BY <3>1, <3>2
  <2>4. ASSUME NEW m \in Server, NEW i \in 1 .. LastIndex(log'[m]),
               Get(log'[m], i).term = currentTerm[k]
        PROVE  Own(k, i)'
    <3>1. PICK y \in Server : log'[m] = log[y]
      BY MergedLogs
    <3>2. Own(k, i)
      BY <2>2, <2>4, <3>1 DEF LogInv, LeadersOK
    <3> QED
      BY <2>2, <3>2 DEF Own
  <2>5. <<currentTerm[k], k>> \in elected
    BY <2>2 DEF LogInv, LeadersOK
  <2> QED
    BY <1>0, <2>2, <2>3, <2>4, <2>5
<1>11. LeadersOK'
  BY <1>8, <1>9, <1>10 DEF LeadersOK
<1> QED
  BY <1>6, <1>7, <1>11 DEF LogInv

\* The follower now has the leader's entries; what it had of an earlier
\* leader it keeps, or that leader can no longer commit it.
LEMMA MergeKeepsEntries ==
    ASSUME NEW D, LogsOK(D), RolesOK, ElectInv(D), LogInv, Counters', EntriesInv(D),
           NEW n \in Server, NEW p \in Server, Merges(n, p)
    PROVE  EntriesInv(D)'
<1>0. /\ state[n] = Leader /\ p # n /\ currentTerm[p] <= currentTerm[n]
      /\ \/ log'[p] = log[n]
         \/ log'[p] = log[p] /\ Same(log[p], log[n], LastIndex(log[n]))
      /\ \A m \in Server : m # p => log'[m] = log[m]
      /\ currentTerm' = [currentTerm EXCEPT ![p] = currentTerm[n]]
      /\ state' = [state EXCEPT ![p] = Follower]
      /\ round' = round
      /\ \A m, v \in Server : ~(m = n /\ v = p) => matchIndex'[m][v] = matchIndex[m][v]
  BY DEF Merges
<1>1. \A k \in Server : /\ LastIndex(log[k]) \in Nat /\ LastTerm(log[k]) \in Nat
                        /\ currentTerm[k] \in Nat /\ LastTerm(log[k]) <= currentTerm[k]
  BY LogNumbers DEF RolesOK, LogInv, TermsOK
<1>2. currentTerm \in [Server -> Nat] /\ state \in [Server -> {Follower, Candidate, Leader}]
  BY DEF RolesOK
<1>3. \A k \in Server : k # p => currentTerm'[k] = currentTerm[k] /\ state'[k] = state[k]
  BY <1>0, <1>2
<1>4. currentTerm'[p] = currentTerm[n] /\ state'[p] = Follower
  BY <1>0, <1>2
<1>b. \A s \in Server : Backers(s)' = Backers(s)
  BY <1>0 DEF Backers
<1> SUFFICES ASSUME NEW k \in Server, NEW i \in Nat, state'[k] = Leader, Own(k, i)'
             PROVE  Lost(D, k, i)' \/ Spread(k, i)'
  BY DEF EntriesInv
<1>5. k # p
  BY <1>4 DEF Leader, Follower
<1>t. PICK t \in Nat : t = currentTerm[k] /\ t = currentTerm'[k]
  BY <1>1, <1>3, <1>5
<1>6. state[k] = Leader /\ log'[k] = log[k] /\ Own(k, i)
  BY <1>0, <1>3, <1>5, <1>t DEF Own
<1>7. CASE Lost(D, k, i)
  <2>1. PICK Q \in SUBSET Server :
            QuorumOf(D, Q) /\ \A v \in Q : currentTerm[v] > currentTerm[k] /\ matchIndex[k][v] < i
    BY <1>7 DEF Lost
  <2>2. ASSUME NEW v \in Q PROVE currentTerm'[v] > currentTerm'[k] /\ matchIndex'[k][v] < i
    <3>1. v \in Server /\ currentTerm[v] > t /\ matchIndex[k][v] < i
      BY <1>t, <2>1
    <3>2. ~(k = n /\ v = p)
      BY <1>0, <1>1, <1>t, <3>1
    <3>3. matchIndex'[k][v] = matchIndex[k][v]
      BY <1>0, <3>1, <3>2
    <3>4. currentTerm'[v] > t
      BY <1>0, <1>1, <1>3, <1>4, <3>1
    <3> QED
      BY <1>t, <3>1, <3>3, <3>4
  <2>3. Lost(D, k, i)'
    BY <2>1, <2>2 DEF Lost
  <2> QED
    BY <2>3
<1>8. CASE Spread(k, i)
  <2>1. ASSUME NEW s \in Server, LastTerm(log'[s]) > t PROVE Same(log'[s], log[k], i)
    <3>1. PICK y \in Server : log'[s] = log[y]
      BY MergedLogs
    <3> QED
      BY <1>8, <1>t, <2>1, <3>1 DEF Spread
  <2>2. ASSUME NEW v \in Server, matchIndex'[k][v] >= i PROVE AtLeast(log'[v], t, i)
    <3>1. CASE k = n /\ v = p
      <4>1. AtLeast(log[n], t, i)
        BY <1>6, <1>t, <3>1, OwnIsLast DEF LogInv
      <4>2. CASE log'[p] = log[p] /\ Same(log[p], log[n], LastIndex(log[n]))
        <5>1. i \in 1 .. LastIndex(log[n]) /\ Get(log[n], i).term = t
          BY <1>6, <1>t, <3>1 DEF Own
        <5>2. LastIndex(log[n]) <= LastIndex(log[p]) /\ Get(log[p], i) = Get(log[n], i)
          BY <4>2, <5>1 DEF Same
        <5>3. i \in 1 .. LastIndex(log[p])
          BY <1>1, <5>1, <5>2
        <5>4. Get(log[p], i).term <= LastTerm(log[p])
          BY <5>3 DEF LogInv, TermsOK
        <5>5. LastTerm(log[p]) >= t /\ LastIndex(log[p]) >= i
          BY <1>1, <5>1, <5>2, <5>3, <5>4
        <5> QED
          BY <1>1, <3>1, <4>2, <5>5 DEF AtLeast
      <4> QED
        BY <1>0, <3>1, <4>1, <4>2
    <3>2. CASE ~(k = n /\ v = p)
      <4>1. AtLeast(log[v], t, i)
        BY <1>0, <1>8, <1>t, <2>2, <3>2 DEF Spread
      <4>2. CASE v # p
        BY <1>0, <4>1, <4>2
      <4>3. CASE v = p /\ log'[p] = log[n]
        <5>1. LastTerm(log[p]) >= t
          BY <1>1, <4>1, <4>3 DEF AtLeast
        <5>2. currentTerm[n] # t
          BY <1>0, <1>6, <1>t, <3>2, <4>3, LeadersDiffer DEF LogInv
        <5>3. currentTerm[n] > t
          BY <1>0, <1>1, <5>1, <5>2
        <5>4. AtLeast(log[n], t, i)
          BY <1>0, <1>8, <1>t, <5>3 DEF Spread
        <5> QED
          BY <4>3, <5>4
      <4> QED
        BY <1>0, <4>1, <4>2, <4>3
    <3> QED
      BY <3>1, <3>2
  <2>3. ASSUME NEW s \in Server, state'[s] = Leader, currentTerm'[s] > t PROVE AtLeast(log'[s], t, i)
    <3>1. s # p
      BY <1>4, <2>3 DEF Leader, Follower
    <3> QED
      BY <1>0, <1>3, <1>8, <1>t, <2>3, <3>1 DEF Spread
  <2>4. ASSUME NEW s \in Server, NEW v \in Server, state'[s] = Candidate, currentTerm'[s] > t,
               v \in Backers(s)', matchIndex'[k][v] >= i
        PROVE  AtLeast(log'[s], t, i)
    <3>1. s # p
      BY <1>4, <2>4 DEF Candidate, Follower
    <3>2. state[s] = Candidate /\ currentTerm[s] > t /\ v \in Backers(s) /\ log'[s] = log[s]
      BY <1>0, <1>3, <1>b, <2>4, <3>1
    <3>3. ~(k = n /\ v = p)
      <4>1. CandidateOK(D, s)
        BY <3>2 DEF ElectInv
      <4>2. Voted(v, currentTerm[s], s)
        BY <3>2, <4>1, BackersVoted
      <4>3. currentTerm[v] >= currentTerm[s]
        BY <1>1, <4>2 DEF Voted
      <4> QED
        BY <1>0, <1>1, <1>t, <3>2, <4>3
    <3>4. matchIndex[k][v] >= i
      BY <1>0, <2>4, <3>3
    <3> QED
      BY <1>8, <1>t, <3>2, <3>4 DEF Spread
  <2>5. Spread(k, i)'
    BY <1>6, <1>t, <2>1, <2>2, <2>3, <2>4 DEF Spread
  <2> QED
    BY <2>5
<1> QED
  BY <1>6, <1>7, <1>8 DEF EntriesInv

KeptAfter(D, c) ==
    /\ c[1] \in Nat /\ c[2].index \in Nat /\ 1 <= c[2].index
    /\ \E e \in elected : e[1] = c[1]
    /\ \E i \in Nat, Q \in SUBSET Server : 1 <= i /\ QuorumOf(D, Q) /\ Kept(c[1], c[2], i, Q)

\* A server of the quorum takes the log of a leader that has the entry too.
LEMMA MergeKeepsCommitted ==
    ASSUME NEW D, LogsOK(D), RolesOK, LogInv, CommittedInv(D),
           NEW n \in Server, NEW p \in Server, Merges(n, p), NEW c \in committed
    PROVE  KeptAfter(D, c)'
<1>0. /\ state[n] = Leader /\ p # n /\ currentTerm[p] <= currentTerm[n]
      /\ log'[p] = log[n] \/ log'[p] = log[p]
      /\ \A m \in Server : m # p => log'[m] = log[m]
      /\ currentTerm' = [currentTerm EXCEPT ![p] = currentTerm[n]]
      /\ state' = [state EXCEPT ![p] = Follower]
      /\ round' = round /\ elected' = elected
  BY DEF Merges
<1>1. \A k \in Server : /\ LastIndex(log[k]) \in Nat /\ LastTerm(log[k]) \in Nat
                        /\ currentTerm[k] \in Nat /\ LastTerm(log[k]) <= currentTerm[k]
  BY LogNumbers DEF RolesOK, LogInv, TermsOK
<1>2. currentTerm \in [Server -> Nat] /\ state \in [Server -> {Follower, Candidate, Leader}]
  BY DEF RolesOK
<1>3. \A k \in Server : k # p => currentTerm'[k] = currentTerm[k] /\ state'[k] = state[k]
  BY <1>0, <1>2
<1>4. state'[p] = Follower
  BY <1>0, <1>2
<1>b. \A s \in Server : Backers(s)' = Backers(s)
  BY <1>0 DEF Backers
<1>5. /\ c[1] \in Nat /\ c[2].index \in Nat /\ 1 <= c[2].index
      /\ \E e \in elected : e[1] = c[1]
  BY DEF CommittedInv
<1>6. PICK i \in Nat, Q \in SUBSET Server : 1 <= i /\ QuorumOf(D, Q) /\ Kept(c[1], c[2], i, Q)
  BY DEF CommittedInv
<1>t. PICK t \in Nat : t = c[1]
  BY <1>5
<1>e. PICK e : e = c[2]
  OBVIOUS
<1>7. Kept(t, e, i, Q)
  BY <1>6, <1>t, <1>e
<1>8. ASSUME NEW s \in Server, AtLeast(log'[s], t, i) PROVE Get(log'[s], e.index) = e
  <2>1. PICK y \in Server : log'[s] = log[y]
    BY MergedLogs
  <2> QED
    BY <1>7, <1>8, <2>1 DEF Kept
<1>9. ASSUME NEW v \in Q PROVE AtLeast(log'[v], t, i)
  <2>1. AtLeast(log[v], t, i) /\ v \in Server
    BY <1>6, <1>7 DEF Kept
  <2>2. CASE v = p /\ log'[p] = log[n]
    <3>1. LastTerm(log[p]) >= t
      BY <1>1, <2>1, <2>2 DEF AtLeast
    <3>2. currentTerm[n] >= t
      BY <1>0, <1>1, <3>1
    <3> QED
      BY <1>0, <1>7, <2>2, <3>2 DEF Kept
  <2> QED
    BY <1>0, <2>1, <2>2
<1>10. ASSUME NEW s \in Server, state'[s] = Leader, currentTerm'[s] >= t PROVE AtLeast(log'[s], t, i)
  <2>1. s # p
    BY <1>4, <1>10 DEF Leader, Follower
  <2> QED
    BY <1>0, <1>3, <1>7, <1>10, <2>1 DEF Kept
<1>11. ASSUME NEW s \in Server, NEW v \in Server, state'[s] = Candidate, currentTerm'[s] > t,
              v \in Backers(s)', v \in Q
       PROVE  AtLeast(log'[s], t, i)
  <2>1. s # p
    BY <1>4, <1>11 DEF Candidate, Follower
  <2> QED
    BY <1>0, <1>3, <1>7, <1>11, <1>b, <2>1 DEF Kept
<1>12. Kept(t, e, i, Q)'
  BY <1>8, <1>9, <1>10, <1>11 DEF Kept
<1> QED
  BY <1>0, <1>5, <1>6, <1>12, <1>t, <1>e DEF KeptAfter

MajorityRule ==
    \A D, n, i, j, Q :
        (/\ n \in Server /\ i \in Nat /\ j \in 1 .. i /\ Q \in SUBSET Server
         /\ ChangesOK(D) /\ LogsOK(D) /\ RolesOK /\ ElectInv(D) /\ LogInv /\ EntriesInv(D)
         /\ state[n] = Leader /\ Own(n, i) /\ QuorumOf(D, Q)
         /\ \A v \in Q : v = n \/ matchIndex[n][v] >= i)
            => KeptAfter(D, <<currentTerm[n], Get(log[n], j)>>)

\* What a majority has in the term of its leader is kept: whoever went on to
\* a later term without it is no majority.
LEMMA MajorityKeeps == MajorityRule
<1> SUFFICES ASSUME NEW D, NEW n \in Server, NEW i \in Nat, NEW j \in 1 .. i, NEW Q \in SUBSET Server,
                    ChangesOK(D), LogsOK(D), RolesOK, ElectInv(D), LogInv, EntriesInv(D),
                    state[n] = Leader, Own(n, i), QuorumOf(D, Q),
                    \A v \in Q : v = n \/ matchIndex[n][v] >= i
             PROVE  KeptAfter(D, <<currentTerm[n], Get(log[n], j)>>)
  BY DEF MajorityRule
<1>t. PICK t \in Nat : t = currentTerm[n]
  BY DEF RolesOK
<1>e. PICK e : e = Get(log[n], j)
  OBVIOUS
<1>0. \A k, v \in Server : currentTerm[v] \in Nat /\ matchIndex[k][v] \in Nat
  BY DEF RolesOK, LogInv, Counters
<1>1. Spread(n, i)
  <2>1. SUFFICES ASSUME Lost(D, n, i) PROVE FALSE
    BY DEF EntriesInv
  <2>2. PICK R \in SUBSET Server :
            QuorumOf(D, R) /\ \A v \in R : currentTerm[v] > currentTerm[n] /\ matchIndex[n][v] < i
    BY <2>1 DEF Lost
  <2>3. PICK v \in R : v \in Q
    BY <2>2, QuorumsMeet
  <2>4. CASE v = n
    BY <1>0, <2>2, <2>3, <2>4
  <2>5. CASE matchIndex[n][v] >= i
    BY <1>0, <2>2, <2>3, <2>5
  <2> QED
    BY <2>3, <2>4, <2>5
<1>2. AtLeast(log[n], t, i)
  BY <1>t, OwnIsLast DEF LogInv
<1>3. e.index = j /\ j \in Nat /\ 1 <= j
  <2>1. j \in 1 .. LastIndex(log[n])
    <3>1. i \in 1 .. LastIndex(log[n]) /\ LastIndex(log[n]) \in Nat
      BY LogNumbers DEF Own
    <3> QED
      BY <3>1
  <2> QED
    BY <1>e, <2>1, LogNumbers
<1>4. ASSUME NEW s \in Server, AtLeast(log[s], t, i) PROVE Get(log[s], j) = e
  <2>1. LastTerm(log[s]) > currentTerm[n] => Same(log[s], log[n], i)
    BY <1>1 DEF Spread
  <2>2. Same(log[s], log[n], i)
    BY <1>4, <1>t, <2>1, OwnIsShared
  <2> QED
    BY <1>e, <2>2 DEF Same
<1>5. ASSUME NEW v \in Q PROVE AtLeast(log[v], t, i)
  <2>1. CASE v = n
    BY <1>2, <2>1
  <2>2. CASE matchIndex[n][v] >= i
    BY <1>1, <1>t, <2>2 DEF Spread
  <2> QED
    BY <2>1, <2>2
<1>6. ASSUME NEW s \in Server, state[s] = Leader, currentTerm[s] >= t PROVE AtLeast(log[s], t, i)
  <2>1. CASE currentTerm[s] > t
    BY <1>1, <1>6, <1>t, <2>1 DEF Spread
  <2>2. CASE currentTerm[s] = t
    <3>1. s = n
      BY <1>6, <1>t, <2>2, LeadersDiffer DEF LogInv
    <3> QED
      BY <1>2, <3>1
  <2> QED
    BY <1>0, <1>6, <2>1, <2>2
<1>7. ASSUME NEW s \in Server, NEW v \in Server, state[s] = Candidate, currentTerm[s] > t,
             v \in Backers(s), v \in Q
      PROVE  AtLeast(log[s], t, i)
  <2>1. CandidateOK(D, s)
    BY <1>7 DEF ElectInv
  <2>2. Voted(v, currentTerm[s], s)
    BY <1>7, <2>1, BackersVoted
  <2>3. v # n
    BY <1>0, <1>7, <1>t, <2>2 DEF Voted
  <2>4. matchIndex[n][v] >= i
    BY <1>7, <2>3
  <2> QED
    BY <1>1, <1>7, <1>t, <2>4 DEF Spread
<1>8. Kept(t, e, i, Q)
  BY <1>3, <1>4, <1>5, <1>6, <1>7 DEF Kept
<1>9. <<t, n>> \in elected /\ <<t, n>>[1] = t
  BY <1>t DEF LogInv, LeadersOK
<1>10. 1 <= i
  BY DEF Own
<1>11. KeptAfter(D, <<t, e>>)
  <2>1. <<t, e>>[1] = t /\ <<t, e>>[2] = e
    OBVIOUS
  <2> QED
    BY <1>3, <1>8, <1>9, <1>10, <2>1 DEF KeptAfter
<1> QED
  BY <1>11, <1>t, <1>e

\* The same of the state a step leads to.
LEMMA MajorityKeepsNext == MajorityRule'
BY MajorityKeeps, PTL

\* All of a cluster is a majority of it, so maybeCommit finds an index.
LEMMA AllWin ==
    ASSUME NEW P \in SUBSET Server
    PROVE  Wins(P, P)
<1>1. Cardinality(P) \in Nat
  BY MembershipAssumption, FS_Subset, FS_CardinalityType
<1>2. \A k \in Nat : k + 1 >= (k + 1) \div 2 + 1
  OBVIOUS
<1> QED
  BY <1>1, <1>2 DEF Wins

\* What maybeCommit counts.
LEMMA QuorumIndexFacts ==
    ASSUME NEW D, LogsOK(D), PeersOK(D), NEW n \in Server, NEW match \in [Server -> Nat]
    PROVE  LET i == QuorumIndex(n, match) IN
           /\ i \in Nat /\ i <= LastIndex(log[n])
           /\ Wins({p \in peers[n] : match[p] >= i}, peers[n])
<1> DEFINE S == {i \in 0 .. LastIndex(log[n]) :
                   Wins({p \in peers[n] : match[p] >= i}, peers[n])}
<1>1. LastIndex(log[n]) \in Nat /\ peers[n] \in SUBSET Server
  BY LogNumbers DEF PeersOK
<1>2. 0 \in S
  <2>1. {p \in peers[n] : match[p] >= 0} = peers[n]
    BY <1>1
  <2>2. Wins({p \in peers[n] : match[p] >= 0}, peers[n])
    BY <1>1, <2>1, AllWin
  <2> QED
    BY <1>1, <2>2
<1>3. S \in SUBSET Nat /\ \A x \in S : x <= LastIndex(log[n])
  BY <1>1
<1>4. Max(S) \in S
  <2> HIDE DEF S
  <2> QED
    BY <1>1, <1>2, <1>3, NatMax
<1>5. QuorumIndex(n, match) = Max(S)
  BY DEF QuorumIndex
<1> QED
  BY <1>1, <1>4, <1>5

\* The new match indices and commit index of a leader.
LEMMA CommitFacts ==
    ASSUME NEW D, LogsOK(D), PeersOK(D), Counters, NEW n \in Server, NEW match \in [Server -> Nat]
    PROVE  /\ CommitAfter(n, match) \in Nat
           /\ CommitAfter(n, match) # commitIndex[n] =>
                 /\ Own(n, CommitAfter(n, match))
                 /\ Wins({p \in peers[n] : match[p] >= CommitAfter(n, match)}, peers[n])
<1> DEFINE i == QuorumIndex(n, match)
<1>1. /\ i \in Nat /\ i <= LastIndex(log[n])
      /\ Wins({p \in peers[n] : match[p] >= i}, peers[n])
  BY QuorumIndexFacts
<1>2. CommitAfter(n, match) =
        IF i > commitIndex[n] /\ Get(log[n], i).term = currentTerm[n] THEN i ELSE commitIndex[n]
  BY DEF CommitAfter
<1>3. commitIndex[n] \in Nat /\ LastIndex(log[n]) \in Nat
  BY LogNumbers DEF Counters
<1> HIDE DEF i
<1>4. CASE i > commitIndex[n] /\ Get(log[n], i).term = currentTerm[n]
  BY <1>1, <1>2, <1>3, <1>4 DEF Own
<1>5. CASE ~(i > commitIndex[n] /\ Get(log[n], i).term = currentTerm[n])
  BY <1>2, <1>3, <1>5
<1> QED
  BY <1>4, <1>5

\* AppendEntries merges, counts and commits.
LEMMA AppendEntriesMerges ==
    ASSUME NEW D, ConfigInv(D), ElectInv(D), LogInv, NEW n \in Server, NEW p \in Server,
           NEW answered \in BOOLEAN, AppendEntries(n, p, answered)
    PROVE  /\ Merges(n, p) /\ Counters' /\ peers' = peers
           /\ \A c \in committed' : c \notin committed =>
                 \E i \in Nat, j \in Nat :
                     /\ 1 <= j /\ j <= i /\ Own(n, i) /\ c = <<currentTerm[n], Get(log[n], j)>>
                     /\ Wins({q \in peers[n] : matchIndex'[n][q] >= i}, peers[n])
<1>0. LogsOK(D) /\ PeersOK(D) /\ ChangesOK(D) /\ RolesOK /\ TermsOK /\ Matching /\ Counters /\ LeadersOK
  BY DEF ConfigInv, LogInv
<1>1. /\ currentTerm \in [Server -> Nat] /\ state \in [Server -> {Follower, Candidate, Leader}]
      /\ commitIndex \in [Server -> Nat] /\ matchIndex \in [Server -> [Server -> Nat]]
      /\ DOMAIN log = Server
  BY <1>0 DEF RolesOK, Counters, LogsOK
<1> DEFINE l == AppendBatch(log[p], Tail(log[n]))
           match == IF answered
                    THEN [matchIndex[n] EXCEPT ![p] = Max({@, LastIndex(log[n])})]
                    ELSE matchIndex[n]
           commit == IF answered THEN CommitAfter(n, match) ELSE commitIndex[n]
           follow == Max({commitIndex[p], Min({commitIndex[n], LastIndex(l)})})
<1>2. /\ state[n] = Leader /\ p \in peers[n] /\ currentTerm[p] <= currentTerm[n]
      /\ log' = [log EXCEPT ![p] = l]
      /\ currentTerm' = [currentTerm EXCEPT ![p] = currentTerm[n]]
      /\ state' = [state EXCEPT ![p] = IF currentTerm[n] > currentTerm[p] \/ @ = Candidate
                                       THEN Follower ELSE @]
      /\ matchIndex' = [matchIndex EXCEPT ![n] = match]
      /\ commitIndex' = [commitIndex EXCEPT ![p] = follow, ![n] = commit]
      /\ committed' = committed \cup
           {<<currentTerm[n], Get(log[n], i)>> : i \in commitIndex[n] + 1 .. commit}
      /\ peers' = peers /\ round' = round /\ elected' = elected
  BY DEF AppendEntries
<1>3. p # n
  BY <1>0, <1>2, PeersAreMembers
<1>4. \/ l = log[n]
      \/ l = log[p] /\ Same(log[p], log[n], LastIndex(log[n]))
  BY <1>0, MergeIsEither
<1>5. LastIndex(log[n]) \in Nat /\ LastIndex(l) \in Nat
  <2>1. LastIndex(log[n]) \in Nat
    BY <1>0, LogNumbers
  <2>2. LastIndex(log[p]) \in Nat
    BY <1>0, LogNumbers
  <2> QED
    BY <1>4, <2>1, <2>2
<1>6. matchIndex[n][p] \in Nat /\ matchIndex[n][p] <= LastIndex(log[n])
  <2>1. matchIndex[n][p] \in Nat
    BY <1>1
  <2> QED
    BY <1>0, <1>2, <2>1, Zenon DEF LeadersOK
<1>7. Max({matchIndex[n][p], LastIndex(log[n])}) = LastIndex(log[n])
  <2>1. Max({matchIndex[n][p], LastIndex(log[n])})
          = IF matchIndex[n][p] >= LastIndex(log[n]) THEN matchIndex[n][p] ELSE LastIndex(log[n])
    BY <1>5, <1>6, MaxOfTwo
  <2> QED
    BY <1>5, <1>6, <2>1
<1>8. /\ match \in [Server -> Nat] /\ match[p] <= LastIndex(log[n])
      /\ \A v \in Server : v # p => match[v] = matchIndex[n][v]
  <2>1. PICK f \in [Server -> Nat] : f = matchIndex[n]
    BY <1>1
  <2>2. match = [f EXCEPT ![p] = LastIndex(log[n])] \/ match = f
    BY <1>7, <2>1
  <2> HIDE DEF match
  <2>3. f[p] <= LastIndex(log[n])
    BY <1>6, <2>1
  <2> QED
    BY <1>5, <2>1, <2>2, <2>3
<1> HIDE DEF l, match
<1>9. commit \in Nat
  BY <1>0, <1>1, <1>8, CommitFacts
<1>10. follow \in Nat
  <2>1. commitIndex[p] \in Nat /\ commitIndex[n] \in Nat
    BY <1>1
  <2>2. Min({commitIndex[n], LastIndex(l)})
          = IF commitIndex[n] <= LastIndex(l) THEN commitIndex[n] ELSE LastIndex(l)
    BY <1>5, <2>1, MinOfTwo
  <2>3. Min({commitIndex[n], LastIndex(l)}) \in Nat
    BY <1>5, <2>1, <2>2
  <2>4. PICK b \in Nat : b = Min({commitIndex[n], LastIndex(l)})
    BY <2>3
  <2>5. Max({commitIndex[p], b}) = IF commitIndex[p] >= b THEN commitIndex[p] ELSE b
    BY <2>1, <2>4, MaxOfTwo
  <2> QED
    BY <2>1, <2>4, <2>5
<1>11. ASSUME NEW c \in committed', c \notin committed
       PROVE  \E i \in Nat, j \in Nat :
                  /\ 1 <= j /\ j <= i /\ Own(n, i) /\ c = <<currentTerm[n], Get(log[n], j)>>
                  /\ Wins({q \in peers[n] : match[q] >= i}, peers[n])
  <2>1. PICK j \in commitIndex[n] + 1 .. commit : c = <<currentTerm[n], Get(log[n], j)>>
    BY <1>2, <1>11
  <2>2. commitIndex[n] \in Nat
    BY <1>1
  <2>3. j \in Nat /\ 1 <= j /\ j <= commit /\ commit # commitIndex[n]
    BY <1>9, <2>1, <2>2
  <2>4. commit = CommitAfter(n, match)
    BY <2>3
  <2>5. Own(n, commit) /\ Wins({q \in peers[n] : match[q] >= commit}, peers[n])
    BY <1>0, <1>8, <2>3, <2>4, CommitFacts
  <2> QED
    BY <1>9, <2>1, <2>3, <2>5
<1> HIDE DEF commit, follow
<1>12. Counters'
  BY <1>1, <1>2, <1>8, <1>9, <1>10 DEF Counters
<1>13. matchIndex'[n] = match
  BY <1>1, <1>2
<1>14. state' = [state EXCEPT ![p] = Follower]
  <2>1. CASE currentTerm[n] > currentTerm[p] \/ state[p] = Candidate
    BY <1>1, <1>2, <2>1
  <2>2. CASE state[p] = Follower
    BY <1>1, <1>2, <2>2
  <2>3. CASE ~(currentTerm[n] > currentTerm[p]) /\ state[p] = Leader
    <3>1. currentTerm[p] \in Nat /\ currentTerm[n] \in Nat /\ currentTerm[p] <= currentTerm[n]
      BY <1>1, <1>2
    <3>2. currentTerm[p] = currentTerm[n] /\ state[n] = Leader /\ state[p] = Leader
      BY <1>2, <2>3, <3>1
    <3>3. p = n
      BY <1>0, <3>2, LeadersDiffer
    <3> QED
      BY <1>3, <3>3
  <2> QED
    BY <1>1, <2>1, <2>2, <2>3
<1>15. Merges(n, p)
  <2>1. log'[p] = l /\ \A m \in Server : m # p => log'[m] = log[m]
    BY <1>1, <1>2
  <2>2. ASSUME NEW m \in Server, NEW v \in Server, ~(m = n /\ v = p)
        PROVE  matchIndex'[m][v] = matchIndex[m][v]
    <3>1. CASE m = n
      BY <1>8, <1>13, <2>2, <3>1
    <3>2. CASE m # n
      BY <1>1, <1>2, <3>2
    <3> QED
      BY <3>1, <3>2
  <2> QED
    BY <1>2, <1>3, <1>4, <1>8, <1>13, <1>14, <2>1, <2>2 DEF Merges
<1> QED
  BY <1>2, <1>11, <1>12, <1>13, <1>15

-----------------------------------------------------------------------------
(* All steps together.                                                     *)

\* With a larger set of changes there are only more quorums.
LEMMA MoreQuorums ==
    ASSUME NEW D, NEW E, D \subseteq E
    PROVE  /\ ElectInv(D) => ElectInv(E)
           /\ EntriesInv(D) => EntriesInv(E)
           /\ CommittedInv(D) => CommittedInv(E)
<1>1. (\A K : Cluster(D, K) => Cluster(E, K)) /\ (\A Q : QuorumOf(D, Q) => QuorumOf(E, Q))
  BY QuorumsGrow
<1>2. ElectInv(D) => ElectInv(E)
  <2> SUFFICES ASSUME ElectInv(D) PROVE ElectInv(E)
    OBVIOUS
  <2>1. ASSUME NEW n \in Server, state[n] = Candidate PROVE CandidateOK(E, n)
    BY <1>1, <2>1 DEF ElectInv, CandidateOK
  <2>2. ElectedOK(E)
    BY <1>1 DEF ElectInv, ElectedOK
  <2> QED
    BY <2>1, <2>2 DEF ElectInv
<1>3. EntriesInv(D) => EntriesInv(E)
  <2>1. \A n \in Server, i \in Nat : Lost(D, n, i) => Lost(E, n, i)
    BY <1>1 DEF Lost
  <2> QED
    BY <2>1 DEF EntriesInv
<1>4. CommittedInv(D) => CommittedInv(E)
  BY <1>1 DEF CommittedInv
<1> QED
  BY <1>2, <1>3, <1>4

\* Submit, AddPeer and RemovePeer append.
LEMMA AppendSteps ==
    ASSUME NEW D \in SUBSET Change, ConfigInv(D), LogInv, NEW n \in Server,
           Submit(n) \/ \E a \in Server : AddPeer(n, a) \/ RemovePeer(n, a)
    PROVE  Appends(n) /\ Counters'
<1>0. /\ RolesOK /\ LogsOK(D)
      /\ commitIndex \in [Server -> Nat] /\ matchIndex \in [Server -> [Server -> Nat]]
  BY DEF ConfigInv, LogInv, Counters
<1>1. LogsOK(Change)
  BY <1>0, LogsGrow
<1>2. \A m, v \in Server : matchIndex[m][v] \in Nat
  BY <1>0
<1>3. ASSUME NEW c \in Cmd \cup Change, Append1(n, c), matchIndex' = matchIndex
      PROVE  Appends(n) /\ Counters'
  <2>1. \A m, v \in Server : matchIndex'[m][v] <= matchIndex[m][v]
    BY <1>2, <1>3
  <2>2. commitIndex' = commitIndex
    BY <1>3 DEF Append1
  <2>3. Appends(n)
    BY <1>0, <1>1, <1>3, <2>1, AppendIsGrown
  <2> QED
    BY <1>0, <1>3, <2>2, <2>3 DEF Counters
<1>4. CASE Submit(n)
  <2>1. PICK c \in Cmd : Append1(n, c)
    BY <1>4 DEF Submit
  <2> QED
    BY <1>3, <1>4, <2>1 DEF Submit
<1>5. ASSUME NEW a \in Server, RemovePeer(n, a) PROVE Appends(n) /\ Counters'
  <2>1. [op |-> "remove", peer |-> a] \in Change
    BY DEF Change
  <2> QED
    BY <1>3, <1>5, <2>1 DEF RemovePeer, SubmitConfig
<1>6. ASSUME NEW a \in Server, AddPeer(n, a) PROVE Appends(n) /\ Counters'
  <2> DEFINE ch == [op |-> "add", peer |-> a]
  <2>1. ch \in Change
    BY DEF Change
  <2>2. Append1(n, ch) /\ matchIndex' = [matchIndex EXCEPT ![n][a] = 0]
    BY <1>6 DEF AddPeer, SubmitConfig
  <2> HIDE DEF ch
  <2>3. matchIndex' \in [Server -> [Server -> Nat]]
    BY <1>0, <2>2
  <2>4. ASSUME NEW m \in Server, NEW v \in Server PROVE matchIndex'[m][v] <= matchIndex[m][v]
    <3>1. matchIndex'[m][v] = matchIndex[m][v] \/ matchIndex'[m][v] = 0
      BY <1>0, <2>2
    <3> QED
      BY <1>2, <3>1
  <2>5. Appends(n)
    BY <1>0, <1>1, <2>1, <2>2, <2>4, AppendIsGrown
  <2>6. commitIndex' = commitIndex
    BY <2>2 DEF Append1
  <2> QED
    BY <1>0, <2>3, <2>5, <2>6 DEF Counters
<1> QED
  BY <1>4, <1>5, <1>6

\* The counters stay numbers.
LEMMA CountersStep ==
    ASSUME NEW D \in SUBSET Change, ConfigInv(D), ElectInv(D), LogInv, [Next]_vars
    PROVE  Counters'
<1>0. commitIndex \in [Server -> Nat] /\ matchIndex \in [Server -> [Server -> Nat]]
  BY DEF LogInv, Counters
<1>1. ASSUME UNCHANGED <<commitIndex, matchIndex>> PROVE Counters'
  BY <1>0, <1>1 DEF Counters
<1>2. CASE \E n \in Server : Stand(n)
  BY <1>1, <1>2 DEF Stand
<1>3. CASE \E n, p \in Server : RefuseVote(n, p) \/ StepDown(n, p)
  BY <1>1, <1>3 DEF RefuseVote, StepDown
<1>4. ASSUME NEW n \in Server, NEW p \in Server, GrantVote(n, p) PROVE Counters'
  <2>1. /\ commitIndex' = commitIndex
        /\ matchIndex' = matchIndex \/ matchIndex' = [matchIndex EXCEPT ![n] = [q \in Server |-> 0]]
    BY <1>4 DEF GrantVote
  <2> QED
    BY <1>0, <2>1 DEF Counters
<1>5. CASE \E n \in Server : Submit(n)
  BY <1>5, AppendSteps
<1>6. CASE \E n, a \in Server : AddPeer(n, a) \/ RemovePeer(n, a)
  BY <1>6, AppendSteps
<1>7. CASE \E n, p \in Server, answered \in BOOLEAN : AppendEntries(n, p, answered)
  BY <1>7, AppendEntriesMerges
<1>8. ASSUME NEW n \in Server, Apply(n) PROVE Counters'
  <2>1. commitIndex' = commitIndex
    BY <1>8 DEF Apply
  <2>2. CASE matchIndex' = matchIndex
    BY <1>1, <2>1, <2>2
  <2>3. ASSUME NEW ch, ApplyConfig(n, ch) PROVE Counters'
    <3> DEFINE f == [p \in Server |-> IF p \in peers'[n] \cap peers[n] THEN matchIndex[n][p] ELSE 0]
    <3>1. matchIndex' = [matchIndex EXCEPT ![n] = f]
      BY <2>3 DEF ApplyConfig
    <3>2. f \in [Server -> Nat]
      BY <1>0
    <3> HIDE DEF f
    <3> QED
      BY <1>0, <2>1, <3>1, <3>2 DEF Counters
  <2> QED
    BY <1>8, <2>2, <2>3 DEF Apply
<1>9. ASSUME NEW n \in Server, Restart(n) PROVE Counters'
  BY <1>0, <1>9 DEF Restart, Counters
<1>10. CASE UNCHANGED vars
  BY <1>1, <1>10 DEF vars
<1> QED
  BY <1>2, <1>3, <1>4, <1>5, <1>6, <1>7, <1>8, <1>9, <1>10, Zenon DEF Next

\* The entries that AppendEntries commits are kept from then on.
LEMMA CommitStep ==
    ASSUME NEW D \in SUBSET Change, ConfigInv(D), ElectInv(D), LogInv, CommittedInv(D),
           NEW n \in Server, NEW p \in Server, NEW answered \in BOOLEAN, AppendEntries(n, p, answered),
           ConfigInv(D)', ElectInv(D)', LogInv', EntriesInv(D)'
    PROVE  CommittedInv(D)'
<1>0. /\ LogsOK(D) /\ RolesOK /\ PeersOK(D) /\ ChangesOK(D)
      /\ ChangesOK(D)' /\ LogsOK(D)' /\ RolesOK'
  BY DEF ConfigInv
<1>1. Merges(n, p) /\ peers' = peers
  BY AppendEntriesMerges
<1>2. /\ state[n] = Leader /\ p # n /\ log'[n] = log[n]
      /\ currentTerm' = [currentTerm EXCEPT ![p] = currentTerm[n]]
      /\ state' = [state EXCEPT ![p] = Follower]
  BY <1>1 DEF Merges
<1>3. currentTerm'[n] = currentTerm[n] /\ state'[n] = Leader
  BY <1>0, <1>2 DEF RolesOK
<1>4. ASSUME NEW c \in committed', c \notin committed PROVE KeptAfter(D, c)'
  <2>1. PICK i \in Nat, j \in Nat :
            /\ 1 <= j /\ j <= i /\ Own(n, i) /\ c = <<currentTerm[n], Get(log[n], j)>>
            /\ Wins({q \in peers[n] : matchIndex'[n][q] >= i}, peers[n])
    BY <1>4, AppendEntriesMerges
  <2> DEFINE G == {q \in peers[n] : matchIndex'[n][q] >= i}
             Q == G \cup {n}
  <2>2. peers[n] \in SUBSET Server /\ p \in peers[n] /\ n \notin peers[n]
    <3>1. p \in peers[n]
      BY DEF AppendEntries
    <3>2. n \notin peers[n]
      BY <1>0, PeersAreMembers
    <3> QED
      BY <1>0, <3>1, <3>2 DEF PeersOK
  <2>3. Cluster(D, peers[n] \cup {n})
    BY <1>0, <2>2, PeersAreCluster
  <2>4. QuorumOf(D, Q) /\ Q \in SUBSET Server
    <3>1. G \in SUBSET peers[n] /\ Wins(G, peers[n])
      BY <2>1
    <3> HIDE DEF G
    <3>2. QuorumOf(D, G \cup {n})
      BY <2>2, <2>3, <3>1, WinsIsQuorum
    <3> QED
      BY <2>2, <3>1, <3>2
  <2>5. \A v \in Q : v = n \/ matchIndex'[n][v] >= i
    OBVIOUS
  <2> HIDE DEF Q
  <2>6. Own(n, i)' /\ j \in 1 .. i
    BY <1>2, <1>3, <2>1 DEF Own
  <2>7. KeptAfter(D, <<currentTerm[n], Get(log[n], j)>>)'
    BY <1>0, <1>3, <2>4, <2>5, <2>6, MajorityKeepsNext DEF MajorityRule
  <2>8. c = <<currentTerm'[n], Get(log'[n], j)>>
    BY <1>2, <1>3, <2>1
  <2> QED
    BY <2>7, <2>8
<1>5. ASSUME NEW c \in committed PROVE KeptAfter(D, c)'
  BY <1>0, <1>1, MergeKeepsCommitted
<1> QED
  BY <1>4, <1>5 DEF CommittedInv, KeptAfter
\* A step keeps all of it, for the same changes or with the one it submits.
LEMMA KeepStep ==
    ASSUME MaxChanges <= 1, KeepInv, [Next]_vars
    PROVE  KeepInv'
<1>1. PICK D \in SUBSET Change : ConfigInv(D) /\ ElectInv(D) /\ EntriesInv(D) /\ CommittedInv(D)
  BY DEF KeepInv
<1>2. LogInv
  BY DEF KeepInv
<1>3. Counters'
  BY <1>1, <1>2, CountersStep
<1>4. LogsOK(D) /\ ChangesOK(D) /\ RolesOK
  BY <1>1 DEF ConfigInv
<1>5. ASSUME NEW n \in Server, NEW E \in SUBSET Change, D \subseteq E, ConfigInv(E)', Appends(n)
      PROVE  KeepInv'
  <2>1. ElectInv(E)'
    BY <1>1, <1>5, ElectStep
  <2>2. LogsOK(E) /\ ElectInv(E) /\ EntriesInv(E) /\ CommittedInv(E)
    BY <1>1, <1>4, <1>5, LogsGrow, MoreQuorums
  <2>3. LogInv'
    BY <1>2, <1>3, <1>4, <1>5, <2>2, AppendLog
  <2>4. EntriesInv(E)'
    BY <1>2, <1>3, <1>4, <1>5, <2>2, AppendKeepsEntries
  <2>5. CommittedInv(E)'
    BY <1>2, <1>4, <1>5, <2>2, AppendKeepsCommitted
  <2> QED
    BY <1>5, <2>1, <2>3, <2>4, <2>5 DEF KeepInv
<1>6. CASE \E n, a \in Server : AddPeer(n, a) \/ RemovePeer(n, a)
  <2>1. PICK n \in Server, a \in Server : AddPeer(n, a) \/ RemovePeer(n, a)
    BY <1>6
  <2>2. Appends(n)
    BY <1>1, <1>2, <2>1, AppendSteps
  <2>3. PICK E \in SUBSET Change : D \subseteq E /\ ConfigInv(E)'
    BY <1>1, ConfigStep
  <2> QED
    BY <1>5, <2>2, <2>3
<1>7. CASE ~\E n, a \in Server : AddPeer(n, a) \/ RemovePeer(n, a)
  <2>1. ConfigInv(D)'
    BY <1>1, <1>7, QuietConfigStep
  <2>2. ElectInv(D)'
    BY <1>1, <2>1, ElectStep
  <2>3. RolesOK' /\ OneLeaderPerTerm' /\ ElectedOK(D)
    BY <1>1, <2>1, <2>2 DEF ConfigInv, ElectInv
  <2>4. ASSUME NEW w \in Server \cup {Nil}, Calm(D, w) PROVE KeepInv'
    <3>1. LogInv'
      BY <1>2, <1>3, <1>4, <2>3, <2>4, CalmLog
    <3>2. EntriesInv(D)'
      BY <1>1, <1>2, <1>3, <1>4, <2>3, <2>4, CalmEntries
    <3>3. CommittedInv(D)'
      BY <1>1, <1>2, <1>4, <2>3, <2>4, CalmCommitted
    <3> QED
      BY <2>1, <2>2, <3>1, <3>2, <3>3 DEF KeepInv
  <2>5. ASSUME NEW n \in Server, Submit(n) PROVE KeepInv'
    <3>1. Appends(n)
      BY <1>1, <1>2, <2>5, AppendSteps
    <3> QED
      BY <1>5, <2>1, <3>1
  <2>6. ASSUME NEW n \in Server, NEW p \in Server, NEW answered \in BOOLEAN,
               AppendEntries(n, p, answered)
        PROVE  KeepInv'
    <3>1. Merges(n, p)
      BY <1>1, <1>2, <2>6, AppendEntriesMerges
    <3>2. LogInv'
      BY <1>1, <1>2, <1>3, <1>4, <3>1, MergeLog
    <3>3. EntriesInv(D)'
      BY <1>1, <1>2, <1>3, <1>4, <3>1, MergeKeepsEntries
    <3>4. CommittedInv(D)'
      BY <1>1, <1>2, <2>1, <2>2, <2>6, <3>2, <3>3, CommitStep
    <3> QED
      BY <2>1, <2>2, <3>2, <3>3, <3>4 DEF KeepInv
  <2>7. Counters
    BY <1>2 DEF LogInv
  <2> QED
    BY <1>1, <1>7, <2>3, <2>4, <2>5, <2>6, <2>7, CalmSteps
<1> QED
  BY <1>6, <1>7

\* At the start every log is empty and nobody leads.
LEMMA KeepInit ==
    ASSUME Init
    PROVE  KeepInv
<1> USE DEF Follower, Candidate, Leader
<1>1. PICK D \in SUBSET Change : ConfigInv(D) /\ ElectInv(D)
  BY MembershipInit DEF MembershipInv
<1>2. /\ log = [n \in Server |-> EmptyLog] /\ state = [n \in Server |-> "Follower"]
      /\ currentTerm = [n \in Server |-> 0] /\ elected = {} /\ committed = {}
      /\ commitIndex = [n \in Server |-> 0]
      /\ matchIndex = [n \in Server |-> [p \in Server |-> 0]]
  BY DEF Init
<1>3. EmptyLog[1] = ZeroEntry /\ LastIndex(EmptyLog) = 0 /\ LastTerm(EmptyLog) = 0
  BY DEF EmptyLog, ZeroEntry, LastIndex, LastTerm
<1>4. TermsOK
  BY <1>2, <1>3 DEF TermsOK
<1>5. Matching
  BY <1>2, <1>3 DEF Matching
<1>6. LeadersOK
  BY <1>2 DEF LeadersOK
<1>7. Counters
  BY <1>2 DEF Counters
<1>8. EntriesInv(D)
  BY <1>2 DEF EntriesInv
<1>9. CommittedInv(D)
  BY <1>2 DEF CommittedInv
<1> QED
  BY <1>1, <1>4, <1>5, <1>6, <1>7, <1>8, <1>9 DEF KeepInv, LogInv

\* What the invariant says of the leader of a later term.
LEMMA KeptIsThere ==
    ASSUME KeepInv
    PROVE  LeaderKeepsCommitted
<1> SUFFICES ASSUME NEW n \in Server, state[n] = Leader, NEW c \in committed,
                    c[1] < currentTerm[n]
             PROVE  Get(log[n], c[2].index) = c[2]
  BY DEF LeaderKeepsCommitted
<1>1. PICK D \in SUBSET Change : ConfigInv(D) /\ CommittedInv(D)
  BY DEF KeepInv
<1>2. currentTerm[n] \in Nat /\ c[1] \in Nat
  BY <1>1 DEF ConfigInv, RolesOK, CommittedInv
<1>3. PICK i \in Nat, Q \in SUBSET Server : Kept(c[1], c[2], i, Q)
  BY <1>1 DEF CommittedInv
<1>4. currentTerm[n] >= c[1]
  BY <1>2
<1>5. AtLeast(log[n], c[1], i)
  BY <1>3, <1>4 DEF Kept
<1> QED
  BY <1>3, <1>5 DEF Kept

\* With at most one AddPeer or RemovePeer ever submitted, whatever a leader
\* committed, counting the peers it had at that moment, is in the log of
\* every leader of a later term, whichever cluster elected it.  (For the same
\* reason as above two changes are out of its reach: two servers may then be
\* elected by majorities that do not meet.)
THEOREM SingleChangeKeepsCommitted ==
    ASSUME MaxChanges <= 1
    PROVE  Spec => []LeaderKeepsCommitted
<1>1. Init => KeepInv
  BY KeepInit
<1>2. KeepInv /\ [Next]_vars => KeepInv'
  BY KeepStep
<1>3. KeepInv => LeaderKeepsCommitted
  BY KeptIsThere
<1> QED
  BY <1>1, <1>2, <1>3, PTL DEF Spec

=============================================================================
