--------------------------- MODULE ElectionProofs ---------------------------
(***************************************************************************)
(* Machine-checked proofs about module Election, for every set of nodes,   *)
(* every bound and every set of logs.                                      *)
(***************************************************************************)
EXTENDS Election, FiniteSetTheorems, TLAPS

USE DEF Follower, Candidate, Leader

-----------------------------------------------------------------------------
(* Type correctness.                                                       *)

\* A freshly created cluster is well typed.
LEMMA TypeInit == ElectionInit => TypeOK
BY ElectionAssumption, LogSpaceAssumption DEF ElectionInit, TypeOK, Term

\* Every step of a node or of the network keeps the types.
LEMMA TypeStep == TypeOK /\ [ElectionNext]_electionVars => TypeOK'
<1> SUFFICES ASSUME TypeOK, [ElectionNext]_electionVars PROVE TypeOK'
  OBVIOUS
<1> USE ElectionAssumption
<1>1. ASSUME NEW n \in Node, BecomeCandidate(n) PROVE TypeOK'
  BY <1>1 DEF TypeOK, BecomeCandidate, Persist, Term
<1>2. ASSUME NEW n \in Node, NEW S \in SUBSET Peers(n), StartElection(n, S) PROVE TypeOK'
  <2>1. /\ LastTerm(log[n]) \in Nat /\ LastIndex(log[n]) \in Nat
        /\ spawned[n] \in Nat /\ currentTerm[n] \in Term
    BY LogSpaceAssumption DEF TypeOK
  <2>2. requests' \subseteq Request
    BY <1>2, <2>1 DEF TypeOK, StartElection, Request, Peers
  <2> QED
    BY <1>2, <2>1, <2>2 DEF TypeOK, StartElection, nodeVars
<1>3. ASSUME NEW m \in requests, NEW d \in BOOLEAN, HandleRequestVote(m, d) PROVE TypeOK'
  <2>1. m.to \in Node /\ m.cand \in Node /\ m.term \in Term /\ m.round \in Nat
    BY DEF TypeOK, Request
  <2>2. Grants(m) \in BOOLEAN
    BY DEF Grants
  <2>3. replies' \subseteq Reply
    BY <1>3, <2>1, <2>2 DEF TypeOK, HandleRequestVote, Reply
  <2>4. grants' \subseteq Node \X Term \X Node
    BY <1>3, <2>1 DEF TypeOK, HandleRequestVote
  <2>5. disk' \in [Node -> [term : Term, vote : Node \cup {Nil}]]
    <3>1. ASSUME NEW t \in Term, NEW v \in Node \cup {Nil}, Persist(m.to, t, v)
          PROVE  disk' \in [Node -> [term : Term, vote : Node \cup {Nil}]]
      BY <2>1, <3>1 DEF TypeOK, Persist
    <3>2. currentTerm[m.to] \in Term /\ votedFor[m.to] \in Node \cup {Nil}
      BY <2>1 DEF TypeOK
    <3>3. CASE HigherTerm(m) \/ Grants(m)
      BY <1>3, <2>1, <3>1, <3>2, <3>3 DEF HandleRequestVote
    <3>4. CASE ~(HigherTerm(m) \/ Grants(m))
      BY <1>3, <3>4 DEF TypeOK, HandleRequestVote
    <3> QED
      BY <3>3, <3>4
  <2> QED
    BY <1>3, <2>1, <2>3, <2>4, <2>5 DEF TypeOK, HandleRequestVote
<1>4. ASSUME NEW r \in replies, StepDownOnVoteReply(r) PROVE TypeOK'
  BY <1>4 DEF TypeOK, StepDownOnVoteReply, BecomeFollower, Persist, Reply
<1>5. ASSUME NEW r \in replies, CountVote(r) PROVE TypeOK'
  <2>1. r.cand \in Node /\ r.from \in Node /\ r.round \in Nat
    BY DEF TypeOK, Reply
  <2> QED
    BY <1>5, <2>1 DEF TypeOK, CountVote
<1>6. ASSUME NEW n \in Node, CheckQuorum(n) PROVE TypeOK'
  BY <1>6 DEF TypeOK, CheckQuorum, BecomeFollower, Persist
<1>7. ASSUME NEW n \in Node, NEW e \in elected, NEW a \in BOOLEAN, HearFromLeader(n, e, a)
      PROVE TypeOK'
  <2>1. e[1] \in Term /\ e[2] \in Node
    BY DEF TypeOK
  <2> QED
    BY <1>7, <2>1 DEF TypeOK, HearFromLeader, ObserveLeader, SomeLog, Persist
<1>8. ASSUME NEW n \in Node, NEW t \in Term, StepDownOnPeerReply(n, t) PROVE TypeOK'
  BY <1>8 DEF TypeOK, StepDownOnPeerReply, BecomeFollower, Persist
<1>9. ASSUME NEW n \in Node, OnlyLogChanges(n), SomeLog(n) PROVE TypeOK'
  BY <1>9 DEF TypeOK, OnlyLogChanges, SomeLog, nodeVars
<1>10. ASSUME NEW n \in Node, Restart(n) PROVE TypeOK'
  <2>1. requests' \subseteq Request
    BY <1>10, SMTT(30) DEF TypeOK, Restart, Orphan, Request
  <2> QED
    BY <1>10, <2>1, LogSpaceAssumption DEF TypeOK, Restart, FreshMemory, Term
<1>11. ASSUME NEW m \in requests, CrashInHandleRequestVote(m) PROVE TypeOK'
  <2>1. m.to \in Node /\ m.term \in Term
    BY DEF TypeOK, Request
  <2>2. requests' \subseteq Request
    BY <1>11 DEF TypeOK, CrashInHandleRequestVote, Orphan, Request
  <2>3. disk' \in [Node -> [term : Term, vote : Node \cup {Nil}]]
    BY <1>11, <2>1 DEF TypeOK, CrashInHandleRequestVote, Persist
  <2>4. EmptyLog \in LogSpace /\ 0 \in Term
    BY LogSpaceAssumption DEF Term
  <2>5. FreshMemory(m.to)
    BY <1>11 DEF CrashInHandleRequestVote
  <2> HIDE ElectionAssumption, <1>11
  <2> QED
    BY <2>1, <2>2, <2>3, <2>4, <2>5 DEF TypeOK, FreshMemory
<1>12. ASSUME NEW n \in Node, LoadState(n), SomeLog(n) PROVE TypeOK'
  BY <1>12 DEF TypeOK, LoadState, SomeLog
<1>13. ASSUME UNCHANGED electionVars PROVE TypeOK'
  BY <1>13 DEF TypeOK, electionVars, nodeVars
<1> QED
  BY <1>1, <1>2, <1>3, <1>4, <1>5, <1>6, <1>7, <1>8, <1>9, <1>10, <1>11, <1>12, <1>13
  DEF ElectionNext, QuorateNext

\* Every variable of the node keeps its type, whatever the bounds and even
\* when calls are served before loadState: no term leaves its range, no vote
\* or leader is anything but a member, no goroutine count goes negative.
THEOREM TypeCorrect == ElectionSpec => []TypeOK
<1>1. ElectionInit => TypeOK
  BY TypeInit
<1>2. TypeOK /\ [ElectionNext]_electionVars => TypeOK'
  BY TypeStep
<1> QED
  BY <1>1, <1>2, PTL DEF ElectionSpec

-----------------------------------------------------------------------------
(* The inductive invariant.                                                *)

\* A running process has on disk the term and the vote it acts on.
DiskInSync ==
    \A n \in Node : loaded[n] => disk[n].term = currentTerm[n] /\ disk[n].vote = votedFor[n]

\* A process that has not loaded its state takes no part in an election, and
\* nothing its predecessor started will come back to it.
Booting ==
    \A n \in Node : ~loaded[n] =>
        /\ state[n] = Follower /\ leaderID[n] = Nil /\ spawned[n] = 0
        /\ \A r \in replies : r.cand # n
        /\ \A m \in requests : m.cand = n => m.round = 0

\* A vote that was cast for another node is on the voter's disk until the
\* term there is higher.  (One for oneself is erased by checkQuorum.)
GrantsRecorded ==
    \A v \in Node, t \in Term, c \in Node : <<v, t, c>> \in grants =>
        /\ t <= disk[v].term
        /\ (t = disk[v].term /\ v # c) => disk[v].vote = c

\* No node votes for two others in one term.
OneExternalVote ==
    \A v \in Node, t \in Term, c, d \in Node :
        (<<v, t, c>> \in grants /\ <<v, t, d>> \in grants /\ v # c /\ v # d) => c = d

\* A node that stands or leads has its own vote, and holds on to it.
StandsWithOwnVote ==
    \A n \in Node : state[n] # Follower =>
        votedFor[n] = n /\ <<n, currentTerm[n], n>> \in grants

\* A reply that grants, and a vote that is counted, were cast.
RepliesSound ==
    /\ \A m \in requests : m.to # m.cand
    /\ \A r \in replies : /\ r.from # r.cand
                          /\ r.granted => <<r.from, r.term, r.cand>> \in grants

VotesSound ==
    \A n \in Node : state[n] # Follower =>
        \A k \in Nat, p \in Node : <<k, p>> \in votes[n] =>
            p # n /\ <<p, currentTerm[n], n>> \in grants

LeaderElected ==
    \A n \in Node : state[n] = Leader => <<currentTerm[n], n>> \in elected

ElectionInv ==
    /\ TypeOK
    /\ DiskInSync
    /\ Booting
    /\ GrantsRecorded
    /\ OneExternalVote
    /\ StandsWithOwnVote
    /\ RepliesSound
    /\ VotesSound
    /\ LeaderElected
    /\ LeaderIDWasElected
    /\ ElectedByMajority

\* Nobody has voted, stands or leads in a freshly created cluster.
LEMMA InvInit == ElectionInit => ElectionInv
BY TypeInit
DEF ElectionInit, ElectionInv, DiskInSync, Booting, GrantsRecorded, OneExternalVote,
    StandsWithOwnVote, RepliesSound, VotesSound, LeaderElected, LeaderIDWasElected,
    ElectedByMajority

\* Every step keeps the promises between memory, disk, messages and votes.
LEMMA InvStep ==
    ASSUME ~BootWindow
    PROVE  ElectionInv /\ [ElectionNext]_electionVars => ElectionInv'
<1> SUFFICES ASSUME ElectionInv, [ElectionNext]_electionVars PROVE ElectionInv'
  OBVIOUS
<1> USE ElectionAssumption
<1> USE DEF ElectionInv
<1>0. TypeOK'
  BY TypeStep
<1>a. ASSUME grants \subseteq grants', elected' = elected PROVE ElectedByMajority'
  <2> SUFFICES ASSUME NEW e \in elected
               PROVE  Cardinality({v \in Node : <<v, e[1], e[2]>> \in grants'}) >= Majority
    BY <1>a DEF ElectedByMajority, Majority
  <2>1. Cardinality({v \in Node : <<v, e[1], e[2]>> \in grants}) >= Majority
    BY DEF ElectedByMajority
  <2>2. Cardinality({v \in Node : <<v, e[1], e[2]>> \in grants})
          <= Cardinality({v \in Node : <<v, e[1], e[2]>> \in grants'})
    <3> DEFINE Old == {v \in Node : <<v, e[1], e[2]>> \in grants}
               New == {v \in Node : <<v, e[1], e[2]>> \in grants'}
    <3>1. Old \subseteq New
      BY <1>a
    <3>2. IsFiniteSet(New)
      BY FS_Subset
    <3> HIDE DEF Old, New
    <3>3. Cardinality(Old) <= Cardinality(New)
      BY <3>1, <3>2, FS_Subset
    <3> QED
      BY <3>3 DEF Old, New
  <2>3. /\ Cardinality({v \in Node : <<v, e[1], e[2]>> \in grants}) \in Nat
        /\ Cardinality({v \in Node : <<v, e[1], e[2]>> \in grants'}) \in Nat
        /\ Cardinality(Node) \in Nat
    BY FS_Subset, FS_CardinalityType
  <2> QED
    BY <2>1, <2>2, <2>3 DEF Majority
<1>1. ASSUME NEW n \in Node, BecomeCandidate(n)
      PROVE  ElectionInv'
  <2>1. disk[n].term = currentTerm[n] /\ currentTerm[n] \in Nat
    BY <1>1 DEF BecomeCandidate, DiskInSync, TypeOK, Term
  <2>2. GrantsRecorded'
    BY <1>0, <1>1, <2>1 DEF TypeOK, GrantsRecorded, BecomeCandidate, Persist, Term
  <2>3. OneExternalVote'
    BY <1>0, <1>1, <2>1
    DEF TypeOK, OneExternalVote, BecomeCandidate, Persist, GrantsRecorded, Term
  <2>4. ElectedByMajority'
    BY <1>1, <1>a DEF BecomeCandidate
  <2>5. /\ DiskInSync'
        /\ Booting'
        /\ StandsWithOwnVote'
        /\ RepliesSound'
        /\ VotesSound'
        /\ LeaderElected'
        /\ LeaderIDWasElected'
    BY <1>0, <1>1, <2>1
    DEF TypeOK, DiskInSync, Booting, StandsWithOwnVote, RepliesSound, VotesSound,
        LeaderElected, LeaderIDWasElected,
        BecomeCandidate, Persist
  <2> QED
    BY <1>0, <2>2, <2>3, <2>4, <2>5
<1>2. ASSUME NEW n \in Node, NEW S \in SUBSET Peers(n), StartElection(n, S)
      PROVE  ElectionInv'
  <2>1. /\ DiskInSync'
        /\ Booting'
        /\ GrantsRecorded'
        /\ OneExternalVote'
        /\ StandsWithOwnVote'
        /\ RepliesSound'
        /\ VotesSound'
        /\ LeaderElected'
        /\ LeaderIDWasElected'
        /\ ElectedByMajority'
    BY <1>0, <1>2
    DEF TypeOK, DiskInSync, Booting, GrantsRecorded, OneExternalVote, StandsWithOwnVote,
        RepliesSound, VotesSound, LeaderElected, LeaderIDWasElected, ElectedByMajority,
        StartElection, nodeVars, Peers
  <2> QED
    BY <1>0, <2>1
<1>3. ASSUME NEW m \in requests, NEW d \in BOOLEAN, HandleRequestVote(m, d)
      PROVE  ElectionInv'
  <2>1. /\ m.to \in Node /\ m.cand \in Node /\ m.term \in Term /\ m.to # m.cand
        /\ m.term \in Nat /\ currentTerm[m.to] \in Nat /\ Nil \notin Node
    BY <1>3 DEF TypeOK, Request, RepliesSound, Term
  <2>2. /\ loaded[m.to]
        /\ disk[m.to].term = currentTerm[m.to] /\ disk[m.to].vote = votedFor[m.to]
    BY <1>3, <2>1 DEF HandleRequestVote, Serving, DiskInSync
  <2>3. DiskInSync'
    BY <1>0, <1>3, <2>1, <2>2
    DEF TypeOK, DiskInSync, HandleRequestVote, Persist, Grants, HigherTerm
  <2>4. Booting'
    BY <1>0, <1>3, <2>1, <2>2
    DEF TypeOK, Booting, HandleRequestVote, Persist, Grants, HigherTerm
  <2>5. GrantsRecorded'
    <3>1. CASE Grants(m)
      <4>1. /\ disk' = [disk EXCEPT ![m.to] = [term |-> m.term, vote |-> m.cand]]
            /\ grants' = grants \cup {<<m.to, m.term, m.cand>>}
        BY <1>3, <2>1, <2>2, <3>1 DEF HandleRequestVote, Grants, HigherTerm, Persist
      <4>2. \/ m.term > disk[m.to].term
            \/ m.term = disk[m.to].term /\ disk[m.to].vote \in {Nil, m.cand}
        BY <1>3, <2>1, <2>2, <3>1 DEF Grants, HigherTerm
      <4> QED
        BY <4>1, <4>2, <2>1, <2>2 DEF GrantsRecorded, TypeOK, Term
    <3>2. CASE ~Grants(m) /\ HigherTerm(m)
      BY <1>3, <2>1, <2>2, <3>2
      DEF HandleRequestVote, HigherTerm, Persist, GrantsRecorded, TypeOK, Term
    <3>3. CASE ~Grants(m) /\ ~HigherTerm(m)
      BY <1>3, <2>1, <2>2, <3>3 DEF HandleRequestVote, GrantsRecorded, TypeOK
    <3> QED
      BY <3>1, <3>2, <3>3
  <2>6. OneExternalVote'
    <3>1. CASE Grants(m)
      <4>1. grants' = grants \cup {<<m.to, m.term, m.cand>>}
        BY <1>3, <3>1 DEF HandleRequestVote
      <4>2. \/ m.term > disk[m.to].term
            \/ m.term = disk[m.to].term /\ disk[m.to].vote \in {Nil, m.cand}
        BY <1>3, <2>1, <2>2, <3>1 DEF Grants, HigherTerm
      <4>3. ASSUME NEW c \in Node, <<m.to, m.term, c>> \in grants, c # m.to PROVE c = m.cand
        BY <4>2, <4>3, <2>1, <2>2 DEF GrantsRecorded
      <4> QED
        BY <4>1, <4>3, <2>1, <2>2 DEF OneExternalVote
    <3>2. CASE ~Grants(m)
      BY <1>3, <3>2 DEF HandleRequestVote, OneExternalVote
    <3> QED
      BY <3>1, <3>2
  <2>7. StandsWithOwnVote'
    BY <1>0, <1>3, <2>1, <2>2
    DEF TypeOK, StandsWithOwnVote, HandleRequestVote, Persist, Grants, HigherTerm
  <2>8. RepliesSound'
    BY <1>0, <1>3, <2>1, <2>2
    DEF TypeOK, RepliesSound, HandleRequestVote, Persist, Grants, HigherTerm
  <2>9. VotesSound'
    BY <1>0, <1>3, <2>1, <2>2
    DEF TypeOK, VotesSound, HandleRequestVote, Persist, Grants, HigherTerm
  <2>10. ElectedByMajority'
    BY <1>3, <1>a DEF HandleRequestVote
  <2>11. LeaderElected' /\ LeaderIDWasElected'
    BY <1>0, <1>3, <2>1, <2>2
    DEF TypeOK, LeaderElected, LeaderIDWasElected,
        HandleRequestVote, Persist, Grants, HigherTerm
  <2> QED
    BY <1>0, <2>3, <2>4, <2>5, <2>6, <2>7, <2>8, <2>9, <2>10, <2>11
<1>4. ASSUME NEW r \in replies, StepDownOnVoteReply(r)
      PROVE  ElectionInv'
  <2>1. /\ r.cand \in Node /\ loaded[r.cand] /\ disk[r.cand].term = currentTerm[r.cand]
        /\ r.replyTerm \in Nat /\ currentTerm[r.cand] \in Nat
    BY <1>4 DEF TypeOK, Reply, Booting, DiskInSync, Term
  <2>2. GrantsRecorded'
    BY <1>0, <1>4, <2>1
    DEF TypeOK, GrantsRecorded, StepDownOnVoteReply, BecomeFollower, Persist, Term
  <2>3. /\ DiskInSync'
        /\ Booting'
        /\ OneExternalVote'
        /\ StandsWithOwnVote'
        /\ RepliesSound'
        /\ VotesSound'
        /\ LeaderElected'
        /\ LeaderIDWasElected'
        /\ ElectedByMajority'
    BY <1>0, <1>4, <2>1
    DEF TypeOK, DiskInSync, Booting, OneExternalVote, StandsWithOwnVote, RepliesSound,
        VotesSound, LeaderElected, LeaderIDWasElected, ElectedByMajority,
        StepDownOnVoteReply, BecomeFollower, Persist
  <2> QED
    BY <1>0, <2>2, <2>3
<1>5. ASSUME NEW r \in replies, CountVote(r)
      PROVE  ElectionInv'
  <2>1. /\ r.cand \in Node /\ r.from \in Node /\ r.round \in Nat /\ r.from # r.cand
        /\ <<r.from, r.term, r.cand>> \in grants
    BY <1>5 DEF TypeOK, Reply, RepliesSound, CountVote, CountsFor
  <2>2. Booting'
    BY <1>0, <1>5, <2>1 DEF TypeOK, Booting, CountVote, CountsFor
  <2>3. VotesSound'
    BY <1>0, <1>5, <2>1, ZenonT(30) DEF TypeOK, VotesSound, CountVote, CountsFor
  <2>4. ElectedByMajority'
    <3> DEFINE n == r.cand
               Counted == {p \in Node : <<r.round, p>> \in votes[n] \cup {<<r.round, r.from>>}}
               Voters == {v \in Node : <<v, currentTerm[n], n>> \in grants}
    <3>1. CASE Tally(n, r) >= Majority
      <4>1. n \notin Counted /\ Counted \cup {n} \subseteq Voters
        BY <1>5, <2>1 DEF CountVote, CountsFor, VotesSound, StandsWithOwnVote
      <4>2. IsFiniteSet(Voters) /\ IsFiniteSet(Counted)
        BY FS_Subset
      <4>3. Cardinality(Counted \cup {n}) = Cardinality(Counted) + 1
        BY <4>1, <4>2, FS_AddElement
      <4>4. Cardinality(Counted \cup {n}) <= Cardinality(Voters)
        BY <4>1, <4>2, FS_Subset
      <4>5. Cardinality(Voters) >= Majority
        <5>1. Tally(n, r) = 1 + Cardinality(Counted)
          BY DEF Tally
        <5>2. /\ Cardinality(Counted) \in Nat /\ Cardinality(Voters) \in Nat
              /\ Cardinality(Node) \in Nat
          BY <4>2, FS_CardinalityType
        <5> QED
          BY <3>1, <4>3, <4>4, <5>1, <5>2 DEF Majority
      <4>6. elected' = elected \cup {<<currentTerm[n], n>>} /\ grants' = grants
        BY <1>5, <3>1 DEF CountVote
      <4>7. SUFFICES ASSUME NEW e \in elected \cup {<<currentTerm[n], n>>}
                     PROVE  Cardinality({v \in Node : <<v, e[1], e[2]>> \in grants}) >= Majority
        BY <4>6 DEF ElectedByMajority, Majority
      <4>8. CASE e \in elected
        BY <4>8 DEF ElectedByMajority
      <4>9. CASE e = <<currentTerm[n], n>>
        BY <4>5, <4>9
      <4> QED
        BY <4>8, <4>9
    <3>2. CASE ~(Tally(n, r) >= Majority)
      BY <1>5, <1>a, <3>2 DEF CountVote
    <3> QED
      BY <3>1, <3>2
  <2>5. /\ DiskInSync'
        /\ GrantsRecorded'
        /\ OneExternalVote'
        /\ StandsWithOwnVote'
        /\ RepliesSound'
        /\ LeaderElected'
        /\ LeaderIDWasElected'
    BY <1>0, <1>5, <2>1
    DEF TypeOK, DiskInSync, GrantsRecorded, OneExternalVote, StandsWithOwnVote,
        RepliesSound, LeaderElected, LeaderIDWasElected,
        CountVote, CountsFor
  <2> QED
    BY <1>0, <2>2, <2>3, <2>4, <2>5
<1>6. ASSUME NEW n \in Node, CheckQuorum(n)
      PROVE  ElectionInv'
  <2>1. loaded[n] /\ votedFor[n] = n
    BY <1>6 DEF CheckQuorum, Booting, StandsWithOwnVote
  <2>2. /\ disk[n].term = currentTerm[n] /\ disk[n].vote = n
        /\ currentTerm[n] \in Nat
    BY <1>6, <2>1 DEF DiskInSync, TypeOK, Term
  <2>3. GrantsRecorded'
    BY <1>0, <1>6, <2>1, <2>2
    DEF TypeOK, GrantsRecorded, CheckQuorum, BecomeFollower, Persist, Term
  <2>4. /\ DiskInSync'
        /\ Booting'
        /\ OneExternalVote'
        /\ StandsWithOwnVote'
        /\ RepliesSound'
        /\ VotesSound'
        /\ LeaderElected'
        /\ LeaderIDWasElected'
        /\ ElectedByMajority'
    BY <1>0, <1>6, <2>1, <2>2
    DEF TypeOK, DiskInSync, Booting, OneExternalVote, StandsWithOwnVote, RepliesSound,
        VotesSound, LeaderElected, LeaderIDWasElected, ElectedByMajority,
        CheckQuorum, BecomeFollower, Persist
  <2> QED
    BY <1>0, <2>3, <2>4
<1>7. ASSUME NEW n \in Node, NEW e \in elected, NEW a \in BOOLEAN, HearFromLeader(n, e, a)
      PROVE  ElectionInv'
  <2>1. /\ e[1] \in Nat /\ e[2] \in Node /\ <<e[1], e[2]>> \in elected
        /\ currentTerm[n] \in Nat
    <3>1. PICK t \in Term, l \in Node : e = <<t, l>>
      BY DEF TypeOK
    <3> QED
      BY <3>1 DEF TypeOK, Term
  <2>2. loaded[n] /\ disk[n].term = currentTerm[n] /\ disk[n].vote = votedFor[n]
    BY <1>7, <2>1 DEF HearFromLeader, ObserveLeader, Serving, DiskInSync
  <2>3. CASE e[1] > currentTerm[n]
    <3>1. /\ currentTerm' = [currentTerm EXCEPT ![n] = e[1]]
          /\ votedFor' = [votedFor EXCEPT ![n] = Nil]
          /\ state' = [state EXCEPT ![n] = Follower]
          /\ leaderID' = [leaderID EXCEPT ![n] = e[2]]
          /\ disk' = [disk EXCEPT ![n] = [term |-> e[1], vote |-> Nil]]
          /\ UNCHANGED <<loaded, spawned, votes, requests, replies, grants, elected>>
      BY <1>7, <2>3 DEF HearFromLeader, ObserveLeader, Persist
    <3>2. DiskInSync' /\ Booting'
      BY <2>2, <3>1 DEF TypeOK, DiskInSync, Booting
    <3>6. LeaderIDWasElected'
      BY <2>1, <3>1 DEF TypeOK, LeaderIDWasElected
    <3>3. GrantsRecorded'
      BY <2>1, <2>2, <2>3, <3>1 DEF TypeOK, GrantsRecorded, Term
    <3>4. StandsWithOwnVote' /\ VotesSound' /\ LeaderElected'
      BY <3>1 DEF TypeOK, StandsWithOwnVote, VotesSound, LeaderElected
    <3>5. OneExternalVote' /\ RepliesSound' /\ ElectedByMajority'
      BY <3>1 DEF OneExternalVote, RepliesSound, ElectedByMajority
    <3> QED
      BY <1>0, <3>2, <3>3, <3>4, <3>5, <3>6
  <2>4. CASE e[1] = currentTerm[n]
    <3>1. /\ currentTerm' = currentTerm /\ votedFor' = votedFor
          /\ leaderID' = [leaderID EXCEPT ![n] = e[2]]
          /\ UNCHANGED <<disk, loaded, spawned, votes, requests, replies, grants, elected>>
      BY <1>7, <2>1, <2>4 DEF HearFromLeader, ObserveLeader, TypeOK
    <3>2. \A k \in Node : state'[k] \in {state[k], Follower}
      BY <1>7, <2>4 DEF HearFromLeader, ObserveLeader, TypeOK
    <3>3. DiskInSync' /\ Booting' /\ LeaderIDWasElected'
      BY <2>1, <2>2, <2>4, <3>1, <3>2, SMTT(30) DEF TypeOK, DiskInSync, Booting, LeaderIDWasElected
    <3>4. StandsWithOwnVote' /\ VotesSound' /\ LeaderElected'
      BY <3>1, <3>2 DEF TypeOK, StandsWithOwnVote, VotesSound, LeaderElected
    <3>5. GrantsRecorded' /\ OneExternalVote' /\ RepliesSound' /\ ElectedByMajority'
      BY <3>1 DEF GrantsRecorded, OneExternalVote, RepliesSound, ElectedByMajority
    <3> QED
      BY <1>0, <3>3, <3>4, <3>5
  <2> QED
    BY <1>7, <2>1, <2>3, <2>4 DEF HearFromLeader, ObserveLeader
<1>8. ASSUME NEW n \in Node, NEW t \in Term, StepDownOnPeerReply(n, t)
      PROVE  ElectionInv'
  <2>1. /\ loaded[n] /\ disk[n].term = currentTerm[n]
        /\ currentTerm[n] \in Nat /\ t \in Nat
    BY <1>8 DEF StepDownOnPeerReply, DiskInSync, TypeOK, Term
  <2>2. GrantsRecorded'
    BY <1>0, <1>8, <2>1
    DEF TypeOK, GrantsRecorded, StepDownOnPeerReply, BecomeFollower, Persist, Term
  <2>3. /\ DiskInSync'
        /\ Booting'
        /\ OneExternalVote'
        /\ StandsWithOwnVote'
        /\ RepliesSound'
        /\ VotesSound'
        /\ LeaderElected'
        /\ LeaderIDWasElected'
        /\ ElectedByMajority'
    BY <1>0, <1>8, <2>1
    DEF TypeOK, DiskInSync, Booting, OneExternalVote, StandsWithOwnVote, RepliesSound,
        VotesSound, LeaderElected, LeaderIDWasElected, ElectedByMajority,
        StepDownOnPeerReply, BecomeFollower, Persist
  <2> QED
    BY <1>0, <2>2, <2>3
<1>9. ASSUME NEW n \in Node, OnlyLogChanges(n), SomeLog(n)
      PROVE  ElectionInv'
  <2>1. /\ DiskInSync'
        /\ Booting'
        /\ GrantsRecorded'
        /\ OneExternalVote'
        /\ StandsWithOwnVote'
        /\ RepliesSound'
        /\ VotesSound'
        /\ LeaderElected'
        /\ LeaderIDWasElected'
        /\ ElectedByMajority'
    BY <1>0, <1>9
    DEF TypeOK, DiskInSync, Booting, GrantsRecorded, OneExternalVote, StandsWithOwnVote,
        RepliesSound, VotesSound, LeaderElected, LeaderIDWasElected, ElectedByMajority,
        OnlyLogChanges, nodeVars
  <2> QED
    BY <1>0, <2>1
<1>10. ASSUME NEW n \in Node, Restart(n)
      PROVE  ElectionInv'
  <2>1. requests' = Orphan(n, requests) /\ Orphan(n, requests) \subseteq Request
    BY <1>10 DEF Restart, Orphan, TypeOK, Request
  <2>2. Booting'
    BY <1>0, <1>10, <2>1 DEF TypeOK, Booting, Restart, FreshMemory, Orphan, Request
  <2>3. RepliesSound'
    BY <1>0, <1>10, <2>1 DEF TypeOK, RepliesSound, Restart, FreshMemory, Orphan, Request
  <2>4. DiskInSync' /\ GrantsRecorded' /\ OneExternalVote' /\ ElectedByMajority'
    BY <1>10 DEF TypeOK, DiskInSync, GrantsRecorded, OneExternalVote, ElectedByMajority,
                Restart, FreshMemory
  <2>5. StandsWithOwnVote' /\ VotesSound' /\ LeaderElected' /\ LeaderIDWasElected'
    BY <1>10 DEF TypeOK, StandsWithOwnVote, VotesSound, LeaderElected, LeaderIDWasElected,
                Restart, FreshMemory
  <2> QED
    BY <1>0, <2>2, <2>3, <2>4, <2>5
<1>11. ASSUME NEW m \in requests, CrashInHandleRequestVote(m)
      PROVE  ElectionInv'
  <2>1. /\ m.to \in Node /\ m.term \in Nat /\ currentTerm[m.to] \in Nat
        /\ m.term > disk[m.to].term
    BY <1>11 DEF CrashInHandleRequestVote, HigherTerm, DiskInSync, TypeOK, Request, Term
  <2>2. DiskInSync'
    BY <1>0, <1>11, <2>1
    DEF TypeOK, DiskInSync, CrashInHandleRequestVote, FreshMemory, Persist
  <2>3. Booting'
    BY <1>0, <1>11, <2>1
    DEF TypeOK, Booting, CrashInHandleRequestVote, FreshMemory, Orphan, Request
  <2>4. GrantsRecorded'
    BY <1>0, <1>11, <2>1
    DEF TypeOK, GrantsRecorded, CrashInHandleRequestVote, FreshMemory, Persist, Term
  <2>5. RepliesSound'
    <3>1. requests' = Orphan(m.to, requests \ {m}) /\ replies' \subseteq replies /\ grants' = grants
      BY <1>11 DEF CrashInHandleRequestVote, FreshMemory
    <3> QED
      BY <3>1 DEF RepliesSound, Orphan, TypeOK, Request
  <2>6. ElectedByMajority'
    BY <1>11, <1>a DEF CrashInHandleRequestVote, FreshMemory
  <2>7. /\ OneExternalVote'
        /\ StandsWithOwnVote'
        /\ VotesSound'
        /\ LeaderElected'
        /\ LeaderIDWasElected'
    BY <1>0, <1>11, <2>1
    DEF TypeOK, OneExternalVote, StandsWithOwnVote, VotesSound, LeaderElected,
        LeaderIDWasElected,
        CrashInHandleRequestVote, FreshMemory
  <2> QED
    BY <1>0, <2>2, <2>3, <2>4, <2>5, <2>6, <2>7
<1>12. ASSUME NEW n \in Node, LoadState(n), SomeLog(n)
      PROVE  ElectionInv'
  <2>1. state[n] = Follower /\ leaderID[n] = Nil
    BY <1>12 DEF LoadState, Booting
  <2>2. /\ DiskInSync'
        /\ Booting'
        /\ GrantsRecorded'
        /\ OneExternalVote'
        /\ StandsWithOwnVote'
        /\ RepliesSound'
        /\ VotesSound'
        /\ LeaderElected'
        /\ LeaderIDWasElected'
        /\ ElectedByMajority'
    BY <1>0, <1>12, <2>1, SMTT(30)
    DEF TypeOK, DiskInSync, Booting, GrantsRecorded, OneExternalVote, StandsWithOwnVote,
        RepliesSound, VotesSound, LeaderElected, LeaderIDWasElected, ElectedByMajority,
        LoadState
  <2> QED
    BY <1>0, <2>2
<1>13. ASSUME UNCHANGED electionVars
      PROVE  ElectionInv'
  <2>1. /\ DiskInSync'
        /\ Booting'
        /\ GrantsRecorded'
        /\ OneExternalVote'
        /\ StandsWithOwnVote'
        /\ RepliesSound'
        /\ VotesSound'
        /\ LeaderElected'
        /\ LeaderIDWasElected'
        /\ ElectedByMajority'
    BY <1>0, <1>13
    DEF TypeOK, DiskInSync, Booting, GrantsRecorded, OneExternalVote, StandsWithOwnVote,
        RepliesSound, VotesSound, LeaderElected, LeaderIDWasElected, ElectedByMajority,
        electionVars, nodeVars
  <2> QED
    BY <1>0, <2>1
<1> QED
  BY <1>1, <1>2, <1>3, <1>4, <1>5, <1>6, <1>7, <1>8, <1>9, <1>10, <1>11, <1>12, <1>13
  DEF ElectionNext, QuorateNext

\* The inductive invariant holds for ever.
LEMMA Invariance ==
    ASSUME ~BootWindow
    PROVE  ElectionSpec => []ElectionInv
<1>1. ElectionInit => ElectionInv
  BY InvInit
<1>2. ElectionInv /\ [ElectionNext]_electionVars => ElectionInv'
  BY InvStep
<1> QED
  BY <1>1, <1>2, PTL DEF ElectionSpec

-----------------------------------------------------------------------------
(* What follows from it.                                                   *)

\* Two majorities have a member in common.
LEMMA MajoritiesMeet ==
    ASSUME NEW A, NEW B, A \subseteq Node, B \subseteq Node,
           Cardinality(A) >= Majority, Cardinality(B) >= Majority
    PROVE  \E v \in Node : v \in A /\ v \in B
<1> SUFFICES ASSUME A \cap B = {} PROVE FALSE
  OBVIOUS
<1>1. IsFiniteSet(A) /\ IsFiniteSet(B) /\ IsFiniteSet(Node)
  BY FS_Subset, ElectionAssumption
<1>2. Cardinality(A \cup B) = Cardinality(A) + Cardinality(B) - Cardinality({})
  BY <1>1, FS_Union
<1>3. Cardinality(A \cup B) <= Cardinality(Node)
  BY <1>1, FS_Subset, A \cup B \subseteq Node
<1>4. Cardinality({}) = 0
  BY FS_EmptySet
<1>5. Cardinality(A) \in Nat /\ Cardinality(B) \in Nat /\ Cardinality(Node) \in Nat
  BY <1>1, FS_CardinalityType
<1> QED
  BY <1>2, <1>3, <1>4, <1>5 DEF Majority

\* Who was elected in a term shares a voter with everybody else who was.
LEMMA CommonVoter ==
    ASSUME TypeOK, ElectedByMajority,
           NEW t \in Term, NEW a \in Node, NEW b \in Node,
           <<t, a>> \in elected, <<t, b>> \in elected
    PROVE  \E v \in Node : <<v, t, a>> \in grants /\ <<v, t, b>> \in grants
<1> DEFINE A == {v \in Node : <<v, t, a>> \in grants}
           B == {v \in Node : <<v, t, b>> \in grants}
<1>1. Cardinality(A) >= Majority
  BY DEF ElectedByMajority
<1>2. Cardinality(B) >= Majority
  BY DEF ElectedByMajority
<1>3. A \subseteq Node /\ B \subseteq Node
  OBVIOUS
<1> HIDE DEF A, B
<1>4. \E v \in Node : v \in A /\ v \in B
  BY <1>1, <1>2, <1>3, MajoritiesMeet
<1> QED
  BY <1>4 DEF A, B

\* Two leaders of one term would share a voter other than both.
LEMMA OneActiveLeader == ElectionInv => AtMostOneActiveLeader
<1> SUFFICES ASSUME ElectionInv, NEW a \in Node, NEW b \in Node,
                    state[a] = Leader, state[b] = Leader,
                    currentTerm[a] = currentTerm[b], a # b
             PROVE  FALSE
  BY DEF AtMostOneActiveLeader
<1> DEFINE t == currentTerm[a]
<1>1. t \in Term /\ <<t, a>> \in elected /\ <<t, b>> \in elected
  BY DEF ElectionInv, TypeOK, LeaderElected
<1>2. PICK v \in Node : <<v, t, a>> \in grants /\ <<v, t, b>> \in grants
  BY <1>1, CommonVoter DEF ElectionInv
<1>3. ASSUME NEW n \in Node, state[n] = Leader
      PROVE  disk[n].term = currentTerm[n] /\ disk[n].vote = n
  <2>1. loaded[n]
    BY <1>3 DEF ElectionInv, Booting, TypeOK
  <2> QED
    BY <1>3, <2>1 DEF ElectionInv, DiskInSync, StandsWithOwnVote
<1>4. v # a
  BY <1>1, <1>2, <1>3 DEF ElectionInv, GrantsRecorded
<1>5. v # b
  BY <1>1, <1>2, <1>3 DEF ElectionInv, GrantsRecorded
<1> QED
  BY <1>1, <1>2, <1>4, <1>5 DEF ElectionInv, OneExternalVote

\* At any moment at most one node acts as leader in a term, for any number
\* of nodes and whatever is crashed, delayed or lost, also when leaders lose
\* their quorum, provided that no call is served before loadState.
THEOREM ActiveLeaderUnique ==
    ASSUME ~BootWindow
    PROVE  ElectionSpec => []AtMostOneActiveLeader
<1>1. ElectionInv => AtMostOneActiveLeader
  BY OneActiveLeader
<1> QED
  BY <1>1, Invariance, PTL

\* Every election was won with the votes of a majority of the nodes in that
\* very term: no stale, foreign or repeated reply is ever counted.
THEOREM MajorityElects ==
    ASSUME ~BootWindow
    PROVE  ElectionSpec => []ElectedByMajority
<1>1. ElectionInv => ElectedByMajority
  BY DEF ElectionInv
<1> QED
  BY <1>1, Invariance, PTL

\* The leader a node reports was elected in that node's current term.
THEOREM ReportedLeaderElected ==
    ASSUME ~BootWindow
    PROVE  ElectionSpec => []LeaderIDWasElected
<1>1. ElectionInv => LeaderIDWasElected
  BY DEF ElectionInv
<1> QED
  BY <1>1, Invariance, PTL

\* Whatever happens, the terms on disk only grow, and elections are not
\* taken back.
LEMMA TermsGrow ==
    ASSUME ~BootWindow, ElectionInv, [ElectionNext]_electionVars
    PROVE  /\ \A n \in Node : disk'[n].term >= disk[n].term
           /\ elected \subseteq elected' /\ grants \subseteq grants'
<1> DEFINE Goal == /\ \A n \in Node : disk'[n].term >= disk[n].term
                   /\ elected \subseteq elected' /\ grants \subseteq grants'
<1> USE ElectionAssumption
<1>0. \A n \in Node : /\ disk[n].term \in Nat /\ currentTerm[n] \in Nat
                      /\ loaded[n] => disk[n].term = currentTerm[n]
  BY DEF ElectionInv, TypeOK, Term, DiskInSync
<1>a. ASSUME disk' = disk, elected \subseteq elected', grants' = grants PROVE Goal
  BY <1>0, <1>a
<1>b. ASSUME NEW n \in Node, NEW t \in Nat, NEW v, t >= currentTerm[n], loaded[n],
             Persist(n, t, v), elected' = elected, grants \subseteq grants'
      PROVE  Goal
  BY <1>0, <1>b DEF ElectionInv, TypeOK, Persist
<1>1. ASSUME NEW n \in Node, BecomeCandidate(n) PROVE Goal
  <2>1. /\ currentTerm[n] + 1 \in Nat /\ currentTerm[n] + 1 >= currentTerm[n] /\ loaded[n]
        /\ Persist(n, currentTerm[n] + 1, n)
        /\ elected' = elected /\ grants \subseteq grants'
    BY <1>0, <1>1 DEF BecomeCandidate
  <2> QED
    BY <1>b, <2>1
<1>2. ASSUME NEW n \in Node, NEW S \in SUBSET Peers(n), StartElection(n, S) PROVE Goal
  BY <1>2, <1>a DEF StartElection
<1>3. ASSUME NEW m \in requests, NEW d \in BOOLEAN, HandleRequestVote(m, d) PROVE Goal
  <2>1. m.to \in Node /\ m.cand \in Node /\ m.term \in Nat
    BY DEF ElectionInv, TypeOK, Request, Term
  <2>2. loaded[m.to] /\ elected' = elected /\ grants \subseteq grants'
    BY <1>3, <2>1 DEF HandleRequestVote, Serving
  <2>3. CASE HigherTerm(m) \/ Grants(m)
    <3>1. \E v : Persist(m.to, IF HigherTerm(m) THEN m.term ELSE currentTerm[m.to], v)
      BY <1>3, <2>3 DEF HandleRequestVote
    <3>2. /\ (IF HigherTerm(m) THEN m.term ELSE currentTerm[m.to]) \in Nat
          /\ (IF HigherTerm(m) THEN m.term ELSE currentTerm[m.to]) >= currentTerm[m.to]
      BY <1>0, <2>1 DEF HigherTerm
    <3> QED
      BY <1>b, <2>1, <2>2, <3>1, <3>2
  <2>4. CASE ~(HigherTerm(m) \/ Grants(m))
    BY <1>3, <1>a, <2>2, <2>4 DEF HandleRequestVote
  <2> QED
    BY <2>3, <2>4
<1>4. ASSUME NEW r \in replies, StepDownOnVoteReply(r) PROVE Goal
  <2>1. r.cand \in Node /\ r.replyTerm \in Nat /\ loaded[r.cand]
    BY DEF ElectionInv, TypeOK, Reply, Booting, Term
  <2>2. /\ r.replyTerm >= currentTerm[r.cand] /\ Persist(r.cand, r.replyTerm, Nil)
        /\ elected' = elected /\ grants \subseteq grants'
    BY <1>0, <1>4, <2>1 DEF StepDownOnVoteReply, BecomeFollower
  <2> QED
    BY <1>b, <2>1, <2>2
<1>5. ASSUME NEW r \in replies, CountVote(r) PROVE Goal
  BY <1>5, <1>a DEF CountVote
<1>6. ASSUME NEW n \in Node, CheckQuorum(n) PROVE Goal
  <2>1. loaded[n] /\ currentTerm[n] >= currentTerm[n] /\ currentTerm[n] \in Nat
    BY <1>0, <1>6 DEF CheckQuorum, ElectionInv, Booting
  <2>2. /\ Persist(n, currentTerm[n], Nil)
        /\ elected' = elected /\ grants \subseteq grants'
    BY <1>6 DEF CheckQuorum, BecomeFollower
  <2> QED
    BY <1>b, <2>1, <2>2
<1>7. ASSUME NEW n \in Node, NEW e \in elected, NEW a \in BOOLEAN, HearFromLeader(n, e, a)
      PROVE  Goal
  <2>1. /\ e[1] \in Nat /\ e[1] >= currentTerm[n] /\ loaded[n]
        /\ elected' = elected /\ grants' = grants
    BY <1>7 DEF HearFromLeader, ObserveLeader, Serving, ElectionInv, TypeOK, Term
  <2>2. CASE e[1] > currentTerm[n]
    BY <1>7, <1>b, <2>1, <2>2 DEF HearFromLeader, ObserveLeader
  <2>3. CASE ~(e[1] > currentTerm[n])
    BY <1>7, <1>a, <2>1, <2>3 DEF HearFromLeader, ObserveLeader
  <2> QED
    BY <2>2, <2>3
<1>8. ASSUME NEW n \in Node, NEW t \in Term, StepDownOnPeerReply(n, t) PROVE Goal
  <2>1. /\ t \in Nat /\ t >= currentTerm[n] /\ loaded[n] /\ Persist(n, t, Nil)
        /\ elected' = elected /\ grants \subseteq grants'
    BY <1>0, <1>8 DEF StepDownOnPeerReply, BecomeFollower, Term
  <2> QED
    BY <1>b, <2>1
<1>9. ASSUME NEW n \in Node, OnlyLogChanges(n), SomeLog(n) PROVE Goal
  BY <1>9, <1>a DEF OnlyLogChanges
<1>10. ASSUME NEW n \in Node, Restart(n) PROVE Goal
  BY <1>10, <1>a DEF Restart, FreshMemory
<1>11. ASSUME NEW m \in requests, CrashInHandleRequestVote(m) PROVE Goal
  <2>1. m.to \in Node /\ m.term \in Nat
    BY DEF ElectionInv, TypeOK, Request, Term
  <2>2. /\ m.term >= currentTerm[m.to] /\ loaded[m.to] /\ Persist(m.to, m.term, Nil)
        /\ elected' = elected /\ grants \subseteq grants'
    BY <1>0, <1>11, <2>1 DEF CrashInHandleRequestVote, HigherTerm, FreshMemory
  <2> QED
    BY <1>b, <2>1, <2>2
<1>12. ASSUME NEW n \in Node, LoadState(n), SomeLog(n) PROVE Goal
  BY <1>12, <1>a DEF LoadState
<1>13. ASSUME UNCHANGED electionVars PROVE Goal
  BY <1>13, <1>a DEF electionVars
<1> HIDE DEF Goal
<1>14. Goal
  BY <1>1, <1>2, <1>3, <1>4, <1>5, <1>6, <1>7, <1>8, <1>9, <1>10, <1>11, <1>12, <1>13
  DEF ElectionNext, QuorateNext
<1> QED
  BY <1>14 DEF Goal

-----------------------------------------------------------------------------
(* Without quorum loss: one vote per term.                                 *)

\* What a step may do to the promises on a disk: raise the term, or give the
\* vote of the term that has not been given.
DiskKeeps(n) ==
    /\ disk'[n].term >= disk[n].term
    /\ (disk'[n].term = disk[n].term /\ disk[n].vote # Nil) => disk'[n].vote = disk[n].vote

\* A vote is only cast together with its record, over no other vote.
CastWithRecord(v, t, c) ==
    /\ disk'[v].term = t /\ disk'[v].vote = c
    /\ t > disk[v].term \/ (t = disk[v].term /\ disk[v].vote \in {Nil, c})

\* A vote that was cast, for oneself too, is on the voter's disk until the
\* term there is higher.
AllGrantsRecorded ==
    \A v \in Node, t \in Term, c \in Node :
        (<<v, t, c>> \in grants /\ t = disk[v].term) => disk[v].vote = c

OneVote ==
    \A v \in Node, t \in Term, c, d \in Node :
        (<<v, t, c>> \in grants /\ <<v, t, d>> \in grants) => c = d

VoteInv == ElectionInv /\ AllGrantsRecorded /\ OneVote

\* Without quorum loss a step neither lowers the term on disk nor changes the
\* vote within it, and a new vote is cast together with its record.
LEMMA PromisesKept ==
    ASSUME ~BootWindow, ~QuorumLoss, ElectionInv, [ElectionNext]_electionVars
    PROVE  /\ \A n \in Node : DiskKeeps(n)
           /\ \A v \in Node, t \in Term, c \in Node :
                 <<v, t, c>> \in grants' => <<v, t, c>> \in grants \/ CastWithRecord(v, t, c)
<1> DEFINE Goal == /\ \A n \in Node : DiskKeeps(n)
                   /\ \A v \in Node, t \in Term, c \in Node :
                         <<v, t, c>> \in grants' =>
                             <<v, t, c>> \in grants \/ CastWithRecord(v, t, c)
<1> USE ElectionAssumption
<1>0. \A n \in Node : disk[n].term \in Nat /\ currentTerm[n] \in Nat
  BY DEF ElectionInv, TypeOK, Term
\* Most steps leave disks and votes alone or only raise a term.
<1>a. ASSUME disk' = disk, grants' = grants PROVE Goal
  BY <1>0, <1>a DEF DiskKeeps
<1>b. ASSUME NEW n \in Node, NEW t \in Nat, t > currentTerm[n], loaded[n],
             Persist(n, t, Nil), grants' = grants
      PROVE  Goal
  BY <1>0, <1>b DEF ElectionInv, TypeOK, DiskInSync, Persist, DiskKeeps
<1>1. ASSUME NEW n \in Node, BecomeCandidate(n) PROVE Goal
  <2>1. disk[n].term = currentTerm[n]
    BY <1>1 DEF BecomeCandidate, ElectionInv, DiskInSync
  <2> QED
    BY <1>0, <1>1, <2>1
    DEF BecomeCandidate, Persist, DiskKeeps, CastWithRecord, ElectionInv, TypeOK
<1>2. ASSUME NEW n \in Node, NEW S \in SUBSET Peers(n), StartElection(n, S) PROVE Goal
  BY <1>2, <1>a DEF StartElection
<1>3. ASSUME NEW m \in requests, NEW d \in BOOLEAN, HandleRequestVote(m, d) PROVE Goal
  <2>1. m.to \in Node /\ m.cand \in Node /\ m.term \in Nat
    BY DEF ElectionInv, TypeOK, Request, Term
  <2>2. /\ loaded[m.to]
        /\ disk[m.to].term = currentTerm[m.to] /\ disk[m.to].vote = votedFor[m.to]
    BY <1>3, <2>1 DEF HandleRequestVote, Serving, ElectionInv, DiskInSync
  <2>3. CASE Grants(m)
    <3>1. /\ disk' = [disk EXCEPT ![m.to] = [term |-> m.term, vote |-> m.cand]]
          /\ grants' = grants \cup {<<m.to, m.term, m.cand>>}
      BY <1>0, <1>3, <2>1, <2>3 DEF HandleRequestVote, Grants, HigherTerm, Persist
    <3>2. \/ m.term > disk[m.to].term
          \/ m.term = disk[m.to].term /\ disk[m.to].vote \in {Nil, m.cand}
      BY <1>0, <2>1, <2>2, <2>3 DEF Grants, HigherTerm
    <3> QED
      BY <1>0, <2>1, <3>1, <3>2 DEF DiskKeeps, CastWithRecord, ElectionInv, TypeOK
  <2>4. CASE ~Grants(m) /\ HigherTerm(m)
    BY <1>3, <1>b, <2>1, <2>2, <2>4 DEF HandleRequestVote, HigherTerm
  <2>5. CASE ~Grants(m) /\ ~HigherTerm(m)
    BY <1>3, <1>a, <2>5 DEF HandleRequestVote
  <2> QED
    BY <2>3, <2>4, <2>5
<1>4. ASSUME NEW r \in replies, StepDownOnVoteReply(r) PROVE Goal
  <2>1. r.cand \in Node /\ r.replyTerm \in Nat /\ loaded[r.cand]
    BY DEF ElectionInv, TypeOK, Reply, Booting, Term
  <2> QED
    BY <1>4, <1>b, <2>1 DEF StepDownOnVoteReply, BecomeFollower
<1>5. ASSUME NEW r \in replies, CountVote(r) PROVE Goal
  BY <1>5, <1>a DEF CountVote
<1>6. ASSUME NEW n \in Node, CheckQuorum(n) PROVE Goal
  BY <1>6 DEF CheckQuorum
<1>7. ASSUME NEW n \in Node, NEW e \in elected, NEW a \in BOOLEAN, HearFromLeader(n, e, a)
      PROVE  Goal
  <2>1. e[1] \in Nat /\ loaded[n] /\ grants' = grants
    BY <1>7 DEF HearFromLeader, ObserveLeader, Serving, ElectionInv, TypeOK, Term
  <2>2. CASE e[1] > currentTerm[n]
    BY <1>7, <1>b, <2>1, <2>2 DEF HearFromLeader, ObserveLeader
  <2>3. CASE ~(e[1] > currentTerm[n])
    BY <1>7, <1>a, <2>1, <2>3 DEF HearFromLeader, ObserveLeader
  <2> QED
    BY <2>2, <2>3
<1>8. ASSUME NEW n \in Node, NEW t \in Term, StepDownOnPeerReply(n, t) PROVE Goal
  BY <1>8, <1>b DEF StepDownOnPeerReply, BecomeFollower, Term
<1>9. ASSUME NEW n \in Node, OnlyLogChanges(n), SomeLog(n) PROVE Goal
  BY <1>9, <1>a DEF OnlyLogChanges
<1>10. ASSUME NEW n \in Node, Restart(n) PROVE Goal
  BY <1>10, <1>a DEF Restart, FreshMemory
<1>11. ASSUME NEW m \in requests, CrashInHandleRequestVote(m) PROVE Goal
  <2>1. m.to \in Node /\ m.term \in Nat
    BY DEF ElectionInv, TypeOK, Request, Term
  <2> QED
    BY <1>11, <1>b, <2>1 DEF CrashInHandleRequestVote, HigherTerm, FreshMemory
<1>12. ASSUME NEW n \in Node, LoadState(n), SomeLog(n) PROVE Goal
  BY <1>12, <1>a DEF LoadState
<1>13. ASSUME UNCHANGED electionVars PROVE Goal
  BY <1>13, <1>a DEF electionVars
<1> HIDE DEF Goal
<1>14. Goal
  BY <1>1, <1>2, <1>3, <1>4, <1>5, <1>6, <1>7, <1>8, <1>9, <1>10, <1>11, <1>12, <1>13
  DEF ElectionNext, QuorateNext
<1> QED
  BY <1>14 DEF Goal

\* Hence every vote of the term on disk stays the one on disk.
LEMMA VoteStep ==
    ASSUME ~BootWindow, ~QuorumLoss
    PROVE  VoteInv /\ [ElectionNext]_electionVars => VoteInv'
<1> SUFFICES ASSUME VoteInv, [ElectionNext]_electionVars PROVE VoteInv'
  OBVIOUS
<1>1. ElectionInv /\ ElectionInv'
  BY InvStep DEF VoteInv
<1>2. \A n \in Node : DiskKeeps(n)
  BY <1>1, PromisesKept
<1>3. \A v \in Node, t \in Term, c \in Node :
        <<v, t, c>> \in grants' => <<v, t, c>> \in grants \/ CastWithRecord(v, t, c)
  BY <1>1, PromisesKept
<1>4. /\ \A n \in Node : disk[n].term \in Nat /\ disk'[n].term \in Nat
      /\ Term \subseteq Nat /\ Nil \notin Node
  BY <1>1, ElectionAssumption DEF ElectionInv, TypeOK, Term
<1>5. AllGrantsRecorded'
  <2> SUFFICES ASSUME NEW v \in Node, NEW t \in Term, NEW c \in Node,
                      <<v, t, c>> \in grants', t = disk'[v].term
               PROVE  disk'[v].vote = c
    BY DEF AllGrantsRecorded
  <2>1. CASE <<v, t, c>> \in grants
    <3>1. t <= disk[v].term
      BY <1>1, <2>1 DEF ElectionInv, GrantsRecorded
    <3>2. t = disk[v].term
      BY <1>2, <1>4, <3>1 DEF DiskKeeps
    <3>3. disk[v].vote = c
      BY <2>1, <3>2 DEF VoteInv, AllGrantsRecorded
    <3> QED
      BY <1>2, <1>4, <3>2, <3>3 DEF DiskKeeps
  <2>2. CASE CastWithRecord(v, t, c)
    BY <2>2 DEF CastWithRecord
  <2> QED
    BY <1>3, <2>1, <2>2
<1>6. OneVote'
  <2> SUFFICES ASSUME NEW v \in Node, NEW t \in Term, NEW c \in Node, NEW d \in Node,
                      <<v, t, c>> \in grants', <<v, t, d>> \in grants'
               PROVE  c = d
    BY DEF OneVote
  <2>1. ASSUME NEW x \in Node, NEW y \in Node,
               CastWithRecord(v, t, x), <<v, t, y>> \in grants
        PROVE  x = y
    <3>1. t <= disk[v].term
      BY <1>1, <2>1 DEF ElectionInv, GrantsRecorded
    <3>2. t = disk[v].term /\ disk[v].vote \in {Nil, x}
      BY <1>4, <2>1, <3>1 DEF CastWithRecord
    <3>3. disk[v].vote = y
      BY <2>1, <3>2 DEF VoteInv, AllGrantsRecorded
    <3> QED
      BY <1>4, <3>2, <3>3
  <2>2. CASE <<v, t, c>> \in grants /\ <<v, t, d>> \in grants
    BY <2>2 DEF VoteInv, OneVote
  <2>3. CASE CastWithRecord(v, t, c) /\ CastWithRecord(v, t, d)
    BY <2>3 DEF CastWithRecord
  <2> QED
    BY <1>3, <2>1, <2>2, <2>3
<1> QED
  BY <1>1, <1>5, <1>6 DEF VoteInv

\* The stronger invariant holds for ever when no leader forgets its vote.
LEMMA VoteInvariance ==
    ASSUME ~BootWindow, ~QuorumLoss
    PROVE  ElectionSpec => []VoteInv
<1>1. ElectionInit => VoteInv
  BY InvInit DEF ElectionInit, VoteInv, AllGrantsRecorded, OneVote
<1>2. VoteInv /\ [ElectionNext]_electionVars => VoteInv'
  BY VoteStep
<1> QED
  BY <1>1, <1>2, PTL DEF ElectionSpec

\* As long as no leader loses its quorum, a node votes for at most one
\* candidate per term, itself included, across any number of restarts.
THEOREM VotesUnique ==
    ASSUME ~BootWindow, ~QuorumLoss
    PROVE  ElectionSpec => []OneVotePerTerm
<1>1. VoteInv => OneVotePerTerm
  <2> SUFFICES ASSUME VoteInv, NEW g \in grants, NEW h \in grants, g[1] = h[1], g[2] = h[2]
               PROVE  g[3] = h[3]
    BY DEF OneVotePerTerm
  <2>1. PICK v \in Node, t \in Term, c \in Node : g = <<v, t, c>>
    BY DEF VoteInv, ElectionInv, TypeOK
  <2>2. PICK w \in Node, u \in Term, d \in Node : h = <<w, u, d>>
    BY DEF VoteInv, ElectionInv, TypeOK
  <2>3. v = w /\ t = u
    BY <2>1, <2>2
  <2>4. c = d
    BY <2>1, <2>2, <2>3 DEF VoteInv, OneVote
  <2> QED
    BY <2>1, <2>2, <2>4
<1> QED
  BY <1>1, VoteInvariance, PTL

\* Election Safety: as long as no leader loses its quorum, no term ever
\* elects two nodes.
THEOREM ElectionsSafe ==
    ASSUME ~BootWindow, ~QuorumLoss
    PROVE  ElectionSpec => []ElectionSafety
<1>1. VoteInv => ElectionSafety
  <2> SUFFICES ASSUME VoteInv, NEW e \in elected, NEW f \in elected, e[1] = f[1]
               PROVE  e[2] = f[2]
    BY DEF ElectionSafety
  <2>1. PICK t \in Term, a \in Node : e = <<t, a>>
    BY DEF VoteInv, ElectionInv, TypeOK
  <2>2. PICK u \in Term, b \in Node : f = <<u, b>>
    BY DEF VoteInv, ElectionInv, TypeOK
  <2>3. t = u
    BY <2>1, <2>2
  <2>4. \E v \in Node : <<v, t, a>> \in grants /\ <<v, t, b>> \in grants
    BY <2>1, <2>2, <2>3, CommonVoter DEF VoteInv, ElectionInv
  <2>5. a = b
    BY <2>4 DEF VoteInv, OneVote
  <2> QED
    BY <2>1, <2>2, <2>5
<1> QED
  BY <1>1, VoteInvariance, PTL

\* The term on disk never decreases, and a vote recorded for it is never
\* changed or erased.
THEOREM VotesDurable ==
    ASSUME ~BootWindow, ~QuorumLoss
    PROVE  ElectionSpec => DurableVote
<1>1. ElectionInv /\ [ElectionNext]_electionVars =>
        [\A n \in Node :
           /\ disk'[n].term >= disk[n].term
           /\ (disk'[n].term = disk[n].term /\ disk[n].vote # Nil)
                 => disk'[n].vote = disk[n].vote]_disk
  BY PromisesKept DEF DiskKeeps
<1> QED
  BY <1>1, Invariance, PTL DEF ElectionSpec, DurableVote

=============================================================================
