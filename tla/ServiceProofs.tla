--------------------------- MODULE ServiceProofs ---------------------------
(***************************************************************************)
(* What elections promise to those who rely on a leader, for every set of  *)
(* nodes and clients and every bound, with crashes and quorum loss: the    *)
(* redirects of module Gateway make progress, and the pre-vote round and   *)
(* checkQuorum of module PreVote leave a steady leader in place.           *)
(***************************************************************************)
EXTENDS Gateway, PreVote, ElectionProofs

USE DEF Follower, Candidate, Leader

-----------------------------------------------------------------------------
(* More about elections.                                                   *)

\* A node's disk has reached every term it was elected in; in such a term it
\* does not stand again; a node that names itself leads; a reply does not
\* speak of a term its sender has not reached.
ElectedOnce ==
    /\ \A t \in Term, n \in Node : <<t, n>> \in elected => t <= disk[n].term
    /\ \A n \in Node : <<currentTerm[n], n>> \in elected => state[n] # Candidate
    /\ \A n \in Node : leaderID[n] = n => state[n] = Leader
    /\ \A r \in replies : r.replyTerm <= disk[r.from].term

ServiceInv == ElectionInv /\ ElectedOnce

\* A node becomes leader only by winning as a candidate, in an unchanged term.
LEMMA LeadsInSameTerm ==
    ASSUME ~BootWindow, ElectionInv, [ElectionNext]_electionVars,
           NEW n \in Node, state'[n] = Leader
    PROVE  currentTerm'[n] = currentTerm[n] /\ state[n] # Follower
<1> DEFINE Goal == currentTerm'[n] = currentTerm[n] /\ state[n] # Follower
<1> USE ElectionAssumption
<1>0. TypeOK
  BY DEF ElectionInv
<1>1. ASSUME NEW k \in Node, BecomeCandidate(k) PROVE Goal
  BY <1>0, <1>1 DEF BecomeCandidate, TypeOK
<1>2. ASSUME NEW k \in Node, NEW S \in SUBSET Peers(k), StartElection(k, S) PROVE Goal
  BY <1>2 DEF StartElection, nodeVars
<1>3. ASSUME NEW m \in requests, NEW d \in BOOLEAN, HandleRequestVote(m, d) PROVE Goal
  <2>1. /\ currentTerm' = [currentTerm EXCEPT ![m.to] =
                             IF HigherTerm(m) THEN m.term ELSE currentTerm[m.to]]
        /\ state' = [state EXCEPT ![m.to] = IF HigherTerm(m) THEN Follower ELSE @]
    BY <1>3 DEF HandleRequestVote
  <2> QED
    BY <1>0, <2>1 DEF TypeOK
<1>4. ASSUME NEW r \in replies, StepDownOnVoteReply(r) PROVE Goal
  BY <1>0, <1>4 DEF StepDownOnVoteReply, BecomeFollower, TypeOK
<1>5. ASSUME NEW r \in replies, CountVote(r) PROVE Goal
  BY <1>0, <1>5 DEF CountVote, CountsFor, TypeOK
<1>6. ASSUME NEW k \in Node, CheckQuorum(k) PROVE Goal
  BY <1>0, <1>6 DEF CheckQuorum, BecomeFollower, TypeOK
<1>7. ASSUME NEW k \in Node, NEW e \in elected, NEW a \in BOOLEAN, HearFromLeader(k, e, a)
      PROVE  Goal
  <2>1. e[1] \in Nat /\ currentTerm[k] \in Nat
    BY <1>0 DEF TypeOK, Term
  <2>2. /\ e[1] >= currentTerm[k]
        /\ currentTerm' = [currentTerm EXCEPT ![k] = e[1]]
    BY <1>7 DEF HearFromLeader, ObserveLeader
  <2>3. CASE e[1] > currentTerm[k]
    <3>1. state' = [state EXCEPT ![k] = Follower]
      BY <1>7, <2>3 DEF HearFromLeader, ObserveLeader
    <3> QED
      BY <1>0, <2>2, <3>1 DEF TypeOK
  <2>4. CASE e[1] = currentTerm[k]
    <3>1. \A p \in Node : state'[p] \in {state[p], Follower}
      BY <1>7, <2>4 DEF HearFromLeader, ObserveLeader, ElectionInv, TypeOK
    <3> QED
      BY <1>0, <2>2, <2>4, <3>1 DEF TypeOK
  <2> QED
    BY <2>1, <2>2, <2>3, <2>4
<1>8. ASSUME NEW k \in Node, NEW t \in Term, StepDownOnPeerReply(k, t) PROVE Goal
  BY <1>0, <1>8 DEF StepDownOnPeerReply, BecomeFollower, TypeOK
<1>9. ASSUME NEW k \in Node, OnlyLogChanges(k), SomeLog(k) PROVE Goal
  BY <1>9 DEF OnlyLogChanges, nodeVars
<1>10. ASSUME NEW k \in Node, Restart(k) PROVE Goal
  BY <1>0, <1>10 DEF Restart, FreshMemory, TypeOK
<1>11. ASSUME NEW m \in requests, CrashInHandleRequestVote(m) PROVE Goal
  BY <1>0, <1>11 DEF CrashInHandleRequestVote, FreshMemory, TypeOK
<1>12. ASSUME NEW k \in Node, LoadState(k), SomeLog(k) PROVE Goal
  <2>1. state[k] = Follower
    BY <1>12 DEF LoadState, ElectionInv, Booting
  <2> QED
    BY <1>0, <1>12, <2>1 DEF LoadState, TypeOK
<1>13. ASSUME UNCHANGED electionVars PROVE Goal
  BY <1>13 DEF electionVars, nodeVars
<1> HIDE DEF Goal
<1>14. Goal
  BY <1>1, <1>2, <1>3, <1>4, <1>5, <1>6, <1>7, <1>8, <1>9, <1>10, <1>11, <1>12, <1>13
  DEF ElectionNext, QuorateNext
<1> QED
  BY <1>14 DEF Goal

\* An election, and a node that names itself, come from a won candidacy; a
\* candidate that was none stands in a new term.
LEMMA RoleChanges ==
    ASSUME ~BootWindow, ElectionInv, [ElectionNext]_electionVars, NEW n \in Node
    PROVE  /\ \A t \in Term : <<t, n>> \in elected' \ elected =>
                 /\ state[n] = Candidate /\ state'[n] = Leader
                 /\ t = currentTerm[n] /\ disk'[n].term = t
           /\ state'[n] = Candidate =>
                 \/ state[n] = Candidate /\ currentTerm'[n] = currentTerm[n]
                 \/ currentTerm'[n] = disk[n].term + 1
           /\ leaderID'[n] = n =>
                 \/ leaderID[n] = n /\ state'[n] = state[n]
                 \/ state'[n] = Leader
<1> DEFINE Goal ==
       /\ \A t \in Term : <<t, n>> \in elected' \ elected =>
             /\ state[n] = Candidate /\ state'[n] = Leader
             /\ t = currentTerm[n] /\ disk'[n].term = t
       /\ state'[n] = Candidate =>
             \/ state[n] = Candidate /\ currentTerm'[n] = currentTerm[n]
             \/ currentTerm'[n] = disk[n].term + 1
       /\ leaderID'[n] = n =>
             \/ leaderID[n] = n /\ state'[n] = state[n]
             \/ state'[n] = Leader
<1> USE ElectionAssumption
<1>0. TypeOK
  BY DEF ElectionInv
\* The steps that make some node a follower, or leave every role alone.
<1>a. ASSUME NEW k \in Node, elected' = elected,
             \/ /\ state' = [state EXCEPT ![k] = Follower]
                /\ leaderID' = [leaderID EXCEPT ![k] = Nil]
             \/ state' = state /\ leaderID' = leaderID,
             \A p \in Node \ {k} : currentTerm'[p] = currentTerm[p],
             state' = state => currentTerm'[k] = currentTerm[k] \/ state[k] # Candidate
      PROVE  Goal
  <2>1. CASE k = n
    BY <1>0, <1>a, <2>1 DEF TypeOK
  <2>2. CASE k # n
    BY <1>0, <1>a, <2>2 DEF TypeOK
  <2> QED
    BY <2>1, <2>2
<1>1. ASSUME NEW k \in Node, BecomeCandidate(k) PROVE Goal
  <2>1. disk[k].term = currentTerm[k]
    BY <1>1 DEF BecomeCandidate, ElectionInv, DiskInSync
  <2> QED
    BY <1>0, <1>1, <2>1 DEF BecomeCandidate, TypeOK
<1>2. ASSUME NEW k \in Node, NEW S \in SUBSET Peers(k), StartElection(k, S) PROVE Goal
  BY <1>2, <1>a DEF StartElection, nodeVars
<1>3. ASSUME NEW m \in requests, NEW d \in BOOLEAN, HandleRequestVote(m, d) PROVE Goal
  <2>1. /\ currentTerm' = [currentTerm EXCEPT ![m.to] =
                             IF HigherTerm(m) THEN m.term ELSE currentTerm[m.to]]
        /\ state' = [state EXCEPT ![m.to] = IF HigherTerm(m) THEN Follower ELSE @]
        /\ leaderID' = [leaderID EXCEPT ![m.to] = IF HigherTerm(m) THEN Nil ELSE @]
        /\ elected' = elected
    BY <1>3 DEF HandleRequestVote
  <2> QED
    BY <1>0, <2>1 DEF TypeOK
<1>4. ASSUME NEW r \in replies, StepDownOnVoteReply(r) PROVE Goal
  <2>1. r.cand \in Node
    BY <1>0 DEF TypeOK, Reply
  <2> QED
    BY <1>0, <1>4, <2>1 DEF StepDownOnVoteReply, BecomeFollower, TypeOK
<1>5. ASSUME NEW r \in replies, CountVote(r) PROVE Goal
  <2>1. r.cand \in Node
    BY <1>0 DEF TypeOK, Reply
  <2>2. loaded[r.cand] /\ disk[r.cand].term = currentTerm[r.cand]
    BY <2>1 DEF ElectionInv, Booting, DiskInSync
  <2>3. state[r.cand] = Candidate
    BY <1>5 DEF CountVote, CountsFor
  <2>4. CASE Tally(r.cand, r) >= Majority
    <3>1. /\ state' = [state EXCEPT ![r.cand] = Leader]
          /\ leaderID' = [leaderID EXCEPT ![r.cand] = r.cand]
          /\ elected' = elected \cup {<<currentTerm[r.cand], r.cand>>}
          /\ currentTerm' = currentTerm /\ disk' = disk
      BY <1>5, <2>4 DEF CountVote
    <3> QED
      BY <1>0, <2>1, <2>2, <2>3, <3>1 DEF TypeOK
  <2>5. CASE ~(Tally(r.cand, r) >= Majority)
    <3>1. /\ state' = state /\ leaderID' = leaderID
          /\ elected' = elected
          /\ currentTerm' = currentTerm /\ disk' = disk
      BY <1>0, <1>5, <2>5 DEF CountVote, TypeOK
    <3> QED
      BY <3>1
  <2> QED
    BY <2>4, <2>5
<1>6. ASSUME NEW k \in Node, CheckQuorum(k) PROVE Goal
  BY <1>0, <1>6 DEF CheckQuorum, BecomeFollower, TypeOK
<1>7. ASSUME NEW k \in Node, NEW e \in elected, NEW a \in BOOLEAN, HearFromLeader(k, e, a)
      PROVE  Goal
  <2>1. e[1] \in Nat /\ currentTerm[k] \in Nat
    BY <1>0 DEF TypeOK, Term
  <2>2. /\ e[1] >= currentTerm[k] /\ e[2] # k
        /\ currentTerm' = [currentTerm EXCEPT ![k] = e[1]]
        /\ leaderID' = [leaderID EXCEPT ![k] = e[2]] /\ elected' = elected
    BY <1>7 DEF HearFromLeader, ObserveLeader
  <2>3. CASE e[1] > currentTerm[k]
    <3>1. state' = [state EXCEPT ![k] = Follower]
      BY <1>7, <2>3 DEF HearFromLeader, ObserveLeader
    <3> QED
      BY <1>0, <2>2, <3>1 DEF TypeOK
  <2>4. CASE e[1] = currentTerm[k]
    <3>1. /\ \A p \in Node : state'[p] \in {state[p], Follower}
          /\ \A p \in Node \ {k} : state'[p] = state[p]
      BY <1>7, <2>4 DEF HearFromLeader, ObserveLeader, ElectionInv, TypeOK
    <3> QED
      BY <1>0, <2>2, <2>4, <3>1 DEF TypeOK
  <2> QED
    BY <2>1, <2>2, <2>3, <2>4
<1>8. ASSUME NEW k \in Node, NEW t \in Term, StepDownOnPeerReply(k, t) PROVE Goal
  BY <1>0, <1>8 DEF StepDownOnPeerReply, BecomeFollower, TypeOK
<1>9. ASSUME NEW k \in Node, OnlyLogChanges(k), SomeLog(k) PROVE Goal
  BY <1>9, <1>a DEF OnlyLogChanges, nodeVars
<1>10. ASSUME NEW k \in Node, Restart(k) PROVE Goal
  BY <1>0, <1>10 DEF Restart, FreshMemory, TypeOK
<1>11. ASSUME NEW m \in requests, CrashInHandleRequestVote(m) PROVE Goal
  <2>1. m.to \in Node
    BY <1>0 DEF TypeOK, Request
  <2> QED
    BY <1>0, <1>11, <2>1 DEF CrashInHandleRequestVote, FreshMemory, TypeOK
<1>12. ASSUME NEW k \in Node, LoadState(k), SomeLog(k) PROVE Goal
  <2>1. state[k] = Follower
    BY <1>12 DEF LoadState, ElectionInv, Booting
  <2> QED
    BY <1>0, <1>12, <2>1 DEF LoadState, TypeOK
<1>13. ASSUME UNCHANGED electionVars PROVE Goal
  BY <1>13 DEF electionVars, nodeVars
<1> HIDE DEF Goal
<1>14. Goal
  BY <1>1, <1>2, <1>3, <1>4, <1>5, <1>6, <1>7, <1>8, <1>9, <1>10, <1>11, <1>12, <1>13
  DEF ElectionNext, QuorateNext
<1> QED
  BY <1>14 DEF Goal

\* A new reply speaks of the term its sender is in.
LEMMA NewReplies ==
    ASSUME ~BootWindow, ElectionInv, [ElectionNext]_electionVars,
           NEW r \in replies' \ replies
    PROVE  r.replyTerm = disk'[r.from].term
<1> USE ElectionAssumption
<1>1. PICK m \in requests, d \in BOOLEAN : HandleRequestVote(m, d)
  BY DEF ElectionNext, QuorateNext, electionVars, BecomeCandidate, StartElection,
         StepDownOnVoteReply, CountVote, CheckQuorum, HearFromLeader, ObserveLeader,
         StepDownOnPeerReply, OnlyLogChanges, Restart, FreshMemory,
         CrashInHandleRequestVote, LoadState
<1>2. m.to \in Node /\ m.term \in Nat
  BY DEF ElectionInv, TypeOK, Request, Term
<1>3. loaded[m.to] /\ disk[m.to].term = currentTerm[m.to] /\ disk \in [Node -> [term : Term, vote : Node \cup {Nil}]]
  BY <1>1, <1>2 DEF HandleRequestVote, Serving, ElectionInv, DiskInSync, TypeOK
<1> DEFINE term == IF HigherTerm(m) THEN m.term ELSE currentTerm[m.to]
<1>4. r.from = m.to /\ r.replyTerm = term
  BY <1>1 DEF HandleRequestVote
<1>5. CASE HigherTerm(m) \/ Grants(m)
  <2>1. \E v : Persist(m.to, term, v)
    BY <1>1, <1>5 DEF HandleRequestVote
  <2> QED
    BY <1>2, <1>3, <1>4, <2>1 DEF Persist
<1>6. CASE ~(HigherTerm(m) \/ Grants(m))
  <2>1. disk' = disk /\ term = currentTerm[m.to]
    BY <1>1, <1>6 DEF HandleRequestVote
  <2> QED
    BY <1>3, <1>4, <2>1
<1> QED
  BY <1>5, <1>6

\* Every step keeps the invariant.
LEMMA ServiceStep ==
    ASSUME ~BootWindow, ServiceInv, [ElectionNext]_electionVars
    PROVE  ServiceInv'
<1>1. ElectionInv /\ ElectionInv'
  BY InvStep DEF ServiceInv
<1>2. /\ \A n \in Node : disk'[n].term >= disk[n].term
      /\ elected \subseteq elected'
  BY <1>1, TermsGrow
<1>3. /\ \A n \in Node : /\ disk[n].term \in Nat /\ disk'[n].term \in Nat
                         /\ currentTerm'[n] \in Term
      /\ Term \subseteq Nat
  BY <1>1, ElectionAssumption DEF ElectionInv, TypeOK, Term
<1>4. \A t \in Term, n \in Node : <<t, n>> \in elected' => t <= disk'[n].term
  <2> SUFFICES ASSUME NEW t \in Term, NEW n \in Node, <<t, n>> \in elected'
               PROVE  t <= disk'[n].term
    OBVIOUS
  <2>1. CASE <<t, n>> \in elected
    <3>1. t <= disk[n].term
      BY <2>1 DEF ServiceInv, ElectedOnce
    <3> QED
      BY <1>2, <1>3, <3>1
  <2>2. CASE <<t, n>> \notin elected
    <3>1. disk'[n].term = t
      BY <1>1, <2>2, RoleChanges
    <3> QED
      BY <1>3, <3>1
  <2> QED
    BY <2>1, <2>2
<1>5. ASSUME NEW n \in Node, <<currentTerm'[n], n>> \in elected', state'[n] = Candidate
      PROVE  FALSE
  <2>1. <<currentTerm'[n], n>> \in elected
    <3> SUFFICES ASSUME <<currentTerm'[n], n>> \in elected' \ elected PROVE FALSE
      BY <1>5
    <3>1. state'[n] = Leader
      BY <1>1, <1>3, RoleChanges
    <3> QED
      BY <1>5, <3>1
  <2>2. CASE state[n] = Candidate /\ currentTerm'[n] = currentTerm[n]
    BY <2>1, <2>2 DEF ServiceInv, ElectedOnce
  <2>3. CASE currentTerm'[n] = disk[n].term + 1
    <3>1. currentTerm'[n] <= disk[n].term
      BY <1>3, <2>1 DEF ServiceInv, ElectedOnce
    <3> QED
      BY <1>3, <2>3, <3>1
  <2> QED
    BY <1>1, <1>5, <2>2, <2>3, RoleChanges
<1>6. ASSUME NEW n \in Node, leaderID'[n] = n PROVE state'[n] = Leader
  <2>1. \/ leaderID[n] = n /\ state'[n] = state[n]
        \/ state'[n] = Leader
    BY <1>1, <1>6, RoleChanges
  <2> QED
    BY <2>1 DEF ServiceInv, ElectedOnce
<1>7. ASSUME NEW r \in replies' PROVE r.replyTerm <= disk'[r.from].term
  <2>1. r.from \in Node /\ r.replyTerm \in Nat
    BY <1>1 DEF ElectionInv, TypeOK, Reply, Term
  <2>2. CASE r \in replies
    <3>1. r.replyTerm <= disk[r.from].term
      BY <2>2 DEF ServiceInv, ElectedOnce
    <3> QED
      BY <1>2, <1>3, <2>1, <3>1
  <2>3. CASE r \notin replies
    <3>1. r.replyTerm = disk'[r.from].term
      BY <1>1, <2>3, NewReplies
    <3> QED
      BY <2>1, <3>1
  <2> QED
    BY <2>2, <2>3
<1>8. ElectedOnce'
  BY <1>4, <1>5, <1>6, <1>7 DEF ElectedOnce
<1> QED
  BY <1>1, <1>8 DEF ServiceInv

\* A freshly created cluster satisfies it.
LEMMA ServiceStart == ElectionInit => ServiceInv
<1>1. ElectionInit => ElectionInv
  BY InvInit
<1>2. ElectionInit => ElectedOnce
  BY ElectionAssumption DEF ElectionInit, ElectedOnce
<1> QED
  BY <1>1, <1>2 DEF ServiceInv

-----------------------------------------------------------------------------
(* Gateway.                                                                *)

\* A client is where it was sent, to a node that was elected in the term it
\* was sent in; the node that did not lead when it was asked will not lead
\* again in that term.
ClientsOK ==
    /\ at \in [Client -> Node] /\ DOMAIN phase = Client
    /\ sent \in [Client -> [term : Term, to : Node \cup {Nil}]]
    /\ \A c \in Client : sent[c] # NotSent =>
          /\ at[c] = sent[c].to /\ <<sent[c].term, sent[c].to>> \in elected
          /\ (phase[c] = "notLeader" /\ currentTerm[at[c]] = sent[c].term)
                => state[at[c]] # Leader

GatewayInv == ServiceInv /\ ClientsOK

\* Every step of the gateway is a step of the elections or none.
LEMMA GatewayElects ==
    ASSUME [GatewayNext]_gatewayVars, ClientsOK
    PROVE  [ElectionNext]_electionVars
<1>1. CASE UNCHANGED gatewayVars
  BY <1>1 DEF gatewayVars
<1>2. CASE \E c \in Client : Send(c) \/ ReadState(c) \/ Redirect(c) \/ Refuse(c)
  BY <1>2 DEF Send, ReadState, Redirect, Refuse
<1>3. ASSUME NEW c \in Client, Execute(c) PROVE [ElectionNext]_electionVars
  BY <1>3 DEF Execute, ElectionNext, QuorateNext, ClientsOK
<1>4. CASE ElectionNext
  BY <1>4
<1> QED
  BY <1>1, <1>2, <1>3, <1>4 DEF GatewayNext

\* Every step keeps what is known of the clients.
LEMMA GatewayStep ==
    ASSUME ~BootWindow, GatewayInv, [GatewayNext]_gatewayVars
    PROVE  GatewayInv'
<1>1. ServiceInv /\ ElectionInv /\ ClientsOK
  BY DEF GatewayInv, ServiceInv
<1>2. [ElectionNext]_electionVars
  BY <1>1, GatewayElects
<1>3. ServiceInv'
  BY <1>1, <1>2, ServiceStep
<1>4. elected \subseteq elected'
  BY <1>1, <1>2, TermsGrow
\* A client that stays where it is, with a handler that does not ask anew.
<1>5. ASSUME NEW c \in Client, at'[c] = at[c], sent'[c] = sent[c], sent[c] # NotSent,
             phase'[c] = "notLeader" =>
                phase[c] = "notLeader" \/ state'[at[c]] # Leader
      PROVE  /\ at'[c] = sent'[c].to /\ <<sent'[c].term, sent'[c].to>> \in elected'
             /\ (phase'[c] = "notLeader" /\ currentTerm'[at'[c]] = sent'[c].term)
                   => state'[at'[c]] # Leader
  <2>1. at[c] = sent[c].to /\ <<sent[c].term, sent[c].to>> \in elected /\ at[c] \in Node
    BY <1>1, <1>5 DEF ClientsOK
  <2>2. ASSUME phase[c] = "notLeader", currentTerm'[at[c]] = sent[c].term,
               state'[at[c]] = Leader
        PROVE  FALSE
    <3>1. currentTerm'[at[c]] = currentTerm[at[c]] /\ state[at[c]] # Follower
      BY <1>1, <1>2, <2>1, <2>2, LeadsInSameTerm
    <3>2. state[at[c]] # Candidate
      BY <1>1, <2>1, <2>2, <3>1 DEF ServiceInv, ElectedOnce
    <3>3. state[at[c]] # Leader
      BY <1>1, <1>5, <2>2, <3>1 DEF ClientsOK
    <3> QED
      BY <1>1, <2>1, <3>1, <3>2, <3>3 DEF ElectionInv, TypeOK
  <2> QED
    BY <1>4, <1>5, <2>1, <2>2
<1>6. ASSUME at' = at, sent' = sent, DOMAIN phase' = Client,
             \A c \in Client : phase'[c] = "notLeader" =>
                phase[c] = "notLeader" \/ state'[at[c]] # Leader
      PROVE  ClientsOK'
  BY <1>1, <1>5, <1>6 DEF ClientsOK, NotSent
<1>7. CASE UNCHANGED clientVars
  <2>1. at' = at /\ sent' = sent /\ phase' = phase
    BY <1>7 DEF clientVars
  <2>2. DOMAIN phase' = Client
    BY <1>1, <2>1 DEF ClientsOK
  <2> QED
    BY <1>3, <1>6, <2>1, <2>2 DEF GatewayInv
<1>8. ASSUME NEW c \in Client, Send(c) \/ Refuse(c) \/ Execute(c) PROVE GatewayInv'
  <2>1. /\ at' = at /\ sent' = sent
        /\ \/ phase' = [phase EXCEPT ![c] = "arrived"]
           \/ phase' = [phase EXCEPT ![c] = "done"]
    BY <1>8 DEF Send, Refuse, Execute, Goto
  <2> QED
    BY <1>1, <1>3, <1>6, <2>1 DEF ClientsOK, GatewayInv
<1>9. ASSUME NEW c \in Client, ReadState(c) PROVE GatewayInv'
  <2>1. /\ at' = at /\ sent' = sent /\ state' = state
        /\ phase' = [phase EXCEPT ![c] = IF state[at[c]] = Leader THEN "leader" ELSE "notLeader"]
    BY <1>9 DEF ReadState, Goto, electionVars, nodeVars
  <2> QED
    BY <1>1, <1>3, <1>6, <2>1 DEF ClientsOK, GatewayInv
<1>10. ASSUME NEW c \in Client, Redirect(c) PROVE GatewayInv'
  <2>1. PICK n \in Node : n = at[c]
    BY <1>1 DEF ClientsOK
  <2>2. PICK l \in Known : l = leaderID[n]
    BY <1>10, <2>1 DEF Redirect
  <2>3. l \in Node /\ l # Nil
    BY GatewayAssumption, ElectionAssumption
  <2>4. PICK t \in Term : t = currentTerm[n]
    BY <1>1 DEF ElectionInv, TypeOK
  <2>5. /\ at' = [at EXCEPT ![c] = l] /\ phase' = [phase EXCEPT ![c] = "arrived"]
        /\ sent' = [sent EXCEPT ![c] = [term |-> t, to |-> l]]
        /\ elected' = elected /\ state' = state /\ currentTerm' = currentTerm
    BY <1>10, <2>1, <2>2, <2>4 DEF Redirect, Goto, electionVars, nodeVars
  <2>6. <<t, l>> \in elected
    BY <1>1, <2>1, <2>2, <2>3, <2>4 DEF ElectionInv, LeaderIDWasElected
  <2>7. /\ at' \in [Client -> Node] /\ DOMAIN phase' = Client
        /\ sent' \in [Client -> [term : Term, to : Node \cup {Nil}]]
    BY <1>1, <2>3, <2>5 DEF ClientsOK
  <2>8. /\ at'[c] = l /\ sent'[c] = [term |-> t, to |-> l] /\ phase'[c] = "arrived"
        /\ \A d \in Client \ {c} :
              at'[d] = at[d] /\ sent'[d] = sent[d] /\ phase'[d] = phase[d]
    BY <1>1, <2>5 DEF ClientsOK
  <2>9. ASSUME NEW d \in Client, sent'[d] # NotSent
        PROVE  /\ at'[d] = sent'[d].to /\ <<sent'[d].term, sent'[d].to>> \in elected'
               /\ (phase'[d] = "notLeader" /\ currentTerm'[at'[d]] = sent'[d].term)
                     => state'[at'[d]] # Leader
    <3>1. CASE d = c
      BY <2>5, <2>6, <2>8, <3>1
    <3>2. CASE d # c
      BY <1>5, <2>8, <2>9, <3>2
    <3> QED
      BY <3>1, <3>2
  <2>10. ClientsOK'
    BY <2>7, <2>9 DEF ClientsOK, NotSent
  <2> QED
    BY <1>3, <2>10 DEF GatewayInv
<1> QED
  BY <1>7, <1>8, <1>9, <1>10 DEF GatewayNext, gatewayVars

(* Redirects make progress: a client that is redirected twice goes to a    *)
(* node of a newer term, or at least to another node, whatever elections,  *)
(* crashes and quorum losses happen between the two reads of a handler.    *)
THEOREM RedirectsProgress ==
    ASSUME ~BootWindow
    PROVE  GatewaySpec => RedirectsGoForward
<1>1. ElectionInit /\ ClientInit => GatewayInv
  <2>1. ElectionInit => ServiceInv
    BY ServiceStart
  <2>2. ClientInit => ClientsOK
    BY ElectionAssumption DEF ClientInit, ClientsOK, NotSent, Term
  <2> QED
    BY <2>1, <2>2 DEF GatewayInv
<1>2. GatewayInv /\ [GatewayNext]_gatewayVars => GatewayInv'
  BY GatewayStep
<1>3. ASSUME GatewayInv, [GatewayNext]_gatewayVars, NEW c \in Client,
             phase[c] = "notLeader", phase'[c] = "arrived", sent[c] # NotSent
      PROVE  \/ sent'[c].term > sent[c].term
             \/ sent'[c].term = sent[c].term /\ sent'[c].to # sent[c].to
  <2>1. ServiceInv /\ ElectionInv /\ ClientsOK
    BY <1>3 DEF GatewayInv, ServiceInv
  <2>2. Redirect(c)
    BY <1>3, <2>1 DEF GatewayNext, gatewayVars, clientVars, Send, ReadState, Redirect,
                      Refuse, Execute, Goto, ClientsOK
  <2>3. PICK n \in Node : n = at[c]
    BY <2>1 DEF ClientsOK
  <2>4. sent'[c] = [term |-> currentTerm[n], to |-> leaderID[n]] /\ leaderID[n] \in Known
    BY <2>1, <2>2, <2>3 DEF Redirect, ClientsOK
  <2>5. sent[c].to = n /\ <<sent[c].term, n>> \in elected /\ sent[c].term \in Term
    BY <1>3, <2>1, <2>3 DEF ClientsOK
  <2>6. leaderID[n] # Nil /\ loaded[n]
    BY <2>1, <2>4, GatewayAssumption, ElectionAssumption DEF ElectionInv, Booting
  <2>7. /\ sent[c].term <= currentTerm[n]
        /\ sent[c].term \in Nat /\ currentTerm[n] \in Nat
    <3>1. sent[c].term <= disk[n].term
      BY <2>1, <2>5 DEF ServiceInv, ElectedOnce
    <3> QED
      BY <2>1, <2>5, <2>6, <3>1, ElectionAssumption DEF ElectionInv, DiskInSync, TypeOK, Term
  <2>8. ASSUME sent[c].term = currentTerm[n], leaderID[n] = n PROVE FALSE
    <3>1. state[n] = Leader
      BY <2>1, <2>8 DEF ServiceInv, ElectedOnce
    <3> QED
      BY <1>3, <2>1, <2>3, <2>8, <3>1 DEF ClientsOK
  <2> QED
    BY <2>4, <2>5, <2>7, <2>8
<1>4. GatewayInv /\ [GatewayNext]_gatewayVars =>
        [\A c \in Client :
           (phase[c] = "notLeader" /\ phase'[c] = "arrived" /\ sent[c] # NotSent) =>
              \/ sent'[c].term > sent[c].term
              \/ sent'[c].term = sent[c].term /\ sent'[c].to # sent[c].to]_clientVars
  BY <1>3
<1> QED
  BY <1>1, <1>2, <1>4, PTL DEF GatewaySpec, RedirectsGoForward

-----------------------------------------------------------------------------
(* PreVote.                                                                *)

\* Node n leads term t, nobody is beyond it, and the nodes of Q follow n.
Steadfast(n, t, Q) ==
    /\ state[n] = Leader /\ currentTerm[n] = t
    /\ \A p \in Node : disk[p].term <= t
    /\ \A m \in requests : m.term <= t
    /\ \A e \in elected : e[1] = t => e[2] = n
    /\ \A p \in Q : leaderID[p] = n /\ currentTerm[p] = t

\* A step that changes the roles and terms of one node outside Q and n only.
LEMMA StrangerStep ==
    ASSUME TypeOK, TypeOK', NEW n \in Node, NEW t \in Term, NEW Q \in SUBSET Node,
           NEW k \in Node, k # n, k \notin Q, Steadfast(n, t, Q),
           \A p \in Node \ {k} : /\ state'[p] = state[p] /\ currentTerm'[p] = currentTerm[p]
                                 /\ leaderID'[p] = leaderID[p] /\ disk'[p] = disk[p],
           disk'[k].term <= t,
           \A m \in requests' : m.term <= t,
           \A e \in elected' : e[1] = t => e[2] = n
    PROVE  Steadfast(n, t, Q)'
<1>1. \A p \in Node : disk'[p].term <= t
  BY DEF Steadfast
<1>2. \A p \in Q : leaderID'[p] = n /\ currentTerm'[p] = t
  BY DEF Steadfast
<1> QED
  BY <1>1, <1>2 DEF Steadfast

\* A step that leaves roles, terms and disks alone.
LEMMA NeutralStep ==
    ASSUME NEW n \in Node, NEW t \in Term, NEW Q \in SUBSET Node, Steadfast(n, t, Q),
           state' = state, currentTerm' = currentTerm, leaderID' = leaderID, disk' = disk,
           elected' = elected, \A m \in requests' : m.term <= t
    PROVE  Steadfast(n, t, Q)'
BY DEF Steadfast

\* One leader per term, in the next state.
LEMMA OneActiveLeaderNext == ElectionInv' => AtMostOneActiveLeader'
BY OneActiveLeader, PTL

\* Vote requests and replies do not disturb such a leader.
LEMMA VotesLeaveSteadfast ==
    ASSUME ~BootWindow, ServiceInv, ServiceInv', NEW n \in Node, NEW t \in Term,
           NEW Q \in SUBSET (Node \ {n}), Steadfast(n, t, Q),
           \/ \E k \in Node : \E S \in SUBSET Peers(k) : StartElection(k, S)
           \/ \E m \in requests, d \in BOOLEAN : HandleRequestVote(m, d)
           \/ \E r \in replies : StepDownOnVoteReply(r)
           \/ \E r \in replies : CountVote(r)
    PROVE  Steadfast(n, t, Q)'
<1> USE ElectionAssumption
<1>1. /\ TypeOK /\ TypeOK' /\ t \in Nat /\ ElectionInv /\ ElectionInv'
      /\ \A p \in Node : currentTerm[p] \in Nat /\ disk[p].term \in Nat
  BY DEF ServiceInv, ElectionInv, TypeOK, Term
<1>2. /\ state[n] = Leader /\ currentTerm[n] = t
      /\ \A p \in Node : disk[p].term <= t
      /\ \A m \in requests : m.term <= t
      /\ \A p \in Q : currentTerm[p] = t
  BY DEF Steadfast
<1>3. \A k \in Node : loaded[k] => currentTerm[k] <= t
  BY <1>1, <1>2 DEF ElectionInv, DiskInSync
<1>4. ASSUME NEW k \in Node, NEW S \in SUBSET Peers(k), StartElection(k, S)
      PROVE  Steadfast(n, t, Q)'
  <2>1. loaded[k]
    BY <1>1, <1>4 DEF StartElection, ElectionInv, Booting, TypeOK
  <2>2. \A m \in requests' : m.term <= t
    BY <1>2, <1>3, <1>4, <2>1 DEF StartElection
  <2> QED
    BY <1>4, <2>2, NeutralStep DEF StartElection, nodeVars
<1>5. ASSUME NEW m \in requests, NEW d \in BOOLEAN, HandleRequestVote(m, d)
      PROVE  Steadfast(n, t, Q)'
  <2>1. m.to \in Node /\ m.term \in Nat /\ m.term <= t
    BY <1>1, <1>2 DEF TypeOK, Request, Term
  <2>2. loaded[m.to] /\ disk[m.to].term = currentTerm[m.to]
    BY <1>1, <1>5, <2>1 DEF HandleRequestVote, Serving, ElectionInv, DiskInSync
  <2> DEFINE term == IF HigherTerm(m) THEN m.term ELSE currentTerm[m.to]
  <2>3. /\ currentTerm' = [currentTerm EXCEPT ![m.to] = term]
        /\ state' = [state EXCEPT ![m.to] = IF HigherTerm(m) THEN Follower ELSE @]
        /\ leaderID' = [leaderID EXCEPT ![m.to] = IF HigherTerm(m) THEN Nil ELSE @]
        /\ requests' \subseteq requests /\ elected' = elected
        /\ disk' = disk \/ \E v : Persist(m.to, term, v)
    BY <1>5 DEF HandleRequestVote
  <2>4. \A k \in requests' : k.term <= t
    BY <1>2, <2>3
  <2>7. /\ disk'[m.to].term \in {disk[m.to].term, term}
        /\ \A p \in Node \ {m.to} : disk'[p] = disk[p]
    <3> HIDE DEF term
    <3>1. CASE disk' = disk
      BY <3>1
    <3>2. CASE \E v : Persist(m.to, term, v)
      <4>1. PICK v : disk' = [disk EXCEPT ![m.to] = [term |-> term, vote |-> v]]
        BY <3>2 DEF Persist
      <4>2. DOMAIN disk = Node
        BY <1>1 DEF TypeOK
      <4> QED
        BY <2>1, <4>1, <4>2
    <3> QED
      BY <2>3, <3>1, <3>2
  <2>5. CASE HigherTerm(m)
    <3>1. m.to # n /\ m.to \notin Q
      BY <1>1, <1>2, <2>1, <2>5 DEF HigherTerm
    <3>2. disk'[m.to].term <= t
      <4>1. term = m.term
        BY <2>5
      <4> QED
        BY <1>2, <2>1, <2>7, <4>1
    <3>3. \A p \in Node \ {m.to} : /\ state'[p] = state[p] /\ currentTerm'[p] = currentTerm[p]
                                   /\ leaderID'[p] = leaderID[p] /\ disk'[p] = disk[p]
      BY <1>1, <2>3, <2>7 DEF TypeOK
    <3>4. \A e \in elected' : e[1] = t => e[2] = n
      BY <2>3 DEF Steadfast
    <3>5. PICK k \in Node : k = m.to
      BY <2>1
    <3> QED
      BY <1>1, <2>4, <3>1, <3>2, <3>3, <3>4, <3>5, StrangerStep
  <2>6. CASE ~HigherTerm(m)
    <3>1. state' = state /\ currentTerm' = currentTerm /\ leaderID' = leaderID
      BY <1>1, <2>3, <2>6 DEF TypeOK
    <3>2. \A p \in Node : disk'[p].term <= t
      <4>1. term = currentTerm[m.to]
        BY <2>6
      <4> QED
        BY <1>2, <2>1, <2>2, <2>7, <4>1
    <3> QED
      BY <2>3, <2>4, <3>1, <3>2 DEF Steadfast
  <2> QED
    BY <2>5, <2>6
<1>6. ASSUME NEW r \in replies, StepDownOnVoteReply(r) PROVE Steadfast(n, t, Q)'
  <2>1. /\ r.cand \in Node /\ r.from \in Node /\ r.replyTerm \in Nat
        /\ r.replyTerm <= disk[r.from].term
    BY <1>1 DEF TypeOK, Reply, Term, ServiceInv, ElectedOnce
  <2>2. r.replyTerm <= t
    BY <1>1, <1>2, <2>1
  <2>3. r.cand # n /\ r.cand \notin Q
    BY <1>1, <1>2, <1>6, <2>1, <2>2 DEF StepDownOnVoteReply
  <2>4. /\ disk'[r.cand].term <= t /\ requests' = requests /\ elected' = elected
        /\ \A p \in Node \ {r.cand} : /\ state'[p] = state[p] /\ currentTerm'[p] = currentTerm[p]
                                      /\ leaderID'[p] = leaderID[p] /\ disk'[p] = disk[p]
    BY <1>1, <1>6, <2>1, <2>2 DEF StepDownOnVoteReply, BecomeFollower, Persist, TypeOK
  <2>5. /\ \A m \in requests' : m.term <= t
        /\ \A e \in elected' : e[1] = t => e[2] = n
    BY <1>1, <2>4 DEF Steadfast
  <2>6. PICK k \in Node : k = r.cand
    BY <2>1
  <2> QED
    BY <1>1, <2>3, <2>4, <2>5, <2>6, StrangerStep
<1>7. ASSUME NEW r \in replies, CountVote(r) PROVE Steadfast(n, t, Q)'
  <2>1. r.cand \in Node
    BY <1>1 DEF TypeOK, Reply
  <2>2. /\ state[r.cand] = Candidate /\ currentTerm' = currentTerm /\ disk' = disk
        /\ requests' = requests
    BY <1>7 DEF CountVote, CountsFor
  <2>3. CASE Tally(r.cand, r) >= Majority
    <3>1. /\ state' = [state EXCEPT ![r.cand] = Leader]
          /\ leaderID' = [leaderID EXCEPT ![r.cand] = r.cand]
          /\ elected' = elected \cup {<<currentTerm[r.cand], r.cand>>}
      BY <1>7, <2>3 DEF CountVote
    <3>2. r.cand # n
      BY <1>2, <2>2
    <3>3. state'[n] = Leader /\ state'[r.cand] = Leader
      BY <1>1, <1>2, <2>1, <3>1, <3>2 DEF TypeOK
    <3>4. currentTerm[r.cand] # t
      <4>1. AtMostOneActiveLeader'
        BY <1>1, OneActiveLeaderNext
      <4> QED
        BY <1>2, <2>1, <2>2, <3>2, <3>3, <4>1 DEF AtMostOneActiveLeader
    <3>5. r.cand \notin Q
      BY <1>2, <3>4
    <3>6. \A e \in elected' : e[1] = t => e[2] = n
      BY <3>1, <3>4 DEF Steadfast
    <3>7. \A p \in Node \ {r.cand} : /\ state'[p] = state[p] /\ currentTerm'[p] = currentTerm[p]
                                     /\ leaderID'[p] = leaderID[p] /\ disk'[p] = disk[p]
      BY <1>1, <2>2, <3>1 DEF TypeOK
    <3> QED
      BY <1>1, <1>2, <2>1, <2>2, <3>2, <3>5, <3>6, <3>7, StrangerStep
  <2>4. CASE ~(Tally(r.cand, r) >= Majority)
    <3>1. state' = state /\ leaderID' = leaderID /\ elected' = elected
      BY <1>1, <1>7, <2>4 DEF CountVote, TypeOK
    <3> QED
      BY <1>2, <2>2, <3>1, NeutralStep
  <2> QED
    BY <2>3, <2>4
<1> QED
  BY <1>4, <1>5, <1>6, <1>7

\* Neither do heartbeats of old leaders, replies, crashes of others and
\* restarts, or the step-down of another node.
LEMMA OthersLeaveSteadfast ==
    ASSUME ~BootWindow, ServiceInv, ServiceInv', NEW n \in Node, NEW t \in Term,
           NEW Q \in SUBSET (Node \ {n}), Steadfast(n, t, Q),
           \/ \E k \in Node, e \in elected, a \in BOOLEAN : HearFromLeader(k, e, a)
           \/ \E k \in Node, u \in Term : StepDownOnPeerReply(k, u)
           \/ \E k \in Node : OnlyLogChanges(k)
           \/ \E k \in Node : Restart(k)
           \/ \E m \in requests : CrashInHandleRequestVote(m)
           \/ \E k \in Node : LoadState(k)
           \/ \E k \in Node \ {n} : CheckQuorum(k)
    PROVE  Steadfast(n, t, Q)' \/ \E p \in Q \cup {n} : ~loaded'[p]
<1> DEFINE Goal == Steadfast(n, t, Q)' \/ \E p \in Q \cup {n} : ~loaded'[p]
<1> USE ElectionAssumption
<1>1. /\ TypeOK /\ TypeOK' /\ t \in Nat /\ ElectionInv
      /\ \A p \in Node : currentTerm[p] \in Nat /\ disk[p].term \in Nat
  BY DEF ServiceInv, ElectionInv, TypeOK, Term
<1>2. /\ state[n] = Leader /\ currentTerm[n] = t
      /\ \A p \in Node : disk[p].term <= t
      /\ \A m \in requests : m.term <= t
      /\ \A e \in elected : e[1] = t => e[2] = n
      /\ \A p \in Q : currentTerm[p] = t /\ leaderID[p] = n
  BY DEF Steadfast
<1>3. ASSUME NEW k \in Node, NEW e \in elected, NEW a \in BOOLEAN, HearFromLeader(k, e, a)
      PROVE  Goal
  <2>0. elected \subseteq Term \X Node
    BY <1>1 DEF TypeOK
  <2>1. PICK u \in Term, l \in Node : e = <<u, l>>
    BY <2>0
  <2>2. u \in Nat /\ u <= t
    <3>1. u <= disk[l].term
      BY <2>1 DEF ServiceInv, ElectedOnce
    <3> QED
      BY <1>1, <1>2, <2>1, <3>1 DEF Term
  <2>3. /\ l # k /\ u >= currentTerm[k] /\ requests' = requests /\ elected' = elected
        /\ currentTerm' = [currentTerm EXCEPT ![k] = u]
        /\ leaderID' = [leaderID EXCEPT ![k] = l]
        /\ disk' = disk \/ Persist(k, u, Nil)
    BY <1>3, <2>1 DEF HearFromLeader, ObserveLeader
  <2>4. \A p \in Node \ {k} : state'[p] = state[p]
    BY <1>1, <1>3 DEF HearFromLeader, ObserveLeader, TypeOK
  <2>5. k # n
    BY <1>1, <1>2, <2>1, <2>2, <2>3
  <2>6. disk'[k].term <= t /\ \A p \in Node \ {k} : disk'[p] = disk[p]
    BY <1>1, <1>2, <2>2, <2>3 DEF Persist, TypeOK
  <2>7. CASE k \in Q
    <3>1. u = t /\ l = n
      BY <1>1, <1>2, <2>1, <2>2, <2>3, <2>7
    <3>2. \A p \in Q : leaderID'[p] = n /\ currentTerm'[p] = t
      BY <1>1, <1>2, <2>3, <3>1 DEF TypeOK
    <3>3. state'[n] = Leader /\ currentTerm'[n] = t
      BY <1>1, <1>2, <2>3, <2>4, <2>5 DEF TypeOK
    <3>4. \A p \in Node : disk'[p].term <= t
      BY <1>2, <2>6
    <3> QED
      BY <1>2, <2>3, <3>2, <3>3, <3>4 DEF Steadfast
  <2>8. CASE k \notin Q
    <3>1. \A p \in Node \ {k} : /\ state'[p] = state[p] /\ currentTerm'[p] = currentTerm[p]
                                /\ leaderID'[p] = leaderID[p] /\ disk'[p] = disk[p]
      BY <1>1, <2>3, <2>4, <2>6 DEF TypeOK
    <3> QED
      BY <1>1, <1>2, <2>3, <2>5, <2>6, <2>8, <3>1, StrangerStep
  <2> QED
    BY <2>7, <2>8
<1>4. ASSUME NEW k \in Node, NEW u \in Term, StepDownOnPeerReply(k, u) PROVE Goal
  <2>1. u \in Nat /\ u <= t /\ u > currentTerm[k]
    BY <1>1, <1>2, <1>4 DEF StepDownOnPeerReply, Peers, Term
  <2>2. k # n /\ k \notin Q
    BY <1>1, <1>2, <2>1
  <2>3. /\ disk'[k].term <= t /\ requests' = requests /\ elected' = elected
        /\ \A p \in Node \ {k} : /\ state'[p] = state[p] /\ currentTerm'[p] = currentTerm[p]
                                 /\ leaderID'[p] = leaderID[p] /\ disk'[p] = disk[p]
    BY <1>1, <1>4, <2>1 DEF StepDownOnPeerReply, BecomeFollower, Persist, TypeOK
  <2> QED
    BY <1>1, <1>2, <2>2, <2>3, StrangerStep
<1>5. ASSUME NEW k \in Node, OnlyLogChanges(k) PROVE Goal
  BY <1>2, <1>5, NeutralStep DEF OnlyLogChanges, nodeVars
<1>6. ASSUME NEW k \in Node, NEW u \in Nat, u <= t, FreshMemory(k),
             disk' = disk \/ Persist(k, u, Nil), \A m \in requests' : m.term <= t
      PROVE  Goal
  <2>1. ~loaded'[k]
    BY <1>1, <1>6 DEF FreshMemory, TypeOK
  <2>2. CASE k \notin Q /\ k # n
    <3>1. /\ disk'[k].term <= t /\ elected' = elected
          /\ \A p \in Node \ {k} : /\ state'[p] = state[p] /\ currentTerm'[p] = currentTerm[p]
                                   /\ leaderID'[p] = leaderID[p] /\ disk'[p] = disk[p]
      BY <1>1, <1>2, <1>6 DEF FreshMemory, Persist, TypeOK
    <3> QED
      BY <1>1, <1>2, <1>6, <2>2, <3>1, StrangerStep
  <2> QED
    BY <2>1, <2>2
<1>7. ASSUME NEW k \in Node, NEW R \in SUBSET requests PROVE \A m \in Orphan(k, R) : m.term <= t
  <2>1. \A m \in R : m.term <= t /\ [m EXCEPT !.round = 0].term = m.term
    BY <1>1, <1>2 DEF TypeOK, Request
  <2> QED
    BY <2>1 DEF Orphan
<1>8. ASSUME NEW k \in Node, Restart(k) PROVE Goal
  <2>1. \A m \in requests' : m.term <= t
    BY <1>7, <1>8 DEF Restart
  <2> QED
    BY <1>1, <1>6, <1>8, <2>1 DEF Restart
<1>9. ASSUME NEW m \in requests, CrashInHandleRequestVote(m) PROVE Goal
  <2>1. m.to \in Node /\ m.term \in Nat /\ m.term <= t
    BY <1>1, <1>2 DEF TypeOK, Request, Term
  <2>2. \A k \in requests' : k.term <= t
    BY <1>7, <1>9, <2>1 DEF CrashInHandleRequestVote
  <2> QED
    BY <1>6, <1>9, <2>1, <2>2 DEF CrashInHandleRequestVote
<1>10. ASSUME NEW k \in Node, LoadState(k) PROVE Goal
  <2>1. state[k] = Follower /\ leaderID[k] = Nil
    BY <1>1, <1>10 DEF LoadState, ElectionInv, Booting
  <2>2. k # n /\ k \notin Q
    BY <1>2, <2>1
  <2>3. /\ disk' = disk /\ requests' = requests /\ elected' = elected
        /\ \A p \in Node \ {k} : /\ state'[p] = state[p] /\ currentTerm'[p] = currentTerm[p]
                                 /\ leaderID'[p] = leaderID[p]
    BY <1>1, <1>10 DEF LoadState, TypeOK
  <2> QED
    BY <1>1, <1>2, <2>2, <2>3, StrangerStep
<1>11. ASSUME NEW k \in Node \ {n}, CheckQuorum(k) PROVE Goal
  <2>1. state[k] = Leader /\ loaded[k] /\ disk[k].term = currentTerm[k]
    BY <1>1, <1>11 DEF CheckQuorum, ElectionInv, Booting, DiskInSync
  <2>2. k \notin Q
    <3>1. currentTerm[k] # t
      BY <1>1, <1>2, <2>1, OneActiveLeader DEF AtMostOneActiveLeader
    <3> QED
      BY <1>2, <3>1
  <2>3. /\ disk'[k].term <= t /\ requests' = requests /\ elected' = elected
        /\ \A p \in Node \ {k} : /\ state'[p] = state[p] /\ currentTerm'[p] = currentTerm[p]
                                 /\ leaderID'[p] = leaderID[p] /\ disk'[p] = disk[p]
    BY <1>1, <1>2, <1>11, <2>1 DEF CheckQuorum, BecomeFollower, Persist, TypeOK
  <2> QED
    BY <1>1, <1>2, <2>2, <2>3, StrangerStep
<1> HIDE DEF Goal
<1>12. Goal
  BY <1>3, <1>4, <1>5, <1>8, <1>9, <1>10, <1>11
<1> QED
  BY <1>12 DEF Goal

\* Only peers grant a round.
ProbesOK ==
    /\ DOMAIN probe = Node
    /\ \A k \in Node : /\ DOMAIN probe[k] = {"open", "lastTerm", "lastIndex", "granted"}
                       /\ probe[k].granted \subseteq Peers(k)

PreVoteInv == ServiceInv /\ ProbesOK

\* Every step is a step of the elections or none.
LEMMA PreVoteElects ==
    ASSUME [PreVoteNext]_fullVars
    PROVE  [ElectionNext]_electionVars
BY DEF PreVoteNext, fullVars, TimerFires, GrantPreVote, StandAfterPreVote, ContactExpires,
       TickLosesQuorum, Hear, Other, ElectionNext, QuorateNext

\* Every step keeps the invariant.
LEMMA PreVoteStep ==
    ASSUME ~BootWindow, PreVoteInv, [PreVoteNext]_fullVars
    PROVE  PreVoteInv'
<1>1. ServiceInv'
  BY PreVoteElects, ServiceStep DEF PreVoteInv
<1>2. ProbesOK
  BY DEF PreVoteInv
<1>3. ASSUME NEW k \in Node, TimerFires(k) PROVE ProbesOK'
  BY <1>2, <1>3 DEF TimerFires, ProbesOK
<1>4. ASSUME NEW k \in Node, NEW p \in Node, GrantPreVote(k, p) PROVE ProbesOK'
  <2>1. \/ probe' = [probe EXCEPT ![k] = NoProbe]
        \/ probe' = [probe EXCEPT ![k] = [@ EXCEPT !.granted = probe[k].granted \cup {p}]]
    BY <1>4 DEF GrantPreVote
  <2>2. p \in Peers(k)
    BY <1>4 DEF GrantPreVote
  <2>3. CASE probe' = [probe EXCEPT ![k] = NoProbe]
    BY <1>2, <2>3 DEF ProbesOK, NoProbe
  <2>4. CASE probe' = [probe EXCEPT ![k] = [@ EXCEPT !.granted = probe[k].granted \cup {p}]]
    BY <1>2, <2>2, <2>4 DEF ProbesOK
  <2> QED
    BY <2>1, <2>3, <2>4
<1>5. ASSUME NEW k \in Node, Forget(k) PROVE ProbesOK'
  BY <1>2, <1>5 DEF Forget, ProbesOK, NoProbe
<1>6. ASSUME probe' = probe PROVE ProbesOK'
  BY <1>2, <1>6 DEF ProbesOK
<1>7. \A m \in requests : m.to \in Node
  BY DEF PreVoteInv, ServiceInv, ElectionInv, TypeOK, Request
<1>8. ProbesOK'
  <2>1. CASE UNCHANGED fullVars
    BY <1>6, <2>1 DEF fullVars, preVoteVars
  <2>2. CASE \E k \in Node : StandAfterPreVote(k) \/ ContactExpires(k) \/ TickLosesQuorum(k)
    BY <1>6, <2>2 DEF StandAfterPreVote, ContactExpires, TickLosesQuorum, preVoteVars
  <2>3. CASE \E k \in Node, e \in elected, a \in BOOLEAN : Hear(k, e, a)
    BY <1>6, <2>3 DEF Hear
  <2>4. ASSUME UNCHANGED preVoteVars PROVE ProbesOK'
    BY <1>6, <2>4 DEF preVoteVars
  <2>5. CASE \/ \E k \in Node : Restart(k) /\ Forget(k)
             \/ \E m \in requests : CrashInHandleRequestVote(m) /\ Forget(m.to)
    BY <1>5, <1>7, <2>5
  <2>6. CASE \/ \E k \in Node : TimerFires(k)
             \/ \E k, p \in Node : GrantPreVote(k, p)
    BY <1>3, <1>4, <2>6
  <2> QED
    BY <2>1, <2>2, <2>3, <2>4, <2>5, <2>6 DEF PreVoteNext, Other
<1> QED
  BY <1>1, <1>8 DEF PreVoteInv

\* With so many followers a leader keeps its quorum, and the others have no
\* majority.
LEMMA LoyalCount ==
    ASSUME NEW Q \in SUBSET Node, Cardinality(Node \ Q) < Majority
    PROVE  /\ \A F \in SUBSET Node : Q \subseteq F => Cardinality(F) + 1 >= Majority
           /\ \A G \in SUBSET (Node \ Q), k \in Node \ Q :
                 k \notin G => 1 + Cardinality(G) < Majority
<1>1. IsFiniteSet(Node) /\ IsFiniteSet(Q) /\ IsFiniteSet(Node \ Q)
  BY ElectionAssumption, FS_Subset
<1>2. Cardinality(Node \ Q) = Cardinality(Node) - Cardinality(Node \cap Q)
  BY <1>1, FS_Difference
<1>3. Node \cap Q = Q
  OBVIOUS
<1>4. Cardinality(Node) \in Nat /\ Cardinality(Q) \in Nat /\ Cardinality(Node \ Q) \in Nat
  BY <1>1, FS_CardinalityType
<1>5. ASSUME NEW F \in SUBSET Node, Q \subseteq F PROVE Cardinality(F) + 1 >= Majority
  <2>1. IsFiniteSet(F) /\ Cardinality(F) \in Nat
    BY <1>1, FS_Subset, FS_CardinalityType
  <2>2. Cardinality(Q) <= Cardinality(F)
    BY <1>5, <2>1, FS_Subset
  <2>3. ASSUME NEW N \in Nat, NEW q \in Nat, NEW f \in Nat,
               N - q < N \div 2 + 1, q <= f
        PROVE  f + 1 >= N \div 2 + 1
    <3>1. N - q <= N \div 2 /\ 2 * (N \div 2) <= N /\ N \div 2 \in Nat
      BY <2>3
    <3> QED
      BY <2>3, <3>1
  <2>4. Cardinality(Node) - Cardinality(Q) < Cardinality(Node) \div 2 + 1
    BY <1>2, <1>3 DEF Majority
  <2> QED
    BY <1>4, <2>1, <2>2, <2>3, <2>4 DEF Majority
<1>6. ASSUME NEW G \in SUBSET (Node \ Q), NEW k \in Node \ Q, k \notin G
      PROVE  1 + Cardinality(G) < Majority
  <2>1. IsFiniteSet(G) /\ Cardinality(G) \in Nat
    BY <1>1, FS_Subset, FS_CardinalityType
  <2>2. Cardinality(G \cup {k}) = Cardinality(G) + 1
    BY <1>6, <2>1, FS_AddElement
  <2>3. Cardinality(G \cup {k}) <= Cardinality(Node \ Q)
    BY <1>1, <1>6, FS_Subset
  <2> QED
    BY <1>4, <2>1, <2>2, <2>3 DEF Majority
<1> QED
  BY <1>5, <1>6

\* A leader that is steadfast next is undisputed next if the rounds leave its
\* followers alone.
LEMMA StaysUndisputed ==
    ASSUME NEW n \in Node, NEW t \in Term, NEW Q \in SUBSET (Node \ {n}), Steadfast(n, t, Q)',
           Q \subseteq Steady, Q \subseteq contact', passed' = {},
           Cardinality(Node \ Q) < Majority,
           \A p \in Q : ~probe'[p].open,
           \A p \in Node : probe'[p].granted \cap Q = {}
    PROVE  Undisputed(n)'
<1>1. Q \subseteq Loyal(n)'
  BY DEF Steadfast, Loyal, Followers, Follows
<1>2. /\ state'[n] = Leader
      /\ \A p \in Node : disk'[p].term <= currentTerm'[n]
      /\ \A m \in requests' : m.term <= currentTerm'[n]
      /\ \A e \in elected' : e[1] = currentTerm'[n] => e[2] = n
  BY DEF Steadfast
<1> QED
  BY <1>1, <1>2 DEF Undisputed, Majority

\* No step disputes an undisputed leader, but for a crash of it or of one of
\* its loyal followers.
LEMMA UndisputedStep ==
    ASSUME ~BootWindow, PreVoteInv, [PreVoteNext]_fullVars, NEW n \in Node, Undisputed(n)
    PROVE  Undisputed(n)' \/ \E p \in Loyal(n) \cup {n} : ~loaded'[p]
<1> DEFINE Goal == Undisputed(n)' \/ \E p \in Loyal(n) \cup {n} : ~loaded'[p]
<1> USE ElectionAssumption, PreVoteAssumption
<1>1. /\ ServiceInv /\ ServiceInv' /\ ElectionInv /\ TypeOK /\ ProbesOK
  BY PreVoteElects, ServiceStep DEF PreVoteInv, ServiceInv, ElectionInv
<1>2. PICK t \in Term : t = currentTerm[n]
  BY <1>1 DEF TypeOK
<1>3. PICK Q \in SUBSET Loyal(n) :
         /\ Cardinality(Node \ Q) < Majority
         /\ \A p \in Q : ~probe[p].open
         /\ \A p \in Node : probe[p].granted \cap Q = {}
  BY DEF Undisputed
<1>4. passed = {}
  BY DEF Undisputed
<1>5. \A p \in Q : /\ p \in Node \ {n} /\ p \in Steady /\ p \in contact
                   /\ Follows(p, n) /\ InTouch(p)
                   /\ leaderID[p] = n /\ currentTerm[p] = t
  BY <1>2, <1>3 DEF Loyal, Followers, Follows, InTouch
<1>6. Q \in SUBSET (Node \ {n}) /\ Q \subseteq Steady /\ Q \subseteq contact
  BY <1>5
<1>7. Steadfast(n, t, Q)
  BY <1>2, <1>5 DEF Steadfast, Undisputed
<1>8. /\ \A F \in SUBSET Node : Q \subseteq F => Cardinality(F) + 1 >= Majority
      /\ \A G \in SUBSET (Node \ Q), k \in Node \ Q :
            k \notin G => 1 + Cardinality(G) < Majority
  BY <1>3, <1>6, LoyalCount
<1>9. ASSUME Steadfast(n, t, Q)', Q \subseteq contact', passed' = {},
             \A p \in Q : ~probe'[p].open,
             \A p \in Node : probe'[p].granted \cap Q = {}
      PROVE  Goal
  BY <1>3, <1>6, <1>9, StaysUndisputed
<1>10. ASSUME UNCHANGED electionVars PROVE Steadfast(n, t, Q)'
  <2>1. \A m \in requests : m.term <= t
    BY <1>7 DEF Steadfast
  <2> QED
    BY <1>6, <1>7, <1>10, <2>1, NeutralStep DEF electionVars, nodeVars
<1>11. ASSUME NEW k \in Node, TimerFires(k) PROVE Goal
  <2>1. k \notin Q
    BY <1>5, <1>11 DEF TimerFires
  <2>2. /\ contact' = contact /\ passed' = passed /\ UNCHANGED electionVars
        /\ probe' = [probe EXCEPT ![k] =
                       [open |-> TRUE, lastTerm |-> LastTerm(log[k]),
                        lastIndex |-> LastIndex(log[k]), granted |-> {}]]
    BY <1>11 DEF TimerFires
  <2>3. /\ \A p \in Q : probe'[p] = probe[p]
        /\ \A p \in Node : probe'[p].granted \in {{}, probe[p].granted}
    BY <1>1, <1>6, <2>1, <2>2 DEF ProbesOK
  <2> QED
    BY <1>3, <1>4, <1>6, <1>9, <1>10, <2>2, <2>3
<1>12. ASSUME NEW k \in Node, NEW p \in Node, GrantPreVote(k, p) PROVE Goal
  <2>1. /\ p \notin contact /\ p \in Peers(k) /\ probe[k].open
        /\ contact' = contact /\ UNCHANGED electionVars
    BY <1>12 DEF GrantPreVote, GrantsPreVote
  <2>2. k \notin Q /\ p \notin Q
    BY <1>3, <1>5, <2>1
  <2>3. PICK G : G = probe[k].granted \cup {p}
    OBVIOUS
  <2>4. G \in SUBSET (Node \ Q) /\ k \notin G
    BY <1>1, <1>3, <2>1, <2>2, <2>3 DEF ProbesOK, Peers
  <2>5. ~(1 + Cardinality(G) >= Majority)
    <3>1. 1 + Cardinality(G) < Majority
      BY <1>8, <2>2, <2>4
    <3>2. Cardinality(G) \in Nat /\ Majority \in Nat
      <4>1. IsFiniteSet(G) /\ IsFiniteSet(Node)
        BY <2>4, FS_Subset
      <4> QED
        BY <4>1, FS_CardinalityType DEF Majority
    <3> QED
      BY <3>1, <3>2
  <2>6. /\ probe' = [probe EXCEPT ![k] = [@ EXCEPT !.granted = G]] /\ passed' = passed
    BY <1>12, <2>3, <2>5 DEF GrantPreVote
  <2>7. /\ \A q \in Q : probe'[q] = probe[q]
        /\ \A q \in Node \ {k} : probe'[q] = probe[q]
        /\ probe'[k].granted = G
    BY <1>1, <1>6, <2>2, <2>6 DEF ProbesOK
  <2>8. \A q \in Node : probe'[q].granted \cap Q = {}
    BY <1>3, <2>4, <2>7
  <2> QED
    BY <1>3, <1>4, <1>6, <1>9, <1>10, <2>1, <2>6, <2>7, <2>8
<1>13. ASSUME NEW k \in Node, StandAfterPreVote(k) PROVE Goal
  BY <1>4, <1>13 DEF StandAfterPreVote
<1>14. ASSUME NEW k \in Node, ContactExpires(k) PROVE Goal
  <2>1. /\ k \notin Q /\ UNCHANGED <<electionVars, probe, passed>> /\ contact' = contact \ {k}
    BY <1>5, <1>14 DEF ContactExpires
  <2> QED
    BY <1>3, <1>4, <1>6, <1>9, <1>10, <2>1
\* The rest follows from the step of the elections.
<1>15. ASSUME Steadfast(n, t, Q)' \/ \E p \in Q \cup {n} : ~loaded'[p],
              Q \subseteq contact' \/ \E p \in Q \cup {n} : ~loaded'[p],
              passed' \subseteq passed,
              \A p \in Node : probe'[p] \in {probe[p], NoProbe}
       PROVE  Goal
  <2>1. CASE \E p \in Q \cup {n} : ~loaded'[p]
    BY <1>3, <2>1
  <2>2. CASE Steadfast(n, t, Q)' /\ Q \subseteq contact'
    <3>1. ~NoProbe.open /\ NoProbe.granted = {}
      BY DEF NoProbe
    <3> HIDE DEF NoProbe
    <3>2. /\ \A p \in Q : ~probe'[p].open
          /\ \A p \in Node : probe'[p].granted \cap Q = {}
      BY <1>3, <1>6, <1>15, <3>1
    <3> QED
      BY <1>4, <1>9, <1>15, <2>2, <3>2
  <2> QED
    BY <1>15, <2>1, <2>2
<1>16. ASSUME UNCHANGED preVoteVars, Steadfast(n, t, Q)' \/ \E p \in Q \cup {n} : ~loaded'[p]
       PROVE  Goal
  BY <1>6, <1>15, <1>16 DEF preVoteVars
<1>17. ASSUME NEW k \in Node, TickLosesQuorum(k) PROVE Goal
  <2>1. k # n
    <3>1. Q \subseteq Followers(n) /\ Followers(n) \in SUBSET Node
      BY <1>3 DEF Loyal, Followers
    <3>2. QuorumKept(n)
      BY <1>8, <3>1 DEF QuorumKept
    <3> QED
      BY <1>17, <3>2 DEF TickLosesQuorum
  <2>2. Steadfast(n, t, Q)' \/ \E p \in Q \cup {n} : ~loaded'[p]
    BY <1>1, <1>6, <1>7, <1>17, <2>1, OthersLeaveSteadfast DEF TickLosesQuorum
  <2> QED
    BY <1>16, <1>17, <2>2 DEF TickLosesQuorum
<1>18. ASSUME NEW k \in Node, NEW e \in elected, NEW a \in BOOLEAN, Hear(k, e, a) PROVE Goal
  <2>1. Steadfast(n, t, Q)' \/ \E p \in Q \cup {n} : ~loaded'[p]
    BY <1>1, <1>6, <1>7, <1>18, OthersLeaveSteadfast DEF Hear
  <2>2. Q \subseteq contact' /\ passed' = passed /\ probe' = probe
    BY <1>6, <1>18 DEF Hear
  <2> QED
    BY <1>15, <2>1, <2>2
<1>19. ASSUME NEW k \in Node, Forget(k), ~loaded'[k],
              Steadfast(n, t, Q)' \/ \E p \in Q \cup {n} : ~loaded'[p]
       PROVE  Goal
  <2>1. /\ contact' = contact \ {k} /\ passed' = passed \ {k}
        /\ probe' = [probe EXCEPT ![k] = NoProbe]
    BY <1>19 DEF Forget
  <2>2. \A p \in Node : probe'[p] \in {probe[p], NoProbe}
    BY <1>1, <2>1 DEF ProbesOK
  <2>3. Q \subseteq contact' \/ \E p \in Q \cup {n} : ~loaded'[p]
    BY <1>6, <1>19, <2>1
  <2> QED
    BY <1>15, <1>19, <2>1, <2>2, <2>3
<1>20. ASSUME NEW k \in Node, Restart(k), Forget(k) PROVE Goal
  <2>1. ~loaded'[k]
    BY <1>1, <1>20 DEF Restart, FreshMemory, TypeOK
  <2>2. Steadfast(n, t, Q)' \/ \E p \in Q \cup {n} : ~loaded'[p]
    BY <1>1, <1>6, <1>7, <1>20, OthersLeaveSteadfast
  <2> QED
    BY <1>19, <1>20, <2>1, <2>2
<1>21. ASSUME NEW m \in requests, CrashInHandleRequestVote(m), Forget(m.to) PROVE Goal
  <2>1. m.to \in Node
    BY <1>1 DEF TypeOK, Request
  <2>2. ~loaded'[m.to]
    BY <1>1, <1>21, <2>1 DEF CrashInHandleRequestVote, FreshMemory, TypeOK
  <2>3. Steadfast(n, t, Q)' \/ \E p \in Q \cup {n} : ~loaded'[p]
    BY <1>1, <1>6, <1>7, <1>21, OthersLeaveSteadfast
  <2> QED
    BY <1>19, <1>21, <2>1, <2>2, <2>3
<1>22. ASSUME UNCHANGED preVoteVars,
              \/ \E k \in Node : \E S \in SUBSET Peers(k) : StartElection(k, S)
              \/ \E m \in requests, d \in BOOLEAN : HandleRequestVote(m, d)
              \/ \E r \in replies : StepDownOnVoteReply(r)
              \/ \E r \in replies : CountVote(r)
       PROVE  Goal
  <2>1. Steadfast(n, t, Q)'
    BY <1>1, <1>6, <1>7, <1>22, VotesLeaveSteadfast
  <2> QED
    BY <1>16, <1>22, <2>1
<1>23. ASSUME UNCHANGED preVoteVars,
              \/ \E k \in Node, u \in Term : StepDownOnPeerReply(k, u)
              \/ \E k \in Node : OnlyLogChanges(k)
              \/ \E k \in Node : LoadState(k)
       PROVE  Goal
  <2>1. Steadfast(n, t, Q)' \/ \E p \in Q \cup {n} : ~loaded'[p]
    BY <1>1, <1>6, <1>7, <1>23, OthersLeaveSteadfast
  <2> QED
    BY <1>16, <1>23, <2>1
<1>24. ASSUME UNCHANGED fullVars PROVE Goal
  BY <1>10, <1>16, <1>24 DEF fullVars
<1> HIDE DEF Goal
<1>25. ASSUME NEW k \in Node, NEW S \in SUBSET Peers(k), Other(StartElection(k, S)) PROVE Goal
  BY <1>22, <1>25 DEF Other
<1>26. ASSUME NEW m \in requests, NEW d \in BOOLEAN, Other(HandleRequestVote(m, d)) PROVE Goal
  BY <1>22, <1>26 DEF Other
<1>27. ASSUME NEW r \in replies, Other(StepDownOnVoteReply(r) \/ CountVote(r)) PROVE Goal
  BY <1>22, <1>27 DEF Other
<1>28. ASSUME NEW k \in Node, NEW u \in Term, Other(StepDownOnPeerReply(k, u)) PROVE Goal
  BY <1>23, <1>28 DEF Other
<1>29. ASSUME NEW k \in Node, Other(OnlyLogChanges(k) /\ SomeLog(k)) PROVE Goal
  BY <1>23, <1>29 DEF Other
<1>30. ASSUME NEW k \in Node, Other(LoadState(k) /\ SomeLog(k)) PROVE Goal
  BY <1>23, <1>30 DEF Other
<1>31. ASSUME PreVoteNext PROVE Goal
  BY <1>11, <1>12, <1>13, <1>14, <1>17, <1>18, <1>20, <1>21, <1>25, <1>26, <1>27, <1>28,
     <1>29, <1>30, <1>31, Zenon
  DEF PreVoteNext
<1>32. Goal
  BY <1>24, <1>31
<1> QED
  BY <1>32 DEF Goal

(* Pre-vote and checkQuorum: nodes with a bad connection neither depose a  *)
(* healthy leader nor raise its term, and the leader does not give up      *)
(* either, until it or a loyal follower crashes, in clusters of any size.  *)
THEOREM SteadyLeaderKept ==
    ASSUME ~BootWindow
    PROVE  PreVoteSpec => SteadyLeaderStays
<1>1. ElectionInit /\ PreVoteInit => PreVoteInv
  <2>1. ElectionInit => ServiceInv
    BY ServiceStart
  <2>2. PreVoteInit => ProbesOK
    BY DEF PreVoteInit, ProbesOK, NoProbe
  <2> QED
    BY <2>1, <2>2 DEF PreVoteInv
<1>2. PreVoteInv /\ [PreVoteNext]_fullVars => PreVoteInv'
  BY PreVoteStep
<1>3. PreVoteInv /\ [PreVoteNext]_fullVars =>
        [\A n \in Node : Undisputed(n) =>
            Undisputed(n)' \/ \E p \in Loyal(n) \cup {n} : ~loaded'[p]]_fullVars
  BY UndisputedStep
<1> QED
  BY <1>1, <1>2, <1>3, PTL DEF PreVoteSpec, SteadyLeaderStays

=============================================================================
