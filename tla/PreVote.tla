------------------------------ MODULE PreVote ------------------------------
(***************************************************************************)
(* The pre-vote round that stands between a fired election timer and       *)
(* becomeCandidate (src/raft/election.go, the timer case of Run), and what *)
(* it and checkQuorum look at: when a node last heard from a leader, and   *)
(* when a leader last heard from its peers.                                *)
(*                                                                         *)
(* Of time only what those tests tell apart is kept: a node is in contact  *)
(* while its lastLeaderContact is younger than ElectionTimeoutMin.  A      *)
(* steady node gets and handles the heartbeats of the leader it follows    *)
(* faster than that, so its contact does not run out, its timer does not   *)
(* fire, and its replies keep the leader's lastHeardFrom young; nothing is *)
(* assumed of the others.                                                  *)
(***************************************************************************)
EXTENDS Election

CONSTANTS
    Steady,             \* the nodes with a steady connection to any leader
    Probing             \* bound: the nodes whose election timer fires

ASSUME PreVoteAssumption == Steady \subseteq Node /\ Probing \subseteq Node

VARIABLES
    contact,            \* nodes that heard from a leader lately
    probe,              \* the pre-vote round a node is running, if any
    passed              \* nodes with a round that won and has not yet taken
                        \* the mutex again to stand

preVoteVars == <<contact, probe, passed>>
fullVars == <<electionVars, preVoteVars>>

NoProbe == [open |-> FALSE, lastTerm |-> 0, lastIndex |-> 0, granted |-> {}]

PreVoteTypeOK ==
    /\ contact \subseteq Node
    /\ probe \in [Node -> [open : BOOLEAN, lastTerm : Nat, lastIndex : Nat,
                           granted : SUBSET Node]]
    /\ passed \subseteq Node

PreVoteInit ==
    /\ contact = {}
    /\ probe = [n \in Node |-> NoProbe]
    /\ passed = {}

\* Node p follows an active leader over a steady connection.
Follows(p, n) ==
    /\ p \in Steady \ {n}
    /\ leaderID[p] = n /\ state[n] = Leader /\ currentTerm[n] = currentTerm[p]

InTouch(p) == \E n \in Node : Follows(p, n)

Followers(n) == {p \in Node : Follows(p, n)}

-----------------------------------------------------------------------------

\* The election timer fires on a node that is not leader and has peers, and
\* startPreVote reads its log for the calls.  An earlier round, whose calls
\* have all timed out by now, is over.
TimerFires(n) ==
    /\ n \in Probing
    /\ loaded[n]
    /\ state[n] # Leader
    /\ Peers(n) # {}
    /\ ~InTouch(n)
    /\ probe' = [probe EXCEPT ![n] =
                   [open |-> TRUE, lastTerm |-> LastTerm(log[n]),
                    lastIndex |-> LastIndex(log[n]), granted |-> {}]]
    /\ UNCHANGED <<electionVars, contact, passed>>

\* Mutant of GrantsPreVote: only the logs are compared.
GrantsPreVoteAlways(p, r) == UpToDate(r, log[p])

\* HandleRequestVote, the pre-vote path: no term is compared, nothing is
\* recorded; a leader does not count as having heard from a leader.
GrantsPreVote(p, r) == p \notin contact /\ UpToDate(r, log[p])

\* Peer p grants the round of n.  With a majority the round returns true;
\* its remaining calls are nobody's business any more.
GrantPreVote(n, p) ==
    LET granted == probe[n].granted \cup {p}
        wins == 1 + Cardinality(granted) >= Majority
    IN  /\ probe[n].open
        /\ p \in Peers(n) \ probe[n].granted
        /\ Serving(p)
        /\ GrantsPreVote(p, probe[n])
        /\ probe' = [probe EXCEPT ![n] = IF wins THEN NoProbe ELSE [@ EXCEPT !.granted = granted]]
        /\ passed' = IF wins THEN passed \cup {n} ELSE passed
        /\ UNCHANGED <<electionVars, contact>>

\* The goroutine of a won round takes the mutex: a node that leads by now
\* lets it pass, any other becomes candidate.
StandAfterPreVote(n) ==
    /\ n \in passed
    /\ passed' = passed \ {n}
    /\ IF state[n] = Leader THEN UNCHANGED electionVars ELSE BecomeCandidate(n)
    /\ UNCHANGED <<contact, probe>>

\* ElectionTimeoutMin passes without a heartbeat.
ContactExpires(n) ==
    /\ n \in contact
    /\ ~InTouch(n)
    /\ contact' = contact \ {n}
    /\ UNCHANGED <<electionVars, probe, passed>>

\* checkQuorum: with itself the leader has heard from a majority.
QuorumKept(n) == Cardinality(Followers(n)) + 1 >= Majority

TickLosesQuorum(n) ==
    /\ ~QuorumKept(n)
    /\ CheckQuorum(n)
    /\ UNCHANGED preVoteVars

\* HandleAppendEntries sets lastLeaderContact, HandleInstallSnapshot does not.
Hear(n, e, isAppend) ==
    /\ HearFromLeader(n, e, isAppend)
    /\ contact' = IF isAppend THEN contact \cup {n} ELSE contact
    /\ UNCHANGED <<probe, passed>>

\* A new process has never heard of anybody and runs no round.
Forget(n) ==
    /\ contact' = contact \ {n}
    /\ probe' = [probe EXCEPT ![n] = NoProbe]
    /\ passed' = passed \ {n}

Other(A) == A /\ UNCHANGED preVoteVars

PreVoteNext ==
    \/ \E n \in Node : TimerFires(n)
    \/ \E n, p \in Node : GrantPreVote(n, p)
    \/ \E n \in Node : StandAfterPreVote(n)
    \/ \E n \in Node : ContactExpires(n)
    \/ \E n \in Node : TickLosesQuorum(n)
    \/ \E n \in Node, e \in elected, isAppend \in BOOLEAN : Hear(n, e, isAppend)
    \/ \E n \in Node : Restart(n) /\ Forget(n)
    \/ \E m \in requests : CrashInHandleRequestVote(m) /\ Forget(m.to)
    \/ \E n \in Node : \E S \in SUBSET Peers(n) : Other(StartElection(n, S))
    \/ \E m \in requests, d \in BOOLEAN : Other(HandleRequestVote(m, d))
    \/ \E r \in replies : Other(StepDownOnVoteReply(r) \/ CountVote(r))
    \/ \E n \in Node, t \in Term : Other(StepDownOnPeerReply(n, t))
    \/ \E n \in Node : Other(OnlyLogChanges(n) /\ SomeLog(n))
    \/ \E n \in Node : Other(LoadState(n) /\ SomeLog(n))

PreVoteSpec == ElectionInit /\ PreVoteInit /\ [][PreVoteNext]_fullVars

-----------------------------------------------------------------------------
(* Properties.                                                             *)

\* The followers of n that would refuse a pre-vote against it.
Loyal(n) == Followers(n) \cap contact

\* Node n leads the newest term, alone in it, no election for a newer one is
\* under way, and so many loyal followers have no part in any pre-vote round
\* that the others are no majority, not even with n itself: a leader grants
\* pre-votes like anybody else.
Undisputed(n) ==
    /\ state[n] = Leader
    /\ \A p \in Node : disk[p].term <= currentTerm[n]
    /\ \A m \in requests : m.term <= currentTerm[n]
    /\ \A e \in elected : e[1] = currentTerm[n] => e[2] = n
    /\ passed = {}
    /\ \E Q \in SUBSET Loyal(n) :
          /\ Cardinality(Node \ Q) < Majority
          /\ \A p \in Q : ~probe[p].open
          /\ \A p \in Node : probe[p].granted \cap Q = {}

\* What pre-vote and checkQuorum are for (rpc.go, election.go, node.go):
\* nodes with a bad connection neither depose a healthy leader nor raise its
\* term, however often they time out, and the leader does not give up either.
\* An undisputed leader stays one, until it or a loyal follower crashes.
SteadyLeaderStays ==
    [][\A n \in Node : Undisputed(n) =>
          Undisputed(n)' \/ \E p \in Loyal(n) \cup {n} : ~loaded'[p]]_fullVars

=============================================================================
