------------------------------- MODULE MCRaft -------------------------------
(* Model values for Raft. *)
EXTENDS Raft, TLC

CONSTANTS n1, n2, n3

Three == {n1, n2, n3}

\* Every log a run can produce: a sentinel and at most MaxIndex entries, whose
\* terms do not decrease.
BoundedLogs ==
    UNION {{<<[term |-> t, index |-> s, cmd |-> NoCmd]>> \o
              [k \in 1 .. n |-> [term |-> ts[k], index |-> s + k, cmd |-> cs[k]]] :
              t \in IF s = 0 THEN {0} ELSE 1 .. MaxTerm,
              ts \in {f \in [1 .. n -> 1 .. MaxTerm] : \A j, k \in 1 .. n : j < k => f[j] <= f[k]},
              cs \in [1 .. n -> Cmd]} :
              <<s, n>> \in {q \in (0 .. MaxIndex) \X (0 .. MaxIndex) : q[1] + q[2] <= MaxIndex}}

None == {}
JustN2 == {n2}
JustN3 == {n3}
JustN1 == {n1}

\* Which node may stand for which term.
ThenN2 == {<<n2, 2>>}
Alternate == {<<n2, 4>>, <<n1, 5>>}
N2ForThree == {<<n2, 3>>}

\* No guard and no property of the runs reads the ledger: states that differ
\* in nothing else are explored once.
WithoutLedger == <<electionVars, nextIndex, matchIndex, commitIndex, lastApplied, diskLog,
                   snapFile, calls, answers, committed>>

-----------------------------------------------------------------------------
(* Reachable states to start from.                                         *)

\* All processes are up, nothing is on the network and nothing is committed;
\* what is on disk is what is in memory.
Quiet ==
    /\ disk = [n \in Node |-> [term |-> currentTerm[n], vote |-> votedFor[n]]]
    /\ loaded = [n \in Node |-> TRUE]
    /\ spawned = [n \in Node |-> 0]
    /\ requests = {}
    /\ replies = {}
    /\ commitIndex = [n \in Node |-> 0]
    /\ lastApplied = [n \in Node |-> 0]
    /\ diskLog = log
    /\ snapFile = [n \in Node |-> NoSnapshot]
    /\ calls = {}
    /\ answers = {}
    /\ committed = {}

\* The log of the leader of term t, if nothing was added to it since.
LatestOf(t) == IF t = 2 THEN log[n2] ELSE IF t = 3 THEN log[n1] ELSE EmptyLog

NoMatch == matchIndex = [n \in Node |-> [p \in Node |-> 0]]

\* n1 stood for term 1, n3 voted for it and n1 counted the vote; the request
\* to n2 was lost.
InitLed ==
    /\ currentTerm = (n1 :> 1 @@ n2 :> 0 @@ n3 :> 1)
    /\ votedFor = (n1 :> n1 @@ n2 :> Nil @@ n3 :> n1)
    /\ state = (n1 :> Leader @@ n2 :> Follower @@ n3 :> Follower)
    /\ leaderID = (n1 :> n1 @@ n2 :> Nil @@ n3 :> Nil)
    /\ log = [n \in Node |-> EmptyLog]
    /\ votes = (n1 :> {<<1, n3>>} @@ n2 :> {} @@ n3 :> {})
    /\ grants = {<<n1, 1, n1>>, <<n3, 1, n1>>}
    /\ elected = {<<1, n1>>}
    /\ nextIndex = [n \in Node |-> [p \in Node |-> IF n = n1 THEN 1 ELSE 0]]
    /\ leaderLog = [t \in Term |-> EmptyLog]
    /\ acks = {}
    /\ NoMatch
    /\ Quiet

\* Two leaders with conflicting entries (the paper's Figure 8).  n1 was elected
\* for term 1 by both others and accepted a command; n2 for term 2 by n3, and
\* accepted one too; every AppendEntries call so far was lost.  n1 learnt of
\* term 2 and was elected for term 3 by n3, which rejected its first heartbeat
\* and then took over the entry of term 1; n1 has just accepted another one.
InitSplit ==
    /\ currentTerm = (n1 :> 3 @@ n2 :> 2 @@ n3 :> 3)
    /\ votedFor = (n1 :> n1 @@ n2 :> n2 @@ n3 :> n1)
    /\ state = (n1 :> Leader @@ n2 :> Leader @@ n3 :> Follower)
    /\ leaderID = (n1 :> n1 @@ n2 :> n2 @@ n3 :> n1)
    /\ \E c \in Cmd :
         LET Old == EmptyLog \o <<[term |-> 1, index |-> 1, cmd |-> c]>>
         IN  /\ log = (   n1 :> Old \o <<[term |-> 3, index |-> 2, cmd |-> c]>>
                       @@ n2 :> EmptyLog \o <<[term |-> 2, index |-> 1, cmd |-> c]>>
                       @@ n3 :> Old)
             /\ leaderLog = [t \in Term |-> IF t = 1 THEN Old ELSE LatestOf(t)]
    /\ acks = {<<n3, 3, 1>>}
    /\ votes = (n1 :> {<<1, n3>>} @@ n2 :> {<<1, n3>>} @@ n3 :> {})
    /\ grants = {<<n1, 1, n1>>, <<n2, 1, n1>>, <<n3, 1, n1>>, <<n2, 2, n2>>, <<n3, 2, n2>>,
                 <<n1, 3, n1>>, <<n3, 3, n1>>}
    /\ elected = {<<1, n1>>, <<2, n2>>, <<3, n1>>}
    /\ nextIndex = (   n1 :> [p \in Node |-> 2]
                    @@ n2 :> [p \in Node |-> 1]
                    @@ n3 :> [p \in Node |-> 0])
    /\ matchIndex = [n \in Node |-> [p \in Node |-> IF n = n1 /\ p = n3 THEN 1 ELSE 0]]
    /\ Quiet

\* The same up to n1's first heartbeat of term 3, which n3 rejected; and n2
\* lost its quorum and stepped down.
InitDeposed ==
    /\ currentTerm = (n1 :> 3 @@ n2 :> 2 @@ n3 :> 3)
    /\ votedFor = (n1 :> n1 @@ n2 :> Nil @@ n3 :> n1)
    /\ state = (n1 :> Leader @@ n2 :> Follower @@ n3 :> Follower)
    /\ leaderID = (n1 :> n1 @@ n2 :> Nil @@ n3 :> n1)
    /\ \E c \in Cmd :
         log = (   n1 :> EmptyLog \o <<[term |-> 1, index |-> 1, cmd |-> c]>>
                @@ n2 :> EmptyLog \o <<[term |-> 2, index |-> 1, cmd |-> c]>>
                @@ n3 :> EmptyLog)
    /\ leaderLog = [t \in Term |-> IF t = 1 THEN log[n1] ELSE LatestOf(t)]
    /\ acks = {}
    /\ votes = (n1 :> {<<1, n3>>} @@ n2 :> {<<1, n3>>} @@ n3 :> {})
    /\ grants = {<<n1, 1, n1>>, <<n2, 1, n1>>, <<n3, 1, n1>>, <<n2, 2, n2>>, <<n3, 2, n2>>,
                 <<n1, 3, n1>>, <<n3, 3, n1>>}
    /\ elected = {<<1, n1>>, <<2, n2>>, <<3, n1>>}
    /\ nextIndex = (   n1 :> (n1 :> 2 @@ n2 :> 2 @@ n3 :> 1)
                    @@ n2 :> [p \in Node |-> 1]
                    @@ n3 :> [p \in Node |-> 0])
    /\ NoMatch
    /\ Quiet

\* n1 was elected for term 1 by both others and accepted three commands; the
\* calls with the first one reached both, the rest and all answers were lost.
\* n3 then elected n2 for term 2.
InitStale ==
    /\ currentTerm = (n1 :> 1 @@ n2 :> 2 @@ n3 :> 2)
    /\ votedFor = (n1 :> n1 @@ n2 :> n2 @@ n3 :> n2)
    /\ state = (n1 :> Leader @@ n2 :> Leader @@ n3 :> Follower)
    /\ leaderID = (n1 :> n1 @@ n2 :> n2 @@ n3 :> Nil)
    /\ \E c \in Cmd :
         LET Accepted(k) == EmptyLog \o [i \in 1 .. k |-> [term |-> 1, index |-> i, cmd |-> c]]
         IN  /\ log = (n1 :> Accepted(3) @@ n2 :> Accepted(1) @@ n3 :> Accepted(1))
             /\ leaderLog = [t \in Term |-> IF t = 1 THEN Accepted(3) ELSE LatestOf(t)]
    /\ acks = {<<n2, 1, 1>>, <<n3, 1, 1>>}
    /\ votes = (n1 :> {<<1, n2>>} @@ n2 :> {<<1, n3>>} @@ n3 :> {})
    /\ grants = {<<n1, 1, n1>>, <<n2, 1, n1>>, <<n3, 1, n1>>, <<n2, 2, n2>>, <<n3, 2, n2>>}
    /\ elected = {<<1, n1>>, <<2, n2>>}
    /\ nextIndex = (   n1 :> [p \in Node |-> 1]
                    @@ n2 :> [p \in Node |-> 2]
                    @@ n3 :> [p \in Node |-> 0])
    /\ NoMatch
    /\ Quiet

SpecLed == InitLed /\ [][Next]_raftVars
SpecSplit == InitSplit /\ [][Next]_raftVars
SpecDeposed == InitDeposed /\ [][Next]_raftVars
SpecStale == InitStale /\ [][Next]_raftVars

=============================================================================
