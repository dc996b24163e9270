----------------------------- MODULE MCPreVote -----------------------------
(* Model values for PreVote. *)
EXTENDS PreVote, TLC

CONSTANTS n1, n2, n3, n4

Four == {n1, n2, n3, n4}
OneLog == {EmptyLog}
JustN1 == {n1}
TwoSteady == {n2, n3}
N2AndN4 == {n2, n4}
N2ForTwo == {<<n2, 2>>}

\* n1 stood for term 1 and was elected by n2 and n3, which have heard its
\* first heartbeat; n4 has heard nothing yet.
InitLed ==
    /\ currentTerm = [n \in Node |-> IF n = n4 THEN 0 ELSE 1]
    /\ votedFor = [n \in Node |-> IF n = n4 THEN Nil ELSE n1]
    /\ state = [n \in Node |-> IF n = n1 THEN Leader ELSE Follower]
    /\ leaderID = [n \in Node |-> IF n = n4 THEN Nil ELSE n1]
    /\ log = [n \in Node |-> EmptyLog]
    /\ disk = [n \in Node |-> [term |-> currentTerm[n], vote |-> votedFor[n]]]
    /\ loaded = [n \in Node |-> TRUE]
    /\ spawned = [n \in Node |-> 0]
    /\ votes = [n \in Node |-> IF n = n1 THEN {<<1, n2>>, <<1, n3>>} ELSE {}]
    /\ requests = {}
    /\ replies = {}
    /\ grants = {<<n1, 1, n1>>, <<n2, 1, n1>>, <<n3, 1, n1>>}
    /\ elected = {<<1, n1>>}
    /\ contact = {n2, n3}
    /\ probe = [n \in Node |-> NoProbe]
    /\ passed = {}

SpecLed == InitLed /\ [][PreVoteNext]_fullVars

=============================================================================
