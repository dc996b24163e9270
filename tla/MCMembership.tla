---------------------------- MODULE MCMembership ----------------------------
(* Model values for Membership. *)
EXTENDS Membership, TLC

CONSTANTS n1, n2, n3, n4, n5

Four == {n1, n2, n3, n4}
Five == {n1, n2, n3, n4, n5}
Three == {n1, n2, n3}
JustN2 == {n2}
N1AndN2 == {n1, n2}
Nobody == {}

\* Who competes for the term after the first.
Competing == {<<n2, 2>>, <<n3, 2>>}
Apart == {<<n2, 2>>, <<n4, 2>>}

\* n1 stood for term 1 and was elected with the votes of n2 and n3.
InitLed ==
    /\ currentTerm = [n \in Server |-> IF n \in Founders THEN 1 ELSE 0]
    /\ votedFor = [n \in Server |-> IF n \in Founders THEN n1 ELSE Nil]
    /\ log = [n \in Server |-> EmptyLog]
    /\ state = [n \in Server |-> IF n = n1 THEN Leader ELSE Follower]
    /\ commitIndex = [n \in Server |-> 0]
    /\ lastApplied = [n \in Server |-> 0]
    /\ peers = [n \in Server |-> ConfiguredPeers(n)]
    /\ matchIndex = [n \in Server |-> [p \in Server |-> 0]]
    /\ round = [n \in Server |-> NoRound]
    /\ changes = 0
    /\ elected = {<<1, n1>>}
    /\ committed = {}

SpecLed == InitLed /\ [][Next]_vars

=============================================================================
