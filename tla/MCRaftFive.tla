----------------------------- MODULE MCRaftFive -----------------------------
(* Model values for Raft with five nodes. *)
EXTENDS MCRaft

CONSTANTS n4, n5

Five == {n1, n2, n3, n4, n5}

\* n4 was elected for term 1 by n2 and n5 and replicated two entries to n5
\* only.  n1, n2 and n3 then heard nothing more of it, and n1 was elected for
\* term 2 by the other two.
InitStaleSuffix ==
    /\ currentTerm = (n1 :> 2 @@ n2 :> 2 @@ n3 :> 2 @@ n4 :> 1 @@ n5 :> 1)
    /\ votedFor = (n1 :> n1 @@ n2 :> n1 @@ n3 :> n1 @@ n4 :> n4 @@ n5 :> n4)
    /\ state = [n \in Node |-> IF n \in {n1, n4} THEN Leader ELSE Follower]
    /\ leaderID = (n1 :> n1 @@ n2 :> Nil @@ n3 :> Nil @@ n4 :> n4 @@ n5 :> n4)
    /\ \E c \in Cmd :
         log = [n \in Node |->
                  IF n \in {n4, n5}
                  THEN EmptyLog \o [k \in 1 .. 2 |-> [term |-> 1, index |-> k, cmd |-> c]]
                  ELSE EmptyLog]
    /\ leaderLog = [t \in Term |-> IF t = 1 THEN log[n4] ELSE EmptyLog]
    /\ acks = {<<n5, 1, 2>>}
    /\ votes = [n \in Node |-> IF n = n1 THEN {<<1, n2>>, <<1, n3>>}
                               ELSE IF n = n4 THEN {<<1, n2>>, <<1, n5>>} ELSE {}]
    /\ grants = {<<n4, 1, n4>>, <<n2, 1, n4>>, <<n5, 1, n4>>,
                 <<n1, 2, n1>>, <<n2, 2, n1>>, <<n3, 2, n1>>}
    /\ elected = {<<1, n4>>, <<2, n1>>}
    /\ nextIndex = [n \in Node |-> [p \in Node |->
                      IF n = n4 /\ p = n5 THEN 3 ELSE IF n \in {n1, n4} THEN 1 ELSE 0]]
    /\ matchIndex = [n \in Node |-> [p \in Node |-> IF n = n4 /\ p = n5 THEN 2 ELSE 0]]
    /\ Quiet

SpecStaleSuffix == InitStaleSuffix /\ [][Next]_raftVars

=============================================================================
