---------------------------- MODULE MCElection ----------------------------
(* Model values for Election. *)
EXTENDS Election, TLC

CONSTANTS n1, n2, n3

Three == {n1, n2, n3}

OneEntry == EmptyLog \o <<[term |-> 1, index |-> 1, cmd |-> NoCmd]>>

\* Logs only matter through the vote rule: one that may and one that may not
\* win against the other.
TwoLogs == {EmptyLog, OneEntry}
OneLog == {EmptyLog}

TwoStand == {n1, n2} \X (1 .. MaxTerm)

Nobody == {}

\* n1 stood for term 1, n3 voted for it and n1 counted the vote; the request
\* to n2 was lost.
InitLed ==
    /\ currentTerm = (n1 :> 1 @@ n2 :> 0 @@ n3 :> 1)
    /\ votedFor = (n1 :> n1 @@ n2 :> Nil @@ n3 :> n1)
    /\ state = (n1 :> Leader @@ n2 :> Follower @@ n3 :> Follower)
    /\ leaderID = (n1 :> n1 @@ n2 :> Nil @@ n3 :> Nil)
    /\ log = [n \in Node |-> EmptyLog]
    /\ disk = [n \in Node |-> [term |-> currentTerm[n], vote |-> votedFor[n]]]
    /\ loaded = [n \in Node |-> TRUE]
    /\ spawned = [n \in Node |-> 0]
    /\ votes = (n1 :> {<<1, n3>>} @@ n2 :> {} @@ n3 :> {})
    /\ requests = {}
    /\ replies = {}
    /\ grants = {<<n1, 1, n1>>, <<n3, 1, n1>>}
    /\ elected = {<<1, n1>>}

SpecLed == InitLed /\ [][ElectionNext]_electionVars

Symmetry == Permutations({n1, n2})

===========================================================================
