----------------------------- MODULE MCGateway -----------------------------
(* Model values for Gateway. *)
EXTENDS Gateway, TLC

CONSTANTS n1, n2, n3

Three == {n1, n2, n3}
OneLog == {EmptyLog}
JustN1 == {n1}
AllButN3 == {n1, n2}

\* n2 competes with n1 for term 1 and may stand again.
N2Stands == {<<n2, 1>>, <<n2, 2>>}

\* n1 stood for term 1, n3 voted for it and n1 counted the vote; the request
\* to n2 was lost.
InitLed ==
    /\ currentTerm = (n1 :> 1 @@ n2 :> 0 @@ n3 :> 1)
    /\ votedFor = (n1 :> n1 @@ n2 :> Nil @@ n3 :> n1)
    /\ state = (n1 :> Leader @@ n2 :> Follower @@ n3 :> Follower)
    /\ leaderID = (n1 :> n1 @@ n2 :> Nil @@ n3 :> Nil)
    /\ log = [n \in Node |-> EmptyLog]
    /\ disk = [n \in Node |-> [term |-> currentTerm[n], vote |-> votedFor[n]]]
    /\ loaded = [n \in Node |-> TRUE]
    /\ spawned = [n \in Node |-> 0]
    /\ votes = (n1 :> {<<1, n3>>} @@ n2 :> {} @@ n3 :> {})
    /\ requests = {}
    /\ replies = {}
    /\ grants = {<<n1, 1, n1>>, <<n3, 1, n1>>}
    /\ elected = {<<1, n1>>}
    /\ ClientInit

SpecLed == InitLed /\ [][GatewayNext]_gatewayVars

=============================================================================
