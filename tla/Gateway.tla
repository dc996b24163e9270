------------------------------ MODULE Gateway ------------------------------
(***************************************************************************)
(* The HTTP front of a node (src/cmd/kvstore/main.go) and the clients that *)
(* follow its redirects, on top of the elections of module Election.       *)
(*                                                                         *)
(* A handler asks the node twice, each time under the node's mutex only:   *)
(* State() first and, when that was not Leader, LeaderID().  The node may  *)
(* change its mind in between, and again while the redirected client is on *)
(* its way.  A write that finds a leader goes to Submit (or AddPeer,       *)
(* RemovePeer), which looks at the state a third time.                     *)
(*                                                                         *)
(* A handler whose node restarts under it is taken for a slow one that the *)
(* new process serves; really its client gets an error, and does nothing.  *)
(***************************************************************************)
EXTENDS Election

CONSTANTS
    Client,             \* concurrent write or admin requests
    Known               \* the nodes whose HTTP address PEER_HTTP_ADDRS gives

ASSUME GatewayAssumption == Known \subseteq Node

VARIABLES
    at,                 \* the node a client's request is at
    phase,              \* how far its handler got
    sent                \* the last redirect it followed: target and the term
                        \* the redirecting node was in when it named it

clientVars == <<at, phase, sent>>
gatewayVars == <<electionVars, clientVars>>

NotSent == [term |-> 0, to |-> Nil]

Phases == {"idle", "arrived", "notLeader", "leader", "done"}

GatewayTypeOK ==
    /\ at \in [Client -> Node]
    /\ phase \in [Client -> Phases]
    /\ sent \in [Client -> [term : Term, to : Node \cup {Nil}]]

ClientInit ==
    /\ at \in [Client -> Node]
    /\ phase = [c \in Client |-> "idle"]
    /\ sent = [c \in Client |-> NotSent]

-----------------------------------------------------------------------------

Goto(c, from, to) == phase[c] = from /\ phase' = [phase EXCEPT ![c] = to]

\* A client sends a PUT, DELETE or admin POST to a node of its choice.
Send(c) ==
    /\ Goto(c, "idle", "arrived")
    /\ UNCHANGED <<at, sent, electionVars>>

\* node.State() != raft.Leader
ReadState(c) ==
    /\ Goto(c, "arrived", IF state[at[c]] = Leader THEN "leader" ELSE "notLeader")
    /\ UNCHANGED <<at, sent, electionVars>>

\* node.LeaderID() names a node with a known address: 307, and the client's
\* next request arrives there.
Redirect(c) ==
    LET n == at[c]
    IN  /\ leaderID[n] \in Known
        /\ Goto(c, "notLeader", "arrived")
        /\ at' = [at EXCEPT ![c] = leaderID[n]]
        /\ sent' = [sent EXCEPT ![c] = [term |-> currentTerm[n], to |-> leaderID[n]]]
        /\ UNCHANGED electionVars

\* No leader known (503) or no address for it (500).
Refuse(c) ==
    /\ leaderID[at[c]] \notin Known
    /\ Goto(c, "notLeader", "done")
    /\ UNCHANGED <<at, sent, electionVars>>

\* Submit, AddPeer, RemovePeer: accepted by a node that still leads, else
\* ErrNotLeader.
Execute(c) ==
    /\ Goto(c, "leader", "done")
    /\ IF state[at[c]] = Leader
       THEN OnlyLogChanges(at[c]) /\ SomeLog(at[c])
       ELSE UNCHANGED electionVars
    /\ UNCHANGED <<at, sent>>

GatewayNext ==
    \/ ElectionNext /\ UNCHANGED clientVars
    \/ \E c \in Client : Send(c)
    \/ \E c \in Client : ReadState(c)
    \/ \E c \in Client : Redirect(c)
    \/ \E c \in Client : Refuse(c)
    \/ \E c \in Client : Execute(c)

GatewaySpec == ElectionInit /\ ClientInit /\ [][GatewayNext]_gatewayVars

-----------------------------------------------------------------------------
(* Properties.                                                             *)

\* Redirects make progress: the node that redirects a client again does so in
\* a newer term than the one that sent the client there.  The only exception
\* is a term that elected two nodes, and even then it names the other one, so
\* a client is never bounced back to where it is in the same term.
RedirectsGoForward ==
    [][\A c \in Client :
         (phase[c] = "notLeader" /\ phase'[c] = "arrived" /\ sent[c] # NotSent) =>
            \/ sent'[c].term > sent[c].term
            \/ sent'[c].term = sent[c].term /\ sent'[c].to # sent[c].to]_clientVars

=============================================================================
