------------------------------ MODULE Sidecar ------------------------------
(***************************************************************************)
(* The control server of the dashboard (src/cmd/sidecar/main.go): it       *)
(* creates, stops, restarts, pauses and resumes the containers the nodes   *)
(* run in, and plays scenarios on the live cluster.                        *)
(*                                                                         *)
(* Every request runs in a goroutine of its own.  The mutexes cover single *)
(* reads and writes of the registry and of the set of paused nodes; a      *)
(* handler shells out to docker and polls nodes for seconds in between, so *)
(* handlers interleave at every docker command, also two that work on one  *)
(* node: neither the sidecar nor the dashboard prevents it.  Any docker    *)
(* command may fail, and does when the state of its container forbids it;  *)
(* the rest of docker and the Raft cluster are external.  Which role an    *)
(* answering node reports is the business of module Election, and here it  *)
(* may be any.  The calls on /admin/add-node and /admin/remove-node are    *)
(* the AddPeer and RemovePeer of module Membership: here only whether they *)
(* succeed matters.                                                        *)
(***************************************************************************)
EXTENDS Naturals, SequencesExt

CONSTANTS
    presetNodes,        \* sequence: the nodes of docker-compose.yml, in order
    Dynamic,            \* the other ids a request may name
    Handler,            \* goroutines serving requests
    MaxRequests,        \* bound on the requests made
    Rounds              \* of a leader churn: 3 in the code

Preset == ToSet(presetNodes)
ManagedNode == Preset \cup Dynamic

ASSUME SidecarAssumption ==
    /\ presetNodes \in Seq(Preset) /\ IsInjective(presetNodes)
    /\ Preset \cap Dynamic = {} /\ IsFiniteSet(Dynamic)
    /\ "none" \notin ManagedNode
    /\ MaxRequests \in Nat
    /\ Rounds \in Nat \ {0}

VARIABLES
    nodes,              \* the registry: ids in order, dynamic ones last
    pausedNodes,        \* what the sidecar believes is paused
    container,          \* what docker says of each node's container
    data,               \* preset nodes whose named volume exists
    job,                \* what each handler is doing
    requests,           \* how many were made
    witness,            \* history: the nodes that answered at every moment
                        \* since the handler's request came in
    holds,              \* history: the containers that the handler, playing a
                        \* scenario, paused and has not tried to resume since
    overlapped          \* history: nodes that two requests worked on at once

sidecarVars == <<nodes, pausedNodes, container, data, job, requests, witness,
                 holds, overlapped>>

ContainerStates == {"none", "starting", "running", "paused", "exited"}

Scenarios == {"isolate_leader", "lose_follower", "quorum_loss", "leader_churn"}
NodeActions == {"stop", "pause", "unpause", "restart"}

\* todo: still to be paused; toRestore: still to be resumed, in this order.
Job == [op : Scenarios \cup NodeActions \cup {"create", "none"},
        node : ManagedNode \cup {"none"},
        at : {"idle", "check", "forget", "probe", "clear", "wipe", "up", "run",
              "register", "wait", "join", "down", "rm", "unregister", "find",
              "pause", "flag", "hold", "unpause", "unflag"},
        todo : Seq(ManagedNode), toRestore : Seq(ManagedNode),
        round : 0 .. Rounds, alone : BOOLEAN]

Idle == [op |-> "none", node |-> "none", at |-> "idle", todo |-> <<>>,
         toRestore |-> <<>>, round |-> 0, alone |-> FALSE]

SidecarTypeOK ==
    /\ nodes \in Seq(ManagedNode)
    /\ pausedNodes \subseteq ManagedNode
    /\ container \in [ManagedNode -> ContainerStates]
    /\ data \subseteq Preset
    /\ job \in [Handler -> Job]
    /\ requests \in 0 .. MaxRequests
    /\ witness \in [Handler -> SUBSET ManagedNode]
    /\ holds \in [Handler -> SUBSET ManagedNode]
    /\ overlapped \subseteq ManagedNode

(***************************************************************************)
(* Registry and polling                                                    *)
(***************************************************************************)
Registered(n) == Contains(nodes, n)

\* removeDynamicNode drops the first entry of that id.
removeDynamicNode(n) ==
    nodes' = IF Registered(n) THEN RemoveFirst(nodes, n) ELSE nodes

\* fetchRaftStatus: a node answers within its second when its process is up.
Answers(n) == container[n] = "running"

\* findOnlinePortExcluding finds a port when one of these answers.
Online == {n \in ToSet(nodes) : Answers(n)}
OnlineExcluding(n) == Online \ {n}

\* The nodes a scenario looks at: not marked as paused, and answering.
Visible == SelectSeq(nodes, LAMBDA n : n \notin pausedNodes /\ Answers(n))

(* The history variable, which every action carries along.                 *)
Watch ==
    witness' = [h \in Handler |->
        IF job'[h].op \notin {"create", "restart"} THEN {}
        ELSE IF job[h].at = "idle" THEN Online' \ {job'[h].node}
        ELSE witness[h] \cap Online']

Goto(h, at) == job' = [job EXCEPT ![h].at = at]
Done(h) == job' = [job EXCEPT ![h] = Idle]
At(h, at) == job[h].at = at

\* Nobody holds a container that is no longer paused.
Released(n) == [g \in Handler |-> holds[g] \ {n}]

(***************************************************************************)
(* Requests                                                                *)
(***************************************************************************)
WorkedOn(n) == \E h \in Handler : job[h].node = n

\* handleCreateNode, handleNodeAction: what the request does first.
FirstStep(op, n) ==
    CASE op = "create" -> [at |-> "check", todo |-> <<>>, toRestore |-> <<>>]
      [] op = "pause" -> [at |-> "pause", todo |-> <<n>>, toRestore |-> <<>>]
      [] op = "unpause" \/ (op = "restart" /\ n \in pausedNodes) ->
            [at |-> "unpause", todo |-> <<>>, toRestore |-> <<n>>]
      [] OTHER -> [at |-> "down", todo |-> <<>>, toRestore |-> <<>>]

Request(h, op, n) ==
    LET first == FirstStep(op, n) IN
    /\ At(h, "idle")
    /\ requests < MaxRequests
    /\ op # "create" => Registered(n)
    /\ job' = [job EXCEPT ![h] =
                 [Idle EXCEPT !.op = op, !.node = n, !.at = first.at,
                              !.todo = first.todo, !.toRestore = first.toRestore]]
    /\ requests' = requests + 1
    /\ overlapped' = IF WorkedOn(n) THEN overlapped \cup {n} ELSE overlapped
    /\ UNCHANGED <<nodes, pausedNodes, container, data, holds>>
    /\ Watch

RunScenario(h, op) ==
    /\ At(h, "idle")
    /\ requests < MaxRequests
    /\ job' = [job EXCEPT ![h] = [Idle EXCEPT !.op = op, !.at = "find"]]
    /\ requests' = requests + 1
    /\ UNCHANGED <<nodes, pausedNodes, container, data, holds, overlapped>>
    /\ Watch

(***************************************************************************)
(* Creating a node                                                         *)
(***************************************************************************)
\* The duplicate check: a running node is refused, a silent preset node is
\* started, the entry of a silent dynamic node is dropped next.
CheckDuplicate(h) ==
    LET n == job[h].node IN
    /\ At(h, "check")
    /\ IF Registered(n) /\ Answers(n) THEN Done(h)
       ELSE Goto(h, CASE n \in Preset -> "probe"
                      [] n \in Dynamic /\ Registered(n) -> "forget"
                      [] OTHER -> "run")
    /\ UNCHANGED <<nodes, pausedNodes, container, data, requests, holds, overlapped>>
    /\ Watch

\* The node that was silent is taken for one that was stopped.
DropEntry(h) ==
    /\ At(h, "forget")
    /\ removeDynamicNode(job[h].node)
    /\ Goto(h, "run")
    /\ UNCHANGED <<pausedNodes, container, data, requests, holds, overlapped>>
    /\ Watch

\* Mutant of Probe: the older start path, which always wiped the volume.
ProbeAlwaysClears(h) ==
    /\ At(h, "probe")
    /\ job' = [job EXCEPT ![h].alone = OnlineExcluding(job[h].node) = {},
                          ![h].at = "clear"]
    /\ UNCHANGED <<nodes, pausedNodes, container, data, requests, holds, overlapped>>
    /\ Watch

\* startPresetNode: is there a cluster to join?
Probe(h) ==
    /\ At(h, "probe")
    /\ LET alone == OnlineExcluding(job[h].node) = {} IN
       job' = [job EXCEPT ![h].alone = alone,
                          ![h].at = IF alone THEN "clear" ELSE "up"]
    /\ UNCHANGED <<nodes, pausedNodes, container, data, requests, holds, overlapped>>
    /\ Watch

\* clearNodeData: compose rm -f -s, then volume rm, which needs the
\* container gone.  Neither failure is reported.
RemoveContainer(h) ==
    LET n == job[h].node IN
    /\ At(h, "clear")
    /\ \/ container' = [container EXCEPT ![n] = "none"] /\ holds' = Released(n)
       \/ UNCHANGED <<container, holds>>
    /\ Goto(h, "wipe")
    /\ UNCHANGED <<nodes, pausedNodes, data, requests, overlapped>>
    /\ Watch

RemoveVolume(h) ==
    LET n == job[h].node IN
    /\ At(h, "wipe")
    /\ \/ container[n] = "none" /\ data' = data \ {n}
       \/ UNCHANGED data
    /\ Goto(h, "up")
    /\ UNCHANGED <<nodes, pausedNodes, container, requests, holds, overlapped>>
    /\ Watch

\* docker compose up: the build may fail, a paused container cannot be
\* started, and one that is up stays so.
ComposeUp(h) ==
    LET n == job[h].node IN
    /\ At(h, "up")
    /\ \/ /\ container[n] \in {"none", "exited"}
          /\ container' = [container EXCEPT ![n] = "starting"]
          /\ data' = data \cup {n}
          /\ Goto(h, "wait")
       \/ /\ container[n] \in {"starting", "running"}
          /\ Goto(h, "wait") /\ UNCHANGED <<container, data>>
       \/ Done(h) /\ UNCHANGED <<container, data>>
    /\ UNCHANGED <<nodes, pausedNodes, requests, holds, overlapped>>
    /\ Watch

\* createDynamicNode up to docker run, which needs an image and a free name.
DockerRun(h) ==
    LET n == job[h].node IN
    /\ At(h, "run")
    /\ \/ /\ container[n] = "none"
          /\ container' = [container EXCEPT ![n] = "starting"]
          /\ Goto(h, "register")
       \/ Done(h) /\ UNCHANGED container
    /\ UNCHANGED <<nodes, pausedNodes, data, requests, holds, overlapped>>
    /\ Watch

addDynamicNode(h) ==
    /\ At(h, "register")
    /\ nodes' = Append(nodes, job[h].node)
    /\ Goto(h, "wait")
    /\ UNCHANGED <<pausedNodes, container, data, requests, holds, overlapped>>
    /\ Watch

\* waitForHTTP: the node answers, or thirty seconds pass.  A preset node that
\* found no cluster stops here: a bootstrap node forms one from RAFT_PEERS,
\* for another it is an error.
WaitForHTTP(h) ==
    LET n == job[h].node IN
    /\ At(h, "wait")
    /\ \/ Answers(n) /\ ~job[h].alone /\ Goto(h, "join")
       \/ Done(h)
    /\ UNCHANGED <<nodes, pausedNodes, container, data, requests, holds, overlapped>>
    /\ Watch

\* retryAddNode: until a leader accepts the node, or thirty seconds pass.
RetryAddNode(h) ==
    /\ At(h, "join")
    /\ Done(h)
    /\ UNCHANGED <<nodes, pausedNodes, container, data, requests, holds, overlapped>>
    /\ Watch

(***************************************************************************)
(* Stopping and restarting                                                 *)
(***************************************************************************)
\* Where a stopped node goes: a restart starts it again.
AfterStop(h) ==
    IF job[h].op # "restart" THEN Done(h)
    ELSE Goto(h, IF job[h].node \in Dynamic THEN "run" ELSE "probe")

\* stopNode up to docker stop.  Only compose stop reports that it failed,
\* and remove-node is called first, whatever its outcome.
DockerStop(h) ==
    LET n == job[h].node IN
    /\ At(h, "down")
    /\ \/ /\ container' = [container EXCEPT
                 ![n] = IF @ = "none" THEN "none" ELSE "exited"]
          /\ holds' = Released(n)
          /\ IF n \in Dynamic THEN Goto(h, "rm") ELSE AfterStop(h)
       \/ /\ IF n \in Dynamic THEN Goto(h, "rm") ELSE Done(h)
          /\ UNCHANGED <<container, holds>>
    /\ UNCHANGED <<nodes, pausedNodes, data, requests, overlapped>>
    /\ Watch

\* docker rm, which refuses a container that is not stopped; its failure is
\* not noticed.
DockerRm(h) ==
    LET n == job[h].node IN
    /\ At(h, "rm")
    /\ \/ container[n] = "exited" /\ container' = [container EXCEPT ![n] = "none"]
       \/ UNCHANGED container
    /\ Goto(h, "unregister")
    /\ UNCHANGED <<nodes, pausedNodes, data, requests, holds, overlapped>>
    /\ Watch

\* Mutant of Unregister: stopNode leaves the entry in the registry.
UnregisterNothing(h) ==
    /\ At(h, "unregister")
    /\ AfterStop(h)
    /\ UNCHANGED <<nodes, pausedNodes, container, data, requests, holds, overlapped>>
    /\ Watch

Unregister(h) ==
    /\ At(h, "unregister")
    /\ removeDynamicNode(job[h].node)
    /\ AfterStop(h)
    /\ UNCHANGED <<pausedNodes, container, data, requests, holds, overlapped>>
    /\ Watch

(***************************************************************************)
(* Scenarios                                                               *)
(***************************************************************************)
\* The nodes a scenario may pick from what it sees: a leader or a follower
\* is any one of the answering nodes, a broken quorum the first half of them.
Targets(op) ==
    LET online == Visible
        one == {<<online[i]>> : i \in DOMAIN online}
        half == (Len(online) + 1) \div 2
    IN CASE op = "lose_follower" -> IF Len(online) >= 2 THEN one ELSE {}
         [] op = "quorum_loss" -> IF Len(online) >= 3
                                  THEN {SubSeq(online, 1, half)} ELSE {}
         [] OTHER -> one

\* Some node may be found, or (but for a quorum) none has the wanted role.
\* (A churn looks through the registry as it was when the churn began; here
\* each round does so as it is.)
Find(h) ==
    /\ At(h, "find")
    /\ \/ \E t \in Targets(job[h].op) :
              job' = [job EXCEPT ![h].at = "pause", ![h].todo = t,
                                 ![h].round = @ + 1]
       \/ /\ job[h].op = "quorum_loss" => Targets("quorum_loss") = {}
          /\ Done(h)
    /\ UNCHANGED <<nodes, pausedNodes, container, data, requests, holds, overlapped>>
    /\ Watch

\* Mutant of Abandon: a quorum loss bails out without resuming anything.
AbandonPaused(h) == Done(h)

\* Resume what was paused so far and end: the bail-out of a quorum loss.
Abandon(h) ==
    IF job[h].toRestore = <<>> THEN Done(h)
    ELSE job' = [job EXCEPT ![h].at = "unpause", ![h].todo = <<>>]

\* pauseNode: docker pause works on a running container only, if it works.
DockerPause(h) ==
    LET n == Head(job[h].todo) IN
    /\ At(h, "pause")
    /\ \/ /\ container[n] \in {"starting", "running"}
          /\ container' = [container EXCEPT ![n] = "paused"]
          /\ holds' = IF job[h].op = "pause" THEN holds
                      ELSE [holds EXCEPT ![h] = @ \cup {n}]
          /\ Goto(h, "flag")
       \/ Abandon(h) /\ UNCHANGED <<container, holds>>
    /\ UNCHANGED <<nodes, pausedNodes, data, requests, overlapped>>
    /\ Watch

\* Mutant of SetPaused: a quorum loss remembers only the last node it paused.
SetPausedLast(h) ==
    LET n == Head(job[h].todo) IN
    /\ At(h, "flag")
    /\ pausedNodes' = pausedNodes \cup {n}
    /\ IF job[h].op = "pause" THEN Done(h)
       ELSE job' = [job EXCEPT ![h].todo = Tail(@), ![h].toRestore = <<n>>,
                               ![h].at = IF Len(job[h].todo) > 1 THEN "pause"
                                         ELSE "hold"]
    /\ UNCHANGED <<nodes, container, data, requests, holds, overlapped>>
    /\ Watch

\* setPaused(true), the second half of pauseNode.  An operator's pause ends
\* here, a quorum loss goes on to its next node.
SetPaused(h) ==
    LET n == Head(job[h].todo) IN
    /\ At(h, "flag")
    /\ pausedNodes' = pausedNodes \cup {n}
    /\ IF job[h].op = "pause" THEN Done(h)
       ELSE job' = [job EXCEPT ![h].todo = Tail(@),
                               ![h].toRestore = Append(@, n),
                               ![h].at = IF Len(job[h].todo) > 1 THEN "pause"
                                         ELSE "hold"]
    /\ UNCHANGED <<nodes, container, data, requests, holds, overlapped>>
    /\ Watch

\* The waiting of a scenario.  Whether the new leader showed up or the
\* deadline passed, what was paused is resumed; the deadline also ends a
\* leader churn.
Hold(h) ==
    /\ At(h, "hold")
    /\ \/ Goto(h, "unpause")
       \/ /\ job[h].op = "leader_churn"
          /\ job' = [job EXCEPT ![h].at = "unpause", ![h].round = Rounds]
    /\ UNCHANGED <<nodes, pausedNodes, container, data, requests, holds, overlapped>>
    /\ Watch

\* After one node is resumed: a quorum loss resumes the next, a churn starts
\* its next round unless the resume failed, a restart goes on to stop.
AfterRestore(h, resumed) ==
    CASE job[h].op = "restart" ->
            job' = [job EXCEPT ![h].at = "down", ![h].toRestore = <<>>]
      [] job[h].op # "restart" /\ Len(job[h].toRestore) > 1 ->
            job' = [job EXCEPT ![h].at = "unpause", ![h].toRestore = Tail(@)]
      [] /\ job[h].op = "leader_churn" /\ Len(job[h].toRestore) <= 1
         /\ job[h].round < Rounds /\ resumed ->
            job' = [job EXCEPT ![h].at = "find", ![h].toRestore = <<>>]
      [] OTHER -> Done(h)

\* unpauseNode: docker unpause works on a paused container only, if it
\* works, and a failure leaves the mark where it was.  The node answers again
\* after a while, as one that starts does.
DockerUnpause(h) ==
    LET n == Head(job[h].toRestore) IN
    /\ At(h, "unpause")
    /\ \/ /\ container[n] = "paused"
          /\ container' = [container EXCEPT ![n] = "starting"]
          /\ holds' = Released(n)
          /\ Goto(h, "unflag")
       \/ /\ AfterRestore(h, FALSE)
          /\ holds' = [holds EXCEPT ![h] = @ \ {n}]
          /\ UNCHANGED container
    /\ UNCHANGED <<nodes, pausedNodes, data, requests, overlapped>>
    /\ Watch

ClearPaused(h) ==
    /\ At(h, "unflag")
    /\ pausedNodes' = pausedNodes \ {Head(job[h].toRestore)}
    /\ AfterRestore(h, TRUE)
    /\ UNCHANGED <<nodes, container, data, requests, holds, overlapped>>
    /\ Watch

\* The process in a started or resumed container begins to answer.
Boot(n) ==
    /\ container[n] = "starting"
    /\ container' = [container EXCEPT ![n] = "running"]
    /\ UNCHANGED <<nodes, pausedNodes, data, job, requests, holds, overlapped>>
    /\ Watch

(***************************************************************************)
(* Specification                                                           *)
(***************************************************************************)
\* Between two requests.  A preset node is up or down; a dynamic one does not
\* exist, was created by an earlier request, or was created in an earlier life
\* of the sidecar, whose registry the present one does not have.
SidecarInit ==
    /\ \E dynamic \in SUBSET Dynamic :
          /\ nodes = presetNodes \o SetToSeq(dynamic)
          /\ container \in
                {c \in [ManagedNode -> {"none", "running", "exited"}] :
                    /\ \A n \in Preset : c[n] # "none"
                    /\ \A n \in Dynamic : c[n] # "exited"
                    /\ \A n \in dynamic : c[n] = "running"}
    /\ pausedNodes = {}
    /\ data = Preset
    /\ job = [h \in Handler |-> Idle]
    /\ requests = 0
    /\ witness = [h \in Handler |-> {}]
    /\ holds = [h \in Handler |-> {}]
    /\ overlapped = {}

Advance(h) ==
    \/ CheckDuplicate(h) \/ DropEntry(h)
    \/ Probe(h) \/ RemoveContainer(h) \/ RemoveVolume(h) \/ ComposeUp(h)
    \/ DockerRun(h) \/ addDynamicNode(h) \/ WaitForHTTP(h) \/ RetryAddNode(h)
    \/ DockerStop(h) \/ DockerRm(h) \/ Unregister(h)
    \/ Find(h) \/ DockerPause(h) \/ SetPaused(h) \/ Hold(h)
    \/ DockerUnpause(h) \/ ClearPaused(h)

SidecarNext ==
    \/ \E h \in Handler :
        \/ \E n \in ManagedNode, op \in NodeActions \cup {"create"} :
              Request(h, op, n)
        \/ \E op \in Scenarios : RunScenario(h, op)
        \/ Advance(h)
    \/ \E n \in ManagedNode : Boot(n)

\* Every goroutine is scheduled, every docker command returns and every wait
\* has a deadline; nothing else is promised.
SidecarFairness == \A h \in Handler : WF_sidecarVars(Advance(h))

SidecarSpec ==
    SidecarInit /\ [][SidecarNext]_sidecarVars /\ SidecarFairness

(***************************************************************************)
(* Properties                                                              *)
(***************************************************************************)
(* No scenario forgets what it paused: whatever fails on the way (a pause   *)
(* of a quorum loss, the election it waits for, a resume), and whatever     *)
(* other requests and scenarios do to the same containers, every path out   *)
(* of runScenario has tried to resume every container that the scenario     *)
(* paused.  (One that docker then refuses to resume stays paused.)          *)
NothingLeftPaused ==
    \A h \in Handler : At(h, "idle") => holds[h] = {}

(* And every scenario gets there: a container it paused is resumed, or     *)
(* tried to be, in the end.                                                *)
EveryScenarioRestores ==
    \A h \in Handler : holds[h] # {} ~> holds[h] = {}

\* The registry lists a dynamic node at most once, and only if it has a
\* container.
ListedSoundly(n) ==
    LET entries == {i \in DOMAIN nodes : nodes[i] = n} IN
    entries # {} => (\A i, j \in entries : i = j) /\ container[n] # "none"

(* When no request works on a dynamic node, and no two ever did at once,   *)
(* it is soundly listed: createDynamicNode registers what docker run made, *)
(* stopNode drops what docker rm removed, whichever of the commands fail   *)
(* and also when scenarios pause the container between them.               *)
RegisteredExists ==
    \A n \in Dynamic \ overlapped : ~WorkedOn(n) => ListedSoundly(n)

(* Not so when a restart and a stop of one node overlap: the stop removes  *)
(* the container between docker run and addDynamicNode of the restart      *)
(* (SidecarOverlap.cfg).                                                   *)
ListedWhateverOverlaps ==
    \A n \in Dynamic : ~WorkedOn(n) => ListedSoundly(n)

(* Who wipes the volume of a preset node came with a request during which  *)
(* no other registered node answered all the time: startPresetNode forgets *)
(* a node's term, vote and log only to form a first cluster.               *)
KeepsDataWhileServed ==
    [][\A n \in data \ data' :
          \E h \in Handler : /\ job[h].at = "wipe" /\ job'[h].at = "up"
                             /\ job[h].node = n /\ witness[h] = {}]_sidecarVars

(* What the comment of clearNodeData and the README say instead: the       *)
(* volume is removed before every docker compose up (SidecarWipe.cfg).     *)
EveryStartWipes ==
    [][\A h \in Handler : job[h].at = "up" /\ job'[h].at = "wait" =>
          job[h].node \notin data]_sidecarVars

(* handleCreateNode says of the entry it drops that its node was stopped   *)
(* (SidecarSilent.cfg).                                                    *)
DroppedWasStopped ==
    [][\A h \in Handler : job[h].at = "forget" /\ job'[h].at = "run" =>
          container[job[h].node] \in {"none", "exited"}]_sidecarVars
=============================================================================
