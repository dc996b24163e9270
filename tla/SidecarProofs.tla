--------------------------- MODULE SidecarProofs ---------------------------
(***************************************************************************)
(* The registry of the sidecar and the volumes of the preset nodes, for    *)
(* any number of handlers, nodes and requests: what a handler leaves       *)
(* behind of a node that it had to itself is consistent although it gives  *)
(* up the mutex at every docker command, no cluster that answers loses a   *)
(* node's data, and no scenario ends without trying to resume what it      *)
(* paused.                                                                 *)
(***************************************************************************)
EXTENDS Sidecar, SequenceTheorems, FiniteSetTheorems, WellFoundedInduction, TLAPS

\* The registry lists n at most once.
Once(s, n) == \A i, j \in 1 .. Len(s) : s[i] = n /\ s[j] = n => i = j

\* The fields of a job, and which step belongs to what kind of request.
JobOK(j) ==
    /\ DOMAIN j = {"op", "node", "at", "todo", "toRestore", "round", "alone"}
    /\ j.node \in ManagedNode \cup {"none"}
    /\ j.at = "idle" => j.op = "none"
    /\ j.op \in {"create", "restart"} => j.node \in ManagedNode
    /\ j.at \in {"check", "probe", "clear", "wipe"} => j.op \in {"create", "restart"}
    /\ j.at = "down" => j.node \in ManagedNode
    /\ j.at \in {"probe", "clear", "wipe", "up"} => j.node \in Preset
    /\ j.at \in {"forget", "rm", "unregister", "run", "register"} => j.node \in Dynamic

\* One request at a time works on a node that never saw two.
JobsOK ==
    /\ DOMAIN job = Handler /\ \A h \in Handler : JobOK(job[h])
    /\ \A g, h \in Handler :
          job[g].node \in ManagedNode \ overlapped /\ job[g].node = job[h].node => g = h

\* Of a node that never saw two requests at once: between docker rm and
\* removeDynamicNode its entry has no container; when it is about to be run it
\* is not listed, and when it is about to be registered it has a container.
RegistryOK ==
    /\ nodes \in Seq(ManagedNode) /\ DOMAIN container = ManagedNode
    /\ \A n \in Dynamic \ overlapped :
          /\ Once(nodes, n)
          /\ \/ \E h \in Handler : job[h].node = n /\ job[h].at = "unregister"
             \/ Registered(n) => container[n] # "none"
          /\ \A h \in Handler : job[h].node = n =>
                /\ job[h].at \in {"run", "register"} => ~Registered(n)
                /\ job[h].at = "register" => container[n] # "none"

\* What a handler saw answer all the time still answers, and nobody else did
\* for one that wipes a volume.
WitnessOK ==
    \A h \in Handler :
        /\ witness[h] \subseteq Online \ {job[h].node}
        /\ job[h].at \in {"clear", "wipe"} => witness[h] = {}

SidecarInv == JobsOK /\ RegistryOK /\ WitnessOK

-----------------------------------------------------------------------------
(* removeDynamicNode.                                                      *)

\* A non-empty set of numbers has the minimum that Min chooses.
LEMMA LeastOf ==
    ASSUME NEW S \in SUBSET Nat, S # {}
    PROVE  Min(S) \in S /\ \A x \in S : Min(S) <= x
<1> DEFINE R == {ss \in Nat \X Nat : ss[1] < ss[2]}
<1>1. IsWellFoundedOn(R, Nat)
  BY NatLessThanWellFounded, Zenon DEF OpToRel
<1> HIDE DEF R
<1>2. PICK x \in S : \A y \in S : ~(<<y, x>> \in R)
  BY <1>1, WFMin
<1>3. \A y \in S : x <= y
  <2> SUFFICES ASSUME NEW y \in S, y < x PROVE FALSE
    OBVIOUS
  <2>1. <<y, x>> \in R
    BY Zenon DEF R
  <2> QED
    BY <1>2, <2>1
<1> QED
  BY <1>3 DEF Min

\* Removing the first entry of a node leaves the others, and no entry of it
\* if it was listed once.
LEMMA RemoveFirstFacts ==
    ASSUME NEW S, NEW s \in Seq(S), NEW e, Contains(s, e)
    PROVE  LET r == RemoveFirst(s, e) IN
           /\ r \in Seq(S)
           /\ Once(s, e) => ~Contains(r, e)
           /\ \A n : Contains(r, n) => Contains(s, n)
           /\ \A n : Once(s, n) => Once(r, n)
<1> DEFINE I == {i \in 1 .. Len(s) : s[i] = e}
           k == Min(I)
           r == RemoveFirst(s, e)
<1>0. Len(s) \in Nat
  OBVIOUS
<1>1. I # {} /\ I \in SUBSET Nat
  BY DEF Contains
<1>2. r = RemoveAt(s, k)
  BY <1>1 DEF RemoveFirst, SelectInSeq
<1>3. k \in I
  <2> HIDE DEF I
  <2> QED
    BY <1>1, LeastOf
<1>4. k \in 1 .. Len(s) /\ s[k] = e
  BY <1>3
<1> HIDE DEF k, I, r
<1>5. Once(s, e) => \A i \in 1 .. Len(s) : s[i] = e => i = k
  BY <1>4 DEF Once
<1>6. /\ r \in Seq(S) /\ Len(r) = Len(s) - 1
      /\ \A i \in 1 .. Len(r) : r[i] = IF i < k THEN s[i] ELSE s[i + 1]
  <2> DEFINE a == SubSeq(s, 1, k - 1)
             b == SubSeq(s, k + 1, Len(s))
  <2>1. a \in Seq(S) /\ Len(a) = k - 1 /\ \A i \in 1 .. k - 1 : a[i] = s[i]
    BY <1>0, <1>4
  <2>2. b \in Seq(S) /\ Len(b) = Len(s) - k /\ \A i \in 1 .. Len(s) - k : b[i] = s[k + i]
    BY <1>0, <1>4
  <2>3. r = a \o b
    BY <1>2 DEF RemoveAt
  <2> HIDE DEF a, b
  <2>4. r \in Seq(S) /\ Len(r) = Len(s) - 1
    <3>1. r \in Seq(S) /\ Len(r) = Len(a) + Len(b)
      BY <2>1, <2>2, <2>3
    <3>2. Len(s) \in Nat /\ k \in Nat
      BY <1>0, <1>4
    <3> QED
      BY <2>1, <2>2, <3>1, <3>2
  <2>5. ASSUME NEW i \in 1 .. Len(r) PROVE r[i] = IF i < k THEN s[i] ELSE s[i + 1]
    <3>1. CASE i < k
      BY <1>0, <1>4, <2>1, <2>2, <2>3, <2>4, <3>1
    <3>2. CASE ~(i < k)
      <4>1. i - (k - 1) \in 1 .. Len(s) - k /\ k + (i - (k - 1)) = i + 1
        BY <1>0, <1>4, <2>4, <3>2
      <4>2. r[i] = b[i - (k - 1)]
        BY <1>0, <1>4, <2>1, <2>2, <2>3, <2>4, <3>2
      <4> QED
        BY <2>2, <3>2, <4>1, <4>2
    <3> QED
      BY <3>1, <3>2
  <2> QED
    BY <2>4, <2>5
<1>7. ASSUME NEW i \in 1 .. Len(r)
      PROVE  \E j \in 1 .. Len(s) : r[i] = s[j] /\ j # k /\ j = IF i < k THEN i ELSE i + 1
  BY <1>0, <1>4, <1>6
<1>8. Once(s, e) => ~Contains(r, e)
  BY <1>5, <1>7 DEF Contains
<1>9. \A n : Contains(r, n) => Contains(s, n)
  BY <1>7 DEF Contains
<1>10. ASSUME NEW n, Once(s, n) PROVE Once(r, n)
  <2> SUFFICES ASSUME NEW i \in 1 .. Len(r), NEW j \in 1 .. Len(r), r[i] = n, r[j] = n
               PROVE  i = j
    BY DEF Once
  <2>1. PICK x \in 1 .. Len(s) : r[i] = s[x] /\ x # k /\ x = IF i < k THEN i ELSE i + 1
    BY <1>7
  <2>2. PICK y \in 1 .. Len(s) : r[j] = s[y] /\ y # k /\ y = IF j < k THEN j ELSE j + 1
    BY <1>7
  <2>3. x = y
    BY <1>10, <2>1, <2>2 DEF Once
  <2> QED
    BY <1>4, <1>6, <2>1, <2>2, <2>3
<1> QED
  BY <1>6, <1>8, <1>9, <1>10 DEF r

-----------------------------------------------------------------------------
(* Steps of one handler.                                                   *)

\* A handler that goes on with its node, or is done with it.
LEMMA JobsStep ==
    ASSUME JobsOK, NEW h \in Handler, NEW j, JobOK(j), j.node \in {job[h].node, "none"},
           job' = [job EXCEPT ![h] = j], overlapped' = overlapped
    PROVE  JobsOK'
<1>1. \A g \in Handler : job'[g] = IF g = h THEN j ELSE job[g]
  BY DEF JobsOK
<1>2. DOMAIN job' = Handler /\ \A g \in Handler : JobOK(job'[g])
  BY <1>1 DEF JobsOK
<1>3. "none" \notin ManagedNode
  BY SidecarAssumption
<1>4. ASSUME NEW g \in Handler, NEW k \in Handler,
             job'[g].node \in ManagedNode \ overlapped', job'[g].node = job'[k].node
      PROVE  g = k
  <2>1. job'[g].node = job[g].node /\ job'[k].node = job[k].node
    BY <1>1, <1>3, <1>4
  <2> QED
    BY <1>4, <2>1 DEF JobsOK
<1> QED
  BY <1>2, <1>4 DEF JobsOK, JobOK

\* A step outside the few that add or drop an entry or a container.
LEMMA RegistryKept ==
    ASSUME JobsOK, RegistryOK, NEW h \in Handler, NEW j,
           job' = [job EXCEPT ![h] = j], j.node \in {job[h].node, "none"},
           job[h].at # "unregister", j.at \notin {"unregister", "run", "register"},
           nodes' = nodes, overlapped' = overlapped, DOMAIN container' = ManagedNode,
           \A n \in Dynamic : container'[n] = "none" => container[n] = "none"
    PROVE  RegistryOK'
<1>1. \A g \in Handler : job'[g] = IF g = h THEN j ELSE job[g]
  BY DEF JobsOK
<1>2. \A n \in ManagedNode : Registered(n)' <=> Registered(n)
  BY DEF Registered
<1>3. ASSUME NEW n \in Dynamic \ overlapped
      PROVE  /\ Once(nodes, n)'
             /\ \/ \E g \in Handler : job'[g].node = n /\ job'[g].at = "unregister"
                \/ Registered(n)' => container'[n] # "none"
             /\ \A g \in Handler : job'[g].node = n =>
                   /\ job'[g].at \in {"run", "register"} => ~Registered(n)'
                   /\ job'[g].at = "register" => container'[n] # "none"
  <2>1. Once(nodes, n)'
    BY DEF RegistryOK, Once
  <2>2. n \in ManagedNode
    BY DEF ManagedNode
  <2>3. \/ \E g \in Handler : job'[g].node = n /\ job'[g].at = "unregister"
        \/ Registered(n)' => container'[n] # "none"
    BY <1>1, <1>2, <2>2 DEF RegistryOK
  <2>4. ASSUME NEW g \in Handler, job'[g].node = n
        PROVE  /\ job'[g].at \in {"run", "register"} => ~Registered(n)'
               /\ job'[g].at = "register" => container'[n] # "none"
    BY <1>1, <1>2, <2>2, <2>4 DEF RegistryOK
  <2> QED
    BY <2>1, <2>3, <2>4
<1> QED
  BY <1>3 DEF RegistryOK

\* The witnesses follow the handlers.
LEMMA WitnessStep ==
    ASSUME WitnessOK, Watch,
           \A h \in Handler : job'[h].op \in {"create", "restart"} =>
              job[h].at = "idle" \/ job'[h].node = job[h].node,
           \A h \in Handler : job'[h].at \in {"clear", "wipe"} =>
              \/ job[h].at \in {"clear", "wipe"}
              \/ job[h].at # "idle" /\ OnlineExcluding(job[h].node) = {}
    PROVE  WitnessOK'
<1> SUFFICES ASSUME NEW h \in Handler
             PROVE  /\ witness'[h] \subseteq Online' \ {job'[h].node}
                    /\ job'[h].at \in {"clear", "wipe"} => witness'[h] = {}
  BY DEF WitnessOK
<1>1. witness'[h] = IF job'[h].op \notin {"create", "restart"} THEN {}
                    ELSE IF job[h].at = "idle" THEN Online' \ {job'[h].node}
                    ELSE witness[h] \cap Online'
  BY DEF Watch
<1>2. witness[h] \subseteq Online \ {job[h].node} /\ (job[h].at \in {"clear", "wipe"} => witness[h] = {})
  BY DEF WitnessOK
<1> QED
  BY <1>1, <1>2 DEF OnlineExcluding

\* The handlers and the witnesses after a step of one handler.
LEMMA HandlerStep ==
    ASSUME SidecarInv, Watch, NEW h \in Handler, NEW j, JobOK(j),
           job' = [job EXCEPT ![h] = j], j.node \in {job[h].node, "none"},
           j.at = "wipe" => job[h].at = "clear", overlapped' = overlapped,
           j.at = "clear" => job[h].at # "idle" /\ OnlineExcluding(job[h].node) = {}
    PROVE  JobsOK' /\ WitnessOK'
<1>1. JobsOK /\ WitnessOK
  BY DEF SidecarInv
<1>2. JobsOK'
  BY <1>1, JobsStep
<1>3. \A g \in Handler : job'[g] = IF g = h THEN j ELSE job[g]
  BY <1>1 DEF JobsOK
<1>4. "none" \notin ManagedNode
  BY SidecarAssumption
<1>5. \A g \in Handler : job'[g].op \in {"create", "restart"} =>
         job[g].at = "idle" \/ job'[g].node = job[g].node
  BY <1>3, <1>4 DEF JobOK
<1>6. \A g \in Handler : job'[g].at \in {"clear", "wipe"} =>
         \/ job[g].at \in {"clear", "wipe"}
         \/ job[g].at # "idle" /\ OnlineExcluding(job[g].node) = {}
  BY <1>3
<1>7. WitnessOK'
  BY <1>1, <1>5, <1>6, WitnessStep
<1> QED
  BY <1>2, <1>7

\* A step of one handler that adds or drops neither an entry nor a container
\* keeps the whole invariant.
LEMMA QuietStep ==
    ASSUME SidecarInv, Watch, NEW h \in Handler, NEW j, JobOK(j),
           job' = [job EXCEPT ![h] = j], j.node \in {job[h].node, "none"},
           j.at = "wipe" => job[h].at = "clear",
           j.at = "clear" => job[h].at # "idle" /\ OnlineExcluding(job[h].node) = {},
           job[h].at # "unregister", j.at \notin {"unregister", "run", "register"},
           nodes' = nodes, overlapped' = overlapped, DOMAIN container' = ManagedNode,
           \A n \in Dynamic : container'[n] = "none" => container[n] = "none"
    PROVE  SidecarInv'
<1>1. JobsOK /\ RegistryOK
  BY DEF SidecarInv
<1>2. RegistryOK'
  BY <1>1, RegistryKept
<1> QED
  BY <1>2, HandlerStep DEF SidecarInv

\* What a handler's move leaves of its job: the request and its node.
LEMMA MoveFacts ==
    ASSUME SidecarInv, NEW h \in Handler
    PROVE  /\ JobOK(job[h]) /\ DOMAIN job = Handler /\ JobOK(Idle)
           /\ Idle.at = "idle" /\ Idle.node = "none"
           /\ \A a : LET j == [job[h] EXCEPT !.at = a] IN
                 j.at = a /\ j.op = job[h].op /\ j.node = job[h].node
                 /\ DOMAIN j = DOMAIN job[h]
<1>1. JobOK(job[h]) /\ DOMAIN job = Handler
  BY DEF SidecarInv, JobsOK
<1>2. JobOK(Idle) /\ Idle.at = "idle" /\ Idle.node = "none"
  BY DEF JobOK, Idle
<1>3. DOMAIN job[h] = {"op", "node", "at", "todo", "toRestore", "round", "alone"}
  BY <1>1 DEF JobOK
<1> QED
  BY <1>1, <1>2, <1>3

\* A handler that is done leaves the registry as it is.
LEMMA DoneStep ==
    ASSUME SidecarInv, Watch, NEW h \in Handler, Done(h), job[h].at # "unregister",
           nodes' = nodes, overlapped' = overlapped, DOMAIN container' = ManagedNode,
           \A n \in Dynamic : container'[n] = "none" => container[n] = "none"
    PROVE  SidecarInv'
<1>1. job' = [job EXCEPT ![h] = Idle]
  BY DEF Done
<1>2. JobOK(Idle) /\ Idle.at = "idle" /\ Idle.node = "none"
  BY MoveFacts
<1> HIDE DEF Idle
<1> QED
  BY <1>1, <1>2, QuietStep

\* A handler that goes on to a step its node allows.
LEMMA GotoStep ==
    ASSUME SidecarInv, Watch, NEW h \in Handler, NEW a, job[h].at # "idle",
           job' = [job EXCEPT ![h] = job'[h]], DOMAIN job'[h] = DOMAIN job[h],
           job'[h].at = a, job'[h].op = job[h].op, job'[h].node = job[h].node,
           a \notin {"idle", "check", "rm", "unregister", "run", "register"},
           a = "wipe" => job[h].at = "clear", a = "forget" => job[h].node \in Dynamic,
           a = "clear" => OnlineExcluding(job[h].node) = {},
           a = "down" => job[h].node \in ManagedNode,
           a \in {"probe", "clear", "wipe"} => job[h].op \in {"create", "restart"},
           a \in {"probe", "clear", "wipe", "up"} => job[h].node \in Preset,
           job[h].at # "unregister",
           nodes' = nodes, overlapped' = overlapped, DOMAIN container' = ManagedNode,
           \A n \in Dynamic : container'[n] = "none" => container[n] = "none"
    PROVE  SidecarInv'
<1>1. JobOK(job[h])
  BY MoveFacts
<1>2. PICK j : j = job'[h]
  OBVIOUS
<1>3. JobOK(j)
  BY <1>1, <1>2 DEF JobOK
<1> QED
  BY <1>2, <1>3, QuietStep

-----------------------------------------------------------------------------
(* The actions that only move a handler.                                   *)

\* The waiting steps and the probing.
LEMMA WaitSteps ==
    ASSUME SidecarInv, NEW h \in Handler,
           Probe(h) \/ WaitForHTTP(h) \/ RetryAddNode(h) \/ Hold(h)
    PROVE  SidecarInv'
<1>1. JobOK(job[h]) /\ DOMAIN job = Handler
  BY MoveFacts
<1>2. DOMAIN container = ManagedNode
  BY DEF SidecarInv, RegistryOK
<1>3. DOMAIN job[h] = {"op", "node", "at", "todo", "toRestore", "round", "alone"}
  BY <1>1 DEF JobOK
<1>4. ASSUME Probe(h) PROVE SidecarInv'
  <2>1. /\ job[h].at = "probe" /\ Watch
        /\ overlapped' = overlapped /\ nodes' = nodes /\ container' = container
    BY <1>4 DEF Probe, At
  <2>2. /\ job' = [job EXCEPT ![h] = job'[h]] /\ DOMAIN job'[h] = DOMAIN job[h]
        /\ job'[h].at \in {"clear", "up"}
        /\ job'[h].at = "clear" => OnlineExcluding(job[h].node) = {}
        /\ job'[h].op = job[h].op /\ job'[h].node = job[h].node
    BY <1>1, <1>3, <1>4 DEF Probe
  <2>3. job[h].node \in Preset /\ job[h].op \in {"create", "restart"}
    BY <1>1, <2>1 DEF JobOK
  <2> QED
    BY <1>2, <2>1, <2>2, <2>3, GotoStep
<1>5. ASSUME WaitForHTTP(h) PROVE SidecarInv'
  <2>1. /\ job[h].at = "wait" /\ Watch
        /\ overlapped' = overlapped /\ nodes' = nodes /\ container' = container
        /\ Goto(h, "join") \/ Done(h)
    BY <1>5 DEF WaitForHTTP, At
  <2>2. CASE Goto(h, "join")
    <3>1. /\ job' = [job EXCEPT ![h] = job'[h]] /\ DOMAIN job'[h] = DOMAIN job[h]
          /\ job'[h].at = "join"
          /\ job'[h].op = job[h].op /\ job'[h].node = job[h].node
      BY <1>1, <1>3, <2>2 DEF Goto
    <3> QED
      BY <1>2, <2>1, <3>1, GotoStep
  <2> QED
    BY <1>2, <2>1, <2>2, DoneStep
<1>6. ASSUME RetryAddNode(h) PROVE SidecarInv'
  BY <1>2, <1>6, DoneStep DEF RetryAddNode, At
<1>7. ASSUME Hold(h) PROVE SidecarInv'
  <2>1. /\ job[h].at = "hold" /\ Watch
        /\ overlapped' = overlapped /\ nodes' = nodes /\ container' = container
    BY <1>7 DEF Hold, At
  <2>2. /\ job' = [job EXCEPT ![h] = job'[h]] /\ DOMAIN job'[h] = DOMAIN job[h]
        /\ job'[h].at = "unpause"
        /\ job'[h].op = job[h].op /\ job'[h].node = job[h].node
    BY <1>1, <1>3, <1>7 DEF Hold, Goto
  <2> QED
    BY <1>2, <2>1, <2>2, GotoStep
<1> QED
  BY <1>4, <1>5, <1>6, <1>7

\* What the pausing and resuming steps do to a job.
LEMMA ScenarioMoves ==
    ASSUME SidecarInv, Watch, NEW h \in Handler, job[h].at # "idle",
           job[h].at # "unregister", nodes' = nodes, overlapped' = overlapped,
           DOMAIN container' = ManagedNode,
           \A n \in Dynamic : container'[n] = "none" => container[n] = "none"
    PROVE  /\ Goto(h, "flag") \/ Goto(h, "unflag") => SidecarInv'
           /\ Abandon(h) => SidecarInv'
           /\ \A resumed \in BOOLEAN : AfterRestore(h, resumed) => SidecarInv'
<1>1. JobOK(job[h]) /\ DOMAIN job = Handler
  BY MoveFacts
<1>2. DOMAIN job[h] = {"op", "node", "at", "todo", "toRestore", "round", "alone"}
  BY <1>1 DEF JobOK
<1>3. ASSUME NEW a, a \notin {"idle", "check", "forget", "rm", "unregister", "run",
                              "register", "clear", "wipe", "probe", "up"},
             a = "down" => job[h].node \in ManagedNode,
             job' = [job EXCEPT ![h] = job'[h]], DOMAIN job'[h] = DOMAIN job[h],
             job'[h].at = a, job'[h].op = job[h].op, job'[h].node = job[h].node
      PROVE  SidecarInv'
  BY <1>3, GotoStep
<1>4. Goto(h, "flag") \/ Goto(h, "unflag") => SidecarInv'
  <2> SUFFICES ASSUME NEW a \in {"flag", "unflag"}, Goto(h, a) PROVE SidecarInv'
    OBVIOUS
  <2>1. /\ job' = [job EXCEPT ![h] = job'[h]] /\ DOMAIN job'[h] = DOMAIN job[h]
        /\ job'[h].at = a /\ job'[h].op = job[h].op /\ job'[h].node = job[h].node
    BY <1>1, <1>2 DEF Goto
  <2> QED
    BY <2>1, <1>3
<1>5. Abandon(h) => SidecarInv'
  <2> SUFFICES ASSUME Abandon(h) PROVE SidecarInv'
    OBVIOUS
  <2>1. CASE job' = [job EXCEPT ![h].at = "unpause", ![h].todo = <<>>]
    <3>1. /\ job' = [job EXCEPT ![h] = job'[h]] /\ DOMAIN job'[h] = DOMAIN job[h]
          /\ job'[h].at = "unpause" /\ job'[h].op = job[h].op /\ job'[h].node = job[h].node
      BY <1>1, <1>2, <2>1
    <3> QED
      BY <3>1, <1>3
  <2> QED
    BY <2>1, DoneStep DEF Abandon
<1>6. ASSUME NEW resumed \in BOOLEAN, AfterRestore(h, resumed) PROVE SidecarInv'
  <2>1. \/ job[h].op = "restart" /\ job' = [job EXCEPT ![h].at = "down", ![h].toRestore = <<>>]
        \/ job' = [job EXCEPT ![h].at = "unpause", ![h].toRestore = Tail(@)]
        \/ job' = [job EXCEPT ![h].at = "find", ![h].toRestore = <<>>]
        \/ Done(h)
    BY <1>6 DEF AfterRestore
  <2>2. CASE job[h].op = "restart" /\ job' = [job EXCEPT ![h].at = "down", ![h].toRestore = <<>>]
    <3>1. /\ job' = [job EXCEPT ![h] = job'[h]] /\ DOMAIN job'[h] = DOMAIN job[h]
          /\ job'[h].at = "down" /\ job'[h].op = job[h].op /\ job'[h].node = job[h].node
      BY <1>1, <1>2, <2>2
    <3>2. job[h].node \in ManagedNode
      BY <1>1, <2>2 DEF JobOK
    <3> QED
      BY <3>1, <3>2, <1>3
  <2>3. CASE job' = [job EXCEPT ![h].at = "unpause", ![h].toRestore = Tail(@)]
    <3>1. /\ job' = [job EXCEPT ![h] = job'[h]] /\ DOMAIN job'[h] = DOMAIN job[h]
          /\ job'[h].at = "unpause" /\ job'[h].op = job[h].op /\ job'[h].node = job[h].node
      BY <1>1, <1>2, <2>3
    <3> QED
      BY <3>1, <1>3
  <2>4. CASE job' = [job EXCEPT ![h].at = "find", ![h].toRestore = <<>>]
    <3>1. /\ job' = [job EXCEPT ![h] = job'[h]] /\ DOMAIN job'[h] = DOMAIN job[h]
          /\ job'[h].at = "find" /\ job'[h].op = job[h].op /\ job'[h].node = job[h].node
      BY <1>1, <1>2, <2>4
    <3> QED
      BY <3>1, <1>3
  <2> QED
    BY <2>1, <2>2, <2>3, <2>4, DoneStep
<1> QED
  BY <1>4, <1>5, <1>6

\* The pausing and resuming steps of a request or a scenario.
LEMMA ScenarioSteps ==
    ASSUME SidecarInv, NEW h \in Handler,
           Find(h) \/ DockerPause(h) \/ SetPaused(h) \/ DockerUnpause(h) \/ ClearPaused(h)
    PROVE  SidecarInv'
<1>1. JobOK(job[h]) /\ DOMAIN job = Handler
  BY MoveFacts
<1>2. DOMAIN container = ManagedNode
  BY DEF SidecarInv, RegistryOK
<1>3. DOMAIN job[h] = {"op", "node", "at", "todo", "toRestore", "round", "alone"}
  BY <1>1 DEF JobOK
<1>4. ASSUME Find(h) PROVE SidecarInv'
  <2>1. /\ job[h].at = "find" /\ Watch
        /\ overlapped' = overlapped /\ nodes' = nodes /\ container' = container
    BY <1>4 DEF Find, At
  <2>2. CASE \E t \in Targets(job[h].op) :
              job' = [job EXCEPT ![h].at = "pause", ![h].todo = t, ![h].round = @ + 1]
    <3>1. PICK t \in Targets(job[h].op) :
              job' = [job EXCEPT ![h].at = "pause", ![h].todo = t, ![h].round = @ + 1]
      BY <2>2
    <3>2. /\ job' = [job EXCEPT ![h] = job'[h]] /\ DOMAIN job'[h] = DOMAIN job[h]
          /\ job'[h].at = "pause" /\ job'[h].op = job[h].op /\ job'[h].node = job[h].node
      BY <1>1, <1>3, <3>1
    <3> QED
      BY <1>2, <2>1, <3>2, GotoStep
  <2>3. CASE Done(h)
    BY <1>2, <2>1, <2>3, DoneStep
  <2> QED
    BY <1>4, <2>2, <2>3 DEF Find
<1>5. ASSUME DockerPause(h) PROVE SidecarInv'
  <2>1. /\ job[h].at = "pause" /\ Watch /\ overlapped' = overlapped /\ nodes' = nodes
        /\ Goto(h, "flag") \/ Abandon(h)
    BY <1>5 DEF DockerPause, At
  <2>2. DOMAIN container' = ManagedNode
    BY <1>2, <1>5 DEF DockerPause
  <2>3. \A n \in Dynamic : container'[n] = "none" => container[n] = "none"
    BY <1>2, <1>5 DEF DockerPause, ManagedNode
  <2> QED
    BY <2>1, <2>2, <2>3, ScenarioMoves
<1>6. ASSUME SetPaused(h) PROVE SidecarInv'
  <2>1. /\ job[h].at = "flag" /\ Watch
        /\ overlapped' = overlapped /\ nodes' = nodes /\ container' = container
    BY <1>6 DEF SetPaused, At
  <2>2. CASE Done(h)
    BY <1>2, <2>1, <2>2, DoneStep
  <2>3. CASE ~Done(h)
    <3>1. /\ job' = [job EXCEPT ![h] = job'[h]] /\ DOMAIN job'[h] = DOMAIN job[h]
          /\ job'[h].at \in {"pause", "hold"}
          /\ job'[h].op = job[h].op /\ job'[h].node = job[h].node
      BY <1>1, <1>3, <1>6, <2>3 DEF SetPaused
    <3> QED
      BY <1>2, <2>1, <3>1, GotoStep
  <2> QED
    BY <2>2, <2>3
<1>7. ASSUME DockerUnpause(h) PROVE SidecarInv'
  <2>1. /\ job[h].at = "unpause" /\ Watch /\ overlapped' = overlapped /\ nodes' = nodes
        /\ Goto(h, "unflag") \/ AfterRestore(h, FALSE)
    BY <1>7 DEF DockerUnpause, At
  <2>2. DOMAIN container' = ManagedNode
    BY <1>2, <1>7 DEF DockerUnpause
  <2>3. \A n \in Dynamic : container'[n] = "none" => container[n] = "none"
    BY <1>2, <1>7 DEF DockerUnpause, ManagedNode
  <2> QED
    BY <2>1, <2>2, <2>3, ScenarioMoves
<1>8. ASSUME ClearPaused(h) PROVE SidecarInv'
  <2>1. /\ job[h].at = "unflag" /\ Watch
        /\ overlapped' = overlapped /\ nodes' = nodes /\ container' = container
        /\ AfterRestore(h, TRUE)
    BY <1>8 DEF ClearPaused, At
  <2> QED
    BY <1>2, <2>1, ScenarioMoves
<1> QED
  BY <1>4, <1>5, <1>6, <1>7, <1>8

\* Starting and stopping a preset node, and stopping a dynamic one.
LEMMA PresetSteps ==
    ASSUME SidecarInv, NEW h \in Handler,
           RemoveContainer(h) \/ RemoveVolume(h) \/ ComposeUp(h) \/ DockerStop(h)
    PROVE  SidecarInv'
<1>1. JobOK(job[h]) /\ DOMAIN job = Handler
  BY MoveFacts
<1>2. DOMAIN container = ManagedNode
  BY DEF SidecarInv, RegistryOK
<1>3. DOMAIN job[h] = {"op", "node", "at", "todo", "toRestore", "round", "alone"}
  BY <1>1 DEF JobOK
<1>4. Preset \cap Dynamic = {} /\ Dynamic \subseteq ManagedNode
  BY SidecarAssumption DEF ManagedNode
<1>5. ASSUME NEW a, Goto(h, a)
      PROVE  /\ job' = [job EXCEPT ![h] = job'[h]] /\ DOMAIN job'[h] = DOMAIN job[h]
             /\ job'[h].at = a /\ job'[h].op = job[h].op /\ job'[h].node = job[h].node
  BY <1>1, <1>3, <1>5 DEF Goto
<1>6. ASSUME RemoveContainer(h) \/ RemoveVolume(h) PROVE SidecarInv'
  <2>1. /\ Watch /\ overlapped' = overlapped /\ nodes' = nodes
        /\ \/ job[h].at = "clear" /\ Goto(h, "wipe")
           \/ job[h].at = "wipe" /\ Goto(h, "up")
    BY <1>6 DEF RemoveContainer, RemoveVolume, At
  <2>2. job[h].node \in Preset /\ job[h].op \in {"create", "restart"}
    BY <1>1, <2>1 DEF JobOK
  <2>3. DOMAIN container' = ManagedNode
    BY <1>2, <1>6 DEF RemoveContainer, RemoveVolume
  <2>4. \A n \in Dynamic : container'[n] = "none" => container[n] = "none"
    BY <1>2, <1>4, <1>6, <2>2 DEF RemoveContainer, RemoveVolume
  <2>5. CASE job[h].at = "clear" /\ Goto(h, "wipe")
    BY <1>5, <2>1, <2>2, <2>3, <2>4, <2>5, GotoStep
  <2>6. CASE job[h].at = "wipe" /\ Goto(h, "up")
    BY <1>5, <2>1, <2>2, <2>3, <2>4, <2>6, GotoStep
  <2> QED
    BY <2>1, <2>5, <2>6
<1>7. ASSUME ComposeUp(h) PROVE SidecarInv'
  <2>1. /\ job[h].at = "up" /\ Watch /\ overlapped' = overlapped /\ nodes' = nodes
        /\ Goto(h, "wait") \/ Done(h)
    BY <1>7 DEF ComposeUp, At
  <2>2. DOMAIN container' = ManagedNode
    BY <1>2, <1>7 DEF ComposeUp
  <2>3. \A n \in Dynamic : container'[n] = "none" => container[n] = "none"
    BY <1>2, <1>4, <1>7 DEF ComposeUp
  <2>4. CASE Goto(h, "wait")
    BY <1>5, <2>1, <2>2, <2>3, <2>4, GotoStep
  <2> QED
    BY <2>1, <2>2, <2>3, <2>4, DoneStep
<1>8. ASSUME DockerStop(h) PROVE SidecarInv'
  <2>1. /\ job[h].at = "down" /\ Watch /\ overlapped' = overlapped /\ nodes' = nodes
        /\ \/ job[h].node \in Dynamic /\ Goto(h, "rm")
           \/ job[h].node \notin Dynamic /\ AfterStop(h)
           \/ Done(h)
    BY <1>8 DEF DockerStop, At
  <2>2. job[h].node \in ManagedNode
    BY <1>1, <2>1 DEF JobOK
  <2>3. DOMAIN container' = ManagedNode
    BY <1>2, <1>8 DEF DockerStop
  <2>4. \A n \in Dynamic : container'[n] = "none" => container[n] = "none"
    BY <1>2, <1>4, <1>8 DEF DockerStop
  <2>5. CASE job[h].node \in Dynamic /\ Goto(h, "rm")
    <3>1. PICK j : j = job'[h]
      OBVIOUS
    <3>2. /\ job' = [job EXCEPT ![h] = j] /\ DOMAIN j = DOMAIN job[h]
          /\ j.at = "rm" /\ j.op = job[h].op /\ j.node = job[h].node
      BY <1>5, <2>5, <3>1
    <3>3. JobOK(j)
      BY <1>1, <2>5, <3>2 DEF JobOK
    <3> QED
      BY <2>1, <2>3, <2>4, <3>2, <3>3, QuietStep
  <2>6. CASE Done(h)
    BY <2>1, <2>3, <2>4, <2>6, DoneStep
  <2>7. CASE job[h].node \notin Dynamic /\ AfterStop(h) /\ ~Done(h)
    <3>1. job[h].op = "restart" /\ Goto(h, "probe")
      BY <2>7 DEF AfterStop
    <3>2. job[h].node \in Preset
      BY <2>2, <2>7 DEF ManagedNode
    <3> QED
      BY <1>5, <2>1, <2>3, <2>4, <3>1, <3>2, GotoStep
  <2> QED
    BY <2>1, <2>5, <2>6, <2>7
<1> QED
  BY <1>6, <1>7, <1>8

-----------------------------------------------------------------------------
(* The actions that add or drop an entry or a container.                   *)

\* removeDynamicNode for the node of a handler: whatever the handler does
\* next, but for registering it, finds the node unlisted.
LEMMA DropStep ==
    ASSUME SidecarInv, NEW h \in Handler, NEW j, JobsOK',
           job' = [job EXCEPT ![h] = j], j.node \in {job[h].node, "none"},
           j.at # "register", job[h].node \in Dynamic,
           removeDynamicNode(job[h].node), container' = container, overlapped' = overlapped
    PROVE  RegistryOK'
<1>1. DOMAIN job = Handler /\ JobsOK
  BY DEF SidecarInv, JobsOK
<1>2. nodes \in Seq(ManagedNode) /\ DOMAIN container = ManagedNode
  BY DEF SidecarInv, RegistryOK
<1>3. PICK n \in Dynamic : n = job[h].node
  OBVIOUS
<1>4. n \in ManagedNode /\ "none" # n
  BY SidecarAssumption DEF ManagedNode
<1>5. /\ nodes' \in Seq(ManagedNode)
      /\ n \notin overlapped => ~Contains(nodes', n)
      /\ \A m : Contains(nodes', m) => Contains(nodes, m)
      /\ \A m : Once(nodes, m) => Once(nodes', m)
  <2>1. CASE Contains(nodes, n)
    <3>1. nodes' = RemoveFirst(nodes, n)
      BY <1>3, <2>1 DEF removeDynamicNode, Registered
    <3>2. n \notin overlapped => Once(nodes, n)
      BY DEF SidecarInv, RegistryOK
    <3> QED
      BY <1>2, <2>1, <3>1, <3>2, RemoveFirstFacts
  <2>2. CASE ~Contains(nodes, n)
    <3>1. nodes' = nodes
      BY <1>3, <2>2 DEF removeDynamicNode, Registered
    <3> QED
      BY <1>2, <2>2, <3>1
  <2> QED
    BY <2>1, <2>2
<1>6. \A g \in Handler : job'[g] = IF g = h THEN j ELSE job[g]
  BY <1>1
<1>7. n \notin overlapped => \A g \in Handler : job[g].node = n => g = h
  BY <1>1, <1>3, <1>4 DEF JobsOK
<1>8. ASSUME NEW m \in Dynamic \ overlapped
      PROVE  /\ Once(nodes', m)
             /\ \/ \E g \in Handler : job'[g].node = m /\ job'[g].at = "unregister"
                \/ Contains(nodes', m) => container[m] # "none"
             /\ \A g \in Handler : job'[g].node = m =>
                   /\ job'[g].at \in {"run", "register"} => ~Contains(nodes', m)
                   /\ job'[g].at = "register" => container[m] # "none"
  <2>1. /\ Once(nodes, m)
        /\ \/ \E g \in Handler : job[g].node = m /\ job[g].at = "unregister"
           \/ Contains(nodes, m) => container[m] # "none"
        /\ \A g \in Handler : job[g].node = m =>
              /\ job[g].at \in {"run", "register"} => ~Contains(nodes, m)
              /\ job[g].at = "register" => container[m] # "none"
    BY DEF SidecarInv, RegistryOK, Registered
  <2>2. CASE m = n
    BY <1>5, <1>6, <1>7, <2>1, <2>2
  <2>3. CASE m # n
    <3>1. "none" # m
      BY SidecarAssumption DEF ManagedNode
    <3> QED
      BY <1>3, <1>5, <1>6, <2>1, <2>3, <3>1
  <2> QED
    BY <2>2, <2>3
<1> QED
  BY <1>2, <1>5, <1>8 DEF RegistryOK, Registered

\* stopNode drops the entry after docker rm.
LEMMA UnregisterStep ==
    ASSUME SidecarInv, NEW h \in Handler, Unregister(h)
    PROVE  SidecarInv'
<1>1. JobOK(job[h]) /\ DOMAIN job = Handler /\ JobOK(Idle)
      /\ Idle.at = "idle" /\ Idle.node = "none"
  BY MoveFacts
<1>2. DOMAIN job[h] = {"op", "node", "at", "todo", "toRestore", "round", "alone"}
  BY <1>1 DEF JobOK
<1>3. /\ job[h].at = "unregister" /\ Watch
      /\ overlapped' = overlapped /\ container' = container
      /\ removeDynamicNode(job[h].node) /\ AfterStop(h)
  BY DEF Unregister, At
<1>4. job[h].node \in Dynamic
  BY <1>1, <1>3 DEF JobOK
<1>5. Done(h) \/ Goto(h, "run")
  BY <1>3, <1>4 DEF AfterStop
<1> HIDE DEF Idle
<1>6. PICK j : /\ job' = [job EXCEPT ![h] = j] /\ JobOK(j)
               /\ j.node \in {job[h].node, "none"} /\ j.at \in {"idle", "run"}
  <2>1. CASE Done(h)
    BY <1>1, <2>1 DEF Done
  <2>2. CASE Goto(h, "run")
    <3>1. /\ job' = [job EXCEPT ![h] = job'[h]] /\ DOMAIN job'[h] = DOMAIN job[h]
          /\ job'[h].at = "run" /\ job'[h].op = job[h].op /\ job'[h].node = job[h].node
      BY <1>1, <1>2, <2>2 DEF Goto
    <3>2. JobOK(job'[h])
      BY <1>1, <1>4, <3>1 DEF JobOK
    <3> QED
      BY <3>1, <3>2
  <2> QED
    BY <1>5, <2>1, <2>2
<1>7. JobsOK' /\ WitnessOK'
  BY <1>3, <1>6, HandlerStep
<1>8. RegistryOK'
  BY <1>3, <1>4, <1>6, <1>7, DropStep
<1> QED
  BY <1>7, <1>8 DEF SidecarInv

\* docker run, the entry it gets, and docker rm: unless requests overlapped
\* on it, each is the node's only request, and the others see a registry that
\* does not change for them.
LEMMA OwnNodeStep ==
    ASSUME SidecarInv, Watch, NEW h \in Handler, NEW n \in Dynamic, NEW j, JobOK(j),
           job' = [job EXCEPT ![h] = j], job[h].node = n, j.node = n,
           j.at \notin {"clear", "wipe"}, overlapped' = overlapped,
           nodes' \in Seq(ManagedNode), DOMAIN container' = ManagedNode,
           \A m \in (Dynamic \ overlapped) \ {n} :
              /\ container'[m] = container[m]
              /\ Once(nodes', m) /\ (Contains(nodes', m) <=> Contains(nodes, m)),
           n \notin overlapped =>
              /\ Once(nodes', n)
              /\ j.at = "unregister" \/ (Contains(nodes', n) => container'[n] # "none")
              /\ j.at \in {"run", "register"} => ~Contains(nodes', n)
              /\ j.at = "register" => container'[n] # "none"
    PROVE  SidecarInv'
<1>1. DOMAIN job = Handler /\ JobsOK
  BY DEF SidecarInv, JobsOK
<1>2. JobsOK' /\ WitnessOK'
  BY HandlerStep
<1>3. \A g \in Handler : job'[g] = IF g = h THEN j ELSE job[g]
  BY <1>1
<1>4. n \in ManagedNode
  BY DEF ManagedNode
<1>5. n \notin overlapped => \A g \in Handler : job[g].node = n => g = h
  BY <1>1, <1>4 DEF JobsOK
<1>6. ASSUME NEW m \in Dynamic \ overlapped
      PROVE  /\ Once(nodes', m)
             /\ \/ \E g \in Handler : job'[g].node = m /\ job'[g].at = "unregister"
                \/ Contains(nodes', m) => container'[m] # "none"
             /\ \A g \in Handler : job'[g].node = m =>
                   /\ job'[g].at \in {"run", "register"} => ~Contains(nodes', m)
                   /\ job'[g].at = "register" => container'[m] # "none"
  <2>1. CASE m = n
    BY <1>3, <1>5, <2>1
  <2>2. CASE m # n
    <3>1. /\ \/ \E g \in Handler : job[g].node = m /\ job[g].at = "unregister"
             \/ Contains(nodes, m) => container[m] # "none"
          /\ \A g \in Handler : job[g].node = m =>
                /\ job[g].at \in {"run", "register"} => ~Contains(nodes, m)
                /\ job[g].at = "register" => container[m] # "none"
      BY DEF SidecarInv, RegistryOK, Registered
    <3>2. /\ container'[m] = container[m] /\ Once(nodes', m)
          /\ (Contains(nodes', m) <=> Contains(nodes, m))
      BY <2>2
    <3> QED
      BY <1>3, <2>2, <3>1, <3>2
  <2> QED
    BY <2>1, <2>2
<1>7. RegistryOK'
  BY <1>6 DEF RegistryOK, Registered
<1> QED
  BY <1>2, <1>7 DEF SidecarInv

\* The duplicate check only decides where the handler goes.
LEMMA CheckStep ==
    ASSUME SidecarInv, NEW h \in Handler, CheckDuplicate(h)
    PROVE  SidecarInv'
<1>1. JobOK(job[h]) /\ DOMAIN job = Handler
  BY MoveFacts
<1>2. nodes \in Seq(ManagedNode) /\ DOMAIN container = ManagedNode
  BY DEF SidecarInv, RegistryOK
<1>3. DOMAIN job[h] = {"op", "node", "at", "todo", "toRestore", "round", "alone"}
  BY <1>1 DEF JobOK
<1>4. PICK n : n = job[h].node
  OBVIOUS
<1>5. /\ job[h].at = "check" /\ Watch /\ container' = container /\ nodes' = nodes
      /\ overlapped' = overlapped
      /\ \/ Done(h)
         \/ n \in Preset /\ Goto(h, "probe")
         \/ n \in Dynamic /\ Goto(h, "forget")
         \/ n \notin Preset /\ ~(n \in Dynamic /\ Registered(n)) /\ Goto(h, "run")
  BY <1>4 DEF CheckDuplicate, At
<1>6. job[h].op \in {"create", "restart"} /\ n \in ManagedNode
  BY <1>1, <1>4, <1>5 DEF JobOK
<1>7. ASSUME NEW a, Goto(h, a)
      PROVE  /\ job' = [job EXCEPT ![h] = job'[h]] /\ DOMAIN job'[h] = DOMAIN job[h]
             /\ job'[h].at = a /\ job'[h].op = job[h].op /\ job'[h].node = job[h].node
  BY <1>1, <1>3, <1>7 DEF Goto
<1>8. CASE Done(h)
  BY <1>2, <1>5, <1>8, DoneStep
<1>9. CASE n \in Preset /\ Goto(h, "probe")
  BY <1>2, <1>4, <1>5, <1>6, <1>7, <1>9, GotoStep
<1>10. CASE n \in Dynamic /\ Goto(h, "forget")
  BY <1>2, <1>4, <1>5, <1>6, <1>7, <1>10, GotoStep
<1>11. CASE n \notin Preset /\ ~(n \in Dynamic /\ Registered(n)) /\ Goto(h, "run")
  <2>1. n \in Dynamic /\ ~Contains(nodes, n)
    BY <1>6, <1>11 DEF ManagedNode, Registered
  <2>2. PICK j : j = job'[h]
    OBVIOUS
  <2>3. /\ job' = [job EXCEPT ![h] = j] /\ DOMAIN j = DOMAIN job[h]
        /\ j.at = "run" /\ j.op = job[h].op /\ j.node = n
    BY <1>4, <1>7, <1>11, <2>2
  <2>4. JobOK(j)
    BY <1>1, <1>4, <2>1, <2>3 DEF JobOK
  <2>5. \A m \in Dynamic \ overlapped : Once(nodes, m)
    BY DEF SidecarInv, RegistryOK
  <2> QED
    BY <1>2, <1>4, <1>5, <2>1, <2>3, <2>4, <2>5, OwnNodeStep
<1> QED
  BY <1>5, <1>8, <1>9, <1>10, <1>11

\* The entry of a silent dynamic node is dropped.
LEMMA DropEntryStep ==
    ASSUME SidecarInv, NEW h \in Handler, DropEntry(h)
    PROVE  SidecarInv'
<1>1. JobOK(job[h]) /\ DOMAIN job = Handler
  BY MoveFacts
<1>2. DOMAIN job[h] = {"op", "node", "at", "todo", "toRestore", "round", "alone"}
  BY <1>1 DEF JobOK
<1>3. /\ job[h].at = "forget" /\ Watch /\ container' = container
      /\ overlapped' = overlapped
      /\ removeDynamicNode(job[h].node) /\ Goto(h, "run")
  BY DEF DropEntry, At
<1>4. job[h].node \in Dynamic
  BY <1>1, <1>3 DEF JobOK
<1>5. PICK j : j = job'[h]
  OBVIOUS
<1>6. /\ job' = [job EXCEPT ![h] = j] /\ DOMAIN j = DOMAIN job[h]
      /\ j.at = "run" /\ j.op = job[h].op /\ j.node = job[h].node
  BY <1>1, <1>2, <1>3, <1>5 DEF Goto
<1>7. JobOK(j)
  BY <1>1, <1>4, <1>6 DEF JobOK
<1>8. JobsOK' /\ WitnessOK'
  BY <1>3, <1>6, <1>7, HandlerStep
<1>9. RegistryOK'
  BY <1>3, <1>4, <1>6, <1>8, DropStep
<1> QED
  BY <1>8, <1>9 DEF SidecarInv

\* Creating and removing a container of a dynamic node, and registering it.
LEMMA DynamicSteps ==
    ASSUME SidecarInv, NEW h \in Handler,
           DockerRun(h) \/ addDynamicNode(h) \/ DockerRm(h)
    PROVE  SidecarInv'
<1>1. JobOK(job[h]) /\ DOMAIN job = Handler
  BY MoveFacts
<1>2. nodes \in Seq(ManagedNode) /\ DOMAIN container = ManagedNode
  BY DEF SidecarInv, RegistryOK
<1>3. DOMAIN job[h] = {"op", "node", "at", "todo", "toRestore", "round", "alone"}
  BY <1>1 DEF JobOK
<1>4. Dynamic \subseteq ManagedNode
  BY DEF ManagedNode
<1>5. ASSUME NEW a, Goto(h, a)
      PROVE  /\ job' = [job EXCEPT ![h] = job'[h]] /\ DOMAIN job'[h] = DOMAIN job[h]
             /\ job'[h].at = a /\ job'[h].op = job[h].op /\ job'[h].node = job[h].node
  BY <1>1, <1>3, <1>5 DEF Goto
<1>6. PICK n : n = job[h].node
  OBVIOUS
<1>7. job[h].at \in {"run", "register", "rm"}
  BY DEF DockerRun, addDynamicNode, DockerRm, At
<1>8. n \in Dynamic /\ n \in ManagedNode
  BY <1>1, <1>4, <1>6, <1>7 DEF JobOK
<1>9. \A m \in Dynamic \ overlapped : Once(nodes, m)
  BY DEF SidecarInv, RegistryOK
<1>10. n \notin overlapped =>
          /\ job[h].at \in {"run", "register"} => ~Contains(nodes, n)
          /\ job[h].at = "register" => container[n] # "none"
  BY <1>6, <1>8 DEF SidecarInv, RegistryOK, Registered
<1>11. ASSUME NEW a \in {"register", "wait", "unregister"}, Goto(h, a)
       PROVE  \E j : /\ job' = [job EXCEPT ![h] = j] /\ JobOK(j)
                     /\ j.node = n /\ j.at = a
  <2>1. /\ job' = [job EXCEPT ![h] = job'[h]] /\ DOMAIN job'[h] = DOMAIN job[h]
        /\ job'[h].at = a /\ job'[h].op = job[h].op /\ job'[h].node = n
    BY <1>5, <1>6, <1>11
  <2>2. JobOK(job'[h])
    BY <1>1, <1>6, <1>8, <1>11, <2>1 DEF JobOK
  <2> QED
    BY <2>1, <2>2
<1>12. ASSUME DockerRun(h) PROVE SidecarInv'
  <2>1. job[h].at = "run" /\ Watch /\ overlapped' = overlapped /\ nodes' = nodes
    BY <1>12 DEF DockerRun, At
  <2>2. CASE Done(h) /\ container' = container
    BY <1>2, <2>1, <2>2, DoneStep
  <2>3. CASE container' = [container EXCEPT ![n] = "starting"] /\ Goto(h, "register")
    <3>1. PICK j : /\ job' = [job EXCEPT ![h] = j] /\ JobOK(j)
                   /\ j.node = n /\ j.at = "register"
      BY <1>11, <2>3
    <3>2. DOMAIN container' = ManagedNode /\ container'[n] = "starting"
          /\ \A m \in Dynamic \ {n} : container'[m] = container[m]
      BY <1>2, <1>4, <1>8, <2>3
    <3> QED
      BY <1>2, <1>6, <1>8, <1>9, <1>10, <2>1, <3>1, <3>2, OwnNodeStep
  <2> QED
    BY <1>6, <1>12, <2>2, <2>3 DEF DockerRun
<1>13. ASSUME addDynamicNode(h) PROVE SidecarInv'
  <2>1. /\ job[h].at = "register" /\ Watch
        /\ overlapped' = overlapped /\ container' = container
        /\ nodes' = Append(nodes, n) /\ Goto(h, "wait")
    BY <1>6, <1>13 DEF addDynamicNode, At
  <2>2. PICK j : /\ job' = [job EXCEPT ![h] = j] /\ JobOK(j)
                 /\ j.node = n /\ j.at = "wait"
    BY <1>11, <2>1
  <2>3. /\ nodes' \in Seq(ManagedNode) /\ Len(nodes') = Len(nodes) + 1 /\ Len(nodes) \in Nat
        /\ \A i \in 1 .. Len(nodes') : nodes'[i] = IF i = Len(nodes) + 1 THEN n ELSE nodes[i]
    BY <1>2, <1>8, <2>1
  <2>4. ASSUME NEW m \in (Dynamic \ overlapped) \ {n}
        PROVE  Once(nodes', m) /\ (Contains(nodes', m) <=> Contains(nodes, m))
    <3>1. Once(nodes', m)
      BY <1>9, <2>3 DEF Once
    <3>2. Contains(nodes', m) <=> Contains(nodes, m)
      BY <2>3 DEF Contains
    <3> QED
      BY <3>1, <3>2
  <2>5. n \notin overlapped => Once(nodes', n)
    <3>1. n \notin overlapped => \A i \in 1 .. Len(nodes) : nodes[i] # n
      BY <1>10, <2>1 DEF Contains
    <3> QED
      BY <2>3, <3>1 DEF Once
  <2>6. n \notin overlapped => container[n] # "none"
    BY <1>10, <2>1
  <2> QED
    BY <1>2, <1>6, <1>8, <2>1, <2>2, <2>3, <2>4, <2>5, <2>6, OwnNodeStep
<1>14. ASSUME DockerRm(h) PROVE SidecarInv'
  <2>1. /\ job[h].at = "rm" /\ Watch
        /\ overlapped' = overlapped /\ nodes' = nodes /\ Goto(h, "unregister")
        /\ container' = container \/ container' = [container EXCEPT ![n] = "none"]
    BY <1>6, <1>14 DEF DockerRm, At
  <2>2. PICK j : /\ job' = [job EXCEPT ![h] = j] /\ JobOK(j)
                 /\ j.node = n /\ j.at = "unregister"
    BY <1>11, <2>1
  <2>3. DOMAIN container' = ManagedNode
        /\ \A m \in Dynamic \ {n} : container'[m] = container[m]
    BY <1>2, <1>4, <2>1
  <2> QED
    BY <1>2, <1>6, <1>8, <1>9, <2>1, <2>2, <2>3, OwnNodeStep
<1> QED
  BY <1>12, <1>13, <1>14

-----------------------------------------------------------------------------
(* Requests and nodes that begin to answer.                                *)

\* A new request: on a node that another request works on, the two overlap.
LEMMA RequestStep ==
    ASSUME SidecarInv, NEW h \in Handler, NEW n \in ManagedNode,
           NEW op \in NodeActions \cup {"create"}, Request(h, op, n)
    PROVE  SidecarInv'
<1>1. JobOK(job[h]) /\ DOMAIN job = Handler
  BY MoveFacts
<1>2. PICK first : first = FirstStep(op, n)
  OBVIOUS
<1>3. /\ first.at \in {"check", "pause", "unpause", "down"}
      /\ first.at = "check" => op = "create"
  BY <1>2 DEF FirstStep
<1>4. PICK j : /\ job' = [job EXCEPT ![h] = j]
               /\ j = [Idle EXCEPT !.op = op, !.node = n, !.at = first.at,
                              !.todo = first.todo, !.toRestore = first.toRestore]
  BY <1>2 DEF Request
<1>5. /\ DOMAIN j = {"op", "node", "at", "todo", "toRestore", "round", "alone"}
      /\ j.op = op /\ j.node = n /\ j.at = first.at
  BY <1>4 DEF Idle
<1>6. JobOK(j)
  BY <1>3, <1>5 DEF JobOK
<1>7. /\ job[h].at = "idle" /\ Watch /\ nodes' = nodes /\ container' = container
      /\ overlapped \subseteq overlapped'
      /\ n \notin overlapped' => \A g \in Handler : job[g].node # n
  BY DEF Request, At, WorkedOn
<1>8. \A g \in Handler : job'[g] = IF g = h THEN j ELSE job[g]
  BY <1>1, <1>4
<1>9. JobsOK'
  <2>1. DOMAIN job' = Handler /\ \A g \in Handler : JobOK(job'[g])
    BY <1>1, <1>4, <1>6, <1>8 DEF SidecarInv, JobsOK
  <2>2. ASSUME NEW g \in Handler, NEW k \in Handler,
               job'[g].node \in ManagedNode \ overlapped', job'[g].node = job'[k].node
        PROVE  g = k
    BY <1>5, <1>7, <1>8, <2>2 DEF SidecarInv, JobsOK
  <2> QED
    BY <2>1, <2>2 DEF JobsOK, JobOK
<1>10. WitnessOK'
  <2>1. \A g \in Handler : job'[g].op \in {"create", "restart"} =>
           job[g].at = "idle" \/ job'[g].node = job[g].node
    BY <1>7, <1>8
  <2>2. \A g \in Handler : job'[g].at \in {"clear", "wipe"} =>
           \/ job[g].at \in {"clear", "wipe"}
           \/ job[g].at # "idle" /\ OnlineExcluding(job[g].node) = {}
    BY <1>3, <1>5, <1>8
  <2> QED
    BY <1>7, <2>1, <2>2, WitnessStep DEF SidecarInv
<1>11. RegistryOK'
  <2>1. ASSUME NEW m \in Dynamic \ overlapped'
        PROVE  /\ Once(nodes, m)
               /\ \/ \E g \in Handler : job'[g].node = m /\ job'[g].at = "unregister"
                  \/ Contains(nodes, m) => container[m] # "none"
               /\ \A g \in Handler : job'[g].node = m =>
                     /\ job'[g].at \in {"run", "register"} => ~Contains(nodes, m)
                     /\ job'[g].at = "register" => container[m] # "none"
    <3>1. /\ Once(nodes, m)
          /\ \/ \E g \in Handler : job[g].node = m /\ job[g].at = "unregister"
             \/ Contains(nodes, m) => container[m] # "none"
          /\ \A g \in Handler : job[g].node = m =>
                /\ job[g].at \in {"run", "register"} => ~Contains(nodes, m)
                /\ job[g].at = "register" => container[m] # "none"
      BY <1>7 DEF SidecarInv, RegistryOK, Registered
    <3> QED
      BY <1>3, <1>5, <1>7, <1>8, <3>1
  <2>2. nodes \in Seq(ManagedNode) /\ DOMAIN container = ManagedNode
    BY DEF SidecarInv, RegistryOK
  <2> QED
    BY <1>7, <2>1, <2>2 DEF RegistryOK, Registered
<1> QED
  BY <1>9, <1>10, <1>11 DEF SidecarInv

\* A scenario works on no node in particular.
LEMMA ScenarioStep ==
    ASSUME SidecarInv, NEW h \in Handler, NEW op \in Scenarios, RunScenario(h, op)
    PROVE  SidecarInv'
<1>1. DOMAIN container = ManagedNode
  BY DEF SidecarInv, RegistryOK
<1>2. PICK j : j = [Idle EXCEPT !.op = op, !.at = "find"]
  OBVIOUS
<1>3. /\ DOMAIN j = {"op", "node", "at", "todo", "toRestore", "round", "alone"}
      /\ j.op = op /\ j.node = "none" /\ j.at = "find"
  BY <1>2 DEF Idle
<1>4. JobOK(j)
  BY <1>3 DEF JobOK, Scenarios
<1>5. /\ job[h].at = "idle" /\ Watch /\ nodes' = nodes /\ container' = container
      /\ overlapped' = overlapped /\ job' = [job EXCEPT ![h] = j]
  BY <1>2 DEF RunScenario, At
<1> QED
  BY <1>1, <1>3, <1>4, <1>5, QuietStep

\* A node begins to answer.
LEMMA BootStep ==
    ASSUME SidecarInv, NEW n \in ManagedNode, Boot(n)
    PROVE  SidecarInv'
<1>1. /\ job' = job /\ nodes' = nodes /\ overlapped' = overlapped /\ Watch
      /\ container' = [container EXCEPT ![n] = "running"]
  BY DEF Boot
<1>2. JobsOK'
  BY <1>1 DEF SidecarInv, JobsOK, JobOK
<1>3. DOMAIN container = ManagedNode /\ Dynamic \subseteq ManagedNode
  BY DEF SidecarInv, RegistryOK, ManagedNode
<1>4. \A m \in Dynamic : container'[m] = "none" => container[m] = "none"
  BY <1>1, <1>3
<1>5. RegistryOK'
  <2>1. ASSUME NEW m \in Dynamic \ overlapped
        PROVE  /\ Once(nodes, m)
               /\ \/ \E g \in Handler : job[g].node = m /\ job[g].at = "unregister"
                  \/ Contains(nodes, m) => container'[m] # "none"
               /\ \A g \in Handler : job[g].node = m =>
                     /\ job[g].at \in {"run", "register"} => ~Contains(nodes, m)
                     /\ job[g].at = "register" => container'[m] # "none"
    BY <1>4 DEF SidecarInv, RegistryOK, Registered
  <2>2. nodes \in Seq(ManagedNode) /\ DOMAIN container' = ManagedNode
    BY <1>1, <1>3 DEF SidecarInv, RegistryOK
  <2> QED
    BY <1>1, <2>1, <2>2 DEF RegistryOK, Registered
<1>6. WitnessOK'
  BY <1>1, WitnessStep DEF SidecarInv
<1> QED
  BY <1>2, <1>5, <1>6 DEF SidecarInv

\* Every step of the sidecar keeps the invariant.
LEMMA SidecarStep ==
    SidecarInv /\ [SidecarNext]_sidecarVars => SidecarInv'
<1> SUFFICES ASSUME SidecarInv, [SidecarNext]_sidecarVars PROVE SidecarInv'
  OBVIOUS
<1>1. CASE UNCHANGED sidecarVars
  BY <1>1 DEF sidecarVars, SidecarInv, JobsOK, JobOK, RegistryOK, Once, Registered,
              WitnessOK, Online, Answers
<1>2. ASSUME NEW h \in Handler, Advance(h) PROVE SidecarInv'
  <2>1. CASE Probe(h) \/ WaitForHTTP(h) \/ RetryAddNode(h) \/ Hold(h)
    BY <2>1, WaitSteps
  <2>2. CASE Find(h) \/ DockerPause(h) \/ SetPaused(h) \/ DockerUnpause(h) \/ ClearPaused(h)
    BY <2>2, ScenarioSteps
  <2>3. CASE RemoveContainer(h) \/ RemoveVolume(h) \/ ComposeUp(h) \/ DockerStop(h)
    BY <2>3, PresetSteps
  <2>4. CASE DockerRun(h) \/ addDynamicNode(h) \/ DockerRm(h)
    BY <2>4, DynamicSteps
  <2> QED
    BY <1>2, <2>1, <2>2, <2>3, <2>4, CheckStep, DropEntryStep, UnregisterStep DEF Advance
<1> QED
  BY <1>1, <1>2, RequestStep, ScenarioStep, BootStep DEF SidecarNext

\* The registry at the start: the preset nodes, then dynamic ones, each once.
LEMMA SidecarStart == SidecarInit => SidecarInv
<1> SUFFICES ASSUME SidecarInit PROVE SidecarInv
  OBVIOUS
<1>1. /\ job = [h \in Handler |-> Idle] /\ witness = [h \in Handler |-> {}]
  BY DEF SidecarInit
<1>2. JobOK(Idle) /\ Idle.node = "none" /\ Idle.at = "idle"
  BY DEF JobOK, Idle
<1>3. "none" \notin ManagedNode /\ Preset \cap Dynamic = {}
  BY SidecarAssumption
<1> HIDE DEF Idle
<1>4. JobsOK
  BY <1>1, <1>2, <1>3 DEF JobsOK
<1>5. WitnessOK
  BY <1>1, <1>2 DEF WitnessOK
<1>6. PICK dynamic \in SUBSET Dynamic :
         /\ nodes = presetNodes \o SetToSeq(dynamic)
         /\ container \in [ManagedNode -> {"none", "running", "exited"}]
         /\ \A n \in dynamic : container[n] = "running"
  BY DEF SidecarInit
<1>7. PICK s : s = SetToSeq(dynamic)
  OBVIOUS
<1>8. /\ s \in Seq(dynamic)
      /\ \A i, j \in 1 .. Len(s) : s[i] = s[j] => i = j
  <2>1. IsFiniteSet(dynamic)
    BY SidecarAssumption, FS_Subset
  <2>2. PICK k \in Nat : k = Cardinality(dynamic) /\ ExistsBijection(1 .. k, dynamic)
    BY <2>1, FS_CardinalityType
  <2>3. PICK f \in Bijection(1 .. k, dynamic) : TRUE
    BY <2>2 DEF ExistsBijection
  <2>4. f \in [1 .. Cardinality(dynamic) -> dynamic] /\ IsInjective(f)
    BY <2>2, <2>3 DEF Bijection, Injection, IsInjective
  <2>5. s \in [1 .. Cardinality(dynamic) -> dynamic] /\ IsInjective(s)
    BY <1>7, <2>4, Zenon DEF SetToSeq
  <2>6. s \in [1 .. k -> dynamic]
    BY <2>2, <2>5
  <2>7. s \in Seq(dynamic) /\ Len(s) = k
    BY <2>6
  <2> QED
    BY <2>5, <2>6, <2>7 DEF IsInjective
<1>9. /\ presetNodes \in Seq(Preset) /\ Len(presetNodes) \in Nat /\ Len(s) \in Nat
  BY <1>8, SidecarAssumption
<1>10. /\ nodes \in Seq(ManagedNode) /\ Len(nodes) = Len(presetNodes) + Len(s)
       /\ \A i \in 1 .. Len(presetNodes) : nodes[i] \in Preset
       /\ \A i \in Len(presetNodes) + 1 .. Len(nodes) :
             /\ i - Len(presetNodes) \in 1 .. Len(s)
             /\ nodes[i] = s[i - Len(presetNodes)]
  <2>1. presetNodes \in Seq(ManagedNode) /\ s \in Seq(ManagedNode)
    <3>1. Preset \subseteq ManagedNode /\ dynamic \subseteq ManagedNode
      BY DEF ManagedNode
    <3> QED
      BY <1>8, <1>9, <3>1
  <2>2. nodes = presetNodes \o s
    BY <1>6, <1>7
  <2>3. nodes \in Seq(ManagedNode) /\ Len(nodes) = Len(presetNodes) + Len(s)
    BY <2>1, <2>2
  <2>4. \A i \in 1 .. Len(presetNodes) : nodes[i] \in Preset
    BY <1>9, <2>1, <2>2
  <2>5. ASSUME NEW i \in Len(presetNodes) + 1 .. Len(nodes)
        PROVE  /\ i - Len(presetNodes) \in 1 .. Len(s)
               /\ nodes[i] = s[i - Len(presetNodes)]
    BY <1>9, <2>1, <2>2, <2>3
  <2> QED
    BY <2>3, <2>4, <2>5
<1>11. ASSUME NEW n \in Dynamic
       PROVE  Once(nodes, n) /\ (Contains(nodes, n) => container[n] # "none")
  <2>1. \A i \in 1 .. Len(nodes) : nodes[i] = n =>
           /\ i \in Len(presetNodes) + 1 .. Len(nodes)
           /\ i - Len(presetNodes) \in 1 .. Len(s) /\ s[i - Len(presetNodes)] = n
    BY <1>3, <1>9, <1>10
  <2>2. Once(nodes, n)
    <3> SUFFICES ASSUME NEW i \in 1 .. Len(nodes), NEW j \in 1 .. Len(nodes),
                        nodes[i] = n, nodes[j] = n
                 PROVE  i = j
      BY DEF Once
    <3>1. i - Len(presetNodes) = j - Len(presetNodes)
      BY <1>8, <2>1
    <3> QED
      BY <1>9, <3>1
  <2>3. Contains(nodes, n) => n \in dynamic
    BY <1>8, <2>1 DEF Contains
  <2> QED
    BY <1>6, <2>2, <2>3
<1>12. RegistryOK
  BY <1>1, <1>2, <1>3, <1>6, <1>10, <1>11 DEF RegistryOK, Registered, ManagedNode
<1> QED
  BY <1>4, <1>5, <1>12 DEF SidecarInv

-----------------------------------------------------------------------------
(* What a scenario holds.                                                  *)

ScenarioAt == {"find", "pause", "flag", "hold", "unpause", "unflag"}

\* A handler holds containers only as part of a scenario, and all of them are
\* still to be resumed: they are in toRestore, or about to be put there.
HoldOK(j, held) ==
    /\ \E S : j.toRestore \in Seq(S)
    /\ j.at = "find" => j.op \in Scenarios /\ held = {}
    /\ j.at \in {"pause", "flag"} => j.op \in Scenarios \cup {"pause"}
    /\ j.op \in Scenarios => j.at \in ScenarioAt
    /\ j.op \notin Scenarios => held = {}
    /\ j.at \in {"pause", "hold", "unpause"} => held \subseteq ToSet(j.toRestore)
    /\ j.at = "flag" => held \subseteq ToSet(j.toRestore) \cup {Head(j.todo)}
    /\ j.at = "unflag" => held \subseteq ToSet(j.toRestore) \ {Head(j.toRestore)}

HoldsInv == DOMAIN holds = Handler /\ \A h \in Handler : HoldOK(job[h], holds[h])

\* A handler's own step, while the others hold no more than before.
LEMMA HoldsStep ==
    ASSUME SidecarInv, HoldsInv, NEW h \in Handler, NEW j, job' = [job EXCEPT ![h] = j],
           DOMAIN holds' = Handler, \A g \in Handler \ {h} : holds'[g] \subseteq holds[g],
           HoldOK(j, holds'[h])
    PROVE  HoldsInv'
<1>1. DOMAIN job = Handler
  BY MoveFacts
<1>2. \A g \in Handler : job'[g] = IF g = h THEN j ELSE job[g]
  BY <1>1
<1>3. ASSUME NEW g \in Handler \ {h} PROVE HoldOK(job'[g], holds'[g])
  <2>1. job'[g] = job[g] /\ HoldOK(job[g], holds[g]) /\ holds'[g] \subseteq holds[g]
    BY <1>2 DEF HoldsInv
  <2> QED
    BY <2>1 DEF HoldOK
<1> QED
  BY <1>2, <1>3 DEF HoldsInv, HoldOK

\* A handler that is done holds nothing; one that serves a request never does.
LEMMA HoldsPlain ==
    ASSUME SidecarInv, HoldsInv, NEW h \in Handler,
           DOMAIN holds' = Handler, \A g \in Handler : holds'[g] \subseteq holds[g]
    PROVE  /\ Done(h) /\ holds'[h] = {} => HoldsInv'
           /\ \A a \in {"forget", "probe", "run", "wipe", "up", "wait", "register", "join",
                         "rm", "unregister"} :
                 Goto(h, a) /\ job[h].op \notin Scenarios => HoldsInv'
<1>1. JobOK(job[h]) /\ DOMAIN job = Handler /\ HoldOK(job[h], holds[h])
  BY MoveFacts DEF HoldsInv
<1>2. ASSUME Done(h), holds'[h] = {} PROVE HoldsInv'
  <2>1. PICK j : j = Idle
    OBVIOUS
  <2>2. j.at = "idle" /\ j.op = "none" /\ j.toRestore = <<>>
    BY <2>1 DEF Idle
  <2>3. HoldOK(j, holds'[h])
    <3>1. <<>> \in Seq({})
      OBVIOUS
    <3> QED
      BY <1>2, <2>2, <3>1 DEF HoldOK, Scenarios
  <2> QED
    BY <1>2, <2>1, <2>3, HoldsStep DEF Done
<1>3. ASSUME NEW a \in {"forget", "probe", "run", "wipe", "up", "wait", "register", "join",
                        "rm", "unregister"}, Goto(h, a), job[h].op \notin Scenarios
      PROVE  HoldsInv'
  <2>1. PICK j : j = [job[h] EXCEPT !.at = a]
    OBVIOUS
  <2>2. j.at = a /\ j.op = job[h].op /\ j.toRestore = job[h].toRestore
    BY <1>1, <2>1 DEF JobOK
  <2>3. HoldOK(j, holds'[h])
    BY <1>1, <1>3, <2>2 DEF HoldOK
  <2> QED
    BY <1>3, <2>1, <2>3, HoldsStep DEF Goto
<1> QED
  BY <1>2, <1>3

\* The steps that create, start and stop nodes, and the waiting.
LEMMA HoldsRequestSteps ==
    ASSUME SidecarInv, HoldsInv, NEW h \in Handler,
           \/ CheckDuplicate(h) \/ DropEntry(h) \/ Probe(h) \/ RemoveContainer(h)
           \/ RemoveVolume(h) \/ ComposeUp(h) \/ DockerRun(h) \/ addDynamicNode(h)
           \/ WaitForHTTP(h) \/ RetryAddNode(h) \/ DockerStop(h) \/ DockerRm(h)
           \/ Unregister(h)
    PROVE  HoldsInv'
<1>1. JobOK(job[h]) /\ DOMAIN job = Handler /\ HoldOK(job[h], holds[h])
      /\ DOMAIN holds = Handler
  BY MoveFacts DEF HoldsInv
<1>2. job[h].at \notin ScenarioAt
  BY DEF CheckDuplicate, DropEntry, Probe, RemoveContainer, RemoveVolume, ComposeUp,
         DockerRun, addDynamicNode, WaitForHTTP, RetryAddNode, DockerStop, DockerRm,
         Unregister, At, ScenarioAt
<1>3. job[h].op \notin Scenarios /\ holds[h] = {}
  BY <1>1, <1>2 DEF HoldOK
<1>4. holds' = holds \/ \E n : holds' = Released(n)
  BY DEF CheckDuplicate, DropEntry, Probe, RemoveContainer, RemoveVolume, ComposeUp,
         DockerRun, addDynamicNode, WaitForHTTP, RetryAddNode, DockerStop, DockerRm,
         Unregister
<1>5. DOMAIN holds' = Handler /\ \A g \in Handler : holds'[g] \subseteq holds[g]
  BY <1>1, <1>4 DEF Released
<1>6. holds'[h] = {}
  BY <1>3, <1>5
<1>7. \/ Done(h) \/ Probe(h)
      \/ \E a \in {"forget", "probe", "run", "wipe", "up", "wait", "register", "join",
                   "rm", "unregister"} : Goto(h, a)
  BY DEF CheckDuplicate, DropEntry, RemoveContainer, RemoveVolume, ComposeUp,
         DockerRun, addDynamicNode, WaitForHTTP, RetryAddNode, DockerStop, DockerRm,
         Unregister, AfterStop
<1>8. CASE Probe(h)
  <2>1. PICK j : j = job'[h]
    OBVIOUS
  <2>2. /\ job' = [job EXCEPT ![h] = j] /\ j.at \in {"clear", "up"}
        /\ j.op = job[h].op /\ j.toRestore = job[h].toRestore
    BY <1>1, <1>8, <2>1 DEF Probe, JobOK
  <2>3. HoldOK(j, holds'[h])
    BY <1>1, <1>3, <1>6, <2>2 DEF HoldOK
  <2> QED
    BY <1>5, <2>2, <2>3, HoldsStep
<1> QED
  BY <1>3, <1>5, <1>6, <1>7, <1>8, HoldsPlain

\* What is left to resume when the first node has been: nothing is held when
\* there was no other.
LEMMA HoldsAfterRestore ==
    ASSUME SidecarInv, HoldsInv, NEW h \in Handler, NEW resumed \in BOOLEAN,
           AfterRestore(h, resumed), DOMAIN holds' = Handler,
           \A g \in Handler : holds'[g] \subseteq holds[g],
           holds'[h] \subseteq ToSet(job[h].toRestore) \ {Head(job[h].toRestore)}
    PROVE  HoldsInv'
<1>1. JobOK(job[h]) /\ DOMAIN job = Handler /\ HoldOK(job[h], holds[h])
  BY MoveFacts DEF HoldsInv
<1>2. PICK s : s = job[h].toRestore
  OBVIOUS
<1>3. PICK S : s \in Seq(S)
  BY <1>1, <1>2 DEF HoldOK
<1>4. Len(s) \in Nat /\ DOMAIN s = 1 .. Len(s) /\ ToSet(s) = {s[i] : i \in 1 .. Len(s)}
  BY <1>3 DEF ToSet
<1>5. ~(Len(s) > 1) => holds'[h] = {}
  <2> SUFFICES ASSUME ~(Len(s) > 1), NEW n \in holds'[h] PROVE FALSE
    OBVIOUS
  <2>1. PICK i \in 1 .. Len(s) : n = s[i]
    BY <1>2, <1>4
  <2>2. i = 1
    BY <1>4, <2>1
  <2>3. Head(s) = s[1]
    BY <1>3, <1>4, <2>1
  <2> QED
    BY <1>2, <2>1, <2>2, <2>3
<1>6. PICK j : j = job'[h]
  OBVIOUS
<1>7. CASE Done(h) /\ holds'[h] = {}
  BY <1>7, HoldsPlain
<1>8. CASE job[h].op = "restart"
           /\ job' = [job EXCEPT ![h].at = "down", ![h].toRestore = <<>>]
  <2>1. /\ job' = [job EXCEPT ![h] = j] /\ j.at = "down" /\ j.op = "restart"
        /\ j.toRestore = <<>>
    BY <1>1, <1>6, <1>8 DEF JobOK
  <2>2. holds[h] = {} /\ <<>> \in Seq({})
    BY <1>1, <1>8 DEF HoldOK, Scenarios
  <2>3. HoldOK(j, holds'[h])
    BY <2>1, <2>2 DEF HoldOK, Scenarios
  <2> QED
    BY <2>1, <2>3, HoldsStep
<1>9. CASE Len(s) > 1 /\ job' = [job EXCEPT ![h].at = "unpause", ![h].toRestore = Tail(@)]
  <2>1. /\ job' = [job EXCEPT ![h] = j] /\ j.at = "unpause" /\ j.op = job[h].op
        /\ j.toRestore = Tail(s)
    BY <1>1, <1>2, <1>6, <1>9 DEF JobOK
  <2>2. /\ Tail(s) \in Seq(S) /\ Len(Tail(s)) = Len(s) - 1 /\ Head(s) = s[1]
        /\ \A i \in 1 .. Len(s) - 1 : Tail(s)[i] = s[i + 1]
    BY <1>3, <1>4, <1>9
  <2>3. ToSet(s) \ {Head(s)} \subseteq ToSet(Tail(s))
    <3> SUFFICES ASSUME NEW i \in 1 .. Len(s), s[i] # s[1]
                 PROVE  s[i] \in ToSet(Tail(s))
      BY <1>4, <2>2
    <3>1. i - 1 \in 1 .. Len(s) - 1 /\ (i - 1) + 1 = i
      BY <1>4
    <3>2. i - 1 \in DOMAIN Tail(s) /\ Tail(s)[i - 1] = s[i]
      BY <2>2, <3>1
    <3> QED
      BY <3>2 DEF ToSet
  <2>4. holds'[h] \subseteq ToSet(j.toRestore)
    BY <1>2, <2>1, <2>3
  <2>5. HoldOK(j, holds'[h])
    BY <1>1, <2>1, <2>2, <2>4 DEF HoldOK, ScenarioAt
  <2> QED
    BY <2>1, <2>5, HoldsStep
<1>10. CASE /\ ~(Len(s) > 1) /\ job[h].op = "leader_churn"
            /\ job' = [job EXCEPT ![h].at = "find", ![h].toRestore = <<>>]
  <2>1. /\ job' = [job EXCEPT ![h] = j] /\ j.at = "find" /\ j.op = "leader_churn"
        /\ j.toRestore = <<>>
    BY <1>1, <1>6, <1>10 DEF JobOK
  <2>2. holds'[h] = {} /\ <<>> \in Seq({})
    BY <1>5, <1>10
  <2>3. HoldOK(j, holds'[h])
    BY <2>1, <2>2 DEF HoldOK, Scenarios, ScenarioAt
  <2> QED
    BY <2>1, <2>3, HoldsStep
<1>11. \/ job[h].op = "restart"
          /\ job' = [job EXCEPT ![h].at = "down", ![h].toRestore = <<>>]
       \/ Len(s) > 1 /\ job' = [job EXCEPT ![h].at = "unpause", ![h].toRestore = Tail(@)]
       \/ /\ ~(Len(s) > 1) /\ job[h].op = "leader_churn"
          /\ job' = [job EXCEPT ![h].at = "find", ![h].toRestore = <<>>]
       \/ ~(Len(s) > 1) /\ Done(h)
  BY <1>2, <1>4 DEF AfterRestore
<1> QED
  BY <1>5, <1>7, <1>8, <1>9, <1>10, <1>11

\* The steps of scenarios, which requests to pause and resume share.
LEMMA HoldsScenarioSteps ==
    ASSUME SidecarInv, HoldsInv, NEW h \in Handler,
           \/ Find(h) \/ DockerPause(h) \/ SetPaused(h) \/ Hold(h)
           \/ DockerUnpause(h) \/ ClearPaused(h)
    PROVE  HoldsInv'
<1>1. JobOK(job[h]) /\ DOMAIN job = Handler /\ HoldOK(job[h], holds[h])
      /\ DOMAIN holds = Handler
  BY MoveFacts DEF HoldsInv
<1>2. PICK j : j = job'[h]
  OBVIOUS
<1>3. ASSUME Find(h) PROVE HoldsInv'
  <2>1. job[h].at = "find" /\ holds' = holds /\ holds[h] = {} /\ job[h].op \in Scenarios
    BY <1>1, <1>3 DEF Find, At, HoldOK
  <2>2. CASE Done(h)
    BY <1>1, <2>1, <2>2, HoldsPlain
  <2>3. CASE ~Done(h)
    <3>0. PICK t \in Targets(job[h].op) :
              job' = [job EXCEPT ![h].at = "pause", ![h].todo = t, ![h].round = @ + 1]
      BY <1>3, <2>3 DEF Find
    <3>1. /\ job' = [job EXCEPT ![h] = j] /\ j.at = "pause" /\ j.op = job[h].op
          /\ j.toRestore = job[h].toRestore
      BY <1>1, <1>2, <3>0 DEF JobOK
    <3>2. HoldOK(j, holds'[h])
      BY <1>1, <2>1, <3>1 DEF HoldOK, ScenarioAt
    <3> QED
      BY <1>1, <2>1, <3>1, <3>2, HoldsStep
  <2> QED
    BY <2>2, <2>3
<1>4. ASSUME DockerPause(h) PROVE HoldsInv'
  <2>1. PICK n : n = Head(job[h].todo)
    OBVIOUS
  <2>2. /\ job[h].at = "pause" /\ job[h].op \in Scenarios \cup {"pause"}
        /\ holds[h] \subseteq ToSet(job[h].toRestore)
    BY <1>1, <1>4 DEF DockerPause, At, HoldOK
  <2>3. CASE /\ Goto(h, "flag")
             /\ holds' = IF job[h].op = "pause" THEN holds
                         ELSE [holds EXCEPT ![h] = @ \cup {n}]
    <3>1. /\ job' = [job EXCEPT ![h] = j] /\ j.at = "flag" /\ j.op = job[h].op
          /\ j.toRestore = job[h].toRestore /\ j.todo = job[h].todo
      BY <1>1, <1>2, <2>3 DEF Goto, JobOK
    <3>2. /\ DOMAIN holds' = Handler /\ \A g \in Handler \ {h} : holds'[g] = holds[g]
          /\ holds'[h] = IF job[h].op = "pause" THEN holds[h] ELSE holds[h] \cup {n}
      BY <1>1, <2>3
    <3>3. "pause" \notin Scenarios
      BY DEF Scenarios
    <3>4. HoldOK(j, holds'[h])
      BY <1>1, <2>1, <2>2, <3>1, <3>2, <3>3 DEF HoldOK, ScenarioAt
    <3> QED
      BY <3>1, <3>2, <3>4, HoldsStep
  <2>4. CASE Abandon(h) /\ holds' = holds
    <3>1. CASE job[h].toRestore = <<>> /\ Done(h)
      <4>1. holds[h] = {}
        BY <2>2, <3>1 DEF ToSet
      <4> QED
        BY <1>1, <2>4, <3>1, <4>1, HoldsPlain
    <3>2. CASE job' = [job EXCEPT ![h].at = "unpause", ![h].todo = <<>>]
      <4>1. /\ job' = [job EXCEPT ![h] = j] /\ j.at = "unpause" /\ j.op = job[h].op
            /\ j.toRestore = job[h].toRestore
        BY <1>1, <1>2, <3>2 DEF JobOK
      <4>2. HoldOK(j, holds'[h])
        BY <1>1, <2>2, <2>4, <4>1 DEF HoldOK, ScenarioAt
      <4> QED
        BY <1>1, <2>4, <4>1, <4>2, HoldsStep
    <3> QED
      BY <2>4, <3>1, <3>2 DEF Abandon
  <2> QED
    BY <1>4, <2>1, <2>3, <2>4 DEF DockerPause
<1>5. ASSUME SetPaused(h) PROVE HoldsInv'
  <2>1. PICK n : n = Head(job[h].todo)
    OBVIOUS
  <2>2. /\ job[h].at = "flag" /\ holds' = holds /\ job[h].op \in Scenarios \cup {"pause"}
        /\ holds[h] \subseteq ToSet(job[h].toRestore) \cup {n}
    BY <1>1, <1>5, <2>1 DEF SetPaused, At, HoldOK
  <2>3. CASE job[h].op = "pause"
    <3>1. Done(h) /\ holds[h] = {}
      BY <1>1, <1>5, <2>3 DEF SetPaused, HoldOK, Scenarios
    <3> QED
      BY <1>1, <2>2, <3>1, HoldsPlain
  <2>4. CASE job[h].op # "pause"
    <3>1. PICK s : s = job[h].toRestore
      OBVIOUS
    <3>2. PICK S : s \in Seq(S)
      BY <1>1, <3>1 DEF HoldOK
    <3>3. /\ job' = [job EXCEPT ![h] = j] /\ j.at \in {"pause", "hold"}
          /\ j.op = job[h].op /\ j.toRestore = Append(s, n)
      BY <1>1, <1>2, <1>5, <2>1, <2>4, <3>1 DEF SetPaused, JobOK
    <3>4. s \in Seq(S \cup {n})
      BY <3>2
    <3>5. /\ Append(s, n) \in Seq(S \cup {n}) /\ Len(Append(s, n)) = Len(s) + 1
          /\ Len(s) \in Nat /\ DOMAIN s = 1 .. Len(s)
          /\ \A i \in 1 .. Len(s) : Append(s, n)[i] = s[i]
          /\ Append(s, n)[Len(s) + 1] = n
      BY <3>4
    <3>6. ToSet(s) \cup {n} \subseteq ToSet(Append(s, n))
      <4>1. DOMAIN Append(s, n) = 1 .. Len(s) + 1
        BY <3>5
      <4>2. n \in ToSet(Append(s, n))
        BY <3>5, <4>1 DEF ToSet
      <4>3. ASSUME NEW i \in 1 .. Len(s) PROVE s[i] \in ToSet(Append(s, n))
        BY <3>5, <4>1 DEF ToSet
      <4> QED
        BY <3>5, <4>2, <4>3 DEF ToSet
    <3>7. HoldOK(j, holds'[h])
      BY <2>2, <2>4, <3>1, <3>3, <3>5, <3>6 DEF HoldOK, ScenarioAt
    <3> QED
      BY <1>1, <2>2, <3>3, <3>7, HoldsStep
  <2> QED
    BY <2>3, <2>4
<1>6. ASSUME Hold(h) PROVE HoldsInv'
  <2>1. job[h].at = "hold" /\ holds' = holds /\ holds[h] \subseteq ToSet(job[h].toRestore)
    BY <1>1, <1>6 DEF Hold, At, HoldOK
  <2>2. /\ job' = [job EXCEPT ![h] = j] /\ j.at = "unpause" /\ j.op = job[h].op
        /\ j.toRestore = job[h].toRestore
    BY <1>1, <1>2, <1>6 DEF Hold, Goto, JobOK
  <2>3. HoldOK(j, holds'[h])
    BY <1>1, <2>1, <2>2 DEF HoldOK, ScenarioAt
  <2> QED
    BY <1>1, <2>1, <2>2, <2>3, HoldsStep
<1>7. ASSUME DockerUnpause(h) PROVE HoldsInv'
  <2>1. PICK n : n = Head(job[h].toRestore)
    OBVIOUS
  <2>2. job[h].at = "unpause" /\ holds[h] \subseteq ToSet(job[h].toRestore)
    BY <1>1, <1>7 DEF DockerUnpause, At, HoldOK
  <2>3. CASE Goto(h, "unflag") /\ holds' = Released(n)
    <3>1. /\ job' = [job EXCEPT ![h] = j] /\ j.at = "unflag" /\ j.op = job[h].op
          /\ j.toRestore = job[h].toRestore
      BY <1>1, <1>2, <2>3 DEF Goto, JobOK
    <3>2. DOMAIN holds' = Handler /\ \A g \in Handler : holds'[g] = holds[g] \ {n}
      BY <2>3 DEF Released
    <3>3. HoldOK(j, holds'[h])
      BY <1>1, <2>1, <2>2, <3>1, <3>2 DEF HoldOK, ScenarioAt
    <3> QED
      BY <3>1, <3>2, <3>3, HoldsStep
  <2>4. CASE AfterRestore(h, FALSE) /\ holds' = [holds EXCEPT ![h] = @ \ {n}]
    <3>1. /\ DOMAIN holds' = Handler /\ \A g \in Handler : holds'[g] \subseteq holds[g]
          /\ holds'[h] = holds[h] \ {n}
      BY <1>1, <2>4
    <3> QED
      BY <2>1, <2>2, <2>4, <3>1, HoldsAfterRestore
  <2> QED
    BY <1>7, <2>1, <2>3, <2>4 DEF DockerUnpause
<1>8. ASSUME ClearPaused(h) PROVE HoldsInv'
  <2>1. /\ job[h].at = "unflag" /\ holds' = holds /\ AfterRestore(h, TRUE)
        /\ holds[h] \subseteq ToSet(job[h].toRestore) \ {Head(job[h].toRestore)}
    BY <1>1, <1>8 DEF ClearPaused, At, HoldOK
  <2> QED
    BY <1>1, <2>1, HoldsAfterRestore
<1> QED
  BY <1>3, <1>4, <1>5, <1>6, <1>7, <1>8

\* A request begins, or nothing happens to a handler.
LEMMA HoldsNext ==
    SidecarInv /\ HoldsInv /\ [SidecarNext]_sidecarVars => HoldsInv'
<1> SUFFICES ASSUME SidecarInv, HoldsInv, [SidecarNext]_sidecarVars PROVE HoldsInv'
  OBVIOUS
<1>1. ASSUME job' = job, holds' = holds PROVE HoldsInv'
  BY <1>1 DEF HoldsInv, HoldOK
<1>2. ASSUME NEW h \in Handler, NEW n \in ManagedNode,
             NEW op \in NodeActions \cup {"create"}, Request(h, op, n)
      PROVE  HoldsInv'
  <2>1. PICK first : first = FirstStep(op, n)
    OBVIOUS
  <2>2. /\ first.at \in {"check", "pause", "unpause", "down"}
        /\ first.at = "pause" => op = "pause"
        /\ first.toRestore \in {<<>>, <<n>>}
    BY <2>1 DEF FirstStep
  <2>3. PICK j : j = [Idle EXCEPT !.op = op, !.node = n, !.at = first.at,
                              !.todo = first.todo, !.toRestore = first.toRestore]
    OBVIOUS
  <2>4. j.op = op /\ j.at = first.at /\ j.toRestore = first.toRestore
    BY <2>3 DEF Idle
  <2>5. JobOK(job[h]) /\ HoldOK(job[h], holds[h]) /\ DOMAIN holds = Handler
    BY MoveFacts DEF HoldsInv
  <2>6. holds' = holds /\ job' = [job EXCEPT ![h] = j] /\ holds[h] = {}
    BY <1>2, <2>1, <2>3, <2>5 DEF Request, At, JobOK, HoldOK, Scenarios
  <2>7. op \notin Scenarios
    BY DEF Scenarios, NodeActions
  <2>8. j.toRestore \in Seq({n})
    <3>1. <<>> \in Seq({n}) /\ <<n>> \in Seq({n})
      OBVIOUS
    <3> QED
      BY <2>2, <2>4, <3>1
  <2>9. HoldOK(j, holds'[h])
    BY <2>2, <2>4, <2>6, <2>7, <2>8 DEF HoldOK
  <2> QED
    BY <2>5, <2>6, <2>9, HoldsStep
<1>3. ASSUME NEW h \in Handler, NEW op \in Scenarios, RunScenario(h, op) PROVE HoldsInv'
  <2>1. PICK j : j = [Idle EXCEPT !.op = op, !.at = "find"]
    OBVIOUS
  <2>2. j.op = op /\ j.at = "find" /\ j.toRestore = <<>>
    BY <2>1 DEF Idle
  <2>3. JobOK(job[h]) /\ HoldOK(job[h], holds[h]) /\ DOMAIN holds = Handler
    BY MoveFacts DEF HoldsInv
  <2>4. holds' = holds /\ job' = [job EXCEPT ![h] = j] /\ holds[h] = {}
    BY <1>3, <2>1, <2>3 DEF RunScenario, At, JobOK, HoldOK, Scenarios
  <2>5. HoldOK(j, holds'[h])
    <3>1. <<>> \in Seq({})
      OBVIOUS
    <3> QED
      BY <2>2, <2>4, <3>1 DEF HoldOK, ScenarioAt
  <2> QED
    BY <2>3, <2>4, <2>5, HoldsStep
<1>4. ASSUME NEW h \in Handler, Advance(h) PROVE HoldsInv'
  BY <1>4, HoldsRequestSteps, HoldsScenarioSteps DEF Advance
<1>5. ASSUME NEW n, Boot(n) PROVE HoldsInv'
  BY <1>1, <1>5 DEF Boot
<1>6. CASE UNCHANGED sidecarVars
  BY <1>1, <1>6 DEF sidecarVars
<1> QED
  BY <1>2, <1>3, <1>4, <1>5, <1>6 DEF SidecarNext

-----------------------------------------------------------------------------
(* The theorems.                                                           *)

(* The invariant holds in every reachable state, whatever the handlers,    *)
(* the nodes and the requests.                                             *)
LEMMA SidecarInductive == SidecarSpec => []SidecarInv
<1>1. SidecarInit => SidecarInv
  BY SidecarStart
<1>2. SidecarInv /\ [SidecarNext]_sidecarVars => SidecarInv'
  BY SidecarStep
<1> QED
  BY <1>1, <1>2, PTL DEF SidecarSpec

(* createDynamicNode, removeDynamicNode and stopNode: a dynamic node that  *)
(* no request works on, and that no two requests ever worked on at once,   *)
(* is listed at most once, and only if its container exists, whichever     *)
(* docker commands failed.                                                 *)
THEOREM RegistryConsistent == SidecarSpec => []RegisteredExists
<1>1. SidecarInv => RegisteredExists
  <2> SUFFICES ASSUME SidecarInv, NEW n \in Dynamic \ overlapped, ~WorkedOn(n),
                      NEW e \in DOMAIN nodes, nodes[e] = n
               PROVE  /\ \A i, j \in DOMAIN nodes : nodes[i] = n /\ nodes[j] = n => i = j
                      /\ container[n] # "none"
    BY DEF RegisteredExists, ListedSoundly
  <2>1. DOMAIN nodes = 1 .. Len(nodes)
    BY DEF SidecarInv, RegistryOK
  <2>2. Once(nodes, n)
    BY DEF SidecarInv, RegistryOK
  <2>3. Registered(n)
    BY <2>1 DEF Registered, Contains
  <2>4. \A h \in Handler : job[h].node # n
    BY DEF WorkedOn
  <2>5. container[n] # "none"
    BY <2>3, <2>4 DEF SidecarInv, RegistryOK
  <2> QED
    BY <2>1, <2>2, <2>5 DEF Once
<1> QED
  BY <1>1, SidecarInductive, PTL

(* startPresetNode wipes a volume only for a node that no answering node   *)
(* of the registry could have let into the cluster, also when requests on  *)
(* the node overlap.                                                       *)
THEOREM DataKeptWhileServed == SidecarSpec => KeepsDataWhileServed
<1>1. ASSUME SidecarInv, [SidecarNext]_sidecarVars, NEW n \in data \ data'
      PROVE  \E h \in Handler : /\ job[h].at = "wipe" /\ job'[h].at = "up"
                                /\ job[h].node = n /\ witness[h] = {}
  <2>1. PICK g \in Handler : RemoveVolume(g)
    <3>1. ASSUME NEW g \in Handler, Advance(g), ~RemoveVolume(g) PROVE data \subseteq data'
      BY <3>1, Zenon
          DEF Advance, CheckDuplicate, DropEntry, Probe, RemoveContainer, ComposeUp, DockerRun,
              addDynamicNode, WaitForHTTP, RetryAddNode, DockerStop, DockerRm, Unregister, Find,
              DockerPause, SetPaused, Hold, DockerUnpause, ClearPaused
    <3>2. ASSUME NEW g \in Handler, NEW op, NEW m, Request(g, op, m) PROVE data' = data
      BY <3>2 DEF Request
    <3>3. ASSUME NEW g \in Handler, NEW op, RunScenario(g, op) PROVE data' = data
      BY <3>3 DEF RunScenario
    <3>4. ASSUME NEW m, Boot(m) PROVE data \subseteq data'
      BY <3>4 DEF Boot
    <3>5. CASE UNCHANGED sidecarVars
      BY <1>1, <3>5 DEF sidecarVars
    <3> QED
      BY <1>1, <3>1, <3>2, <3>3, <3>4, <3>5 DEF SidecarNext
  <2>2. job[g].at = "wipe" /\ n = job[g].node /\ Goto(g, "up")
    BY <1>1, <2>1 DEF RemoveVolume, At
  <2>3. JobOK(job[g]) /\ DOMAIN job = Handler
    BY <1>1, MoveFacts
  <2>4. job'[g].at = "up"
    BY <2>2, <2>3 DEF Goto, JobOK
  <2>5. witness[g] = {}
    BY <1>1, <2>2 DEF SidecarInv, WitnessOK
  <2> QED
    BY <2>2, <2>4, <2>5
<1>2. SidecarInv /\ [SidecarNext]_sidecarVars =>
         [\A n \in data \ data' :
             \E h \in Handler : /\ job[h].at = "wipe" /\ job'[h].at = "up"
                                /\ job[h].node = n /\ witness[h] = {}]_sidecarVars
  BY <1>1
<1> QED
  BY <1>2, SidecarInductive, PTL DEF SidecarSpec, KeepsDataWhileServed

(* runScenario: no path out of a scenario, whichever docker commands fail  *)
(* and whatever other handlers do meanwhile, ends before it has tried to   *)
(* resume every container it paused.                                       *)
THEOREM ScenariosLetGo == SidecarSpec => []NothingLeftPaused
<1>1. SidecarInit => HoldsInv
  <2> SUFFICES ASSUME SidecarInit PROVE HoldsInv
    OBVIOUS
  <2>1. holds = [h \in Handler |-> {}] /\ job = [h \in Handler |-> Idle]
    BY DEF SidecarInit
  <2>2. Idle.at = "idle" /\ Idle.op = "none" /\ Idle.toRestore = <<>> /\ <<>> \in Seq({})
    BY DEF Idle
  <2>3. HoldOK(Idle, {})
    BY <2>2 DEF HoldOK, Scenarios
  <2> HIDE DEF Idle
  <2> QED
    BY <2>1, <2>3 DEF HoldsInv
<1>2. SidecarInv /\ HoldsInv /\ [SidecarNext]_sidecarVars => HoldsInv'
  BY HoldsNext
<1>3. SidecarInv /\ HoldsInv => NothingLeftPaused
  <2> SUFFICES ASSUME SidecarInv, HoldsInv, NEW h \in Handler, job[h].at = "idle"
               PROVE  holds[h] = {}
    BY DEF NothingLeftPaused, At
  <2>1. job[h].op = "none"
    BY MoveFacts DEF JobOK
  <2>2. HoldOK(job[h], holds[h])
    BY DEF HoldsInv
  <2> QED
    BY <2>1, <2>2 DEF HoldOK, Scenarios
<1> QED
  BY <1>1, <1>2, <1>3, SidecarInductive, PTL DEF SidecarSpec
=============================================================================
