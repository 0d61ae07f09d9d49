---------------------------- MODULE Graph_proofs ----------------------------
(***************************************************************************)
(* For any number of graphs, any programs and any queues shorter than the  *)
(* range of job ids: run ends only when all its jobs are answered, and the *)
(* wait of a host operator ends with its own answer.                       *)
(***************************************************************************)
EXTENDS Graph, SequenceTheorems, FiniteSetTheorems, TLAPS

----------------------------------------------------------------------------
(* The two parts of a job id: the queue and the id within it.              *)

Ids == 0 .. IdLimit - 1
AllIds == 0 .. GRAPH_MAX_INSTANCE * IdLimit - 1
QueueOf(x) == x \div IdLimit

LEMMA TimesMonotonic ==
  ASSUME NEW a \in Int, NEW b \in Int, a < b
  PROVE  a * IdLimit + IdLimit <= b * IdLimit
  <1>1. (a + 1) * IdLimit <= b * IdLimit BY SizesAssumption
  <1>2. (a + 1) * IdLimit = a * IdLimit + IdLimit BY SizesAssumption
  <1> QED BY <1>1, <1>2, SizesAssumption

LEMMA DivModOf ==
  ASSUME NEW x \in Nat, NEW n \in Nat, n > 0
  PROVE  x \div n \in Nat /\ x % n \in 0 .. n - 1 /\ x = (x \div n) * n + (x % n)
  <1>1. x \div n \in Int /\ x % n \in 0 .. n - 1 OBVIOUS
  <1>2. x = n * (x \div n) + (x % n) OBVIOUS
  <1>3. x \div n >= 0 OBVIOUS
  <1>4. n * (x \div n) = (x \div n) * n BY <1>1
  <1> QED BY <1>1, <1>2, <1>3, <1>4

LEMMA DivMod ==
  ASSUME NEW x \in Nat
  PROVE  \E d \in Nat, m \in Ids :
           d = x \div IdLimit /\ m = x % IdLimit /\ x = d * IdLimit + m
  <1>1. IdLimit \in Nat /\ IdLimit > 0 BY SizesAssumption
  <1>2. x \div IdLimit \in Nat /\ x % IdLimit \in 0 .. IdLimit - 1
        /\ x = (x \div IdLimit) * IdLimit + (x % IdLimit)
    BY <1>1, DivModOf, Zenon
  <1> QED BY <1>2 DEF Ids

\* CheckResponse finds in an answer the queue and the id that GetJobId put in.
LEMMA JobIdSplits ==
  ASSUME NEW q \in Slots, NEW id \in Ids
  PROVE  /\ JobId(q, id) \in AllIds
         /\ QueueOf(JobId(q, id)) = q /\ JobId(q, id) % IdLimit = id
  <1> DEFINE x == id + q * IdLimit
  <1>0. q \in Nat /\ q * IdLimit \in Nat /\ id \in Nat BY SizesAssumption DEF Slots, Ids
  <1>1. x \in Nat BY <1>0
  <1>2. x \in AllIds
    <2>1. q * IdLimit + IdLimit <= GRAPH_MAX_INSTANCE * IdLimit
      BY TimesMonotonic, SizesAssumption DEF Slots
    <2>2. GRAPH_MAX_INSTANCE * IdLimit \in Nat BY SizesAssumption
    <2> QED BY <1>0, <2>1, <2>2, SizesAssumption DEF AllIds, Ids
  <1> HIDE DEF x
  <1>3. PICK d \in Nat, m \in Ids :
          d = x \div IdLimit /\ m = x % IdLimit /\ x = d * IdLimit + m
    BY <1>1, DivMod
  <1>4. d * IdLimit + m = q * IdLimit + id BY <1>0, <1>3, SizesAssumption DEF x
  <1>5. d * IdLimit \in Nat BY <1>3, SizesAssumption
  <1>6. ~(d < q)
    <2>1. d < q => d * IdLimit + IdLimit <= q * IdLimit BY <1>0, TimesMonotonic
    <2> QED BY <2>1, <1>0, <1>4, <1>5, SizesAssumption DEF Ids
  <1>7. ~(q < d)
    <2>1. q < d => q * IdLimit + IdLimit <= d * IdLimit BY <1>0, TimesMonotonic
    <2> QED BY <2>1, <1>0, <1>4, <1>5, SizesAssumption DEF Ids
  <1>8. d = q BY <1>0, <1>3, <1>6, <1>7
  <1>9. m = id BY <1>0, <1>4, <1>5, <1>8 DEF Ids
  <1> QED BY <1>2, <1>3, <1>8, <1>9 DEF x, JobId, QueueOf

LEMMA AnswerSplits ==
  ASSUME NEW x \in AllIds
  PROVE  x \div IdLimit \in Slots /\ x % IdLimit \in Ids
  <1>0. GRAPH_MAX_INSTANCE * IdLimit \in Nat BY SizesAssumption
  <1>1. x \in Nat /\ x < GRAPH_MAX_INSTANCE * IdLimit BY <1>0 DEF AllIds
  <1>2. PICK d \in Nat, m \in Ids :
          d = x \div IdLimit /\ m = x % IdLimit /\ x = d * IdLimit + m
    BY <1>1, DivMod
  <1>3. ~(GRAPH_MAX_INSTANCE <= d)
    <2>1. CASE GRAPH_MAX_INSTANCE = d
      BY <2>1, <1>0, <1>1, <1>2, SizesAssumption DEF Ids
    <2>2. CASE GRAPH_MAX_INSTANCE < d
      <3>1. GRAPH_MAX_INSTANCE * IdLimit + IdLimit <= d * IdLimit
        BY <2>2, <1>2, TimesMonotonic, SizesAssumption
      <3>2. d * IdLimit \in Nat BY <1>2, SizesAssumption
      <3> QED BY <3>1, <3>2, <1>0, <1>1, <1>2, SizesAssumption DEF Ids
    <2> QED BY <2>1, <2>2, <1>2, SizesAssumption
  <1> QED BY <1>2, <1>3, SizesAssumption DEF Slots
----------------------------------------------------------------------------
(* How many of the first k jobs of a sequence are of queue q.              *)

Places(s, q, k) == {l \in 1 .. k : QueueOf(s[l]) = q}
Count(s, q, k) == Cardinality(Places(s, q, k))

LEMMA CountBounds ==
  ASSUME NEW s, NEW q, NEW k \in Nat
  PROVE  /\ IsFiniteSet(Places(s, q, k)) /\ Count(s, q, k) \in 0 .. k
         /\ Count(s, q, k) = 0 => Places(s, q, k) = {}
  <1>1. IsFiniteSet(1 .. k) /\ Cardinality(1 .. k) = k BY FS_Interval
  <1>2. Places(s, q, k) \subseteq 1 .. k BY DEF Places
  <1>3. IsFiniteSet(Places(s, q, k)) /\ Cardinality(Places(s, q, k)) <= k
    BY <1>1, <1>2, FS_Subset
  <1>4. Cardinality(Places(s, q, k)) \in Nat BY <1>3, FS_CardinalityType
  <1>5. Cardinality(Places(s, q, k)) = 0 => Places(s, q, k) = {} BY <1>3, FS_EmptySet
  <1> QED BY <1>3, <1>4, <1>5 DEF Count

LEMMA CountNone == ASSUME NEW s, NEW q PROVE Count(s, q, 0) = 0
  <1>1. Count(s, q, 0) \in 0 .. 0 BY CountBounds
  <1> QED BY <1>1

LEMMA CountNext ==
  ASSUME NEW s, NEW q, NEW k \in Nat
  PROVE  Count(s, q, k + 1) = Count(s, q, k) + (IF QueueOf(s[k + 1]) = q THEN 1 ELSE 0)
  <1>1. IsFiniteSet(Places(s, q, k)) /\ Count(s, q, k) \in Nat BY CountBounds
  <1>2. k + 1 \notin Places(s, q, k) BY DEF Places
  <1>3. CASE QueueOf(s[k + 1]) = q
    <2>1. Places(s, q, k + 1) = Places(s, q, k) \cup {k + 1} BY <1>3 DEF Places
    <2>2. Count(s, q, k + 1) = Count(s, q, k) + 1
      BY <1>1, <1>2, <2>1, FS_AddElement DEF Count
    <2> QED BY <1>3, <2>2
  <1>4. CASE QueueOf(s[k + 1]) # q
    <2>1. Places(s, q, k + 1) = Places(s, q, k) BY <1>4 DEF Places
    <2> QED BY <1>1, <1>4, <2>1 DEF Count
  <1> QED BY <1>3, <1>4

\* Appending a job leaves the counts before it.
LEMMA CountSame ==
  ASSUME NEW s, NEW t, NEW q, NEW k \in Nat, \A l \in 1 .. k : s[l] = t[l]
  PROVE  Count(s, q, k) = Count(t, q, k)
  <1>1. Places(s, q, k) = Places(t, q, k) BY DEF Places
  <1> QED BY <1>1 DEF Count

\* Removing the first job lowers the counts of its queue by one.
LEMMA CountTail ==
  ASSUME NEW s, NEW t, NEW q, NEW k \in Nat, \A l \in 1 .. k : t[l] = s[l + 1]
  PROVE  Count(s, q, k + 1) = Count(t, q, k) + (IF QueueOf(s[1]) = q THEN 1 ELSE 0)
  <1> DEFINE S == Places(s, q, k + 1)
             T == Places(t, q, k)
             f == [l \in T |-> l + 1]
  <1>1. IsFiniteSet(S) /\ IsFiniteSet(T) /\ Cardinality(S) \in Nat
    BY CountBounds DEF Count
  <1>2. f \in Bijection(T, S \ {1})
    <2>1. \A l \in T : l + 1 \in S \ {1} BY DEF Places
    <2>2. \A l \in S \ {1} : l - 1 \in T BY DEF Places
    <2>3. f \in [T -> S \ {1}] BY <2>1
    <2>4. \A a, b \in T : f[a] = f[b] => a = b BY DEF Places
    <2>5. \A l \in S \ {1} : f[l - 1] = l BY <2>2 DEF Places
    <2>6. \A l \in S \ {1} : \E a \in T : f[a] = l BY <2>2, <2>5
    <2> HIDE DEF S, T, f
    <2> QED BY <2>3, <2>4, <2>6 DEF Bijection, Injection, Surjection, IsInjective
  <1>3. Cardinality(S \ {1}) = Cardinality(T)
    BY <1>1, <1>2, FS_Bijection DEF ExistsBijection
  <1>4. Cardinality(S \ {1}) = IF 1 \in S THEN Cardinality(S) - 1 ELSE Cardinality(S)
    BY <1>1, FS_RemoveElement
  <1>5. 1 \in S <=> QueueOf(s[1]) = q BY DEF Places
  <1> HIDE DEF S, T
  <1>6. Cardinality(S) = Cardinality(T) + (IF QueueOf(s[1]) = q THEN 1 ELSE 0)
    BY <1>1, <1>3, <1>4, <1>5
  <1> QED BY <1>6 DEF S, T, Count
----------------------------------------------------------------------------
(* The inductive invariant.                                                *)

CallType == [at : {"execute", "wait", "check"}, q : Slots, until : BOOLEAN]

Types ==
  /\ M_graphLst \in [Slots -> GraphType \cup {NoGraph}]
  /\ call \in CallType \cup {Idle}
  /\ jobs \in Seq(AllIds) /\ responses \in Seq(AllIds)
  /\ Len(jobs) <= MaxJobs /\ Len(responses) <= MaxResponses

\* The jobs and unread answers that have an id from GetJobId, oldest first:
\* all but the job of a host operator.
Pending == IF call.at = "wait" THEN <<>> ELSE responses \o jobs

\* The id before the oldest pending one, and the ids after it.
Base(g) == IF g.m_lastResponseId = NeverAnswered THEN 0 ELSE g.m_lastResponseId
Wrap(n) == IF n >= IdLimit THEN n - IdLimit ELSE n

\* A graph's pending ids count up from the last answer it has read, whatever
\* the ids of other graphs between them, and only running graphs have any ...
IdsInOrder ==
  \A k \in 1 .. Len(Pending) : \E q \in Slots :
    /\ Running(q)
    /\ Pending[k] = JobId(q, Wrap(Base(M_graphLst[q]) + Count(Pending, q, k)))

\* ... up to the last id it has given out.
LastIsRequested ==
  \A q \in Slots : Live(q) =>
    M_graphLst[q].m_lastRequestId =
      Wrap(Base(M_graphLst[q]) + Count(Pending, q, Len(Pending)))

\* A graph is inside a node only while it has nodes to run.
StepInNode(g) ==
  IF g.m_nextNodeToSchedule >= 0 /\ g.m_nextNodeToSchedule < Len(g.m_nodes)
    THEN g.m_runningStep < Len(g.m_nodes[g.m_nextNodeToSchedule + 1])
    ELSE g.m_runningStep < 0

StepsInNodes == \A q \in Slots : Live(q) => StepInNode(M_graphLst[q])

\* The graph of the call is running, and alone if it has a host operator.
CallRuns == call # Idle => Running(call.q)

HostRunsAlone ==
  call # Idle /\ HasHost(call.q) => \A p \in Slots \ {call.q} : ~Running(p)

\* While a host operator waits, its job is all there is.
HostWaitsAlone ==
  call.at = "wait" => responses \o jobs = <<HostJob>> /\ ~AllScheduled(this)

Orderly == IdsInOrder /\ LastIsRequested /\ StepsInNodes /\ HostRunsAlone /\ HostWaitsAlone

IInv == Types /\ CallRuns /\ Orderly
----------------------------------------------------------------------------
(* Types, and that the graph of a call in progress is running.             *)

LEMMA GraphIsLive == ASSUME NEW g \in GraphType PROVE g # NoGraph
  <1>1. g.m_nodes # <<>> BY ProgramsAssumption DEF GraphType
  <1> QED BY <1>1 DEF NoGraph

\* The graph that a call in progress is about.
LEMMA ThisGraph ==
  ASSUME Types, CallRuns, call # Idle
  PROVE  /\ call \in CallType /\ call.q \in Slots /\ this \in GraphType
         /\ this.m_nextNodeToSchedule >= 0 /\ step \in Nat
  <1>1. call \in CallType /\ call.q \in Slots BY DEF Types, CallType
  <1>2. this \in GraphType /\ this.m_nextNodeToSchedule >= 0
    BY <1>1 DEF CallRuns, Running, Live, Types, this
  <1>3. step \in Nat BY <1>2 DEF step, GraphType
  <1> QED BY <1>1, <1>2, <1>3

\* What the rest of an operator leaves of a graph.
LEMMA AdvancedGraph ==
  ASSUME Types, CallRuns, call # Idle
  PROVE  /\ Advanced(this) \in GraphType
         /\ Advanced(this).m_nextNodeToSchedule >= 0
         /\ Advanced(this).m_nodes = this.m_nodes
         /\ Advanced(this).m_lastRequestId = this.m_lastRequestId
         /\ Advanced(this).m_lastResponseId = this.m_lastResponseId
  <1>1. this \in GraphType /\ this.m_nextNodeToSchedule >= 0 /\ step \in Nat
    BY ThisGraph
  <1>2. CASE step + 1 < Len(node)
    <2>1. Advanced(this) = [this EXCEPT !.m_runningStep = step + 1]
      BY <1>2 DEF Advanced
    <2> QED BY <1>1, <2>1 DEF GraphType
  <1>3. CASE ~(step + 1 < Len(node))
    <2> DEFINE h == [this EXCEPT !.m_runningStep = -1]
    <2>1. /\ h \in GraphType
          /\ h.m_nextNodeToSchedule = this.m_nextNodeToSchedule
          /\ h.m_nodes = this.m_nodes
          /\ h.m_lastRequestId = this.m_lastRequestId
          /\ h.m_lastResponseId = this.m_lastResponseId
      BY <1>1 DEF GraphType
    <2>2. Advanced(this) = [h EXCEPT !.m_nextNodeToSchedule = this.m_nextNodeToSchedule + 1]
      BY <1>1, <1>3 DEF Advanced, GraphType
    <2> HIDE DEF h
    <2> QED BY <1>1, <2>1, <2>2 DEF GraphType
  <1> QED BY <1>2, <1>3

\* A step that changes one slot, to a graph that runs if a call is about it.
LEMMA SlotStep ==
  ASSUME Types, CallRuns, NEW q \in Slots, NEW g \in GraphType \cup {NoGraph},
         M_graphLst' = [M_graphLst EXCEPT ![q] = g],
         call' # Idle /\ call'.q = q => g \in GraphType /\ g.m_nextNodeToSchedule >= 0,
         call' # Idle => call # Idle /\ call'.q = call.q
  PROVE  /\ M_graphLst' \in [Slots -> GraphType \cup {NoGraph}] /\ CallRuns'
         /\ \A p \in Slots : M_graphLst'[p] = IF p = q THEN g ELSE M_graphLst[p]
  <1>1. M_graphLst' \in [Slots -> GraphType \cup {NoGraph}] BY DEF Types
  <1>2. \A p \in Slots : M_graphLst'[p] = IF p = q THEN g ELSE M_graphLst[p]
    BY DEF Types
  <1>3. ASSUME call' # Idle PROVE Running(call.q)'
    <2>1. call # Idle /\ call'.q = call.q /\ call.q \in Slots BY <1>3, ThisGraph
    <2>2. CASE call.q = q
      <3>1. M_graphLst'[call'.q] = g BY <1>2, <2>1, <2>2
      <3>2. g # NoGraph /\ g.m_nextNodeToSchedule >= 0 BY <1>3, <2>1, <2>2, GraphIsLive
      <3> QED BY <3>1, <3>2 DEF Running, Live
    <2>3. CASE call.q # q
      <3>1. M_graphLst'[call'.q] = M_graphLst[call.q] BY <1>2, <2>1, <2>3
      <3> QED BY <3>1, <2>1 DEF CallRuns, Running, Live
    <2> QED BY <2>2, <2>3
  <1> QED BY <1>1, <1>2, <1>3 DEF CallRuns

LEMMA GotoType ==
  ASSUME Types, CallRuns, call # Idle, NEW where \in {"execute", "wait", "check"}, Goto(where)
  PROVE  call' \in CallType /\ call'.q = call.q /\ call'.at = where /\ call' # Idle
  <1>1. call \in CallType BY ThisGraph
  <1>2. call' = [call EXCEPT !.at = where] BY DEF Goto
  <1>3. call' \in CallType /\ call'.q = call.q /\ call'.at = where
    BY <1>1, <1>2 DEF CallType
  <1> QED BY <1>3 DEF Idle

LEMMA GoesOnType ==
  ASSUME Types, CallRuns, call # Idle, GoesOn
  PROVE  /\ call' \in CallType /\ call'.q = call.q /\ call' # Idle
         /\ call'.at \in {"execute", "check"}
  BY GotoType DEF GoesOn

LEMMA QueueTypes ==
  /\ \A x \in AllIds : Types /\ Len(jobs) < MaxJobs =>
       Append(jobs, x) \in Seq(AllIds) /\ Len(Append(jobs, x)) <= MaxJobs
  /\ Types /\ responses # <<>> =>
       /\ Head(responses) \in AllIds
       /\ Tail(responses) \in Seq(AllIds) /\ Len(Tail(responses)) <= MaxResponses
  BY SizesAssumption DEF Types

LEMMA CallKinds ==
  ASSUME Types
  PROVE  call.at \in {"execute", "wait", "check"} => call # Idle /\ call \in CallType
  BY DEF Types, Idle

LEMMA TypesStep == Types /\ CallRuns /\ [Next]_vars => Types' /\ CallRuns'
  <1> SUFFICES ASSUME Types, CallRuns, [Next]_vars PROVE Types' /\ CallRuns' OBVIOUS
  <1> USE QueueTypes
  <1>1. ASSUME NEW q \in Slots, NEW nodes \in Programs, Construct(q, nodes)
        PROVE  Types' /\ CallRuns'
    <2> DEFINE g == [m_nodes |-> nodes, m_nextNodeToSchedule |-> -1, m_runningStep |-> -1,
                     m_lastRequestId |-> 0, m_lastResponseId |-> NeverAnswered]
    <2>1. g \in GraphType BY SizesAssumption DEF GraphType, NeverAnswered
    <2>2. M_graphLst' = [M_graphLst EXCEPT ![q] = g] /\ call' = Idle
      BY <1>1 DEF Construct
    <2> HIDE DEF g
    <2>3. M_graphLst' \in [Slots -> GraphType \cup {NoGraph}] /\ CallRuns'
      BY <2>1, <2>2, SlotStep
    <2> QED BY <1>1, <2>2, <2>3 DEF Construct, Types
  <1>2. ASSUME NEW q \in Slots, NEW nodes \in Programs, Rebuild(q, nodes)
        PROVE  Types' /\ CallRuns'
    <2> DEFINE g == [M_graphLst[q] EXCEPT !.m_nodes = nodes, !.m_nextNodeToSchedule = -1]
    <2>1. g \in GraphType
      <3> DEFINE h == [M_graphLst[q] EXCEPT !.m_nodes = nodes]
      <3>1. h \in GraphType BY <1>2 DEF Rebuild, Types, Live, GraphType
      <3>2. g = [h EXCEPT !.m_nextNodeToSchedule = -1]
        BY <1>2 DEF Rebuild, Types, Live, GraphType
      <3> HIDE DEF g, h
      <3> QED BY <3>1, <3>2 DEF GraphType
    <2>2. M_graphLst' = [M_graphLst EXCEPT ![q] = g] /\ call' = Idle
      BY <1>2 DEF Rebuild, Types
    <2> HIDE DEF g
    <2>3. M_graphLst' \in [Slots -> GraphType \cup {NoGraph}] /\ CallRuns'
      BY <2>1, <2>2, SlotStep
    <2> QED BY <1>2, <2>2, <2>3 DEF Rebuild, Types
  <1>3. ASSUME NEW q \in Slots, Destroy(q) PROVE Types' /\ CallRuns'
    <2>1. M_graphLst' \in [Slots -> GraphType \cup {NoGraph}] /\ CallRuns'
      BY <1>3, SlotStep DEF Destroy
    <2> QED BY <1>3, <2>1 DEF Destroy, Types
  <1>4. ASSUME NEW q \in Slots, Prepare(q) PROVE Types' /\ CallRuns'
    <2> DEFINE g == [M_graphLst[q] EXCEPT !.m_nextNodeToSchedule = 0]
    <2>1. g \in GraphType BY <1>4 DEF Prepare, Types, Live, GraphType
    <2>2. M_graphLst' = [M_graphLst EXCEPT ![q] = g] /\ call' = Idle
      BY <1>4 DEF Prepare
    <2> HIDE DEF g
    <2>3. M_graphLst' \in [Slots -> GraphType \cup {NoGraph}] /\ CallRuns'
      BY <2>1, <2>2, SlotStep
    <2> QED BY <1>4, <2>2, <2>3 DEF Prepare, Types
  <1>5. ASSUME NEW q \in Slots, NEW until \in BOOLEAN, Run(q, until)
        PROVE  Types' /\ CallRuns'
    <2>1. call' \in CallType /\ call'.q = q BY <1>5 DEF Run, CallType
    <2>2. CallRuns' BY <1>5, <2>1 DEF Run, CallRuns, Running, Live
    <2> QED BY <1>5, <2>1, <2>2 DEF Run, Types
  <1>6. CASE Issue
    <2>0. call # Idle /\ Len(jobs) < MaxJobs BY <1>6, CallKinds DEF Issue, AtOperator
    <2> DEFINE id == NextId(this.m_lastRequestId)
               g == [Advanced(this) EXCEPT !.m_lastRequestId = id]
    <2>1. call.q \in Slots /\ this \in GraphType BY <2>0, ThisGraph
    <2>2. id \in Ids BY <2>1, SizesAssumption DEF NextId, GraphType, Ids
    <2>3. g \in GraphType /\ g.m_nextNodeToSchedule >= 0
      BY <2>0, <2>2, AdvancedGraph DEF GraphType, Ids
    <2>4. M_graphLst' = [M_graphLst EXCEPT ![call.q] = g]
      BY <1>6 DEF Issue, this
    <2>5. call' \in CallType /\ call'.q = call.q BY <1>6, <2>0, GoesOnType DEF Issue
    <2>6. JobId(call.q, id) \in AllIds BY <2>1, <2>2, JobIdSplits
    <2>7. jobs' = Append(jobs, JobId(call.q, id)) /\ responses' = responses
      BY <1>6 DEF Issue
    <2> HIDE DEF g, id
    <2>8. M_graphLst' \in [Slots -> GraphType \cup {NoGraph}] /\ CallRuns'
      BY <2>0, <2>1, <2>3, <2>4, <2>5, SlotStep
    <2> QED BY <2>0, <2>5, <2>6, <2>7, <2>8 DEF Types
  <1>7. CASE Skip \/ HostAnswered
    <2>0. call # Idle BY <1>7, CallKinds DEF Skip, HostAnswered, AtOperator
    <2>1. call.q \in Slots BY <2>0, ThisGraph
    <2>2. M_graphLst' = [M_graphLst EXCEPT ![call.q] = Advanced(this)]
      BY <1>7 DEF Skip, HostAnswered, this
    <2>3. call' \in CallType /\ call'.q = call.q
      BY <1>7, <2>0, GoesOnType DEF Skip, HostAnswered
    <2>4. M_graphLst' \in [Slots -> GraphType \cup {NoGraph}] /\ CallRuns'
      BY <2>0, <2>1, <2>2, <2>3, AdvancedGraph, SlotStep
    <2> QED BY <1>7, <2>3, <2>4 DEF Skip, HostAnswered, Types
  <1>8. CASE Fails \/ HostWaits
    <2>0. call # Idle BY <1>8, CallKinds DEF Fails, HostWaits, AtOperator
    <2> DEFINE g == [this EXCEPT !.m_runningStep = step]
    <2>1. /\ call.q \in Slots /\ this \in GraphType
          /\ this.m_nextNodeToSchedule >= 0 /\ step \in Nat
      BY <2>0, ThisGraph
    <2>2. g \in GraphType /\ g.m_nextNodeToSchedule >= 0 BY <2>1 DEF GraphType
    <2>3. M_graphLst' = [M_graphLst EXCEPT ![call.q] = g]
      BY <1>8 DEF Fails, HostWaits, this
    <2>4. call' \in CallType \cup {Idle} /\ (call' # Idle => call'.q = call.q)
      BY <1>8, <2>0, GotoType DEF Fails, HostWaits
    <2> HIDE DEF g
    <2>5. M_graphLst' \in [Slots -> GraphType \cup {NoGraph}] /\ CallRuns'
      BY <2>0, <2>1, <2>2, <2>3, <2>4, SlotStep
    <2> QED BY <1>8, <2>4, <2>5 DEF Fails, HostWaits, Types
  <1>9. CASE HostStarts \/ Scheduled
    <2>0. call # Idle BY <1>9, CallKinds DEF HostStarts, Scheduled, AtOperator
    <2>1. call' \in CallType /\ call'.q = call.q
      BY <1>9, <2>0, GotoType DEF HostStarts, Scheduled
    <2>2. HostJob \in AllIds BY JobIdSplits, SizesAssumption DEF HostJob, Slots, Ids
    <2>3. CallRuns'
      BY <1>9, <2>0, <2>1 DEF HostStarts, Scheduled, CallRuns, Running, Live
    <2> QED BY <1>9, <2>1, <2>2, <2>3 DEF HostStarts, Scheduled, Types
  <1>10. CASE ReadResponse
    <2>0. call # Idle /\ responses # <<>> BY <1>10, CallKinds DEF ReadResponse
    <2> DEFINE queue == Head(responses) \div IdLimit
               g == [M_graphLst[queue] EXCEPT !.m_lastResponseId = Head(responses) % IdLimit]
    <2>1. queue \in Slots /\ Head(responses) % IdLimit \in Ids
      BY <2>0, AnswerSplits
    <2>2. M_graphLst' = [M_graphLst EXCEPT ![queue] = g] BY <1>10 DEF ReadResponse
    <2>3. CASE M_graphLst[queue] = NoGraph
      <3>1. g = NoGraph BY <2>3 DEF NoGraph
      <3>2. queue # call.q BY <2>3, <2>0 DEF CallRuns, Running, Live
      <3> HIDE DEF g, queue
      <3>3. M_graphLst' \in [Slots -> GraphType \cup {NoGraph}] /\ CallRuns'
        BY <1>10, <2>0, <2>1, <2>2, <3>1, <3>2, SlotStep DEF ReadResponse
      <3> QED BY <1>10, <2>0, <3>3 DEF ReadResponse, Types
    <2>4. CASE M_graphLst[queue] # NoGraph
      <3>1. g \in GraphType BY <2>1, <2>4 DEF Types, GraphType, Ids
      <3>2. g.m_nextNodeToSchedule = M_graphLst[queue].m_nextNodeToSchedule
        BY <2>1, <2>4 DEF Types, GraphType
      <3>3. queue = call.q => g.m_nextNodeToSchedule >= 0
        BY <2>0, <3>2 DEF CallRuns, Running
      <3> HIDE DEF g, queue
      <3>4. M_graphLst' \in [Slots -> GraphType \cup {NoGraph}] /\ CallRuns'
        BY <1>10, <2>0, <2>1, <2>2, <3>1, <3>3, SlotStep DEF ReadResponse
      <3> QED BY <1>10, <2>0, <3>4 DEF ReadResponse, Types
    <2> QED BY <2>3, <2>4
  <1>11. CASE Return
    <2>0. call # Idle BY <1>11, CallKinds DEF Return
    <2>1. call.q \in Slots /\ this \in GraphType BY <2>0, ThisGraph
    <2>2. CASE IsDone(this)
      <3> DEFINE g == [this EXCEPT !.m_nextNodeToSchedule = -1]
      <3>1. g \in GraphType BY <2>1 DEF GraphType
      <3>2. M_graphLst' = [M_graphLst EXCEPT ![call.q] = g] /\ call' = Idle
        BY <1>11, <2>2 DEF Return, this
      <3> HIDE DEF g
      <3>3. M_graphLst' \in [Slots -> GraphType \cup {NoGraph}] /\ CallRuns'
        BY <2>1, <3>1, <3>2, SlotStep
      <3> QED BY <1>11, <3>2, <3>3 DEF Return, Types
    <2>3. CASE ~IsDone(this)
      <3>1. /\ M_graphLst' = M_graphLst
            /\ call' \in CallType \cup {Idle} /\ (call' # Idle => call'.q = call.q)
        BY <1>11, <2>0, <2>3, GotoType DEF Return
      <3>2. CallRuns' BY <2>0, <3>1 DEF CallRuns, Running, Live
      <3> QED BY <1>11, <3>1, <3>2 DEF Return, Types
    <2> QED BY <2>2, <2>3
  <1>12. CASE Finish
    <2>1. Head(jobs) \in AllIds /\ Tail(jobs) \in Seq(AllIds) /\ Len(Tail(jobs)) <= MaxJobs
      BY <1>12, SizesAssumption DEF Finish, Types
    <2>2. /\ Append(responses, Head(jobs)) \in Seq(AllIds)
          /\ Len(Append(responses, Head(jobs))) <= MaxResponses
      BY <1>12, <2>1, SizesAssumption DEF Finish, Types
    <2> QED BY <1>12, <2>1, <2>2 DEF Finish, Types, CallRuns, Running, Live
  <1>13. CASE UNCHANGED vars
    BY <1>13 DEF vars, Types, CallRuns, Running, Live
  <1> QED BY <1>1, <1>2, <1>3, <1>4, <1>5, <1>6, <1>7, <1>8, <1>9, <1>10, <1>11, <1>12, <1>13
          DEF Next, RunStep
----------------------------------------------------------------------------
(* Job ids.                                                                *)

\* Fewer jobs are pending than there are ids.
LEMMA PendingType ==
  ASSUME Types
  PROVE  /\ Pending \in Seq(AllIds) /\ Len(Pending) \in Nat
         /\ Len(Pending) < IdLimit
  <1>1. Len(jobs) \in Nat /\ Len(responses) \in Nat BY DEF Types
  <1>2. /\ responses \o jobs \in Seq(AllIds)
        /\ Len(responses \o jobs) = Len(responses) + Len(jobs)
    BY ConcatProperties DEF Types
  <1>3. Len(responses) + Len(jobs) < IdLimit
    BY <1>1, SizesAssumption, IdsAssumption DEF Types
  <1>4. <<>> \in Seq(AllIds) /\ Len(<<>>) = 0 /\ 0 < IdLimit BY SizesAssumption
  <1>5. CASE call.at = "wait" BY <1>4, <1>5 DEF Pending
  <1>6. CASE call.at # "wait" BY <1>1, <1>2, <1>3, <1>6 DEF Pending
  <1> QED BY <1>5, <1>6

LEMMA BaseType == ASSUME NEW g \in GraphType PROVE Base(g) \in Ids
  BY SizesAssumption DEF GraphType, Base, NeverAnswered, Ids

LEMMA WrapType ==
  ASSUME NEW b \in Ids, NEW c \in 0 .. IdLimit - 1
  PROVE  Wrap(b + c) \in Ids /\ (Wrap(b + c) = b => c = 0)
  BY SizesAssumption DEF Wrap, Ids

LEMMA LiveGraph ==
  ASSUME Types, NEW q \in Slots, Live(q)
  PROVE  M_graphLst[q] \in GraphType
  BY DEF Types, Live

\* What the pending jobs of a graph are.
LEMMA PendingOf ==
  ASSUME Types, IdsInOrder, NEW k \in 1 .. Len(Pending)
  PROVE  \E q \in Slots :
           /\ Running(q) /\ Count(Pending, q, k) \in 0 .. IdLimit - 1
           /\ Wrap(Base(M_graphLst[q]) + Count(Pending, q, k)) \in Ids
           /\ Pending[k] = JobId(q, Wrap(Base(M_graphLst[q]) + Count(Pending, q, k)))
           /\ QueueOf(Pending[k]) = q
           /\ k \in Places(Pending, q, Len(Pending))
  <1>1. PICK q \in Slots :
          /\ Running(q)
          /\ Pending[k] = JobId(q, Wrap(Base(M_graphLst[q]) + Count(Pending, q, k)))
    BY DEF IdsInOrder
  <1>2. k \in Nat /\ k < IdLimit BY PendingType, SizesAssumption
  <1>3. Count(Pending, q, k) \in 0 .. IdLimit - 1
    <2>1. Count(Pending, q, k) \in 0 .. k BY <1>2, CountBounds
    <2> QED BY <2>1, <1>2, SizesAssumption
  <1>4. Base(M_graphLst[q]) \in Ids BY <1>1, LiveGraph, BaseType DEF Running
  <1>5. Wrap(Base(M_graphLst[q]) + Count(Pending, q, k)) \in Ids
    BY <1>3, <1>4, WrapType
  <1>6. QueueOf(Pending[k]) = q BY <1>1, <1>5, JobIdSplits
  <1>7. k \in Places(Pending, q, Len(Pending)) BY <1>6 DEF Places
  <1> QED BY <1>1, <1>3, <1>5, <1>6, <1>7

\* A graph that is not running has no pending job.
LEMMA StoppedHasNone ==
  ASSUME Types, IdsInOrder, NEW q \in Slots, ~Running(q)
  PROVE  Count(Pending, q, Len(Pending)) = 0
  <1>1. Places(Pending, q, Len(Pending)) = {}
    <2> SUFFICES ASSUME NEW k \in 1 .. Len(Pending), QueueOf(Pending[k]) = q
                 PROVE  FALSE
      BY DEF Places
    <2> QED BY PendingOf
  <1> QED BY <1>1, FS_EmptySet DEF Count

\* AllRequestAreCompleted is right: equal ids mean that nothing is pending.
LEMMA CompletedHasNone ==
  ASSUME Types, LastIsRequested, NEW q \in Slots, Live(q),
         M_graphLst[q].m_lastRequestId = M_graphLst[q].m_lastResponseId
  PROVE  Count(Pending, q, Len(Pending)) = 0
  <1> DEFINE g == M_graphLst[q]
             c == Count(Pending, q, Len(Pending))
  <1>1. g \in GraphType BY LiveGraph
  <1>2. g.m_lastResponseId # NeverAnswered
    BY <1>1, SizesAssumption DEF GraphType, NeverAnswered
  <1>3. Base(g) = g.m_lastRequestId BY <1>2 DEF Base
  <1>4. Base(g) \in Ids BY <1>1, BaseType
  <1>5. c \in 0 .. IdLimit - 1
    <2>1. Len(Pending) \in Nat /\ Len(Pending) < IdLimit BY PendingType
    <2>2. c \in 0 .. Len(Pending) BY <2>1, CountBounds
    <2> HIDE DEF c
    <2> QED BY <2>1, <2>2, SizesAssumption
  <1>6. Wrap(Base(g) + c) = Base(g) BY <1>3 DEF LastIsRequested
  <1> HIDE DEF c, g
  <1>7. c = 0 BY <1>4, <1>5, <1>6, WrapType
  <1> QED BY <1>7 DEF c

\* The order is kept when the pending jobs stay, and so do the ids of every
\* graph that has any.
LEMMA OrderKept ==
  ASSUME Types, IdsInOrder, LastIsRequested, Pending' = Pending,
         \A q \in Slots :
           \/ /\ Live(q) /\ (Running(q) => Running(q)')
              /\ M_graphLst'[q].m_lastRequestId = M_graphLst[q].m_lastRequestId
              /\ M_graphLst'[q].m_lastResponseId = M_graphLst[q].m_lastResponseId
           \/ /\ Count(Pending, q, Len(Pending)) = 0
              /\ Live(q)' => M_graphLst'[q].m_lastRequestId = Wrap(Base(M_graphLst'[q]) + 0)
  PROVE  IdsInOrder' /\ LastIsRequested'
  <1>1. IdsInOrder'
    <2> SUFFICES ASSUME NEW k \in 1 .. Len(Pending)
                 PROVE  \E q \in Slots :
                          /\ Running(q)'
                          /\ Pending[k] = JobId(q, Wrap(Base(M_graphLst'[q]) + Count(Pending, q, k)))
      BY DEF IdsInOrder
    <2>1. PICK q \in Slots :
            /\ Running(q)
            /\ Pending[k] = JobId(q, Wrap(Base(M_graphLst[q]) + Count(Pending, q, k)))
            /\ k \in Places(Pending, q, Len(Pending))
      BY PendingOf
    <2>2. Count(Pending, q, Len(Pending)) # 0 BY <2>1, PendingType, CountBounds
    <2>3. Base(M_graphLst'[q]) = Base(M_graphLst[q]) /\ Running(q)'
      BY <2>1, <2>2 DEF Base
    <2> QED BY <2>1, <2>3
  <1>2. LastIsRequested'
    <2> SUFFICES ASSUME NEW q \in Slots, Live(q)'
                 PROVE  M_graphLst'[q].m_lastRequestId =
                          Wrap(Base(M_graphLst'[q]) + Count(Pending, q, Len(Pending)))
      BY DEF LastIsRequested
    <2> QED BY DEF LastIsRequested, Base
  <1> QED BY <1>1, <1>2

\* GetJobId and ztaJobDone: the new job is the last pending one.
LEMMA OrderIssued ==
  ASSUME Types, IdsInOrder, LastIsRequested, NEW q \in Slots, Running(q), Running(q)',
         Len(Pending) + 1 < IdLimit,
         NEW id \in Ids, id = NextId(M_graphLst[q].m_lastRequestId),
         Pending' = Append(Pending, JobId(q, id)),
         M_graphLst'[q].m_lastRequestId = id,
         M_graphLst'[q].m_lastResponseId = M_graphLst[q].m_lastResponseId,
         \A p \in Slots : p # q => M_graphLst'[p] = M_graphLst[p]
  PROVE  IdsInOrder' /\ LastIsRequested'
  <1> DEFINE n == Len(Pending)
             c == Count(Pending, q, n)
  <1>1. /\ Pending \in Seq(AllIds) /\ n \in Nat
        /\ JobId(q, id) \in AllIds /\ QueueOf(JobId(q, id)) = q
    BY PendingType, JobIdSplits
  <1>2. /\ Len(Pending') = n + 1 /\ Pending'[n + 1] = JobId(q, id)
        /\ \A k \in 1 .. n : Pending'[k] = Pending[k]
    BY <1>1, AppendProperties
  <1> HIDE DEF n
  <1>3. \A p : \A k \in 0 .. n : Count(Pending', p, k) = Count(Pending, p, k)
    <2> SUFFICES ASSUME NEW p, NEW k \in 0 .. n
                 PROVE  Count(Pending', p, k) = Count(Pending, p, k)
      OBVIOUS
    <2>1. k \in Nat /\ \A l \in 1 .. k : Pending'[l] = Pending[l] BY <1>1, <1>2
    <2> QED BY <2>1, CountSame
  <1>4. \A p : Count(Pending', p, n + 1) = Count(Pending, p, n) + (IF p = q THEN 1 ELSE 0)
    <2> SUFFICES ASSUME NEW p
                 PROVE  Count(Pending', p, n + 1) =
                          Count(Pending, p, n) + (IF p = q THEN 1 ELSE 0)
      OBVIOUS
    <2>1. Count(Pending', p, n + 1) =
            Count(Pending', p, n) + (IF QueueOf(Pending'[n + 1]) = p THEN 1 ELSE 0)
      BY <1>1, CountNext
    <2> QED BY <2>1, <1>1, <1>2, <1>3
  <1>5. Base(M_graphLst'[q]) = Base(M_graphLst[q]) BY DEF Base
  <1>6. Live(q) /\ Base(M_graphLst[q]) \in Ids BY LiveGraph, BaseType DEF Running
  <1>7. c \in Nat /\ c + 1 < IdLimit
    <2>1. c \in 0 .. n BY <1>1, CountBounds
    <2> HIDE DEF c
    <2> QED BY <2>1, <1>1, SizesAssumption DEF n
  <1>8. M_graphLst[q].m_lastRequestId = Wrap(Base(M_graphLst[q]) + c)
    BY <1>6 DEF LastIsRequested, n
  <1>9. id = Wrap(Base(M_graphLst'[q]) + Count(Pending', q, n + 1))
    <2>1. Count(Pending', q, n + 1) = c + 1 BY <1>4
    <2> DEFINE b == Base(M_graphLst[q])
    <2>2. b \in Ids /\ id = NextId(Wrap(b + c)) BY <1>6, <1>8
    <2> HIDE DEF b, c
    <2>3. id = Wrap(b + (c + 1))
      BY <2>2, <1>7, SizesAssumption DEF NextId, Wrap, Ids
    <2> QED BY <2>1, <2>3, <1>5 DEF b
  <1>10. IdsInOrder'
    <2> SUFFICES ASSUME NEW k \in 1 .. n + 1
                 PROVE  \E p \in Slots :
                          /\ Running(p)'
                          /\ Pending'[k] = JobId(p, Wrap(Base(M_graphLst'[p]) + Count(Pending', p, k)))
      BY <1>2 DEF IdsInOrder
    <2>1. CASE k = n + 1 BY <2>1, <1>2, <1>9
    <2>2. CASE k # n + 1
      <3>1. k \in 1 .. Len(Pending) /\ k \in 0 .. n BY <2>2, <1>1 DEF n
      <3>2. PICK p \in Slots :
              /\ Running(p)
              /\ Pending[k] = JobId(p, Wrap(Base(M_graphLst[p]) + Count(Pending, p, k)))
        BY <3>1 DEF IdsInOrder
      <3>3. Running(p)' /\ Base(M_graphLst'[p]) = Base(M_graphLst[p])
        BY <3>2, <1>5 DEF Running, Live
      <3>4. Pending'[k] = Pending[k] /\ Count(Pending', p, k) = Count(Pending, p, k)
        BY <3>1, <1>2, <1>3 DEF n
      <3> QED BY <3>2, <3>3, <3>4
    <2> QED BY <2>1, <2>2
  <1>11. LastIsRequested'
    <2> SUFFICES ASSUME NEW p \in Slots, Live(p)'
                 PROVE  M_graphLst'[p].m_lastRequestId =
                          Wrap(Base(M_graphLst'[p]) + Count(Pending', p, n + 1))
      BY <1>2 DEF LastIsRequested
    <2>1. CASE p = q BY <2>1, <1>9
    <2>2. CASE p # q
      <3>1. M_graphLst'[p] = M_graphLst[p] /\ Live(p) BY <2>2 DEF Live
      <3>2. Count(Pending', p, n + 1) = Count(Pending, p, n)
        <4>1. Count(Pending, p, n) \in Int BY <1>1, CountBounds
        <4> QED BY <2>2, <4>1, <1>4
      <3> QED BY <3>1, <3>2 DEF LastIsRequested, n
    <2> QED BY <2>1, <2>2
  <1> QED BY <1>10, <1>11

\* CheckResponse: the answer read is the oldest pending job of its graph.
LEMMA OrderRead ==
  ASSUME Types, IdsInOrder, LastIsRequested, Pending # <<>>,
         Pending' = Tail(Pending),
         NEW q \in Slots, q = Head(Pending) \div IdLimit,
         NEW resp \in Ids, resp = Head(Pending) % IdLimit,
         M_graphLst' = [M_graphLst EXCEPT ![q] = [M_graphLst[q] EXCEPT !.m_lastResponseId = resp]]
  PROVE  Running(q) /\ IdsInOrder' /\ LastIsRequested'
  <1> DEFINE n == Len(Pending)
             g == M_graphLst[q]
             h == M_graphLst'[q]
  <1>1. /\ Pending \in Seq(AllIds) /\ n \in Nat \ {0} /\ n < IdLimit
        /\ Head(Pending) = Pending[1]
    BY PendingType
  <1>2. /\ Len(Pending') = n - 1
        /\ \A k \in 1 .. n - 1 : Pending'[k] = Pending[k + 1]
    BY <1>1, HeadTailProperties
  <1>3. Running(q) /\ Pending[1] = JobId(q, Wrap(Base(g) + 1))
    <2>1. 1 \in 1 .. Len(Pending) BY <1>1
    <2>2. PICK p \in Slots :
            /\ Running(p) /\ QueueOf(Pending[1]) = p
            /\ Pending[1] = JobId(p, Wrap(Base(M_graphLst[p]) + Count(Pending, p, 1)))
      BY <2>1, PendingOf
    <2>3. p = q BY <2>2, <1>1 DEF QueueOf
    <2>4. Count(Pending, q, 0 + 1) =
            Count(Pending, q, 0) + (IF QueueOf(Pending[0 + 1]) = q THEN 1 ELSE 0)
      BY CountNext
    <2>5. 0 + 1 = 1 /\ Count(Pending, q, 0) = 0 BY CountNone
    <2>6. Count(Pending, q, 1) = 1 BY <2>2, <2>3, <2>4, <2>5
    <2> QED BY <2>2, <2>3, <2>6
  <1>4. g \in GraphType /\ Base(g) \in Ids BY <1>3, LiveGraph, BaseType DEF Running
  <1>5. resp = Wrap(Base(g) + 1)
    <2>1. Wrap(Base(g) + 1) \in Ids BY <1>1, <1>4, WrapType, SizesAssumption
    <2> QED BY <1>1, <1>3, <2>1, JobIdSplits
  <1>6. /\ h.m_lastResponseId = resp /\ h.m_lastRequestId = g.m_lastRequestId
        /\ h # NoGraph /\ h.m_nextNodeToSchedule = g.m_nextNodeToSchedule
        /\ \A p \in Slots : p # q => M_graphLst'[p] = M_graphLst[p]
    <2>1. h = [g EXCEPT !.m_lastResponseId = resp]
          /\ \A p \in Slots : p # q => M_graphLst'[p] = M_graphLst[p]
      BY DEF Types
    <2> HIDE DEF g, h
    <2>2. h \in GraphType BY <1>4, <2>1 DEF GraphType, Ids
    <2> QED BY <1>4, <2>1, <2>2, GraphIsLive DEF GraphType
  <1> HIDE DEF h
  <1>7. Base(h) = resp BY <1>6, SizesAssumption DEF Base, NeverAnswered, Ids
  <1>8. \A p : \A k \in 0 .. n - 1 :
          Count(Pending, p, k + 1) = Count(Pending', p, k) + (IF p = q THEN 1 ELSE 0)
    <2> SUFFICES ASSUME NEW p, NEW k \in 0 .. n - 1
                 PROVE  Count(Pending, p, k + 1) =
                          Count(Pending', p, k) + (IF p = q THEN 1 ELSE 0)
      OBVIOUS
    <2>1. k \in Nat /\ \A l \in 1 .. k : Pending'[l] = Pending[l + 1] BY <1>1, <1>2
    <2>2. QueueOf(Pending[1]) = q BY <1>1 DEF QueueOf
    <2> DEFINE s == Pending
               t == Pending'
    <2>3. \A l \in 1 .. k : t[l] = s[l + 1] BY <2>1
    <2> HIDE DEF s, t
    <2>4. Count(s, p, k + 1) = Count(t, p, k) + (IF QueueOf(s[1]) = p THEN 1 ELSE 0)
      BY <2>1, <2>3, CountTail
    <2> QED BY <2>2, <2>4 DEF s, t
  <1>9. \A p \in Slots, k \in 0 .. n - 1 : Running(p) \/ Live(p) =>
          Wrap(Base(M_graphLst'[p]) + Count(Pending', p, k)) =
            Wrap(Base(M_graphLst[p]) + Count(Pending, p, k + 1))
    <2> SUFFICES ASSUME NEW p \in Slots, NEW k \in 0 .. n - 1
                 PROVE  Wrap(Base(M_graphLst'[p]) + Count(Pending', p, k)) =
                          Wrap(Base(M_graphLst[p]) + Count(Pending, p, k + 1))
      OBVIOUS
    <2> DEFINE c == Count(Pending', p, k)
    <2>1. c \in 0 .. k /\ k \in 0 .. n - 1 /\ n \in Nat /\ n < IdLimit
      BY <1>1, CountBounds
    <2>2. Count(Pending, p, k + 1) = c + (IF p = q THEN 1 ELSE 0) BY <1>8
    <2> HIDE DEF c
    <2>3. CASE p = q
      <3> DEFINE b == Base(g)
      <3>1. b \in Ids /\ Base(M_graphLst'[p]) = Wrap(b + 1) /\ Base(M_graphLst[p]) = b
        BY <2>3, <1>4, <1>5, <1>7 DEF h
      <3>2. Count(Pending, p, k + 1) = c + 1 BY <2>2, <2>3
      <3> HIDE DEF b
      <3>3. Wrap(Wrap(b + 1) + c) = Wrap(b + (c + 1))
        <4>1. c \in Nat /\ c + 1 < IdLimit /\ IdLimit \in Nat
          BY <2>1, SizesAssumption
        <4>2. b \in 0 .. IdLimit - 1 BY <3>1 DEF Ids
        <4>3. CASE b + 1 >= IdLimit BY <4>1, <4>2, <4>3 DEF Wrap
        <4>4. CASE ~(b + 1 >= IdLimit) BY <4>1, <4>2, <4>4 DEF Wrap
        <4> QED BY <4>3, <4>4
      <3> QED BY <3>1, <3>2, <3>3 DEF c
    <2>4. CASE p # q
      <3>1. M_graphLst'[p] = M_graphLst[p] BY <2>4, <1>6
      <3>2. Count(Pending, p, k + 1) = c BY <2>1, <2>2, <2>4
      <3> QED BY <3>1, <3>2 DEF c
    <2> QED BY <2>3, <2>4
  <1>10. \A p \in Slots : (Running(p) => Running(p)') /\ (Live(p)' => Live(p))
    <2> SUFFICES ASSUME NEW p \in Slots
                 PROVE  (Running(p) => Running(p)') /\ (Live(p)' => Live(p))
      OBVIOUS
    <2>1. CASE p = q BY <2>1, <1>3, <1>6 DEF Running, Live, h
    <2>2. CASE p # q BY <2>2, <1>6 DEF Running, Live
    <2> QED BY <2>1, <2>2
  <1>11. IdsInOrder'
    <2> SUFFICES ASSUME NEW k \in 1 .. n - 1
                 PROVE  \E p \in Slots :
                          /\ Running(p)'
                          /\ Pending'[k] = JobId(p, Wrap(Base(M_graphLst'[p]) + Count(Pending', p, k)))
      BY <1>2 DEF IdsInOrder
    <2>1. k + 1 \in 1 .. Len(Pending) /\ k \in 0 .. n - 1 BY <1>1
    <2>2. PICK p \in Slots :
            /\ Running(p)
            /\ Pending[k + 1] = JobId(p, Wrap(Base(M_graphLst[p]) + Count(Pending, p, k + 1)))
      BY <2>1 DEF IdsInOrder
    <2>3. Pending'[k] = Pending[k + 1] BY <1>2
    <2> HIDE DEF n
    <2> QED BY <2>1, <2>2, <2>3, <1>9, <1>10
  <1>12. LastIsRequested'
    <2> SUFFICES ASSUME NEW p \in Slots, Live(p)'
                 PROVE  M_graphLst'[p].m_lastRequestId =
                          Wrap(Base(M_graphLst'[p]) + Count(Pending', p, n - 1))
      BY <1>2 DEF LastIsRequested
    <2>1. n - 1 \in 0 .. n - 1 /\ (n - 1) + 1 = n BY <1>1
    <2>2. Live(p) BY <1>10
    <2>3. M_graphLst'[p].m_lastRequestId = M_graphLst[p].m_lastRequestId
      BY <1>6 DEF h
    <2>4. M_graphLst[p].m_lastRequestId = Wrap(Base(M_graphLst[p]) + Count(Pending, p, n))
      BY <2>2 DEF LastIsRequested
    <2> HIDE DEF n
    <2>5. Wrap(Base(M_graphLst'[p]) + Count(Pending', p, n - 1)) =
            Wrap(Base(M_graphLst[p]) + Count(Pending, p, (n - 1) + 1))
      BY <2>1, <2>2, <1>9
    <2> QED BY <2>1, <2>3, <2>4, <2>5
  <1> QED BY <1>3, <1>11, <1>12
----------------------------------------------------------------------------
(* The queue of jobs and the queue of answers as one sequence.             *)

LEMMA ConcatAppend ==
  ASSUME NEW S, NEW r \in Seq(S), NEW j \in Seq(S), NEW x \in S
  PROVE  r \o Append(j, x) = Append(r \o j, x)
  <1>1. <<x>> \in Seq(S) /\ r \o j \in Seq(S) BY ConcatProperties
  <1>2. Append(j, x) = j \o <<x>> /\ Append(r \o j, x) = (r \o j) \o <<x>>
    BY <1>1, AppendIsConcat
  <1> QED BY <1>1, <1>2, ConcatAssociative

LEMMA ConcatTail ==
  ASSUME NEW S, NEW r \in Seq(S), NEW j \in Seq(S), r # <<>>
  PROVE  /\ Tail(r) \o j = Tail(r \o j)
         /\ r \o j # <<>> /\ Head(r \o j) = Head(r)
  <1>1. /\ r \o j \in Seq(S) /\ Len(r \o j) = Len(r) + Len(j)
        /\ \A i \in 1 .. Len(r) + Len(j) :
             (r \o j)[i] = IF i <= Len(r) THEN r[i] ELSE j[i - Len(r)]
    BY ConcatProperties
  <1>2. Len(r) \in Nat \ {0} /\ Len(j) \in Nat BY EmptySeq, LenProperties
  <1>3. r \o j # <<>>
    <2>1. Len(r \o j) # 0 BY <1>1, <1>2
    <2> QED BY <2>1, EmptySeq
  <1>4. Head(r \o j) = Head(r) BY <1>1, <1>2
  <1>5. /\ Tail(r) \in Seq(S) /\ Len(Tail(r)) = Len(r) - 1
        /\ \A i \in 1 .. Len(Tail(r)) : Tail(r)[i] = r[i + 1]
    BY HeadTailProperties
  <1>6. /\ Tail(r \o j) \in Seq(S) /\ Len(Tail(r \o j)) = Len(r \o j) - 1
        /\ \A i \in 1 .. Len(Tail(r \o j)) : Tail(r \o j)[i] = (r \o j)[i + 1]
    BY <1>1, <1>3, HeadTailProperties
  <1>7. /\ Tail(r) \o j \in Seq(S) /\ Len(Tail(r) \o j) = Len(Tail(r)) + Len(j)
        /\ \A i \in 1 .. Len(Tail(r)) + Len(j) :
             (Tail(r) \o j)[i] = IF i <= Len(Tail(r)) THEN Tail(r)[i] ELSE j[i - Len(Tail(r))]
    BY <1>5, ConcatProperties
  <1> DEFINE u == Tail(r) \o j
             v == Tail(r \o j)
             n == Len(r)
             m == Len(j)
  <1>8. Len(u) = n + m - 1 /\ Len(v) = n + m - 1 BY <1>1, <1>2, <1>5, <1>6, <1>7
  <1>9. \A i \in 1 .. Len(u) : u[i] = v[i]
    <2> SUFFICES ASSUME NEW i \in 1 .. n + m - 1 PROVE u[i] = v[i] BY <1>8
    <2>1. v[i] = IF i + 1 <= n THEN r[i + 1] ELSE j[i + 1 - n]
      BY <1>1, <1>2, <1>6
    <2>2. u[i] = IF i <= n - 1 THEN Tail(r)[i] ELSE j[i - (n - 1)]
      BY <1>2, <1>5, <1>7
    <2>3. i <= n - 1 => Tail(r)[i] = r[i + 1] BY <1>2, <1>5
    <2>4. i + 1 <= n <=> i <= n - 1 BY <1>2
    <2>5. i + 1 - n = i - (n - 1) BY <1>2
    <2>6. CASE i <= n - 1
      <3>1. u[i] = Tail(r)[i] BY <2>2, <2>6
      <3>2. v[i] = r[i + 1] BY <2>1, <2>4, <2>6
      <3> QED BY <3>1, <3>2, <2>3, <2>6
    <2>7. CASE ~(i <= n - 1)
      <3>1. u[i] = j[i - (n - 1)] BY <2>2, <2>7
      <3>2. v[i] = j[i + 1 - n] BY <2>1, <2>4, <2>7
      <3> QED BY <3>1, <3>2, <2>5
    <2> QED BY <2>6, <2>7
  <1> HIDE DEF u, v, n, m
  <1>10. u = v BY <1>6, <1>7, <1>8, <1>9, SeqEqual DEF u, v
  <1> QED BY <1>3, <1>4, <1>10 DEF u, v

LEMMA ConcatMove ==
  ASSUME NEW S, NEW r \in Seq(S), NEW j \in Seq(S), j # <<>>
  PROVE  Append(r, Head(j)) \o Tail(j) = r \o j
  <1>1. /\ Head(j) \in S /\ Tail(j) \in Seq(S) /\ <<Head(j)>> \in Seq(S)
        /\ j = <<Head(j)>> \o Tail(j)
    <2>1. Head(j) \in S /\ Tail(j) \in Seq(S) BY HeadTailProperties
    <2>2. <<Head(j)>> \in Seq(S) BY <2>1
    <2>3. j = <<Head(j)>> \o Tail(j) OBVIOUS
    <2> QED BY <2>1, <2>2, <2>3
  <1>2. Append(r, Head(j)) = r \o <<Head(j)>> BY <1>1, AppendIsConcat
  <1> QED BY <1>1, <1>2, ConcatAssociative

LEMMA ConcatOne ==
  ASSUME NEW S, NEW r \in Seq(S), NEW j \in Seq(S), NEW x \in S,
         r \o j = <<x>>, r # <<>>
  PROVE  Head(r) = x /\ Tail(r) = <<>> /\ j = <<>>
  <1>1. Len(r) \in Nat \ {0} /\ Len(j) \in Nat BY EmptySeq, LenProperties
  <1>2. Len(r) + Len(j) = 1 BY ConcatProperties
  <1>3. Len(r) = 1 /\ Len(j) = 0
    <2>1. \A a \in Nat \ {0}, b \in Nat : a + b = 1 => a = 1 /\ b = 0 OBVIOUS
    <2> QED BY <1>1, <1>2, <2>1
  <1>4. j = <<>> BY <1>3, EmptySeq
  <1>5. r = <<x>> BY <1>4, ConcatEmptySeq
  <1> QED BY <1>4, <1>5
----------------------------------------------------------------------------
(* The steps.                                                              *)

LEMMA NodeBounds ==
  ASSUME Types, CallRuns, StepsInNodes, call # Idle, ~AllScheduled(this)
  PROVE  /\ this.m_nextNodeToSchedule + 1 \in 1 .. Len(this.m_nodes)
         /\ Len(this.m_nodes) \in Nat
         /\ \A k \in 1 .. Len(this.m_nodes) : Len(this.m_nodes[k]) \in Nat
         /\ Len(node) \in Nat /\ step < Len(node)
  <1> DEFINE Nodes == Seq({"job", "none", "host", "fail"}) \ {<<>>}
  <1>1. /\ call.q \in Slots /\ this \in GraphType
        /\ this.m_nextNodeToSchedule >= 0 /\ step \in Nat
    BY ThisGraph
  <1>2. this.m_nodes \in Seq(Nodes) BY <1>1, ProgramsAssumption DEF GraphType
  <1>3. Len(this.m_nodes) \in Nat BY <1>2, LenProperties
  <1>4. this.m_nextNodeToSchedule + 1 \in 1 .. Len(this.m_nodes)
    BY <1>1, <1>3 DEF AllScheduled, GraphType
  <1>5. \A k \in 1 .. Len(this.m_nodes) : Len(this.m_nodes[k]) \in Nat \ {0}
    <2> SUFFICES ASSUME NEW k \in 1 .. Len(this.m_nodes)
                 PROVE  Len(this.m_nodes[k]) \in Nat \ {0}
      OBVIOUS
    <2>1. this.m_nodes[k] \in Nodes BY <1>2, ElementOfSeq
    <2> QED BY <2>1, EmptySeq
  <1>6. Len(node) \in Nat \ {0} BY <1>4, <1>5 DEF node
  <1>7. this.m_runningStep < Len(node)
    <2>1. StepInNode(this) BY <1>1 DEF StepsInNodes, CallRuns, Running, this
    <2>2. this.m_nextNodeToSchedule < Len(this.m_nodes)
      BY <1>1, <1>3 DEF AllScheduled, GraphType
    <2> QED BY <2>1, <2>2, <1>1 DEF StepInNode, node
  <1>8. step < Len(node) BY <1>1, <1>6, <1>7 DEF step
  <1> QED BY <1>3, <1>4, <1>5, <1>6, <1>8

LEMMA AdvancedInNode ==
  ASSUME Types, CallRuns, StepsInNodes, call # Idle, ~AllScheduled(this)
  PROVE  StepInNode(Advanced(this))
  <1> DEFINE g == Advanced(this)
             next == this.m_nextNodeToSchedule
  <1>1. /\ this \in GraphType /\ next \in Int /\ next >= 0 /\ step \in Nat
    BY ThisGraph DEF GraphType
  <1>2. /\ next + 1 \in 1 .. Len(this.m_nodes) /\ Len(this.m_nodes) \in Nat
        /\ \A k \in 1 .. Len(this.m_nodes) : Len(this.m_nodes[k]) \in Nat
        /\ Len(node) \in Nat
    BY NodeBounds
  <1>3. g.m_nodes = this.m_nodes BY AdvancedGraph
  <1>4. CASE step + 1 < Len(node)
    <2>1. g = [this EXCEPT !.m_runningStep = step + 1] BY <1>4 DEF Advanced
    <2>2. g.m_runningStep = step + 1 /\ g.m_nextNodeToSchedule = next
      BY <1>1, <2>1 DEF GraphType
    <2>3. next >= 0 /\ next < Len(this.m_nodes) BY <1>1, <1>2
    <2> HIDE DEF g
    <2>4. StepInNode(g) BY <1>3, <1>4, <2>2, <2>3 DEF StepInNode, node
    <2> QED BY <2>4 DEF g
  <1>5. CASE ~(step + 1 < Len(node))
    <2>1. g.m_runningStep = -1 /\ g.m_nextNodeToSchedule = next + 1
      <3>1. g = [[this EXCEPT !.m_runningStep = -1] EXCEPT !.m_nextNodeToSchedule = next + 1]
        BY <1>1, <1>5 DEF Advanced, GraphType
      <3> DEFINE h == [this EXCEPT !.m_runningStep = -1]
      <3>2. h \in GraphType /\ h.m_runningStep = -1 BY <1>1 DEF GraphType
      <3>3. g = [h EXCEPT !.m_nextNodeToSchedule = next + 1] BY <3>1
      <3> HIDE DEF g, h
      <3> QED BY <3>2, <3>3 DEF GraphType
    <2>2. next + 1 < Len(this.m_nodes) => Len(this.m_nodes[(next + 1) + 1]) \in Nat
      <3>1. next + 1 < Len(this.m_nodes) => (next + 1) + 1 \in 1 .. Len(this.m_nodes)
        BY <1>1, <1>2
      <3> QED BY <1>2, <3>1
    <2> HIDE DEF g, next
    <2>3. StepInNode(g) BY <1>1, <1>3, <2>1, <2>2 DEF StepInNode
    <2> QED BY <2>3 DEF g
  <1> QED BY <1>4, <1>5

\* What a program does between runs: a graph that is not running is changed.
LEMMA IdleStep ==
  ASSUME IInv, call = Idle, call' = Idle, UNCHANGED <<jobs, responses>>,
         NEW q \in Slots, ~Running(q), NEW g \in GraphType \cup {NoGraph},
         M_graphLst' = [M_graphLst EXCEPT ![q] = g],
         g # NoGraph => StepInNode(g) /\ g.m_lastRequestId = Wrap(Base(g) + 0)
  PROVE  Orderly'
  <1> USE DEF IInv, Orderly
  <1>1. \A p \in Slots : M_graphLst'[p] = IF p = q THEN g ELSE M_graphLst[p]
    BY DEF Types
  <1>2. Pending' = Pending BY DEF Pending
  <1>3. IdsInOrder' /\ LastIsRequested'
    <2>1. \A p \in Slots : ~Running(p) => Count(Pending, p, Len(Pending)) = 0
      BY StoppedHasNone
    <2>2. \A p \in Slots : p # q /\ Live(p) =>
            /\ Running(p) => Running(p)'
            /\ M_graphLst'[p] = M_graphLst[p]
      BY <1>1 DEF Running, Live
    <2>3. \A p \in Slots : p # q /\ ~Live(p) => ~Running(p) /\ ~Live(p)'
      BY <1>1 DEF Running, Live
    <2>4. Live(q)' => M_graphLst'[q].m_lastRequestId = Wrap(Base(M_graphLst'[q]) + 0)
      BY <1>1 DEF Live
    <2> QED BY <1>2, <2>1, <2>2, <2>3, <2>4, OrderKept
  <1>4. StepsInNodes' BY <1>1 DEF StepsInNodes, Live
  <1>5. HostRunsAlone' /\ HostWaitsAlone' BY DEF HostRunsAlone, HostWaitsAlone, Idle
  <1> QED BY <1>3, <1>4, <1>5

\* A step of the call in progress that changes its graph, not the ids.
LEMMA ThisStep ==
  ASSUME IInv, call # Idle, NEW g \in GraphType, g.m_nextNodeToSchedule >= 0,
         g.m_nodes = this.m_nodes, g.m_lastRequestId = this.m_lastRequestId,
         g.m_lastResponseId = this.m_lastResponseId, StepInNode(g),
         M_graphLst' = [M_graphLst EXCEPT ![call.q] = g],
         call' # Idle => call'.q = call.q /\ call'.at # "wait",
         Pending' = Pending
  PROVE  Orderly'
  <1> USE DEF IInv, Orderly
  <1>0. call.q \in Slots /\ Live(call.q) BY ThisGraph DEF CallRuns, Running
  <1>1. \A p \in Slots : M_graphLst'[p] = IF p = call.q THEN g ELSE M_graphLst[p]
    BY <1>0 DEF Types
  <1>2. g # NoGraph BY GraphIsLive
  <1>3. IdsInOrder' /\ LastIsRequested'
    <2>1. \A p \in Slots : ~Running(p) => Count(Pending, p, Len(Pending)) = 0
      BY StoppedHasNone
    <2>2. \A p \in Slots : Live(p) =>
            /\ Running(p) => Running(p)'
            /\ M_graphLst'[p].m_lastRequestId = M_graphLst[p].m_lastRequestId
            /\ M_graphLst'[p].m_lastResponseId = M_graphLst[p].m_lastResponseId
      BY <1>1, <1>2 DEF Running, Live, this
    <2>3. \A p \in Slots : ~Live(p) => ~Running(p) /\ ~Live(p)'
      BY <1>0, <1>1 DEF Running, Live
    <2> QED BY <2>1, <2>2, <2>3, OrderKept
  <1>4. StepsInNodes' BY <1>1 DEF StepsInNodes, Live
  <1>5. HostRunsAlone'
    <2> SUFFICES ASSUME call' # Idle, HasHost(call.q)', NEW p \in Slots \ {call.q}
                 PROVE  ~Running(p)'
      BY DEF HostRunsAlone
    <2>1. HasHost(call.q) BY <1>0, <1>1 DEF HasHost, this
    <2> QED BY <1>1, <2>1 DEF HostRunsAlone, Running, Live
  <1>6. HostWaitsAlone' BY DEF HostWaitsAlone, Idle
  <1> QED BY <1>3, <1>4, <1>5, <1>6

LEMMA PendingCount ==
  ASSUME IInv, NEW q \in Slots, Live(q), Count(Pending, q, Len(Pending)) = 0
  PROVE  M_graphLst[q].m_lastRequestId = Wrap(Base(M_graphLst[q]) + 0)
  BY DEF IInv, Orderly, LastIsRequested

LEMMA IssueStep ==
  ASSUME IInv, Issue
  PROVE  Orderly'
  <1> USE DEF IInv, Orderly
  <1>0. call # Idle /\ call.at = "execute" /\ ~AllScheduled(this) /\ Len(jobs) < MaxJobs
    BY CallKinds DEF Issue, AtOperator
  <1>q. PICK q \in Slots : q = call.q BY <1>0, ThisGraph
  <1> DEFINE id == NextId(this.m_lastRequestId)
             g == [Advanced(this) EXCEPT !.m_lastRequestId = id]
  <1>1. q \in Slots /\ this \in GraphType /\ Running(q)
    BY <1>0, <1>q, ThisGraph DEF CallRuns
  <1>2. id \in Ids BY <1>1, SizesAssumption DEF NextId, GraphType, Ids
  <1>3. /\ g \in GraphType /\ g.m_nextNodeToSchedule >= 0 /\ g.m_nodes = this.m_nodes
        /\ g.m_lastRequestId = id /\ g.m_lastResponseId = this.m_lastResponseId
        /\ StepInNode(g)
    <2>1. /\ Advanced(this) \in GraphType /\ Advanced(this).m_nextNodeToSchedule >= 0
          /\ Advanced(this).m_nodes = this.m_nodes
          /\ Advanced(this).m_lastResponseId = this.m_lastResponseId
          /\ StepInNode(Advanced(this))
      BY <1>0, AdvancedGraph, AdvancedInNode
    <2> DEFINE a == Advanced(this)
    <2>2. /\ g \in GraphType /\ g.m_nextNodeToSchedule = a.m_nextNodeToSchedule
          /\ g.m_nodes = a.m_nodes /\ g.m_lastRequestId = id
          /\ g.m_lastResponseId = a.m_lastResponseId /\ g.m_runningStep = a.m_runningStep
      BY <1>2, <2>1 DEF GraphType, Ids
    <2> HIDE DEF g
    <2> QED BY <2>1, <2>2 DEF StepInNode
  <1>4. M_graphLst' = [M_graphLst EXCEPT ![q] = g] BY <1>q DEF Issue, this
  <1>5. call'.q = q /\ call'.at # "wait" BY <1>0, <1>q, GoesOnType DEF Issue
  <1>6. JobId(q, id) \in AllIds BY <1>1, <1>2, JobIdSplits
  <1>7. jobs' = Append(jobs, JobId(q, id)) /\ responses' = responses BY <1>q DEF Issue
  <1>8. Pending' = Append(Pending, JobId(q, id))
    BY <1>0, <1>5, <1>6, <1>7, ConcatAppend DEF Pending, Types
  <1> HIDE DEF id, g
  <1>9. \A p \in Slots : M_graphLst'[p] = IF p = q THEN g ELSE M_graphLst[p]
    BY <1>1, <1>4 DEF Types
  <1>10. Running(q)' BY <1>1, <1>3, <1>9, GraphIsLive DEF Running, Live
  <1>11. Len(Pending) + 1 < IdLimit
    <2>1. Len(jobs) \in Nat /\ Len(responses) \in Nat BY DEF Types
    <2>2. Len(Pending) = Len(responses) + Len(jobs)
      BY <1>0, ConcatProperties DEF Pending, Types
    <2> QED BY <1>0, <2>1, <2>2, SizesAssumption, IdsAssumption DEF Types
  <1>12. IdsInOrder' /\ LastIsRequested'
    <2>1. /\ M_graphLst'[q].m_lastRequestId = id
          /\ M_graphLst'[q].m_lastResponseId = M_graphLst[q].m_lastResponseId
          /\ \A p \in Slots : p # q => M_graphLst'[p] = M_graphLst[p]
      BY <1>1, <1>3, <1>9, <1>q DEF this
    <2>2. id = NextId(M_graphLst[q].m_lastRequestId) BY <1>q DEF id, this
    <2> QED BY <1>1, <1>2, <1>8, <1>10, <1>11, <2>1, <2>2, OrderIssued
  <1>13. StepsInNodes' BY <1>3, <1>9 DEF StepsInNodes, Live
  <1>14. HostRunsAlone'
    <2> SUFFICES ASSUME HasHost(call.q)', NEW p \in Slots \ {q}
                 PROVE  ~Running(p)'
      BY <1>5 DEF HostRunsAlone
    <2>1. HasHost(q) BY <1>1, <1>3, <1>5, <1>9, <1>q DEF HasHost, this
    <2> QED BY <1>0, <1>9, <1>q, <2>1 DEF HostRunsAlone, Running, Live
  <1>15. HostWaitsAlone' BY <1>5 DEF HostWaitsAlone
  <1> QED BY <1>12, <1>13, <1>14, <1>15

\* A host operator starts when nothing is pending: its own graph's jobs are
\* answered, and no other graph is running.
LEMMA HostStartsStep ==
  ASSUME IInv, HostStarts
  PROVE  Orderly'
  <1> USE DEF IInv, Orderly
  <1>0. /\ call # Idle /\ call.at = "execute" /\ ~AllScheduled(this)
        /\ AllRequestAreCompleted(this)
    BY CallKinds DEF HostStarts, AtOperator
  <1> DEFINE q == call.q
  <1>1. q \in Slots /\ this \in GraphType /\ Running(q) /\ step \in Nat
    BY <1>0, ThisGraph DEF CallRuns
  <1>2. HasHost(q)
    <2>1. /\ this.m_nextNodeToSchedule + 1 \in 1 .. Len(this.m_nodes)
          /\ Len(node) \in Nat /\ step < Len(node)
      BY <1>0, NodeBounds
    <2>2. node[step + 1] = "host" /\ step + 1 \in 1 .. Len(node)
      BY <1>1, <2>1 DEF HostStarts, AtOperator
    <2>3. Contains(node, "host") BY <2>2 DEF Contains
    <2>4. DOMAIN this.m_nodes = 1 .. Len(this.m_nodes)
      <3>1. this.m_nodes \in Seq(Seq({"job", "none", "host", "fail"}) \ {<<>>})
        BY <1>1, ProgramsAssumption DEF GraphType
      <3> QED BY <3>1, LenProperties
    <2> QED BY <2>1, <2>3, <2>4 DEF HasHost, node, this
  <1>3. \A p \in Slots \ {q} : ~Running(p) BY <1>0, <1>2 DEF HostRunsAlone
  <1>4. Count(Pending, q, Len(Pending)) = 0
    BY <1>0, <1>1, CompletedHasNone DEF AllRequestAreCompleted, Running, this
  <1>5. Pending = <<>>
    <2>1. Pending \in Seq(AllIds) /\ Len(Pending) \in Nat BY PendingType
    <2>2. ASSUME Len(Pending) # 0 PROVE FALSE
      <3>1. 1 \in 1 .. Len(Pending) BY <2>1, <2>2
      <3>2. PICK p \in Slots : Running(p) /\ 1 \in Places(Pending, p, Len(Pending))
        BY <3>1, PendingOf
      <3>3. p = q BY <3>2, <1>3
      <3>4. Places(Pending, q, Len(Pending)) = {} BY <1>4, <2>1, CountBounds
      <3> QED BY <3>2, <3>3, <3>4
    <2> QED BY <2>1, <2>2, EmptySeq
  <1>6. call' \in CallType /\ call'.q = q /\ call'.at = "wait"
    BY <1>0, GotoType DEF HostStarts
  <1>7. Pending' = Pending BY <1>5, <1>6 DEF Pending
  <1>8. M_graphLst' = M_graphLst BY DEF HostStarts
  <1>9. responses' \o jobs' = <<HostJob>>
    <2>1. HostJob \in AllIds BY JobIdSplits, SizesAssumption DEF HostJob, Slots, Ids
    <2>2. responses \o jobs = <<>> BY <1>0, <1>5 DEF Pending
    <2>3. responses' \o jobs' = Append(responses \o jobs, HostJob)
      BY <2>1, ConcatAppend DEF HostStarts, Types
    <2> QED BY <2>2, <2>3
  <1>10. IdsInOrder' /\ LastIsRequested'
    BY <1>7, <1>8 DEF IdsInOrder, LastIsRequested, Running, Live
  <1>11. StepsInNodes' BY <1>8 DEF StepsInNodes, Live
  <1>12. HostRunsAlone' BY <1>3, <1>6, <1>8 DEF HostRunsAlone, Running, Live
  <1>13. HostWaitsAlone'
    BY <1>0, <1>6, <1>8, <1>9 DEF HostWaitsAlone, this, AllScheduled
  <1> QED BY <1>10, <1>11, <1>12, <1>13

LEMMA ReadStep ==
  ASSUME IInv, ReadResponse
  PROVE  Orderly'
  <1> USE DEF IInv, Orderly
  <1>0. call # Idle /\ call.at = "check" /\ responses # <<>>
    BY CallKinds DEF ReadResponse
  <1> DEFINE queue == Head(responses) \div IdLimit
             resp == Head(responses) % IdLimit
             g == [M_graphLst[queue] EXCEPT !.m_lastResponseId = resp]
  <1>1. queue \in Slots /\ resp \in Ids BY <1>0, QueueTypes, AnswerSplits
  <1>2. /\ M_graphLst' = [M_graphLst EXCEPT ![queue] = g] /\ call' = call
        /\ responses' = Tail(responses) /\ jobs' = jobs
    BY DEF ReadResponse
  <1>3. /\ Pending # <<>> /\ Head(Pending) = Head(responses)
        /\ Pending' = Tail(Pending)
    BY <1>0, <1>2, ConcatTail DEF Pending, Types
  <1>4. Running(queue) /\ IdsInOrder' /\ LastIsRequested'
    BY <1>1, <1>2, <1>3, OrderRead
  <1>5. M_graphLst[queue] \in GraphType BY <1>1, <1>4, LiveGraph DEF Running
  <1>6. /\ g \in GraphType /\ g.m_nodes = M_graphLst[queue].m_nodes
        /\ g.m_nextNodeToSchedule = M_graphLst[queue].m_nextNodeToSchedule
        /\ g.m_runningStep = M_graphLst[queue].m_runningStep
    BY <1>1, <1>5 DEF GraphType, Ids
  <1> HIDE DEF queue, resp, g
  <1>7. \A p \in Slots : M_graphLst'[p] = IF p = queue THEN g ELSE M_graphLst[p]
    BY <1>1, <1>2 DEF Types
  <1>8. \A p \in Slots : /\ Live(p)' = Live(p) /\ Running(p)' = Running(p)
                         /\ HasHost(p)' = HasHost(p)
    BY <1>4, <1>5, <1>6, <1>7, GraphIsLive DEF Live, Running, HasHost
  <1>9. StepsInNodes'
    BY <1>4, <1>6, <1>7, <1>8 DEF StepsInNodes, StepInNode, Running
  <1>10. HostRunsAlone'
    <2>1. call.q \in Slots BY <1>0, ThisGraph
    <2>2. HasHost(call.q)' = HasHost(call.q) BY <1>2, <1>8, <2>1 DEF HasHost
    <2> QED BY <1>2, <1>8, <2>2 DEF HostRunsAlone
  <1>11. HostWaitsAlone' BY <1>0, <1>2 DEF HostWaitsAlone
  <1> QED BY <1>4, <1>9, <1>10, <1>11

LEMMA ReturnStep ==
  ASSUME IInv, Return
  PROVE  Orderly'
  <1> USE DEF IInv, Orderly
  <1>0. call # Idle /\ call.at = "check" /\ UNCHANGED <<jobs, responses>>
    BY CallKinds DEF Return
  <1> DEFINE q == call.q
  <1>1. q \in Slots /\ this \in GraphType /\ Live(q) /\ this.m_nextNodeToSchedule >= 0
    BY <1>0, ThisGraph DEF CallRuns, Running
  <1>2. CASE IsDone(this)
    <2> DEFINE g == [this EXCEPT !.m_nextNodeToSchedule = -1]
    <2>1. M_graphLst' = [M_graphLst EXCEPT ![q] = g] /\ call' = Idle
      BY <1>2 DEF Return, this
    <2>2. /\ g \in GraphType /\ g.m_nextNodeToSchedule = -1
          /\ g.m_runningStep = this.m_runningStep
          /\ g.m_lastRequestId = this.m_lastRequestId
          /\ g.m_lastResponseId = this.m_lastResponseId
      BY <1>1 DEF GraphType
    <2>3. StepInNode(g)
      <3>1. StepInNode(this) BY <1>1 DEF StepsInNodes, this
      <3>2. Len(this.m_nodes) \in Nat
        <4>1. this.m_nodes \in Seq(Seq({"job", "none", "host", "fail"}) \ {<<>>})
          BY <1>1, ProgramsAssumption DEF GraphType
        <4> QED BY <4>1, LenProperties
      <3>3. ~(this.m_nextNodeToSchedule < Len(this.m_nodes))
        BY <1>1, <1>2, <3>2 DEF IsDone, AllScheduled, GraphType
      <3> HIDE DEF g
      <3> QED BY <2>2, <3>1, <3>3 DEF StepInNode
    <2>4. Count(Pending, q, Len(Pending)) = 0
      BY <1>1, <1>2, CompletedHasNone DEF IsDone, this
    <2> HIDE DEF g, q
    <2>5. \A p \in Slots : M_graphLst'[p] = IF p = q THEN g ELSE M_graphLst[p]
      BY <1>1, <2>1 DEF Types
    <2>6. Pending' = Pending BY <1>0, <2>1 DEF Pending, Idle
    <2>7. IdsInOrder' /\ LastIsRequested'
      <3>1. \A p \in Slots : ~Running(p) => Count(Pending, p, Len(Pending)) = 0
        BY StoppedHasNone
      <3>2. \A p \in Slots : p # q /\ Live(p) =>
              /\ Running(p) => Running(p)'
              /\ M_graphLst'[p] = M_graphLst[p]
        BY <2>5 DEF Running, Live
      <3>3. \A p \in Slots : p # q /\ ~Live(p) => ~Running(p) /\ ~Live(p)'
        BY <2>5 DEF Running, Live
      <3>4. M_graphLst'[q].m_lastRequestId = Wrap(Base(M_graphLst'[q]) + 0)
        <4>1. M_graphLst[q].m_lastRequestId = Wrap(Base(M_graphLst[q]) + 0)
          BY <1>1, <2>4, PendingCount
        <4> QED BY <1>1, <2>2, <2>5, <4>1 DEF Base, this, q
      <3> QED BY <2>4, <2>6, <3>1, <3>2, <3>3, <3>4, OrderKept
    <2>8. StepsInNodes' BY <2>3, <2>5 DEF StepsInNodes, Live
    <2> QED BY <2>1, <2>7, <2>8 DEF HostRunsAlone, HostWaitsAlone, Idle
  <1>3. CASE ~IsDone(this)
    <2>1. /\ M_graphLst' = M_graphLst
          /\ call' # Idle => call'.q = call.q /\ call'.at # "wait"
      BY <1>0, <1>3, GotoType DEF Return
    <2>2. call'.at # "wait" BY <2>1 DEF Idle
    <2>3. Pending' = Pending BY <1>0, <2>2 DEF Pending
    <2>4. IdsInOrder' /\ LastIsRequested' /\ StepsInNodes'
      BY <2>1, <2>3 DEF IdsInOrder, LastIsRequested, StepsInNodes, Running, Live
    <2>5. HostRunsAlone'
      BY <1>0, <2>1 DEF HostRunsAlone, HasHost, Running, Live
    <2> QED BY <2>2, <2>4, <2>5 DEF HostWaitsAlone
  <1> QED BY <1>2, <1>3

LEMMA InitIInv == Init => IInv
  <1> SUFFICES ASSUME Init PROVE IInv OBVIOUS
  <1>1. \A q \in Slots : ~Live(q) /\ ~Running(q) BY DEF Init, Live, Running
  <1>2. Types BY SizesAssumption DEF Init, Types
  <1>3. Pending = <<>> BY DEF Init, Pending, Idle
  <1>4. IdsInOrder
    <2>1. 1 .. Len(Pending) = {} BY <1>3
    <2> QED BY <2>1 DEF IdsInOrder
  <1>5. LastIsRequested /\ StepsInNodes BY <1>1 DEF LastIsRequested, StepsInNodes
  <1>6. CallRuns /\ HostRunsAlone /\ HostWaitsAlone
    BY DEF Init, CallRuns, HostRunsAlone, HostWaitsAlone, Idle
  <1> QED BY <1>2, <1>4, <1>5, <1>6 DEF IInv, Orderly

LEMMA OrderlyStep ==
  ASSUME Overlap = FALSE, IInv, [Next]_vars
  PROVE  Orderly'
  <1>0. Types /\ CallRuns /\ IdsInOrder /\ LastIsRequested /\ StepsInNodes
        /\ HostRunsAlone /\ HostWaitsAlone
    BY DEF IInv, Orderly
  <1>s. \A q \in Slots : Live(q) /\ ~Running(q) =>
          /\ M_graphLst[q] \in GraphType
          /\ ~(M_graphLst[q].m_nextNodeToSchedule >= 0) /\ M_graphLst[q].m_runningStep < 0
          /\ M_graphLst[q].m_lastRequestId = Wrap(Base(M_graphLst[q]) + 0)
    <2> SUFFICES ASSUME NEW q \in Slots, Live(q), ~Running(q)
                 PROVE  /\ M_graphLst[q] \in GraphType
                        /\ ~(M_graphLst[q].m_nextNodeToSchedule >= 0)
                        /\ M_graphLst[q].m_runningStep < 0
                        /\ M_graphLst[q].m_lastRequestId = Wrap(Base(M_graphLst[q]) + 0)
      OBVIOUS
    <2>1. M_graphLst[q] \in GraphType BY <1>0, LiveGraph
    <2>2. ~(M_graphLst[q].m_nextNodeToSchedule >= 0) BY DEF Running
    <2>3. M_graphLst[q].m_runningStep < 0 BY <1>0, <2>2 DEF StepsInNodes, StepInNode
    <2>4. M_graphLst[q].m_lastRequestId = Wrap(Base(M_graphLst[q]) + 0)
      BY <1>0, StoppedHasNone, PendingCount
    <2> QED BY <2>1, <2>2, <2>3, <2>4
  <1>1. ASSUME NEW q \in Slots, NEW nodes \in Programs, Construct(q, nodes)
        PROVE  Orderly'
    <2> DEFINE g == [m_nodes |-> nodes, m_nextNodeToSchedule |-> -1, m_runningStep |-> -1,
                     m_lastRequestId |-> 0, m_lastResponseId |-> NeverAnswered]
    <2>1. g \in GraphType BY SizesAssumption DEF GraphType, NeverAnswered
    <2>2. StepInNode(g) BY DEF StepInNode
    <2>3. g.m_lastRequestId = Wrap(Base(g) + 0)
      BY SizesAssumption DEF Base, Wrap, NeverAnswered
    <2>4. /\ M_graphLst' = [M_graphLst EXCEPT ![q] = g] /\ call = Idle /\ call' = Idle
          /\ UNCHANGED <<jobs, responses>> /\ ~Running(q)
      BY <1>1 DEF Construct, Running
    <2> HIDE DEF g
    <2> QED BY <2>1, <2>2, <2>3, <2>4, IdleStep
  <1>2. ASSUME NEW q \in Slots, NEW nodes \in Programs, Rebuild(q, nodes)
        PROVE  Orderly'
    <2> DEFINE m == M_graphLst[q]
               h == [m EXCEPT !.m_nodes = nodes]
               g == [h EXCEPT !.m_nextNodeToSchedule = -1]
    <2>0. /\ call = Idle /\ call' = Idle /\ UNCHANGED <<jobs, responses>>
          /\ Live(q) /\ ~Running(q)
      BY <1>2 DEF Rebuild
    <2>1. /\ m \in GraphType /\ m.m_runningStep < 0
          /\ m.m_lastRequestId = Wrap(Base(m) + 0)
      BY <2>0, <1>s
    <2>2. M_graphLst' = [M_graphLst EXCEPT ![q] = g]
      BY <1>0, <1>2 DEF Rebuild, Types
    <2> HIDE DEF m
    <2>3. /\ h \in GraphType /\ h.m_runningStep = m.m_runningStep
          /\ h.m_lastRequestId = m.m_lastRequestId
          /\ h.m_lastResponseId = m.m_lastResponseId
      BY <2>1 DEF GraphType
    <2> HIDE DEF h
    <2>4. /\ g \in GraphType /\ g.m_nextNodeToSchedule = -1
          /\ g.m_runningStep = h.m_runningStep
          /\ g.m_lastRequestId = h.m_lastRequestId
          /\ g.m_lastResponseId = h.m_lastResponseId
      BY <2>3 DEF GraphType
    <2> HIDE DEF g
    <2>5. StepInNode(g) BY <2>1, <2>3, <2>4 DEF StepInNode
    <2>6. g.m_lastRequestId = Wrap(Base(g) + 0) BY <2>1, <2>3, <2>4 DEF Base
    <2> QED BY <2>0, <2>2, <2>4, <2>5, <2>6, IdleStep
  <1>3. ASSUME NEW q \in Slots, Destroy(q) PROVE Orderly'
    BY <1>3, IdleStep DEF Destroy
  <1>4. ASSUME NEW q \in Slots, Prepare(q) PROVE Orderly'
    <2> DEFINE m == M_graphLst[q]
               g == [m EXCEPT !.m_nextNodeToSchedule = 0]
    <2>0. /\ call = Idle /\ call' = Idle /\ UNCHANGED <<jobs, responses>>
          /\ Live(q) /\ ~Running(q) /\ M_graphLst' = [M_graphLst EXCEPT ![q] = g]
      BY <1>4 DEF Prepare
    <2>1. /\ m \in GraphType /\ m.m_runningStep < 0
          /\ m.m_lastRequestId = Wrap(Base(m) + 0)
      BY <2>0, <1>s
    <2> HIDE DEF m
    <2>2. /\ g \in GraphType /\ g.m_nextNodeToSchedule = 0
          /\ g.m_nodes = m.m_nodes /\ g.m_runningStep = m.m_runningStep
          /\ g.m_lastRequestId = m.m_lastRequestId
          /\ g.m_lastResponseId = m.m_lastResponseId
      BY <2>1 DEF GraphType
    <2> HIDE DEF g
    <2>3. 0 < Len(g.m_nodes) => Len(g.m_nodes[0 + 1]) \in Nat
      <3>1. g.m_nodes \in Seq(Seq({"job", "none", "host", "fail"}) \ {<<>>})
        BY <2>2, ProgramsAssumption DEF GraphType
      <3>2. Len(g.m_nodes) \in Nat BY <3>1, LenProperties
      <3>3. 0 < Len(g.m_nodes) => 0 + 1 \in 1 .. Len(g.m_nodes) BY <3>2
      <3>4. 0 < Len(g.m_nodes) => g.m_nodes[0 + 1] \in Seq({"job", "none", "host", "fail"})
        BY <3>1, <3>3, ElementOfSeq
      <3> QED BY <3>4, LenProperties
    <2>4. StepInNode(g)
      <3>1. m.m_runningStep \in Int BY <2>1 DEF GraphType
      <3> QED BY <2>1, <2>2, <2>3, <3>1 DEF StepInNode
    <2>5. g.m_lastRequestId = Wrap(Base(g) + 0) BY <2>1, <2>2 DEF Base
    <2> QED BY <2>0, <2>2, <2>4, <2>5, IdleStep
  <1>5. ASSUME NEW q \in Slots, NEW until \in BOOLEAN, Run(q, until) PROVE Orderly'
    <2>1. /\ call = Idle /\ call'.at = "execute" /\ call'.q = q
          /\ UNCHANGED <<M_graphLst, jobs, responses>>
          /\ HasHost(q) => \A p \in Slots \ {q} : ~Running(p)
      BY <1>5 DEF Run
    <2>2. Pending' = Pending BY <2>1 DEF Pending, Idle
    <2>3. IdsInOrder' /\ LastIsRequested' /\ StepsInNodes'
      BY <1>0, <2>1, <2>2 DEF IdsInOrder, LastIsRequested, StepsInNodes, Running, Live
    <2>4. HostRunsAlone' BY <2>1 DEF HostRunsAlone, HasHost, Running, Live
    <2>5. HostWaitsAlone' BY <2>1 DEF HostWaitsAlone
    <2> QED BY <2>3, <2>4, <2>5 DEF Orderly
  <1>6. CASE Issue BY <1>6, IssueStep
  <1>7. CASE Skip \/ HostAnswered
    <2>1. call # Idle /\ call \in CallType BY <1>0, <1>7, CallKinds DEF Skip, HostAnswered, AtOperator
    <2>2. ~AllScheduled(this) BY <1>0, <1>7 DEF Skip, HostAnswered, AtOperator, HostWaitsAlone
    <2>3. M_graphLst' = [M_graphLst EXCEPT ![call.q] = Advanced(this)]
      BY <1>7 DEF Skip, HostAnswered, this
    <2>4. call'.q = call.q /\ call'.at # "wait"
      BY <1>0, <1>7, <2>1, GoesOnType DEF Skip, HostAnswered
    <2>5. Pending' = Pending
      <3>1. CASE Skip
        BY <2>4, <3>1 DEF Skip, AtOperator, Pending
      <3>2. CASE HostAnswered
        <4>1. /\ call.at = "wait" /\ responses # <<>> /\ responses \o jobs = <<HostJob>>
              /\ responses' = Tail(responses) /\ jobs' = jobs
          BY <1>0, <3>2 DEF HostAnswered, HostWaitsAlone
        <4>2. HostJob \in AllIds BY JobIdSplits, SizesAssumption DEF HostJob, Slots, Ids
        <4>3. responses' = <<>> /\ jobs' = <<>>
          BY <1>0, <4>1, <4>2, ConcatOne DEF Types
        <4> QED BY <2>4, <4>1, <4>3 DEF Pending
      <3> QED BY <1>7, <3>1, <3>2
    <2>6. /\ Advanced(this) \in GraphType /\ Advanced(this).m_nextNodeToSchedule >= 0
          /\ Advanced(this).m_nodes = this.m_nodes
          /\ Advanced(this).m_lastRequestId = this.m_lastRequestId
          /\ Advanced(this).m_lastResponseId = this.m_lastResponseId
          /\ StepInNode(Advanced(this))
      BY <1>0, <2>1, <2>2, AdvancedGraph, AdvancedInNode
    <2> QED BY <2>1, <2>3, <2>4, <2>5, <2>6, ThisStep
  <1>8. CASE Fails \/ HostWaits
    <2>1. call # Idle /\ call.at = "execute" /\ ~AllScheduled(this)
      BY <1>0, <1>8, CallKinds DEF Fails, HostWaits, AtOperator
    <2> DEFINE g == [this EXCEPT !.m_runningStep = step]
    <2>2. M_graphLst' = [M_graphLst EXCEPT ![call.q] = g]
      BY <1>8 DEF Fails, HostWaits, this
    <2>3. call' # Idle => call'.q = call.q /\ call'.at # "wait"
      BY <1>0, <1>8, <2>1, GotoType DEF Fails, HostWaits
    <2>4. Pending' = Pending
      <3>1. call'.at # "wait" BY <2>3 DEF Idle
      <3> QED BY <1>8, <2>1, <3>1 DEF Fails, HostWaits, Pending
    <2>5. /\ this \in GraphType /\ this.m_nextNodeToSchedule >= 0 /\ step \in Nat
      BY <1>0, <2>1, ThisGraph
    <2>6. /\ g \in GraphType /\ g.m_nextNodeToSchedule = this.m_nextNodeToSchedule
          /\ g.m_nodes = this.m_nodes /\ g.m_runningStep = step
          /\ g.m_lastRequestId = this.m_lastRequestId
          /\ g.m_lastResponseId = this.m_lastResponseId
      BY <2>5 DEF GraphType
    <2> HIDE DEF g
    <2>7. StepInNode(g)
      <3>1. /\ this.m_nextNodeToSchedule + 1 \in 1 .. Len(this.m_nodes)
            /\ Len(this.m_nodes) \in Nat /\ step < Len(node)
        BY <1>0, <2>1, NodeBounds
      <3>2. this.m_nextNodeToSchedule >= 0 /\ this.m_nextNodeToSchedule < Len(this.m_nodes)
        BY <2>5, <3>1 DEF GraphType
      <3> QED BY <2>6, <3>1, <3>2 DEF StepInNode, node
    <2> QED BY <2>1, <2>2, <2>3, <2>4, <2>5, <2>6, <2>7, ThisStep
  <1>9. CASE HostStarts BY <1>9, HostStartsStep
  <1>10. CASE Scheduled
    <2>1. call # Idle /\ call.at = "execute" BY <1>0, <1>10, CallKinds DEF Scheduled
    <2>2. call'.q = call.q /\ call'.at = "check" /\ UNCHANGED <<M_graphLst, jobs, responses>>
      BY <1>0, <1>10, <2>1, GotoType DEF Scheduled
    <2>3. Pending' = Pending BY <2>1, <2>2 DEF Pending
    <2>4. IdsInOrder' /\ LastIsRequested' /\ StepsInNodes'
      BY <1>0, <2>2, <2>3 DEF IdsInOrder, LastIsRequested, StepsInNodes, Running, Live
    <2>5. HostRunsAlone'
      BY <1>0, <2>1, <2>2 DEF HostRunsAlone, HasHost, Running, Live
    <2> QED BY <2>2, <2>4, <2>5 DEF Orderly, HostWaitsAlone
  <1>11. CASE ReadResponse BY <1>11, ReadStep
  <1>12. CASE Return BY <1>12, ReturnStep
  <1>13. CASE Finish
    <2>1. responses' \o jobs' = responses \o jobs
      BY <1>0, <1>13, ConcatMove DEF Finish, Types
    <2>2. UNCHANGED <<M_graphLst, call>> BY <1>13 DEF Finish
    <2>3. Pending' = Pending BY <2>1, <2>2 DEF Pending
    <2>4. IdsInOrder' /\ LastIsRequested' /\ StepsInNodes'
      BY <1>0, <2>2, <2>3 DEF IdsInOrder, LastIsRequested, StepsInNodes, Running, Live
    <2>5. HostRunsAlone' /\ HostWaitsAlone'
      BY <1>0, <2>1, <2>2 DEF HostRunsAlone, HostWaitsAlone, HasHost, Running, Live,
                              AllScheduled, this
    <2> QED BY <2>4, <2>5 DEF Orderly
  <1>14. CASE UNCHANGED vars
    <2> USE <1>14 DEF vars
    <2>1. Pending' = Pending BY DEF Pending
    <2>2. IdsInOrder' /\ LastIsRequested' /\ StepsInNodes'
      BY <1>0, <2>1 DEF IdsInOrder, LastIsRequested, StepsInNodes, Running, Live
    <2>3. HostRunsAlone' /\ HostWaitsAlone'
      BY <1>0 DEF HostRunsAlone, HostWaitsAlone, HasHost, Running, Live, AllScheduled, this
    <2> QED BY <2>2, <2>3 DEF Orderly
  <1> QED BY <1>1, <1>2, <1>3, <1>4, <1>5, <1>6, <1>7, <1>8, <1>9, <1>10, <1>11, <1>12,
             <1>13, <1>14 DEF Next, RunStep
----------------------------------------------------------------------------
\* The tables of graph.cpp and the queues keep their types, also when graphs
\* with host operators overlap and an answer is taken by the wrong reader.
THEOREM TypeCorrect == Spec => []TypeOK
  <1>1. Init => Types /\ CallRuns BY InitIInv DEF IInv
  <1>2. Types /\ CallRuns => TypeOK
    BY LiveGraph DEF Types, TypeOK, CallType, AllIds
  <1> QED BY <1>1, <1>2, TypesStep, PTL DEF Spec

\* For any number of graphs and any programs, if graphs with host operators
\* run alone: when run has returned Ok no job of the graph is in the hardware
\* and no answer is unread, although ids wrap around and graphs interleave.
THEOREM StoppedIsAnswered == Overlap = FALSE => (Spec => []StoppedMeansAnswered)
  <1> SUFFICES ASSUME Overlap = FALSE PROVE Spec => []StoppedMeansAnswered OBVIOUS
  <1>1. IInv /\ [Next]_vars => IInv' BY OrderlyStep, TypesStep DEF IInv
  <1>2. IInv => StoppedMeansAnswered
    <2> SUFFICES ASSUME IInv, NEW q \in Slots, call = Idle, ~Running(q)
                 PROVE  Outstanding(q) = {}
      BY DEF StoppedMeansAnswered
    <2>1. Pending = responses \o jobs BY DEF Pending, Idle
    <2>2. Pending \in Seq(AllIds) /\ Len(Pending) \in Nat BY PendingType DEF IInv
    <2>3. Places(Pending, q, Len(Pending)) = {}
      BY <2>2, StoppedHasNone, CountBounds DEF IInv, Orderly
    <2>4. Range(Pending) = {Pending[k] : k \in 1 .. Len(Pending)} BY <2>2, RangeEquality
    <2> QED BY <2>1, <2>3, <2>4 DEF Outstanding, Places, QueueOf
  <1> QED BY InitIInv, <1>1, <1>2, PTL DEF Spec

\* For any number of graphs and any programs, if graphs with host operators
\* run alone: the answer kernel_objdet_exe waits for is the one it gets.
THEOREM HostAnswerIsItsOwn == Overlap = FALSE => (Spec => HostGetsItsAnswer)
  <1> SUFFICES ASSUME Overlap = FALSE PROVE Spec => HostGetsItsAnswer OBVIOUS
  <1>1. IInv /\ [Next]_vars => IInv' BY OrderlyStep, TypesStep DEF IInv
  <1>2. IInv /\ [Next]_vars
          => [HostAnswered => Head(responses) = HostJob /\ jobs = <<>>]_vars
    <2> SUFFICES ASSUME IInv, HostAnswered
                 PROVE  Head(responses) = HostJob /\ jobs = <<>>
      OBVIOUS
    <2>1. responses \o jobs = <<HostJob>> /\ responses # <<>>
      BY DEF IInv, Orderly, HostAnswered, HostWaitsAlone
    <2>2. HostJob \in AllIds BY JobIdSplits, SizesAssumption DEF HostJob, Slots, Ids
    <2> QED BY <2>1, <2>2, ConcatOne DEF IInv, Types
  <1> QED BY InitIInv, <1>1, <1>2, PTL DEF Spec, HostGetsItsAnswer
=============================================================================
