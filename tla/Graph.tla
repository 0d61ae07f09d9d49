------------------------------- MODULE Graph -------------------------------
(***************************************************************************)
(* The execution graphs of SW/base/graph.cpp.  A Graph holds nodes; running*)
(* it makes each node send jobs to the tensor processor, each with an id   *)
(* from GetJobId, and ends when the id of the last answer read equals the  *)
(* id of the last job sent.  One program runs all graphs, the hardware     *)
(* works concurrently and answers in the order of the jobs.                *)
(*                                                                         *)
(* A node is the sequence of its operators, run by NeuralNet::Execute; the *)
(* image processing nodes have one.  An operator sends a job ("job"), does *)
(* nothing ("none", a reshape), runs at the host ("host", the object       *)
(* detection, which sends a job of its own and waits for it) or fails.     *)
(***************************************************************************)
EXTENDS Integers, Sequences, SequencesExt

CONSTANTS GRAPH_MAX_INSTANCE,
          IdLimit,         \* 2**24, the number of job ids of a graph
          Programs,        \* the sequences of nodes a graph may be given
          MaxJobs,         \* jobs that fit in the instruction queue
          MaxResponses,    \* answers that fit in the indication queue
          Overlap          \* may a graph with a host operator run while
                           \* another graph is not finished?

ASSUME SizesAssumption ==
  /\ GRAPH_MAX_INSTANCE \in Nat \ {0} /\ IdLimit \in Nat \ {0}
  /\ MaxJobs \in Nat \ {0} /\ MaxResponses \in Nat \ {0}
  /\ Overlap \in BOOLEAN

\* Fewer jobs are ever under way than there are ids.
ASSUME IdsAssumption == MaxJobs + MaxResponses < IdLimit

ASSUME ProgramsAssumption ==
  Programs \subseteq Seq(Seq({"job", "none", "host", "fail"}) \ {<<>>}) \ {<<>>}

VARIABLES M_graphLst,      \* the graphs, by slot
          call,            \* the call of Graph::run in progress
          jobs,            \* job ids in the hardware, in order
          responses        \* answers not yet read, in order

vars == <<M_graphLst, call, jobs, responses>>

Slots == 0 .. GRAPH_MAX_INSTANCE - 1
NoGraph == [m_nodes |-> <<>>]
Live(q) == M_graphLst[q] # NoGraph
Idle == [at |-> "idle"]

Init ==
  /\ M_graphLst = [q \in Slots |-> NoGraph]
  /\ call = Idle
  /\ jobs = <<>> /\ responses = <<>>

\* IsRunning().
Running(q) == Live(q) /\ M_graphLst[q].m_nextNodeToSchedule >= 0

HasHost(q) ==
  \E i \in DOMAIN M_graphLst[q].m_nodes :
     Contains(M_graphLst[q].m_nodes[i], "host")

----------------------------------------------------------------------------
(* What a program does between runs. *)

\* The answer id of a new graph, 0xffffffff: no job has it.
NeverAnswered == -1

\* Graph() takes the first free slot; the nodes are added at once.
Construct(q, nodes) ==
  /\ call = Idle
  /\ ~Live(q) /\ \A p \in Slots : p < q => Live(p)
  /\ M_graphLst' = [M_graphLst EXCEPT ![q] =
       [m_nodes |-> nodes, m_nextNodeToSchedule |-> -1, m_runningStep |-> -1,
        m_lastRequestId |-> 0, m_lastResponseId |-> NeverAnswered]]
  /\ UNCHANGED <<call, jobs, responses>>

\* ~Graph(), on a graph that is not running: the programs wait for that.
Destroy(q) ==
  /\ call = Idle
  /\ Live(q) /\ ~Running(q)
  /\ M_graphLst' = [M_graphLst EXCEPT ![q] = NoGraph]
  /\ UNCHANGED <<call, jobs, responses>>

\* Clear() and Add() of other nodes, again on a graph that is not running.
Rebuild(q, nodes) ==
  /\ call = Idle
  /\ Live(q) /\ ~Running(q)
  /\ nodes # M_graphLst[q].m_nodes
  /\ M_graphLst' = [M_graphLst EXCEPT ![q].m_nodes = nodes,
                                      ![q].m_nextNodeToSchedule = -1]
  /\ UNCHANGED <<call, jobs, responses>>

Prepare(q) ==
  /\ call = Idle
  /\ Live(q) /\ ~Running(q)
  /\ HasHost(q) /\ ~Overlap => \A p \in Slots : Running(p) => ~HasHost(p)
  /\ M_graphLst' = [M_graphLst EXCEPT ![q].m_nextNodeToSchedule = 0]
  /\ UNCHANGED <<call, jobs, responses>>

\* Run(timeout) with timeout >= 0, or RunUntilCompletion().
Run(q, until) ==
  /\ call = Idle
  /\ Running(q)
  /\ HasHost(q) /\ ~Overlap => \A p \in Slots \ {q} : ~Running(p)
  /\ call' = [at |-> "execute", q |-> q, until |-> until]
  /\ UNCHANGED <<M_graphLst, jobs, responses>>
----------------------------------------------------------------------------
(* Graph::run and NeuralNet::Execute. *)

this == M_graphLst[call.q]
AllScheduled(g) == g.m_nextNodeToSchedule >= Len(g.m_nodes)
node == this.m_nodes[this.m_nextNodeToSchedule + 1]
step == IF this.m_runningStep < 0 THEN 0 ELSE this.m_runningStep
AtOperator(op) == call.at = "execute" /\ ~AllScheduled(this) /\ node[step + 1] = op
Goto(where) == call' = [call EXCEPT !.at = where]

\* Mutant: the id runs on into the bits of the queue.
NextIdUnwrapped(id) == id + 1

NextId(id) == IF id + 1 >= IdLimit THEN 0 ELSE id + 1

JobId(queue, id) == id + queue * IdLimit

\* AllRequestAreCompleted.  Mutant: does not ask.
CompletedBlind(g) == TRUE

AllRequestAreCompleted(g) == g.m_lastRequestId = g.m_lastResponseId

\* Graph g after an operator of its current node.
Advanced(g) ==
  IF step + 1 < Len(node)
    THEN [g EXCEPT !.m_runningStep = step + 1]
    ELSE [g EXCEPT !.m_runningStep = -1, !.m_nextNodeToSchedule = @ + 1]

\* Where run goes on after an operator: with a timeout it stops after a node,
\* and after an operator when the time is up.
GoesOn ==
  \/ (call.until \/ step + 1 < Len(node)) /\ Goto("execute")
  \/ ~call.until /\ Goto("check")

\* The operator sends a job: GetJobId, the kernel's instructions, ztaJobDone.
Issue ==
  /\ AtOperator("job")
  /\ Len(jobs) < MaxJobs
  /\ LET id == NextId(this.m_lastRequestId) IN
       /\ jobs' = Append(jobs, JobId(call.q, id))
       /\ M_graphLst' = [M_graphLst EXCEPT ![call.q] =
                           [Advanced(@) EXCEPT !.m_lastRequestId = id]]
  /\ GoesOn
  /\ UNCHANGED responses

Skip ==
  /\ AtOperator("none")
  /\ M_graphLst' = [M_graphLst EXCEPT ![call.q] = Advanced(@)]
  /\ GoesOn
  /\ UNCHANGED <<jobs, responses>>

Fails ==
  /\ AtOperator("fail")
  /\ M_graphLst' = [M_graphLst EXCEPT ![call.q].m_runningStep = step]
  /\ call' = Idle
  /\ UNCHANGED <<jobs, responses>>

\* A host operator waits until the jobs before it are done.
HostWaits ==
  /\ AtOperator("host")
  /\ ~AllRequestAreCompleted(this)
  /\ M_graphLst' = [M_graphLst EXCEPT ![call.q].m_runningStep = step]
  /\ Goto("check")
  /\ UNCHANGED <<jobs, responses>>

\* kernel_objdet_exe sends a job with id 0 ...
HostJob == JobId(0, 0)

HostStarts ==
  /\ AtOperator("host")
  /\ AllRequestAreCompleted(this)
  /\ Len(jobs) < MaxJobs
  /\ jobs' = Append(jobs, HostJob)
  /\ Goto("wait")
  /\ UNCHANGED <<M_graphLst, responses>>

\* ... and takes the next answer, whichever it is, for its own.
HostAnswered ==
  /\ call.at = "wait"
  /\ responses # <<>>
  /\ responses' = Tail(responses)
  /\ M_graphLst' = [M_graphLst EXCEPT ![call.q] = Advanced(@)]
  /\ GoesOn
  /\ UNCHANGED jobs

Scheduled ==
  /\ call.at = "execute" /\ AllScheduled(this)
  /\ Goto("check")
  /\ UNCHANGED <<M_graphLst, jobs, responses>>

\* CheckResponse, one answer.
ReadResponse ==
  /\ call.at = "check"
  /\ responses # <<>>
  /\ LET queue == Head(responses) \div IdLimit
         resp == Head(responses) % IdLimit
     IN M_graphLst' = [M_graphLst EXCEPT ![queue].m_lastResponseId = resp]
  /\ responses' = Tail(responses)
  /\ UNCHANGED <<call, jobs>>

\* run is done.  Mutant: it only looks at the nodes.
IsDoneScheduled(g) == AllScheduled(g)

IsDone(g) == g.m_lastResponseId = g.m_lastRequestId /\ AllScheduled(g)

Return ==
  /\ call.at = "check"
  /\ responses = <<>>
  /\ IF IsDone(this)
       THEN /\ M_graphLst' = [M_graphLst EXCEPT ![call.q].m_nextNodeToSchedule = -1]
            /\ call' = Idle
       ELSE /\ UNCHANGED M_graphLst
            /\ IF call.until THEN Goto("execute") ELSE call' = Idle
  /\ UNCHANGED <<jobs, responses>>

RunStep ==
  \/ Issue \/ Skip \/ Fails \/ HostWaits \/ HostStarts \/ HostAnswered
  \/ Scheduled \/ ReadResponse \/ Return

----------------------------------------------------------------------------
\* The hardware has reached the indication of the first job, and starts
\* nothing while the indication queue is full.  Mutant: the last job's first.
FinishLast ==
  /\ jobs # <<>> /\ Len(responses) < MaxResponses
  /\ responses' = Append(responses, Last(jobs))
  /\ jobs' = Front(jobs)
  /\ UNCHANGED <<M_graphLst, call>>

Finish ==
  /\ jobs # <<>> /\ Len(responses) < MaxResponses
  /\ responses' = Append(responses, Head(jobs))
  /\ jobs' = Tail(jobs)
  /\ UNCHANGED <<M_graphLst, call>>

Next ==
  \/ \E q \in Slots :
       \/ \E nodes \in Programs : Construct(q, nodes) \/ Rebuild(q, nodes)
       \/ Destroy(q) \/ Prepare(q)
       \/ \E until \in BOOLEAN : Run(q, until)
  \/ RunStep
  \/ Finish

Spec == Init /\ [][Next]_vars

\* The program continues a run it has begun and the hardware its jobs.
FairSpec == Spec /\ WF_vars(RunStep) /\ WF_vars(Finish)
----------------------------------------------------------------------------
\* Type invariant.
GraphType ==
  [m_nodes : Programs, m_nextNodeToSchedule : Int, m_runningStep : Int,
   m_lastRequestId : 0 .. IdLimit - 1,
   m_lastResponseId : -1 .. IdLimit - 1]

TypeOK ==
  /\ \A q \in Slots : Live(q) => M_graphLst[q] \in GraphType
  /\ call = Idle \/ call \in [at : {"execute", "wait", "check"}, q : Slots,
                              until : BOOLEAN]
  /\ jobs \in Seq(0 .. GRAPH_MAX_INSTANCE * IdLimit - 1)
  /\ responses \in Seq(0 .. GRAPH_MAX_INSTANCE * IdLimit - 1)

\* The jobs of graph q that are not yet answered, or whose answer is unread.
Outstanding(q) == {id \in Range(responses \o jobs) : id \div IdLimit = q}

\* A graph that is not running (run returned Ok, IsRunning is false) has no
\* job in the hardware and no unread answer: its results are complete, and
\* deleting it leaves no answer for an empty slot of M_graphLst.
StoppedMeansAnswered ==
  \A q \in Slots : call = Idle /\ ~Running(q) => Outstanding(q) = {}

\* The wait of kernel_objdet_exe ends with the answer to its own job.
HostGetsItsAnswer ==
  [][HostAnswered => Head(responses) = HostJob /\ jobs = <<>>]_vars

\* A call of Graph::run ends: no answer is lost or mistaken for another, and
\* the hardware is not stopped by answers the waiting program does not read.
RunReturns == call # Idle ~> call = Idle
=============================================================================
