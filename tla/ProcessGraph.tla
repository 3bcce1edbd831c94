---------------------------- MODULE ProcessGraph ----------------------------
(***************************************************************************)
(* processGraph() (src/src/libutil/include/nix/util/thread-pool.hh): every *)
(* node of a graph is processed once, after the nodes it refers to, by the *)
(* threads of a ThreadPool.  The work item of a node runs once to find its *)
(* dependencies and, if it has any that are left, a second time when the   *)
(* last of them has been processed.                                        *)
(***************************************************************************)
EXTENDS ThreadPool

CONSTANTS
  Node,   \* the nodes to process
  Graphs  \* the graphs: functions from Node to sets of references

ASSUME NodeAssumption == IsFiniteSet(Node) /\ NoItem \notin Node

VARIABLES
  edges,   \* edges[n]: what getEdges(n) returns, nodes or not
  toEnqueue, \* the nodes that the calling thread has not enqueued yet
  left,    \* Graph::left
  refs,    \* Graph::refs, a partial function
  rrefs,   \* Graph::rrefs
  glock,   \* the thread that holds the lock of the graph across steps
  runs,    \* runs[n]: history: how often processNode(n) was called
  outcome  \* how processGraph() ended

graphVars == <<edges, toEnqueue, left, refs, rrefs, glock, runs,
               outcome>>
pgVars == <<poolVars, graphVars>>

NoRefs == [known |-> FALSE, set |-> {}]

GraphInit ==
  /\ PoolInit
  /\ edges \in Graphs
  /\ toEnqueue = Node
  /\ left = Node
  /\ refs = [n \in Node |-> NoRefs]
  /\ rrefs = [n \in Node |-> {}]
  /\ glock = NoItem
  /\ runs = [n \in Node |-> 0]
  /\ outcome = "running"

\* The calling thread enqueues a node; when the pool has quit, it stops, and
\* process() throws what a work item threw.
EnqueueNode ==
  /\ tpc[Main] = "enqueue"
  /\ IF toEnqueue = {} \/ quit
     THEN /\ tpc' = [tpc EXCEPT ![Main] = "drain"]
          /\ UNCHANGED <<pending, workers, toEnqueue>>
     ELSE \E n \in toEnqueue : \E e \in Enqueued(n, pending, workers, tpc) :
            /\ pending' = e.pending
            /\ workers' = e.workers
            /\ tpc' = e.tpc
            /\ toEnqueue' = toEnqueue \ {n}
  /\ UNCHANGED <<quit, active, exception, draining, item, edges, left, refs,
                 rrefs, glock, runs, outcome>>

-----------------------------------------------------------------------------
(* The work item of a node.                                                *)

Jump(t, label) == tpc' = [tpc EXCEPT ![t] = label]
PoolKept == UNCHANGED <<quit, pending, active, exception, workers, draining, item>>

\* Have the references been looked up?
FindRefs(t) ==
  /\ tpc[t] = "run"
  /\ glock = NoItem
  /\ Jump(t, IF refs[item[t]].known THEN "process" ELSE "edges")
  /\ PoolKept /\ UNCHANGED graphVars

\* getEdges(node), without the node itself, as far as they are left.
RefsLeft(n) == (edges[n] \ {n}) \cap left

\* Record the references; a node without any is processed at once.
AddRefs(t) ==
  /\ tpc[t] = "edges"
  /\ glock = NoItem
  /\ LET n == item[t]
         rs == RefsLeft(n)
     IN  /\ refs' = [refs EXCEPT ![n] = [known |-> TRUE, set |-> rs]]
         /\ rrefs' = [r \in Node |-> IF r \in rs THEN rrefs[r] \cup {n} ELSE rrefs[r]]
         /\ Jump(t, IF rs = {} THEN "process" ELSE "finished")
  /\ PoolKept /\ UNCHANGED <<edges, toEnqueue, left, glock, runs, outcome>>

\* processNode(node).
ProcessNode(t) ==
  /\ tpc[t] = "process"
  /\ runs' = [runs EXCEPT ![item[t]] = @ + 1]
  /\ Jump(t, "release")
  /\ PoolKept /\ UNCHANGED <<edges, toEnqueue, left, refs, rrefs, glock, outcome>>

\* getEdges() or processNode() throws.
ItemThrows(t) ==
  /\ tpc[t] \in {"edges", "process"}
  /\ Jump(t, "thrown")
  /\ PoolKept /\ UNCHANGED graphVars

\* The nodes that still wait for n.
Waiting(n) == {r \in rrefs[n] : n \in refs[r].set}

\* Mutant: a node is enqueued whenever one of its references was processed.
ReadyAfterOne(r, n) == TRUE
\* Node r waits for n and for nothing else.
ReadyAfter(r, n) == refs[r].set = {n}

\* After processNode(), under the lock of the graph: n is removed from the
\* references of a node, which is enqueued when it has no other.  When the
\* pool has quit, enqueue() throws and the rest is left as it is.
ReleaseOne(t) ==
  /\ tpc[t] = "release"
  /\ glock \in {NoItem, t}
  /\ LET n == item[t]
     IN  \E r \in Waiting(n) :
           /\ refs' = [refs EXCEPT ![r].set = @ \ {n}]
           /\ \/ /\ ~ReadyAfter(r, n)
                 /\ glock' = t
                 /\ UNCHANGED <<pending, workers, tpc>>
              \/ /\ ReadyAfter(r, n)
                 /\ ~quit
                 /\ glock' = t
                 /\ \E e \in Enqueued(r, pending, workers, tpc) :
                       pending' = e.pending /\ workers' = e.workers /\ tpc' = e.tpc
              \/ /\ ReadyAfter(r, n)
                 /\ quit
                 /\ glock' = NoItem
                 /\ Jump(t, "thrown")
                 /\ UNCHANGED <<pending, workers>>
  /\ UNCHANGED <<quit, active, exception, draining, item, edges, toEnqueue,
                 left, rrefs, runs, outcome>>

\* Nobody waits for the node any more, and the graph forgets it.
ReleaseNode(t) ==
  /\ tpc[t] = "release"
  /\ glock \in {NoItem, t}
  /\ LET n == item[t]
     IN  /\ Waiting(n) = {}
         /\ left' = left \ {n}
         /\ refs' = [refs EXCEPT ![n] = NoRefs]
         /\ rrefs' = [rrefs EXCEPT ![n] = {}]
  /\ glock' = NoItem
  /\ Jump(t, "finished")
  /\ PoolKept /\ UNCHANGED <<edges, toEnqueue, runs, outcome>>

\* doWork() has returned to process(): an exception is thrown again, after
\* shutdown(); otherwise processGraph() looks whether a node is left, and the
\* destructor of the pool calls shutdown().
ProcessReturns ==
  /\ tpc[Main] = "returned"
  /\ outcome' = IF exception THEN "threw" ELSE IF left = {} THEN "ok" ELSE "cyclic"
  /\ Jump(Main, "shutdown")
  /\ PoolKept /\ UNCHANGED <<edges, toEnqueue, left, refs, rrefs, glock, runs>>

GraphOver == tpc[Main] = "over" /\ UNCHANGED pgVars

GraphThread(t) ==
  \/ DoWork(t) /\ UNCHANGED graphVars
  \/ FindRefs(t) \/ AddRefs(t) \/ ProcessNode(t) \/ ItemThrows(t)
  \/ ReleaseOne(t) \/ ReleaseNode(t)

GraphMain ==
  \/ EnqueueNode \/ ProcessReturns
  \/ (Process \/ Shutdown \/ Join) /\ UNCHANGED graphVars

GraphNext == GraphMain \/ (\E t \in PoolThread : GraphThread(t)) \/ GraphOver

GraphSpec == GraphInit /\ [][GraphNext]_pgVars

-----------------------------------------------------------------------------
Running(t) == tpc[t] \in {"run", "edges", "process", "release", "finished", "thrown"}

\* The counter of active items is right, and workers are within the limit.
GraphTypeOK ==
  /\ active = Cardinality({t \in PoolThread : Running(t)})
  /\ \A t \in PoolThread : Running(t) <=> item[t] # NoItem
  /\ Cardinality(workers) < maxThreads
  /\ left \subseteq Node
  /\ \A n \in Node : refs[n].set \subseteq Node /\ rrefs[n] \subseteq Node

\* A node is processed at most once, and after all nodes it refers to: no
\* thread starts on it before processNode() has returned for each of them.
\* When a thread begins to release the nodes that wait for its own, all that
\* are recorded do wait for it: ``assert(i != refs.end())''.
DependenciesFirst ==
  /\ \A n \in Node : runs[n] <= 1
  /\ \A n \in Node : runs[n] = 1 =>
        \A r \in (edges[n] \cap Node) \ {n} : runs[r] = 1
  /\ \A t \in PoolThread : tpc[t] = "process" =>
        /\ runs[item[t]] = 0
        /\ \A r \in (edges[item[t]] \cap Node) \ {item[t]} : runs[r] = 1
  /\ \A t \in PoolThread : tpc[t] = "release" /\ glock # t =>
        Waiting(item[t]) = rrefs[item[t]]

\* No wake-up is lost: nobody sleeps when the pool quits; while a thread sleeps, there
\* is for every item in the queue a thread that is about to take it; and when
\* process() has been called, some thread is at work or looks for work, so that the
\* last one to run out of it wakes the others.
GraphWakesEnough ==
  Asleep(tpc) # {} =>
    /\ ~quit
    /\ Len(pending) <= Cardinality({t \in PoolThread : tpc[t] = "loop"})
    /\ draining => \E t \in PoolThread : tpc[t] = "loop" \/ Running(t)

\* The nodes that can be reached from n: those in every set that has n and,
\* with a node, what it refers to.
ReferencesIn(S) == \A m \in S : edges[m] \cap Node \subseteq S
ReachableFrom(n) ==
  {m \in Node : \A S \in SUBSET Node : n \in S /\ ReferencesIn(S) => m \in S}
OnCycle(n) == \E m \in (edges[n] \cap Node) \ {n} : n \in ReachableFrom(m)

\* processGraph() does not return or throw while a work item, which refers to
\* its stack frame, is executed.  It returns normally only if every node was
\* processed, and complains about a cycle only if there is one.
ReturnsClean ==
  /\ GraphTypeOK
  /\ tpc[Main] = "over" => \A t \in PoolThread : ~Running(t)
  /\ outcome = "ok" => \A n \in Node : runs[n] = 1
  /\ outcome = "cyclic" => \E n \in Node : OnCycle(n)
  /\ outcome = "ok" => \A n \in Node : ~OnCycle(n)
=============================================================================
