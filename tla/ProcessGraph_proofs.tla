------------------------ MODULE ProcessGraph_proofs ------------------------
(***************************************************************************)
(* Proofs about processGraph() and the ThreadPool below it, for any finite *)
(* graph, any number of worker threads and any limit on it.                *)
(***************************************************************************)
EXTENDS ProcessGraph, FiniteSetTheorems, TLAPS

\* The control states in which a thread has a node in its hands that nobody
\* else may touch; afterwards the node may be enqueued again.
DoingPCs == {"run", "edges", "process", "release"}
Doing(t) == tpc[t] \in DoingPCs

MainPCs == {"enqueue", "drain", "shutdown", "join", "over"}
RunningPCs == DoingPCs \cup {"finished", "thrown"}
IdlePCs == {"loop", "asleep", "returned"}
ThreadPCs == {"none"} \cup MainPCs \cup RunningPCs \cup IdlePCs

Elems(q) == {q[i] : i \in 1..Len(q)}
Distinct(q) == \A i, j \in 1..Len(q) : q[i] = q[j] => i = j

-----------------------------------------------------------------------------
(* The inductive invariant.                                                *)

PGTypeOK ==
  /\ quit \in BOOLEAN /\ exception \in BOOLEAN /\ draining \in BOOLEAN
  /\ pending \in Seq(Node)
  /\ active \in Nat
  /\ workers \subseteq WorkerThread
  /\ tpc \in [PoolThread -> ThreadPCs]
  /\ item \in [PoolThread -> Node \cup {NoItem}]
  /\ toEnqueue \subseteq Node
  /\ left \subseteq Node
  /\ refs \in [Node -> [known : BOOLEAN, set : SUBSET Node]]
  /\ rrefs \in [Node -> SUBSET Node]
  /\ glock \in PoolThread \cup {NoItem}
  /\ runs \in [Node -> 0..1]
  /\ outcome \in {"running", "ok", "threw", "cyclic"}

\* The threads: which of them exist, and how many execute an item.
ThreadInv ==
  /\ active = Cardinality({t \in PoolThread : Running(t)})
  /\ \A t \in PoolThread : Running(t) <=> item[t] # NoItem
  /\ Cardinality(workers) < maxThreads
  /\ tpc[Main] # "none"
  /\ \A t \in WorkerThread :
       /\ tpc[t] \notin MainPCs
       /\ t \in workers => tpc[t] # "none"
       /\ t \notin workers =>
            tpc[t] = "none" \/ (tpc[Main] = "over" /\ tpc[t] = "returned")
  /\ tpc[Main] = "over" => workers = {}

\* When the pool quits: after an exception, or when there is nothing left to
\* do and process() has been called.
QuitInv ==
  /\ exception => quit
  /\ \A t \in PoolThread : tpc[t] \in {"returned", "shutdown", "join", "over"} => quit
  /\ tpc[Main] = "enqueue" => ~draining
  /\ quit /\ ~exception =>
       pending = <<>> /\ draining /\ \A t \in PoolThread : ~Running(t)
  /\ tpc[Main] # "enqueue" => toEnqueue = {} \/ exception

\* A node that is not yet processed is in one place at most: with the calling
\* thread, in the queue, with one thread, or waiting for other nodes.
PlaceInv ==
  /\ Distinct(pending)
  /\ toEnqueue \cap Elems(pending) = {}
  /\ \A t \in PoolThread : Doing(t) => item[t] \notin toEnqueue \cup Elems(pending)
  /\ \A t, u \in PoolThread : Doing(t) /\ Doing(u) /\ item[t] = item[u] => t = u
  /\ \A n \in Node : refs[n].set # {} =>
       /\ refs[n].known
       /\ n \notin toEnqueue \cup Elems(pending)
       /\ runs[n] = 0
       /\ \A t \in PoolThread : Doing(t) => item[t] # n
  /\ \A n \in toEnqueue : ~refs[n].known

\* What has been done for a node in its place.
StageInv ==
  /\ \A n \in toEnqueue \cup Elems(pending) : runs[n] = 0 /\ n \in left
  /\ \A t \in PoolThread : Doing(t) =>
       /\ item[t] \in left
       /\ tpc[t] # "release" => runs[item[t]] = 0
       /\ tpc[t] = "release" => runs[item[t]] = 1
       /\ tpc[t] = "edges" => ~refs[item[t]].known
       /\ tpc[t] \in {"process", "release"} => refs[item[t]].known
  /\ \A n \in Node : n \notin left => runs[n] = 1

\* The references that are recorded: all that are not processed.
RefInv ==
  /\ \A n \in Node : refs[n].known =>
       \A r \in (edges[n] \cap Node) \ {n} : r \in refs[n].set \/ runs[r] = 1
  /\ \A n \in Node : \A r \in refs[n].set :
       r \in left /\ r \in edges[n] /\ r # n /\ n \in rrefs[r]
  /\ \A n \in Node : runs[n] = 1 =>
       \A r \in (edges[n] \cap Node) \ {n} : runs[r] = 1
  /\ \A n \in Node : runs[n] = 1 => ~OnCycle(n)

\* Nothing has been removed from the references of those that wait for a node
\* until the node is processed and released.
WaitInv ==
  /\ \A n \in Node : runs[n] = 0 => \A r \in rrefs[n] : n \in refs[r].set
  /\ \A t \in PoolThread : tpc[t] = "release" /\ glock # t =>
       \A r \in rrefs[item[t]] : item[t] \in refs[r].set
  /\ \A t \in PoolThread : glock = t => tpc[t] = "release"

\* No node is forgotten, unless a work item throws.
KeptInv ==
  \/ exception
  \/ \E t \in PoolThread : tpc[t] = "thrown"
  \/ \A n \in left :
       \/ n \in toEnqueue \cup Elems(pending)
       \/ \E t \in PoolThread : Doing(t) /\ item[t] = n
       \/ refs[n].set # {}

\* How processGraph() ended.
EndInv ==
  /\ outcome = "ok" => left = {}
  /\ outcome = "cyclic" => \E n \in Node : OnCycle(n)

IInv == /\ PGTypeOK /\ ThreadInv /\ QuitInv /\ PlaceInv /\ StageInv /\ RefInv
        /\ WaitInv /\ KeptInv /\ EndInv
-----------------------------------------------------------------------------
(* Sequences, sets of threads, graphs.                                     *)

\* What Append() does to a queue of distinct nodes.
LEMMA AppendElems ==
  ASSUME NEW q \in Seq(Node), NEW n \in Node
  PROVE  /\ Append(q, n) \in Seq(Node)
         /\ Elems(Append(q, n)) = Elems(q) \cup {n}
         /\ Distinct(q) /\ n \notin Elems(q) => Distinct(Append(q, n))
<1>1. /\ Append(q, n) \in Seq(Node)
      /\ Len(Append(q, n)) = Len(q) + 1
      /\ Append(q, n)[Len(q) + 1] = n
      /\ \A i \in 1..Len(q) : Append(q, n)[i] = q[i]
  OBVIOUS
<1>2. Elems(Append(q, n)) = Elems(q) \cup {n}
  BY <1>1 DEF Elems
<1>3. Distinct(q) /\ n \notin Elems(q) => Distinct(Append(q, n))
  BY <1>1 DEF Elems, Distinct
<1> QED  BY <1>1, <1>2, <1>3

\* What Tail() does to it.
LEMMA TailElems ==
  ASSUME NEW q \in Seq(Node), q # <<>>, Distinct(q)
  PROVE  /\ Tail(q) \in Seq(Node) /\ Distinct(Tail(q))
         /\ Head(q) \in Node /\ Head(q) \in Elems(q)
         /\ Elems(Tail(q)) = Elems(q) \ {Head(q)}
<1>1. /\ Tail(q) \in Seq(Node) /\ Len(q) \in Nat \ {0}
      /\ Len(Tail(q)) = Len(q) - 1
      /\ \A i \in 1..(Len(q) - 1) : Tail(q)[i] = q[i + 1]
      /\ Head(q) = q[1] /\ q[1] \in Node
  OBVIOUS
<1>2. Distinct(Tail(q))
  BY <1>1 DEF Distinct
<1>3. Elems(Tail(q)) \subseteq Elems(q) \ {Head(q)}
  BY <1>1 DEF Elems, Distinct
<1>4. ASSUME NEW x \in Elems(q) \ {Head(q)}
      PROVE  x \in Elems(Tail(q))
  <2>1. PICK i \in 1..Len(q) : x = q[i]
    BY DEF Elems
  <2>2. i # 1 /\ i - 1 \in 1..(Len(q) - 1) /\ Tail(q)[i - 1] = x
    BY <1>1, <2>1
  <2> QED  BY <1>1, <2>2 DEF Elems
<1>5. Head(q) \in Elems(q)
  BY <1>1 DEF Elems
<1> QED  BY <1>1, <1>2, <1>3, <1>4, <1>5

\* No node on the way from a processed one is unprocessed.
LEMMA ClosedSetReaches ==
  ASSUME NEW S \in SUBSET Node, ReferencesIn(S), NEW m \in S
  PROVE  ReachableFrom(m) \subseteq S
BY DEF ReachableFrom

\* What can be reached is closed under references.
LEMMA ReachableIsClosed ==
  ASSUME NEW n \in Node
  PROVE  /\ n \in ReachableFrom(n) /\ ReachableFrom(n) \subseteq Node
         /\ ReferencesIn(ReachableFrom(n))
BY DEF ReachableFrom, ReferencesIn

\* A set of natural numbers that is not empty has a least element.
LEMMA LeastNumber ==
  ASSUME NEW T, T \subseteq Nat, T # {}
  PROVE  \E x \in T : \A y \in T : x <= y
<1> DEFINE R == {ss \in Nat \X Nat : ss[1] < ss[2]}
<1>1. IsWellFoundedOn(R, Nat)
  BY NatLessThanWellFounded DEF OpToRel
<1>2. \E x \in T : \A y \in T : ~(<<y, x>> \in R)
  <2> HIDE DEF R
  <2> QED  BY <1>1, WFMin
<1>3. PICK x \in T : \A y \in T : ~(<<y, x>> \in R)
  BY <1>2
<1>4. \A y \in T : x <= y
  <2> TAKE y \in T
  <2>1. ~(y < x)
    BY <1>3
  <2> QED  BY <2>1
<1> QED  BY <1>4

\* If every node of a set that is not empty refers to another one of the set,
\* there is a cycle: start from one from which the fewest can be reached.
LEMMA CycleExists ==
  ASSUME NEW S \in SUBSET Node, S # {},
         \A n \in S : \E m \in S : m \in edges[n] /\ m # n
  PROVE  \E n \in Node : OnCycle(n)
<1> DEFINE Size(n) == Cardinality(ReachableFrom(n))
           T == {Size(n) : n \in S}
<1>1. \A n \in Node : IsFiniteSet(ReachableFrom(n)) /\ Size(n) \in Nat
  <2> TAKE n \in Node
  <2>1. ReachableFrom(n) \in SUBSET Node
    BY ReachableIsClosed
  <2>2. IsFiniteSet(ReachableFrom(n))
    BY <2>1, NodeAssumption, FS_Subset
  <2> QED  BY <2>2, FS_CardinalityType
<1>2. T \subseteq Nat /\ T # {}
  BY <1>1
<1>3. PICK k \in T : \A l \in T : k <= l
  <2> HIDE DEF T
  <2> QED  BY <1>2, LeastNumber
<1>4. PICK n \in S : k = Size(n)
  OBVIOUS
<1>5. PICK m \in S : m \in edges[n] /\ m # n
  OBVIOUS
<1>6. Size(n) <= Size(m)
  BY <1>3, <1>4
<1>7. ReachableFrom(m) \subseteq ReachableFrom(n)
  <2>1. m \in ReachableFrom(n)
    BY <1>5, ReachableIsClosed DEF ReferencesIn
  <2> QED  BY <2>1, ReachableIsClosed, ClosedSetReaches
<1>8. ReachableFrom(m) = ReachableFrom(n)
  <2> DEFINE A == ReachableFrom(n)
             B == ReachableFrom(m)
  <2>1. IsFiniteSet(A) /\ B \in SUBSET A /\ Cardinality(A) \in Nat
        /\ Cardinality(B) \in Nat /\ Cardinality(A) <= Cardinality(B)
    BY <1>1, <1>6, <1>7
  <2> HIDE DEF A, B
  <2>2. Cardinality(B) <= Cardinality(A) /\ (Cardinality(A) = Cardinality(B) => A = B)
    BY <2>1, FS_Subset
  <2>3. A = B
    BY <2>1, <2>2
  <2> QED  BY <2>3 DEF A, B
<1>9. n \in ReachableFrom(m)
  BY <1>8, ReachableIsClosed
<1> QED  BY <1>5, <1>9 DEF OnCycle

\* A cycle does not depend on anything but the graph.
LEMMA CyclesKept ==
  ASSUME edges' = edges
  PROVE  \A n \in Node : OnCycle(n)' <=> OnCycle(n)
BY DEF OnCycle, ReachableFrom, ReferencesIn

-----------------------------------------------------------------------------
(* The pool.                                                               *)

\* What enqueue() leaves behind: the item at the end of the queue, perhaps a
\* new worker, within the limit, and perhaps a thread that was woken up.
LEMMA EnqueuedEffect ==
  ASSUME PGTypeOK, ThreadInv, NEW n \in Node, tpc[Main] # "over",
         NEW e \in Enqueued(n, pending, workers, tpc)
  PROVE  /\ e.pending = Append(pending, n)
         /\ e.tpc \in [PoolThread -> ThreadPCs]
         /\ \A t \in PoolThread :
              \/ e.tpc[t] = tpc[t]
              \/ tpc[t] \in {"asleep", "none"} /\ e.tpc[t] = "loop"
         /\ e.workers \subseteq WorkerThread
         /\ \A t \in WorkerThread : t \in e.workers <=> e.tpc[t] # "none"
         /\ Cardinality(e.workers) < maxThreads
<1> DEFINE starts == /\ Len(Append(pending, n)) > Cardinality(workers) + 1
                     /\ Cardinality(workers) + 1 < maxThreads
           new == CHOOSE t \in WorkerThread : tpc[t] = "none"
           base == IF starts THEN [tpc EXCEPT ![new] = "loop"] ELSE tpc
           ws == IF starts THEN workers \cup {new} ELSE workers
<1>1. PICK p \in NotifyOne(base) :
        e = [pending |-> Append(pending, n), workers |-> ws, tpc |-> p]
  BY DEF Enqueued
<1>2. IsFiniteSet(workers) /\ Cardinality(workers) \in Nat
  BY MainAssumption, FS_Subset, FS_CardinalityType DEF PGTypeOK
<1>3. starts => new \in WorkerThread /\ tpc[new] = "none" /\ new \notin workers
  <2> SUFFICES ASSUME starts
               PROVE  new \in WorkerThread /\ tpc[new] = "none" /\ new \notin workers
    OBVIOUS
  <2>1. workers # WorkerThread
    BY <1>2, maxThreadsAssumption, MainAssumption, FS_CardinalityType
  <2>2. \E t \in WorkerThread : tpc[t] = "none"
    BY <2>1 DEF PGTypeOK, ThreadInv
  <2>3. new \in WorkerThread /\ tpc[new] = "none"
    BY <2>2, Zenon
  <2> QED  BY <2>3 DEF ThreadInv
<1> HIDE DEF new
<1>4. /\ base \in [PoolThread -> ThreadPCs]
      /\ \A t \in PoolThread :
           base[t] = tpc[t] \/ (tpc[t] = "none" /\ base[t] = "loop")
      /\ \A t \in WorkerThread : t \in ws <=> base[t] # "none"
  BY <1>3 DEF PGTypeOK, ThreadInv, PoolThread, IdlePCs, ThreadPCs
<1>5. ws \subseteq WorkerThread /\ Cardinality(ws) < maxThreads
  <2>1. CASE starts
    <3>1. Cardinality(workers \cup {new}) = Cardinality(workers) + 1
      BY <1>2, <1>3, <2>1, FS_AddElement
    <3> QED  BY <1>3, <2>1, <3>1 DEF PGTypeOK
  <2>2. CASE ~starts
    BY <2>2 DEF PGTypeOK, ThreadInv
  <2> QED  BY <2>1, <2>2
<1> HIDE DEF base, ws, starts
<1>6. \/ p = base
      \/ \E t \in PoolThread : base[t] = "asleep" /\ p = [base EXCEPT ![t] = "loop"]
  BY <1>1 DEF NotifyOne, Asleep
<1>7. /\ p \in [PoolThread -> ThreadPCs]
      /\ \A t \in PoolThread :
           \/ p[t] = tpc[t]
           \/ tpc[t] \in {"asleep", "none"} /\ p[t] = "loop"
      /\ \A t \in WorkerThread : t \in ws <=> p[t] # "none"
  BY <1>4, <1>6 DEF PoolThread, IdlePCs, ThreadPCs
<1> QED  BY <1>1, <1>5, <1>7

\* A step that leaves the graph, the queue and the nodes in the hands of the
\* threads alone keeps what is said about nodes.
LEMMA NodeFrame ==
  ASSUME IInv,
         UNCHANGED <<pending, edges, toEnqueue, left, refs, rrefs, glock, runs>>,
         \A t \in PoolThread :
           Doing(t) \/ Doing(t)' => tpc'[t] = tpc[t] /\ item'[t] = item[t]
  PROVE  PlaceInv' /\ StageInv' /\ RefInv' /\ WaitInv'
<1> USE DEF IInv, Doing, DoingPCs
<1>1. PlaceInv'
  BY DEF PlaceInv, Elems, Distinct
<1>2. StageInv'
  BY DEF StageInv, Elems
<1>3. RefInv'
  BY CyclesKept DEF RefInv
<1>4. WaitInv'
  BY DEF WaitInv
<1> QED  BY <1>1, <1>2, <1>3, <1>4

\* A step within a work item keeps what is said about threads.
LEMMA ItemFrame ==
  ASSUME IInv, NEW t \in PoolThread, Running(t), NEW l \in RunningPCs,
         tpc' = [tpc EXCEPT ![t] = l], PoolKept, UNCHANGED toEnqueue
  PROVE  /\ tpc' \in [PoolThread -> ThreadPCs]
         /\ ThreadInv' /\ QuitInv'
<1> USE DEF IInv, PGTypeOK, PoolKept, RunningPCs, DoingPCs, MainPCs, ThreadPCs
<1>1. \A u \in PoolThread : Running(u)' <=> Running(u)
  BY DEF Running
<1>2. {u \in PoolThread : Running(u)}' = {u \in PoolThread : Running(u)}
  BY <1>1
<1>3. tpc' \in [PoolThread -> ThreadPCs]
  OBVIOUS
<1>4. ThreadInv'
  BY <1>1, <1>2, MainAssumption DEF ThreadInv, Running, PoolThread
<1>5. QuitInv'
  BY <1>1 DEF QuitInv, Running, PoolThread
<1> QED  BY <1>3, <1>4, <1>5

-----------------------------------------------------------------------------
(* The steps of the pool.                                                  *)

\* A step between work items: no thread begins or ends one.
LEMMA IdleFrame ==
  ASSUME IInv,
         tpc' \in [PoolThread -> ThreadPCs],
         \A u \in PoolThread : tpc'[u] = tpc[u] \/ (~Running(u) /\ ~Running(u)'),
         UNCHANGED <<item, active, exception, pending, edges, toEnqueue, left,
                     refs, rrefs, glock, runs>>
  PROVE  /\ active' = Cardinality({u \in PoolThread : Running(u)}')
         /\ \A u \in PoolThread : Running(u)' <=> Running(u)
         /\ \A u \in PoolThread : Running(u)' <=> item'[u] # NoItem
         /\ PlaceInv' /\ StageInv' /\ RefInv' /\ WaitInv' /\ KeptInv'
<1> USE DEF IInv
<1>1. \A u \in PoolThread : Running(u)' <=> Running(u)
  BY DEF Running
<1>2. {u \in PoolThread : Running(u)}' = {u \in PoolThread : Running(u)}
  BY <1>1
<1>3. \A u \in PoolThread : Doing(u) \/ Doing(u)' => tpc'[u] = tpc[u]
  BY DEF Doing, DoingPCs, Running
<1>4. PlaceInv' /\ StageInv' /\ RefInv' /\ WaitInv'
  BY <1>3, NodeFrame
<1>5. KeptInv'
  <2>1. \A u \in PoolThread : tpc[u] = "thrown" => tpc'[u] = "thrown"
    BY DEF Running
  <2>2. \A u \in PoolThread : Doing(u) => Doing(u)'
    BY <1>3 DEF Doing
  <2>3. Elems(pending)' = Elems(pending)
    BY DEF Elems
  <2> QED  BY <2>1, <2>2, <2>3 DEF KeptInv
<1> QED  BY <1>1, <1>2, <1>4, <1>5 DEF ThreadInv

\* doWork() returns.
LEMMA QuitStep ==
  ASSUME IInv, NEW t \in PoolThread, Quit(t), UNCHANGED graphVars
  PROVE  IInv'
<1> USE DEF IInv, Quit, graphVars
<1>1. PGTypeOK'
  BY DEF PGTypeOK, IdlePCs, ThreadPCs
<1>2. \A u \in PoolThread : tpc'[u] = tpc[u] \/ (~Running(u) /\ ~Running(u)')
  BY DEF Running, PGTypeOK
<1>3. /\ active' = Cardinality({u \in PoolThread : Running(u)}')
      /\ \A u \in PoolThread : Running(u)' <=> Running(u)
      /\ \A u \in PoolThread : Running(u)' <=> item'[u] # NoItem
      /\ PlaceInv' /\ StageInv' /\ RefInv' /\ WaitInv' /\ KeptInv'
  BY <1>1, <1>2, IdleFrame DEF PGTypeOK
<1>4. ThreadInv'
  BY <1>3, MainAssumption DEF ThreadInv, PoolThread, PGTypeOK, MainPCs, ThreadPCs
<1>5. QuitInv'
  BY <1>3, MainAssumption DEF QuitInv, PoolThread, PGTypeOK
<1>6. EndInv'
  BY CyclesKept DEF EndInv
<1> QED  BY <1>1, <1>3, <1>4, <1>5, <1>6

\* A thread sleeps.
LEMMA SleepStep ==
  ASSUME IInv, NEW t \in PoolThread, Sleep(t), UNCHANGED graphVars
  PROVE  IInv'
<1> USE DEF IInv, Sleep, graphVars
<1>1. PGTypeOK'
  BY DEF PGTypeOK, IdlePCs, ThreadPCs
<1>2. \A u \in PoolThread : tpc'[u] = tpc[u] \/ (~Running(u) /\ ~Running(u)')
  BY DEF Running, PGTypeOK
<1>3. /\ active' = Cardinality({u \in PoolThread : Running(u)}')
      /\ \A u \in PoolThread : Running(u)' <=> Running(u)
      /\ \A u \in PoolThread : Running(u)' <=> item'[u] # NoItem
      /\ PlaceInv' /\ StageInv' /\ RefInv' /\ WaitInv' /\ KeptInv'
  BY <1>1, <1>2, IdleFrame DEF PGTypeOK
<1>4. ThreadInv'
  BY <1>3, MainAssumption DEF ThreadInv, PoolThread, PGTypeOK, MainPCs, ThreadPCs
<1>5. QuitInv'
  BY <1>3, MainAssumption DEF QuitInv, PoolThread, PGTypeOK
<1>6. EndInv'
  BY CyclesKept DEF EndInv
<1> QED  BY <1>1, <1>3, <1>4, <1>5, <1>6

\* The last thread to run out of work ends the pool: nobody executes an item.
LEMMA DrainStep ==
  ASSUME IInv, NEW t \in PoolThread, Drain(t), UNCHANGED graphVars
  PROVE  IInv'
<1> USE DEF IInv, Drain, graphVars
<1>1. PGTypeOK'
  BY DEF PGTypeOK, IdlePCs, NotifyAll, ThreadPCs
<1>2. \A u \in PoolThread :
        \/ tpc'[u] = tpc[u]
        \/ tpc[u] \in {"loop", "asleep"} /\ tpc'[u] \in {"loop", "returned"}
  BY DEF PGTypeOK, NotifyAll
<1>3. \A u \in PoolThread : tpc'[u] = tpc[u] \/ (~Running(u) /\ ~Running(u)')
  BY <1>2 DEF Running
<1>4. /\ active' = Cardinality({u \in PoolThread : Running(u)}')
      /\ \A u \in PoolThread : Running(u)' <=> Running(u)
      /\ \A u \in PoolThread : Running(u)' <=> item'[u] # NoItem
      /\ PlaceInv' /\ StageInv' /\ RefInv' /\ WaitInv' /\ KeptInv'
  BY <1>1, <1>3, IdleFrame DEF PGTypeOK
<1>5. ThreadInv'
  BY <1>2, <1>4, MainAssumption DEF ThreadInv, PoolThread, PGTypeOK, MainPCs, ThreadPCs
<1>6. \A u \in PoolThread : ~Running(u)
  <2> DEFINE A == {u \in PoolThread : Running(u)}
  <2>1. IsFiniteSet(A) /\ Cardinality(A) = 0
    <3>1. IsFiniteSet(PoolThread) /\ A \subseteq PoolThread
      BY MainAssumption, FS_AddElement DEF PoolThread
    <3>2. Cardinality(A) = 0
      BY DEF ThreadInv, Drained
    <3> HIDE DEF A
    <3> QED  BY <3>1, <3>2, FS_Subset
  <2>2. A = {}
    <3> HIDE DEF A
    <3> QED  BY <2>1, FS_EmptySet
  <2> QED  BY <2>2
<1>7. QuitInv'
  BY <1>2, <1>4, <1>6, MainAssumption DEF QuitInv, PoolThread, PGTypeOK, Drained
<1>8. EndInv'
  BY CyclesKept DEF EndInv
<1> QED  BY <1>1, <1>4, <1>5, <1>7, <1>8

\* process() begins.
LEMMA ProcessStep ==
  ASSUME IInv, Process, UNCHANGED graphVars
  PROVE  IInv'
<1> USE DEF IInv, Process, graphVars
<1>0. Main \in PoolThread
  BY DEF PoolThread
<1>1. PGTypeOK'
  BY DEF PGTypeOK, IdlePCs, ThreadPCs
<1>2. \A u \in PoolThread : tpc'[u] = tpc[u] \/ (~Running(u) /\ ~Running(u)')
  BY DEF Running, PGTypeOK
<1>3. /\ active' = Cardinality({u \in PoolThread : Running(u)}')
      /\ \A u \in PoolThread : Running(u)' <=> Running(u)
      /\ \A u \in PoolThread : Running(u)' <=> item'[u] # NoItem
      /\ PlaceInv' /\ StageInv' /\ RefInv' /\ WaitInv' /\ KeptInv'
  BY <1>1, <1>2, IdleFrame DEF PGTypeOK
<1>4. ThreadInv'
  BY <1>0, <1>3, MainAssumption DEF ThreadInv, PoolThread, PGTypeOK, MainPCs, ThreadPCs
<1>5. QuitInv'
  BY <1>0, <1>3, MainAssumption DEF QuitInv, PoolThread, PGTypeOK
<1>6. EndInv'
  BY CyclesKept DEF EndInv
<1> QED  BY <1>1, <1>3, <1>4, <1>5, <1>6

\* shutdown() tells the workers to quit.
LEMMA ShutdownStep ==
  ASSUME IInv, Shutdown, UNCHANGED graphVars
  PROVE  IInv'
<1> USE DEF IInv, Shutdown, graphVars
<1>0. Main \in PoolThread
  BY DEF PoolThread
<1>1. PGTypeOK'
  BY DEF PGTypeOK, IdlePCs, MainPCs, NotifyAll, ThreadPCs
<1>2. \A u \in PoolThread :
        \/ tpc'[u] = tpc[u]
        \/ tpc[u] = "asleep" /\ tpc'[u] = "loop"
        \/ u = Main /\ tpc[u] = "shutdown" /\ tpc'[u] = "join"
  BY <1>0 DEF PGTypeOK, NotifyAll
<1>3. \A u \in PoolThread : tpc'[u] = tpc[u] \/ (~Running(u) /\ ~Running(u)')
  BY <1>2 DEF Running
<1>4. /\ active' = Cardinality({u \in PoolThread : Running(u)}')
      /\ \A u \in PoolThread : Running(u)' <=> Running(u)
      /\ \A u \in PoolThread : Running(u)' <=> item'[u] # NoItem
      /\ PlaceInv' /\ StageInv' /\ RefInv' /\ WaitInv' /\ KeptInv'
  BY <1>1, <1>3, IdleFrame DEF PGTypeOK
<1>5. ThreadInv'
  BY <1>0, <1>2, <1>4, MainAssumption DEF ThreadInv, PoolThread, PGTypeOK, MainPCs, ThreadPCs
<1>6. quit
  BY <1>0 DEF QuitInv
<1>7. QuitInv'
  BY <1>0, <1>2, <1>4, <1>6, MainAssumption DEF QuitInv, PoolThread, PGTypeOK
<1>8. EndInv'
  BY CyclesKept DEF EndInv
<1> QED  BY <1>1, <1>4, <1>5, <1>7, <1>8

\* shutdown() has joined the workers.
LEMMA JoinStep ==
  ASSUME IInv, Join, UNCHANGED graphVars
  PROVE  IInv'
<1> USE DEF IInv, Join, graphVars
<1>0. Main \in PoolThread
  BY DEF PoolThread
<1>1. PGTypeOK'
  BY DEF PGTypeOK, MainPCs, ThreadPCs
<1>2. \A u \in PoolThread :
        \/ tpc'[u] = tpc[u]
        \/ u = Main /\ tpc[u] = "join" /\ tpc'[u] = "over"
  BY <1>0 DEF PGTypeOK
<1>3. \A u \in PoolThread : tpc'[u] = tpc[u] \/ (~Running(u) /\ ~Running(u)')
  BY <1>2 DEF Running
<1>4. /\ active' = Cardinality({u \in PoolThread : Running(u)}')
      /\ \A u \in PoolThread : Running(u)' <=> Running(u)
      /\ \A u \in PoolThread : Running(u)' <=> item'[u] # NoItem
      /\ PlaceInv' /\ StageInv' /\ RefInv' /\ WaitInv' /\ KeptInv'
  BY <1>1, <1>3, IdleFrame DEF PGTypeOK
<1>5. Cardinality(workers') < maxThreads
  BY maxThreadsAssumption, FS_EmptySet, MainAssumption, FS_CardinalityType
<1>6. ThreadInv'
  <2>1. tpc'[Main] = "over" /\ \A u \in WorkerThread : tpc'[u] = tpc[u]
    BY <1>0, MainAssumption DEF PGTypeOK, PoolThread
  <2>2. \A u \in WorkerThread : tpc[u] \in {"none", "returned"} /\ tpc'[u] \notin MainPCs
    BY <2>1 DEF ThreadInv, MainPCs, ThreadPCs
  <2> QED  BY <1>4, <1>5, <2>1, <2>2 DEF ThreadInv
<1>7. QuitInv'
  BY <1>0, <1>2, <1>4, MainAssumption DEF QuitInv, PoolThread, PGTypeOK
<1>8. EndInv'
  BY CyclesKept DEF EndInv
<1> QED  BY <1>1, <1>4, <1>6, <1>7, <1>8

\* A thread takes an item from the queue.
LEMMA TakeItemStep ==
  ASSUME IInv, NEW t \in PoolThread, TakeItem(t), UNCHANGED graphVars
  PROVE  IInv'
<1> USE DEF IInv, TakeItem, graphVars
<1> DEFINE n == Head(pending)
<1>1. /\ pending' \in Seq(Node) /\ Distinct(pending')
      /\ n \in Node /\ n \in Elems(pending)
      /\ Elems(pending') = Elems(pending) \ {n}
  BY TailElems DEF PGTypeOK, PlaceInv
<1>2. /\ tpc' \in [PoolThread -> ThreadPCs]
      /\ tpc'[t] = "run" /\ tpc[t] = "loop" /\ item'[t] = n
      /\ \A u \in PoolThread \ {t} : tpc'[u] = tpc[u] /\ item'[u] = item[u]
  BY <1>1 DEF PGTypeOK, RunningPCs, DoingPCs, ThreadPCs
<1>3. PGTypeOK'
  BY <1>1, <1>2 DEF PGTypeOK
<1>4. \A u \in PoolThread \ {t} : Running(u)' <=> Running(u)
  BY <1>2 DEF Running
<1>5. active' = Cardinality({u \in PoolThread : Running(u)}')
  <2> DEFINE A == {u \in PoolThread : Running(u)}
             B == {u \in PoolThread : Running(u)}'
  <2>1. B = A \cup {t} /\ t \notin A
    BY <1>2, <1>4 DEF Running
  <2>2. IsFiniteSet(A)
    <3>1. IsFiniteSet(PoolThread) /\ A \subseteq PoolThread
      BY MainAssumption, FS_AddElement DEF PoolThread
    <3> HIDE DEF A
    <3> QED  BY <3>1, FS_Subset
  <2>3. active = Cardinality(A)
    BY DEF ThreadInv
  <2> HIDE DEF A, B
  <2>4. active' = Cardinality(B)
    BY <2>1, <2>2, <2>3, FS_AddElement
  <2> QED  BY <2>4 DEF B
<1>6. ThreadInv'
  <2>1. \A u \in PoolThread : Running(u)' <=> item'[u] # NoItem
    BY <1>1, <1>2, <1>4, NodeAssumption DEF ThreadInv, Running
  <2> QED  BY <1>2, <1>5, <2>1 DEF ThreadInv, PoolThread, MainPCs, ThreadPCs
<1>7. QuitInv'
  BY <1>2, <1>4 DEF QuitInv, PoolThread, PGTypeOK
<1>8. /\ ~Doing(t) /\ Doing(t)'
      /\ \A u \in PoolThread \ {t} : Doing(u)' <=> Doing(u)
  BY <1>2 DEF Doing, DoingPCs
<1>9. PlaceInv'
  BY <1>1, <1>2, <1>8 DEF PlaceInv
<1>10. StageInv'
  BY <1>1, <1>2, <1>8 DEF StageInv
<1>11. RefInv'
  BY CyclesKept DEF RefInv
<1>12. WaitInv'
  BY <1>2 DEF WaitInv
<1>13. KeptInv'
  BY <1>1, <1>2, <1>8 DEF KeptInv
<1>14. EndInv'
  BY CyclesKept DEF EndInv
<1> QED  BY <1>3, <1>6, <1>7, <1>9, <1>10, <1>11, <1>12, <1>13, <1>14

\* A thread is done with its item, or the item has thrown.
LEMMA ItemDoneStep ==
  ASSUME IInv, NEW t \in PoolThread, ItemDone(t), UNCHANGED graphVars
  PROVE  IInv'
<1> USE DEF IInv, ItemDone, graphVars
<1>1. /\ tpc[t] \in {"finished", "thrown"} /\ tpc'[t] = "loop" /\ item'[t] = NoItem
      /\ \A u \in PoolThread \ {t} :
           /\ item'[u] = item[u]
           /\ tpc'[u] = tpc[u] \/ (tpc[u] = "asleep" /\ tpc'[u] = "loop")
      /\ tpc' \in [PoolThread -> ThreadPCs]
  BY DEF PGTypeOK, IdlePCs, NotifyAll, ThreadPCs
<1>2. Running(t) /\ ~Running(t)' /\ \A u \in PoolThread \ {t} : Running(u)' <=> Running(u)
  BY <1>1 DEF Running
<1>3. active' = Cardinality({u \in PoolThread : Running(u)}') /\ active' \in Nat
  <2> DEFINE A == {u \in PoolThread : Running(u)}
             B == {u \in PoolThread : Running(u)}'
  <2>1. B = A \ {t} /\ t \in A
    BY <1>2
  <2>2. IsFiniteSet(A)
    <3>1. IsFiniteSet(PoolThread) /\ A \subseteq PoolThread
      BY MainAssumption, FS_AddElement DEF PoolThread
    <3> HIDE DEF A
    <3> QED  BY <3>1, FS_Subset
  <2>3. active = Cardinality(A)
    BY DEF ThreadInv
  <2> HIDE DEF A, B
  <2>4. active' = Cardinality(B) /\ Cardinality(B) \in Nat
    BY <2>1, <2>2, <2>3, FS_RemoveElement, FS_CardinalityType
  <2> QED  BY <2>4 DEF B
<1>4. exception' \in BOOLEAN /\ quit' \in BOOLEAN
  BY Zenon DEF PGTypeOK
<1>5. PGTypeOK'
  BY <1>1, <1>3, <1>4 DEF PGTypeOK
<1>6. ThreadInv'
  <2>1. \A u \in PoolThread : Running(u)' <=> item'[u] # NoItem
    BY <1>1, <1>2 DEF ThreadInv
  <2> QED  BY <1>1, <1>3, <2>1 DEF ThreadInv, PoolThread, MainPCs, ThreadPCs
<1>7. QuitInv'
  <2>1. /\ exception' => quit'
        /\ quit => quit'
        /\ quit' /\ ~exception' => quit /\ ~exception
        /\ exception => exception'
    BY DEF QuitInv
  <2>2. \A u \in PoolThread : tpc'[u] \in {"returned", "shutdown", "join", "over"} =>
          tpc'[u] = tpc[u]
    BY <1>1
  <2>3. ~(quit /\ ~exception)
    BY <1>2 DEF QuitInv
  <2>4. tpc'[Main] = "enqueue" => tpc[Main] = "enqueue"
    BY <1>1 DEF PoolThread
  <2>5. tpc[Main] = "enqueue" => tpc'[Main] = "enqueue"
    BY <1>1 DEF PoolThread
  <2> QED  BY <2>1, <2>2, <2>3, <2>4, <2>5 DEF QuitInv
<1>8. \A u \in PoolThread :
        Doing(u) \/ Doing(u)' => tpc'[u] = tpc[u] /\ item'[u] = item[u]
  BY <1>1 DEF Doing, DoingPCs
<1>9. PlaceInv' /\ StageInv' /\ RefInv' /\ WaitInv'
  BY <1>8, NodeFrame
<1>10. KeptInv'
  <2>1. CASE exception'
    BY <2>1 DEF KeptInv
  <2>2. CASE ~exception'
    <3>1. ~exception /\ tpc[t] # "thrown"
      BY <2>2
    <3>2. \A u \in PoolThread : tpc[u] = "thrown" => tpc'[u] = "thrown"
      BY <1>1, <3>1
    <3>3. \A u \in PoolThread : Doing(u) => Doing(u)' /\ item'[u] = item[u]
      BY <1>8 DEF Doing
    <3>4. Elems(pending)' = Elems(pending)
      BY DEF Elems
    <3> QED  BY <3>1, <3>2, <3>3, <3>4 DEF KeptInv
  <2> QED  BY <2>1, <2>2
<1>11. EndInv'
  BY CyclesKept DEF EndInv
<1> QED  BY <1>5, <1>6, <1>7, <1>9, <1>10, <1>11

-----------------------------------------------------------------------------
(* The calling thread.                                                     *)

\* The next node goes to the queue, or the calling thread is done with that.
LEMMA EnqueueNodeStep ==
  ASSUME IInv, EnqueueNode
  PROVE  IInv'
<1> USE DEF IInv
<1>0. Main \in PoolThread /\ tpc[Main] = "enqueue"
  BY DEF PoolThread, EnqueueNode
<1>u. UNCHANGED <<quit, active, exception, draining, item, edges, left, refs,
                  rrefs, glock, runs, outcome>>
  BY DEF EnqueueNode
<1>e. EndInv'
  BY <1>u, CyclesKept DEF EndInv
<1>1. CASE toEnqueue = {} \/ quit
  <2>1. tpc' = [tpc EXCEPT ![Main] = "drain"] /\ UNCHANGED <<pending, workers, toEnqueue>>
    BY <1>1 DEF EnqueueNode
  <2>2. PGTypeOK'
    BY <1>u, <2>1 DEF PGTypeOK, MainPCs, ThreadPCs
  <2>3. \A u \in PoolThread : tpc'[u] = tpc[u] \/ (~Running(u) /\ ~Running(u)')
    BY <1>0, <2>1 DEF Running, PGTypeOK
  <2>4. /\ active' = Cardinality({u \in PoolThread : Running(u)}')
        /\ \A u \in PoolThread : Running(u)' <=> Running(u)
        /\ \A u \in PoolThread : Running(u)' <=> item'[u] # NoItem
        /\ PlaceInv' /\ StageInv' /\ RefInv' /\ WaitInv' /\ KeptInv'
    BY <1>u, <2>1, <2>2, <2>3, IdleFrame DEF PGTypeOK
  <2>5. ThreadInv'
    BY <1>0, <1>u, <2>1, <2>4, MainAssumption DEF ThreadInv, PoolThread, PGTypeOK, MainPCs, ThreadPCs
  <2>6. QuitInv'
    BY <1>0, <1>1, <1>u, <2>1, <2>4, MainAssumption DEF QuitInv, PoolThread, PGTypeOK
  <2> QED  BY <1>e, <2>2, <2>4, <2>5, <2>6
<1>2. CASE ~(toEnqueue = {} \/ quit)
  <2>1. PICK n \in toEnqueue : \E e \in Enqueued(n, pending, workers, tpc) :
          /\ pending' = e.pending /\ workers' = e.workers /\ tpc' = e.tpc
          /\ toEnqueue' = toEnqueue \ {n}
    BY <1>2 DEF EnqueueNode
  <2>2. n \in Node /\ toEnqueue' = toEnqueue \ {n}
    BY <2>1 DEF PGTypeOK
  <2>3. /\ pending' = Append(pending, n)
        /\ tpc' \in [PoolThread -> ThreadPCs]
        /\ \A t \in PoolThread :
             \/ tpc'[t] = tpc[t]
             \/ tpc[t] \in {"asleep", "none"} /\ tpc'[t] = "loop"
        /\ workers' \subseteq WorkerThread
        /\ \A t \in WorkerThread : t \in workers' <=> tpc'[t] # "none"
        /\ Cardinality(workers') < maxThreads
    BY <1>0, <2>1, <2>2, EnqueuedEffect
  <2>4. /\ pending' \in Seq(Node) /\ Distinct(pending')
        /\ Elems(pending') = Elems(pending) \cup {n} /\ n \notin Elems(pending)
    BY <2>1, <2>2, <2>3, AppendElems DEF PGTypeOK, PlaceInv
  <2>5. PGTypeOK'
    BY <1>u, <2>2, <2>3, <2>4 DEF PGTypeOK
  <2>6. \A u \in PoolThread : Running(u)' <=> Running(u)
    BY <2>3 DEF Running
  <2>7. {u \in PoolThread : Running(u)}' = {u \in PoolThread : Running(u)}
    BY <2>6
  <2>8. ThreadInv'
    BY <1>0, <1>u, <2>3, <2>6, <2>7 DEF ThreadInv, PoolThread, MainPCs, ThreadPCs
  <2>9. QuitInv'
    BY <1>0, <1>2, <1>u, <2>3, <2>6 DEF QuitInv
  <2>10. \A u \in PoolThread : (Doing(u)' <=> Doing(u)) /\ (Doing(u) => tpc'[u] = tpc[u])
    BY <2>3 DEF Doing, DoingPCs
  <2>11. PlaceInv'
    BY <1>u, <2>2, <2>4, <2>10 DEF PlaceInv
  <2>12. StageInv'
    BY <1>u, <2>2, <2>4, <2>10 DEF StageInv
  <2>13. RefInv'
    BY <1>u, CyclesKept DEF RefInv
  <2>14. WaitInv'
    <3>1. \A u \in PoolThread : tpc'[u] = "release" <=> tpc[u] = "release"
      BY <2>3
    <3> QED  BY <1>u, <3>1 DEF WaitInv
  <2>15. KeptInv'
    <3>1. \A u \in PoolThread : tpc[u] = "thrown" => tpc'[u] = "thrown"
      BY <2>3
    <3> QED  BY <1>u, <2>2, <2>4, <2>10, <3>1 DEF KeptInv
  <2> QED  BY <1>e, <2>5, <2>8, <2>9, <2>11, <2>12, <2>13, <2>14, <2>15
<1> QED  BY <1>1, <1>2

\* process() has returned.  If it did not throw, nothing is left but nodes
\* that wait for each other.
LEMMA ProcessReturnsStep ==
  ASSUME IInv, ProcessReturns
  PROVE  IInv'
<1> USE DEF IInv, ProcessReturns, PoolKept, Jump
<1>0. Main \in PoolThread /\ tpc[Main] = "returned"
  BY DEF PoolThread
<1>1. PGTypeOK'
  BY DEF PGTypeOK, MainPCs, ThreadPCs
<1>2. \A u \in PoolThread : tpc'[u] = tpc[u] \/ (~Running(u) /\ ~Running(u)')
  BY <1>0 DEF Running, PGTypeOK
<1>3. /\ active' = Cardinality({u \in PoolThread : Running(u)}')
      /\ \A u \in PoolThread : Running(u)' <=> Running(u)
      /\ \A u \in PoolThread : Running(u)' <=> item'[u] # NoItem
      /\ PlaceInv' /\ StageInv' /\ RefInv' /\ WaitInv' /\ KeptInv'
  BY <1>1, <1>2, IdleFrame DEF PGTypeOK
<1>4. ThreadInv'
  BY <1>0, <1>3, MainAssumption DEF ThreadInv, PoolThread, PGTypeOK, MainPCs, ThreadPCs
<1>5. QuitInv'
  BY <1>0, <1>3, MainAssumption DEF QuitInv, PoolThread, PGTypeOK
<1>6. ASSUME ~exception, left # {}
      PROVE  \E n \in Node : OnCycle(n)
  <2>1. pending = <<>> /\ toEnqueue = {} /\ \A t \in PoolThread : ~Running(t)
    BY <1>0, <1>6 DEF QuitInv
  <2>2. Elems(pending) = {}
    BY <2>1 DEF Elems
  <2>3. \A n \in left : refs[n].set # {}
    BY <1>6, <2>1, <2>2 DEF KeptInv, Doing, DoingPCs, Running
  <2>4. \A n \in left : \E m \in left : m \in edges[n] /\ m # n
    BY <2>3 DEF RefInv, PGTypeOK
  <2> QED  BY <1>6, <2>4, CycleExists DEF PGTypeOK
<1>7. EndInv'
  BY <1>6, CyclesKept DEF EndInv
<1> QED  BY <1>1, <1>3, <1>4, <1>5, <1>7

-----------------------------------------------------------------------------
(* The work item of a node.                                                *)

\* getEdges() has answered: the node waits for what is left of its edges, or
\* goes on.
LEMMA FindRefsStep ==
  ASSUME IInv, NEW t \in PoolThread, FindRefs(t)
  PROVE  IInv'
<1> USE DEF IInv, FindRefs, Jump, graphVars
<1> DEFINE n == item[t]
           l == IF refs[n].known THEN "process" ELSE "edges"
<1>1. Running(t) /\ l \in RunningPCs /\ tpc' = [tpc EXCEPT ![t] = l]
  BY DEF Running, RunningPCs, DoingPCs, ThreadPCs
<1>2. /\ tpc' \in [PoolThread -> ThreadPCs]
      /\ ThreadInv' /\ QuitInv'
  BY <1>1, ItemFrame
<1>3. PGTypeOK'
  BY <1>2 DEF PGTypeOK, PoolKept
<1>4. n \in Node
  BY <1>1 DEF ThreadInv, PGTypeOK
<1>5. /\ tpc[t] = "run" /\ tpc'[t] = l /\ item' = item
      /\ \A u \in PoolThread \ {t} : tpc'[u] = tpc[u]
      /\ \A u \in PoolThread : Doing(u)' <=> Doing(u)
  BY DEF PoolKept, PGTypeOK, Doing, DoingPCs
<1>6. PlaceInv'
  BY <1>5 DEF PlaceInv, PoolKept, Elems, Distinct
<1>7. StageInv'
  BY <1>4, <1>5 DEF StageInv, PoolKept, Elems, Doing, DoingPCs
<1>8. RefInv' /\ EndInv'
  BY CyclesKept DEF RefInv, EndInv
<1>9. WaitInv'
  BY <1>5 DEF WaitInv
<1>10. KeptInv'
  BY <1>5 DEF KeptInv, PoolKept, Elems
<1> QED  BY <1>2, <1>3, <1>6, <1>7, <1>8, <1>9, <1>10

\* getEdges() or processNode() throws.
LEMMA ItemThrowsStep ==
  ASSUME IInv, NEW t \in PoolThread, ItemThrows(t)
  PROVE  IInv'
<1> USE DEF IInv, ItemThrows, Jump, graphVars
<1>1. Running(t) /\ "thrown" \in RunningPCs
  BY DEF Running, RunningPCs, DoingPCs, ThreadPCs
<1>2. /\ tpc' \in [PoolThread -> ThreadPCs]
      /\ ThreadInv' /\ QuitInv'
  BY <1>1, ItemFrame
<1>3. PGTypeOK'
  BY <1>2 DEF PGTypeOK, PoolKept
<1>4. /\ tpc'[t] = "thrown" /\ item' = item /\ ~Doing(t)'
      /\ \A u \in PoolThread \ {t} : tpc'[u] = tpc[u] /\ (Doing(u)' <=> Doing(u))
  BY DEF PoolKept, PGTypeOK, Doing, DoingPCs
<1>5. PlaceInv'
  BY <1>4 DEF PlaceInv, PoolKept, Elems, Distinct
<1>6. StageInv'
  BY <1>4 DEF StageInv, PoolKept, Elems
<1>7. RefInv' /\ EndInv'
  BY CyclesKept DEF RefInv, EndInv
<1>8. WaitInv'
  BY <1>4 DEF WaitInv
<1>9. KeptInv'
  BY <1>4 DEF KeptInv
<1> QED  BY <1>2, <1>3, <1>5, <1>6, <1>7, <1>8, <1>9

\* The references of a node are recorded: those of its edges that are left.
\* Those that are not left have been processed.
LEMMA AddRefsStep ==
  ASSUME IInv, NEW t \in PoolThread, AddRefs(t)
  PROVE  IInv'
<1> USE DEF IInv
<1> DEFINE n == item[t]
           rs == RefsLeft(n)
           l == IF rs = {} THEN "process" ELSE "finished"
<1>1. Running(t) /\ l \in RunningPCs /\ tpc' = [tpc EXCEPT ![t] = l] /\ PoolKept
  BY DEF Running, RunningPCs, DoingPCs, AddRefs, Jump, ThreadPCs
<1>u. /\ tpc[t] = "edges"
      /\ UNCHANGED <<edges, toEnqueue, left, glock, runs, outcome>>
      /\ UNCHANGED <<quit, pending, active, exception, workers, draining, item>>
  BY DEF AddRefs, PoolKept
<1>2. /\ tpc' \in [PoolThread -> ThreadPCs]
      /\ ThreadInv' /\ QuitInv'
  BY <1>1, <1>u, ItemFrame
<1>3. n \in Node /\ rs \subseteq left /\ rs \subseteq Node /\ n \notin rs
  BY <1>1 DEF ThreadInv, PGTypeOK, RefsLeft
<1>4. /\ refs' \in [Node -> [known : BOOLEAN, set : SUBSET Node]]
      /\ refs'[n].known /\ refs'[n].set = rs
      /\ \A m \in Node \ {n} : refs'[m] = refs[m]
  BY <1>3 DEF AddRefs, PGTypeOK
<1>5. /\ rrefs' \in [Node -> SUBSET Node]
      /\ \A r \in rs : rrefs'[r] = rrefs[r] \cup {n}
      /\ \A r \in Node \ rs : rrefs'[r] = rrefs[r]
  BY <1>3 DEF AddRefs, PGTypeOK
<1>6. PGTypeOK'
  BY <1>u, <1>2, <1>4, <1>5 DEF PGTypeOK
<1>7. /\ tpc'[t] = l /\ Doing(t) /\ (Doing(t)' <=> rs = {})
      /\ \A u \in PoolThread \ {t} : tpc'[u] = tpc[u] /\ (Doing(u)' <=> Doing(u))
  BY <1>u, <1>1 DEF PGTypeOK, Doing, DoingPCs
<1>8. ~refs[n].known /\ refs[n].set = {} /\ runs[n] = 0
  BY <1>u, <1>3, <1>7 DEF StageInv, PlaceInv
<1>9. Elems(pending)' = Elems(pending)
  BY <1>u DEF Elems
<1>10. PlaceInv'
  <2>1. Distinct(pending)' /\ (toEnqueue \cap Elems(pending) = {})'
    BY <1>u, <1>9 DEF PlaceInv, Distinct
  <2>2. \A u \in PoolThread : Doing(u)' => item'[u] \notin toEnqueue' \cup Elems(pending)'
    BY <1>u, <1>7, <1>9 DEF PlaceInv
  <2>3. \A u, v \in PoolThread : Doing(u)' /\ Doing(v)' /\ item'[u] = item'[v] => u = v
    BY <1>u, <1>7, <1>9 DEF PlaceInv
  <2>4. ASSUME NEW m \in Node, refs'[m].set # {}
        PROVE  /\ refs'[m].known
               /\ m \notin toEnqueue' \cup Elems(pending)'
               /\ runs'[m] = 0
               /\ \A u \in PoolThread : Doing(u)' => item'[u] # m
    <3>1. CASE m = n
      BY <1>u, <1>4, <1>7, <1>8, <1>9, <2>4, <3>1 DEF PlaceInv
    <3>2. CASE m # n
      BY <1>u, <1>4, <1>7, <1>9, <2>4, <3>2 DEF PlaceInv
    <3> QED  BY <3>1, <3>2
  <2>5. \A m \in toEnqueue' : ~refs'[m].known
    BY <1>u, <1>4, <1>7 DEF PlaceInv, PGTypeOK
  <2> QED  BY <2>1, <2>2, <2>3, <2>4, <2>5 DEF PlaceInv
<1>11. StageInv'
  <2>1. \A u \in PoolThread \ {t} : Doing(u) => item[u] # n
    BY <1>7 DEF PlaceInv
  <2>2. \A u \in PoolThread : Doing(u)' =>
          /\ item'[u] \in left'
          /\ tpc'[u] # "release" => runs'[item'[u]] = 0
          /\ tpc'[u] = "release" => runs'[item'[u]] = 1
          /\ tpc'[u] = "edges" => ~refs'[item'[u]].known
          /\ tpc'[u] \in {"process", "release"} => refs'[item'[u]].known
    <3> TAKE u \in PoolThread
    <3>1. CASE u = t
      BY <1>u, <1>4, <1>7, <1>8, <3>1 DEF StageInv
    <3>2. CASE u # t
      BY <1>u, <1>4, <1>7, <2>1, <3>2 DEF StageInv, PGTypeOK, Doing
    <3> QED  BY <3>1, <3>2
  <2> QED  BY <1>u, <1>9, <2>2 DEF StageInv
<1>12. RefInv'
  <2>1. \A r \in (edges[n] \cap Node) \ {n} : r \in rs \/ runs[r] = 1
    BY DEF RefsLeft, StageInv
  <2>2. \A r \in rs : r \in left /\ r \in edges[n] /\ r # n
    BY DEF RefsLeft
  <2>3. \A m \in Node : refs'[m].known =>
          \A r \in (edges'[m] \cap Node) \ {m} : r \in refs'[m].set \/ runs'[r] = 1
    BY <1>u, <1>4, <2>1 DEF RefInv
  <2>4. \A m \in Node : \A r \in refs'[m].set :
          r \in left' /\ r \in edges'[m] /\ r # m /\ m \in rrefs'[r]
    BY <1>u, <1>3, <1>4, <1>5, <2>2 DEF RefInv, PGTypeOK
  <2> QED  BY <1>u, <2>3, <2>4, CyclesKept DEF RefInv
<1>13. WaitInv'
  <2>1. \A m \in Node : runs'[m] = 0 => \A r \in rrefs'[m] : m \in refs'[r].set
    <3> SUFFICES ASSUME NEW m \in Node, runs[m] = 0, NEW r \in rrefs'[m]
                 PROVE  m \in refs'[r].set
      BY <1>u
    <3>1. CASE r \in rrefs[m]
      <4>1. r \in Node /\ m \in refs[r].set
        BY <3>1 DEF WaitInv, PGTypeOK
      <4> QED  BY <1>4, <1>8, <4>1
    <3>2. CASE r \notin rrefs[m]
      BY <1>4, <1>5, <3>2
    <3> QED  BY <3>1, <3>2
  <2>2. \A u \in PoolThread : tpc'[u] = "release" /\ glock' # u =>
          \A r \in rrefs'[item'[u]] : item'[u] \in refs'[r].set
    <3> SUFFICES ASSUME NEW u \in PoolThread, tpc[u] = "release", glock # u, u # t,
                        NEW r \in rrefs'[item[u]]
                 PROVE  item[u] \in refs'[r].set
      BY <1>u, <1>7
    <3>1. item[u] \in Node
      BY DEF ThreadInv, Running, PGTypeOK
    <3>2. r = n => item[u] \in rs
      BY <1>4, <1>5, <1>8, <3>1 DEF WaitInv
    <3> QED  BY <1>3, <1>4, <1>5, <3>1, <3>2 DEF WaitInv, PGTypeOK
  <2>3. \A u \in PoolThread : glock' = u => tpc'[u] = "release"
    BY <1>u, <1>7 DEF WaitInv
  <2> QED  BY <2>1, <2>2, <2>3 DEF WaitInv
<1>14. KeptInv'
  <2>1. \A u \in PoolThread : tpc[u] = "thrown" => tpc'[u] = "thrown"
    BY <1>u, <1>7
  <2>2. \A m \in Node : refs[m].set # {} => refs'[m].set # {}
    BY <1>4, <1>8
  <2>3. \A m \in left : (\E u \in PoolThread : Doing(u) /\ item[u] = m) =>
          (\E u \in PoolThread : Doing(u)' /\ item'[u] = m) \/ refs'[m].set # {}
    BY <1>u, <1>4, <1>7
  <2> QED  BY <1>u, <1>9, <2>1, <2>2, <2>3 DEF KeptInv, PGTypeOK
<1>15. EndInv'
  BY <1>u, CyclesKept DEF EndInv
<1> QED  BY <1>2, <1>6, <1>10, <1>11, <1>12, <1>13, <1>14, <1>15

\* A node is processed: everything that it refers to has been, so that it is
\* not on a cycle.
LEMMA ProcessNodeStep ==
  ASSUME IInv, NEW t \in PoolThread, ProcessNode(t)
  PROVE  IInv'
<1> USE DEF IInv
<1> DEFINE n == item[t]
<1>1. Running(t) /\ "release" \in RunningPCs /\ tpc' = [tpc EXCEPT ![t] = "release"]
  BY DEF Running, RunningPCs, DoingPCs, ProcessNode, Jump, ThreadPCs
<1>u. /\ tpc[t] = "process" /\ PoolKept
      /\ UNCHANGED <<edges, toEnqueue, left, refs, rrefs, glock, outcome>>
      /\ UNCHANGED <<quit, pending, active, exception, workers, draining, item>>
  BY DEF ProcessNode, PoolKept
<1>2. /\ tpc' \in [PoolThread -> ThreadPCs]
      /\ ThreadInv' /\ QuitInv'
  BY <1>1, <1>u, ItemFrame
<1>3. n \in Node
  BY <1>1 DEF ThreadInv, PGTypeOK
<1>4. /\ tpc'[t] = "release" /\ Doing(t)
      /\ \A u \in PoolThread \ {t} : tpc'[u] = tpc[u]
      /\ \A u \in PoolThread : Doing(u)' <=> Doing(u)
  BY <1>1, <1>u DEF PGTypeOK, Doing, DoingPCs
<1>5. runs[n] = 0 /\ refs[n].known /\ refs[n].set = {}
  BY <1>3, <1>4, <1>u DEF StageInv, PlaceInv
<1>6. /\ runs' \in [Node -> 0..1] /\ runs'[n] = 1
      /\ \A m \in Node \ {n} : runs'[m] = runs[m]
  BY <1>3, <1>5 DEF ProcessNode, PGTypeOK
<1>7. PGTypeOK'
  BY <1>2, <1>6, <1>u DEF PGTypeOK
<1>8. Elems(pending)' = Elems(pending)
  BY <1>u DEF Elems
<1>9. PlaceInv'
  BY <1>4, <1>5, <1>6, <1>8, <1>u DEF PlaceInv, Distinct
<1>10. StageInv'
  <2>1. \A u \in PoolThread \ {t} : Doing(u) => item[u] # n /\ item[u] \in Node
    BY <1>4 DEF PlaceInv, StageInv, PGTypeOK
  <2>2. n \notin toEnqueue \cup Elems(pending)
    BY <1>4 DEF PlaceInv
  <2>3. \A m \in toEnqueue' \cup Elems(pending)' : runs'[m] = 0 /\ m \in left'
    BY <1>6, <1>8, <1>u, <2>2 DEF StageInv, PGTypeOK
  <2>4. \A u \in PoolThread : Doing(u)' =>
          /\ item'[u] \in left'
          /\ tpc'[u] # "release" => runs'[item'[u]] = 0
          /\ tpc'[u] = "release" => runs'[item'[u]] = 1
          /\ tpc'[u] = "edges" => ~refs'[item'[u]].known
          /\ tpc'[u] \in {"process", "release"} => refs'[item'[u]].known
    BY <1>4, <1>5, <1>6, <1>u, <2>1 DEF StageInv
  <2> QED  BY <1>6, <1>u, <2>3, <2>4 DEF StageInv
<1>11. RefInv'
  <2>1. \A r \in (edges[n] \cap Node) \ {n} : runs[r] = 1
    BY <1>3, <1>5 DEF RefInv
  <2>2. ~OnCycle(n)
    <3> SUFFICES ASSUME NEW m \in (edges[n] \cap Node) \ {n}, n \in ReachableFrom(m)
                 PROVE  FALSE
      BY DEF OnCycle
    <3> DEFINE S == {x \in Node : runs[x] = 1}
    <3>1. m \in S /\ n \notin S /\ S \subseteq Node
      BY <1>5, <2>1
    <3>2. ReferencesIn(S)
      BY DEF ReferencesIn, RefInv
    <3> HIDE DEF S
    <3> QED  BY <3>1, <3>2, ClosedSetReaches
  <2>3. \A m \in Node : runs[m] = 1 => runs'[m] = 1
    BY <1>6
  <2>4. \A m \in Node : runs'[m] = 1 => m = n \/ runs[m] = 1
    BY <1>6
  <2> QED  BY <1>u, <2>1, <2>2, <2>3, <2>4, CyclesKept DEF RefInv
<1>12. WaitInv'
  <2>1. \A m \in Node : runs'[m] = 0 => runs[m] = 0
    BY <1>5, <1>6
  <2>2. \A r \in rrefs[n] : n \in refs[r].set
    BY <1>3, <1>5 DEF WaitInv
  <2> QED  BY <1>4, <1>u, <2>1, <2>2 DEF WaitInv
<1>13. KeptInv'
  BY <1>4, <1>8, <1>u DEF KeptInv
<1>14. EndInv'
  BY <1>u, CyclesKept DEF EndInv
<1> QED  BY <1>2, <1>7, <1>9, <1>10, <1>11, <1>12, <1>13, <1>14

\* A thread holds the lock of the graph, or nobody does: nobody else is in
\* the middle of releasing a node.
LEMMA OneReleases ==
  ASSUME IInv, NEW t \in PoolThread, glock \in {NoItem, t}
  PROVE  \A u \in PoolThread \ {t} : glock # u
BY MainAssumption

\* A node that waits for the one that t has processed no longer does.  If it
\* waited for nothing else, it goes to the queue, or, when the pool has quit,
\* the item throws.
LEMMA ReleaseOneStep ==
  ASSUME IInv, NEW t \in PoolThread, ReleaseOne(t)
  PROVE  IInv'
<1> USE DEF IInv
<1> DEFINE n == item[t]
<1>u. /\ tpc[t] = "release" /\ glock \in {NoItem, t}
      /\ UNCHANGED <<quit, active, exception, draining, item, edges, toEnqueue,
                     left, rrefs, runs, outcome>>
  BY DEF ReleaseOne
<1>1. PICK r \in Waiting(n) :
        /\ refs' = [refs EXCEPT ![r].set = @ \ {n}]
        /\ \/ /\ ~ReadyAfter(r, n)
              /\ glock' = t
              /\ UNCHANGED <<pending, workers, tpc>>
           \/ /\ ReadyAfter(r, n)
              /\ ~quit
              /\ glock' = t
              /\ \E e \in Enqueued(r, pending, workers, tpc) :
                    pending' = e.pending /\ workers' = e.workers /\ tpc' = e.tpc
           \/ /\ ReadyAfter(r, n)
              /\ quit
              /\ glock' = NoItem
              /\ Jump(t, "thrown")
              /\ UNCHANGED <<pending, workers>>
  BY DEF ReleaseOne
<1>2. Running(t) /\ Doing(t) /\ n \in Node /\ runs[n] = 1
  BY <1>u DEF ThreadInv, PGTypeOK, Running, Doing, DoingPCs, StageInv
<1>3. r \in Node /\ n \in refs[r].set /\ r # n
  BY <1>1, <1>2 DEF Waiting, PGTypeOK, RefInv
<1>4. /\ refs' \in [Node -> [known : BOOLEAN, set : SUBSET Node]]
      /\ refs'[r].known = refs[r].known /\ refs'[r].set = refs[r].set \ {n}
      /\ \A m \in Node \ {r} : refs'[m] = refs[m]
  BY <1>1, <1>3 DEF PGTypeOK
<1>5. /\ refs[r].known /\ r \notin toEnqueue \cup Elems(pending) /\ runs[r] = 0
      /\ r \in left
      /\ \A u \in PoolThread : Doing(u) => item[u] # r
  BY <1>3 DEF PlaceInv, StageInv
<1>6. \A m \in Node : /\ refs'[m].known = refs[m].known
                      /\ refs'[m].set \subseteq refs[m].set
                      /\ refs[m].set \ {n} \subseteq refs'[m].set
  BY <1>4
<1>7. RefInv'
  <2>1. \A m \in Node : refs'[m].known =>
          \A x \in (edges'[m] \cap Node) \ {m} : x \in refs'[m].set \/ runs'[x] = 1
    BY <1>u, <1>2, <1>6 DEF RefInv
  <2>2. \A m \in Node : \A x \in refs'[m].set :
          x \in left' /\ x \in edges'[m] /\ x # m /\ m \in rrefs'[x]
    BY <1>u, <1>6 DEF RefInv
  <2> QED  BY <1>u, <2>1, <2>2, CyclesKept DEF RefInv
<1>8. EndInv'
  BY <1>u, CyclesKept DEF EndInv
<1>9. \A m \in Node : \A x \in rrefs[m] : m # n /\ m \in refs[x].set => m \in refs'[x].set
  BY <1>6 DEF PGTypeOK
<1>10. \A u \in PoolThread \ {t} :
         /\ glock # u
         /\ Doing(u) => item[u] # n /\ item[u] \in Node
  BY <1>2, <1>u, OneReleases DEF PlaceInv, PGTypeOK, StageInv
<1>11. /\ \A m \in Node : runs'[m] = 0 => \A x \in rrefs'[m] : m \in refs'[x].set
       /\ \A u \in PoolThread \ {t} : tpc[u] = "release" =>
            \A x \in rrefs'[item'[u]] : item'[u] \in refs'[x].set
  <2>1. \A m \in Node : runs'[m] = 0 => \A x \in rrefs'[m] : m \in refs'[x].set
    BY <1>2, <1>9, <1>u DEF WaitInv
  <2>2. \A u \in PoolThread \ {t} : tpc[u] = "release" => Doing(u)
    BY DEF Doing, DoingPCs
  <2>3. ASSUME NEW u \in PoolThread \ {t}, tpc[u] = "release", NEW x \in rrefs[item[u]]
        PROVE  item[u] \in refs'[x].set
    <3>1. glock # u /\ item[u] # n /\ item[u] \in Node
      BY <1>10, <2>2, <2>3
    <3>2. item[u] \in refs[x].set
      BY <2>3, <3>1 DEF WaitInv
    <3> QED  BY <1>9, <3>1, <3>2
  <2> QED  BY <1>u, <2>1, <2>3
<1>12. CASE /\ ~ReadyAfter(r, n)
            /\ glock' = t
            /\ UNCHANGED <<pending, workers, tpc>>
  <2>1. PGTypeOK'
    BY <1>4, <1>12, <1>u DEF PGTypeOK
  <2>2. ThreadInv' /\ QuitInv'
    <3>1. {u \in PoolThread : Running(u)}' = {u \in PoolThread : Running(u)}
          /\ \A u \in PoolThread : Running(u)' <=> Running(u)
      BY <1>12 DEF Running
    <3> QED  BY <1>12, <1>u, <3>1 DEF ThreadInv, QuitInv
  <2>3. refs'[r].set # {}
    BY <1>3, <1>4, <1>12 DEF ReadyAfter
  <2>4. Elems(pending)' = Elems(pending) /\ \A u \in PoolThread : Doing(u)' <=> Doing(u)
    BY <1>12 DEF Elems, Doing
  <2>5. PlaceInv'
    BY <1>6, <1>12, <1>u, <2>4 DEF PlaceInv, Distinct, PGTypeOK
  <2>6. StageInv'
    <3>1. \A u \in PoolThread : Doing(u) => item[u] \in Node
      BY DEF StageInv, PGTypeOK
    <3> QED  BY <1>6, <1>12, <1>u, <2>4, <3>1 DEF StageInv
  <2>7. WaitInv'
    BY <1>11, <1>12, <1>u DEF WaitInv
  <2>8. KeptInv'
    <3>1. \A m \in Node : refs[m].set # {} => refs'[m].set # {}
      BY <1>4, <2>3
    <3> QED  BY <1>12, <1>u, <2>4, <3>1 DEF KeptInv, PGTypeOK
  <2> QED  BY <1>7, <1>8, <2>1, <2>2, <2>5, <2>6, <2>7, <2>8
<1>13. CASE /\ ReadyAfter(r, n)
            /\ ~quit
            /\ glock' = t
            /\ \E e \in Enqueued(r, pending, workers, tpc) :
                  pending' = e.pending /\ workers' = e.workers /\ tpc' = e.tpc
  <2>1. tpc[Main] # "over"
    BY <1>13 DEF QuitInv, PoolThread
  <2>2. /\ pending' = Append(pending, r)
        /\ tpc' \in [PoolThread -> ThreadPCs]
        /\ \A u \in PoolThread :
             \/ tpc'[u] = tpc[u]
             \/ tpc[u] \in {"asleep", "none"} /\ tpc'[u] = "loop"
        /\ workers' \subseteq WorkerThread
        /\ \A u \in WorkerThread : u \in workers' <=> tpc'[u] # "none"
        /\ Cardinality(workers') < maxThreads
    BY <1>3, <1>13, <2>1, EnqueuedEffect
  <2>3. /\ pending' \in Seq(Node) /\ Distinct(pending')
        /\ Elems(pending') = Elems(pending) \cup {r}
    BY <1>3, <1>5, <2>2, AppendElems DEF PGTypeOK, PlaceInv
  <2>4. PGTypeOK'
    BY <1>4, <1>13, <1>u, <2>2, <2>3 DEF PGTypeOK
  <2>5. \A u \in PoolThread : Running(u)' <=> Running(u)
    BY <2>2 DEF Running
  <2>6. {u \in PoolThread : Running(u)}' = {u \in PoolThread : Running(u)}
    BY <2>5
  <2>7. ThreadInv'
    BY <1>u, <2>1, <2>2, <2>5, <2>6 DEF ThreadInv, PoolThread, MainPCs, ThreadPCs
  <2>8. QuitInv'
    BY <1>13, <1>u, <2>2, <2>5, MainAssumption DEF QuitInv, PoolThread
  <2>9. \A u \in PoolThread : (Doing(u)' <=> Doing(u)) /\ (Doing(u) => tpc'[u] = tpc[u])
    BY <2>2 DEF Doing, DoingPCs
  <2>10. refs'[r].set = {}
    BY <1>4, <1>13 DEF ReadyAfter
  <2>11. PlaceInv'
    BY <1>4, <1>5, <1>6, <1>u, <2>3, <2>9, <2>10 DEF PlaceInv, PGTypeOK
  <2>12. StageInv'
    <3>1. \A u \in PoolThread : Doing(u) => item[u] \in Node
      BY DEF StageInv, PGTypeOK
    <3> QED  BY <1>5, <1>6, <1>u, <2>3, <2>9, <3>1 DEF StageInv
  <2>13. WaitInv'
    <3>1. \A u \in PoolThread : tpc'[u] = "release" <=> tpc[u] = "release"
      BY <2>2
    <3> QED  BY <1>11, <1>13, <1>u, <3>1 DEF WaitInv
  <2>14. KeptInv'
    <3>1. \A u \in PoolThread : tpc[u] = "thrown" => tpc'[u] = "thrown"
      BY <2>2
    <3>2. \A m \in Node \ {r} : refs[m].set # {} => refs'[m].set # {}
      BY <1>4
    <3> QED  BY <1>u, <2>3, <2>9, <3>1, <3>2 DEF KeptInv, PGTypeOK
  <2> QED  BY <1>7, <1>8, <2>4, <2>7, <2>8, <2>11, <2>12, <2>13, <2>14
<1>14. CASE /\ ReadyAfter(r, n)
            /\ quit
            /\ glock' = NoItem
            /\ Jump(t, "thrown")
            /\ UNCHANGED <<pending, workers>>
  <2>1. /\ "thrown" \in RunningPCs /\ tpc' = [tpc EXCEPT ![t] = "thrown"]
        /\ PoolKept
    BY <1>14, <1>u DEF RunningPCs, Jump, PoolKept, ThreadPCs
  <2>2. /\ tpc' \in [PoolThread -> ThreadPCs]
        /\ ThreadInv' /\ QuitInv'
    BY <1>2, <1>u, <2>1, ItemFrame
  <2>3. PGTypeOK'
    BY <1>4, <1>14, <1>u, <2>2 DEF PGTypeOK
  <2>4. /\ tpc'[t] = "thrown" /\ ~Doing(t)'
        /\ \A u \in PoolThread \ {t} : tpc'[u] = tpc[u] /\ (Doing(u)' <=> Doing(u))
    BY <2>1 DEF PGTypeOK, Doing, DoingPCs
  <2>5. Elems(pending)' = Elems(pending)
    BY <1>14 DEF Elems
  <2>6. PlaceInv'
    <3>1. \A u \in PoolThread : Doing(u)' => Doing(u)
      BY <1>2, <2>4
    <3>2. Distinct(pending)'
      BY <1>14 DEF PlaceInv, Distinct
    <3>3. \A m \in Node : refs'[m].set # {} => refs[m].set # {}
      BY <1>6
    <3>4. \A m \in toEnqueue : refs'[m].known = refs[m].known
      BY <1>6 DEF PGTypeOK
    <3> QED  BY <1>6, <1>u, <2>5, <3>1, <3>2, <3>3, <3>4 DEF PlaceInv
  <2>7. StageInv'
    <3>1. \A m \in toEnqueue' \cup Elems(pending)' : runs'[m] = 0 /\ m \in left'
      BY <1>u, <2>5 DEF StageInv
    <3>2. ASSUME NEW u \in PoolThread, Doing(u)'
          PROVE  /\ item'[u] \in left'
                 /\ tpc'[u] # "release" => runs'[item'[u]] = 0
                 /\ tpc'[u] = "release" => runs'[item'[u]] = 1
                 /\ tpc'[u] = "edges" => ~refs'[item'[u]].known
                 /\ tpc'[u] \in {"process", "release"} => refs'[item'[u]].known
      <4>1. u # t /\ tpc'[u] = tpc[u] /\ Doing(u) /\ item[u] \in Node
        BY <1>10, <2>4, <3>2
      <4> QED  BY <1>6, <1>u, <4>1 DEF StageInv
    <3> QED  BY <1>u, <3>1, <3>2 DEF StageInv
  <2>8. WaitInv'
    BY <1>11, <1>14, <1>u, <2>4, MainAssumption DEF WaitInv
  <2>9. KeptInv'
    BY <2>4 DEF KeptInv
  <2> QED  BY <1>7, <1>8, <2>2, <2>3, <2>6, <2>7, <2>8, <2>9
<1> QED  BY <1>1, <1>12, <1>13, <1>14

\* The node that t has processed is forgotten; nobody refers to it any more.
LEMMA ReleaseNodeStep ==
  ASSUME IInv, NEW t \in PoolThread, ReleaseNode(t)
  PROVE  IInv'
<1> USE DEF IInv
<1> DEFINE n == item[t]
<1>1. Running(t) /\ "finished" \in RunningPCs /\ tpc' = [tpc EXCEPT ![t] = "finished"]
  BY DEF Running, RunningPCs, DoingPCs, ReleaseNode, Jump, ThreadPCs
<1>u. /\ tpc[t] = "release" /\ PoolKept /\ glock \in {NoItem, t} /\ glock' = NoItem
      /\ Waiting(n) = {} /\ left' = left \ {n}
      /\ UNCHANGED <<edges, toEnqueue, runs, outcome>>
      /\ UNCHANGED <<quit, pending, active, exception, workers, draining, item>>
  BY DEF ReleaseNode, PoolKept
<1>2. /\ tpc' \in [PoolThread -> ThreadPCs]
      /\ ThreadInv' /\ QuitInv'
  BY <1>1, <1>u, ItemFrame
<1>3. n \in Node /\ Doing(t) /\ runs[n] = 1 /\ n \in left
  BY <1>1, <1>u DEF ThreadInv, PGTypeOK, Doing, DoingPCs, StageInv
<1>4. /\ refs' \in [Node -> [known : BOOLEAN, set : SUBSET Node]]
      /\ ~refs'[n].known /\ refs'[n].set = {}
      /\ \A m \in Node \ {n} : refs'[m] = refs[m]
  BY <1>3 DEF ReleaseNode, PGTypeOK, NoRefs
<1>5. /\ rrefs' \in [Node -> SUBSET Node] /\ rrefs'[n] = {}
      /\ \A m \in Node \ {n} : rrefs'[m] = rrefs[m]
  BY <1>3 DEF ReleaseNode, PGTypeOK
<1>6. PGTypeOK'
  BY <1>2, <1>4, <1>5, <1>u DEF PGTypeOK
<1>7. /\ tpc'[t] = "finished" /\ ~Doing(t)'
      /\ \A u \in PoolThread \ {t} : tpc'[u] = tpc[u] /\ (Doing(u)' <=> Doing(u))
  BY <1>1 DEF PGTypeOK, Doing, DoingPCs
<1>8. Elems(pending)' = Elems(pending)
  BY <1>u DEF Elems
<1>9. \A m \in Node : n \notin refs[m].set
  BY <1>3, <1>u DEF Waiting, RefInv
<1>10. refs[n].set = {}
  BY <1>3 DEF PlaceInv
<1>11. \A u \in PoolThread \ {t} :
         /\ glock # u
         /\ Doing(u) => item[u] # n /\ item[u] \in Node
  BY <1>3, <1>u, OneReleases DEF PlaceInv, PGTypeOK, StageInv
<1>12. PlaceInv'
  <2>1. n \notin toEnqueue
    BY <1>3 DEF PlaceInv
  <2>2. \A u \in PoolThread : Doing(u)' => Doing(u)
    BY <1>3, <1>7
  <2>3. Distinct(pending)'
    BY <1>u DEF PlaceInv, Distinct
  <2>4. \A m \in Node : refs'[m].set # {} => refs[m].set # {} /\ refs'[m].known = refs[m].known
    BY <1>4
  <2>5. \A m \in toEnqueue : refs'[m].known = refs[m].known
    BY <1>4, <2>1 DEF PGTypeOK
  <2> QED  BY <1>8, <1>u, <2>2, <2>3, <2>4, <2>5 DEF PlaceInv
<1>13. StageInv'
  <2>1. n \notin toEnqueue \cup Elems(pending)
    BY <1>3 DEF PlaceInv
  <2>2. \A m \in toEnqueue' \cup Elems(pending)' : runs'[m] = 0 /\ m \in left'
    BY <1>8, <1>u, <2>1 DEF StageInv
  <2>3. ASSUME NEW u \in PoolThread, Doing(u)'
        PROVE  /\ item'[u] \in left'
               /\ tpc'[u] # "release" => runs'[item'[u]] = 0
               /\ tpc'[u] = "release" => runs'[item'[u]] = 1
               /\ tpc'[u] = "edges" => ~refs'[item'[u]].known
               /\ tpc'[u] \in {"process", "release"} => refs'[item'[u]].known
    <3>1. u # t /\ tpc'[u] = tpc[u] /\ Doing(u) /\ item[u] \in Node /\ item[u] # n
      BY <1>7, <1>11, <2>3
    <3> QED  BY <1>4, <1>u, <3>1 DEF StageInv
  <2>4. \A m \in Node : m \notin left' => runs'[m] = 1
    BY <1>3, <1>u DEF StageInv
  <2> QED  BY <2>2, <2>3, <2>4 DEF StageInv
<1>14. RefInv'
  <2>1. \A m \in Node : refs'[m].known =>
          \A x \in (edges'[m] \cap Node) \ {m} : x \in refs'[m].set \/ runs'[x] = 1
    BY <1>4, <1>u DEF RefInv
  <2>2. \A m \in Node : \A x \in refs'[m].set :
          x \in left' /\ x \in edges'[m] /\ x # m /\ m \in rrefs'[x]
    <3> SUFFICES ASSUME NEW m \in Node, NEW x \in refs'[m].set
                 PROVE  x \in left' /\ x \in edges'[m] /\ x # m /\ m \in rrefs'[x]
      OBVIOUS
    <3>1. m # n /\ x \in refs[m].set
      BY <1>4
    <3>2. x # n /\ x \in Node
      BY <1>9, <3>1 DEF PGTypeOK
    <3>3. x \in left /\ x \in edges[m] /\ x # m /\ m \in rrefs[x]
      BY <3>1 DEF RefInv
    <3> QED  BY <1>5, <1>u, <3>2, <3>3
  <2> QED  BY <1>u, <2>1, <2>2, CyclesKept DEF RefInv
<1>15. WaitInv'
  <2>1. \A m \in Node \ {n} : \A x \in rrefs[m] : m \in refs[x].set => m \in refs'[x].set
    BY <1>4, <1>10 DEF PGTypeOK
  <2>2. \A m \in Node : runs'[m] = 0 => \A x \in rrefs'[m] : m \in refs'[x].set
    BY <1>3, <1>5, <1>u, <2>1 DEF WaitInv
  <2>3. \A u \in PoolThread : tpc'[u] = "release" => u # t /\ tpc[u] = "release" /\ Doing(u)
    BY <1>7 DEF Doing, DoingPCs
  <2>4. \A u \in PoolThread : tpc'[u] = "release" =>
          \A x \in rrefs'[item'[u]] : item'[u] \in refs'[x].set
    <3> SUFFICES ASSUME NEW u \in PoolThread, tpc'[u] = "release", NEW x \in rrefs'[item[u]]
                 PROVE  item[u] \in refs'[x].set
      BY <1>u
    <3>1. tpc[u] = "release" /\ glock # u /\ item[u] # n /\ item[u] \in Node
      BY <1>11, <2>3
    <3>2. x \in rrefs[item[u]] /\ item[u] \in refs[x].set
      BY <1>5, <3>1 DEF WaitInv
    <3> QED  BY <2>1, <3>1, <3>2
  <2> QED  BY <1>u, <2>2, <2>4, MainAssumption DEF WaitInv
<1>16. KeptInv'
  <2>1. \A u \in PoolThread : tpc[u] = "thrown" => tpc'[u] = "thrown"
    BY <1>7, <1>u
  <2>2. \A m \in left' : refs[m].set # {} => refs'[m].set # {}
    BY <1>4, <1>u DEF PGTypeOK
  <2>3. \A m \in left' : (\E u \in PoolThread : Doing(u) /\ item[u] = m) =>
          (\E u \in PoolThread : Doing(u)' /\ item'[u] = m)
    BY <1>7, <1>u
  <2> QED  BY <1>8, <1>u, <2>1, <2>2, <2>3 DEF KeptInv
<1>17. EndInv'
  BY <1>u, CyclesKept DEF EndInv
<1> QED  BY <1>2, <1>6, <1>12, <1>13, <1>14, <1>15, <1>16, <1>17

-----------------------------------------------------------------------------
(* The theorems.                                                           *)

\* processGraph() starts with every node to be enqueued.
LEMMA IInvInit == GraphInit => IInv
<1> SUFFICES ASSUME GraphInit PROVE IInv
  OBVIOUS
<1> USE DEF GraphInit, PoolInit
<1>1. PGTypeOK
  <2>1. quit \in BOOLEAN /\ exception \in BOOLEAN /\ draining \in BOOLEAN
    BY Zenon
  <2>2. refs \in [Node -> [known : BOOLEAN, set : SUBSET Node]]
    <3>1. NoRefs \in [known : BOOLEAN, set : SUBSET Node]
      BY DEF NoRefs
    <3> QED  BY <3>1
  <2>3. pending \in Seq(Node) /\ active \in Nat
    OBVIOUS
  <2>4. tpc \in [PoolThread -> ThreadPCs]
    BY DEF MainPCs, ThreadPCs
  <2>5. /\ rrefs \in [Node -> SUBSET Node] /\ runs \in [Node -> 0..1]
        /\ item \in [PoolThread -> Node \cup {NoItem}]
    OBVIOUS
  <2> QED  BY <2>1, <2>2, <2>3, <2>4, <2>5 DEF PGTypeOK
<1>2. \A t \in PoolThread : ~Running(t) /\ ~Doing(t)
  BY DEF Running, Doing, DoingPCs
<1>3. ThreadInv
  <2>1. {t \in PoolThread : Running(t)} = {}
    BY <1>2
  <2>2. Cardinality(workers) < maxThreads
    BY maxThreadsAssumption, FS_EmptySet, MainAssumption, FS_CardinalityType
  <2> QED  BY <1>2, <2>1, <2>2, FS_EmptySet, MainAssumption
           DEF ThreadInv, PoolThread, MainPCs, ThreadPCs
<1>4. QuitInv
  BY MainAssumption DEF QuitInv, PoolThread
<1>5. Elems(pending) = {} /\ Distinct(pending)
  BY DEF Elems, Distinct
<1>6. PlaceInv /\ StageInv
  BY <1>2, <1>5 DEF PlaceInv, StageInv, NoRefs
<1>7. RefInv
  BY DEF RefInv, NoRefs
<1>8. WaitInv
  BY <1>2, MainAssumption DEF WaitInv, Doing, DoingPCs
<1>9. KeptInv /\ EndInv
  BY DEF KeptInv, EndInv
<1> QED  BY <1>1, <1>3, <1>4, <1>6, <1>7, <1>8, <1>9 DEF IInv

\* Every step of the calling thread and of the workers keeps the invariant.
LEMMA IInvNext == IInv /\ [GraphNext]_pgVars => IInv'
<1> SUFFICES ASSUME IInv, [GraphNext]_pgVars PROVE IInv'
  OBVIOUS
<1>1. CASE EnqueueNode
  BY <1>1, EnqueueNodeStep
<1>2. CASE ProcessReturns
  BY <1>2, ProcessReturnsStep
<1>3. CASE (Process \/ Shutdown \/ Join) /\ UNCHANGED graphVars
  BY <1>3, ProcessStep, ShutdownStep, JoinStep
<1>4. ASSUME NEW t \in PoolThread, GraphThread(t)
      PROVE  IInv'
  BY <1>4, ItemDoneStep, QuitStep, TakeItemStep, DrainStep, SleepStep, FindRefsStep,
     AddRefsStep, ProcessNodeStep, ItemThrowsStep, ReleaseOneStep, ReleaseNodeStep
     DEF GraphThread, DoWork
<1>5. CASE UNCHANGED pgVars
  <2>1. UNCHANGED <<item, active, exception, pending, edges, toEnqueue, left,
                    refs, rrefs, glock, runs, tpc, quit, workers, draining, outcome>>
    BY <1>5 DEF pgVars, poolVars, graphVars
  <2>2. /\ PlaceInv' /\ StageInv' /\ RefInv' /\ WaitInv' /\ KeptInv'
        /\ active' = Cardinality({u \in PoolThread : Running(u)}')
        /\ \A u \in PoolThread : Running(u)' <=> Running(u)
        /\ \A u \in PoolThread : Running(u)' <=> item'[u] # NoItem
    BY <2>1, IdleFrame DEF IInv, PGTypeOK
  <2>3. PGTypeOK' /\ ThreadInv' /\ QuitInv' /\ EndInv'
    BY <2>1, <2>2, CyclesKept DEF IInv, PGTypeOK, ThreadInv, QuitInv, EndInv
  <2> QED  BY <2>2, <2>3 DEF IInv
<1> QED  BY <1>1, <1>2, <1>3, <1>4, <1>5 DEF GraphNext, GraphMain, GraphOver

\* The invariant is one of the specification.
THEOREM GraphInvariance == GraphSpec => []IInv
BY IInvInit, IInvNext, PTL DEF GraphSpec

\* A node is processed once, after all that it refers to, and what waits for a
\* node is still recorded when the thread that processed it looks.
THEOREM NodesInOrder == GraphSpec => []DependenciesFirst
<1>1. IInv => DependenciesFirst
  <2> SUFFICES ASSUME IInv PROVE DependenciesFirst
    OBVIOUS
  <2>1. \A n \in Node : runs[n] <= 1
    BY DEF IInv, PGTypeOK
  <2>2. ASSUME NEW t \in PoolThread, tpc[t] = "process"
        PROVE  /\ runs[item[t]] = 0
               /\ \A r \in (edges[item[t]] \cap Node) \ {item[t]} : runs[r] = 1
    <3>1. Doing(t) /\ item[t] \in Node
      BY <2>2 DEF Doing, DoingPCs, IInv, ThreadInv, Running, PGTypeOK
    <3>2. runs[item[t]] = 0 /\ refs[item[t]].known /\ refs[item[t]].set = {}
      BY <2>2, <3>1 DEF IInv, StageInv, PlaceInv
    <3> QED  BY <3>1, <3>2 DEF IInv, RefInv
  <2>3. \A t \in PoolThread : tpc[t] = "release" /\ glock # t =>
          Waiting(item[t]) = rrefs[item[t]]
    BY DEF IInv, WaitInv, Waiting
  <2>4. \A n \in Node : runs[n] = 1 =>
          \A r \in (edges[n] \cap Node) \ {n} : runs[r] = 1
    BY DEF IInv, RefInv
  <2> QED  BY <2>1, <2>2, <2>3, <2>4 DEF DependenciesFirst
<1> QED  BY <1>1, GraphInvariance, PTL

\* processGraph() ends when no work item is executed, normally only if all
\* nodes were processed, which is so only if no cycle exists, and with the
\* complaint about a cycle only if one does.
THEOREM GraphReturnsClean == GraphSpec => []ReturnsClean
<1>1. IInv => ReturnsClean
  <2> SUFFICES ASSUME IInv PROVE ReturnsClean
    OBVIOUS
  <2>1. GraphTypeOK
    BY DEF IInv, PGTypeOK, ThreadInv, GraphTypeOK
  <2>2. tpc[Main] = "over" => \A t \in PoolThread : ~Running(t)
    BY DEF IInv, ThreadInv, PoolThread, Running
  <2>3. outcome = "ok" => \A n \in Node : runs[n] = 1
    BY DEF IInv, EndInv, StageInv
  <2>4. outcome = "ok" => \A n \in Node : ~OnCycle(n)
    BY <2>3 DEF IInv, RefInv
  <2>5. outcome = "cyclic" => \E n \in Node : OnCycle(n)
    BY DEF IInv, EndInv
  <2> QED  BY <2>1, <2>2, <2>3, <2>4, <2>5 DEF ReturnsClean
<1> QED  BY <1>1, GraphInvariance, PTL
-----------------------------------------------------------------------------
(* No wake-up is lost.                                                     *)

Looking == {t \in PoolThread : tpc[t] = "loop"}

\* The threads that look for work can be counted.
LEMMA LookingFinite ==
  /\ IsFiniteSet(Looking) /\ IsFiniteSet(Looking')
  /\ Cardinality(Looking) \in Nat /\ Cardinality(Looking') \in Nat
<1>1. IsFiniteSet(PoolThread)
  BY MainAssumption, FS_AddElement DEF PoolThread
<1>2. Looking \subseteq PoolThread /\ Looking' \subseteq PoolThread
  BY DEF Looking
<1> QED  BY <1>1, <1>2, FS_Subset, FS_CardinalityType

\* A step after which nobody sleeps loses no wake-up.
LEMMA AllAwake ==
  ASSUME \A t \in PoolThread : tpc'[t] # "asleep"
  PROVE  GraphWakesEnough'
BY DEF GraphWakesEnough, Asleep

\* Nor does one that sends nobody to sleep, adds no item and lets no thread
\* stop looking for work or working.
LEMMA WakesFrame ==
  ASSUME PGTypeOK, GraphWakesEnough, UNCHANGED <<quit, draining, pending>>,
         \A t \in PoolThread :
           /\ tpc'[t] = "asleep" => tpc[t] = "asleep"
           /\ tpc[t] = "loop" => tpc'[t] = "loop"
           /\ Running(t) => Running(t)' \/ tpc'[t] = "loop"
  PROVE  GraphWakesEnough'
<1> SUFFICES ASSUME NEW s \in PoolThread, tpc'[s] = "asleep"
             PROVE  /\ ~quit'
                    /\ Len(pending') <= Cardinality(Looking')
                    /\ draining' => \E t \in PoolThread : tpc'[t] = "loop" \/ Running(t)'
  BY DEF GraphWakesEnough, Asleep, Looking
<1>1. /\ ~quit /\ Len(pending) <= Cardinality(Looking)
      /\ draining => \E t \in PoolThread : tpc[t] = "loop" \/ Running(t)
  BY DEF GraphWakesEnough, Asleep, Looking
<1>2. Looking \subseteq Looking'
  BY DEF Looking
<1>3. Cardinality(Looking) <= Cardinality(Looking')
  BY <1>2, LookingFinite, FS_Subset
<1>4. Len(pending) \in Nat
  BY DEF PGTypeOK
<1>5. Len(pending') <= Cardinality(Looking')
  BY <1>1, <1>3, <1>4, LookingFinite
<1> QED  BY <1>1, <1>5

\* A step of thread t alone, which is neither looking for work nor asleep.
LEMMA WorkFrame ==
  ASSUME PGTypeOK, GraphWakesEnough, UNCHANGED <<quit, draining, pending>>,
         NEW t \in PoolThread, NEW label \in ThreadPCs \ {"asleep"},
         tpc' = [tpc EXCEPT ![t] = label], tpc[t] # "loop",
         Running(t) => label \in RunningPCs \cup {"loop"}
  PROVE  GraphWakesEnough'
<1>1. \A u \in PoolThread : tpc'[u] = IF u = t THEN label ELSE tpc[u]
  BY DEF PGTypeOK
<1>2. \A u \in PoolThread : Running(u) => Running(u)' \/ tpc'[u] = "loop"
  BY <1>1 DEF Running, RunningPCs, DoingPCs
<1> QED  BY <1>1, <1>2, WakesFrame

\* enqueue() wakes a thread if one sleeps.
LEMMA EnqueuedWakes ==
  ASSUME IInv, NEW n \in Node, tpc[Main] # "over",
         NEW e \in Enqueued(n, pending, workers, tpc),
         NEW s \in PoolThread, e.tpc[s] = "asleep"
  PROVE  \E t \in PoolThread : tpc[t] = "asleep" /\ e.tpc[t] = "loop"
<1> DEFINE starts == /\ Len(Append(pending, n)) > Cardinality(workers) + 1
                     /\ Cardinality(workers) + 1 < maxThreads
           new == CHOOSE t \in WorkerThread : tpc[t] = "none"
           base == IF starts THEN [tpc EXCEPT ![new] = "loop"] ELSE tpc
           ws == IF starts THEN workers \cup {new} ELSE workers
<1>1. PICK p \in NotifyOne(base) :
        e = [pending |-> Append(pending, n), workers |-> ws, tpc |-> p]
  BY DEF Enqueued
<1>2. /\ e.tpc \in [PoolThread -> ThreadPCs]
      /\ \A t \in PoolThread :
           e.tpc[t] = tpc[t] \/ (tpc[t] \in {"asleep", "none"} /\ e.tpc[t] = "loop")
  BY EnqueuedEffect DEF IInv
<1>3. e.tpc = p
  BY <1>1
<1>4. \A t \in PoolThread : base[t] = tpc[t] \/ base[t] = "loop"
  BY DEF IInv, PGTypeOK
<1>5. DOMAIN base = PoolThread
  BY DEF IInv, PGTypeOK
<1> HIDE DEF base
<1>6. p = base \/ \E t \in PoolThread : base[t] = "asleep" /\ p = [base EXCEPT ![t] = "loop"]
  BY <1>1 DEF NotifyOne, Asleep
<1>7. Asleep(base) # {}
  BY <1>3, <1>5, <1>6 DEF Asleep
<1>8. PICK t \in PoolThread : base[t] = "asleep" /\ p = [base EXCEPT ![t] = "loop"]
  BY <1>1, <1>7 DEF NotifyOne, Asleep
<1>9. tpc[t] = "asleep"
  BY <1>4, <1>8
<1> QED  BY <1>3, <1>5, <1>8, <1>9

\* A step that enqueues an item: the thread that is woken comes for it.
LEMMA EnqueueWakes ==
  ASSUME IInv, GraphWakesEnough, UNCHANGED <<quit, draining>>,
         NEW n \in Node, tpc[Main] # "over",
         NEW e \in Enqueued(n, pending, workers, tpc), pending' = e.pending, tpc' = e.tpc
  PROVE  GraphWakesEnough'
<1> SUFFICES ASSUME NEW s \in PoolThread, tpc'[s] = "asleep"
             PROVE  /\ ~quit'
                    /\ Len(pending') <= Cardinality(Looking')
                    /\ draining' => \E t \in PoolThread : tpc'[t] = "loop" \/ Running(t)'
  BY DEF GraphWakesEnough, Asleep, Looking
<1>1. /\ pending' = Append(pending, n)
      /\ \A t \in PoolThread :
           tpc'[t] = tpc[t] \/ (tpc[t] \in {"asleep", "none"} /\ tpc'[t] = "loop")
  BY EnqueuedEffect DEF IInv
<1>2. PICK w \in PoolThread : tpc[w] = "asleep" /\ tpc'[w] = "loop"
  BY EnqueuedWakes
<1>3. ~quit /\ Len(pending) <= Cardinality(Looking)
  BY <1>2 DEF GraphWakesEnough, Asleep, Looking
<1>4. Len(pending) \in Nat /\ Len(pending') = Len(pending) + 1
  BY <1>1 DEF IInv, PGTypeOK
<1>5. w \notin Looking /\ Looking \cup {w} \subseteq Looking'
  BY <1>1, <1>2 DEF Looking
<1>6. Cardinality(Looking \cup {w}) = Cardinality(Looking) + 1
  BY <1>5, LookingFinite, FS_AddElement
<1>7. Cardinality(Looking \cup {w}) <= Cardinality(Looking')
  BY <1>5, LookingFinite, FS_Subset
<1>8. Len(pending') <= Cardinality(Looking')
  BY <1>3, <1>4, <1>6, <1>7, LookingFinite
<1> QED  BY <1>2, <1>3, <1>8

\* A thread that takes an item was one of those that looked for it.
LEMMA TakeItemWakes ==
  ASSUME IInv, GraphWakesEnough, NEW t \in PoolThread, TakeItem(t)
  PROVE  GraphWakesEnough'
<1> SUFFICES ASSUME NEW s \in PoolThread, tpc'[s] = "asleep"
             PROVE  /\ ~quit'
                    /\ Len(pending') <= Cardinality(Looking')
                    /\ \E u \in PoolThread : tpc'[u] = "loop" \/ Running(u)'
  BY DEF GraphWakesEnough, Asleep, Looking
<1>1. \A u \in PoolThread : tpc'[u] = IF u = t THEN "run" ELSE tpc[u]
  BY DEF TakeItem, IInv, PGTypeOK
<1>2. ~quit /\ Len(pending) <= Cardinality(Looking)
  BY <1>1 DEF GraphWakesEnough, Asleep, Looking
<1>3. Len(pending) \in Nat /\ Len(pending') = Len(pending) - 1
  BY DEF TakeItem, IInv, PGTypeOK
<1>4. t \in Looking /\ Looking' = Looking \ {t}
  BY <1>1 DEF Looking, TakeItem
<1>5. Cardinality(Looking') = Cardinality(Looking) - 1
  BY <1>4, LookingFinite, FS_RemoveElement
<1>6. Len(pending') <= Cardinality(Looking')
  BY <1>2, <1>3, <1>5, LookingFinite
<1>7. Running(t)'
  BY <1>1 DEF Running
<1> QED  BY <1>2, <1>6, <1>7 DEF TakeItem

\* A thread goes to sleep only if there is nothing to take and, after process()
\* was called, somebody is at work.
LEMMA SleepWakes ==
  ASSUME IInv, GraphWakesEnough, NEW t \in PoolThread, Sleep(t)
  PROVE  GraphWakesEnough'
<1>1. \A u \in PoolThread : tpc'[u] = IF u = t THEN "asleep" ELSE tpc[u]
  BY DEF Sleep, IInv, PGTypeOK
<1>2. ~quit' /\ Len(pending') = 0
  BY DEF Sleep
<1>3. ASSUME draining PROVE \E u \in PoolThread : Running(u)'
  <2>1. active # 0
    BY <1>3 DEF Sleep, Drained
  <2>2. {u \in PoolThread : Running(u)} # {}
    BY <2>1, FS_EmptySet DEF IInv, ThreadInv
  <2>3. PICK u \in PoolThread : Running(u)
    BY <2>2
  <2>4. u # t
    BY <2>3 DEF Sleep, Running
  <2> QED  BY <1>1, <2>3, <2>4 DEF Running
<1>4. draining' = draining
  BY DEF Sleep
<1> QED  BY <1>2, <1>3, <1>4, LookingFinite DEF GraphWakesEnough, Looking

\* The end of an item, and of the pool when it threw.
LEMMA ItemDoneWakes ==
  ASSUME IInv, GraphWakesEnough, NEW t \in PoolThread, ItemDone(t)
  PROVE  GraphWakesEnough'
<1>1. CASE tpc[t] = "thrown" /\ ~exception
  <2>1. tpc' = [NotifyAll(tpc) EXCEPT ![t] = "loop"]
    BY <1>1 DEF ItemDone
  <2>2. \A u \in PoolThread : tpc'[u] # "asleep"
    BY <2>1 DEF NotifyAll
  <2> QED  BY <2>2, AllAwake
<1>2. CASE ~(tpc[t] = "thrown" /\ ~exception)
  <2>1. /\ tpc' = [tpc EXCEPT ![t] = "loop"] /\ UNCHANGED <<quit, draining, pending>>
        /\ tpc[t] # "loop"
    BY <1>2 DEF ItemDone, IInv, PGTypeOK
  <2> QED  BY <2>1, WorkFrame DEF IInv, IdlePCs, ThreadPCs
<1> QED  BY <1>1, <1>2

\* A thread that finds that the pool quits, or makes it quit, leaves no sleeper.
LEMMA QuitWakes ==
  ASSUME IInv, GraphWakesEnough, NEW t \in PoolThread, Quit(t) \/ Drain(t)
  PROVE  GraphWakesEnough'
<1>1. CASE Quit(t)
  <2>1. \A u \in PoolThread : tpc[u] # "asleep"
    BY <1>1 DEF Quit, GraphWakesEnough, Asleep
  <2>2. \A u \in PoolThread : tpc'[u] # "asleep"
    BY <1>1, <2>1 DEF Quit, IInv, PGTypeOK
  <2> QED  BY <2>2, AllAwake
<1>2. CASE Drain(t)
  <2>1. \A u \in PoolThread : tpc'[u] # "asleep"
    BY <1>2 DEF Drain, NotifyAll
  <2> QED  BY <2>1, AllAwake
<1> QED  BY <1>1, <1>2

\* The steps of the calling thread.
LEMMA MainWakes ==
  ASSUME IInv, GraphWakesEnough, GraphMain
  PROVE  GraphWakesEnough'
<1>0. Main \in PoolThread /\ PGTypeOK
  BY DEF PoolThread, IInv
<1>1. CASE EnqueueNode
  <2>1. CASE toEnqueue = {} \/ quit
    <3>1. /\ tpc' = [tpc EXCEPT ![Main] = "drain"] /\ UNCHANGED <<quit, draining, pending>>
          /\ tpc[Main] # "loop" /\ ~Running(Main)
      BY <1>1, <2>1 DEF EnqueueNode, Running
    <3> QED  BY <1>0, <3>1, WorkFrame DEF MainPCs, ThreadPCs
  <2>2. CASE ~(toEnqueue = {} \/ quit)
    <3>1. PICK n \in toEnqueue :
            \E e \in Enqueued(n, pending, workers, tpc) : pending' = e.pending /\ tpc' = e.tpc
      BY <1>1, <2>2 DEF EnqueueNode
    <3>2. n \in Node /\ tpc[Main] # "over" /\ UNCHANGED <<quit, draining>>
      BY <1>1, <1>0 DEF EnqueueNode, PGTypeOK
    <3> QED  BY <3>1, <3>2, EnqueueWakes
  <2> QED  BY <2>1, <2>2
<1>2. CASE ProcessReturns
  <2>1. /\ tpc' = [tpc EXCEPT ![Main] = "shutdown"] /\ UNCHANGED <<quit, draining, pending>>
        /\ tpc[Main] # "loop" /\ ~Running(Main)
    BY <1>2 DEF ProcessReturns, Jump, PoolKept, Running
  <2> QED  BY <1>0, <2>1, WorkFrame DEF MainPCs, ThreadPCs
<1>3. CASE Process
  <2>1. /\ tpc' = [tpc EXCEPT ![Main] = "loop"] /\ UNCHANGED <<quit, pending>>
        /\ tpc[Main] = "drain"
    BY <1>3 DEF Process
  <2>2. \A u \in PoolThread : tpc'[u] = IF u = Main THEN "loop" ELSE tpc[u]
    BY <1>0, <2>1 DEF PGTypeOK
  <2> SUFFICES ASSUME NEW s \in PoolThread, tpc'[s] = "asleep"
               PROVE  /\ ~quit'
                      /\ Len(pending') <= Cardinality(Looking')
                      /\ \E t \in PoolThread : tpc'[t] = "loop" \/ Running(t)'
    BY DEF GraphWakesEnough, Asleep, Looking
  <2>3. ~quit /\ Len(pending) <= Cardinality(Looking)
    BY <2>2 DEF GraphWakesEnough, Asleep, Looking
  <2>4. Looking \subseteq Looking'
    BY <2>1, <2>2 DEF Looking
  <2>5. Cardinality(Looking) <= Cardinality(Looking')
    BY <2>4, LookingFinite, FS_Subset
  <2>6. Len(pending) \in Nat
    BY <1>0 DEF PGTypeOK
  <2>7. Len(pending') <= Cardinality(Looking')
    BY <2>1, <2>3, <2>5, <2>6, LookingFinite
  <2> QED  BY <1>0, <2>1, <2>2, <2>3, <2>7
<1>4. CASE Shutdown
  <2>1. \A u \in PoolThread : tpc'[u] # "asleep"
    BY <1>4 DEF Shutdown, NotifyAll
  <2> QED  BY <2>1, AllAwake
<1>5. CASE Join
  <2>1. /\ tpc' = [tpc EXCEPT ![Main] = "over"] /\ UNCHANGED <<quit, draining, pending>>
        /\ tpc[Main] # "loop" /\ ~Running(Main)
    BY <1>5 DEF Join, Running
  <2> QED  BY <1>0, <2>1, WorkFrame DEF MainPCs, ThreadPCs
<1> QED  BY <1>1, <1>2, <1>3, <1>4, <1>5 DEF GraphMain

\* The steps of an item.
LEMMA ItemWakes ==
  ASSUME IInv, GraphWakesEnough, NEW t \in PoolThread,
         FindRefs(t) \/ AddRefs(t) \/ ProcessNode(t) \/ ItemThrows(t)
           \/ ReleaseOne(t) \/ ReleaseNode(t)
  PROVE  GraphWakesEnough'
<1>0. PGTypeOK
  BY DEF IInv
<1>1. CASE FindRefs(t) \/ AddRefs(t) \/ ProcessNode(t) \/ ItemThrows(t) \/ ReleaseNode(t)
  <2>1. /\ UNCHANGED <<quit, draining, pending>> /\ tpc[t] # "loop"
        /\ \E label \in {"process", "edges", "finished", "release", "thrown"} :
             tpc' = [tpc EXCEPT ![t] = label]
    BY <1>1, Zenon DEF FindRefs, AddRefs, ProcessNode, ItemThrows, ReleaseNode, PoolKept, Jump
  <2> QED  BY <1>0, <2>1, WorkFrame DEF ThreadPCs, RunningPCs, DoingPCs
<1>2. CASE ReleaseOne(t)
  <2> DEFINE n == item[t]
  <2>0. tpc[t] = "release" /\ n \in Node /\ UNCHANGED <<quit, draining>> /\ tpc[Main] # "over"
    BY <1>2, <1>0 DEF ReleaseOne, IInv, ThreadInv, Running, PGTypeOK, PoolThread
  <2>1. PICK r \in Waiting(n) :
          \/ UNCHANGED <<pending, tpc>>
          \/ \E e \in Enqueued(r, pending, workers, tpc) : pending' = e.pending /\ tpc' = e.tpc
          \/ tpc' = [tpc EXCEPT ![t] = "thrown"] /\ UNCHANGED pending
    BY <1>2 DEF ReleaseOne, Jump
  <2>2. r \in Node
    BY <1>0, <2>0 DEF Waiting, PGTypeOK
  <2>3. CASE UNCHANGED <<pending, tpc>>
    BY <1>0, <2>0, <2>3, WakesFrame DEF Running
  <2>4. CASE \E e \in Enqueued(r, pending, workers, tpc) : pending' = e.pending /\ tpc' = e.tpc
    BY <2>0, <2>2, <2>4, EnqueueWakes
  <2>5. CASE tpc' = [tpc EXCEPT ![t] = "thrown"] /\ UNCHANGED pending
    BY <1>0, <2>0, <2>5, WorkFrame DEF ThreadPCs, RunningPCs
  <2> QED  BY <2>1, <2>3, <2>4, <2>5
<1> QED  BY <1>1, <1>2

\* Every step keeps a thread awake for each item, and the last one for the others.
LEMMA WakesNext == IInv /\ GraphWakesEnough /\ [GraphNext]_pgVars => GraphWakesEnough'
<1> SUFFICES ASSUME IInv, GraphWakesEnough, [GraphNext]_pgVars PROVE GraphWakesEnough'
  OBVIOUS
<1>1. CASE GraphMain
  BY <1>1, MainWakes
<1>2. ASSUME NEW t \in PoolThread, GraphThread(t)
      PROVE  GraphWakesEnough'
  BY <1>2, ItemWakes, TakeItemWakes, SleepWakes, ItemDoneWakes, QuitWakes
     DEF GraphThread, DoWork
<1>3. CASE UNCHANGED pgVars
  <2>1. UNCHANGED <<quit, draining, pending, tpc>> /\ PGTypeOK
    BY <1>3 DEF pgVars, poolVars, IInv
  <2> QED  BY <2>1, WakesFrame DEF Running
<1> QED  BY <1>1, <1>2, <1>3 DEF GraphNext, GraphOver

\* No wake-up of the ThreadPool is lost, for any graph and any number of threads:
\* notify_one() in enqueue() and notify_all() at the end are enough.
THEOREM GraphWakes == GraphSpec => []GraphWakesEnough
<1>1. GraphInit => GraphWakesEnough
  BY DEF GraphInit, PoolInit, GraphWakesEnough, Asleep
<1> QED  BY <1>1, GraphInvariance, WakesNext, PTL DEF GraphSpec
=============================================================================
