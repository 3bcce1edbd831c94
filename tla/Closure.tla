------------------------------ MODULE Closure ------------------------------
(***************************************************************************)
(* computeClosure() (closure.hh) as computeFSClosure() (misc.cc) uses it:  *)
(* a graph is explored by coroutines, of which only so many are started at *)
(* a time.  Everything runs on one strand: the handlers posted to it run   *)
(* one after the other in their order, and a coroutine goes on when the    *)
(* answer it waits for has come, in any order.                             *)
(***************************************************************************)
EXTENDS Naturals, Sequences, SequencesExt, FiniteSets

CONSTANTS
  Elt,            \* the nodes: store paths
  EltGraphs,      \* the graphs: functions from Elt to SUBSET Elt
  StartSets,      \* the sets to start from
  MaxConcurrent   \* maxConcurrent: 1024 in the code

ASSUME ClosureAssumption ==
  /\ \A g \in EltGraphs : g \in [Elt -> SUBSET Elt]
  /\ StartSets \subseteq SUBSET Elt
  /\ MaxConcurrent \in Nat \ {0}
  /\ IsFiniteSet(Elt)

VARIABLES
  graph,      \* the references (or the referrers) the store has
  missing,    \* the paths whose query throws InvalidPath
  start,      \* startElts
  known,      \* what `res' held before: the result of earlier calls
  res,
  posted,     \* the handlers posted to the strand
  awaited,    \* the elements whose getEdges() has not answered yet
  todo,
  toDo,       \* `pending': elements entered in res and not finished
  inFlight,
  error,
  completed   \* how often the handler was called

closureVars ==
  <<graph, missing, start, known, res, posted, awaited, todo, toDo, inFlight, error, completed>>

Handler(kind, elts) == [kind |-> kind, elts |-> elts]

\* queryDeps of computeFSClosure(): a path's reference to itself is left out.
getEdges(e) == graph[e] \ {e}

ClosureInit ==
  /\ graph \in EltGraphs
  /\ missing \in {{}} \cup {{e} : e \in Elt}
  /\ start \in StartSets
  /\ known \in {k \in {{}} \cup {{e} : e \in Elt} : \A e \in k : graph[e] \subseteq k}
  /\ res = known
  \* With nothing to do the handler is posted at once.
  /\ posted = IF start = {} THEN <<Handler("handler", {})>> ELSE <<Handler("enqueue", start)>>
  /\ awaited = {} /\ todo = <<>> /\ toDo = 0 /\ inFlight = 0
  /\ error = FALSE /\ completed = 0

(***************************************************************************)
(* The strand's state while a handler runs is a record: a handler may call *)
(* several of the functions below.                                         *)
(***************************************************************************)

StrandNow == [res |-> res, todo |-> todo, pending |-> toDo, inFlight |-> inFlight, error |-> error, posts |-> <<>>]

Posting(s, kind, e) == [s EXCEPT !.posts = Append(@, Handler(kind, {e}))]

spawnWorker(s, e) == Posting([s EXCEPT !.inFlight = @ + 1], "coroutine", e)

\* How many of n workers are spawned at once: inFlight may go up to maxConcurrent.
Room(s, n) ==
  IF s.inFlight + n <= MaxConcurrent THEN n
  ELSE IF s.inFlight < MaxConcurrent THEN MaxConcurrent - s.inFlight
  ELSE 0

\* enqueue() for the elements of a set in turn: those not in the result yet are
\* entered and counted; the first of them get a worker each, the others wait.
enqueue(s, elts) ==
  LET fresh == SetToSeq(elts \ s.res)
      now == Room(s, Len(fresh))
  IN IF s.error THEN s
     ELSE [s EXCEPT !.res = @ \cup elts,
                    !.pending = @ + Len(fresh),
                    !.inFlight = @ + now,
                    !.todo = @ \o SubSeq(fresh, now + 1, Len(fresh)),
                    !.posts = @ \o [i \in 1..now |-> Handler("coroutine", {fresh[i]})]]

\* A mutant: a failure drops the queue and forgets that it was counted.
DiscardUncounted(s) == [s EXCEPT !.todo = <<>>]

\* After a failure the remaining work is dropped.
Discard(s) == [s EXCEPT !.pending = @ - Len(s.todo), !.todo = <<>>]

onWorkDone(s0) ==
  LET s == [s0 EXCEPT !.inFlight = @ - 1, !.pending = @ - 1]
      rest == IF s.error THEN Discard(s) ELSE s
  IN IF s.todo # <<>> /\ ~s.error THEN Posting([s EXCEPT !.todo = Tail(@)], "spawn", Head(s.todo))
     ELSE IF rest.pending = 0 THEN [rest EXCEPT !.posts = Append(@, Handler("handler", {}))]
     ELSE rest

Becomes(s, queue) ==
  /\ res' = s.res /\ todo' = s.todo /\ toDo' = s.pending /\ inFlight' = s.inFlight /\ error' = s.error
  /\ posted' = queue \o s.posts
  /\ UNCHANGED <<graph, missing, start, known>>

\* The next handler of the strand.
Posted(kind) == posted # <<>> /\ Head(posted).kind = kind

RunEnqueue ==
  /\ Posted("enqueue")
  /\ Becomes(enqueue(StrandNow, Head(posted).elts), Tail(posted))
  /\ UNCHANGED <<awaited, completed>>

RunSpawn ==
  /\ Posted("spawn")
  /\ \E e \in Head(posted).elts : Becomes(spawnWorker(StrandNow, e), Tail(posted))
  /\ UNCHANGED <<awaited, completed>>

\* The coroutine runs up to the point where it waits for getEdges().
RunCoroutine ==
  /\ Posted("coroutine")
  /\ awaited' = awaited \cup Head(posted).elts
  /\ Becomes(StrandNow, Tail(posted))
  /\ UNCHANGED completed

\* The handler given to computeClosure(): the caller goes on with `res'.
RunHandler ==
  /\ Posted("handler")
  /\ completed' = completed + 1
  /\ Becomes(StrandNow, Tail(posted))
  /\ UNCHANGED awaited

\* getEdges() has answered, or thrown: fail(), enqueue(), onWorkDone().
Resume(e) ==
  /\ e \in awaited
  /\ awaited' = awaited \ {e}
  /\ Becomes(onWorkDone(IF e \in missing THEN [StrandNow EXCEPT !.error = TRUE]
                        ELSE enqueue(StrandNow, getEdges(e))), posted)
  /\ UNCHANGED completed

ClosureNext ==
  \/ RunEnqueue \/ RunSpawn \/ RunCoroutine \/ RunHandler
  \/ \E e \in Elt : Resume(e)

ClosureSpec == ClosureInit /\ [][ClosureNext]_closureVars

(***************************************************************************)
(* Properties                                                              *)
(***************************************************************************)

\* What is reached from a set of elements through elements outside `within': what
\* is in every set that has these elements and is closed under such edges.
Reach(from, within) ==
  {x \in Elt : \A S \in SUBSET Elt :
      (from \subseteq S /\ \A y \in S \ within : getEdges(y) \subseteq S) => x \in S}

\* ctx.run() returns when nothing is posted and nobody is waited for: only posted
\* handlers and coroutines keep the State with its work guard alive.
Returned == posted = <<>> /\ awaited = {}

\* computeClosure() returns with the caller's result complete: all that is reached,
\* whatever order the answers came in and however often the limit made elements
\* wait.  An error means that something reached is missing, and where something
\* reached is missing there is an error.  The handler is called once, when no
\* coroutine is left that could touch the result; only where every start element is
\* known already it is dropped uncalled, and the call returns without it.
ClosureExact ==
  /\ completed <= 1
  /\ completed = 1 => Returned
  /\ Returned =>
       LET all == known \cup Reach(start, known)
       IN /\ completed = 0 <=> start # {} /\ start \subseteq known
          /\ todo = <<>> /\ toDo = 0 /\ inFlight = 0
          /\ error <=> (all \ known) \cap missing # {}
          /\ ~error => res = all
          /\ res \subseteq all
=============================================================================
