----------------------------- MODULE Util_proofs -----------------------------
(***************************************************************************)
(* Proofs about parts of libutil: RunProgram, for any amount of output and *)
(* any capacity of the pipe, Interrupts, for any number of triggers and    *)
(* owners of callbacks, Pool, for any number of users and any limit,       *)
(* Closure, for any finite graph and any limit on the coroutines, and      *)
(* Accessors, for any trees, any number of threads and any limits.         *)
(***************************************************************************)
EXTENDS RunProgram, Interrupts, Pool, Closure, Accessors, FiniteSetTheorems, SequenceTheorems, TLAPS

(***************************************************************************)
(* RunProgram                                                              *)
(***************************************************************************)

\* What the child is while the parent is where.
ChildInv ==
  /\ rpc = "start" => child = "none" /\ ~pid
  /\ rpc \in {"forked", "drain", "wait"} =>
       pid /\ child \in {"setup", "running", "zombie"}
  /\ rpc \in {"wait", "killing"} => pid /\ child = "zombie"
  /\ rpc \in {"returned", "threw"} => child \in {"none", "reaped"}

\* Every unit of output is in the pipe or with the sink, or the sink threw.
OutputInv ==
  /\ rpc \in {"start", "forked", "drain", "wait"} => received + inPipe = written
  /\ received + inPipe <= written
  /\ rpc = "wait" => inPipe = 0
  /\ status = "ok" => written = Output /\ child \in {"zombie", "reaped"}
  /\ rpc = "returned" => received = Output

RunInv == RunTypeOK /\ ChildInv /\ OutputInv

\* Before runProgram2() is called there is no child.
LEMMA RunInvInit == RunInit => RunInv
<1> SUFFICES ASSUME RunInit PROVE RunInv
  OBVIOUS
<1>1. {stop, pid, vforked} \subseteq BOOLEAN
  BY Zenon DEF RunInit
<1>2. ChildInv
  BY Zenon DEF RunInit, ChildInv
<1> QED
  BY <1>1, <1>2, OutputAssumption DEF RunInit, RunInv, RunTypeOK, OutputInv

\* Every step of the parent and of the child keeps the invariant.
LEMMA RunInvNext == RunInv /\ [RunNext]_rpVars => RunInv'
<1> SUFFICES ASSUME RunInv, [RunNext]_rpVars PROVE RunInv'
  OBVIOUS
<1> USE OutputAssumption DEF RunInv, RunTypeOK, ChildInv, OutputInv
<1>1. CASE InterruptArrives
  BY <1>1 DEF InterruptArrives
<1>2. CASE ChildSetup
  BY <1>2 DEF ChildSetup
<1>3. CASE ChildWrites
  BY <1>3 DEF ChildWrites
<1>4. CASE ChildExits
  BY <1>4 DEF ChildExits
<1>5. CASE InterruptNoticed
  BY <1>5 DEF InterruptNoticed, Unwind
<1>6. CASE StartProcess
  BY <1>6 DEF StartProcess
<1>7. CASE ParentResumes
  BY <1>7 DEF ParentResumes
<1>8. CASE DrainFD
  <2>1. CASE /\ inPipe > 0 /\ received' = received + 1
             /\ UNCHANGED <<rpc, child, pid, status>>
    BY <1>8, <2>1 DEF DrainFD
  <2>2. CASE inPipe > 0 /\ Unwind
    BY <1>8, <2>2 DEF DrainFD, Unwind
  <2>3. CASE inPipe = 0
    BY <1>8, <2>3 DEF DrainFD
  <2> QED  BY <1>8, <2>1, <2>2, <2>3 DEF DrainFD
<1>9. CASE PidWait
  <2>1. {stop, pid, vforked}' \subseteq BOOLEAN
    BY <1>9, Zenon DEF PidWait
  <2>2. ChildInv' /\ OutputInv'
    BY <1>9 DEF PidWait
  <2> QED  BY <1>9, <2>1, <2>2 DEF PidWait
<1>10. CASE UNCHANGED rpVars
  BY <1>10 DEF rpVars
<1> QED
  BY <1>1, <1>2, <1>3, <1>4, <1>5, <1>6, <1>7, <1>8, <1>9, <1>10
     DEF RunNext, RunParent, RunChild, RunOver

\* runProgram2(): however the program ends and whichever step throws, the parent
\* leaves with its child reaped, and returns normally only with all the output
\* of a program that succeeded.
THEOREM NoChildSafe == RunSpec => []NoChildLeft
<1>1. RunInv => NoChildLeft
  BY DEF RunInv, ChildInv, OutputInv, NoChildLeft
<1> QED  BY RunInvInit, RunInvNext, <1>1, PTL DEF RunSpec

(***************************************************************************)
(* Interrupts                                                              *)
(***************************************************************************)

\* Tokens are given out once, and a registered one belongs to one owner.
TokenInv ==
  /\ callbacks \subseteq 0..(nextToken - 1)
  /\ \A o, q \in Owner : token[o] = token[q] /\ token[o] # NoToken => o = q

\* What a trigger has passed it has called or, if it is still registered, is
\* about to call.
CursorInv ==
  /\ cursor \in [Trigger -> Nat]
  /\ told \in [Trigger -> SUBSET Int]
  /\ since \in [Trigger -> SUBSET callbacks]
  /\ \A s \in Trigger :
       /\ spc[s] = "fetch" => \A k \in since[s] : k < cursor[s] => k \in told[s]
       /\ spc[s] = "call" =>
            \A k \in since[s] : k < cursor[s] => k \in told[s] \cup {fetched[s]}
       /\ spc[s] = "done" => since[s] \subseteq told[s]

SigInv == SigTypeOK /\ TokenInv /\ CursorInv

\* A set of natural numbers that is not empty has a least element.
LEMMA LeastElement ==
  ASSUME NEW T, T \subseteq Nat, T # {}
  PROVE  Min(T) \in T /\ \A y \in T : Min(T) <= y
<1> DEFINE R == {ss \in Nat \X Nat : ss[1] < ss[2]}
<1>1. IsWellFoundedOn(R, Nat)
  BY NatLessThanWellFounded DEF OpToRel
<1>2. \E x \in T : \A y \in T : ~(<<y, x>> \in R)
  <2> HIDE DEF R
  <2> QED  BY <1>1, WFMin
<1>3. PICK x \in T : \A y \in T : ~(<<y, x>> \in R)
  BY <1>2
<1>4. \A y \in T : x <= y
  <2> TAKE y \in T
  <2>1. ~(y < x)
    BY <1>3
  <2> QED  BY <2>1
<1>5. \E z \in T : \A y \in T : z <= y
  BY <1>4
<1> QED  BY <1>5, Zenon DEF Min

\* At the start nobody has registered a callback.
LEMMA SigInvInit == SigInit => SigInv
<1> SUFFICES ASSUME SigInit PROVE SigInv
  OBVIOUS
<1>1. isInterrupted \in BOOLEAN
  BY Zenon DEF SigInit
<1> QED
  BY <1>1, TokenAssumption
     DEF SigInit, SigInv, SigTypeOK, TokenInv, CursorInv, NoToken

\* Every step of the signal handler thread and of the threads that register
\* callbacks keeps the invariant.
LEMMA SigInvNext == SigInv /\ [SigNext]_sigVars => SigInv'
<1> SUFFICES ASSUME SigInv, [SigNext]_sigVars PROVE SigInv'
  OBVIOUS
<1> USE TokenAssumption DEF SigInv, NoToken
<1>1. ASSUME NEW o \in Owner, CreateInterruptCallback(o)
      PROVE  SigInv'
  <2> USE <1>1 DEF CreateInterruptCallback, SigTypeOK
  <2>1. SigTypeOK'
    BY DEF TokenInv
  <2>2. TokenInv'
    BY DEF TokenInv
  <2>3. CursorInv'
    BY DEF CursorInv
  <2> QED  BY <2>1, <2>2, <2>3
<1>2. ASSUME NEW o \in Owner, DropInterruptCallback(o)
      PROVE  SigInv'
  <2> USE <1>2 DEF DropInterruptCallback, SigTypeOK
  <2>1. SigTypeOK'
    BY DEF TokenInv
  <2>2. TokenInv'
    BY DEF TokenInv
  <2>3. CursorInv'
    BY DEF CursorInv
  <2> QED  BY <2>1, <2>2, <2>3
<1>3. ASSUME NEW s \in Trigger, TriggerInterrupt(s)
      PROVE  SigInv'
  <2> USE <1>3 DEF TriggerInterrupt, SigTypeOK, TokenInv
  <2>1. SigTypeOK' /\ TokenInv'
    OBVIOUS
  <2>2. CursorInv'
    BY DEF CursorInv
  <2> QED  BY <2>1, <2>2
<1>4. ASSUME NEW s \in Trigger, FetchCallback(s)
      PROVE  SigInv'
  <2> DEFINE N == NotBefore(cursor[s])
  <2> USE DEF SigTypeOK, TokenInv
  <2>1. N \subseteq callbacks /\ callbacks \subseteq Nat
    BY DEF NotBefore
  <2>2. CASE N = {}
    <3> USE <1>4, <2>2 DEF FetchCallback
    <3>1. SigTypeOK' /\ TokenInv'
      OBVIOUS
    <3>2. \A k \in callbacks : k < cursor[s]
      BY <2>1 DEF NotBefore, CursorInv
    <3>3. CursorInv'
      BY <3>2 DEF CursorInv
    <3> QED  BY <3>1, <3>3
  <2>3. CASE N # {}
    <3> HIDE DEF N
    <3>1. Min(N) \in N /\ \A y \in N : Min(N) <= y
      BY <2>1, <2>3, LeastElement
    <3>2. PICK m : m = Min(N)
      OBVIOUS
    <3>3. /\ m \in callbacks /\ m >= cursor[s]
          /\ \A k \in callbacks : k >= cursor[s] => m <= k
      BY <3>1, <3>2 DEF N, NotBefore
    <3>4. /\ spc[s] = "fetch" /\ spc' = [spc EXCEPT ![s] = "call"]
          /\ fetched' = [fetched EXCEPT ![s] = m]
          /\ cursor' = [cursor EXCEPT ![s] = m + 1]
          /\ UNCHANGED <<isInterrupted, nextToken, callbacks, token, told, since>>
      BY <1>4, <2>3, <3>2 DEF FetchCallback, N
    <3>5. SigTypeOK' /\ TokenInv'
      BY <3>3, <3>4
    <3>6. CursorInv'
      BY <2>1, <3>3, <3>4 DEF CursorInv
    <3> QED  BY <3>5, <3>6
  <2> QED  BY <2>2, <2>3
<1>5. ASSUME NEW s \in Trigger, CallCallback(s)
      PROVE  SigInv'
  <2> USE <1>5 DEF CallCallback, SigTypeOK, TokenInv
  <2>1. SigTypeOK' /\ TokenInv'
    OBVIOUS
  <2>2. CursorInv'
    BY DEF CursorInv
  <2> QED  BY <2>1, <2>2
<1>6. CASE UNCHANGED sigVars
  BY <1>6 DEF sigVars, SigTypeOK, TokenInv, CursorInv
<1> QED
  BY <1>1, <1>2, <1>3, <1>4, <1>5, <1>6 DEF SigNext, TriggerStep

\* triggerInterrupt(): a round calls every callback that stays registered
\* through it, whatever is registered and removed meanwhile.
THEOREM InterruptSafe == SigSpec => []InterruptReachesAll
<1>1. SigInv => InterruptReachesAll
  BY DEF SigInv, CursorInv, InterruptReachesAll
<1> QED  BY SigInvInit, SigInvNext, <1>1, PTL DEF SigSpec

(***************************************************************************)
(* Pool                                                                    *)
(***************************************************************************)

\* Every step of a user of the pool keeps the count of its resources right.
LEMMA PoolInvNext == PoolTypeOK /\ [PoolNext]_pvVars => PoolTypeOK'
<1> SUFFICES ASSUME PoolTypeOK, [PoolNext]_pvVars PROVE PoolTypeOK'
  OBVIOUS
<1> DEFINE Busy == {u \in PoolUser : upc[u] \in {"make", "has"}}
<1>0. IsFiniteSet(Busy)
  BY PoolAssumption, FS_Subset
<1> USE PoolAssumption DEF PoolTypeOK, WakeOne
<1>1. ASSUME NEW u \in PoolUser, CallGet(u)
      PROVE  PoolTypeOK'
  <2>1. Busy' = Busy
    BY <1>1 DEF CallGet
  <2> QED  BY <1>1, <2>1 DEF CallGet
<1>2. ASSUME NEW u \in PoolUser, EnterGet(u)
      PROVE  PoolTypeOK'
  <2>1. CASE idle = 0 /\ inUse >= PoolMax
    <3>1. Busy' = Busy
      BY <1>2, <2>1 DEF EnterGet
    <3> QED  BY <1>2, <2>1, <3>1 DEF EnterGet
  <2>2. CASE ~(idle = 0 /\ inUse >= PoolMax)
    <3>1. Busy' = Busy \cup {u} /\ u \notin Busy
      BY <1>2, <2>2 DEF EnterGet
    <3>2. Cardinality(Busy') = Cardinality(Busy) + 1
      BY <1>0, <3>1, FS_AddElement
    <3>3. idle' \in Nat /\ inUse' = inUse + 1 /\ idle' + inUse' <= PoolMax
      BY <1>2, <2>2 DEF EnterGet
    <3> HIDE DEF Busy
    <3>4. inUse' = Cardinality(Busy')
      BY <3>2, <3>3 DEF Busy
    <3> QED  BY <1>2, <2>2, <3>3, <3>4 DEF EnterGet, Busy
  <2> QED  BY <2>1, <2>2
<1>3. ASSUME NEW u \in PoolUser, MakeResource(u)
      PROVE  PoolTypeOK'
  <2>1. CASE upc' = [upc EXCEPT ![u] = "has"] /\ UNCHANGED <<inUse, sleepers>>
    <3>1. Busy' = Busy
      BY <1>3, <2>1 DEF MakeResource
    <3> QED  BY <1>3, <2>1, <3>1 DEF MakeResource
  <2>2. CASE upc' = [upc EXCEPT ![u] = "out"] /\ inUse' = inUse - 1 /\ WakeOne
    <3>1. Busy' = Busy \ {u} /\ u \in Busy
      BY <1>3, <2>2 DEF MakeResource
    <3> HIDE DEF Busy
    <3>2. Cardinality(Busy') = Cardinality(Busy) - 1
      BY <1>0, <3>1, FS_RemoveElement
    <3>3. Cardinality(Busy') \in Nat
      BY <1>0, <3>1, FS_RemoveElement, FS_CardinalityType
    <3> QED  BY <1>3, <2>2, <3>2, <3>3 DEF MakeResource, Busy
  <2> QED  BY <1>3, <2>1, <2>2 DEF MakeResource
<1>4. ASSUME NEW u \in PoolUser, DropHandle(u)
      PROVE  PoolTypeOK'
  <2>1. Busy' = Busy \ {u} /\ u \in Busy
    BY <1>4 DEF DropHandle
  <2> HIDE DEF Busy
  <2>2. Cardinality(Busy') = Cardinality(Busy) - 1
    BY <1>0, <2>1, FS_RemoveElement
  <2>3. Cardinality(Busy') \in Nat
    BY <1>0, <2>1, FS_RemoveElement, FS_CardinalityType
  <2> QED  BY <1>4, <2>2, <2>3 DEF DropHandle, Busy
<1>5. ASSUME NEW u \in PoolUser, NotifyOther(u)
      PROVE  PoolTypeOK'
  <2>1. Busy' = Busy
    BY <1>5 DEF NotifyOther
  <2> QED  BY <1>5, <2>1 DEF NotifyOther
<1>6. CASE UNCHANGED pvVars
  BY <1>6 DEF pvVars
<1> QED
  BY <1>1, <1>2, <1>3, <1>4, <1>5, <1>6 DEF PoolNext, PoolUserStep, PoolOver

\* Pool<R>: the resources lent and idle are never more than the limit, also
\* while factories fail and waiters are woken.
THEOREM PoolWithinLimit == PoolSpec => []PoolTypeOK
<1>1. PoolStart => PoolTypeOK
  <2> SUFFICES ASSUME PoolStart PROVE PoolTypeOK
    OBVIOUS
  <2>1. {u \in PoolUser : upc[u] \in {"make", "has"}} = {}
    BY DEF PoolStart
  <2> QED  BY <2>1, FS_EmptySet, PoolAssumption DEF PoolStart, PoolTypeOK
<1> QED  BY <1>1, PoolInvNext, PTL DEF PoolSpec

\* Every step keeps a thread coming for each free place while others sleep: a place
\* is freed by one who notifies afterwards or at once, and taken by one who came.
LEMMA PoolWakesNext == PoolTypeOK /\ PoolWakesEnough /\ [PoolNext]_pvVars => PoolWakesEnough'
<1> SUFFICES ASSUME PoolTypeOK, PoolWakesEnough, [PoolNext]_pvVars, sleepers' # {}
             PROVE  PoolMax - inUse' <= Cardinality(Coming')
  BY DEF PoolWakesEnough
<1>0. /\ IsFiniteSet(Coming) /\ IsFiniteSet(Coming')
      /\ Cardinality(Coming) \in Nat /\ Cardinality(Coming') \in Nat
  <2>1. Coming \subseteq PoolUser /\ Coming' \subseteq PoolUser
    BY DEF Coming
  <2> QED  BY <2>1, PoolAssumption, FS_Subset, FS_CardinalityType
<1>t. /\ PoolMax \in Nat /\ inUse \in Nat /\ inUse <= PoolMax
      /\ upc \in [PoolUser -> {"out", "enter", "make", "has", "notify"}]
      /\ sleepers \subseteq {u \in PoolUser : upc[u] = "enter"}
  BY PoolAssumption DEF PoolTypeOK
<1>w. sleepers # {} => PoolMax - inUse <= Cardinality(Coming)
  BY DEF PoolWakesEnough
<1>m. ASSUME Coming \subseteq Coming', sleepers # {}, inUse' = inUse
      PROVE  PoolMax - inUse' <= Cardinality(Coming')
  <2>1. Cardinality(Coming) <= Cardinality(Coming')
    BY <1>0, <1>m, FS_Subset
  <2> QED  BY <1>0, <1>t, <1>w, <1>m, <2>1
<1>1. ASSUME NEW u \in PoolUser, CallGet(u)
      PROVE  PoolMax - inUse' <= Cardinality(Coming')
  <2>1. Coming \subseteq Coming' /\ sleepers # {} /\ inUse' = inUse
    BY <1>1, <1>t DEF CallGet, Coming
  <2> QED  BY <2>1, <1>m
<1>2. ASSUME NEW u \in PoolUser, EnterGet(u)
      PROVE  PoolMax - inUse' <= Cardinality(Coming')
  <2>1. CASE idle = 0 /\ inUse >= PoolMax
    <3>1. inUse' = inUse
      BY <1>2, <2>1 DEF EnterGet
    <3> QED  BY <2>1, <3>1, <1>0, <1>t
  <2>2. CASE ~(idle = 0 /\ inUse >= PoolMax)
    <3>1. /\ inUse' = inUse + 1 /\ sleepers' = sleepers
          /\ u \in Coming /\ Coming' = Coming \ {u}
      BY <1>2, <2>2, <1>t DEF EnterGet, Coming
    <3>2. Cardinality(Coming') = Cardinality(Coming) - 1
      BY <1>0, <3>1, FS_RemoveElement
    <3> QED  BY <1>0, <1>t, <1>w, <3>1, <3>2
  <2> QED  BY <2>1, <2>2
<1>3. ASSUME NEW u \in PoolUser, MakeResource(u)
      PROVE  PoolMax - inUse' <= Cardinality(Coming')
  <2>1. CASE upc' = [upc EXCEPT ![u] = "has"] /\ UNCHANGED <<inUse, sleepers>>
    <3>1. Coming \subseteq Coming' /\ sleepers # {} /\ inUse' = inUse
      BY <1>3, <2>1, <1>t DEF MakeResource, Coming
    <3> QED  BY <3>1, <1>m
  <2>2. CASE upc' = [upc EXCEPT ![u] = "out"] /\ inUse' = inUse - 1 /\ WakeOne
    <3>1. PICK v \in sleepers : sleepers' = sleepers \ {v}
      BY <2>2 DEF WakeOne
    <3>2. v \notin Coming /\ Coming' = Coming \cup {v}
      BY <1>3, <2>2, <3>1, <1>t DEF MakeResource, Coming
    <3>3. Cardinality(Coming') = Cardinality(Coming) + 1
      BY <1>0, <3>2, FS_AddElement
    <3> QED  BY <1>0, <1>t, <1>w, <2>2, <3>1, <3>3
  <2> QED  BY <1>3, <2>1, <2>2 DEF MakeResource
<1>4. ASSUME NEW u \in PoolUser, DropHandle(u)
      PROVE  PoolMax - inUse' <= Cardinality(Coming')
  <2>1. /\ u \notin Coming /\ Coming' = Coming \cup {u}
        /\ inUse' = inUse - 1 /\ sleepers' = sleepers
    BY <1>4, <1>t DEF DropHandle, Coming
  <2>2. Cardinality(Coming') = Cardinality(Coming) + 1
    BY <1>0, <2>1, FS_AddElement
  <2> QED  BY <1>0, <1>t, <1>w, <2>1, <2>2
<1>5. ASSUME NEW u \in PoolUser, NotifyOther(u)
      PROVE  PoolMax - inUse' <= Cardinality(Coming')
  <2>1. PICK v \in sleepers : sleepers' = sleepers \ {v}
    BY <1>5 DEF NotifyOther, WakeOne
  <2>2. /\ inUse' = inUse
        /\ u \in Coming /\ v \notin Coming /\ Coming' = (Coming \ {u}) \cup {v}
    BY <1>5, <2>1, <1>t DEF NotifyOther, Coming
  <2>3. /\ Cardinality(Coming \ {u}) = Cardinality(Coming) - 1
        /\ IsFiniteSet(Coming \ {u})
    BY <1>0, <2>2, FS_RemoveElement
  <2>4. Cardinality(Coming') = Cardinality(Coming \ {u}) + 1
    BY <2>2, <2>3, FS_AddElement
  <2> QED  BY <1>0, <1>t, <1>w, <2>1, <2>2, <2>3, <2>4
<1>6. CASE UNCHANGED pvVars
  <2>1. Coming' = Coming /\ sleepers' = sleepers /\ inUse' = inUse
    BY <1>6 DEF pvVars, Coming
  <2> QED  BY <2>1, <1>m
<1> QED
  BY <1>1, <1>2, <1>3, <1>4, <1>5, <1>6 DEF PoolNext, PoolUserStep, PoolOver

\* No wake-up of Pool<R> is lost, for any number of threads and any limit.
THEOREM PoolWakes == PoolSpec => []PoolWakesEnough
<1>1. PoolStart => PoolWakesEnough
  BY DEF PoolStart, PoolWakesEnough
<1> QED  BY <1>1, PoolWithinLimit, PoolWakesNext, PTL DEF PoolSpec

(***************************************************************************)
(* Closure                                                                 *)
(***************************************************************************)

\* The elements that posted handlers are about, those that wait in `todo', those
\* with a coroutine, and all that are entered and not finished.
FirstOf(t, n) == {t[i] : i \in 1..n}
ItemsOf(t) == FirstOf(t, Len(t))
EltsIn(q, kind) == {e \in Elt : \E i \in 1..Len(q) : q[i] = Handler(kind, {e})}
Waiting(s) == ItemsOf(s.todo)
Flying(q, aw) == EltsIn(q, "coroutine") \cup aw
Unfinished(s, q, aw) == Flying(q, aw) \cup EltsIn(q, "spawn") \cup Waiting(s)

\* Nothing is in a list twice.
NoneTwice(t) == \A i, j \in 1..Len(t) : t[i] = t[j] => i = j

\* All handlers are for one element each, and none is for the same as another.
WorkHandler == {Handler("coroutine", {e}) : e \in Elt} \cup {Handler("spawn", {e}) : e \in Elt}
WorkQueue(q) ==
  /\ q \in Seq(WorkHandler)
  /\ \A i, j \in 1..Len(q) : q[i].elts = q[j].elts => i = j

HandlerKind == {"enqueue", "coroutine", "spawn", "handler"}
StrandType ==
  [res : SUBSET Elt, todo : Seq(Elt), pending : Nat, inFlight : Nat, error : BOOLEAN,
   posts : Seq([kind : HandlerKind, elts : SUBSET Elt])]

\* The counters are right: every element is in one place.
CountedCore(s, q, aw) ==
  /\ s \in StrandType /\ WorkQueue(q) /\ aw \subseteq Elt
  /\ NoneTwice(s.todo)
  /\ EltsIn(q, "coroutine") \cap aw = {}
  /\ EltsIn(q, "spawn") \cap aw = {}
  /\ Waiting(s) \cap (Flying(q, aw) \cup EltsIn(q, "spawn")) = {}
  /\ s.inFlight = Cardinality(Flying(q, aw))
  /\ s.pending = Cardinality(Unfinished(s, q, aw))

\* A failure has emptied the queue; who waits waits for somebody.
Counted(s, q, aw) ==
  /\ CountedCore(s, q, aw)
  /\ s.error => s.todo = <<>>
  /\ Waiting(s) # {} => Flying(q, aw) \cup EltsIn(q, "spawn") # {}

\* What is to be in the result.
Wanted == known \cup Reach(start, known)

\* The result has nothing that is not wanted; of what is finished the edges are
\* in it; an error has a reason.
Sound(r, err, busy) ==
  /\ known \subseteq r /\ r \subseteq Wanted
  /\ busy \subseteq r \ known
  /\ ~err => \A e \in (r \ known) \ busy : getEdges(e) \subseteq r /\ e \notin missing
  /\ err => (r \ known) \cap missing # {}

StrandIdle == /\ awaited = {} /\ todo = <<>> /\ toDo = 0 /\ inFlight = 0

\* Before the first handler; while there is work; when all is done; after the
\* handler of the caller; and where there was nothing to do.
NotBegun == /\ posted = <<Handler("enqueue", start)>> /\ start # {} /\ StrandIdle
         /\ error = FALSE /\ res = known /\ completed = 0
AtWork == /\ Counted(StrandNow, posted, awaited)
        /\ Sound(res, error, Unfinished(StrandNow, posted, awaited))
        /\ Unfinished(StrandNow, posted, awaited) # {}
        /\ start \subseteq res /\ ~(start \subseteq known) /\ completed = 0
Drained == /\ StrandIdle /\ Sound(res, error, {}) /\ start \subseteq res
           /\ error \in BOOLEAN /\ (start = {} \/ ~(start \subseteq known))
           /\ \/ posted = <<Handler("handler", {})>> /\ completed = 0
              \/ posted = <<>> /\ completed = 1
Needless == /\ StrandIdle /\ posted = <<>> /\ completed = 0 /\ ~error /\ res = known
            /\ start # {} /\ start \subseteq known

ClosureInv ==
  /\ graph \in EltGraphs /\ missing \subseteq Elt /\ start \in StartSets /\ known \subseteq Elt
  /\ NotBegun \/ AtWork \/ Drained \/ Needless

\* SetToSeq() has every element of a finite set once.
LEMMA SeqOfSet ==
  ASSUME NEW S, IsFiniteSet(S)
  PROVE  /\ SetToSeq(S) \in Seq(S)
         /\ Len(SetToSeq(S)) = Cardinality(S) /\ Cardinality(S) \in Nat
         /\ \A i, j \in 1..Cardinality(S) : SetToSeq(S)[i] = SetToSeq(S)[j] => i = j
         /\ \A x \in S : \E i \in 1..Cardinality(S) : SetToSeq(S)[i] = x
<1> DEFINE n == Cardinality(S)
           f == SetToSeq(S)
<1>1. n \in Nat /\ ExistsBijection(1..n, S)
  BY FS_CardinalityType
<1>2. \E g \in [1..n -> S] : IsInjective(g)
  BY <1>1 DEF ExistsBijection, Bijection, Injection, IsInjective
<1>3. f \in [1..n -> S] /\ IsInjective(f)
  BY <1>2 DEF SetToSeq
<1>4. f \in Seq(S) /\ Len(f) = n
  BY <1>1, <1>3
<1>5. f \in Injection(1..n, S)
  BY <1>3 DEF Injection, IsInjective
<1>6. IsFiniteSet(1..n) /\ Cardinality(1..n) = n
  BY <1>1, FS_Interval
<1>7. f \in Surjection(1..n, S)
  BY <1>5, <1>6, FS_Injection
<1>8. \A x \in S : \E i \in 1..n : f[i] = x
  BY <1>7 DEF Surjection
<1>9. \A i, j \in 1..n : f[i] = f[j] => i = j
  BY <1>3 DEF IsInjective
<1> QED  BY <1>1, <1>4, <1>8, <1>9

\* The elements at different places of an initial part of a sequence are as many
\* as the places.
LEMMA PartCardinality ==
  ASSUME NEW f \in Seq(Elt), NoneTwice(f),
         NEW k \in 0..Len(f), NEW T, T = FirstOf(f, k)
  PROVE  IsFiniteSet(T) /\ Cardinality(T) = k
<1> DEFINE g == [i \in 1..k |-> f[i]]
<1>1. Len(f) \in Nat /\ k \in Nat /\ \A i \in 1..k : i \in 1..Len(f)
  OBVIOUS
<1>2. g \in Bijection(1..k, T)
  BY <1>1 DEF Bijection, Injection, Surjection, IsInjective, NoneTwice, FirstOf
<1>3. ExistsBijection(1..k, T)
  BY <1>2 DEF ExistsBijection
<1>4. IsFiniteSet(1..k) /\ Cardinality(1..k) = k
  BY <1>1, FS_Interval
<1> QED  BY <1>3, <1>4, FS_Bijection

\* The next handler leaves the queue.
LEMMA TailOfQueue ==
  ASSUME NEW q, WorkQueue(q), q # <<>>
  PROVE  /\ WorkQueue(Tail(q)) /\ Head(q).kind \in {"coroutine", "spawn"}
         /\ \E e \in Elt :
              /\ Head(q) = Handler(Head(q).kind, {e}) /\ Head(q).elts = {e}
              /\ e \in EltsIn(q, Head(q).kind)
              /\ EltsIn(Tail(q), Head(q).kind) = EltsIn(q, Head(q).kind) \ {e}
              /\ \A kind : kind # Head(q).kind => /\ EltsIn(Tail(q), kind) = EltsIn(q, kind)
                                                  /\ e \notin EltsIn(q, kind)
<1>1. /\ q \in Seq(WorkHandler) /\ Len(q) \in Nat /\ Len(q) > 0 /\ Head(q) = q[1]
      /\ Tail(q) \in Seq(WorkHandler) /\ Len(Tail(q)) = Len(q) - 1
      /\ \A i \in 1..Len(Tail(q)) : Tail(q)[i] = q[i + 1]
  BY DEF WorkQueue
<1>2. \A i \in 1..Len(q) : q[i] \in WorkHandler
  BY <1>1
<1>2a. q[1] \in WorkHandler
  BY <1>1, <1>2
<1>3. PICK kind \in {"coroutine", "spawn"}, e \in Elt : q[1] = Handler(kind, {e})
  BY <1>2a DEF WorkHandler
<1>4. Head(q).kind = kind /\ Head(q).elts = {e}
  BY <1>1, <1>3 DEF Handler
<1>5. WorkQueue(Tail(q))
  <2>1. ASSUME NEW i \in 1..Len(Tail(q)), NEW j \in 1..Len(Tail(q)),
               Tail(q)[i].elts = Tail(q)[j].elts
        PROVE  i = j
    <3>1. i + 1 \in 1..Len(q) /\ j + 1 \in 1..Len(q)
      BY <1>1
    <3>2. q[i + 1].elts = q[j + 1].elts
      BY <1>1, <2>1
    <3> QED  BY <3>1, <3>2 DEF WorkQueue
  <2> QED  BY <1>1, <2>1 DEF WorkQueue
<1>6. ASSUME NEW k, NEW x \in Elt
      PROVE  /\ x \in EltsIn(Tail(q), k) => x \in EltsIn(q, k) /\ x # e
             /\ x \in EltsIn(q, k) => x \in EltsIn(Tail(q), k) \/ (x = e /\ k = kind)
  <2>1. ASSUME NEW i \in 1..Len(Tail(q)), Tail(q)[i] = Handler(k, {x})
        PROVE  x \in EltsIn(q, k) /\ x # e
    <3>1. i + 1 \in 1..Len(q) /\ q[i + 1] = Handler(k, {x}) /\ i + 1 # 1
      BY <1>1, <2>1
    <3>2. x = e => q[i + 1].elts = q[1].elts
      BY <1>3, <3>1 DEF Handler
    <3> QED  BY <1>1, <3>1, <3>2 DEF EltsIn, WorkQueue
  <2>2. ASSUME NEW i \in 1..Len(q), q[i] = Handler(k, {x})
        PROVE  x \in EltsIn(Tail(q), k) \/ (x = e /\ k = kind)
    <3>1. CASE i = 1
      BY <1>3, <2>2, <3>1 DEF Handler
    <3>2. CASE i # 1
      <4>1. i - 1 \in 1..Len(Tail(q)) /\ Tail(q)[i - 1] = q[i]
        BY <1>1, <3>2
      <4> QED  BY <2>2, <4>1 DEF EltsIn
    <3> QED  BY <3>1, <3>2
  <2> QED  BY <2>1, <2>2 DEF EltsIn
<1>7. e \in EltsIn(q, kind)
  BY <1>1, <1>3 DEF EltsIn
<1>8. ASSUME NEW k, k # kind
      PROVE  e \notin EltsIn(q, k)
  <2>1. ASSUME NEW i \in 1..Len(q), q[i] = Handler(k, {e})
        PROVE  FALSE
    <3>1. q[i].elts = q[1].elts
      BY <1>3, <2>1 DEF Handler
    <3>2. i = 1
      BY <1>1, <3>1 DEF WorkQueue
    <3> QED  BY <1>3, <1>8, <2>1, <3>2 DEF Handler
  <2> QED  BY <2>1 DEF EltsIn
<1>9. EltsIn(Tail(q), kind) = EltsIn(q, kind) \ {e}
  BY <1>6 DEF EltsIn
<1>10. \A k : k # kind => EltsIn(Tail(q), k) = EltsIn(q, k)
  <2> TAKE k
  <2> HAVE k # kind
  <2> QED  BY <1>6 DEF EltsIn
<1> QED  BY <1>1, <1>3, <1>4, <1>5, <1>7, <1>8, <1>9, <1>10

\* Two queues about different elements, one after the other.
LEMMA AppendQueue ==
  ASSUME NEW q, NEW p, WorkQueue(q), WorkQueue(p),
         \A i \in 1..Len(q), j \in 1..Len(p) : q[i].elts # p[j].elts
  PROVE  /\ WorkQueue(q \o p)
         /\ \A kind : EltsIn(q \o p, kind) = EltsIn(q, kind) \cup EltsIn(p, kind)
<1> DEFINE r == q \o p
<1>1. /\ q \in Seq(WorkHandler) /\ p \in Seq(WorkHandler)
      /\ Len(q) \in Nat /\ Len(p) \in Nat
  BY DEF WorkQueue
<1>2. /\ r \in Seq(WorkHandler) /\ Len(r) = Len(q) + Len(p)
      /\ \A i \in 1..Len(q) : r[i] = q[i]
      /\ \A i \in 1..Len(p) : r[Len(q) + i] = p[i]
  BY <1>1
<1>3. ASSUME NEW i \in 1..Len(r)
      PROVE  \/ i \in 1..Len(q) /\ r[i] = q[i]
             \/ i - Len(q) \in 1..Len(p) /\ r[i] = p[i - Len(q)]
  <2>1. CASE i <= Len(q)
    BY <1>1, <1>2, <2>1
  <2>2. CASE i > Len(q)
    <3> DEFINE j == i - Len(q)
    <3>1. j \in 1..Len(p) /\ Len(q) + j = i
      BY <1>1, <1>2, <2>2
    <3>2. r[Len(q) + j] = p[j]
      BY <1>2, <3>1
    <3> QED  BY <3>1, <3>2
  <2> QED  BY <1>1, <1>2, <2>1, <2>2
<1>4. ASSUME NEW i \in 1..Len(r), NEW j \in 1..Len(r), r[i].elts = r[j].elts
      PROVE  i = j
  <2>1. CASE i \in 1..Len(q) /\ r[i] = q[i] /\ j \in 1..Len(q) /\ r[j] = q[j]
    BY <1>4, <2>1 DEF WorkQueue
  <2>2. CASE i \in 1..Len(q) /\ r[i] = q[i] /\ j - Len(q) \in 1..Len(p) /\ r[j] = p[j - Len(q)]
    BY <1>4, <2>2
  <2>3. CASE i - Len(q) \in 1..Len(p) /\ r[i] = p[i - Len(q)] /\ j \in 1..Len(q) /\ r[j] = q[j]
    BY <1>4, <2>3
  <2>4. CASE /\ i - Len(q) \in 1..Len(p) /\ r[i] = p[i - Len(q)]
             /\ j - Len(q) \in 1..Len(p) /\ r[j] = p[j - Len(q)]
    <3>1. i - Len(q) = j - Len(q)
      BY <1>4, <2>4 DEF WorkQueue
    <3> QED  BY <1>1, <1>2, <3>1
  <2> QED  BY <1>3, <2>1, <2>2, <2>3, <2>4
<1>5. ASSUME NEW k, NEW e \in Elt
      PROVE  e \in EltsIn(r, k) <=> e \in EltsIn(q, k) \/ e \in EltsIn(p, k)
  <2>1. ASSUME NEW i \in 1..Len(r), r[i] = Handler(k, {e})
        PROVE  e \in EltsIn(q, k) \/ e \in EltsIn(p, k)
    BY <1>3, <2>1 DEF EltsIn
  <2>2. ASSUME NEW i \in 1..Len(q), q[i] = Handler(k, {e})
        PROVE  e \in EltsIn(r, k)
    <3>1. i \in 1..Len(r) /\ r[i] = Handler(k, {e})
      BY <1>1, <1>2, <2>2
    <3> QED  BY <3>1 DEF EltsIn
  <2>3. ASSUME NEW i \in 1..Len(p), p[i] = Handler(k, {e})
        PROVE  e \in EltsIn(r, k)
    <3>1. Len(q) + i \in 1..Len(r) /\ r[Len(q) + i] = Handler(k, {e})
      BY <1>1, <1>2, <2>3
    <3> QED  BY <3>1 DEF EltsIn
  <2> QED  BY <2>1, <2>2, <2>3 DEF EltsIn
<1>6. \A k : EltsIn(r, k) = EltsIn(q, k) \cup EltsIn(p, k)
  <2> TAKE k
  <2>1. EltsIn(r, k) \subseteq Elt /\ EltsIn(q, k) \subseteq Elt /\ EltsIn(p, k) \subseteq Elt
    BY DEF EltsIn
  <2> QED  BY <1>5, <2>1
<1> QED  BY <1>2, <1>4, <1>6 DEF WorkQueue

\* Whose handlers are about different elements.
LEMMA ApartQueues ==
  ASSUME NEW q, NEW p, WorkQueue(q), WorkQueue(p),
         \A e \in Elt : ~(/\ e \in EltsIn(q, "coroutine") \cup EltsIn(q, "spawn")
                          /\ e \in EltsIn(p, "coroutine") \cup EltsIn(p, "spawn"))
  PROVE  \A i \in 1..Len(q), j \in 1..Len(p) : q[i].elts # p[j].elts
<1> SUFFICES ASSUME NEW i \in 1..Len(q), NEW j \in 1..Len(p), q[i].elts = p[j].elts
             PROVE  FALSE
  OBVIOUS
<1>1. q[i] \in WorkHandler /\ p[j] \in WorkHandler
  BY DEF WorkQueue
<1>2. PICK k \in {"coroutine", "spawn"}, e \in Elt : q[i] = Handler(k, {e})
  BY <1>1 DEF WorkHandler
<1>3. PICK l \in {"coroutine", "spawn"}, f \in Elt : p[j] = Handler(l, {f})
  BY <1>1 DEF WorkHandler
<1>4. {e} = {f}
  BY <1>2, <1>3 DEF Handler
<1>5. e \in EltsIn(q, k) /\ e \in EltsIn(p, l)
  BY <1>2, <1>3, <1>4 DEF EltsIn
<1> QED  BY <1>5

\* A queue with nothing for any element is empty.
LEMMA EmptyQueue ==
  ASSUME NEW q, WorkQueue(q), EltsIn(q, "coroutine") \cup EltsIn(q, "spawn") = {}
  PROVE  q = <<>>
<1> SUFFICES ASSUME q # <<>> PROVE FALSE
  OBVIOUS
<1>1. q \in Seq(WorkHandler) /\ 1 \in 1..Len(q)
  BY DEF WorkQueue
<1>2. q[1] \in WorkHandler
  BY <1>1
<1>3. PICK k \in {"coroutine", "spawn"}, e \in Elt : q[1] = Handler(k, {e})
  BY <1>2 DEF WorkHandler
<1>4. e \in EltsIn(q, k)
  BY <1>1, <1>3 DEF EltsIn
<1> QED  BY <1>4

\* What is posted for an element.
LEMMA HandlerType ==
  ASSUME NEW e \in Elt, NEW kind \in {"coroutine", "spawn"}
  PROVE  /\ Handler(kind, {e}) \in [kind : HandlerKind, elts : SUBSET Elt]
         /\ Handler(kind, {e}) \in WorkHandler
<1>1. {e} \in SUBSET Elt /\ kind \in HandlerKind
  BY DEF HandlerKind
<1>2. [kind |-> kind, elts |-> {e}] \in [kind : HandlerKind, elts : SUBSET Elt]
  BY <1>1
<1>3. Handler(kind, {e}) \in {Handler(kind, {x}) : x \in Elt}
  OBVIOUS
<1> QED  BY <1>2, <1>3 DEF WorkHandler, Handler

\* Sets of elements are finite; sets that share nothing add up.
LEMMA DisjointSizes ==
  ASSUME NEW A \in SUBSET Elt, NEW B \in SUBSET Elt, A \cap B = {}
  PROVE  /\ IsFiniteSet(A) /\ IsFiniteSet(B)
         /\ Cardinality(A) \in Nat /\ Cardinality(B) \in Nat
         /\ Cardinality(A \cup B) = Cardinality(A) + Cardinality(B)
<1>1. IsFiniteSet(A) /\ IsFiniteSet(B)
  BY ClosureAssumption, FS_Subset
<1>2. Cardinality(A \cup B) = Cardinality(A) + Cardinality(B) - Cardinality(A \cap B)
  BY <1>1, FS_Union
<1>3. Cardinality(A) \in Nat /\ Cardinality(B) \in Nat
  BY <1>1, FS_CardinalityType
<1>4. Cardinality(A \cap B) = 0
  BY FS_EmptySet
<1> QED  BY <1>1, <1>2, <1>3, <1>4

\* Nothing is in the empty list.
LEMMA EmptyList == ItemsOf(<<>>) = {} /\ NoneTwice(<<>>)
  BY DEF ItemsOf, FirstOf, NoneTwice

\* Elements put at the end of a list that has none of them.
LEMMA ListGrows ==
  ASSUME NEW t \in Seq(Elt), NEW u \in Seq(Elt), NoneTwice(t), NoneTwice(u),
         ItemsOf(t) \cap ItemsOf(u) = {}, NEW r, r = t \o u
  PROVE  r \in Seq(Elt) /\ NoneTwice(r) /\ ItemsOf(r) = ItemsOf(t) \cup ItemsOf(u)
<1>1. /\ Len(t) \in Nat /\ Len(u) \in Nat /\ r \in Seq(Elt) /\ Len(r) = Len(t) + Len(u)
      /\ \A i \in 1..Len(t) : r[i] = t[i]
      /\ \A i \in 1..Len(u) : r[Len(t) + i] = u[i]
  OBVIOUS
<1>2. ASSUME NEW i \in 1..Len(r)
      PROVE  \/ i \in 1..Len(t) /\ r[i] = t[i]
             \/ i - Len(t) \in 1..Len(u) /\ r[i] = u[i - Len(t)]
  <2>1. CASE i <= Len(t)
    BY <1>1, <2>1
  <2>2. CASE i > Len(t)
    <3> DEFINE j == i - Len(t)
    <3>1. j \in 1..Len(u) /\ Len(t) + j = i
      BY <1>1, <2>2
    <3>2. r[Len(t) + j] = u[j]
      BY <1>1, <3>1
    <3> QED  BY <3>1, <3>2
  <2> QED  BY <1>1, <2>1, <2>2
<1>3. ASSUME NEW i \in 1..Len(r), NEW j \in 1..Len(r), r[i] = r[j]
      PROVE  i = j
  <2>1. CASE i \in 1..Len(t) /\ r[i] = t[i] /\ j \in 1..Len(t) /\ r[j] = t[j]
    BY <1>3, <2>1 DEF NoneTwice
  <2>2. CASE i \in 1..Len(t) /\ r[i] = t[i] /\ j - Len(t) \in 1..Len(u) /\ r[j] = u[j - Len(t)]
    <3>1. r[i] \in ItemsOf(t) /\ r[j] \in ItemsOf(u)
      BY <2>2 DEF ItemsOf, FirstOf
    <3> QED  BY <1>3, <3>1
  <2>3. CASE i - Len(t) \in 1..Len(u) /\ r[i] = u[i - Len(t)] /\ j \in 1..Len(t) /\ r[j] = t[j]
    <3>1. r[j] \in ItemsOf(t) /\ r[i] \in ItemsOf(u)
      BY <2>3 DEF ItemsOf, FirstOf
    <3> QED  BY <1>3, <3>1
  <2>4. CASE /\ i - Len(t) \in 1..Len(u) /\ r[i] = u[i - Len(t)]
             /\ j - Len(t) \in 1..Len(u) /\ r[j] = u[j - Len(t)]
    <3>1. i - Len(t) = j - Len(t)
      BY <1>3, <2>4 DEF NoneTwice
    <3> QED  BY <1>1, <3>1
  <2> QED  BY <1>2, <2>1, <2>2, <2>3, <2>4
<1>4. ASSUME NEW x \in ItemsOf(r) PROVE x \in ItemsOf(t) \cup ItemsOf(u)
  <2>1. PICK i \in 1..Len(r) : x = r[i]
    BY DEF ItemsOf, FirstOf
  <2> QED  BY <1>2, <2>1 DEF ItemsOf, FirstOf
<1>5. ASSUME NEW x \in ItemsOf(t) PROVE x \in ItemsOf(r)
  <2>1. PICK i \in 1..Len(t) : x = t[i]
    BY DEF ItemsOf, FirstOf
  <2>2. i \in 1..Len(r) /\ r[i] = x
    BY <1>1, <2>1
  <2> QED  BY <2>2 DEF ItemsOf, FirstOf
<1>6. ASSUME NEW x \in ItemsOf(u) PROVE x \in ItemsOf(r)
  <2>1. PICK i \in 1..Len(u) : x = u[i]
    BY DEF ItemsOf, FirstOf
  <2>2. Len(t) + i \in 1..Len(r) /\ r[Len(t) + i] = x
    BY <1>1, <2>1
  <2> QED  BY <2>2 DEF ItemsOf, FirstOf
<1>7. NoneTwice(r)
  BY <1>3 DEF NoneTwice
<1> QED  BY <1>1, <1>4, <1>5, <1>6, <1>7

\* The rest of a list after its first n places.
LEMMA ListRest ==
  ASSUME NEW f \in Seq(Elt), NoneTwice(f), NEW n \in 0..Len(f),
         NEW A, A = FirstOf(f, n), NEW u, u = SubSeq(f, n + 1, Len(f))
  PROVE  u \in Seq(Elt) /\ NoneTwice(u) /\ ItemsOf(u) = ItemsOf(f) \ A
<1>1. Len(f) \in Nat /\ n \in Nat /\ n <= Len(f)
  OBVIOUS
<1>2. /\ u \in Seq(Elt) /\ Len(u) = Len(f) - n
      /\ \A i \in 1..Len(u) : u[i] = f[n + i]
  BY <1>1
<1>3. ASSUME NEW i \in 1..Len(u), NEW j \in 1..Len(u), u[i] = u[j] PROVE i = j
  <2>1. n + i \in 1..Len(f) /\ n + j \in 1..Len(f) /\ f[n + i] = f[n + j]
    BY <1>1, <1>2, <1>3
  <2>2. n + i = n + j
    BY <2>1 DEF NoneTwice
  <2> QED  BY <1>1, <1>2, <2>2
<1>4. ASSUME NEW x \in ItemsOf(u) PROVE x \in ItemsOf(f) /\ x \notin A
  <2>1. PICK i \in 1..Len(u) : x = u[i]
    BY DEF ItemsOf, FirstOf
  <2>2. n + i \in 1..Len(f) /\ x = f[n + i]
    BY <1>1, <1>2, <2>1
  <2>3. ASSUME NEW j \in 1..n PROVE x # f[j]
    <3>1. j \in 1..Len(f) /\ n + i # j
      BY <1>1, <2>2
    <3> QED  BY <2>2, <3>1 DEF NoneTwice
  <2> QED  BY <2>2, <2>3 DEF ItemsOf, FirstOf
<1>5. ASSUME NEW x \in ItemsOf(f) \ A PROVE x \in ItemsOf(u)
  <2>1. PICK k \in 1..Len(f) : x = f[k]
    BY DEF ItemsOf, FirstOf
  <2>2. k > n
    BY <1>1, <2>1 DEF FirstOf
  <2>3. k - n \in 1..Len(u) /\ u[k - n] = f[n + (k - n)] /\ n + (k - n) = k
    BY <1>1, <1>2, <2>2
  <2> QED  BY <2>1, <2>3 DEF ItemsOf, FirstOf
<1>6. NoneTwice(u)
  BY <1>3 DEF NoneTwice
<1> QED  BY <1>2, <1>4, <1>5, <1>6

\* enqueue() counts what it enters: a worker or a place in the list for each.
LEMMA EnqueueCounted ==
  ASSUME NEW s, NEW q, NEW aw, NEW elts \in SUBSET Elt,
         Counted(s, q, aw), ~s.error, s.posts = <<>>, Unfinished(s, q, aw) \subseteq s.res
  PROVE  LET r == enqueue(s, elts)
         IN /\ Counted(r, q \o r.posts, aw)
            /\ Unfinished(r, q \o r.posts, aw) = Unfinished(s, q, aw) \cup (elts \ s.res)
            /\ r.res = s.res \cup elts /\ r.error = s.error
<1> DEFINE F == elts \ s.res
           f == SetToSeq(F)
           m == Len(f)
           n == Room(s, m)
           p == [i \in 1..n |-> Handler("coroutine", {f[i]})]
           u == SubSeq(f, n + 1, m)
           A == FirstOf(f, n)
           r == enqueue(s, elts)
<1>1. /\ s \in StrandType /\ WorkQueue(q) /\ aw \in SUBSET Elt
      /\ s.res \in SUBSET Elt /\ s.todo \in Seq(Elt) /\ s.pending \in Nat /\ s.inFlight \in Nat
      /\ s.error \in BOOLEAN
      /\ NoneTwice(s.todo)
  BY DEF Counted, CountedCore, StrandType
<1>2. F \in SUBSET Elt /\ IsFiniteSet(F)
  BY ClosureAssumption, FS_Subset
<1> HIDE DEF F
<1>3. /\ f \in Seq(F) /\ m = Cardinality(F) /\ m \in Nat
      /\ \A i, j \in 1..m : f[i] = f[j] => i = j
      /\ \A x \in F : \E i \in 1..m : f[i] = x
  <2>1. /\ f \in Seq(F) /\ Len(f) = Cardinality(F) /\ Cardinality(F) \in Nat
        /\ \A i, j \in 1..Cardinality(F) : f[i] = f[j] => i = j
        /\ \A x \in F : \E i \in 1..Cardinality(F) : f[i] = x
    BY <1>2, SeqOfSet
  <2> HIDE DEF f
  <2> QED  BY <2>1
<1> HIDE DEF f
<1>4. f \in Seq(Elt)
  BY <1>2, <1>3
<1>5. ItemsOf(f) = F
  <2>1. \A i \in 1..m : f[i] \in F
    BY <1>3
  <2> QED  BY <1>3, <2>1 DEF ItemsOf, FirstOf
<1>6. n \in 0..m /\ n \in Nat /\ (m > 0 => n > 0 \/ s.inFlight > 0)
  BY <1>1, <1>3, ClosureAssumption DEF Room
<1> HIDE DEF n
<1>7. IsFiniteSet(A) /\ Cardinality(A) = n
  <2>1. n \in 0..Len(f) /\ NoneTwice(f)
    BY <1>3, <1>6 DEF NoneTwice
  <2> HIDE DEF A
  <2>2. A = FirstOf(f, n)
    BY DEF A
  <2> QED  BY <1>4, <2>1, <2>2, PartCardinality
<1>8. /\ u \in Seq(Elt) /\ NoneTwice(u)
      /\ ItemsOf(u) = F \ A
  <2>1. n \in 0..Len(f) /\ NoneTwice(f)
    BY <1>3, <1>6 DEF NoneTwice
  <2>2. A = FirstOf(f, n) /\ u = SubSeq(f, n + 1, Len(f))
    OBVIOUS
  <2> HIDE DEF u, A
  <2>3. u \in Seq(Elt) /\ NoneTwice(u) /\ ItemsOf(u) = ItemsOf(f) \ A
    BY <1>4, <2>1, <2>2, ListRest
  <2> QED  BY <1>5, <2>3
<1>9. A \subseteq F
  BY <1>3, <1>6 DEF FirstOf
<1> HIDE DEF u
<1>10. r = [s EXCEPT !.res = @ \cup elts, !.pending = @ + m, !.inFlight = @ + n,
                     !.todo = @ \o u, !.posts = @ \o p]
  BY DEF enqueue, n, f, u, F
<1>11. /\ p \in Seq([kind : HandlerKind, elts : SUBSET Elt]) /\ Len(p) = n
       /\ p \in Seq(WorkHandler)
  <2>1. \A i \in 1..n : f[i] \in Elt
    BY <1>3, <1>4, <1>6
  <2>2. ASSUME NEW i \in 1..n
        PROVE  /\ Handler("coroutine", {f[i]}) \in [kind : HandlerKind, elts : SUBSET Elt]
               /\ Handler("coroutine", {f[i]}) \in WorkHandler
    <3>1. f[i] \in Elt
      BY <2>1
    <3> QED  BY <3>1, HandlerType
  <2>3. ASSUME NEW S, \A i \in 1..n : Handler("coroutine", {f[i]}) \in S
        PROVE  p \in Seq(S) /\ Len(p) = n
    <3>1. p \in [1..n -> S]
      BY <2>3
    <3> HIDE DEF p
    <3> QED  BY <1>6, <3>1
  <2> QED  BY <2>2, <2>3
<1>12. /\ r.res = s.res \cup elts /\ r.pending = s.pending + m /\ r.inFlight = s.inFlight + n
       /\ r.todo = s.todo \o u /\ r.posts = p /\ r.error = s.error
  BY <1>1, <1>10, <1>11 DEF StrandType
<1>13. r \in StrandType
  <2>1. s.todo \o u \in Seq(Elt) /\ s.res \cup elts \in SUBSET Elt
    BY <1>1, <1>8
  <2>2. s.pending + m \in Nat /\ s.inFlight + n \in Nat
    BY <1>1, <1>3, <1>6
  <2>3. <<>> \o p = p
    BY <1>11
  <2> HIDE DEF p
  <2>4. r.posts \in Seq([kind : HandlerKind, elts : SUBSET Elt])
    BY <1>11, <1>12
  <2>5. r = [res |-> r.res, todo |-> r.todo, pending |-> r.pending, inFlight |-> r.inFlight,
             error |-> r.error, posts |-> r.posts]
    BY <1>1, <1>10 DEF StrandType
  <2> HIDE DEF r
  <2>6. /\ r.res \in SUBSET Elt /\ r.todo \in Seq(Elt) /\ r.pending \in Nat
        /\ r.inFlight \in Nat /\ r.error \in BOOLEAN
    BY <1>1, <1>12, <2>1, <2>2
  <2> QED  BY <2>4, <2>5, <2>6 DEF StrandType
<1> HIDE DEF r
<1>14. WorkQueue(p)
  <2>1. ASSUME NEW i \in 1..Len(p), NEW j \in 1..Len(p), p[i].elts = p[j].elts
        PROVE  i = j
    <3>1. i \in 1..m /\ j \in 1..m /\ i \in 1..n /\ j \in 1..n
      BY <1>3, <1>6, <1>11
    <3>2. p[i].elts = {f[i]} /\ p[j].elts = {f[j]}
      BY <3>1 DEF Handler
    <3>3. f[i] = f[j]
      BY <2>1, <3>2
    <3> QED  BY <1>3, <3>1, <3>3
  <2> QED  BY <1>11, <2>1 DEF WorkQueue
<1>15. EltsIn(p, "coroutine") = A /\ EltsIn(p, "spawn") = {}
  <2>1. ASSUME NEW i \in 1..n, NEW kind, NEW e \in Elt
        PROVE  p[i] = Handler(kind, {e}) <=> kind = "coroutine" /\ e = f[i]
    BY DEF Handler
  <2>2. A \subseteq Elt
    BY <1>2, <1>9
  <2> HIDE DEF p
  <2>3. Len(p) = n
    BY <1>11
  <2>4. EltsIn(p, "spawn") = {}
    BY <2>1, <2>3 DEF EltsIn
  <2>5. ASSUME NEW e \in Elt PROVE e \in EltsIn(p, "coroutine") <=> e \in A
    BY <2>1, <2>3 DEF EltsIn, FirstOf
  <2> QED  BY <2>2, <2>4, <2>5 DEF EltsIn
<1> HIDE DEF p, A
<1>16. F \cap Unfinished(s, q, aw) = {}
  BY DEF F
<1>17. /\ WorkQueue(q \o p)
       /\ EltsIn(q \o p, "coroutine") = EltsIn(q, "coroutine") \cup A
       /\ EltsIn(q \o p, "spawn") = EltsIn(q, "spawn")
  <2>1. \A i \in 1..Len(q), j \in 1..Len(p) : q[i].elts # p[j].elts
    BY <1>1, <1>9, <1>14, <1>15, <1>16, ApartQueues DEF Unfinished, Flying
  <2>2. /\ WorkQueue(q \o p)
        /\ \A kind : EltsIn(q \o p, kind) = EltsIn(q, kind) \cup EltsIn(p, kind)
    BY <1>1, <1>14, <2>1, AppendQueue
  <2> QED  BY <1>15, <2>2
<1>18. Flying(q \o p, aw) = Flying(q, aw) \cup A
  BY <1>17 DEF Flying
<1>19. /\ Waiting(r) = Waiting(s) \cup (F \ A)
       /\ NoneTwice(r.todo)
  <2>1. Waiting(s) \cap (F \ A) = {}
    BY <1>16 DEF Unfinished
  <2>2. ItemsOf(s.todo) \cap ItemsOf(u) = {}
    BY <1>8, <2>1 DEF Waiting
  <2>3. NoneTwice(r.todo) /\ ItemsOf(r.todo) = ItemsOf(s.todo) \cup ItemsOf(u)
    BY <1>1, <1>8, <1>12, <2>2, ListGrows
  <2> QED  BY <1>8, <2>3 DEF Waiting
<1>20. Unfinished(r, q \o p, aw) = Unfinished(s, q, aw) \cup F
  BY <1>9, <1>17, <1>18, <1>19 DEF Unfinished
<1>21. /\ Flying(q, aw) \in SUBSET Elt /\ Unfinished(s, q, aw) \in SUBSET Elt /\ A \in SUBSET Elt
       /\ Flying(q, aw) \cap A = {}
  BY <1>1, <1>2, <1>9, <1>16 DEF Unfinished, Flying, EltsIn, Waiting, ItemsOf, FirstOf
<1>22. r.inFlight = Cardinality(Flying(q \o p, aw))
  BY <1>7, <1>12, <1>18, <1>21, DisjointSizes DEF Counted, CountedCore
<1>23. r.pending = Cardinality(Unfinished(r, q \o p, aw))
  BY <1>2, <1>3, <1>12, <1>16, <1>20, <1>21, DisjointSizes DEF Counted, CountedCore
<1>24. /\ EltsIn(q \o p, "coroutine") \cap aw = {} /\ EltsIn(q \o p, "spawn") \cap aw = {}
       /\ Waiting(r) \cap (Flying(q \o p, aw) \cup EltsIn(q \o p, "spawn")) = {}
  <2>1. /\ EltsIn(q, "coroutine") \cap aw = {} /\ EltsIn(q, "spawn") \cap aw = {}
        /\ Waiting(s) \cap (Flying(q, aw) \cup EltsIn(q, "spawn")) = {}
    BY DEF Counted, CountedCore
  <2>2. A \cap aw = {}
    BY <1>21 DEF Flying
  <2>3. /\ A \cap Waiting(s) = {}
        /\ (F \ A) \cap (Flying(q, aw) \cup EltsIn(q, "spawn")) = {}
    BY <1>9, <1>16 DEF Unfinished
  <2> QED  BY <1>17, <1>18, <1>19, <2>1, <2>2, <2>3
<1>25. CountedCore(r, q \o p, aw)
  BY <1>1, <1>13, <1>17, <1>19, <1>22, <1>23, <1>24 DEF CountedCore
<1>26. Waiting(r) # {} => Flying(q \o p, aw) \cup EltsIn(q \o p, "spawn") # {}
  <2>1. CASE F = {}
    BY <1>9, <1>17, <1>18, <1>19, <2>1 DEF Counted
  <2>2. CASE F # {}
    <3>1. m > 0
      BY <1>2, <1>3, <2>2, FS_EmptySet
    <3>2. n > 0 => A # {}
      BY <1>6 DEF A, FirstOf
    <3>3. s.inFlight > 0 => Flying(q, aw) # {}
      <4>1. s.inFlight = Cardinality(Flying(q, aw))
        BY DEF Counted, CountedCore
      <4>2. Cardinality({}) = 0
        BY FS_EmptySet
      <4>3. CASE Flying(q, aw) = {}
        BY <4>1, <4>2, <4>3
      <4> QED  BY <4>3
    <3> QED  BY <1>6, <1>18, <3>1, <3>2, <3>3
  <2> QED  BY <2>1, <2>2
<1>27. Counted(r, q \o p, aw)
  BY <1>12, <1>25, <1>26 DEF Counted
<1> QED  BY <1>12, <1>20, <1>27 DEF r, F

\* The sets the counters count.
LEMMA PlacesType ==
  ASSUME NEW s, NEW q, NEW aw, CountedCore(s, q, aw)
  PROVE  /\ s.res \in SUBSET Elt /\ s.todo \in Seq(Elt) /\ s.pending \in Nat /\ s.inFlight \in Nat
         /\ s.error \in BOOLEAN /\ s.posts \in Seq([kind : HandlerKind, elts : SUBSET Elt])
         /\ Waiting(s) \in SUBSET Elt /\ Flying(q, aw) \in SUBSET Elt
         /\ EltsIn(q, "spawn") \in SUBSET Elt /\ Unfinished(s, q, aw) \in SUBSET Elt
         /\ IsFiniteSet(Flying(q, aw)) /\ IsFiniteSet(Unfinished(s, q, aw))
<1>1. /\ s.res \in SUBSET Elt /\ s.todo \in Seq(Elt) /\ s.pending \in Nat /\ s.inFlight \in Nat
      /\ s.error \in BOOLEAN /\ s.posts \in Seq([kind : HandlerKind, elts : SUBSET Elt])
  BY DEF CountedCore, StrandType
<1>2. /\ Waiting(s) \in SUBSET Elt /\ Flying(q, aw) \in SUBSET Elt
      /\ EltsIn(q, "spawn") \in SUBSET Elt
  BY <1>1 DEF CountedCore, Waiting, ItemsOf, FirstOf, Flying, EltsIn
<1>3. Unfinished(s, q, aw) \in SUBSET Elt
  BY <1>2 DEF Unfinished
<1> QED  BY <1>1, <1>2, <1>3, ClosureAssumption, FS_Subset

\* The first thing onWorkDone() does.
OneDone(s) == [s EXCEPT !.inFlight = @ - 1, !.pending = @ - 1]

\* The coroutine that was answered leaves both counters.
LEMMA AnswerTaken ==
  ASSUME NEW s, NEW q, NEW aw, NEW e \in aw, CountedCore(s, q, aw),
         NEW t, t = OneDone(s)
  PROVE  /\ CountedCore(t, q, aw \ {e})
         /\ t.todo = s.todo /\ t.res = s.res /\ t.error = s.error /\ t.posts = s.posts
         /\ Waiting(t) = Waiting(s)
<1>1. /\ s \in StrandType /\ WorkQueue(q) /\ aw \subseteq Elt
      /\ EltsIn(q, "coroutine") \cap aw = {} /\ EltsIn(q, "spawn") \cap aw = {}
      /\ Waiting(s) \cap (Flying(q, aw) \cup EltsIn(q, "spawn")) = {}
      /\ s.inFlight = Cardinality(Flying(q, aw))
      /\ s.pending = Cardinality(Unfinished(s, q, aw))
  BY DEF CountedCore
<1>2. /\ Flying(q, aw \ {e}) = Flying(q, aw) \ {e} /\ e \in Flying(q, aw)
  BY <1>1 DEF Flying
<1>3. /\ t.todo = s.todo /\ t.res = s.res /\ t.error = s.error /\ t.posts = s.posts
      /\ t.inFlight = s.inFlight - 1 /\ t.pending = s.pending - 1
  BY <1>1 DEF StrandType, OneDone
<1>4. Waiting(t) = Waiting(s)
  BY <1>3 DEF Waiting
<1>5. /\ Unfinished(t, q, aw \ {e}) = Unfinished(s, q, aw) \ {e} /\ e \in Unfinished(s, q, aw)
  BY <1>1, <1>2, <1>4 DEF Unfinished
<1>6. /\ Cardinality(Flying(q, aw) \ {e}) = s.inFlight - 1
      /\ Cardinality(Unfinished(s, q, aw) \ {e}) = s.pending - 1
  <2>1. IsFiniteSet(Flying(q, aw)) /\ IsFiniteSet(Unfinished(s, q, aw))
    BY PlacesType
  <2>2. /\ Cardinality(Flying(q, aw) \ {e}) = Cardinality(Flying(q, aw)) - 1
        /\ Cardinality(Unfinished(s, q, aw) \ {e}) = Cardinality(Unfinished(s, q, aw)) - 1
    BY <1>2, <1>5, <2>1, FS_RemoveElement
  <2> QED  BY <1>1, <2>2
<1>7. IsFiniteSet(Flying(q, aw) \ {e}) /\ IsFiniteSet(Unfinished(s, q, aw) \ {e})
  BY PlacesType, FS_RemoveElement
<1>8. t.inFlight \in Nat /\ t.pending \in Nat
  BY <1>3, <1>6, <1>7, FS_CardinalityType
<1>9. t \in StrandType
  BY <1>1, <1>3, <1>8 DEF StrandType, OneDone
<1>10. CountedCore(t, q, aw \ {e})
  <2>1. NoneTwice(t.todo)
    BY <1>3 DEF CountedCore
  <2>2. Waiting(t) \cap (Flying(q, aw \ {e}) \cup EltsIn(q, "spawn")) = {}
    BY <1>1, <1>2, <1>4
  <2>3. /\ t.inFlight = Cardinality(Flying(q, aw \ {e}))
        /\ t.pending = Cardinality(Unfinished(t, q, aw \ {e}))
    BY <1>2, <1>3, <1>5, <1>6
  <2>4. /\ aw \ {e} \subseteq Elt
        /\ EltsIn(q, "coroutine") \cap (aw \ {e}) = {} /\ EltsIn(q, "spawn") \cap (aw \ {e}) = {}
    BY <1>1
  <2> QED  BY <1>1, <1>9, <2>1, <2>2, <2>3, <2>4 DEF CountedCore
<1> QED  BY <1>3, <1>4, <1>10

\* The first of a list that has nothing twice, and the others.
LEMMA ListTail ==
  ASSUME NEW t \in Seq(Elt), NoneTwice(t), t # <<>>
  PROVE  /\ Head(t) \in Elt /\ Tail(t) \in Seq(Elt) /\ NoneTwice(Tail(t))
         /\ Head(t) \in ItemsOf(t) /\ ItemsOf(Tail(t)) = ItemsOf(t) \ {Head(t)}
<1>1. /\ Len(t) \in Nat /\ Len(t) > 0 /\ Head(t) = t[1] /\ 1 \in 1..Len(t)
      /\ Tail(t) \in Seq(Elt) /\ Len(Tail(t)) = Len(t) - 1
      /\ \A i \in 1..Len(Tail(t)) : Tail(t)[i] = t[i + 1] /\ i + 1 \in 1..Len(t) /\ i + 1 # 1
  OBVIOUS
<1>2. ASSUME NEW i \in 1..Len(Tail(t)), NEW j \in 1..Len(Tail(t)), Tail(t)[i] = Tail(t)[j]
      PROVE  i = j
  <2>1. i + 1 = j + 1
    BY <1>1, <1>2 DEF NoneTwice
  <2> QED  BY <1>1, <2>1
<1>3. ASSUME NEW x \in ItemsOf(Tail(t)) PROVE x \in ItemsOf(t) /\ x # Head(t)
  <2>1. PICK i \in 1..Len(Tail(t)) : x = Tail(t)[i]
    BY DEF ItemsOf, FirstOf
  <2>2. i + 1 \in 1..Len(t) /\ x = t[i + 1] /\ i + 1 # 1
    BY <1>1, <2>1
  <2> QED  BY <1>1, <2>2 DEF ItemsOf, FirstOf, NoneTwice
<1>4. ASSUME NEW x \in ItemsOf(t), x # Head(t) PROVE x \in ItemsOf(Tail(t))
  <2>1. PICK k \in 1..Len(t) : x = t[k]
    BY DEF ItemsOf, FirstOf
  <2>2. k - 1 \in 1..Len(Tail(t)) /\ Tail(t)[k - 1] = x
    BY <1>1, <1>4, <2>1
  <2> QED  BY <2>2 DEF ItemsOf, FirstOf
<1>5. NoneTwice(Tail(t))
  BY <1>2 DEF NoneTwice
<1>6. Head(t) \in Elt /\ Head(t) \in ItemsOf(t)
  BY <1>1 DEF ItemsOf, FirstOf
<1> QED  BY <1>1, <1>3, <1>4, <1>5, <1>6

\* The first of the elements that wait gets its handler: still one place each.
LEMMA NextSpawned ==
  ASSUME NEW s, NEW q, NEW aw, CountedCore(s, q, aw), s.todo # <<>>
  PROVE  LET t == Posting([s EXCEPT !.todo = Tail(@)], "spawn", Head(s.todo))
             p == Append(q, Handler("spawn", {Head(s.todo)}))
         IN /\ CountedCore(t, p, aw)
            /\ Unfinished(t, p, aw) = Unfinished(s, q, aw)
            /\ EltsIn(p, "spawn") # {}
            /\ t.res = s.res /\ t.error = s.error
            /\ t.posts = Append(s.posts, Handler("spawn", {Head(s.todo)}))
<1> DEFINE x == Head(s.todo)
           t == Posting([s EXCEPT !.todo = Tail(@)], "spawn", x)
           h == <<Handler("spawn", {x})>>
           p == Append(q, Handler("spawn", {x}))
<1>1. /\ s \in StrandType /\ WorkQueue(q) /\ aw \subseteq Elt
      /\ EltsIn(q, "coroutine") \cap aw = {} /\ EltsIn(q, "spawn") \cap aw = {}
      /\ Waiting(s) \cap (Flying(q, aw) \cup EltsIn(q, "spawn")) = {}
      /\ s.inFlight = Cardinality(Flying(q, aw))
      /\ s.pending = Cardinality(Unfinished(s, q, aw))
      /\ NoneTwice(s.todo)
  BY DEF CountedCore
<1>2. /\ s.todo \in Seq(Elt) /\ s.posts \in Seq([kind : HandlerKind, elts : SUBSET Elt])
  BY PlacesType
<1>3. /\ x \in Elt /\ Tail(s.todo) \in Seq(Elt)
      /\ NoneTwice(Tail(s.todo))
      /\ x \in ItemsOf(s.todo)
      /\ ItemsOf(Tail(s.todo)) = ItemsOf(s.todo) \ {x}
  BY <1>1, <1>2, ListTail
<1>4. /\ t.res = s.res /\ t.error = s.error /\ t.todo = Tail(s.todo)
      /\ t.inFlight = s.inFlight /\ t.pending = s.pending
      /\ t.posts = Append(s.posts, Handler("spawn", {x}))
  BY <1>1 DEF StrandType, Posting
<1> HIDE DEF x
<1>5. /\ Handler("spawn", {x}) \in [kind : HandlerKind, elts : SUBSET Elt]
      /\ Handler("spawn", {x}) \in WorkHandler
  BY <1>3, HandlerType
<1>6. t \in StrandType
  <2> HIDE DEF t
  <2>1. t.posts \in Seq([kind : HandlerKind, elts : SUBSET Elt])
    <3>1. Append(s.posts, Handler("spawn", {x})) \in Seq([kind : HandlerKind, elts : SUBSET Elt])
      BY <1>2, <1>5, AppendProperties
    <3> QED  BY <1>4, <3>1
  <2>2. t = [s EXCEPT !.todo = Tail(s.todo), !.posts = t.posts]
    BY <1>1 DEF StrandType, Posting, t
  <2> QED  BY <1>1, <1>3, <2>1, <2>2 DEF StrandType
<1> HIDE DEF t
<1>7. /\ Waiting(t) = Waiting(s) \ {x} /\ x \in Waiting(s)
  <2>1. Waiting(t) = ItemsOf(Tail(s.todo))
    BY <1>4 DEF Waiting
  <2> QED  BY <1>3, <2>1 DEF Waiting
<1>8. WorkQueue(h) /\ EltsIn(h, "spawn") = {x} /\ EltsIn(h, "coroutine") = {}
  <2>1. Len(h) = 1 /\ h[1] = Handler("spawn", {x}) /\ h \in Seq(WorkHandler)
    BY <1>5
  <2> HIDE DEF h
  <2>2. 1..Len(h) = {1}
    BY <2>1
  <2>3. WorkQueue(h)
    BY <2>1, <2>2 DEF WorkQueue
  <2>4. ASSUME NEW e \in Elt, NEW kind
        PROVE  h[1] = Handler(kind, {e}) <=> e = x /\ kind = "spawn"
    <3>1. h[1].kind = "spawn" /\ h[1].elts = {x}
      BY <2>1 DEF Handler
    <3>2. Handler(kind, {e}).kind = kind /\ Handler(kind, {e}).elts = {e}
      BY DEF Handler
    <3>3. {e} = {x} => e = x
      OBVIOUS
    <3> QED  BY <2>1, <3>1, <3>2, <3>3
  <2>5. EltsIn(h, "spawn") = {x}
    BY <1>3, <2>2, <2>4 DEF EltsIn
  <2>6. EltsIn(h, "coroutine") = {}
    BY <2>2, <2>4 DEF EltsIn
  <2> QED  BY <2>3, <2>5, <2>6
<1>9. p = q \o h
  <2>1. q \in Seq(WorkHandler)
    BY <1>1 DEF WorkQueue
  <2> QED  BY <1>5, <2>1, AppendIsConcat
<1> HIDE DEF h, p
<1>10. /\ WorkQueue(p)
       /\ EltsIn(p, "spawn") = EltsIn(q, "spawn") \cup {x}
       /\ EltsIn(p, "coroutine") = EltsIn(q, "coroutine")
  <2>1. \A i \in 1..Len(q), j \in 1..Len(h) : q[i].elts # h[j].elts
    BY <1>1, <1>7, <1>8, ApartQueues DEF Flying
  <2>2. /\ WorkQueue(q \o h)
        /\ \A kind : EltsIn(q \o h, kind) = EltsIn(q, kind) \cup EltsIn(h, kind)
    BY <1>1, <1>8, <2>1, AppendQueue
  <2> QED  BY <1>8, <1>9, <2>2
<1>11. Flying(p, aw) = Flying(q, aw)
  BY <1>10 DEF Flying
<1>12. Unfinished(t, p, aw) = Unfinished(s, q, aw)
  BY <1>7, <1>10, <1>11 DEF Unfinished
<1>13. /\ EltsIn(p, "coroutine") \cap aw = {} /\ EltsIn(p, "spawn") \cap aw = {}
       /\ Waiting(t) \cap (Flying(p, aw) \cup EltsIn(p, "spawn")) = {}
  <2>1. x \notin aw
    BY <1>1, <1>7 DEF Flying
  <2> QED  BY <1>1, <1>7, <1>10, <1>11, <2>1
<1>14. CountedCore(t, p, aw)
  BY <1>1, <1>3, <1>4, <1>6, <1>10, <1>11, <1>12, <1>13 DEF CountedCore
<1> QED  BY <1>4, <1>10, <1>12, <1>14 DEF t, p, x

\* After a failure nobody waits: what is dropped is taken out of the count.
LEMMA QueueDropped ==
  ASSUME NEW s, NEW q, NEW aw, CountedCore(s, q, aw)
  PROVE  LET t == Discard(s)
         IN /\ CountedCore(t, q, aw)
            /\ Unfinished(t, q, aw) = Unfinished(s, q, aw) \ Waiting(s)
            /\ t.todo = <<>> /\ t.res = s.res /\ t.error = s.error /\ t.posts = s.posts
<1> DEFINE t == Discard(s)
           U == Unfinished(s, q, aw)
           W == Waiting(s)
<1>1. /\ s \in StrandType /\ WorkQueue(q) /\ aw \subseteq Elt
      /\ EltsIn(q, "coroutine") \cap aw = {} /\ EltsIn(q, "spawn") \cap aw = {}
      /\ Waiting(s) \cap (Flying(q, aw) \cup EltsIn(q, "spawn")) = {}
      /\ s.inFlight = Cardinality(Flying(q, aw))
      /\ s.pending = Cardinality(U)
      /\ NoneTwice(s.todo)
  BY DEF CountedCore
<1>2. s.todo \in Seq(Elt) /\ W \in SUBSET Elt /\ U \in SUBSET Elt
  BY PlacesType
<1>3. Cardinality(W) = Len(s.todo)
  <2>1. Len(s.todo) \in 0..Len(s.todo)
    BY <1>2
  <2>2. W = FirstOf(s.todo, Len(s.todo))
    BY DEF Waiting, ItemsOf, FirstOf
  <2> HIDE DEF W
  <2> QED  BY <1>1, <1>2, <2>1, <2>2, PartCardinality
<1>4. s.pending - Len(s.todo) = Cardinality(U \ W) /\ Cardinality(U \ W) \in Nat
  <2>1. W \subseteq U
    BY DEF Unfinished
  <2>2. (U \ W) \cup W = U /\ (U \ W) \cap W = {} /\ U \ W \in SUBSET Elt
    BY <1>2, <2>1
  <2> HIDE DEF U, W
  <2>3. Cardinality(U) = Cardinality(U \ W) + Cardinality(W) /\ Cardinality(U \ W) \in Nat
    BY <1>2, <2>2, DisjointSizes
  <2>4. Len(s.todo) \in Nat
    BY <1>2
  <2> QED  BY <1>1, <1>3, <2>3, <2>4
<1>5. /\ t.todo = <<>> /\ t.res = s.res /\ t.error = s.error /\ t.posts = s.posts
      /\ t.inFlight = s.inFlight /\ t.pending = s.pending - Len(s.todo)
  BY <1>1 DEF StrandType, Discard
<1>6. t \in StrandType
  <2>1. t = [s EXCEPT !.pending = t.pending, !.todo = t.todo]
    BY <1>1 DEF StrandType, Discard
  <2>2. t.pending \in Nat /\ t.todo \in Seq(Elt)
    BY <1>4, <1>5
  <2> HIDE DEF t
  <2> QED  BY <1>1, <2>1, <2>2 DEF StrandType
<1> HIDE DEF t
<1>7. Waiting(t) = {}
  BY <1>5, EmptyList DEF Waiting
<1>8. Unfinished(t, q, aw) = U \ W
  BY <1>1, <1>7 DEF Unfinished
<1>9. NoneTwice(t.todo)
  BY <1>5, EmptyList
<1>10. CountedCore(t, q, aw)
  <2> HIDE DEF U, W
  <2> QED  BY <1>1, <1>4, <1>5, <1>6, <1>7, <1>8, <1>9 DEF CountedCore
<1> QED  BY <1>5, <1>8, <1>10 DEF t

\* Where the count is 0 nothing is anywhere.
LEMMA NothingLeft ==
  ASSUME NEW s, NEW q, NEW aw, CountedCore(s, q, aw)
  PROVE  /\ s.pending = 0 <=> Unfinished(s, q, aw) = {}
         /\ Unfinished(s, q, aw) = {} => q = <<>> /\ aw = {} /\ s.todo = <<>> /\ s.inFlight = 0
<1>1. IsFiniteSet(Unfinished(s, q, aw)) /\ s.pending = Cardinality(Unfinished(s, q, aw))
  BY PlacesType DEF CountedCore
<1>2. s.pending = 0 <=> Unfinished(s, q, aw) = {}
  BY <1>1, FS_EmptySet
<1>3. ASSUME Unfinished(s, q, aw) = {}
      PROVE  q = <<>> /\ aw = {} /\ s.todo = <<>> /\ s.inFlight = 0
  <2>1. /\ Flying(q, aw) = {} /\ EltsIn(q, "spawn") = {} /\ Waiting(s) = {}
    BY <1>3 DEF Unfinished
  <2>2. EltsIn(q, "coroutine") = {} /\ aw = {}
    BY <2>1 DEF Flying
  <2>3. q = <<>>
    BY <2>1, <2>2, EmptyQueue DEF CountedCore
  <2>4. s.inFlight = 0
    BY <2>1, FS_EmptySet DEF CountedCore
  <2>5. s.todo = <<>>
    <3>1. s.todo \in Seq(Elt)
      BY PlacesType
    <3>2. ASSUME s.todo # <<>> PROVE FALSE
      <4>1. 1 \in 1..Len(s.todo)
        BY <3>1, <3>2
      <4> QED  BY <2>1, <4>1 DEF Waiting, ItemsOf, FirstOf
    <3> QED  BY <3>2
  <2> QED  BY <2>2, <2>3, <2>4, <2>5
<1> QED  BY <1>2, <1>3

\* What is left is counted; or nothing is left, and the caller's handler is posted.
GoesOn(r, q, aw, left) ==
  left # {} /\ Counted(r, q, aw) /\ Unfinished(r, q, aw) = left
AllDone(r, q, aw, left) ==
  /\ left = {} /\ q = <<Handler("handler", {})>> /\ aw = {}
  /\ r.todo = <<>> /\ r.pending = 0 /\ r.inFlight = 0

\* onWorkDone(): the next one is spawned, or the last one posts the handler.
LEMMA WorkDone ==
  ASSUME NEW s, NEW q, WorkQueue(q), NEW aw, NEW e \in aw, CountedCore(s, q \o s.posts, aw),
         NEW before, before = Unfinished(s, q \o s.posts, aw) \ {e},
         NEW after, after = IF s.error THEN before \ Waiting(s) ELSE before
  PROVE  LET r == onWorkDone(s)
         IN /\ r.res = s.res /\ r.error = s.error
            /\ \/ GoesOn(r, q \o r.posts, aw \ {e}, after)
               \/ AllDone(r, q \o r.posts, aw \ {e}, after)
<1> DEFINE t == [s EXCEPT !.inFlight = @ - 1, !.pending = @ - 1]
           rest == IF t.error THEN Discard(t) ELSE t
           r == onWorkDone(s)
           Q == q \o s.posts
<1> SUFFICES /\ r.res = s.res /\ r.error = s.error
             /\ \/ GoesOn(r, q \o r.posts, aw \ {e}, after)
                \/ AllDone(r, q \o r.posts, aw \ {e}, after)
  OBVIOUS
<1>0. r = IF t.todo # <<>> /\ ~t.error THEN Posting([t EXCEPT !.todo = Tail(@)], "spawn", Head(t.todo))
          ELSE IF rest.pending = 0 THEN [rest EXCEPT !.posts = Append(@, Handler("handler", {}))]
          ELSE rest
  BY DEF onWorkDone
<1>1. /\ CountedCore(t, Q, aw \ {e}) /\ Unfinished(t, Q, aw \ {e}) = before
      /\ t.todo = s.todo /\ t.res = s.res /\ t.error = s.error /\ t.posts = s.posts
      /\ Waiting(t) = Waiting(s)
  <2>1. CountedCore(s, Q, aw)
    OBVIOUS
  <2>2. t = OneDone(s)
    BY DEF OneDone
  <2> HIDE DEF Q, t
  <2>3. CountedCore(t, Q, aw \ {e})
    BY <2>1, <2>2, AnswerTaken
  <2>5. /\ t.todo = s.todo /\ t.res = s.res /\ t.error = s.error /\ t.posts = s.posts
    BY <2>1, <2>2, AnswerTaken
  <2>6. Waiting(t) = Waiting(s)
    BY <2>1, <2>2, AnswerTaken
  <2>7. Unfinished(t, Q, aw \ {e}) = Unfinished(s, Q, aw) \ {e}
    <3>1. /\ EltsIn(Q, "coroutine") \cap aw = {} /\ EltsIn(Q, "spawn") \cap aw = {}
          /\ Waiting(s) \cap (Flying(Q, aw) \cup EltsIn(Q, "spawn")) = {}
      BY <2>1 DEF CountedCore
    <3> QED  BY <2>6, <3>1 DEF Unfinished, Flying
  <2> QED  BY <2>3, <2>5, <2>6, <2>7 DEF Q
<1>2. /\ q \in Seq(WorkHandler) /\ Q \in Seq(WorkHandler)
      /\ s.posts \in Seq([kind : HandlerKind, elts : SUBSET Elt])
  BY PlacesType DEF WorkQueue, CountedCore
<1>3. ASSUME NEW h PROVE q \o Append(s.posts, h) = Append(q \o s.posts, h)
  BY <1>2
<1> HIDE DEF t, r, Q
<1>4. CASE t.todo # <<>> /\ ~t.error
  <2> DEFINE h == Handler("spawn", {Head(t.todo)})
  <2>1. /\ CountedCore(r, Append(Q, h), aw \ {e})
        /\ Unfinished(r, Append(Q, h), aw \ {e}) = before
        /\ EltsIn(Append(Q, h), "spawn") # {}
        /\ r.res = s.res /\ r.error = s.error
        /\ r.posts = Append(s.posts, h)
    <3> DEFINE v == Posting([t EXCEPT !.todo = Tail(@)], "spawn", Head(t.todo))
    <3>1. /\ CountedCore(v, Append(Q, h), aw \ {e})
          /\ Unfinished(v, Append(Q, h), aw \ {e}) = Unfinished(t, Q, aw \ {e})
          /\ EltsIn(Append(Q, h), "spawn") # {}
          /\ v.res = t.res /\ v.error = t.error
          /\ v.posts = Append(t.posts, h)
      BY <1>1, <1>4, NextSpawned
    <3>2. r = v
      BY <1>0, <1>4
    <3> HIDE DEF v, h
    <3> QED  BY <1>1, <3>1, <3>2
  <2>2. q \o r.posts = Append(Q, h)
    BY <1>3, <2>1 DEF Q
  <2>3. before # {}
    BY <2>1 DEF Unfinished
  <2>4. Counted(r, Append(Q, h), aw \ {e})
    BY <1>1, <1>4, <2>1 DEF Counted
  <2>5. after = before
    BY <1>1, <1>4
  <2> HIDE DEF h
  <2> QED  BY <2>1, <2>2, <2>3, <2>4, <2>5 DEF GoesOn
<1>5. CASE ~(t.todo # <<>> /\ ~t.error)
  <2>1. /\ CountedCore(rest, Q, aw \ {e}) /\ Unfinished(rest, Q, aw \ {e}) = after
        /\ rest.todo = <<>> /\ rest.res = s.res /\ rest.error = s.error /\ rest.posts = s.posts
    <3>1. CASE t.error
      <4>1. /\ CountedCore(Discard(t), Q, aw \ {e})
            /\ Unfinished(Discard(t), Q, aw \ {e}) = Unfinished(t, Q, aw \ {e}) \ Waiting(t)
            /\ Discard(t).todo = <<>> /\ Discard(t).res = t.res /\ Discard(t).error = t.error
            /\ Discard(t).posts = t.posts
        BY <1>1, QueueDropped
      <4> QED  BY <1>1, <3>1, <4>1
    <3>2. CASE ~t.error
      BY <1>1, <1>5, <3>2
    <3> QED  BY <3>1, <3>2
  <2> HIDE DEF rest
  <2>2. /\ rest.pending = 0 <=> after = {}
        /\ after = {} => Q = <<>> /\ aw \ {e} = {} /\ rest.inFlight = 0
    BY <2>1, NothingLeft
  <2>3. CASE after = {}
    <3>1. r = [rest EXCEPT !.posts = Append(s.posts, Handler("handler", {}))]
      BY <1>0, <1>5, <2>1, <2>2, <2>3
    <3>2. /\ r.res = s.res /\ r.error = s.error /\ r.todo = <<>> /\ r.pending = 0 /\ r.inFlight = 0
          /\ r.posts = Append(s.posts, Handler("handler", {}))
      BY <2>1, <2>2, <2>3, <3>1 DEF CountedCore, StrandType
    <3>3. q \o r.posts = Append(Q, Handler("handler", {}))
      BY <1>3, <3>2 DEF Q
    <3>4. Append(Q, Handler("handler", {})) = <<Handler("handler", {})>>
      <4>1. Q = <<>>
        BY <2>2, <2>3
      <4> QED  BY <4>1
    <3> QED  BY <2>2, <2>3, <3>2, <3>3, <3>4 DEF AllDone
  <2>4. CASE after # {}
    <3>1. r = rest /\ q \o r.posts = Q
      BY <1>0, <1>5, <2>1, <2>2, <2>4 DEF Q
    <3>2. Waiting(r) = {}
      BY <2>1, <3>1, EmptyList DEF Waiting
    <3>3. Counted(r, Q, aw \ {e})
      BY <2>1, <3>1, <3>2 DEF Counted
    <3> QED  BY <2>1, <2>4, <3>1, <3>3 DEF GoesOn
  <2> QED  BY <2>3, <2>4
<1> QED  BY <1>4, <1>5

\* A worker is spawned for the next element: it flies now.
LEMMA SpawnCounted ==
  ASSUME NEW s, NEW q, NEW aw, Counted(s, q, aw), s.posts = <<>>, q # <<>>,
         Head(q).kind = "spawn", NEW e \in Head(q).elts
  PROVE  LET t == spawnWorker(s, e)
         IN /\ Counted(t, Tail(q) \o t.posts, aw)
            /\ Unfinished(t, Tail(q) \o t.posts, aw) = Unfinished(s, q, aw)
            /\ t.res = s.res /\ t.error = s.error
<1> DEFINE t == spawnWorker(s, e)
           h == <<Handler("coroutine", {e})>>
           p == Tail(q) \o h
<1>1. /\ s \in StrandType /\ WorkQueue(q) /\ aw \subseteq Elt
      /\ EltsIn(q, "coroutine") \cap aw = {} /\ EltsIn(q, "spawn") \cap aw = {}
      /\ Waiting(s) \cap (Flying(q, aw) \cup EltsIn(q, "spawn")) = {}
      /\ s.inFlight = Cardinality(Flying(q, aw))
      /\ s.pending = Cardinality(Unfinished(s, q, aw))
      /\ NoneTwice(s.todo)
      /\ CountedCore(s, q, aw)
  BY DEF CountedCore, Counted
<1>2. /\ WorkQueue(Tail(q)) /\ e \in Elt /\ e \in EltsIn(q, "spawn")
      /\ EltsIn(Tail(q), "spawn") = EltsIn(q, "spawn") \ {e}
      /\ EltsIn(Tail(q), "coroutine") = EltsIn(q, "coroutine")
      /\ e \notin EltsIn(q, "coroutine")
  <2>1. PICK x \in Elt :
           /\ Head(q).elts = {x} /\ x \in EltsIn(q, "spawn")
           /\ EltsIn(Tail(q), "spawn") = EltsIn(q, "spawn") \ {x}
           /\ EltsIn(Tail(q), "coroutine") = EltsIn(q, "coroutine")
           /\ x \notin EltsIn(q, "coroutine")
    BY <1>1, TailOfQueue
  <2>2. e = x
    BY <2>1
  <2>3. WorkQueue(Tail(q))
    BY <1>1, TailOfQueue
  <2> QED  BY <2>1, <2>2, <2>3
<1>3. /\ Handler("coroutine", {e}) \in [kind : HandlerKind, elts : SUBSET Elt]
      /\ Handler("coroutine", {e}) \in WorkHandler
  BY <1>2, HandlerType
<1>4. /\ t.res = s.res /\ t.error = s.error /\ t.todo = s.todo /\ t.pending = s.pending
      /\ t.inFlight = s.inFlight + 1 /\ t.posts = h
  <2>1. /\ t.res = s.res /\ t.error = s.error /\ t.todo = s.todo /\ t.pending = s.pending
        /\ t.inFlight = s.inFlight + 1 /\ t.posts = Append(s.posts, Handler("coroutine", {e}))
    BY <1>1 DEF StrandType, spawnWorker, Posting
  <2>2. Append(<<>>, Handler("coroutine", {e})) = h
    OBVIOUS
  <2> HIDE DEF t, h
  <2> QED  BY <2>1, <2>2
<1>5. t \in StrandType
  <2>1. h \in Seq([kind : HandlerKind, elts : SUBSET Elt])
    <3>1. ASSUME NEW S, NEW x \in S PROVE <<x>> \in Seq(S)
      OBVIOUS
    <3> QED  BY <1>3, <3>1
  <2>2. t = [s EXCEPT !.inFlight = s.inFlight + 1, !.posts = t.posts]
    BY <1>1 DEF StrandType, spawnWorker, Posting
  <2> HIDE DEF t, h
  <2>3. s.inFlight + 1 \in Nat
    BY <1>1, PlacesType
  <2> QED  BY <1>1, <1>4, <2>1, <2>2, <2>3 DEF StrandType
<1> HIDE DEF t
<1>6. WorkQueue(h) /\ EltsIn(h, "coroutine") = {e} /\ EltsIn(h, "spawn") = {}
  <2>1. Len(h) = 1 /\ h[1] = Handler("coroutine", {e}) /\ h \in Seq(WorkHandler)
    BY <1>3
  <2> HIDE DEF h
  <2>2. 1..Len(h) = {1}
    BY <2>1
  <2>3. WorkQueue(h)
    BY <2>1, <2>2 DEF WorkQueue
  <2>4. ASSUME NEW x \in Elt, NEW kind
        PROVE  h[1] = Handler(kind, {x}) <=> x = e /\ kind = "coroutine"
    <3>1. h[1].kind = "coroutine" /\ h[1].elts = {e}
      BY <2>1 DEF Handler
    <3>2. Handler(kind, {x}).kind = kind /\ Handler(kind, {x}).elts = {x}
      BY DEF Handler
    <3>3. {x} = {e} => x = e
      OBVIOUS
    <3> QED  BY <2>1, <3>1, <3>2, <3>3
  <2>5. EltsIn(h, "coroutine") = {e}
    BY <1>2, <2>2, <2>4 DEF EltsIn
  <2>6. EltsIn(h, "spawn") = {}
    BY <2>2, <2>4 DEF EltsIn
  <2> QED  BY <2>3, <2>5, <2>6
<1> HIDE DEF h
<1>7. /\ WorkQueue(p)
      /\ EltsIn(p, "spawn") = EltsIn(q, "spawn") \ {e}
      /\ EltsIn(p, "coroutine") = EltsIn(q, "coroutine") \cup {e}
  <2>1. \A i \in 1..Len(Tail(q)), j \in 1..Len(h) : Tail(q)[i].elts # h[j].elts
    BY <1>2, <1>6, ApartQueues
  <2>2. /\ WorkQueue(Tail(q) \o h)
        /\ \A kind : EltsIn(Tail(q) \o h, kind) = EltsIn(Tail(q), kind) \cup EltsIn(h, kind)
    <3> DEFINE tail == Tail(q)
    <3>1. /\ WorkQueue(tail)
          /\ \A i \in 1..Len(tail), j \in 1..Len(h) : tail[i].elts # h[j].elts
      BY <1>2, <2>1
    <3> HIDE DEF tail
    <3>2. /\ WorkQueue(tail \o h)
          /\ \A kind : EltsIn(tail \o h, kind) = EltsIn(tail, kind) \cup EltsIn(h, kind)
      BY <1>6, <3>1, AppendQueue
    <3> QED  BY <3>2 DEF tail
  <2>3. WorkQueue(p) /\ \A kind : EltsIn(p, kind) = EltsIn(Tail(q), kind) \cup EltsIn(h, kind)
    BY <2>2
  <2> HIDE DEF p
  <2>4. /\ EltsIn(p, "spawn") = EltsIn(Tail(q), "spawn") \cup EltsIn(h, "spawn")
        /\ EltsIn(p, "coroutine") = EltsIn(Tail(q), "coroutine") \cup EltsIn(h, "coroutine")
    BY <2>3
  <2> QED  BY <1>2, <1>6, <2>3, <2>4
<1> HIDE DEF p
<1>8. Flying(p, aw) = Flying(q, aw) \cup {e} /\ e \notin Flying(q, aw)
  BY <1>1, <1>2, <1>7 DEF Flying
<1>9. Waiting(t) = Waiting(s) /\ e \notin Waiting(s)
  BY <1>1, <1>2, <1>4 DEF Waiting
<1>10. Unfinished(t, p, aw) = Unfinished(s, q, aw)
  BY <1>2, <1>7, <1>8, <1>9 DEF Unfinished
<1>11. t.inFlight = Cardinality(Flying(p, aw))
  <2>1. IsFiniteSet(Flying(q, aw))
    BY <1>1, PlacesType
  <2>2. Cardinality(Flying(q, aw) \cup {e}) = Cardinality(Flying(q, aw)) + 1
    BY <1>8, <2>1, FS_AddElement
  <2> QED  BY <1>1, <1>4, <1>8, <2>2
<1>12. /\ EltsIn(p, "coroutine") \cap aw = {} /\ EltsIn(p, "spawn") \cap aw = {}
       /\ Waiting(t) \cap (Flying(p, aw) \cup EltsIn(p, "spawn")) = {}
  BY <1>1, <1>2, <1>7, <1>8, <1>9
<1>13. CountedCore(t, p, aw)
  BY <1>1, <1>4, <1>5, <1>7, <1>10, <1>11, <1>12 DEF CountedCore
<1>14. Counted(t, p, aw)
  BY <1>4, <1>8, <1>9, <1>13 DEF Counted
<1> QED  BY <1>4, <1>10, <1>14 DEF t, p

\* The coroutine of the next element asks for its edges: it still flies.
LEMMA AskCounted ==
  ASSUME NEW s, NEW q, NEW aw, Counted(s, q, aw), q # <<>>, Head(q).kind = "coroutine"
  PROVE  LET asked == aw \cup Head(q).elts
         IN /\ Counted(s, Tail(q), asked)
            /\ Unfinished(s, Tail(q), asked) = Unfinished(s, q, aw)
            /\ Tail(q) \o <<>> = Tail(q)
<1> DEFINE asked == aw \cup Head(q).elts
<1>1. /\ s \in StrandType /\ WorkQueue(q) /\ aw \subseteq Elt
      /\ EltsIn(q, "coroutine") \cap aw = {} /\ EltsIn(q, "spawn") \cap aw = {}
      /\ Waiting(s) \cap (Flying(q, aw) \cup EltsIn(q, "spawn")) = {}
      /\ s.inFlight = Cardinality(Flying(q, aw))
      /\ s.pending = Cardinality(Unfinished(s, q, aw))
      /\ NoneTwice(s.todo)
  BY DEF CountedCore, Counted
<1>2. PICK e \in Elt :
         /\ Head(q).elts = {e} /\ e \in EltsIn(q, "coroutine")
         /\ EltsIn(Tail(q), "coroutine") = EltsIn(q, "coroutine") \ {e}
         /\ EltsIn(Tail(q), "spawn") = EltsIn(q, "spawn")
         /\ e \notin EltsIn(q, "spawn")
  BY <1>1, TailOfQueue
<1>3. WorkQueue(Tail(q)) /\ Tail(q) \o <<>> = Tail(q)
  <2>1. WorkQueue(Tail(q))
    BY <1>1, TailOfQueue
  <2> QED  BY <2>1 DEF WorkQueue
<1>4. asked = aw \cup {e} /\ asked \subseteq Elt
  BY <1>1, <1>2
<1> HIDE DEF asked
<1>5. Flying(Tail(q), asked) = Flying(q, aw)
  BY <1>2, <1>4 DEF Flying
<1>6. Unfinished(s, Tail(q), asked) = Unfinished(s, q, aw)
  BY <1>2, <1>5 DEF Unfinished
<1>7. EltsIn(Tail(q), "coroutine") \cap asked = {} /\ EltsIn(Tail(q), "spawn") \cap asked = {}
  BY <1>1, <1>2, <1>4
<1>8. CountedCore(s, Tail(q), asked)
  BY <1>1, <1>2, <1>3, <1>4, <1>5, <1>6, <1>7 DEF CountedCore
<1>9. Counted(s, Tail(q), asked)
  BY <1>2, <1>5, <1>8 DEF Counted
<1> QED  BY <1>3, <1>6, <1>9 DEF asked

\* What is wanted has the start elements and, but for what was known, the edges of
\* what it has; and it is the least that has.
LEMMA WantedClosed ==
  ASSUME graph \in EltGraphs, start \in StartSets, known \subseteq Elt
  PROVE  /\ start \subseteq Wanted /\ Wanted \subseteq Elt
         /\ \A e \in Elt : getEdges(e) \subseteq Elt
         /\ \A e \in Wanted \ known : getEdges(e) \subseteq Wanted
         /\ \A S \in SUBSET Elt :
              (start \subseteq S /\ known \subseteq S /\ \A y \in S \ known : getEdges(y) \subseteq S)
                => Wanted \subseteq S
<1>1. start \subseteq Elt /\ graph \in [Elt -> SUBSET Elt]
  BY ClosureAssumption
<1>2. \A e \in Elt : getEdges(e) \subseteq Elt
  BY <1>1 DEF getEdges
<1>3. start \subseteq Wanted /\ Wanted \subseteq Elt
  BY <1>1 DEF Wanted, Reach
<1>4. ASSUME NEW e \in Wanted \ known, NEW x \in getEdges(e) PROVE x \in Wanted
  <2>1. x \in Elt /\ e \in Reach(start, known)
    BY <1>2, <1>3 DEF Wanted
  <2>2. ASSUME NEW S \in SUBSET Elt, start \subseteq S,
               \A y \in S \ known : getEdges(y) \subseteq S
        PROVE  x \in S
    <3>1. e \in S
      BY <2>1, <2>2 DEF Reach
    <3> QED  BY <2>2, <3>1
  <2> QED  BY <2>1, <2>2 DEF Wanted, Reach
<1>5. ASSUME NEW S \in SUBSET Elt, start \subseteq S, known \subseteq S,
             \A y \in S \ known : getEdges(y) \subseteq S
      PROVE  Wanted \subseteq S
  BY <1>5 DEF Wanted, Reach
<1> QED  BY <1>2, <1>3, <1>4, <1>5

\* The strand's state after a handler: the counters count what they counted in
\* the record the handler left.
LEMMA StrandAfter ==
  ASSUME NEW r, NEW q, NEW aw, Becomes(r, q), awaited' = aw
  PROVE  /\ Counted(r, q \o r.posts, aw) => Counted(StrandNow, posted, awaited)'
         /\ Unfinished(StrandNow, posted, awaited)' = Unfinished(r, q \o r.posts, aw)
<1> DEFINE t == StrandNow'
           Q == q \o r.posts
<1>1. /\ t = [res |-> r.res, todo |-> r.todo, pending |-> r.pending, inFlight |-> r.inFlight,
              error |-> r.error, posts |-> <<>>]
      /\ posted' = Q
  BY DEF StrandNow, Becomes
<1> HIDE DEF t, Q
<1>2. /\ t.res = r.res /\ t.todo = r.todo /\ t.pending = r.pending /\ t.inFlight = r.inFlight
      /\ t.error = r.error /\ t.posts = <<>>
  BY <1>1
<1>3. Waiting(t) = Waiting(r)
  BY <1>2 DEF Waiting
<1>4. Unfinished(t, Q, aw) = Unfinished(r, Q, aw)
  BY <1>3 DEF Unfinished
<1>5. r \in StrandType => t \in StrandType
  BY <1>1 DEF StrandType
<1>6. Counted(r, Q, aw) => Counted(t, Q, aw)
  BY <1>2, <1>3, <1>4, <1>5 DEF Counted, CountedCore
<1>7. /\ Counted(StrandNow, posted, awaited)' <=> Counted(t, Q, aw)
      /\ Unfinished(StrandNow, posted, awaited)' = Unfinished(t, Q, aw)
  BY <1>1 DEF t, Counted, CountedCore, Unfinished, Flying, EltsIn, Waiting, WorkQueue
<1> QED  BY <1>4, <1>6, <1>7 DEF Q

\* Nothing of what Wanted and Sound are about changes while the call runs.
LEMMA SoundAfter ==
  ASSUME UNCHANGED <<graph, missing, start, known>>,
         NEW r, NEW err, NEW busy, Sound(r, err, busy)
  PROVE  /\ known' \subseteq r /\ r \subseteq Wanted'
         /\ busy \subseteq r \ known'
         /\ ~err => \A e \in (r \ known') \ busy : getEdges(e)' \subseteq r /\ e \notin missing'
         /\ err => (r \ known') \cap missing' # {}
<1>1. Wanted' = Wanted
  BY DEF Wanted, Reach, getEdges
<1>2. \A e : getEdges(e)' = getEdges(e)
  BY DEF getEdges
<1> QED  BY <1>1, <1>2 DEF Sound

\* A handler leaves work.
LEMMA ToWork ==
  ASSUME NEW r, NEW q, NEW aw, Becomes(r, q), awaited' = aw, completed' = 0,
         Counted(r, q \o r.posts, aw), Unfinished(r, q \o r.posts, aw) # {},
         Sound(r.res, r.error, Unfinished(r, q \o r.posts, aw)),
         start \subseteq r.res, ~(start \subseteq known)
  PROVE  AtWork'
<1> DEFINE U == Unfinished(r, q \o r.posts, aw)
<1>1. /\ Counted(StrandNow, posted, awaited)'
      /\ Unfinished(StrandNow, posted, awaited)' = U
  BY StrandAfter
<1>2. /\ res' = r.res /\ error' = r.error /\ start' = start /\ known' = known
      /\ UNCHANGED <<graph, missing, start, known>>
  BY DEF Becomes
<1>3. U # {} /\ Sound(r.res, r.error, U)
  OBVIOUS
<1> HIDE DEF U
<1>4. /\ known' \subseteq r.res /\ r.res \subseteq Wanted'
      /\ U \subseteq r.res \ known'
      /\ ~r.error => \A e \in (r.res \ known') \ U : getEdges(e)' \subseteq r.res /\ e \notin missing'
      /\ r.error => (r.res \ known') \cap missing' # {}
  BY <1>2, <1>3, SoundAfter
<1>5. Sound(res, error, Unfinished(StrandNow, posted, awaited))'
  BY <1>1, <1>2, <1>4 DEF Sound
<1> QED  BY <1>1, <1>2, <1>3, <1>5 DEF AtWork

\* A handler leaves nothing but the caller's handler.
LEMMA ToDrained ==
  ASSUME NEW r, NEW q, Becomes(r, q), awaited' = {}, completed' = 0,
         q \o r.posts = <<Handler("handler", {})>>, r.todo = <<>>, r.pending = 0, r.inFlight = 0,
         Sound(r.res, r.error, {}), start \subseteq r.res, ~(start \subseteq known),
         r.error \in BOOLEAN
  PROVE  Drained'
<1>1. /\ res' = r.res /\ error' = r.error /\ start' = start /\ known' = known
      /\ todo' = <<>> /\ toDo' = 0 /\ inFlight' = 0
      /\ posted' = <<Handler("handler", {})>>
      /\ UNCHANGED <<graph, missing, start, known>>
  BY DEF Becomes
<1>2. /\ known' \subseteq r.res /\ r.res \subseteq Wanted'
      /\ {} \subseteq r.res \ known'
      /\ ~r.error => \A e \in (r.res \ known') \ {} : getEdges(e)' \subseteq r.res /\ e \notin missing'
      /\ r.error => (r.res \ known') \cap missing' # {}
  BY <1>1, SoundAfter
<1>3. Sound(res, error, {})'
  BY <1>1, <1>2 DEF Sound
<1>4. posted' = <<Handler("handler", {})'>>
  BY <1>1 DEF Handler
<1> QED  BY <1>1, <1>3, <1>4 DEF Drained, StrandIdle

\* Which phase the next handler belongs to.
LEMMA PhaseOfHandler ==
  ASSUME ClosureInv, posted # <<>>
  PROVE  /\ Head(posted).kind = "enqueue" => NotBegun
         /\ Head(posted).kind \in {"spawn", "coroutine"} => AtWork
         /\ Head(posted).kind = "handler" => Drained
<1>1. NotBegun => Head(posted).kind = "enqueue"
  BY DEF NotBegun, Handler
<1>2. Drained => Head(posted).kind = "handler"
  BY DEF Drained, Handler
<1>3. AtWork => Head(posted).kind \in {"spawn", "coroutine"}
  <2> SUFFICES ASSUME AtWork PROVE Head(posted).kind \in {"spawn", "coroutine"}
    OBVIOUS
  <2>1. WorkQueue(posted)
    BY DEF AtWork, Counted, CountedCore
  <2> QED  BY <2>1, TailOfQueue
<1>4. ~Needless
  BY DEF Needless
<1> QED  BY <1>1, <1>2, <1>3, <1>4 DEF ClosureInv

\* The first handler enters the start elements, or finds that all are known.
LEMMA BeginStep == ASSUME ClosureInv, RunEnqueue PROVE AtWork' \/ Needless'
<1> DEFINE s == StrandNow
           r == enqueue(s, start)
           U == Unfinished(r, <<>> \o r.posts, {})
<1>1. NotBegun
  BY PhaseOfHandler DEF RunEnqueue, Posted
<1>2. Head(posted).elts = start /\ Tail(posted) = <<>>
  BY <1>1 DEF NotBegun, Handler
<1>3. /\ Becomes(r, <<>>) /\ awaited' = {} /\ completed' = 0
  BY <1>1, <1>2 DEF RunEnqueue, NotBegun, StrandIdle
<1>4. /\ s.res = known /\ s.todo = <<>> /\ s.pending = 0 /\ s.inFlight = 0 /\ ~s.error
      /\ s.posts = <<>> /\ s \in StrandType
  <2>1. s = [res |-> known, todo |-> <<>>, pending |-> 0, inFlight |-> 0, error |-> error,
             posts |-> <<>>] /\ ~error /\ error \in BOOLEAN /\ known \in SUBSET Elt
    BY <1>1 DEF StrandNow, NotBegun, StrandIdle, ClosureInv
  <2>2. <<>> \in Seq(Elt) /\ <<>> \in Seq([kind : HandlerKind, elts : SUBSET Elt])
    OBVIOUS
  <2> HIDE DEF s
  <2> QED  BY <2>1, <2>2 DEF StrandType
<1> HIDE DEF s
<1>5. Unfinished(s, <<>>, {}) = {} /\ Counted(s, <<>>, {})
  <2>1. WorkQueue(<<>>) /\ \A kind : EltsIn(<<>>, kind) = {}
    BY DEF WorkQueue, EltsIn
  <2>2. Waiting(s) = {}
    BY <1>4, EmptyList DEF Waiting
  <2>3. Flying(<<>>, {}) = {} /\ Unfinished(s, <<>>, {}) = {}
    BY <2>1, <2>2 DEF Flying, Unfinished
  <2>4. Cardinality({}) = 0
    BY FS_EmptySet
  <2>5. CountedCore(s, <<>>, {})
    <3>1. NoneTwice(s.todo)
      BY <1>4, EmptyList
    <3>2. s.inFlight = Cardinality(Flying(<<>>, {})) /\ s.pending = Cardinality(Unfinished(s, <<>>, {}))
      BY <1>4, <2>3, <2>4, Zenon
    <3> QED  BY <1>4, <2>1, <2>2, <3>1, <3>2 DEF CountedCore
  <2> QED  BY <1>4, <2>2, <2>3, <2>5 DEF Counted
<1>6. start \in SUBSET Elt /\ start # {} /\ graph \in EltGraphs /\ start \in StartSets
      /\ known \subseteq Elt
  BY <1>1, ClosureAssumption DEF ClosureInv, NotBegun
<1>7. /\ Counted(r, <<>> \o r.posts, {}) /\ U = start \ known
      /\ r.res = known \cup start /\ r.error = s.error
  <2>1. Unfinished(s, <<>>, {}) \subseteq s.res
    BY <1>5
  <2>2. /\ Counted(r, <<>> \o r.posts, {})
        /\ U = Unfinished(s, <<>>, {}) \cup (start \ s.res)
        /\ r.res = s.res \cup start /\ r.error = s.error
    <3> DEFINE q == <<>>
               aw == {}
    <3>1. Counted(s, q, aw) /\ Unfinished(s, q, aw) \subseteq s.res
      BY <1>5, <2>1
    <3> HIDE DEF q, aw
    <3>2. /\ Counted(r, q \o r.posts, aw)
          /\ Unfinished(r, q \o r.posts, aw) = Unfinished(s, q, aw) \cup (start \ s.res)
          /\ r.res = s.res \cup start /\ r.error = s.error
      BY <1>4, <1>6, <3>1, EnqueueCounted
    <3> QED  BY <3>2, Zenon DEF q, aw
  <2> HIDE DEF r, U
  <2> QED  BY <1>4, <1>5, <2>2
<1> HIDE DEF r
<1>8. CASE U = {}
  <2>1. start \subseteq known
    BY <1>7, <1>8
  <2>2. CountedCore(r, <<>> \o r.posts, {}) /\ Unfinished(r, <<>> \o r.posts, {}) = {}
    BY <1>7, <1>8 DEF Counted
  <2>3. <<>> \o r.posts = <<>> /\ r.todo = <<>> /\ r.inFlight = 0 /\ r.pending = 0
    BY <2>2, NothingLeft
  <2>4. /\ res' = known /\ start' = start /\ known' = known /\ todo' = <<>> /\ toDo' = 0
        /\ inFlight' = 0 /\ error' = s.error /\ posted' = <<>>
    BY <1>3, <1>7, <2>1, <2>3 DEF Becomes
  <2>5. Needless'
    BY <1>3, <1>4, <1>6, <2>1, <2>4 DEF Needless, StrandIdle
  <2> QED  BY <2>5
<1>9. CASE U # {}
  <2>1. ~(start \subseteq known) /\ start \subseteq r.res
    BY <1>7, <1>9
  <2>2. Sound(r.res, r.error, U)
    <3> HIDE DEF U
    <3>1. start \subseteq Wanted
      BY <1>6, WantedClosed
    <3>2. known \subseteq Wanted
      BY DEF Wanted
    <3> QED  BY <1>4, <1>7, <3>1, <3>2 DEF Sound
  <2>3. AtWork'
    BY <1>3, <1>7, <1>9, <2>1, <2>2, ToWork
  <2> QED  BY <2>3
<1> QED  BY <1>8, <1>9

\* A worker is spawned.
LEMMA SpawnStep == ASSUME ClosureInv, RunSpawn PROVE AtWork'
<1>1. AtWork
  BY PhaseOfHandler DEF RunSpawn, Posted
<1>2. PICK e \in Head(posted).elts : Becomes(spawnWorker(StrandNow, e), Tail(posted))
  BY DEF RunSpawn
<1> DEFINE r == spawnWorker(StrandNow, e)
           U == Unfinished(StrandNow, posted, awaited)
<1>3. StrandNow.posts = <<>> /\ StrandNow.res = res /\ StrandNow.error = error
  BY DEF StrandNow
<1>4. /\ Counted(r, Tail(posted) \o r.posts, awaited)
      /\ Unfinished(r, Tail(posted) \o r.posts, awaited) = U
      /\ r.res = StrandNow.res /\ r.error = StrandNow.error
  BY <1>1, <1>3, SpawnCounted DEF AtWork, RunSpawn, Posted
<1>5. /\ U # {} /\ Sound(res, error, U) /\ start \subseteq res /\ ~(start \subseteq known)
      /\ completed = 0
  BY <1>1 DEF AtWork
<1>6. awaited' = awaited /\ completed' = 0
  BY <1>5 DEF RunSpawn
<1> HIDE DEF r, U
<1>7. Becomes(r, Tail(posted))
  BY <1>2 DEF r
<1> QED  BY <1>3, <1>4, <1>5, <1>6, <1>7, ToWork

\* A coroutine runs up to its question.
LEMMA AskStep == ASSUME ClosureInv, RunCoroutine PROVE AtWork'
<1> DEFINE aw == awaited \cup Head(posted).elts
           U == Unfinished(StrandNow, posted, awaited)
<1>1. AtWork
  BY PhaseOfHandler DEF RunCoroutine, Posted
<1>2. StrandNow.posts = <<>> /\ StrandNow.res = res /\ StrandNow.error = error
  BY DEF StrandNow
<1>3. /\ Counted(StrandNow, Tail(posted), aw)
      /\ Unfinished(StrandNow, Tail(posted), aw) = U
      /\ Tail(posted) \o <<>> = Tail(posted)
  BY <1>1, AskCounted DEF AtWork, RunCoroutine, Posted
<1>4. /\ U # {} /\ Sound(res, error, U) /\ start \subseteq res /\ ~(start \subseteq known)
      /\ completed = 0
  BY <1>1 DEF AtWork
<1>5. awaited' = aw /\ completed' = 0 /\ Becomes(StrandNow, Tail(posted))
  BY <1>4 DEF RunCoroutine
<1> HIDE DEF aw, U
<1> QED  BY <1>2, <1>3, <1>4, <1>5, ToWork

\* The caller's handler runs.
LEMMA HandlerStep == ASSUME ClosureInv, RunHandler PROVE Drained'
<1>1. Drained /\ posted = <<Handler("handler", {})>> /\ completed = 0
  BY PhaseOfHandler DEF RunHandler, Posted, Drained
<1>2. Tail(posted) \o <<>> = <<>>
  BY <1>1
<1>3. /\ posted' = <<>> /\ res' = res /\ error' = error /\ todo' = todo /\ toDo' = toDo
      /\ inFlight' = inFlight /\ awaited' = awaited /\ completed' = 1
      /\ UNCHANGED <<graph, missing, start, known>>
  BY <1>1, <1>2 DEF RunHandler, Becomes, StrandNow
<1>4. /\ known' \subseteq res /\ res \subseteq Wanted'
      /\ {} \subseteq res \ known'
      /\ ~error => \A e \in (res \ known') \ {} : getEdges(e)' \subseteq res /\ e \notin missing'
      /\ error => (res \ known') \cap missing' # {}
  BY <1>1, <1>3, SoundAfter DEF Drained
<1>5. Sound(res, error, {})'
  BY <1>3, <1>4 DEF Sound
<1> QED  BY <1>1, <1>3, <1>5 DEF Drained, StrandIdle

\* An answer has come and what it found is entered, or the failure noted: what
\* onWorkDone() makes of it.
LEMMA AnswerStep ==
  ASSUME AtWork, NEW e \in awaited, NEW s, CountedCore(s, posted \o s.posts, awaited),
         awaited' = awaited \ {e}, completed' = completed, Becomes(onWorkDone(s), posted),
         start \subseteq s.res,
         NEW left, left = Unfinished(s, posted \o s.posts, awaited) \ {e},
         s.error => Sound(s.res, s.error, left \ Waiting(s)),
         ~s.error => Sound(s.res, s.error, left)
  PROVE  AtWork' \/ Drained'
<1> DEFINE r == onWorkDone(s)
           after == IF s.error THEN left \ Waiting(s) ELSE left
<1>1. WorkQueue(posted) /\ completed = 0 /\ ~(start \subseteq known)
  BY DEF AtWork, Counted, CountedCore
<1>2. /\ r.res = s.res /\ r.error = s.error
      /\ \/ GoesOn(r, posted \o r.posts, awaited \ {e}, after)
         \/ AllDone(r, posted \o r.posts, awaited \ {e}, after)
  <2>1. after = IF s.error THEN left \ Waiting(s) ELSE left
    OBVIOUS
  <2> HIDE DEF after
  <2> QED  BY <1>1, <2>1, WorkDone
<1>3. Sound(s.res, s.error, after)
  OBVIOUS
<1>4. Becomes(r, posted)
  OBVIOUS
<1> HIDE DEF r, after
<1>5. CASE GoesOn(r, posted \o r.posts, awaited \ {e}, after)
  <2>1. AtWork'
    BY <1>1, <1>2, <1>3, <1>4, <1>5, ToWork DEF GoesOn
  <2> QED  BY <2>1
<1>6. CASE AllDone(r, posted \o r.posts, awaited \ {e}, after)
  <2>1. Sound(r.res, r.error, {})
    BY <1>2, <1>3, <1>6 DEF AllDone
  <2>2. Drained'
    <3>1. r.error \in BOOLEAN
      BY <1>2, PlacesType
    <3> QED  BY <1>1, <1>2, <1>4, <1>6, <2>1, <3>1, ToDrained DEF AllDone
  <2> QED  BY <2>2
<1> QED  BY <1>2, <1>5, <1>6

\* The answer for an element, whatever it is.
LEMMA ResumeStep == ASSUME ClosureInv, NEW e \in Elt, Resume(e) PROVE AtWork' \/ Drained'
<1> DEFINE s == StrandNow
           U == Unfinished(s, posted, awaited)
<1>1. e \in awaited /\ awaited' = awaited \ {e} /\ completed' = completed
  BY DEF Resume
<1>2. AtWork
  BY <1>1 DEF ClosureInv, NotBegun, Drained, Needless, StrandIdle
<1>3. /\ Counted(s, posted, awaited) /\ CountedCore(s, posted, awaited) /\ Sound(res, error, U)
      /\ start \subseteq res
  BY <1>2 DEF AtWork, Counted
<1>4. /\ s.posts = <<>> /\ s.res = res /\ s.error = error /\ s.todo = todo
      /\ posted \o <<>> = posted
  <2>1. posted \in Seq(WorkHandler)
    BY <1>3 DEF CountedCore, WorkQueue
  <2> QED  BY <2>1 DEF StrandNow
<1>5. s \in StrandType
  BY <1>3 DEF CountedCore
<1>6. e \in U /\ e \in res \ known
  BY <1>1, <1>3 DEF Unfinished, Flying, Sound
<1> HIDE DEF s
<1>7. CASE e \in missing
  <2> DEFINE t == [s EXCEPT !.error = TRUE]
  <2>1. Becomes(onWorkDone(t), posted)
    BY <1>7 DEF Resume, s
  <2>2. /\ t.res = res /\ t.error = TRUE /\ t.todo = s.todo /\ t.pending = s.pending
        /\ t.inFlight = s.inFlight /\ t.posts = <<>> /\ t \in StrandType
    BY <1>4, <1>5 DEF StrandType
  <2> HIDE DEF t
  <2>3. Waiting(t) = Waiting(s)
    BY <2>2 DEF Waiting
  <2>4. Unfinished(t, posted, awaited) = U
    BY <2>3 DEF Unfinished
  <2>5. CountedCore(t, posted, awaited)
    BY <1>3, <2>2, <2>3, <2>4 DEF CountedCore
  <2>6. Sound(t.res, t.error, (U \ {e}) \ Waiting(t))
    BY <1>3, <1>6, <1>7, <2>2 DEF Sound
  <2>7. /\ CountedCore(t, posted \o t.posts, awaited)
        /\ U \ {e} = Unfinished(t, posted \o t.posts, awaited) \ {e}
    BY <1>4, <2>2, <2>4, <2>5
  <2> HIDE DEF U
  <2> QED  BY <1>1, <1>2, <1>3, <2>1, <2>2, <2>6, <2>7, AnswerStep
<1>8. CASE e \notin missing /\ error
  <2>1. Becomes(onWorkDone(s), posted)
    BY <1>4, <1>8 DEF Resume, enqueue, s
  <2>2. Waiting(s) = {}
    BY <1>3, <1>4, <1>8, EmptyList DEF Counted, Waiting
  <2>3. Sound(s.res, s.error, (U \ {e}) \ Waiting(s)) /\ s.error
    BY <1>3, <1>4, <1>8, <2>2 DEF Sound
  <2>4. /\ CountedCore(s, posted \o s.posts, awaited)
        /\ U \ {e} = Unfinished(s, posted \o s.posts, awaited) \ {e}
    BY <1>3, <1>4
  <2> HIDE DEF U
  <2> QED  BY <1>1, <1>2, <1>3, <1>4, <2>1, <2>3, <2>4, AnswerStep
<1>9. CASE e \notin missing /\ ~error
  <2> DEFINE t == enqueue(s, getEdges(e))
             V == Unfinished(t, posted \o t.posts, awaited)
  <2>1. Becomes(onWorkDone(t), posted)
    BY <1>9 DEF Resume, s
  <2>2. getEdges(e) \in SUBSET Elt /\ getEdges(e) \subseteq Wanted
    BY <1>3, <1>6, WantedClosed DEF ClosureInv, Sound
  <2>3. U \subseteq s.res
    BY <1>3, <1>4 DEF Sound
  <2>4. /\ Counted(t, posted \o t.posts, awaited)
        /\ V = U \cup (getEdges(e) \ s.res)
        /\ t.res = s.res \cup getEdges(e) /\ t.error = s.error
    BY <1>3, <1>4, <1>9, <2>2, <2>3, EnqueueCounted
  <2> HIDE DEF t
  <2>5. CountedCore(t, posted \o t.posts, awaited)
    BY <2>4 DEF Counted
  <2> HIDE DEF U, V
  <2>6. Sound(t.res, t.error, V \ {e})
    <3>1. \A x \in (t.res \ known) \ (V \ {e}) : x = e \/ x \in (res \ known) \ U
      BY <1>4, <2>4
    <3> QED  BY <1>3, <1>4, <1>6, <1>9, <2>2, <2>4, <3>1 DEF Sound
  <2>7. ~t.error /\ start \subseteq t.res
    BY <1>3, <1>4, <1>9, <2>4
  <2> QED  BY <1>1, <1>2, <2>1, <2>5, <2>6, <2>7, AnswerStep DEF V
<1> QED  BY <1>7, <1>8, <1>9

\* At the beginning there is the first handler, or nothing to do.
LEMMA ClosureInvInit == ClosureInit => ClosureInv
<1> SUFFICES ASSUME ClosureInit PROVE ClosureInv
  OBVIOUS
<1>1. graph \in EltGraphs /\ missing \subseteq Elt /\ start \in StartSets /\ known \subseteq Elt
  BY DEF ClosureInit
<1>2. /\ res = known /\ awaited = {} /\ todo = <<>> /\ toDo = 0 /\ inFlight = 0
      /\ error = FALSE /\ completed = 0
  BY DEF ClosureInit
<1>3. CASE start # {}
  <2>1. posted = <<Handler("enqueue", start)>>
    BY <1>3 DEF ClosureInit
  <2> QED  BY <1>1, <1>2, <1>3, <2>1 DEF ClosureInv, NotBegun, StrandIdle
<1>4. CASE start = {}
  <2>1. posted = <<Handler("handler", {})>>
    BY <1>4 DEF ClosureInit
  <2>2. Sound(res, error, {})
    BY <1>2 DEF Sound, Wanted
  <2>3. Drained
    BY <1>2, <1>4, <2>1, <2>2 DEF Drained, StrandIdle
  <2> QED  BY <1>1, <1>2, <2>3 DEF ClosureInv
<1> QED  BY <1>3, <1>4

\* Every handler and every answer keeps the invariant.
LEMMA ClosureInvNext == ClosureInv /\ [ClosureNext]_closureVars => ClosureInv'
<1> SUFFICES ASSUME ClosureInv, [ClosureNext]_closureVars PROVE ClosureInv'
  OBVIOUS
<1>1. CASE UNCHANGED closureVars
  <2>1. UNCHANGED <<NotBegun, AtWork, Drained, Needless>>
    BY <1>1 DEF closureVars, NotBegun, AtWork, Drained, Needless, StrandIdle, StrandNow, Sound,
       Wanted, Reach, getEdges, Counted, CountedCore, Unfinished, Flying, Waiting, EltsIn, WorkQueue
  <2> QED  BY <1>1, <2>1 DEF ClosureInv, closureVars
<1>2. CASE ClosureNext
  <2>1. /\ UNCHANGED <<graph, missing, start, known>>
        /\ NotBegun' \/ AtWork' \/ Drained' \/ Needless'
    <3>1. CASE RunEnqueue
      BY <3>1, BeginStep DEF RunEnqueue, Becomes
    <3>2. CASE RunSpawn
      BY <3>2, SpawnStep DEF RunSpawn, Becomes
    <3>3. CASE RunCoroutine
      BY <3>3, AskStep DEF RunCoroutine, Becomes
    <3>4. CASE RunHandler
      BY <3>4, HandlerStep DEF RunHandler, Becomes
    <3>5. ASSUME NEW e \in Elt, Resume(e)
          PROVE  /\ UNCHANGED <<graph, missing, start, known>>
                 /\ NotBegun' \/ AtWork' \/ Drained' \/ Needless'
      BY <3>5, ResumeStep DEF Resume, Becomes
    <3> QED  BY <1>2, <3>1, <3>2, <3>3, <3>4, <3>5 DEF ClosureNext
  <2> QED  BY <2>1 DEF ClosureInv
<1> QED  BY <1>1, <1>2

\* What the invariant says of a call that has returned.
LEMMA ReturnedExactly == ClosureInv => ClosureExact
<1> SUFFICES ASSUME ClosureInv PROVE ClosureExact
  OBVIOUS
<1> DEFINE all == known \cup Reach(start, known)
<1>1. completed <= 1 /\ (completed = 1 => Returned)
  BY DEF ClosureInv, NotBegun, AtWork, Drained, Needless, StrandIdle, Returned
<1>2. ASSUME Returned
      PROVE  /\ completed = 0 <=> start # {} /\ start \subseteq known
             /\ todo = <<>> /\ toDo = 0 /\ inFlight = 0
             /\ error <=> (all \ known) \cap missing # {}
             /\ ~error => res = all
             /\ res \subseteq all
  <2>1. ~NotBegun
    BY <1>2 DEF NotBegun, Returned
  <2>2. ~AtWork
    <3> SUFFICES ASSUME AtWork PROVE FALSE
      OBVIOUS
    <3>1. posted = <<>> /\ awaited = {}
      BY <1>2 DEF Returned
    <3>2. \A kind : EltsIn(posted, kind) = {}
      BY <3>1 DEF EltsIn
    <3>3. Flying(posted, awaited) \cup EltsIn(posted, "spawn") = {}
      BY <3>1, <3>2 DEF Flying
    <3> QED  BY <3>3 DEF AtWork, Counted, Unfinished
  <2>3. all = Wanted
    BY DEF Wanted
  <2> HIDE DEF all
  <2>4. CASE Drained
    <3>1. Sound(res, error, {}) /\ start \subseteq res
      BY <2>4 DEF Drained
    <3>2. ~error => Wanted \subseteq res
      <4> SUFFICES ASSUME ~error PROVE Wanted \subseteq res
        OBVIOUS
      <4>1. res \in SUBSET Elt
        BY <3>1, WantedClosed DEF Sound, ClosureInv
      <4>2. known \subseteq res /\ \A y \in res \ known : getEdges(y) \subseteq res
        BY <3>1 DEF Sound
      <4> QED  BY <3>1, <4>1, <4>2, WantedClosed DEF ClosureInv
    <3>3. ~error => res = Wanted
      BY <3>1, <3>2 DEF Sound
    <3>4. error <=> (Wanted \ known) \cap missing # {}
      BY <3>1, <3>3 DEF Sound
    <3>5. completed = 1 /\ ~(start # {} /\ start \subseteq known)
      BY <1>2, <2>4 DEF Drained, Returned
    <3> QED  BY <2>3, <2>4, <3>1, <3>3, <3>4, <3>5 DEF Drained, StrandIdle, Sound
  <2>5. CASE Needless
    <3>1. Wanted \subseteq known
      BY <2>5, WantedClosed DEF Needless, ClosureInv
    <3>2. Wanted = known
      BY <3>1 DEF Wanted
    <3> QED  BY <2>3, <2>5, <3>2 DEF Needless, StrandIdle
  <2> QED  BY <2>1, <2>2, <2>4, <2>5 DEF ClosureInv
<1> QED  BY <1>1, <1>2 DEF ClosureExact

\* computeClosure() returns exactly what is reached, for every graph, every order
\* of the answers and every limit on the coroutines.
THEOREM ClosureSafe == ClosureSpec => []ClosureExact
<1>1. ClosureInv /\ [ClosureNext]_closureVars => ClosureInv'
  BY ClosureInvNext
<1> QED  BY <1>1, ClosureInvInit, ReturnedExactly, PTL DEF ClosureSpec

(***************************************************************************)
(* Accessors                                                               *)
(***************************************************************************)

CallFields == {"pc", "by", "call", "path", "fd", "prev", "k", "anchor", "next", "status", "got"}

\* A descriptor shows a directory of a tree of P, at path p; the root's shows
\* whatever is there.
ShowsDir(P, fd, p) ==
  /\ fd.at = p
  /\ p # <<>> => /\ fd.tree \in P
                 /\ Exists(fd.tree, p) /\ TypeAt(fd.tree, p) = "directory"

\* A symlink in the root came or went while a tree of P was on disk.
Raced(P, openat2, p) ==
  /\ ~openat2 /\ p # <<>>
  /\ \E t, u \in P :
       /\ Exists(t, Prefix(p, 1)) /\ TypeAt(t, Prefix(p, 1)) = "symlink"
       /\ ~(Exists(u, Prefix(p, 1)) /\ TypeAt(u, Prefix(p, 1)) = "symlink")

\* Why a walk stopped.
WalkFailed(P, openat2, m) ==
  /\ m.status \in {"ENOENT", "ENOTDIR", "SymlinkNotAllowed"}
  /\ m.status = "SymlinkNotAllowed" => \E t \in P : MemStatus(t, m.path) = "SymlinkNotAllowed"
  /\ m.status # "SymlinkNotAllowed" =>
       Raced(P, openat2, m.path) \/ \E t \in P : MemStatus(t, m.path) = "null"

\* What openat() found in the way is still there below the root.
InTheWay(P, m) ==
  \E t \in P :
    /\ Exists(t, Prefix(m.path, m.k + 1)) /\ TypeAt(t, Prefix(m.path, m.k + 1)) # "directory"
    /\ m.k > 0 => t = m.fd.tree

Answered(P, openat2, m) ==
  \/ \E t \in P : Agrees(m.got, MemoryAnswer(t, m.call, m.path))
  \/ Raced(P, openat2, m.path) /\ m.got.status \in {"missing", "FileNotFound", "NotADirectory"}

\* Where a call has got to, for every program counter.
OnTheWay(P, openat2, m) ==
  /\ m.k \in Nat /\ m.anchor \in 0..m.k
  /\ m.k <= Len(m.path)
  /\ ShowsDir(P, m.fd, Prefix(m.path, m.k))
  /\ m.pc \in {"evict", "evicting", "find"} => m.k = 0 /\ Len(m.path) > 1 /\ m.status = "ok"
  /\ m.pc = "walk" => m.k < Len(m.path) - 1 /\ m.status = "ok"
  /\ m.pc = "handOn" =>
       /\ m.k < Len(m.path) - 1 /\ m.anchor < m.k - 1 /\ m.status = "ok"
       /\ ShowsDir(P, m.prev, Prefix(m.path, m.k - 1))
  /\ m.pc = "keep" => m.k > 0 /\ m.k = Len(m.path) - 1 /\ m.status = "ok"
  /\ m.pc = "diagnose" =>
       /\ m.k < Len(m.path) /\ ~openat2 /\ m.status = "ok" /\ InTheWay(P, m)
       /\ m.k + 1 = Len(m.path) => m.call = "readDirectory"
  /\ m.pc = "final" =>
       \/ m.status = "ok" /\ (m.path = <<>> \/ m.k = Len(m.path) - 1)
       \/ WalkFailed(P, openat2, m)

CallInv(P, openat2, m) ==
  /\ m.pc \in {"evict", "evicting", "find", "walk", "handOn", "keep", "diagnose", "final", "done"}
  /\ m.by \in Accessor /\ m.call \in Calls /\ m.path \in Seq(EntryName)
  /\ m.pc # "done" => OnTheWay(P, openat2, m)
  /\ m.pc = "done" => Answered(P, openat2, m)

CacheInv(P, c) ==
  /\ c = [i \in 1..Len(c) |-> c[i]] /\ Len(c) \in 0..DirFdCacheSize
  /\ \A i \in DOMAIN c : c[i][1] \in Seq(EntryName) \ {<<>>} /\ ShowsDir(P, c[i][2], c[i][1])

DiskInv ==
  /\ onDisk \in DiskTree /\ haveOpenat2 \in BOOLEAN
  /\ past \in [Accessor -> SUBSET DiskTree]
  /\ \A x \in Accessor : onDisk \in past[x]
  /\ \A x \in Accessor : \A t \in past[x] : t = onDisk \/ (IsDir(t) /\ IsDir(onDisk))

CallsInv ==
  /\ DOMAIN rd = Caller
  /\ \A r \in Caller :
       /\ DOMAIN rd[r] = CallFields
       /\ rd[r].pc = "idle" => rd[r] = Idle
       /\ rd[r].pc # "idle" => CallInv(past[rd[r].by], haveOpenat2, rd[r])
       /\ rd[r].pc \notin {"idle", "done"} => IsDir(onDisk)

CachesInv ==
  /\ DOMAIN dirFdCache = Accessor
  /\ \A x \in Accessor : CacheInv(past[x], dirFdCache[x])
  /\ globalDirFdCount = Cardinality(HeldFds)

AccInv == DiskInv /\ CallsInv /\ CachesInv

\* The prefixes of a path.
LEMMA PrefixFacts ==
  ASSUME NEW S, NEW p \in Seq(S), NEW k \in 0..Len(p)
  PROVE  /\ Prefix(p, k) \in Seq(S) /\ Len(Prefix(p, k)) = k
         /\ \A i \in 1..k : Prefix(p, k)[i] = p[i]
         /\ Prefix(p, k) = <<>> <=> k = 0
         /\ k < Len(p) => Append(Prefix(p, k), p[k + 1]) = Prefix(p, k + 1)
<1> DEFINE q == Prefix(p, k)
<1>1. q \in Seq(S) /\ Len(q) = k /\ \A i \in 1..k : q[i] = p[i]
  BY DEF Prefix
<1>2. q = <<>> <=> k = 0
  BY <1>1
<1>3. ASSUME k < Len(p) PROVE Append(q, p[k + 1]) = Prefix(p, k + 1)
  <2> DEFINE u == Append(q, p[k + 1])
             v == Prefix(p, k + 1)
  <2>1. v \in Seq(S) /\ Len(v) = k + 1 /\ \A i \in 1..(k + 1) : v[i] = p[i]
    BY <1>3 DEF Prefix
  <2>2. p[k + 1] \in S
    BY <1>3
  <2>3. u \in Seq(S) /\ Len(u) = k + 1 /\ \A i \in 1..(k + 1) : u[i] = IF i = k + 1 THEN p[k + 1] ELSE q[i]
    BY <1>1, <2>2
  <2>4. \A i \in 1..(k + 1) : u[i] = v[i]
    BY <1>1, <2>1, <2>3
  <2> HIDE DEF u, v
  <2>5. u = v
    BY <2>1, <2>3, <2>4, SeqEqual
  <2> QED
    BY <2>5 DEF u, v
<1> QED
  BY <1>1, <1>2, <1>3

\* A prefix of a prefix is one.
LEMMA PrefixOfPrefix ==
  ASSUME NEW S, NEW p \in Seq(S), NEW k \in 0..Len(p), NEW j \in 0..k
  PROVE  Prefix(Prefix(p, k), j) = Prefix(p, j)
<1> DEFINE q == Prefix(p, k)
           u == Prefix(q, j)
           v == Prefix(p, j)
<1>1. q \in Seq(S) /\ Len(q) = k /\ \A i \in 1..k : q[i] = p[i]
  BY PrefixFacts
<1> HIDE DEF q
<1>2. u \in Seq(S) /\ Len(u) = j /\ \A i \in 1..j : u[i] = q[i]
  BY <1>1, PrefixFacts
<1>3. v \in Seq(S) /\ Len(v) = j /\ \A i \in 1..j : v[i] = p[i]
  BY PrefixFacts
<1> HIDE DEF u, v
<1>4. u = v
  BY <1>1, <1>2, <1>3, SeqEqual
<1> QED
  BY <1>4 DEF u, v, q

\* A path is a prefix of itself.
LEMMA PrefixWhole ==
  ASSUME NEW S, NEW p \in Seq(S)
  PROVE  Prefix(p, Len(p)) = p
<1> DEFINE u == Prefix(p, Len(p))
<1>1. u \in Seq(S) /\ Len(u) = Len(p) /\ \A i \in 1..Len(p) : u[i] = p[i]
  BY PrefixFacts, Len(p) \in 0..Len(p)
<1> HIDE DEF u
<1>2. u = p
  BY <1>1, SeqEqual
<1> QED
  BY <1>2 DEF u

\* A directory reached from a cached one is filed under its whole path.
LEMMA KeyIsPrefix ==
  ASSUME NEW S, NEW p \in Seq(S), NEW k \in 0..Len(p), NEW a \in 0..k
  PROVE  CacheKey(Prefix(p, a), SubSeq(p, a + 1, k)) = Prefix(p, k)
<1> DEFINE q == Prefix(p, a)
           s == SubSeq(p, a + 1, k)
           u == q \o s
           v == Prefix(p, k)
<1>1. q \in Seq(S) /\ Len(q) = a /\ \A i \in 1..a : q[i] = p[i]
  BY PrefixFacts, a \in 0..Len(p)
<1>2. s \in Seq(S) /\ Len(s) = k - a /\ \A i \in 1..(k - a) : s[i] = p[a + i]
  OBVIOUS
<1>3. v \in Seq(S) /\ Len(v) = k /\ \A i \in 1..k : v[i] = p[i]
  BY PrefixFacts
<1> HIDE DEF q, s, v
<1>4. u \in Seq(S) /\ Len(u) = Len(q) + Len(s)
  BY <1>1, <1>2, ConcatProperties
<1>5. \A i \in 1..(Len(q) + Len(s)) : u[i] = IF i <= Len(q) THEN q[i] ELSE s[i - Len(q)]
  BY <1>1, <1>2
<1> HIDE DEF u
<1>6. Len(u) = k /\ \A i \in 1..k : u[i] = v[i]
  <2>1. Len(u) = k
    BY <1>1, <1>2, <1>4
  <2>2. ASSUME NEW i \in 1..k PROVE u[i] = v[i]
    <3>1. CASE i <= a
      <4>1. u[i] = q[i] /\ q[i] = p[i] /\ v[i] = p[i]
        BY <1>1, <1>2, <1>3, <1>5, <3>1
      <4> QED
        BY <4>1
    <3>2. CASE i > a
      <4>1. i - a \in 1..(k - a) /\ a + (i - a) = i
        BY <3>2
      <4>2. s[i - a] = p[i]
        BY <4>1, <1>2
      <4>3. u[i] = s[i - a] /\ v[i] = p[i]
        BY <1>1, <1>2, <1>3, <1>5, <3>2
      <4> QED
        BY <4>2, <4>3
    <3> QED
      BY <3>1, <3>2
  <2> QED
    BY <2>1, <2>2
<1>7. u = v
  BY <1>3, <1>4, <1>6, SeqEqual
<1> QED
  BY <1>7 DEF u, v, q, s, CacheKey

\* What lies on the way to something in a tree is a directory.
LEMMA InteriorIsDirectory ==
  ASSUME NEW t \in DiskTree, NEW p \in Seq(EntryName), NEW j \in 0..Len(p), NEW k \in 0..(j - 1),
         Exists(t, Prefix(p, j))
  PROVE  Exists(t, Prefix(p, k)) /\ TypeAt(t, Prefix(p, k)) = "directory"
<1> DEFINE q == Prefix(p, j)
<1>1. q \in DOMAIN Tree[t] /\ Len(q) = j
  BY PrefixFacts DEF Exists
<1>2. Prefix(q, k) = Prefix(p, k)
  BY PrefixOfPrefix, k \in 0..j
<1> HIDE DEF q
<1>3. Prefix(q, k) \in DOMAIN Tree[t] /\ Tree[t][Prefix(q, k)].type = "directory"
  BY <1>1, TreeAssumption
<1> QED
  BY <1>2, <1>3 DEF Exists, TypeAt

\* There is nothing else in a tree.
LEMMA NodeTypes ==
  ASSUME NEW t \in DiskTree, NEW p, Exists(t, p)
  PROVE  TypeAt(t, p) \in {"regular", "directory", "symlink"}
BY TreeAssumption DEF Exists, TypeAt

\* Every tree has a root.
LEMMA RootExists ==
  ASSUME NEW t \in DiskTree
  PROVE  Exists(t, <<>>)
BY TreeAssumption DEF Exists

\* Where the next component is missing, the in-memory accessor finds nothing.
LEMMA MissingIsNull ==
  ASSUME NEW t \in DiskTree, NEW p \in Seq(EntryName), NEW k \in 0..(Len(p) - 1),
         Exists(t, Prefix(p, k)), TypeAt(t, Prefix(p, k)) = "directory", ~Exists(t, Prefix(p, k + 1))
  PROVE  ~Exists(t, p) /\ MemStatus(t, p) = "null"
<1>1. \A j \in (k + 1)..Len(p) : ~Exists(t, Prefix(p, j))
  <2> SUFFICES ASSUME NEW j \in (k + 1)..Len(p), Exists(t, Prefix(p, j)), j # k + 1 PROVE FALSE
    OBVIOUS
  <2> QED
    BY InteriorIsDirectory, j \in 0..Len(p), k + 1 \in 0..(j - 1)
<1>2. ~Exists(t, p)
  BY <1>1, PrefixWhole, Len(p) \in (k + 1)..Len(p)
<1>3. ASSUME NEW j \in 0..(Len(p) - 1), Exists(t, Prefix(p, j)) PROVE TypeAt(t, Prefix(p, j)) # "symlink"
  <2>1. j \in 0..k
    BY <1>1, <1>3
  <2>2. CASE j = k
    BY <2>2
  <2>3. CASE j # k
    BY <2>1, <2>3, InteriorIsDirectory, j \in 0..(k - 1), k \in 0..Len(p)
  <2> QED
    BY <2>2, <2>3
<1> QED
  BY <1>2, <1>3 DEF MemStatus

\* Where a component is no directory, it finds nothing, or a symlink in the way.
LEMMA BlockedStatus ==
  ASSUME NEW t \in DiskTree, NEW p \in Seq(EntryName), NEW k \in 0..(Len(p) - 1),
         Exists(t, Prefix(p, k)), TypeAt(t, Prefix(p, k)) # "directory"
  PROVE  /\ ~Exists(t, p)
         /\ TypeAt(t, Prefix(p, k)) = "symlink" => MemStatus(t, p) = "SymlinkNotAllowed"
         /\ TypeAt(t, Prefix(p, k)) # "symlink" => MemStatus(t, p) = "null"
<1>1. \A j \in (k + 1)..Len(p) : ~Exists(t, Prefix(p, j))
  <2> SUFFICES ASSUME NEW j \in (k + 1)..Len(p), Exists(t, Prefix(p, j)) PROVE FALSE
    OBVIOUS
  <2> QED
    BY InteriorIsDirectory, j \in 0..Len(p), k \in 0..(j - 1)
<1>2. ~Exists(t, p)
  BY <1>1, PrefixWhole, Len(p) \in (k + 1)..Len(p)
<1>3. ASSUME TypeAt(t, Prefix(p, k)) = "symlink" PROVE MemStatus(t, p) = "SymlinkNotAllowed"
  BY <1>2, <1>3 DEF MemStatus
<1>4. ASSUME NEW j \in 0..(Len(p) - 1), Exists(t, Prefix(p, j)), TypeAt(t, Prefix(p, k)) # "symlink"
      PROVE  TypeAt(t, Prefix(p, j)) # "symlink"
  <2>1. j \in 0..k
    BY <1>1, <1>4
  <2>2. CASE j = k
    BY <1>4, <2>2
  <2>3. CASE j # k
    BY <2>1, <2>3, InteriorIsDirectory, j \in 0..(k - 1), k \in 0..Len(p)
  <2> QED
    BY <2>2, <2>3
<1>5. ASSUME TypeAt(t, Prefix(p, k)) # "symlink" PROVE MemStatus(t, p) = "null"
  BY <1>2, <1>4, <1>5 DEF MemStatus
<1> QED
  BY <1>2, <1>3, <1>5

\* With the parent open, a call answers what the in-memory accessor does.
LEMMA CallAtAgrees ==
  ASSUME NEW t \in DiskTree, NEW call \in Calls, NEW p \in Seq(EntryName),
         p # <<>> => Exists(t, parentOf(p)) /\ TypeAt(t, parentOf(p)) = "directory"
  PROVE  Agrees(CallAt(call, t, p), MemoryAnswer(t, call, p))
<1>1. CASE Exists(t, p)
  <2>1. MemStatus(t, p) = "found"
    BY <1>1 DEF MemStatus
  <2>2. TypeAt(t, p) \in {"regular", "directory", "symlink"}
    BY <1>1, NodeTypes
  <2>3. CallAt(call, t, p) = MemoryAnswer(t, call, p)
    <3> HIDE DEF Reply, StatOf, DirListing, TypeAt
    <3>1. CASE call = "lstat"
      BY <3>1, <1>1, <2>1 DEF CallAt, MemoryAnswer, maybeLstat
    <3>2. CASE call = "readFile"
      BY <3>2, <1>1, <2>1, <2>2 DEF CallAt, MemoryAnswer, readFile
    <3>3. CASE call = "readDirectory"
      BY <3>3, <1>1, <2>1, <2>2 DEF CallAt, MemoryAnswer, readDirectory
    <3>4. CASE call = "readLink"
      BY <3>4, <1>1, <2>1, <2>2 DEF CallAt, MemoryAnswer, readLink
    <3> QED
      BY <3>1, <3>2, <3>3, <3>4 DEF Calls
  <2> QED
    BY <2>3 DEF Agrees
<1>2. CASE ~Exists(t, p)
  <2>1. p # <<>>
    BY <1>2, RootExists
  <2>2. Len(p) - 1 \in 0..(Len(p) - 1) /\ Len(p) - 1 + 1 = Len(p)
    BY <2>1
  <2>3. MemStatus(t, p) = "null"
    BY <1>2, <2>1, <2>2, PrefixWhole, MissingIsNull DEF parentOf
  <2>4. MemoryAnswer(t, call, p) = Reply(IF call = "lstat" THEN "missing" ELSE "FileNotFound", <<>>)
    BY <2>3 DEF MemoryAnswer
  <2>5. CallAt(call, t, p) = CASE call = "lstat" -> Reply("missing", <<>>)
                               [] call = "readFile" -> Reply("FileNotFound", <<>>)
                               [] OTHER -> Reply("SysError", <<>>)
    BY <1>2 DEF CallAt, Calls, maybeLstat, readFile, readDirectory, readLink
  <2> QED
    BY <2>4, <2>5 DEF Agrees, Reply, Calls
<1> QED
  BY <1>1, <1>2

\* So does a root that is a regular file.
LEMMA FileAnswerAgrees ==
  ASSUME NEW t \in DiskTree, NEW call \in Calls, NEW p \in Seq(EntryName), TypeAt(t, <<>>) = "regular"
  PROVE  Agrees(FileAnswer(Tree[t][<<>>], call, p), MemoryAnswer(t, call, p))
<1>1. Exists(t, <<>>)
  BY RootExists
<1>2. CASE p = <<>>
  <2>1. MemStatus(t, p) = "found"
    BY <1>1, <1>2 DEF MemStatus
  <2>2. FileAnswer(Tree[t][<<>>], call, p) = MemoryAnswer(t, call, p)
    BY <1>2, <2>1 DEF FileAnswer, MemoryAnswer, Calls, TypeAt
  <2> QED
    BY <2>2 DEF Agrees
<1>3. CASE p # <<>>
  <2>1. 0 \in 0..(Len(p) - 1) /\ Prefix(p, 0) = <<>>
    BY <1>3, PrefixFacts, 0 \in 0..Len(p)
  <2>2. MemStatus(t, p) = "null"
    BY <1>1, <2>1, BlockedStatus
  <2>3. MemoryAnswer(t, call, p) = Reply(IF call = "lstat" THEN "missing" ELSE "FileNotFound", <<>>)
    BY <2>2 DEF MemoryAnswer
  <2>4. FileAnswer(Tree[t][<<>>], call, p) = Reply(IF call = "lstat" THEN "missing" ELSE "NotADirectory", <<>>)
    BY <1>3 DEF FileAnswer, Calls
  <2> QED
    BY <2>3, <2>4 DEF Agrees, Reply
<1> QED
  BY <1>2, <1>3

\* A walk that ends early is answered like a missing path, or a symlink.
LEMMA NoParentAgrees ==
  ASSUME NEW t, NEW call \in Calls, NEW p, NEW err \in {"ENOENT", "ENOTDIR", "SymlinkNotAllowed"},
         MemStatus(t, p) = IF err = "SymlinkNotAllowed" THEN err ELSE "null"
  PROVE  Agrees(NoParent(call, err), MemoryAnswer(t, call, p))
<1>1. NoParent(call, err) = MemoryAnswer(t, call, p)
  BY DEF NoParent, MemoryAnswer, Calls
<1> QED
  BY <1>1 DEF Agrees

-----------------------------------------------------------------------------
(* The cache                                                               *)

\* What holds of a set of trees holds of a larger one.
LEMMA CacheInvGrows ==
  ASSUME NEW P, NEW Q, P \subseteq Q, NEW c, CacheInv(P, c)
  PROVE  CacheInv(Q, c)
BY DEF CacheInv, ShowsDir

\* clear() needs nothing.
LEMMA EmptyCacheInv ==
  ASSUME NEW P
  PROVE  CacheInv(P, <<>>)
BY AccessorAssumption DEF CacheInv

\* What is left of a cache is one.
LEMMA DropAtInv ==
  ASSUME NEW P, NEW c, CacheInv(P, c), NEW i \in DOMAIN c
  PROVE  CacheInv(P, DropAt(c, i)) /\ Len(DropAt(c, i)) = Len(c) - 1
<1> DEFINE d == DropAt(c, i)
<1>1. DOMAIN c = 1..Len(c) /\ Len(c) \in 0..DirFdCacheSize /\ Len(c) > 0
  BY DEF CacheInv
<1>2. d = [j \in 1..(Len(c) - 1) |-> d[j]] /\ Len(d) = Len(c) - 1 /\ DOMAIN d = 1..(Len(c) - 1)
  BY <1>1, AccessorAssumption DEF DropAt
<1>3. ASSUME NEW j \in DOMAIN d PROVE \E l \in DOMAIN c : d[j] = c[l]
  BY <1>1, <1>2 DEF DropAt
<1>4. \A j \in DOMAIN d : d[j][1] \in Seq(EntryName) \ {<<>>} /\ ShowsDir(P, d[j][2], d[j][1])
  <2> SUFFICES ASSUME NEW j \in DOMAIN d
               PROVE  d[j][1] \in Seq(EntryName) \ {<<>>} /\ ShowsDir(P, d[j][2], d[j][1])
    OBVIOUS
  <2>1. PICK l \in DOMAIN c : d[j] = c[l]
    BY <1>3
  <2> QED
    BY <2>1 DEF CacheInv
<1> HIDE DEF d
<1>5. Len(d) \in 0..DirFdCacheSize
  BY <1>1, <1>2, AccessorAssumption
<1>6. CacheInv(P, d)
  BY <1>2, <1>4, <1>5 DEF CacheInv
<1> QED
  BY <1>2, <1>6 DEF d

\* A descriptor that shows what it is filed under may be put into a cache with room.
LEMMA AppendInv ==
  ASSUME NEW P, NEW c, CacheInv(P, c), Len(c) < DirFdCacheSize, NEW key \in Seq(EntryName) \ {<<>>}, NEW fd,
         ShowsDir(P, fd, key)
  PROVE  CacheInv(P, Append(c, <<key, fd>>))
<1> DEFINE d == Append(c, <<key, fd>>)
           n == Len(c)
           T == {c[i] : i \in DOMAIN c} \cup {<<key, fd>>}
<1>1. c = [i \in 1..n |-> c[i]] /\ n \in Nat /\ DOMAIN c = 1..n
  BY AccessorAssumption DEF CacheInv
<1>2. c \in [1..n -> T]
  BY <1>1
<1> HIDE DEF T
<1>3. c \in Seq(T)
  BY <1>1, <1>2
<1>4. <<key, fd>> \in T
  BY DEF T
<1>5. d \in Seq(T) /\ Len(d) = n + 1 /\ d[n + 1] = <<key, fd>> /\ \A i \in 1..n : d[i] = c[i]
  BY <1>1, <1>3, <1>4
<1> HIDE DEF d
<1>6. d = [i \in 1..Len(d) |-> d[i]] /\ Len(d) \in 0..DirFdCacheSize
  BY <1>1, <1>5, AccessorAssumption
<1>7. ASSUME NEW i \in DOMAIN d
      PROVE  d[i][1] \in Seq(EntryName) \ {<<>>} /\ ShowsDir(P, d[i][2], d[i][1])
  <2>1. CASE i = n + 1
    BY <1>5, <2>1
  <2>2. CASE i # n + 1
    <3>1. i \in DOMAIN c /\ d[i] = c[i]
      BY <1>1, <1>5, <1>6, <2>2
    <3> QED
      BY <3>1 DEF CacheInv
  <2> QED
    BY <2>1, <2>2
<1>8. CacheInv(P, d)
  BY <1>6, <1>7 DEF CacheInv
<1> QED
  BY <1>8 DEF d

\* A key in the cache is found.
LEMMA KeyIndex ==
  ASSUME NEW c, NEW key \in Keys(c)
  PROVE  IndexOf(c, key) \in DOMAIN c /\ c[IndexOf(c, key)][1] = key
<1>1. \E i \in DOMAIN c : c[i][1] = key
  BY DEF Keys
<1> QED
  BY <1>1 DEF IndexOf

\* A descriptor that the cache has shows what it was filed under.
LEMMA CachedShows ==
  ASSUME NEW P, NEW c, CacheInv(P, c), NEW key \in Keys(c)
  PROVE  key \in Seq(EntryName) \ {<<>>} /\ ShowsDir(P, Cached(c, key), key)
BY KeyIndex DEF CacheInv, Cached

\* A cache without one of its keys has room.
LEMMA WithoutInv ==
  ASSUME NEW P, NEW c, CacheInv(P, c), NEW key
  PROVE  /\ CacheInv(P, Without(c, key)) /\ Len(Without(c, key)) \in 0..Len(c)
         /\ key \in Keys(c) => Len(Without(c, key)) < DirFdCacheSize
<1>1. Len(c) \in 0..DirFdCacheSize
  BY DEF CacheInv
<1>2. CASE key \in Keys(c)
  <2> DEFINE i == IndexOf(c, key)
  <2>1. i \in DOMAIN c
    BY <1>2, KeyIndex
  <2> HIDE DEF i
  <2>2. CacheInv(P, DropAt(c, i)) /\ Len(DropAt(c, i)) = Len(c) - 1
    BY <2>1, DropAtInv
  <2>3. Len(DropAt(c, i)) \in 0..DirFdCacheSize
    BY <2>2 DEF CacheInv
  <2> QED
    BY <1>1, <1>2, <2>2, <2>3, AccessorAssumption DEF Without, i
<1>3. CASE key \notin Keys(c)
  BY <1>1, <1>3, AccessorAssumption DEF Without
<1> QED
  BY <1>2, <1>3

\* get() keeps what the cache has.
LEMMA PromoteInv ==
  ASSUME NEW P, NEW c, CacheInv(P, c), NEW key \in Keys(c)
  PROVE  CacheInv(P, Promote(c, key))
BY CachedShows, WithoutInv, AppendInv DEF Promote

\* upsert() keeps the size of the cache within its limit.
LEMMA UpsertInv ==
  ASSUME NEW P, NEW c, CacheInv(P, c), NEW key \in Seq(EntryName) \ {<<>>}, NEW fd, ShowsDir(P, fd, key)
  PROVE  CacheInv(P, Upsert(c, key, fd))
<1>1. CASE DirFdCacheSize = 0
  BY <1>1 DEF Upsert
<1>2. CASE DirFdCacheSize # 0
  <2> DEFINE s == Without(c, key)
             room == IF Len(s) >= DirFdCacheSize THEN DropAt(s, 1) ELSE s
  <2>1. CacheInv(P, s)
    BY WithoutInv
  <2> HIDE DEF s
  <2>2. Len(s) \in 0..DirFdCacheSize /\ DOMAIN s = 1..Len(s)
    BY <2>1 DEF CacheInv
  <2>3. CacheInv(P, room) /\ Len(room) < DirFdCacheSize
    <3>1. CASE Len(s) >= DirFdCacheSize
      <4>1. 1 \in DOMAIN s
        BY <1>2, <2>2, <3>1, AccessorAssumption
      <4>2. CacheInv(P, DropAt(s, 1)) /\ Len(DropAt(s, 1)) < DirFdCacheSize
        BY <2>1, <2>2, <4>1, DropAtInv, AccessorAssumption
      <4> QED
        BY <3>1, <4>2
    <3>2. CASE ~(Len(s) >= DirFdCacheSize)
      BY <2>1, <2>2, <3>2, AccessorAssumption
    <3> QED
      BY <3>1, <3>2
  <2> HIDE DEF room
  <2>4. CacheInv(P, Append(room, <<key, fd>>))
    BY <2>3, AppendInv
  <2> QED
    BY <1>2, <2>4 DEF Upsert, room, s
<1> QED
  BY <1>1, <1>2

\* The descriptors of caches of given lengths.
Held(f) == {h \in Accessor \X (1..DirFdCacheSize) : h[2] <= f[h[1]]}

\* They are those of one cache and those of the others.
LEMMA HeldSplit ==
  ASSUME NEW f \in [Accessor -> 0..DirFdCacheSize], NEW x \in Accessor
  PROVE  /\ Cardinality({h \in Held(f) : h[1] # x}) \in Nat
         /\ Cardinality(Held(f)) = Cardinality({h \in Held(f) : h[1] # x}) + f[x]
<1> DEFINE Others == {h \in Held(f) : h[1] # x}
           Own == {x} \X (1..f[x])
<1>1. f[x] \in 0..DirFdCacheSize /\ DirFdCacheSize \in Nat
  BY AccessorAssumption
<1>2. IsFiniteSet(1..DirFdCacheSize) /\ IsFiniteSet(1..f[x]) /\ Cardinality(1..f[x]) = f[x]
  BY <1>1, FS_Interval
<1>3. IsFiniteSet(Accessor \X (1..DirFdCacheSize))
  BY <1>2, FS_Product, AccessorAssumption
<1>4. IsFiniteSet(Held(f)) /\ IsFiniteSet(Others)
  BY <1>3, FS_Subset DEF Held
<1>5. IsFiniteSet({x}) /\ Cardinality({x}) = 1
  BY FS_Singleton
<1>6. IsFiniteSet(Own) /\ Cardinality(Own) = 1 * f[x]
  BY <1>2, <1>5, FS_Product
<1>7. Held(f) = Others \cup Own /\ Others \cap Own = {}
  BY <1>1 DEF Held
<1> HIDE DEF Others, Own
<1>8. Cardinality(Held(f)) = Cardinality(Others) + Cardinality(Own) - 0
  BY <1>4, <1>6, <1>7, FS_Union, FS_EmptySet
<1>9. Cardinality(Others) \in Nat
  BY <1>4, FS_CardinalityType
<1>10. Cardinality(Held(f)) = Cardinality(Others) + f[x]
  BY <1>1, <1>6, <1>8, <1>9
<1> QED
  BY <1>9, <1>10 DEF Others

\* When one length changes, the number of descriptors changes with it.
LEMMA HeldChange ==
  ASSUME NEW f \in [Accessor -> 0..DirFdCacheSize], NEW g \in [Accessor -> 0..DirFdCacheSize],
         NEW x \in Accessor, \A y \in Accessor \ {x} : g[y] = f[y]
  PROVE  Cardinality(Held(g)) = Cardinality(Held(f)) + g[x] - f[x]
<1> DEFINE OthersF == {h \in Held(f) : h[1] # x}
           OthersG == {h \in Held(g) : h[1] # x}
<1>1. OthersF = OthersG
  BY DEF Held
<1>2. Cardinality(Held(f)) = Cardinality(OthersF) + f[x] /\ Cardinality(OthersF) \in Nat
  BY HeldSplit
<1>3. Cardinality(Held(g)) = Cardinality(OthersG) + g[x]
  BY HeldSplit
<1>4. f[x] \in Nat /\ g[x] \in Nat
  BY AccessorAssumption
<1> HIDE DEF OthersF, OthersG
<1> QED
  BY <1>1, <1>2, <1>3, <1>4

-----------------------------------------------------------------------------
(* Steps: every action is first shown to keep the invariant with the past  *)
(* as it was, and then with the past that Remember makes of it.            *)

\* The same of a call under way.
LEMMA CallInvGrows ==
  ASSUME NEW P, NEW Q, P \subseteq Q, NEW openat2, NEW m, CallInv(P, openat2, m)
  PROVE  CallInv(Q, openat2, m)
<1>1. \A p : Raced(P, openat2, p) => Raced(Q, openat2, p)
  BY DEF Raced
<1>2. WalkFailed(P, openat2, m) => WalkFailed(Q, openat2, m)
  BY <1>1 DEF WalkFailed
<1>3. InTheWay(P, m) => InTheWay(Q, m)
  BY DEF InTheWay
<1>4. Answered(P, openat2, m) => Answered(Q, openat2, m)
  BY <1>1 DEF Answered
<1>5. \A fd, p : ShowsDir(P, fd, p) => ShowsDir(Q, fd, p)
  BY DEF ShowsDir
<1>6. OnTheWay(P, openat2, m) => OnTheWay(Q, openat2, m)
  BY <1>2, <1>3, <1>5 DEF OnTheWay
<1> QED
  BY <1>4, <1>6 DEF CallInv

\* A call, with the past P of its accessor.
CallOK(P, n) ==
  /\ DOMAIN n = CallFields
  /\ n.pc = "idle" => n = Idle
  /\ n.pc # "idle" => CallInv(P, haveOpenat2, n)
  /\ n.pc \notin {"idle", "done"} => IsDir(onDisk)

CallsGoOn == DOMAIN rd' = Caller /\ \A r \in Caller : CallOK(past[rd'[r].by], rd'[r])

CachesGoOn ==
  /\ DOMAIN dirFdCache' = Accessor
  /\ \A x \in Accessor : CacheInv(past[x], dirFdCache'[x])
  /\ globalDirFdCount' = Cardinality(HeldFds')

\* Remember forgets nothing that a call or a cache still needs.
LEMMA PastNext ==
  ASSUME DiskInv, Remember, onDisk' \in DiskTree, onDisk' = onDisk \/ (IsDir(onDisk) /\ IsDir(onDisk)'),
         haveOpenat2' = haveOpenat2
  PROVE  /\ DiskInv'
         /\ \A x \in Accessor : past[x] \subseteq past'[x] \/ Quiet(x)'
<1>1. past' = [x \in Accessor |-> IF Quiet(x)' THEN {onDisk'} ELSE past[x] \cup {onDisk'}]
  BY DEF Remember
<1>2. \A x \in Accessor : past'[x] = {onDisk'} \/ past'[x] = past[x] \cup {onDisk'}
  BY <1>1
<1>3. past' \in [Accessor -> SUBSET DiskTree] /\ \A x \in Accessor : onDisk' \in past'[x]
  BY <1>1, <1>2 DEF DiskInv
<1>4. ASSUME NEW x \in Accessor, NEW t \in past'[x]
      PROVE  t = onDisk' \/ (IsDir(t) /\ IsDir(onDisk)')
  BY <1>2 DEF DiskInv
<1>5. \A x \in Accessor : past[x] \subseteq past'[x] \/ Quiet(x)'
  BY <1>1
<1> QED
  BY <1>3, <1>4, <1>5 DEF DiskInv

\* The steps of calls and caches that go on keep the invariant.
LEMMA GoOn ==
  ASSUME DiskInv, Remember, onDisk' \in DiskTree, onDisk' = onDisk \/ (IsDir(onDisk) /\ IsDir(onDisk)'),
         haveOpenat2' = haveOpenat2, CallsGoOn, CachesGoOn
  PROVE  AccInv'
<1>1. DiskInv' /\ \A x \in Accessor : past[x] \subseteq past'[x] \/ Quiet(x)'
  BY PastNext
<1>2. ASSUME NEW x \in Accessor PROVE CacheInv(past'[x], dirFdCache'[x])
  <2>1. CASE Quiet(x)'
    BY <2>1, EmptyCacheInv DEF Quiet
  <2>2. CASE past[x] \subseteq past'[x]
    BY <2>2, CacheInvGrows DEF CachesGoOn
  <2> QED
    BY <1>1, <2>1, <2>2
<1>3. CachesInv'
  BY <1>2 DEF CachesGoOn, CachesInv, CacheInv, ShowsDir, Exists, TypeAt
<1>4. ASSUME NEW r \in Caller
      PROVE  /\ DOMAIN rd'[r] = CallFields
             /\ rd'[r].pc = "idle" => rd'[r] = Idle
             /\ rd'[r].pc # "idle" => CallInv(past'[rd'[r].by], haveOpenat2, rd'[r])
             /\ rd'[r].pc \notin {"idle", "done"} => IsDir(onDisk)'
  <2>1. CallOK(past[rd'[r].by], rd'[r])
    BY DEF CallsGoOn
  <2>2. ASSUME rd'[r].pc # "idle" PROVE CallInv(past'[rd'[r].by], haveOpenat2, rd'[r])
    <3>1. CallInv(past[rd'[r].by], haveOpenat2, rd'[r])
      BY <2>1, <2>2 DEF CallOK
    <3>2. rd'[r].by \in Accessor
      BY <3>1 DEF CallInv
    <3>3. past[rd'[r].by] \subseteq past'[rd'[r].by]
      BY <1>1, <3>2 DEF Quiet
    <3> QED
      BY <3>1, <3>3, CallInvGrows
  <2> QED
    BY <2>1, <2>2 DEF CallOK, IsDir
<1>5. CallsInv'
  BY <1>4 DEF CallsGoOn, CallsInv
<1> QED
  BY <1>1, <1>3, <1>5 DEF AccInv

\* One caller moves.
LEMMA OneCall ==
  ASSUME CallsInv, NEW r \in Caller, NEW n, rd' = [rd EXCEPT ![r] = n], CallOK(past[n.by], n)
  PROVE  CallsGoOn
<1>1. DOMAIN rd' = Caller
  BY DEF CallsInv
<1>2. ASSUME NEW q \in Caller PROVE CallOK(past[rd'[q].by], rd'[q])
  <2>1. CASE q = r
    BY <2>1 DEF CallsInv
  <2>2. CASE q # r
    BY <2>2 DEF CallsInv, CallOK
  <2> QED
    BY <2>1, <2>2
<1> QED
  BY <1>1, <1>2 DEF CallsGoOn

\* No caller moves.
LEMMA NoCall ==
  ASSUME CallsInv, UNCHANGED rd
  PROVE  CallsGoOn
BY DEF CallsInv, CallsGoOn, CallOK

\* One cache changes.
LEMMA OneCache ==
  ASSUME CachesInv, NEW x \in Accessor, NEW c, SetCache(x, c), CacheInv(past[x], c)
  PROVE  CachesGoOn
<1> DEFINE f == [y \in Accessor |-> Len(dirFdCache[y])]
           g == [y \in Accessor |-> Len(dirFdCache'[y])]
<1>1. DOMAIN dirFdCache' = Accessor /\ dirFdCache'[x] = c /\ \A y \in Accessor \ {x} : dirFdCache'[y] = dirFdCache[y]
  BY DEF CachesInv, SetCache
<1>2. \A y \in Accessor : CacheInv(past[y], dirFdCache'[y])
  BY <1>1 DEF CachesInv
<1>3. f \in [Accessor -> 0..DirFdCacheSize]
  BY DEF CachesInv, CacheInv
<1>4. g \in [Accessor -> 0..DirFdCacheSize]
  BY <1>2 DEF CacheInv
<1>5. HeldFds = Held(f) /\ HeldFds' = Held(g)
  BY DEF HeldFds, Held
<1>6. f[x] = Len(dirFdCache[x]) /\ g[x] = Len(c) /\ \A y \in Accessor \ {x} : g[y] = f[y]
  BY <1>1
<1> HIDE DEF f, g
<1>7. Cardinality(Held(g)) = Cardinality(Held(f)) + g[x] - f[x]
  BY <1>3, <1>4, <1>6, HeldChange
<1>8. globalDirFdCount' = Cardinality(Held(g))
  BY <1>5, <1>6, <1>7 DEF SetCache, CachesInv
<1> QED
  BY <1>1, <1>2, <1>5, <1>8 DEF CachesGoOn

\* No cache changes.
LEMMA NoCache ==
  ASSUME CachesInv, UNCHANGED cacheVars
  PROVE  CachesGoOn
<1>1. HeldFds' = HeldFds
  BY DEF cacheVars, HeldFds
<1> QED
  BY <1>1 DEF CachesInv, CachesGoOn, cacheVars

\* A call under way.
LEMMA UnderWay ==
  ASSUME DiskInv, CallsInv, NEW r \in Caller, rd[r].pc \notin {"idle", "done"}
  PROVE  /\ DOMAIN rd[r] = CallFields /\ rd[r].by \in Accessor /\ rd[r].call \in Calls
         /\ rd[r].path \in Seq(EntryName) /\ Len(rd[r].path) \in Nat
         /\ OnTheWay(past[rd[r].by], haveOpenat2, rd[r])
         /\ IsDir(onDisk) /\ onDisk \in past[rd[r].by] /\ past[rd[r].by] \subseteq DiskTree
         /\ rd[r].pc \in {"evict", "evicting", "find", "walk", "handOn", "keep", "diagnose", "final"}
<1>1. DOMAIN rd[r] = CallFields /\ CallInv(past[rd[r].by], haveOpenat2, rd[r]) /\ IsDir(onDisk)
  BY DEF CallsInv
<1>2. rd[r].by \in Accessor
  BY <1>1 DEF CallInv
<1> QED
  BY <1>1, <1>2 DEF CallInv, DiskInv

\* A call under way moves on, or is answered.
LEMMA MovesOn ==
  ASSUME DiskInv, CallsInv, NEW r \in Caller, rd[r].pc \notin {"idle", "done"},
         NEW n, DOMAIN n = CallFields, n.by = rd[r].by, n.call = rd[r].call, n.path = rd[r].path,
         \/ /\ n.pc \in {"evict", "evicting", "find", "walk", "handOn", "keep", "diagnose", "final"}
            /\ OnTheWay(past[n.by], haveOpenat2, n)
         \/ n.pc = "done" /\ Answered(past[n.by], haveOpenat2, n)
  PROVE  CallOK(past[n.by], n)
BY UnderWay DEF CallOK, CallInv

\* Eviction empties whole caches, and the count with them.
LEMMA EvictGoesOn ==
  ASSUME AccInv, NEW r \in Caller, maybeEvictFromGlobalCaches(r) \/ EvictNext(r)
  PROVE  CallsGoOn /\ CachesGoOn
<1> DEFINE m == rd[r]
           P == past[m.by]
<1>0. m.pc \in {"evict", "evicting"}
  BY DEF maybeEvictFromGlobalCaches, EvictNext
<1>1. DiskInv /\ CallsInv /\ CachesInv /\ DOMAIN m = CallFields /\ OnTheWay(P, haveOpenat2, m)
  BY <1>0, UnderWay DEF AccInv
<1>2. \E pc \in {"evicting", "find"} : \E next :
        rd' = [rd EXCEPT ![r] = [m EXCEPT !.pc = pc, !.next = next]]
  <2>1. CASE rd' = [rd EXCEPT ![r].pc = "find"]
    <3>1. [m EXCEPT !.pc = "find"] = [m EXCEPT !.pc = "find", !.next = m.next]
      BY <1>1 DEF CallFields
    <3> QED
      BY <2>1, <3>1
  <2>2. CASE m.pc = "evicting" /\ rd' = [rd EXCEPT ![r].next = @ + 1]
    <3>1. [m EXCEPT !.next = @ + 1] = [m EXCEPT !.pc = "evicting", !.next = m.next + 1]
      BY <1>1, <2>2 DEF CallFields
    <3> QED
      BY <2>2, <3>1
  <2>3. CASE rd' = [rd EXCEPT ![r] = [@ EXCEPT !.pc = "evicting", !.next = 1]]
    BY <2>3
  <2>4. CASE rd' = [rd EXCEPT ![r] = [@ EXCEPT !.pc = "find", !.next = 0]]
    BY <2>4
  <2> QED
    BY <2>1, <2>2, <2>3, <2>4 DEF maybeEvictFromGlobalCaches, EvictNext
<1>3. PICK pc \in {"evicting", "find"} : \E next :
         rd' = [rd EXCEPT ![r] = [m EXCEPT !.pc = pc, !.next = next]]
  BY <1>2
<1>4. PICK next : rd' = [rd EXCEPT ![r] = [m EXCEPT !.pc = pc, !.next = next]]
  BY <1>3
<1> DEFINE n == [m EXCEPT !.pc = pc, !.next = next]
<1>5. DOMAIN n = CallFields /\ n.pc = pc /\ \A f \in CallFields \ {"pc", "next"} : n[f] = m[f]
  BY <1>1 DEF CallFields
<1>6. /\ n.by = m.by /\ n.call = m.call /\ n.path = m.path /\ n.k = m.k /\ n.anchor = m.anchor /\ n.fd = m.fd
      /\ n.status = m.status
  BY <1>5 DEF CallFields
<1> HIDE DEF n
<1>7. OnTheWay(P, haveOpenat2, n)
  BY <1>0, <1>1, <1>5, <1>6 DEF OnTheWay
<1>8. CallsGoOn
  <2>1. rd' = [rd EXCEPT ![r] = n]
    BY <1>4 DEF n
  <2>2. CallOK(past[n.by], n)
    BY <1>0, <1>1, <1>3, <1>5, <1>6, <1>7, MovesOn
  <2> QED
    BY <1>1, <2>1, <2>2, OneCall
<1>9. CachesGoOn
  <2>1. CASE UNCHANGED cacheVars
    BY <1>1, <2>1, NoCache
  <2>2. CASE m.next \in Accessor /\ SetCache(m.next, <<>>)
    BY <1>1, <2>2, EmptyCacheInv, OneCache
  <2> QED
    BY <2>1, <2>2 DEF maybeEvictFromGlobalCaches, EvictNext
<1> QED
  BY <1>8, <1>9

\* The cached ancestor is a directory on the way, in one tree of the past.
LEMMA FindAnchorGoesOn ==
  ASSUME AccInv, NEW r \in Caller, FindAnchor(r)
  PROVE  CallsGoOn /\ CachesGoOn
<1> DEFINE m == rd[r]
           x == m.by
           P == past[x]
           c == dirFdCache[x]
           path == m.path
           parent == parentOf(path)
<1>0. m.pc = "find"
  BY DEF FindAnchor
<1>1. /\ DiskInv /\ CallsInv /\ CachesInv /\ DOMAIN m = CallFields /\ OnTheWay(P, haveOpenat2, m)
      /\ x \in Accessor /\ path \in Seq(EntryName) /\ Len(path) \in Nat
  BY <1>0, UnderWay DEF AccInv
<1>2. m.k = 0 /\ m.anchor = 0 /\ Len(path) > 1 /\ m.status = "ok"
  BY <1>0, <1>1 DEF OnTheWay
<1>3. CacheInv(P, c)
  BY <1>1 DEF CachesInv
<1>4. CASE Hits(c, parent) = {} /\ rd' = [rd EXCEPT ![r].pc = "walk"] /\ UNCHANGED cacheVars
  <2> DEFINE n == [m EXCEPT !.pc = "walk"]
  <2>1. /\ DOMAIN n = CallFields /\ n.pc = "walk" /\ n.by = m.by /\ n.call = m.call /\ n.path = m.path /\ n.k = m.k
        /\ n.anchor = m.anchor /\ n.fd = m.fd /\ n.status = m.status /\ rd' = [rd EXCEPT ![r] = n]
    BY <1>1, <1>4 DEF CallFields
  <2> HIDE DEF n
  <2>2. OnTheWay(P, haveOpenat2, n)
    BY <1>1, <1>2, <2>1 DEF OnTheWay
  <2>3. CallsGoOn
    BY <1>0, <1>1, <2>1, <2>2, MovesOn, OneCall
  <2> QED
    BY <1>1, <1>4, <2>3, NoCache
<1>5. ASSUME NEW a \in Hits(c, parent), SetCache(x, Promote(c, Prefix(parent, a))),
             rd' = [rd EXCEPT ![r] = [@ EXCEPT !.pc = IF a = Len(parent) THEN "keep" ELSE "walk",
                                               !.fd = Cached(c, Prefix(parent, a)), !.k = a, !.anchor = a]]
      PROVE  CallsGoOn /\ CachesGoOn
  <2> DEFINE key == Prefix(parent, a)
             pc == IF a = Len(parent) THEN "keep" ELSE "walk"
             n == [m EXCEPT !.pc = pc, !.fd = Cached(c, key), !.k = a, !.anchor = a]
  <2>1. Len(path) - 1 \in 0..Len(path) /\ parent = Prefix(path, Len(path) - 1)
    BY <1>1, <1>2 DEF parentOf
  <2>2. parent \in Seq(EntryName) /\ Len(parent) = Len(path) - 1
    <3> HIDE DEF path, parent
    <3> QED
      BY <1>1, <2>1, PrefixFacts
  <2>3. a \in 1..Len(parent) /\ key \in Keys(c)
    BY <1>5 DEF Hits
  <2>4. key = Prefix(path, a)
    BY <1>1, <2>1, <2>2, <2>3, PrefixOfPrefix
  <2> HIDE DEF key
  <2>5. ShowsDir(P, Cached(c, key), key) /\ CacheInv(P, Promote(c, key))
    BY <1>3, <2>3, CachedShows, PromoteInv
  <2>6. CachesGoOn
    BY <1>1, <1>5, <2>5, OneCache DEF key
  <2>7. /\ DOMAIN n = CallFields /\ n.pc = pc /\ n.by = m.by /\ n.call = m.call /\ n.path = m.path /\ n.k = a
        /\ n.anchor = a /\ n.fd = Cached(c, key) /\ n.status = m.status
    BY <1>1 DEF CallFields
  <2>8. rd' = [rd EXCEPT ![r] = n]
    BY <1>5 DEF key
  <2> HIDE DEF n
  <2>9. OnTheWay(P, haveOpenat2, n)
    BY <1>1, <1>2, <2>2, <2>3, <2>4, <2>5, <2>7 DEF OnTheWay
  <2>10. CallsGoOn
    BY <1>0, <1>1, <2>7, <2>8, <2>9, MovesOn, OneCall
  <2> QED
    BY <2>6, <2>10
<1> QED
  BY <1>4, <1>5 DEF FindAnchor

\* The parent that was walked to is filed under its path.
LEMMA KeepParentGoesOn ==
  ASSUME AccInv, NEW r \in Caller, KeepParent(r)
  PROVE  CallsGoOn /\ CachesGoOn
<1> DEFINE m == rd[r]
           x == m.by
           P == past[x]
           n == [m EXCEPT !.pc = "final"]
<1>0. m.pc = "keep"
  BY DEF KeepParent
<1>1. /\ DiskInv /\ CallsInv /\ CachesInv /\ DOMAIN m = CallFields /\ OnTheWay(P, haveOpenat2, m)
      /\ x \in Accessor /\ m.path \in Seq(EntryName) /\ Len(m.path) \in Nat
  BY <1>0, UnderWay DEF AccInv
<1>2. /\ m.k > 0 /\ m.k = Len(m.path) - 1 /\ m.status = "ok" /\ m.k \in 0..Len(m.path)
      /\ ShowsDir(P, m.fd, Prefix(m.path, m.k))
  BY <1>0, <1>1 DEF OnTheWay
<1>3. parentOf(m.path) = Prefix(m.path, m.k)
  BY <1>2 DEF parentOf
<1>4. parentOf(m.path) \in Seq(EntryName) \ {<<>>}
  BY <1>1, <1>2, <1>3, PrefixFacts
<1>5. CacheInv(P, Upsert(dirFdCache[x], parentOf(m.path), m.fd))
  BY <1>1, <1>2, <1>3, <1>4, UpsertInv DEF CachesInv
<1>6. CachesGoOn
  BY <1>1, <1>5, OneCache DEF KeepParent, insertIntoDirFdCache
<1>7. /\ DOMAIN n = CallFields /\ n.pc = "final" /\ n.by = m.by /\ n.call = m.call /\ n.path = m.path /\ n.k = m.k
      /\ n.anchor = m.anchor /\ n.fd = m.fd /\ n.status = m.status /\ rd' = [rd EXCEPT ![r] = n]
  BY <1>1 DEF CallFields, KeepParent
<1> HIDE DEF n
<1>8. OnTheWay(P, haveOpenat2, n)
  BY <1>1, <1>2, <1>7 DEF OnTheWay
<1>9. CallsGoOn
  BY <1>0, <1>1, <1>7, <1>8, MovesOn, OneCall
<1> QED
  BY <1>6, <1>9

\* So is what the callback gets, because CacheKey() puts the anchor's path in front.
LEMMA HandOnGoesOn ==
  ASSUME AccInv, NEW r \in Caller, HandOn(r)
  PROVE  CallsGoOn /\ CachesGoOn
<1> DEFINE m == rd[r]
           x == m.by
           P == past[x]
           n == [m EXCEPT !.pc = "walk"]
           key == CacheKey(Prefix(m.path, m.anchor), SubSeq(m.path, m.anchor + 1, m.k - 1))
<1>0. m.pc = "handOn"
  BY DEF HandOn
<1>1. /\ DiskInv /\ CallsInv /\ CachesInv /\ DOMAIN m = CallFields /\ OnTheWay(P, haveOpenat2, m)
      /\ x \in Accessor /\ m.path \in Seq(EntryName) /\ Len(m.path) \in Nat
  BY <1>0, UnderWay DEF AccInv
<1>2. /\ m.k < Len(m.path) - 1 /\ m.status = "ok" /\ m.k - 1 \in 0..Len(m.path) /\ m.anchor \in 0..(m.k - 1)
      /\ m.k - 1 # 0 /\ ShowsDir(P, m.prev, Prefix(m.path, m.k - 1))
  BY <1>0, <1>1 DEF OnTheWay
<1>3. key = Prefix(m.path, m.k - 1)
  BY <1>1, <1>2, KeyIsPrefix
<1> HIDE DEF key
<1>4. key \in Seq(EntryName) \ {<<>>}
  BY <1>1, <1>2, <1>3, PrefixFacts
<1>5. CacheInv(P, Upsert(dirFdCache[x], key, m.prev))
  BY <1>1, <1>2, <1>3, <1>4, UpsertInv DEF CachesInv
<1>6. CachesGoOn
  BY <1>1, <1>5, OneCache DEF HandOn, insertIntoDirFdCache, key
<1>7. /\ DOMAIN n = CallFields /\ n.pc = "walk" /\ n.by = m.by /\ n.call = m.call /\ n.path = m.path /\ n.k = m.k
      /\ n.anchor = m.anchor /\ n.fd = m.fd /\ n.status = m.status /\ rd' = [rd EXCEPT ![r] = n]
  BY <1>1 DEF CallFields, HandOn
<1> HIDE DEF n
<1>8. OnTheWay(P, haveOpenat2, n)
  BY <1>1, <1>2, <1>7 DEF OnTheWay
<1>9. CallsGoOn
  BY <1>0, <1>1, <1>7, <1>8, MovesOn, OneCall
<1> QED
  BY <1>6, <1>9

\* The tree that the open directory is in.
LEMMA WalkTree ==
  ASSUME DiskInv, CallsInv, NEW r \in Caller, rd[r].pc \notin {"idle", "done"}
  PROVE  LET m == rd[r]
             t == TreeAt(m.fd)
         IN /\ t \in past[m.by] /\ t \in DiskTree
            /\ m.k \in 0..Len(m.path) /\ m.fd.at = Prefix(m.path, m.k)
            /\ Exists(t, Prefix(m.path, m.k)) /\ TypeAt(t, Prefix(m.path, m.k)) = "directory"
            /\ m.k > 0 => t = m.fd.tree
            /\ m.k < Len(m.path) => Append(m.fd.at, m.path[m.k + 1]) = Prefix(m.path, m.k + 1)
<1> DEFINE m == rd[r]
           t == TreeAt(m.fd)
           P == past[m.by]
           p == Prefix(m.path, m.k)
<1>1. /\ m.path \in Seq(EntryName) /\ Len(m.path) \in Nat /\ OnTheWay(P, haveOpenat2, m) /\ IsDir(onDisk)
      /\ onDisk \in P /\ P \subseteq DiskTree
  BY UnderWay
<1>2. m.k \in 0..Len(m.path) /\ ShowsDir(P, m.fd, p)
  BY <1>1 DEF OnTheWay
<1>3. (p = <<>> <=> m.k = 0) /\ (m.k < Len(m.path) => Append(p, m.path[m.k + 1]) = Prefix(m.path, m.k + 1))
  BY <1>1, <1>2, PrefixFacts
<1>4. m.fd.at = p
  BY <1>2 DEF ShowsDir
<1>5. t \in P /\ Exists(t, p) /\ TypeAt(t, p) = "directory" /\ (m.k > 0 => t = m.fd.tree)
  <2> HIDE DEF p
  <2>1. CASE p = <<>>
    BY <1>1, <1>2, <1>3, <1>4, <2>1, RootExists DEF TreeAt, IsDir
  <2>2. CASE p # <<>>
    BY <1>2, <1>4, <2>2 DEF TreeAt, ShowsDir
  <2> QED
    BY <2>1, <2>2
<1> QED
  BY <1>1, <1>2, <1>3, <1>4, <1>5

\* The next directory is in the tree of the one before it; or the walk ends there.
LEMMA OpenComponentGoesOn ==
  ASSUME AccInv, NEW r \in Caller, OpenComponent(r)
  PROVE  CallsGoOn /\ CachesGoOn
<1> DEFINE m == rd[r]
           P == past[m.by]
           t == TreeAt(m.fd)
           p == Append(m.fd.at, m.path[m.k + 1])
           q == Prefix(m.path, m.k + 1)
           len == Len(m.path)
<1>0. m.pc = "walk"
  BY DEF OpenComponent
<1>1. /\ DiskInv /\ CallsInv /\ CachesInv /\ DOMAIN m = CallFields /\ OnTheWay(P, haveOpenat2, m)
      /\ m.by \in Accessor /\ m.path \in Seq(EntryName) /\ len \in Nat
      /\ m.call \in Calls
  BY <1>0, UnderWay DEF AccInv
<1>2. m.k \in Nat /\ m.k < len - 1 /\ m.status = "ok" /\ m.anchor \in 0..m.k /\ ShowsDir(P, m.fd, Prefix(m.path, m.k))
  BY <1>0, <1>1 DEF OnTheWay
<1>3. /\ t \in P /\ t \in DiskTree /\ Exists(t, Prefix(m.path, m.k)) /\ TypeAt(t, Prefix(m.path, m.k)) = "directory"
      /\ m.k > 0 => t = m.fd.tree
  BY <1>0, <1>1, WalkTree
<1>4. p = q
  BY <1>0, <1>1, <1>2, WalkTree
<1>5. m.k + 1 \in 0..(len - 1) /\ m.k \in 0..(len - 1) /\ m.k + 1 \in 0..len
  BY <1>1, <1>2
<1>6. q # <<>>
  BY <1>1, <1>2, <1>5, PrefixFacts
<1> HIDE DEF p, q
<1>7. CachesGoOn
  BY <1>1, NoCache DEF OpenComponent
<1>8. ASSUME NEW err \in {"ENOENT", "ENOTDIR", "SymlinkNotAllowed"},
             rd' = [rd EXCEPT ![r] = [m EXCEPT !.pc = "final", !.status = err]],
             MemStatus(t, m.path) = IF err = "SymlinkNotAllowed" THEN err ELSE "null"
      PROVE  CallsGoOn
  <2> DEFINE n == [m EXCEPT !.pc = "final", !.status = err]
  <2>1. /\ DOMAIN n = CallFields /\ n.pc = "final" /\ n.by = m.by /\ n.call = m.call /\ n.path = m.path /\ n.k = m.k
        /\ n.anchor = m.anchor /\ n.fd = m.fd /\ n.status = err
    BY <1>1 DEF CallFields
  <2>2. rd' = [rd EXCEPT ![r] = n]
    BY <1>8
  <2> HIDE DEF n
  <2>3. WalkFailed(P, haveOpenat2, n)
    BY <1>3, <1>8, <2>1 DEF WalkFailed
  <2>4. OnTheWay(P, haveOpenat2, n)
    BY <1>1, <1>2, <2>1, <2>3 DEF OnTheWay
  <2> QED
    BY <1>0, <1>1, <2>1, <2>2, <2>4, MovesOn, OneCall
<1>9. ASSUME ~Exists(t, p), rd' = [rd EXCEPT ![r] = [m EXCEPT !.pc = "final", !.status = "ENOENT"]]
      PROVE  CallsGoOn
  <2>1. MemStatus(t, m.path) = "null"
    BY <1>1, <1>3, <1>4, <1>5, <1>9, MissingIsNull DEF q
  <2> QED
    BY <1>8, <1>9, <2>1
<1>10. ASSUME Exists(t, p), TypeAt(t, p) # "directory",
              rd' = [rd EXCEPT ![r] =
                IF ~haveOpenat2 THEN [m EXCEPT !.pc = "diagnose"]
                ELSE [m EXCEPT !.pc = "final",
                               !.status = IF TypeAt(t, p) = "symlink" THEN "SymlinkNotAllowed" ELSE "ENOTDIR"]]
       PROVE  CallsGoOn
  <2>1. CASE haveOpenat2
    <3> DEFINE err == IF TypeAt(t, p) = "symlink" THEN "SymlinkNotAllowed" ELSE "ENOTDIR"
    <3>1. MemStatus(t, m.path) = IF err = "SymlinkNotAllowed" THEN err ELSE "null"
      BY <1>1, <1>3, <1>4, <1>5, <1>10, BlockedStatus DEF q
    <3>2. err \in {"ENOENT", "ENOTDIR", "SymlinkNotAllowed"}
      OBVIOUS
    <3>3. rd' = [rd EXCEPT ![r] = [m EXCEPT !.pc = "final", !.status = err]]
      BY <1>10, <2>1
    <3> HIDE DEF err
    <3> QED
      BY <1>8, <3>1, <3>2, <3>3
  <2>2. CASE ~haveOpenat2
    <3> DEFINE n == [m EXCEPT !.pc = "diagnose"]
    <3>1. /\ DOMAIN n = CallFields /\ n.pc = "diagnose" /\ n.by = m.by /\ n.call = m.call
          /\ n.path = m.path /\ n.k = m.k /\ n.anchor = m.anchor /\ n.fd = m.fd /\ n.status = m.status
      BY <1>1 DEF CallFields
    <3>2. rd' = [rd EXCEPT ![r] = n]
      BY <1>10, <2>2
    <3> HIDE DEF n
    <3>3. InTheWay(P, n)
      BY <1>3, <1>4, <1>10, <3>1 DEF InTheWay, q
    <3>4. OnTheWay(P, haveOpenat2, n)
      BY <1>1, <1>2, <2>2, <3>1, <3>3 DEF OnTheWay
    <3> QED
      BY <1>0, <1>1, <3>1, <3>2, <3>4, MovesOn, OneCall
  <2> QED
    BY <2>1, <2>2
<1>11. ASSUME Exists(t, p), TypeAt(t, p) = "directory", rd' = [rd EXCEPT ![r] = Descended(m, [tree |-> t, at |-> p])]
       PROVE  CallsGoOn
  <2> DEFINE pc == CASE m.k + 1 = len - 1 -> "keep"
                     [] m.k + 1 < len - 1 /\ m.k > m.anchor /\ ~haveOpenat2 -> "handOn"
                     [] OTHER -> "walk"
             fd == [tree |-> t, at |-> p]
             n == Descended(m, fd)
  <2>1. \/ pc = "keep" /\ m.k + 1 = len - 1
        \/ pc = "handOn" /\ m.k + 1 < len - 1 /\ m.k > m.anchor
        \/ pc = "walk" /\ m.k + 1 < len - 1
    <3> HIDE DEF m
    <3> QED
      BY <1>1, <1>2
  <2> HIDE DEF pc
  <2>2. /\ DOMAIN n = CallFields /\ n.pc = pc /\ n.by = m.by /\ n.call = m.call /\ n.path = m.path /\ n.k = m.k + 1
        /\ n.anchor = m.anchor /\ n.fd = fd /\ n.prev = m.fd /\ n.status = m.status
    BY <1>1 DEF CallFields, Descended, pc
  <2>3. rd' = [rd EXCEPT ![r] = n]
    BY <1>11
  <2>4. ShowsDir(P, fd, q)
    BY <1>3, <1>4, <1>11 DEF ShowsDir
  <2> HIDE DEF n, fd
  <2>5. OnTheWay(P, haveOpenat2, n)
    <3>1. n.k \in Nat /\ n.anchor \in 0..n.k /\ n.k <= Len(n.path) /\ n.k - 1 = m.k
      BY <1>1, <1>2, <2>2
    <3>2. ShowsDir(P, n.fd, Prefix(n.path, n.k)) /\ ShowsDir(P, n.prev, Prefix(n.path, n.k - 1))
      BY <1>2, <2>2, <2>4, <3>1 DEF q
    <3> QED
      BY <1>1, <1>2, <2>1, <2>2, <3>1, <3>2 DEF OnTheWay
  <2> QED
    BY <1>0, <1>1, <2>1, <2>2, <2>3, <2>5, MovesOn, OneCall
<1>12. CallsGoOn
  <2>1. CASE ~Exists(t, p)
    BY <1>9, <2>1 DEF OpenComponent, p
  <2>2. CASE Exists(t, p) /\ TypeAt(t, p) # "directory"
    BY <1>10, <2>2 DEF OpenComponent, p
  <2>3. CASE Exists(t, p) /\ TypeAt(t, p) = "directory"
    BY <1>11, <2>3 DEF OpenComponent, p
  <2> QED
    BY <2>1, <2>2, <2>3
<1> QED
  BY <1>7, <1>12

\* A call that is answered.
LEMMA AnswerGoesOn ==
  ASSUME DiskInv, CallsInv, NEW r \in Caller, rd[r].pc \notin {"idle", "done"}, NEW got,
         rd' = [rd EXCEPT ![r] = [rd[r] EXCEPT !.pc = "done", !.got = got]],
         \/ \E t \in past[rd[r].by] : Agrees(got, MemoryAnswer(t, rd[r].call, rd[r].path))
         \/ /\ Raced(past[rd[r].by], haveOpenat2, rd[r].path)
            /\ got.status \in {"missing", "FileNotFound", "NotADirectory"}
  PROVE  CallsGoOn
<1> DEFINE m == rd[r]
           n == [m EXCEPT !.pc = "done", !.got = got]
<1>1. DOMAIN m = CallFields
  BY UnderWay
<1>2. DOMAIN n = CallFields /\ n.pc = "done" /\ n.got = got /\ n.by = m.by /\ n.call = m.call /\ n.path = m.path
  BY <1>1 DEF CallFields
<1>3. rd' = [rd EXCEPT ![r] = n]
  OBVIOUS
<1> HIDE DEF n
<1>4. Answered(past[n.by], haveOpenat2, n)
  BY <1>2 DEF Answered
<1> QED
  BY <1>2, <1>3, <1>4, MovesOn, OneCall

\* What fstatat() finds is what openat() found, below the root.
LEMMA DiagnoseGoesOn ==
  ASSUME AccInv, NEW r \in Caller, Diagnose(r)
  PROVE  CallsGoOn /\ CachesGoOn
<1> DEFINE m == rd[r]
           P == past[m.by]
           u == TreeAt(m.fd)
           p == Append(m.fd.at, m.path[m.k + 1])
           q == Prefix(m.path, m.k + 1)
           len == Len(m.path)
           link == Exists(u, p) /\ TypeAt(u, p) = "symlink"
<1>0. m.pc = "diagnose"
  BY DEF Diagnose
<1>1. /\ DiskInv /\ CallsInv /\ CachesInv /\ DOMAIN m = CallFields /\ OnTheWay(P, haveOpenat2, m)
      /\ m.by \in Accessor /\ m.path \in Seq(EntryName) /\ len \in Nat
      /\ m.call \in Calls /\ P \subseteq DiskTree
  BY <1>0, UnderWay DEF AccInv
<1>2. /\ m.k \in Nat /\ m.k < len /\ ~haveOpenat2 /\ m.status = "ok" /\ m.anchor \in 0..m.k /\ InTheWay(P, m)
      /\ ShowsDir(P, m.fd, Prefix(m.path, m.k))
      /\ m.k + 1 = len => m.call = "readDirectory"
  BY <1>0, <1>1 DEF OnTheWay
<1>3. u \in P /\ u \in DiskTree /\ (m.k > 0 => u = m.fd.tree)
  BY <1>0, <1>1, WalkTree
<1>4. p = q
  BY <1>0, <1>1, <1>2, WalkTree
<1>5. PICK t \in P : Exists(t, q) /\ TypeAt(t, q) # "directory" /\ (m.k > 0 => t = m.fd.tree)
  BY <1>2 DEF InTheWay
<1>6. t \in DiskTree /\ TypeAt(t, q) \in {"regular", "symlink"}
  BY <1>1, <1>5, NodeTypes
<1>7. ASSUME ~link, TypeAt(t, q) = "symlink" PROVE Raced(P, haveOpenat2, m.path)
  <2>1. m.k = 0
    BY <1>2, <1>3, <1>4, <1>5, <1>7
  <2>2. q = Prefix(m.path, 1)
    BY <2>1
  <2>3. m.path # <<>>
    BY <1>1, <1>2
  <2> QED
    BY <1>2, <1>3, <1>4, <1>5, <1>7, <2>2, <2>3 DEF Raced
<1>8. CachesGoOn
  BY <1>1, NoCache DEF Diagnose
<1> HIDE DEF p, q
<1>9. ASSUME m.k + 1 = len, rd' = [rd EXCEPT ![r] =
               [m EXCEPT !.pc = "done", !.got = Reply(IF link THEN "SymlinkNotAllowed" ELSE "NotADirectory", <<>>)]]
      PROVE  CallsGoOn
  <2> DEFINE got == Reply(IF link THEN "SymlinkNotAllowed" ELSE "NotADirectory", <<>>)
  <2>1. q = m.path /\ m.call = "readDirectory"
    BY <1>1, <1>2, <1>9, PrefixWhole DEF q
  <2>2. \/ \E v \in P : Agrees(got, MemoryAnswer(v, m.call, m.path))
        \/ Raced(P, haveOpenat2, m.path) /\ got.status \in {"missing", "FileNotFound", "NotADirectory"}
    <3>1. CASE link
      <4>1. MemoryAnswer(u, m.call, m.path) = Reply("SymlinkNotAllowed", <<>>)
        BY <1>4, <2>1, <3>1 DEF MemoryAnswer, MemStatus
      <4> QED
        BY <1>3, <3>1, <4>1 DEF Agrees
    <3>2. CASE ~link /\ TypeAt(t, q) = "symlink"
      BY <1>7, <3>2 DEF Reply
    <3>3. CASE ~link /\ TypeAt(t, q) = "regular"
      <4>1. MemoryAnswer(t, m.call, m.path) = Reply("NotADirectory", <<>>)
        BY <1>5, <2>1, <3>3 DEF MemoryAnswer, MemStatus
      <4> QED
        BY <1>5, <3>3, <4>1 DEF Agrees
    <3> QED
      BY <1>6, <3>1, <3>2, <3>3
  <2>3. rd' = [rd EXCEPT ![r] = [m EXCEPT !.pc = "done", !.got = got]]
    BY <1>9
  <2> HIDE DEF got
  <2> QED
    BY <1>0, <1>1, <2>2, <2>3, AnswerGoesOn
<1>10. ASSUME m.k + 1 # len, rd' = [rd EXCEPT ![r] =
                [m EXCEPT !.pc = "final", !.status = IF link THEN "SymlinkNotAllowed" ELSE "ENOTDIR"]]
       PROVE  CallsGoOn
  <2> DEFINE err == IF link THEN "SymlinkNotAllowed" ELSE "ENOTDIR"
             n == [m EXCEPT !.pc = "final", !.status = err]
  <2>1. /\ DOMAIN n = CallFields /\ n.pc = "final" /\ n.by = m.by /\ n.call = m.call /\ n.path = m.path /\ n.k = m.k
        /\ n.anchor = m.anchor /\ n.fd = m.fd /\ n.status = err
    BY <1>1 DEF CallFields
  <2>2. rd' = [rd EXCEPT ![r] = n]
    BY <1>10
  <2> HIDE DEF n
  <2>3. m.k + 1 \in 0..(len - 1)
    BY <1>1, <1>2, <1>10
  <2>4. WalkFailed(P, haveOpenat2, n)
    <3>1. CASE link
      <4>1. MemStatus(u, m.path) = "SymlinkNotAllowed"
        BY <1>1, <1>3, <1>4, <2>3, <3>1, BlockedStatus DEF q
      <4> QED
        BY <1>3, <2>1, <3>1, <4>1 DEF WalkFailed
    <3>2. CASE ~link /\ TypeAt(t, q) = "symlink"
      BY <1>7, <2>1, <3>2 DEF WalkFailed
    <3>3. CASE ~link /\ TypeAt(t, q) = "regular"
      <4>1. MemStatus(t, m.path) = "null"
        BY <1>1, <1>5, <1>6, <2>3, <3>3, BlockedStatus DEF q
      <4> QED
        BY <1>5, <2>1, <3>3, <4>1 DEF WalkFailed
    <3> QED
      BY <1>6, <3>1, <3>2, <3>3
  <2>5. OnTheWay(P, haveOpenat2, n)
    BY <1>1, <1>2, <2>1, <2>4 DEF OnTheWay
  <2> QED
    BY <1>0, <1>1, <2>1, <2>2, <2>5, MovesOn, OneCall
<1>11. CallsGoOn
  BY <1>9, <1>10 DEF Diagnose, p
<1> QED
  BY <1>8, <1>11

\* The call itself agrees with the in-memory accessor about the tree walked to.
LEMMA FinishCallGoesOn ==
  ASSUME AccInv, NEW r \in Caller, FinishCall(r)
  PROVE  CallsGoOn /\ CachesGoOn
<1> DEFINE m == rd[r]
           P == past[m.by]
           t == TreeAt(m.fd)
           p == IF m.path = <<>> THEN <<>> ELSE Append(m.fd.at, m.path[Len(m.path)])
           len == Len(m.path)
           checks == m.call = "readDirectory" /\ ~haveOpenat2 /\ Exists(t, p) /\ TypeAt(t, p) # "directory"
<1>0. m.pc = "final"
  BY DEF FinishCall
<1>1. /\ DiskInv /\ CallsInv /\ CachesInv /\ DOMAIN m = CallFields /\ OnTheWay(P, haveOpenat2, m)
      /\ m.by \in Accessor /\ m.path \in Seq(EntryName) /\ len \in Nat
      /\ m.call \in Calls
  BY <1>0, UnderWay DEF AccInv
<1>2. /\ m.k \in Nat /\ m.anchor \in 0..m.k /\ m.k <= len /\ ShowsDir(P, m.fd, Prefix(m.path, m.k))
      /\ \/ m.status = "ok" /\ (m.path = <<>> \/ m.k = len - 1)
         \/ WalkFailed(P, haveOpenat2, m)
  BY <1>0, <1>1 DEF OnTheWay
<1>3. CachesGoOn
  BY <1>1, NoCache DEF FinishCall
<1>4. ASSUME m.status # "ok", rd' = [rd EXCEPT ![r] = [m EXCEPT !.pc = "done", !.got = NoParent(m.call, m.status)]]
      PROVE  CallsGoOn
  <2> DEFINE got == NoParent(m.call, m.status)
  <2>1. WalkFailed(P, haveOpenat2, m)
    BY <1>2, <1>4
  <2>2. m.status \in {"ENOENT", "ENOTDIR", "SymlinkNotAllowed"}
    BY <2>1 DEF WalkFailed
  <2>3. \/ \E v \in P : MemStatus(v, m.path) = IF m.status = "SymlinkNotAllowed" THEN m.status ELSE "null"
        \/ Raced(P, haveOpenat2, m.path) /\ m.status # "SymlinkNotAllowed"
    BY <2>1 DEF WalkFailed
  <2>4. m.status # "SymlinkNotAllowed" => got.status \in {"missing", "FileNotFound"}
    BY <2>2 DEF NoParent, Reply
  <2>5. \/ \E v \in P : Agrees(got, MemoryAnswer(v, m.call, m.path))
        \/ Raced(P, haveOpenat2, m.path) /\ got.status \in {"missing", "FileNotFound", "NotADirectory"}
    BY <1>1, <2>2, <2>3, <2>4, NoParentAgrees
  <2> HIDE DEF got
  <2> QED
    BY <1>0, <1>1, <1>4, <2>5, AnswerGoesOn DEF got
<1>5. ASSUME m.status = "ok"
      PROVE  /\ t \in P /\ t \in DiskTree /\ p = m.path
             /\ m.path # <<>> => /\ m.k \in 0..len /\ m.k + 1 = len /\ Exists(t, parentOf(m.path))
                                 /\ TypeAt(t, parentOf(m.path)) = "directory" /\ (m.k > 0 => t = m.fd.tree)
  <2>1. m.path = <<>> \/ m.k = len - 1
    BY <1>2, <1>5 DEF WalkFailed
  <2>2. /\ t \in P /\ t \in DiskTree /\ Exists(t, Prefix(m.path, m.k)) /\ TypeAt(t, Prefix(m.path, m.k)) = "directory"
        /\ m.k > 0 => t = m.fd.tree
        /\ m.k < len => Append(m.fd.at, m.path[m.k + 1]) = Prefix(m.path, m.k + 1)
        /\ m.k \in 0..len
    BY <1>0, <1>1, WalkTree
  <2>3. ASSUME m.path # <<>> PROVE /\ p = m.path /\ m.k + 1 = len /\ parentOf(m.path) = Prefix(m.path, m.k)
    <3>1. m.k + 1 = len /\ m.k < len /\ len - 1 = m.k
      BY <1>1, <1>2, <2>1, <2>3
    <3>2. p = Append(m.fd.at, m.path[m.k + 1])
      BY <2>3, <3>1
    <3>3. p = Prefix(m.path, len)
      BY <2>2, <3>1, <3>2
    <3> QED
      BY <1>1, <3>1, <3>3, PrefixWhole DEF parentOf
  <2>4. m.path = <<>> => p = m.path
    OBVIOUS
  <2> HIDE DEF p, t
  <2> QED
    BY <2>2, <2>3, <2>4
<1> HIDE DEF t, p
<1>6. ASSUME m.status = "ok", checks, rd' = [rd EXCEPT ![r] = [m EXCEPT !.pc = "diagnose"]]
      PROVE  CallsGoOn
  <2> DEFINE n == [m EXCEPT !.pc = "diagnose"]
  <2>1. /\ DOMAIN n = CallFields /\ n.pc = "diagnose" /\ n.by = m.by /\ n.call = m.call /\ n.path = m.path /\ n.k = m.k
        /\ n.anchor = m.anchor /\ n.fd = m.fd /\ n.status = m.status
    BY <1>1 DEF CallFields
  <2>2. rd' = [rd EXCEPT ![r] = n]
    BY <1>6
  <2> HIDE DEF n
  <2>3. m.path # <<>>
    <3>1. ASSUME m.path = <<>> PROVE t = onDisk /\ TypeAt(onDisk, <<>>) = "directory"
      <4>1. m.k = 0 /\ m.k \in 0..len
        BY <1>1, <1>2, <3>1
      <4>2. Prefix(m.path, m.k) = <<>>
        BY <1>1, <4>1, PrefixFacts
      <4> QED
        BY <1>0, <1>1, <1>2, <4>2, UnderWay DEF t, TreeAt, ShowsDir, IsDir
    <3> QED
      BY <1>5, <1>6, <3>1
  <2>4. m.k + 1 = len /\ Prefix(m.path, m.k + 1) = m.path
    BY <1>1, <1>5, <1>6, <2>3, PrefixWhole
  <2>5. InTheWay(P, n)
    BY <1>5, <1>6, <2>1, <2>3, <2>4 DEF InTheWay
  <2>6. OnTheWay(P, haveOpenat2, n)
    BY <1>1, <1>2, <1>6, <2>1, <2>4, <2>5 DEF OnTheWay
  <2> QED
    BY <1>0, <1>1, <2>1, <2>2, <2>6, MovesOn, OneCall
<1>7. ASSUME m.status = "ok", rd' = [rd EXCEPT ![r] = [m EXCEPT !.pc = "done", !.got = CallAt(m.call, t, p)]]
      PROVE  CallsGoOn
  <2>1. Agrees(CallAt(m.call, t, p), MemoryAnswer(t, m.call, m.path))
    BY <1>1, <1>5, <1>7, CallAtAgrees
  <2> QED
    BY <1>0, <1>1, <1>5, <1>7, <2>1, AnswerGoesOn
<1>8. CallsGoOn
  <2>1. CASE m.status # "ok"
    BY <1>4, <2>1 DEF FinishCall
  <2>2. CASE m.status = "ok" /\ checks
    BY <1>6, <2>2 DEF FinishCall, t, p
  <2>3. CASE m.status = "ok" /\ ~checks
    BY <1>7, <2>3 DEF FinishCall, t, p
  <2> QED
    BY <2>1, <2>2, <2>3
<1> QED
  BY <1>3, <1>8

\* A call begins at the root, as it is on disk.
LEMMA BeginCallGoesOn ==
  ASSUME AccInv, NEW r \in Caller, NEW l \in Lookup, BeginCall(r, l[1], l[2], l[3])
  PROVE  CallsGoOn /\ CachesGoOn
<1> DEFINE x == l[1]
           call == l[2]
           path == l[3]
           new == [Idle EXCEPT !.by = x, !.call = call, !.path = path]
<1>0. x \in Accessor /\ call \in Calls /\ path \in Seq(EntryName) /\ Len(path) \in Nat
  BY LookupAssumption
<1>1. DiskInv /\ CallsInv /\ CachesInv /\ onDisk \in past[x] /\ onDisk \in DiskTree
  BY <1>0 DEF AccInv, DiskInv
<1>2. /\ DOMAIN new = CallFields /\ new.by = x /\ new.call = call /\ new.path = path
      /\ new.fd = RootFd /\ new.k = 0 /\ new.anchor = 0 /\ new.status = "ok"
  BY DEF Idle, CallFields
<1> HIDE DEF x, call, path, new
<1>3. CachesGoOn
  BY <1>1, NoCache DEF BeginCall
<1>4. ASSUME NEW got, rd' = [rd EXCEPT ![r] = [new EXCEPT !.pc = "done", !.got = got]],
             Agrees(got, MemoryAnswer(onDisk, call, path))
      PROVE  CallsGoOn
  <2> DEFINE n == [new EXCEPT !.pc = "done", !.got = got]
  <2>1. DOMAIN n = CallFields /\ n.pc = "done" /\ n.got = got /\ n.by = x /\ n.call = call /\ n.path = path
    BY <1>2 DEF CallFields
  <2>2. rd' = [rd EXCEPT ![r] = n]
    BY <1>4
  <2> HIDE DEF n
  <2>3. Answered(past[x], haveOpenat2, n)
    BY <1>1, <1>4, <2>1 DEF Answered
  <2>4. CallOK(past[n.by], n)
    BY <1>0, <2>1, <2>3 DEF CallOK, CallInv
  <2> QED
    BY <1>1, <2>2, <2>4, OneCall
<1>5. ASSUME IsDir(onDisk), rd' = [rd EXCEPT ![r] = [new EXCEPT !.pc = IF Len(path) <= 1 THEN "final" ELSE "evict"]]
      PROVE  CallsGoOn
  <2> DEFINE pc == IF Len(path) <= 1 THEN "final" ELSE "evict"
             n == [new EXCEPT !.pc = pc]
  <2>1. /\ DOMAIN n = CallFields /\ n.pc = pc /\ n.by = x /\ n.call = call /\ n.path = path
        /\ n.fd = RootFd /\ n.k = 0 /\ n.anchor = 0 /\ n.status = "ok"
    BY <1>2 DEF CallFields
  <2>2. rd' = [rd EXCEPT ![r] = n]
    BY <1>5
  <2>3. Prefix(path, 0) = <<>>
    BY <1>0, PrefixFacts, 0 \in 0..Len(path)
  <2>4. ShowsDir(past[x], RootFd, <<>>)
    BY DEF ShowsDir, RootFd
  <2>5. Len(path) = 0 => path = <<>>
    BY <1>0, <2>3, PrefixWhole
  <2>6. \/ pc = "final" /\ (path = <<>> \/ Len(path) = 1)
        \/ pc = "evict" /\ Len(path) > 1
    <3>1. CASE Len(path) <= 1
      <4>1. Len(path) = 0 \/ Len(path) = 1
        <5>1. \A i \in Nat : i <= 1 => i = 0 \/ i = 1
          OBVIOUS
        <5> QED
          BY <1>0, <3>1, <5>1, Zenon
      <4> QED
        BY <2>5, <3>1, <4>1
    <3>2. CASE ~(Len(path) <= 1)
      <4>1. Len(path) > 1
        BY <1>0, <3>2
      <4> QED
        BY <3>2, <4>1
    <3> QED
      BY <3>1, <3>2
  <2> HIDE DEF n, pc
  <2>7. OnTheWay(past[x], haveOpenat2, n)
    BY <1>0, <2>1, <2>3, <2>4, <2>6 DEF OnTheWay
  <2>8. CallOK(past[n.by], n)
    BY <1>0, <1>5, <2>1, <2>6, <2>7 DEF CallOK, CallInv
  <2> QED
    BY <1>1, <2>2, <2>8, OneCall
<1>6. TypeAt(onDisk, <<>>) \in {"regular", "symlink", "directory"}
  BY <1>1, RootExists, NodeTypes
<1>7. CASE TypeAt(onDisk, <<>>) = "regular"
  <2> DEFINE got == FileAnswer(Tree[onDisk][<<>>], call, path)
  <2>1. Agrees(got, MemoryAnswer(onDisk, call, path))
    BY <1>0, <1>1, <1>7, FileAnswerAgrees
  <2>2. rd' = [rd EXCEPT ![r] = [new EXCEPT !.pc = "done", !.got = got]]
    BY <1>7 DEF BeginCall, new, x, call, path
  <2> HIDE DEF got
  <2> QED
    BY <1>3, <1>4, <2>1, <2>2
<1>8. CASE TypeAt(onDisk, <<>>) = "symlink"
  <2> DEFINE got == MemoryAnswer(onDisk, call, path)
  <2>1. rd' = [rd EXCEPT ![r] = [new EXCEPT !.pc = "done", !.got = got]]
    BY <1>8 DEF BeginCall, new, x, call, path
  <2> QED
    BY <1>3, <1>4, <2>1 DEF Agrees
<1>9. CASE TypeAt(onDisk, <<>>) = "directory"
  <2>1. rd' = [rd EXCEPT ![r] = [new EXCEPT !.pc = IF Len(path) <= 1 THEN "final" ELSE "evict"]]
    BY <1>9 DEF BeginCall, new, x, call, path
  <2> QED
    BY <1>3, <1>5, <1>9, <2>1 DEF IsDir
<1> QED
  BY <1>6, <1>7, <1>8, <1>9

\* Nothing is kept of a call that has returned.
LEMMA ReturnCallGoesOn ==
  ASSUME AccInv, NEW r \in Caller, ReturnCall(r)
  PROVE  CallsGoOn /\ CachesGoOn
<1>1. DOMAIN Idle = CallFields /\ Idle.pc = "idle"
  BY DEF Idle, CallFields
<1>2. CallOK(past[Idle.by], Idle)
  BY <1>1 DEF CallOK
<1> QED
  BY <1>2, OneCall, NoCache DEF AccInv, ReturnCall

\* Every step keeps the invariant, the replacement of the tree on disk included.
LEMMA AccInvNext == AccInv /\ [AccNext]_accVars => AccInv'
<1> SUFFICES ASSUME AccInv, [AccNext]_accVars PROVE AccInv'
  OBVIOUS
<1>1. DiskInv /\ CallsInv /\ CachesInv
  BY DEF AccInv
<1>2. CASE AccNext
  <2>1. Remember
    BY <1>2 DEF AccNext
  <2>2. ASSUME UNCHANGED <<onDisk, haveOpenat2>>, CallsGoOn, CachesGoOn PROVE AccInv'
    BY <1>1, <2>1, <2>2, GoOn DEF DiskInv
  <2>3. ASSUME NEW r \in Caller, CallStep(r) PROVE AccInv'
    <3>1. UNCHANGED <<onDisk, haveOpenat2>>
      BY <2>3 DEF CallStep, BeginCall, maybeEvictFromGlobalCaches, EvictNext, FindAnchor, OpenComponent,
                  HandOn, Diagnose, KeepParent, FinishCall, ReturnCall
    <3>2. CallsGoOn /\ CachesGoOn
      BY <2>3, BeginCallGoesOn, EvictGoesOn, FindAnchorGoesOn, OpenComponentGoesOn, HandOnGoesOn, DiagnoseGoesOn,
         KeepParentGoesOn, FinishCallGoesOn, ReturnCallGoesOn DEF CallStep
    <3> QED
      BY <2>2, <3>1, <3>2
  <2>4. ASSUME NEW x \in Accessor, invalidateCache(x) PROVE AccInv'
    <3>1. CallsGoOn
      BY <1>1, <2>4, NoCall DEF invalidateCache
    <3>2. CachesGoOn
      BY <1>1, <2>4, EmptyCacheInv, OneCache DEF invalidateCache
    <3> QED
      BY <2>2, <2>4, <3>1, <3>2 DEF invalidateCache
  <2>5. CASE Replace
    <3>1. CallsGoOn /\ CachesGoOn
      BY <1>1, <2>5, NoCall, NoCache DEF Replace
    <3>2. onDisk' \in DiskTree /\ IsDir(onDisk) /\ IsDir(onDisk)' /\ haveOpenat2' = haveOpenat2
      BY <2>5 DEF Replace, IsDir
    <3> QED
      BY <1>1, <2>1, <3>1, <3>2, GoOn
  <2> QED
    BY <1>2, <2>3, <2>4, <2>5 DEF AccNext
<1>3. CASE UNCHANGED accVars
  BY <1>1, <1>3 DEF AccInv, accVars, cacheVars, DiskInv, CallsInv, CachesInv, IsDir, HeldFds
<1> QED
  BY <1>2, <1>3

\* At the start no cache holds anything.
LEMMA AccInvInit == AccInit => AccInv
<1> SUFFICES ASSUME AccInit PROVE AccInv
  OBVIOUS
<1>1. DiskInv
  BY DEF AccInit, DiskInv
<1>2. DOMAIN Idle = CallFields /\ Idle.pc = "idle"
  BY DEF Idle, CallFields
<1>3. CallsInv
  BY <1>2 DEF AccInit, CallsInv
<1>4. HeldFds = {}
  BY AccessorAssumption DEF AccInit, HeldFds
<1>5. CachesInv
  BY <1>4, EmptyCacheInv, FS_EmptySet DEF AccInit, CachesInv
<1> QED
  BY <1>1, <1>3, <1>5 DEF AccInv

\* The invariant says what the callers rely on.
LEMMA AccInvImplies == AccInv => AccessorsAgree
<1> SUFFICES ASSUME AccInv PROVE AccessorsAgree
  OBVIOUS
<1>1. ASSUME NEW r \in Caller, rd[r].pc = "done"
      PROVE  \/ \E t \in past[rd[r].by] : Agrees(rd[r].got, MemoryAnswer(t, rd[r].call, rd[r].path))
             \/ ReplacedMeanwhile(rd[r])
  <2>1. Answered(past[rd[r].by], haveOpenat2, rd[r])
    BY <1>1 DEF AccInv, CallsInv, CallInv
  <2> QED
    BY <2>1 DEF Answered, Raced, ReplacedMeanwhile
<1>2. \A x \in Accessor : Len(dirFdCache[x]) <= DirFdCacheSize
  BY AccessorAssumption DEF AccInv, CachesInv, CacheInv
<1>3. globalDirFdCount = Cardinality(HeldFds)
  BY DEF AccInv, CachesInv
<1> QED
  BY <1>1, <1>2, <1>3 DEF AccessorsAgree

\* However many threads read through however many accessors, whatever is cached,
\* evicted and replaced meanwhile, the answers are those of the in-memory accessor
\* about one tree that was on disk, the caches keep their limits and
\* globalDirFdCount is the number of descriptors they hold.
THEOREM AccessorsSafe == AccSpec => []AccessorsAgree
<1>1. AccInit => AccInv
  BY AccInvInit
<1>2. AccInv /\ [AccNext]_accVars => AccInv'
  BY AccInvNext
<1>3. AccInv => AccessorsAgree
  BY AccInvImplies
<1> QED
  BY <1>1, <1>2, <1>3, PTL DEF AccSpec

=============================================================================
