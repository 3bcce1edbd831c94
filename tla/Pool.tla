-------------------------------- MODULE Pool --------------------------------
(***************************************************************************)
(* The pool of reusable resources, src/src/libutil/include/nix/util/       *)
(* pool.hh: get() takes an idle resource that the validator accepts or     *)
(* makes a new one, and waits while the pool is at its limit; a handle     *)
(* gives its resource back, or drops it, when it is destroyed.             *)
(***************************************************************************)
EXTENDS Integers, FiniteSets

CONSTANTS
  PoolUser,  \* threads that call get()
  PoolMax,   \* the argument max
  MaxGets    \* bound: how often a thread calls get()

ASSUME PoolAssumption ==
  PoolMax \in Nat \ {0} /\ MaxGets \in Nat /\ IsFiniteSet(PoolUser)

VARIABLES
  idle,     \* how many resources are idle
  inUse,    \* State::inUse
  upc,      \* upc[u]: where thread u is
  gets,     \* gets[u]: how often it has called get()
  sleepers  \* the threads that wait on the condition variable

pvVars == <<idle, inUse, upc, gets, sleepers>>

PoolStart ==
  /\ idle = 0
  /\ inUse = 0
  /\ upc = [u \in PoolUser |-> "out"]
  /\ gets = [u \in PoolUser |-> 0]
  /\ sleepers = {}

\* As WakeOne, with the notification forgotten.
WakeNone == UNCHANGED sleepers

\* wakeup.notify_one().
WakeOne ==
  \/ sleepers = {} /\ UNCHANGED sleepers
  \/ \E u \in sleepers : sleepers' = sleepers \ {u}

CallGet(u) ==
  /\ upc[u] = "out"
  /\ gets[u] < MaxGets
  /\ gets' = [gets EXCEPT ![u] = @ + 1]
  /\ upc' = [upc EXCEPT ![u] = "enter"]
  /\ UNCHANGED <<idle, inUse, sleepers>>

\* Under the lock: wait, or take the first idle resource that is valid (those
\* before it are dropped), or claim the right to make one.
EnterGet(u) ==
  /\ upc[u] = "enter"
  /\ u \notin sleepers
  /\ IF idle = 0 /\ inUse >= PoolMax
     THEN /\ sleepers' = sleepers \cup {u}
          /\ UNCHANGED <<idle, inUse, upc>>
     ELSE /\ inUse' = inUse + 1
          /\ \/ \E dropped \in 0..(idle - 1) :
                  /\ idle' = idle - 1 - dropped
                  /\ upc' = [upc EXCEPT ![u] = "has"]
             \/ /\ idle' = 0
                /\ upc' = [upc EXCEPT ![u] = "make"]
          /\ UNCHANGED sleepers
  /\ UNCHANGED gets

\* The factory, without the lock; when it throws, the claim is given up.
MakeResource(u) ==
  /\ upc[u] = "make"
  /\ \/ /\ upc' = [upc EXCEPT ![u] = "has"]
        /\ UNCHANGED <<inUse, sleepers>>
     \/ /\ upc' = [upc EXCEPT ![u] = "out"]
        /\ inUse' = inUse - 1
        /\ WakeOne
  /\ UNCHANGED <<idle, gets>>

\* Handle::~Handle(): the resource goes back unless it was marked as bad; the
\* notification comes after the lock has been released.
DropHandle(u) ==
  /\ upc[u] = "has"
  /\ idle' \in {idle, idle + 1}
  /\ inUse' = inUse - 1
  /\ upc' = [upc EXCEPT ![u] = "notify"]
  /\ UNCHANGED <<gets, sleepers>>

NotifyOther(u) ==
  /\ upc[u] = "notify"
  /\ WakeOne
  /\ upc' = [upc EXCEPT ![u] = "out"]
  /\ UNCHANGED <<idle, inUse, gets>>

PoolUserStep(u) == CallGet(u) \/ EnterGet(u) \/ MakeResource(u)
                     \/ DropHandle(u) \/ NotifyOther(u)

PoolOver ==
  /\ \A u \in PoolUser : upc[u] = "out" /\ gets[u] = MaxGets
  /\ UNCHANGED pvVars

PoolNext == PoolOver \/ \E u \in PoolUser : PoolUserStep(u)

PoolSpec == PoolStart /\ [][PoolNext]_pvVars

-----------------------------------------------------------------------------

\* The types of the variables; there are never more resources than the limit,
\* and those counted as in use are those that are.
PoolTypeOK ==
  /\ idle \in Nat /\ inUse \in Nat
  /\ idle + inUse <= PoolMax
  /\ inUse = Cardinality({u \in PoolUser : upc[u] \in {"make", "has"}})
  /\ upc \in [PoolUser -> {"out", "enter", "make", "has", "notify"}]
  /\ gets \in [PoolUser -> 0..MaxGets]
  /\ sleepers \subseteq {u \in PoolUser : upc[u] = "enter"}

\* The threads that will look at the pool or wake somebody who will.
Coming == {u \in PoolUser : upc[u] = "notify" \/ (upc[u] = "enter" /\ u \notin sleepers)}

\* No wake-up is lost: while a thread sleeps in get(), there is for every free place
\* of the pool a thread that has been woken or has come to take it, or that is about
\* to call notify_one(), also when handles are dropped and factories throw meanwhile.
PoolWakesEnough == sleepers # {} => PoolMax - inUse <= Cardinality(Coming)
=============================================================================
