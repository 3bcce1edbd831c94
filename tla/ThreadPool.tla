----------------------------- MODULE ThreadPool -----------------------------
(***************************************************************************)
(* ThreadPool (src/src/libutil/thread-pool.cc): a queue of work items that *)
(* worker threads and the thread that calls process() execute.  Items may  *)
(* enqueue items.  Everything but the execution of an item happens under   *)
(* the lock of Sync<State>, and a thread without work sleeps on the        *)
(* condition variable `work'.                                              *)
(*                                                                         *)
(* This module has the state of the pool and the steps of doWork(); the    *)
(* steps that an item takes are left to the module that extends it.        *)
(***************************************************************************)
EXTENDS Integers, FiniteSets, Sequences

CONSTANTS
  WorkerThread,  \* threads that enqueue() may start
  maxThreads,    \* the limit, which counts the thread that calls process()
  NoItem

Main == "main"
PoolThread == WorkerThread \cup {Main}

ASSUME MainAssumption ==
  Main \notin WorkerThread /\ NoItem \notin PoolThread /\ IsFiniteSet(WorkerThread)
ASSUME maxThreadsAssumption == maxThreads \in 1 .. Cardinality(WorkerThread) + 1

VARIABLES
  quit,
  pending,    \* State::pending
  active,     \* State::active
  exception,  \* State::exception is set
  workers,    \* State::workers
  draining,   \* State::draining
  tpc,        \* control state of the threads
  item        \* item[t]: what thread t executes

poolVars == <<quit, pending, active, exception, workers, draining, tpc, item>>

PoolInit ==
  /\ quit = FALSE
  /\ pending = <<>>
  /\ active = 0
  /\ exception = FALSE
  /\ workers = {}
  /\ draining = FALSE
  /\ tpc = [t \in PoolThread |-> IF t = Main THEN "enqueue" ELSE "none"]
  /\ item = [t \in PoolThread |-> NoItem]

Asleep(pcs) == {t \in PoolThread : pcs[t] = "asleep"}

\* notify_all(): those who sleep try again.
NotifyAll(pcs) ==
  [t \in PoolThread |-> IF pcs[t] = "asleep" THEN "loop" ELSE pcs[t]]

\* Mutant: nobody is notified.
NotifyNobody(pcs) == {pcs}

\* notify_one(): one of them does, if there is one.
NotifyOne(pcs) ==
  IF Asleep(pcs) = {} THEN {pcs}
  ELSE {[pcs EXCEPT ![t] = "loop"] : t \in Asleep(pcs)}

\* enqueue() of one item: the queue, the workers and the control states that
\* it may leave behind, given those that it finds.
Enqueued(n, q, ws, pcs) ==
  LET q1 == Append(q, n)
      starts == /\ Len(q1) > Cardinality(ws) + 1
                /\ Cardinality(ws) + 1 < maxThreads
      new == CHOOSE t \in WorkerThread : pcs[t] = "none"
  IN  {[pending |-> q1,
        workers |-> IF starts THEN ws \cup {new} ELSE ws,
        tpc |-> p] :
          p \in NotifyOne(IF starts THEN [pcs EXCEPT ![new] = "loop"] ELSE pcs)}

\* The thread is done with its item: active--, and the first exception ends
\* the work of everybody.
ItemDone(t) ==
  /\ tpc[t] \in {"finished", "thrown"}
  /\ active' = active - 1
  /\ item' = [item EXCEPT ![t] = NoItem]
  /\ LET first == tpc[t] = "thrown" /\ ~exception
     IN  /\ exception' = (exception \/ first)
         /\ quit' = (quit \/ first)
         /\ tpc' = [IF first THEN NotifyAll(tpc) ELSE tpc EXCEPT ![t] = "loop"]
  /\ UNCHANGED <<pending, workers, draining>>

\* doWork() returns when the pool quits.
Quit(t) ==
  /\ tpc[t] = "loop"
  /\ quit
  /\ tpc' = [tpc EXCEPT ![t] = "returned"]
  /\ UNCHANGED <<quit, pending, active, exception, workers, draining, item>>

\* Take the next item.
TakeItem(t) ==
  /\ tpc[t] = "loop"
  /\ ~quit
  /\ pending # <<>>
  /\ item' = [item EXCEPT ![t] = Head(pending)]
  /\ pending' = Tail(pending)
  /\ active' = active + 1
  /\ tpc' = [tpc EXCEPT ![t] = "run"]
  /\ UNCHANGED <<quit, exception, workers, draining>>

\* Mutant: what is being executed does not count.
DrainedEarly == draining
\* No item is left and none can be added.
Drained == active = 0 /\ draining

\* The last thread to run out of work ends the pool.
Drain(t) ==
  /\ tpc[t] = "loop"
  /\ ~quit
  /\ pending = <<>>
  /\ Drained
  /\ quit' = TRUE
  /\ tpc' = [NotifyAll(tpc) EXCEPT ![t] = "returned"]
  /\ UNCHANGED <<pending, active, exception, workers, draining, item>>

\* state.wait(work).
Sleep(t) ==
  /\ tpc[t] = "loop"
  /\ ~quit
  /\ pending = <<>>
  /\ ~Drained
  /\ tpc' = [tpc EXCEPT ![t] = "asleep"]
  /\ UNCHANGED <<quit, pending, active, exception, workers, draining, item>>

DoWork(t) == ItemDone(t) \/ Quit(t) \/ TakeItem(t) \/ Drain(t) \/ Sleep(t)

\* process(): from now on the main thread works, too.
Process ==
  /\ tpc[Main] = "drain"
  /\ draining' = TRUE
  /\ tpc' = [tpc EXCEPT ![Main] = "loop"]
  /\ UNCHANGED <<quit, pending, active, exception, workers, item>>

\* shutdown(): tell the workers to quit ...
Shutdown ==
  /\ tpc[Main] = "shutdown"
  /\ quit' = TRUE
  /\ tpc' = [NotifyAll(tpc) EXCEPT ![Main] = "join"]
  /\ UNCHANGED <<pending, active, exception, workers, draining, item>>

\* ... and join them.
Join ==
  /\ tpc[Main] = "join"
  /\ \A t \in workers : tpc[t] = "returned"
  /\ workers' = {}
  /\ tpc' = [tpc EXCEPT ![Main] = "over"]
  /\ UNCHANGED <<quit, pending, active, exception, draining, item>>
=============================================================================
