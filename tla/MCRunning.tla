----------------------------- MODULE MCRunning -----------------------------
(***************************************************************************)
(* One run for the parts of the program that consist of running threads    *)
(* and processes and do not share state with each other: the variable      *)
(* `component' says which one a behaviour is about, and the others stay in *)
(* an initial state.  The generation tools are among them as processes     *)
(* that end, fail or are killed one after the other.                       *)
(***************************************************************************)
EXTENDS ImportPipeline, ProcessGraph, StoreOpen, RunProgram, Interrupts, Pool, Closure,
        Generations

VARIABLE component

runningVars == <<importVars, pgVars, openVars, rpVars, sigVars, pvVars, closureVars, genVars, component>>

First(S) == CHOOSE x \in S : TRUE

Init ==
  /\ component \in {"import", "graph", "open", "run", "signals", "pool", "closure", "generations"}
  /\ ImportInit /\ (component # "import" => inMemory)
  /\ GraphInit /\ (component # "graph" => edges = First(Graphs))
  /\ OpenInit
  /\ component # "open" => schemaFile = First(OldSchemas) /\ migrations = "missing"
  /\ RunInit /\ (component # "run" => vforked)
  /\ SigInit
  /\ PoolStart
  /\ ClosureInit
  /\ component # "closure" =>
        graph = First(EltGraphs) /\ start = First(StartSets) /\ missing = {} /\ known = {}
  /\ GenInit /\ (component # "generations" => cfg = NoMenu)

ImportOnly == component = "import" /\ UNCHANGED <<pgVars, openVars, rpVars, sigVars, pvVars, closureVars, genVars, component>>
GraphOnly == component = "graph" /\ UNCHANGED <<importVars, openVars, rpVars, sigVars, pvVars, closureVars, genVars, component>>
OpenOnly == component = "open" /\ UNCHANGED <<importVars, pgVars, rpVars, sigVars, pvVars, closureVars, genVars, component>>
RunOnly == component = "run" /\ UNCHANGED <<importVars, pgVars, openVars, sigVars, pvVars, closureVars, genVars, component>>
SigOnly == component = "signals" /\ UNCHANGED <<importVars, pgVars, openVars, rpVars, pvVars, closureVars, genVars, component>>
PoolOnly == component = "pool" /\ UNCHANGED <<importVars, pgVars, openVars, rpVars, sigVars, closureVars, genVars, component>>
ClosureOnly == component = "closure" /\ UNCHANGED <<importVars, pgVars, openVars, rpVars, sigVars, pvVars, genVars, component>>
GenOnly == component = "generations" /\ UNCHANGED <<importVars, pgVars, openVars, rpVars, sigVars, pvVars, closureVars, component>>

Next ==
  \/ ImportOnly /\ ImportNext
  \/ GraphOnly /\ GraphNext
  \/ OpenOnly /\ OpenNext
  \/ RunOnly /\ RunNext
  \/ SigOnly /\ SigNext
  \/ PoolOnly /\ PoolNext
  \/ ClosureOnly /\ ClosureNext
  \/ GenOnly /\ GenNext

\* Every thread and process that can take a step takes one some time.  Signals
\* need not arrive, processes need not be killed, and nothing is assumed of the
\* threads that own interrupt callbacks.
Fairness ==
  /\ WF_runningVars(ImportOnly /\ ImportThread)
  /\ \A h \in Hasher : WF_runningVars(ImportOnly /\ Worker(h))
  /\ WF_runningVars(GraphOnly /\ GraphMain)
  /\ \A t \in PoolThread : WF_runningVars(GraphOnly /\ GraphThread(t))
  /\ \A p \in Opener : WF_runningVars(OpenOnly /\ OpenStep(p))
  /\ WF_runningVars(RunOnly /\ RunParent)
  /\ WF_runningVars(RunOnly /\ RunChild)
  /\ \A u \in PoolUser : WF_runningVars(PoolOnly /\ PoolUserStep(u))
  /\ WF_runningVars(ClosureOnly /\ ClosureNext)

Spec == Init /\ [][Next]_runningVars /\ Fairness

-----------------------------------------------------------------------------
Event(t, p) == [tag |-> t, path |-> p]

\* Two files, one with a copy in the farm, in a directory and beside it.
MCArchive ==
  <<Event("mkdir", "/"), Event("mkdir", "/d"),
    Event("begin", "/d/f"), Event("exec", "/d/f"), Event("data", "/d/f"),
    Event("end", "/d/f"), Event("enddir", "/d"), Event("symlink", "/l"),
    Event("begin", "/g"), Event("size", "/g"), Event("data", "/g"), Event("end", "/g")>>

\* Chains with shared nodes, a node that is not to be processed, and a cycle.
MCGraphs ==
  {[a |-> {"b", "c"}, b |-> {"c", "x"}, c |-> {"c"}],
   [a |-> {"c"}, b |-> {"c"}, c |-> {}],
   [a |-> {"b"}, b |-> {"a"}, c |-> {"a"}]}

\* A tree whose leaves are shared, with a reference of a path to itself; and a
\* cycle beside a chain.
MCEltGraphs ==
  {<<{1, 2, 3}, {4, 5}, {4}, {}, {}>>,
   <<{2}, {3, 4, 5}, {1}, {5}, {5}>>}

MCStartSets == {{}, {1}, {1, 2}, {3, 5}, {5}}

\* Generations: one with a plain name, and one whose name does not match itself
\* as a regular expression but matches the other one's.
MCMatched == [g1 |-> {"g1"}, g2 |-> {"g1"}]

-----------------------------------------------------------------------------
\* Whatever fails, is killed or is interrupted on the way: an import, a
\* processGraph(), the constructor of LocalStore, a runProgram2() and the
\* computation of a closure end, and every get() of a pool is served.  No
\* wake-up is missed, nobody waits for ever on a full or an empty queue, a lock,
\* a pipe or a join, and a pool never hands out more than it may hold.
EveryoneGetsThere == [](component = "pool" => PoolTypeOK /\ PoolWakesEnough) /\ <>(
  /\ component = "import" => ppc \in {"registered", "failed"}
  /\ component = "graph" => tpc[Main] = "over"
  /\ component = "open" => \A p \in Opener : opc[p] \in {"closed", "failed", "killed"}
  /\ component = "run" => rpc \in {"returned", "threw"}
  /\ component = "pool" => \A u \in PoolUser : upc[u] = "out" /\ gets[u] = MaxGets
  /\ component = "closure" => Returned)
=============================================================================
