----------------------------- MODULE RunProgram -----------------------------
(***************************************************************************)
(* Running a program and reading its output: runProgram2(),                *)
(* startProcess() and Pid in src/src/libutil/unix/processes.cc, with the   *)
(* pipe of src/src/libutil/unix/file-descriptor.cc and drainFD() of        *)
(* src/src/libutil/file-descriptor.cc.  The parent may be interrupted at   *)
(* any time; the kernel (fork, pipes, signals, waitpid) is external.       *)
(***************************************************************************)
EXTENDS Integers

CONSTANTS
  Output,   \* how much the program writes
  PipeSize  \* how much the pipe holds

ASSUME OutputAssumption == Output \in Nat /\ PipeSize \in Nat \ {0}

VARIABLES
  rpc,     \* where the parent is
  child,   \* the child: "none", "setup", "running", "zombie" or "reaped"
  vforked, \* the child shares the parent's memory until it has called exec
  written, \* what the program has written
  inPipe,  \* what lies in the pipe
  received,\* what drainFD() has given to the sink
  status,  \* the exit status of the child
  stop,    \* unix::_isInterrupted
  pid      \* Pid::pid: TRUE if it is not -1

rpVars == <<rpc, child, vforked, written, inPipe, received, status, stop, pid>>

RunInit ==
  /\ rpc = "start"
  /\ child = "none"
  /\ vforked \in BOOLEAN
  /\ written = 0 /\ inPipe = 0 /\ received = 0
  /\ status = "none"
  /\ stop = FALSE
  /\ pid = FALSE

\* triggerInterrupt() in the thread that handles signals.
InterruptArrives ==
  /\ ~stop
  /\ stop' = TRUE
  /\ UNCHANGED <<rpc, child, vforked, written, inPipe, received, status, pid>>

-----------------------------------------------------------------------------
(* The child.                                                              *)

\* The function given to startProcess(): descriptors, directory and user are
\* set, then the program is executed; anything that fails throws, which ends
\* in _exit(1).
ChildSetup ==
  /\ child = "setup"
  /\ \/ child' = "running" /\ UNCHANGED status
     \/ child' = "zombie" /\ status' = "failed"
  /\ UNCHANGED <<rpc, vforked, written, inPipe, received, stop, pid>>

\* The program writes and blocks while the pipe is full.
ChildWrites ==
  /\ child = "running"
  /\ written < Output
  /\ inPipe < PipeSize
  /\ written' = written + 1
  /\ inPipe' = inPipe + 1
  /\ UNCHANGED <<rpc, child, vforked, received, status, stop, pid>>

ChildExits ==
  /\ child = "running"
  /\ written = Output
  /\ child' = "zombie"
  /\ status' \in {"ok", "failed"}
  /\ UNCHANGED <<rpc, vforked, written, inPipe, received, stop, pid>>

-----------------------------------------------------------------------------
(* The parent.                                                             *)

\* As Unwind, for a Pid without a destructor.
UnwindOnly == rpc' = "threw" /\ UNCHANGED <<child, pid, status>>

\* An exception leaves runProgram2(): Pid::~Pid() kills the child, and waits
\* for it whatever interrupts arrive.
Unwind ==
  IF pid
  THEN /\ rpc' = "killing"
       /\ child' = IF child \in {"setup", "running"} THEN "zombie" ELSE child
       /\ status' = IF child = "zombie" THEN status ELSE "killed"
       /\ UNCHANGED pid
  ELSE rpc' = "threw" /\ UNCHANGED <<child, pid, status>>

\* checkInterrupt(), where the parent calls it.
InterruptNoticed ==
  /\ rpc \in {"start", "drain", "wait"}
  /\ stop
  /\ Unwind
  /\ UNCHANGED <<vforked, written, inPipe, received, stop>>

\* The pipe and the fork, which may fail.
StartProcess ==
  /\ rpc = "start"
  /\ ~stop
  /\ \/ rpc' = "forked" /\ child' = "setup" /\ pid' = TRUE
     \/ rpc' = "threw" /\ UNCHANGED <<child, pid>>
  /\ UNCHANGED <<vforked, written, inPipe, received, status, stop>>

\* The parent goes on at once, or when the child no longer uses its memory,
\* and closes its end of the pipe.
ParentResumes ==
  /\ rpc = "forked"
  /\ vforked => child # "setup"
  /\ rpc' = "drain"
  /\ UNCHANGED <<child, vforked, written, inPipe, received, status, stop, pid>>

\* drainFD(): what is in the pipe goes to the sink, which may throw; the pipe
\* is at its end when it is empty and nobody can write to it any more.
DrainFD ==
  /\ rpc = "drain"
  /\ ~stop
  /\ \/ /\ inPipe > 0
        /\ inPipe' = inPipe - 1
        /\ \/ /\ received' = received + 1
              /\ UNCHANGED <<rpc, child, pid, status>>
           \/ Unwind /\ UNCHANGED received
     \/ /\ inPipe = 0
        /\ child = "zombie"
        /\ rpc' = "wait"
        /\ UNCHANGED <<child, pid, status, inPipe, received>>
  /\ UNCHANGED <<vforked, written, stop>>

\* Pid::wait(): after EINTR, and only if it allows interrupts, it checks for
\* one.
PidWait ==
  /\ rpc \in {"wait", "killing"}
  /\ child = "zombie"
  /\ child' = "reaped"
  /\ pid' = FALSE
  /\ rpc' = IF rpc = "wait" /\ status = "ok" THEN "returned" ELSE "threw"
  /\ UNCHANGED <<vforked, written, inPipe, received, status, stop>>

RunOver ==
  /\ rpc \in {"returned", "threw"}
  /\ UNCHANGED rpVars

RunParent == InterruptNoticed \/ StartProcess \/ ParentResumes \/ DrainFD
               \/ PidWait
RunChild == ChildSetup \/ ChildWrites \/ ChildExits

RunNext == InterruptArrives \/ RunParent \/ RunChild \/ RunOver

RunSpec == RunInit /\ [][RunNext]_rpVars

-----------------------------------------------------------------------------

\* The types of the variables.
RunTypeOK ==
  /\ rpc \in {"start", "forked", "drain", "wait", "killing", "returned",
              "threw"}
  /\ child \in {"none", "setup", "running", "zombie", "reaped"}
  /\ written \in 0..Output /\ inPipe \in 0..PipeSize
  /\ received \in 0..Output
  /\ status \in {"none", "ok", "failed", "killed"}
  /\ {stop, pid, vforked} \subseteq BOOLEAN

\* However runProgram2() ends (the program fails, the sink throws, the user
\* interrupts it), no child is left behind, running or as a zombie, and when
\* it returns, the sink has got everything the program wrote.
NoChildLeft ==
  /\ RunTypeOK
  /\ rpc \in {"returned", "threw"} => child \in {"none", "reaped"}
  /\ rpc = "returned" => received = Output
=============================================================================
