----------------------------- MODULE Interrupts -----------------------------
(***************************************************************************)
(* Interrupts of the program: src/src/libutil/unix/signals.cc.  A thread   *)
(* that handles signals, or one that watches a descriptor (MonitorFdHup),  *)
(* sets a flag and calls every registered callback.  The callbacks are     *)
(* kept under increasing tokens so that they can be called without the     *)
(* lock while other threads register and deregister theirs.                *)
(***************************************************************************)
EXTENDS Integers, FiniteSets, FiniteSetsExt

CONSTANTS
  Trigger,   \* threads that call triggerInterrupt()
  Owner,     \* threads that own callbacks (ReceiveInterrupts)
  MaxToken   \* bound: tokens given out

ASSUME TokenAssumption == MaxToken \in Nat

VARIABLES
  isInterrupted, \* unix::_isInterrupted
  nextToken,     \* InterruptCallbacks::nextToken
  callbacks,     \* the tokens that InterruptCallbacks::callbacks has
  token,         \* token[o]: the token of o's callback, or NoToken
  spc,           \* spc[s]: where triggerInterrupt() is
  cursor,        \* cursor[s]: the variable i
  fetched,       \* fetched[s]: the callback about to be called
  told,          \* told[s]: history: the callbacks it has called
  since          \* since[s]: history: those there from its start to now

sigVars == <<isInterrupted, nextToken, callbacks, token, spc, cursor, fetched,
             told, since>>

NoToken == -1

SigInit ==
  /\ isInterrupted = FALSE
  /\ nextToken = 0
  /\ callbacks = {}
  /\ token = [o \in Owner |-> NoToken]
  /\ spc = [s \in Trigger |-> "waiting"]
  /\ cursor = [s \in Trigger |-> 0]
  /\ fetched = [s \in Trigger |-> NoToken]
  /\ told = [s \in Trigger |-> {}]
  /\ since = [s \in Trigger |-> {}]

\* createInterruptCallback().
CreateInterruptCallback(o) ==
  /\ token[o] = NoToken
  /\ nextToken <= MaxToken
  /\ token' = [token EXCEPT ![o] = nextToken]
  /\ callbacks' = callbacks \cup {nextToken}
  /\ nextToken' = nextToken + 1
  /\ UNCHANGED <<isInterrupted, spc, cursor, fetched, told, since>>

\* InterruptCallbackImpl::~InterruptCallbackImpl().  A trigger that has
\* fetched the callback calls it all the same.
DropInterruptCallback(o) ==
  /\ token[o] # NoToken
  /\ callbacks' = callbacks \ {token[o]}
  /\ since' = [s \in Trigger |-> since[s] \ {token[o]}]
  /\ token' = [token EXCEPT ![o] = NoToken]
  /\ UNCHANGED <<isInterrupted, nextToken, spc, cursor, fetched, told>>

\* A signal, or the end of the watched descriptor.
TriggerInterrupt(s) ==
  /\ spc[s] = "waiting"
  /\ isInterrupted' = TRUE
  /\ spc' = [spc EXCEPT ![s] = "fetch"]
  /\ cursor' = [cursor EXCEPT ![s] = 0]
  /\ told' = [told EXCEPT ![s] = {}]
  /\ since' = [since EXCEPT ![s] = callbacks]
  /\ UNCHANGED <<nextToken, callbacks, token, fetched>>

\* As NotBefore, with upper_bound().
After(i) == {k \in callbacks : k > i}

\* What lower_bound(i) ranges over.
NotBefore(i) == {k \in callbacks : k >= i}

FetchCallback(s) ==
  /\ spc[s] = "fetch"
  /\ IF NotBefore(cursor[s]) = {}
     THEN /\ spc' = [spc EXCEPT ![s] = "done"]
          /\ UNCHANGED <<cursor, fetched>>
     ELSE /\ fetched' = [fetched EXCEPT ![s] = Min(NotBefore(cursor[s]))]
          /\ cursor' = [cursor EXCEPT ![s] = Min(NotBefore(cursor[s])) + 1]
          /\ spc' = [spc EXCEPT ![s] = "call"]
  /\ UNCHANGED <<isInterrupted, nextToken, callbacks, token, told, since>>

\* The callback runs without the lock; what it throws is ignored.
CallCallback(s) ==
  /\ spc[s] = "call"
  /\ told' = [told EXCEPT ![s] = @ \cup {fetched[s]}]
  /\ fetched' = [fetched EXCEPT ![s] = NoToken]
  /\ spc' = [spc EXCEPT ![s] = "fetch"]
  /\ UNCHANGED <<isInterrupted, nextToken, callbacks, token, cursor, since>>

TriggerStep(s) == FetchCallback(s) \/ CallCallback(s)

SigNext ==
  \/ \E o \in Owner : CreateInterruptCallback(o) \/ DropInterruptCallback(o)
  \/ \E s \in Trigger : TriggerInterrupt(s) \/ TriggerStep(s)

SigSpec == SigInit /\ [][SigNext]_sigVars

-----------------------------------------------------------------------------

\* The types of the variables.
SigTypeOK ==
  /\ isInterrupted \in BOOLEAN
  /\ nextToken \in 0..(MaxToken + 1)
  /\ callbacks \subseteq 0..MaxToken
  /\ token \in [Owner -> callbacks \cup {NoToken}]
  /\ spc \in [Trigger -> {"waiting", "fetch", "call", "done"}]
  /\ fetched \in [Trigger -> -1..MaxToken]

\* When triggerInterrupt() returns, it has called every callback that was
\* registered when it began and has not been deregistered since, although the
\* list changes under it between two calls.
InterruptReachesAll ==
  SigTypeOK /\ \A s \in Trigger : spc[s] = "done" => since[s] \subseteq told[s]
=============================================================================
