------------------------------ MODULE MCStoreDB ------------------------------
(***************************************************************************)
(* A small instance of StoreDB: two processes and an empty store, in which *)
(* one of them registers a path while the other one verifies the store.    *)
(***************************************************************************)
EXTENDS StoreDB, TLC

MCHandles == [t1 |-> "h1", t2 |-> "h2"]
OnePath == {"a" :> [refs |-> {}, ca |-> TRUE]}
NoPaths == [x \in Path |-> NoRow]
EmptyStore == {[rows |-> NoPaths, refs |-> {}, disk |-> NoPaths]}
=============================================================================
