---------------------------- MODULE MCGenerations ----------------------------
(***************************************************************************)
(* Small instances of Generations.                                         *)
(***************************************************************************)
EXTENDS Generations

\* Names that match themselves and nothing else.
PlainNames == [g \in Gen |-> {g}]
=============================================================================
