----------------------------- MODULE MCPipeline -----------------------------
(***************************************************************************)
(* EmbeddingPipeline for model checking: the slots of the worker do the    *)
(* same work, so states that differ only in which slot does what are       *)
(* checked once.  The properties of these runs are invariants.             *)
(***************************************************************************)
EXTENDS EmbeddingPipeline, TLC

Slots == Permutations(Workers)
=============================================================================
