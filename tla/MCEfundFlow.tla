---------------------------- MODULE MCEfundFlow ----------------------------
(* Instances of EfundFlow for TLC. *)
EXTENDS EfundFlow, TLC

\* Block handlers are interchangeable.
Symmetry == Permutations(Handlers)
===========================================================================
