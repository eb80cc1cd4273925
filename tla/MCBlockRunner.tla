--------------------------- MODULE MCBlockRunner ---------------------------
(* Instances of BlockRunner for TLC. *)
EXTENDS BlockRunner, TLC

\* Block handlers are interchangeable in every safety property.
Symmetry == Permutations(Handlers)

\* Everything is due from the first block on ...
AtOnce == [i \in Customs |-> 1]

\* ... or only after the runner has had two blocks for the upgrade proposal.
Later == [i \in Customs |-> IF i \in PassesYes THEN 3 ELSE 4]
===========================================================================
