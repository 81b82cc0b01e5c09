-------------------------- MODULE MCObligationGraph --------------------------
(* Interchangeable rows.  Three of them close every kind of loop: parent,     *)
(* child and prerequisite.                                                    *)
EXTENDS ObligationGraph, TLC

Symmetric == Permutations(Obligation)
=============================================================================
