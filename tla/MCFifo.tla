------------------------------- MODULE MCFifo -------------------------------
(* The fifo with two producers and two consumers.  Threads of one kind and *)
(* elements are interchangeable.                                           *)
EXTENDS Fifo, TLC

Symmetry == Permutations(Producers) \cup Permutations(Consumers)
              \cup Permutations(Elements)
=============================================================================
