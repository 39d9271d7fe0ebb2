------------------------------ MODULE MCJobQueue ------------------------------
(* Instances of JobQueue for TLC: the workers, and the clients, are alike. *)
EXTENDS JobQueueRefinement, TLC

Symmetry == Permutations(Worker) \cup Permutations(Client)
=============================================================================
