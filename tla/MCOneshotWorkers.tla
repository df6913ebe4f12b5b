--------------------------- MODULE MCOneshotWorkers ----------------------------
(* Constants of the TLC runs of OneshotWorkers. *)
EXTENDS OneshotWorkers, TLC

\* Descriptors and threads are interchangeable; used in safety runs only.
Symmetry == Permutations(Fds) \cup Permutations(Threads)
==============================================================================
