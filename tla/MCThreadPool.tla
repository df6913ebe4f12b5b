---------------------------- MODULE MCThreadPool -----------------------------
(* Constants of the TLC runs of ThreadPool. *)
EXTENDS ThreadPool, TLC

\* Threads of a kind and requests are interchangeable; used where only safety is checked.
Symmetry == Permutations(Workers) \cup Permutations(Callers) \cup Permutations(Requests)
==============================================================================
