----------------------------- MODULE MCChatServer ------------------------------
(* Constants of the TLC runs of ChatServer. *)
EXTENDS ChatServer, TLC

\* Descriptors are interchangeable; used in safety runs only.
Symmetry == Permutations(Fds)
==============================================================================
