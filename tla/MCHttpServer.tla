---------------------------- MODULE MCHttpServer -----------------------------
(* The TLC runs of HttpServer: all constants are model values and numbers of  *)
(* the configurations.  Descriptors and workers are interchangeable.          *)
EXTENDS HttpServer, TLC

Symmetry == Permutations(Fds) \cup Permutations(Workers)
==============================================================================
