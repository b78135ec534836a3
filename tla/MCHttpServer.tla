---------------------------- MODULE MCHttpServer ----------------------------
(***************************************************************************)
(* Small instances of HttpServer for TLC.                                  *)
(***************************************************************************)
EXTENDS HttpServerRefinement, TLC

\* Contexts, handles and workers are interchangeable.
ServerSymmetry ==
  Permutations(Conns) \cup Permutations(Handles) \cup Permutations(Workers)

=============================================================================
