---------------------------- MODULE MCHttpServer ----------------------------
(* HttpServer with symmetric connections.                                   *)
EXTENDS HttpServer, TLC

ConnSymmetry == Permutations(Conns)
=============================================================================
