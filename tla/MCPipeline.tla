------------------------------ MODULE MCPipeline ------------------------------
(* Pipeline for TLC.  The methods stand for the three ways enforce() treats a
   request.                                                                  *)
EXTENDS Pipeline, TLC

OneOfEach == {"tools/list", "tools/call", "resources/read"}

RequestSymmetry == Permutations(Requests)
=============================================================================
