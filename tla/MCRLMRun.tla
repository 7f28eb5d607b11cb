------------------------------ MODULE MCRLMRun ------------------------------
(* A small instance of RLMRun. *)
EXTENDS RLMRun

(* Every way to call run with limits around the size of the buffer.         *)
MCOptions ==
  [ limit : {2, 3}, batch : {1, 2}, query : BOOLEAN, workers : {1, 2}, retries : {0, 1},
    partial : BOOLEAN, synthesize : {TRUE}, recursive : {TRUE}, rounds : {1, 2} ]
  \cup
  [ limit : {2}, batch : {1}, query : {FALSE}, workers : {2}, retries : {0},
    partial : BOOLEAN, synthesize : {FALSE}, recursive : BOOLEAN, rounds : {0, 1} ]
=============================================================================
