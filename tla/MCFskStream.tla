----------------------------- MODULE MCFskStream -----------------------------
(* TLC model of FskStream: constants are given in the configurations.        *)
EXTENDS FskStream
==============================================================================
