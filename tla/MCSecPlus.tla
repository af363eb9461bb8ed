----------------------------- MODULE MCSecPlus -----------------------------
(* Instance: a second of five units, of which four are CACHE_MAX_AGE. *)
EXTENDS SecPlus
=============================================================================
