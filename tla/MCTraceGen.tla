---------------------------- MODULE MCTraceGen ----------------------------
(***************************************************************************)
(* Instances of TraceGen for TLC: a channel of 2 ranks and 2 bank groups,  *)
(* tiles of 2 rows and all calls with small arguments.                     *)
(***************************************************************************)
EXTENDS TraceGen

CONSTANTS MaxL, LongestL, Dheads, Dbytes, MaxHeads

AllInputs == [unit : {"bank", "bg", "buffer"}, L : 1..MaxL, maxL : {LongestL},
              dhead : Dheads, dbyte : Dbytes, n_head : 1..MaxHeads]
=============================================================================
