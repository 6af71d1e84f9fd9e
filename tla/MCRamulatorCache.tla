-------------------------- MODULE MCRamulatorCache --------------------------
(* An instance of RamulatorCache for TLC: processes whose answers are         *)
(* comparable, and one whose answers are not, for all reasons at once.       *)
EXTENDS RamulatorCache, TLC

MCSetups ==
  {[dhead |-> 1, k |-> 1, pim |-> "BG", fast |-> FALSE],
   [dhead |-> 1, k |-> 2, pim |-> "BUFFER", fast |-> TRUE]}

MCGranularity == [t \in PIMTypes |-> CASE t = "BA" -> 4 [] t = "BG" -> 2 [] OTHER -> 1]

ProcSymmetry == Permutations(Procs)
=============================================================================
