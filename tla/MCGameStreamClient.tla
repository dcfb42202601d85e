------------------------- MODULE MCGameStreamClient -------------------------
EXTENDS GameStreamClient, TLC

(* PCs are interchangeable; addresses and names are ordered.               *)
MachineSymmetry == Permutations(Machines)
=============================================================================
