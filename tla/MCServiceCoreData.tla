-------------------------- MODULE MCServiceCoreData --------------------------
(***************************************************************************)
(* Instances of ServiceCoreData for TLC.  Two entities of lists show what  *)
(* the save of one does to the rows of another.                            *)
(***************************************************************************)
EXTENDS ServiceCoreData, TLC

EntitySymmetry == Permutations(ListEntity)

=============================================================================
