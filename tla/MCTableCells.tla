----------------------------- MODULE MCTableCells ----------------------------
(***************************************************************************)
(* Instances of TableCells for TLC: fewer cells than rows: scrolling makes   *)
(* each cell show several rows in turn.                                    *)
(***************************************************************************)
EXTENDS TableCells, TLC

CellSymmetry == Permutations(Cell)

=============================================================================
