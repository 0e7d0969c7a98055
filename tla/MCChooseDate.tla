----------------------------- MODULE MCChooseDate ----------------------------
(***************************************************************************)
(* Instances of ChooseDate for TLC: two days and two times of day tell the *)
(* components, and what was shown from what was chosen.                    *)
(***************************************************************************)
EXTENDS ChooseDate, TLC

MomentSymmetry == Permutations(Day) \union Permutations(Time)

=============================================================================
