----------------------------- MODULE MCUserStore ----------------------------
(***************************************************************************)
(* Instances of UserStore for TLC.  Nothing tells the calls, the rows or   *)
(* the containers apart.                                                   *)
(***************************************************************************)
EXTENDS UserStore, TLC

StoreSymmetry == Permutations(Fetch) \union Permutations(Row) \union Permutations(Container)

=============================================================================
