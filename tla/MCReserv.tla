------------------------------- MODULE MCReserv ------------------------------
(***************************************************************************)
(* Instances of Reserv for TLC: one valid text, two calls under way, and   *)
(* list screens enough for a whole path and a late screen of offices.      *)
(***************************************************************************)
EXTENDS Reserv, TLC

CONSTANT r1, r2

MCText == {"", "three"}
MCCount == ("" :> 0) @@ ("three" :> 3)
MCAccount == {<<"three", "three">>}

ReservSymmetry == Permutations(Request) \union Permutations(View)

=============================================================================
