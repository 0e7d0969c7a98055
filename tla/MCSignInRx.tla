----------------------------- MODULE MCSignInRx -----------------------------
(***************************************************************************)
(* An instance of SignInRx for TLC.  Texts are named after their length:   *)
(* one that the filters refuse and two that they let through.              *)
(***************************************************************************)
EXTENDS SignInRx, TLC

CONSTANTS r1, r2

MCCount == ("" :> 0) @@ ("three" :> 3) @@ ("four" :> 4)

MCAccount == {<<"three", "three">>}

RequestSymmetry == Permutations(Request)

=============================================================================
