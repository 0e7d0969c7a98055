------------------------------ MODULE MCSignIn ------------------------------
(***************************************************************************)
(* Instances of SignIn for TLC.  Texts are named after their length; the   *)
(* lengths lie on both sides of both limits of the filters.                *)
(***************************************************************************)
EXTENDS SignIn, TLC

CONSTANTS r1, r2, r3

MCCount == ("" :> 0) @@ ("two" :> 2) @@ ("three" :> 3) @@ ("nineteen" :> 19) @@ ("twenty" :> 20)

CountOf(texts) == [t \in texts |-> MCCount[t]]

\* For the run about typing: every kind of text, one call at a time.
TypingText == {"", "two", "three", "nineteen", "twenty"}
TypingCount == CountOf(TypingText)
TypingAccount == {<<"nineteen", "three">>}

\* For the runs about concurrent calls: one text beside the empty one.
AnswersText == {"", "three"}
AnswersCount == CountOf(AnswersText)
AnswersAccount == {<<"three", "three">>}

RequestSymmetry == Permutations(Request)

=============================================================================
