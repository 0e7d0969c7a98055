---------------------------- MODULE SignInRounds ----------------------------
(***************************************************************************)
(* What the sign-in pipeline promises, without queues, texts or screens.   *)
(*                                                                         *)
(* Sign-in runs in rounds.  Within a round any number of attempts may be   *)
(* outstanding, and each that the server accepts admits the user.  The     *)
(* first refusal ends the round: the attempts still outstanding no longer  *)
(* count, whatever the server answers them, and one of the Limit rounds    *)
(* that a launch of the app has is used up.                                *)
(***************************************************************************)
EXTENDS Naturals

CONSTANTS
  Request,   \* identities of sign-in attempts
  Limit      \* rounds per launch

VARIABLES
  left,       \* rounds left, the current one included
  pending,    \* the outstanding attempts whose answer still counts
  admitted,   \* the user is past the sign-in screen
  signedIn    \* the server has accepted some attempt

roundVars == <<left, pending, admitted, signedIn>>

Init ==
  /\ left = Limit
  /\ pending = {}
  /\ admitted = FALSE
  /\ signedIn = FALSE

Ask(r) ==
  /\ left > 0
  /\ r \notin pending
  /\ pending' = pending \union {r}
  /\ UNCHANGED <<left, admitted, signedIn>>

\* The server accepts; nobody has been told yet.
Authenticate ==
  /\ signedIn' = TRUE
  /\ UNCHANGED <<left, pending, admitted>>

\* An acceptance that still counts lets the user in.
Admit(r) ==
  /\ r \in pending
  /\ signedIn
  /\ pending' = pending \ {r}
  /\ admitted' = TRUE
  /\ UNCHANGED <<left, signedIn>>

\* A refusal that still counts ends the round for everybody.
Refuse(r) ==
  /\ r \in pending
  /\ left > 0
  /\ left' = left - 1
  /\ pending' = {}
  /\ UNCHANGED <<admitted, signedIn>>

Leave ==
  /\ admitted' = FALSE
  /\ UNCHANGED <<left, pending, signedIn>>

Relaunch ==
  /\ left' = Limit
  /\ pending' = {}
  /\ admitted' = FALSE
  /\ UNCHANGED signedIn

Next ==
  \/ \E r \in Request : Ask(r) \/ Admit(r) \/ Refuse(r)
  \/ Authenticate
  \/ Leave
  \/ Relaunch

Spec == Init /\ [][Next]_roundVars

=============================================================================
