------------------------------- MODULE SignIn -------------------------------
(***************************************************************************)
(* Signing in: the two text fields and the button of                       *)
(* AuthorizationViewController, the Rx pipeline that AuthViewModel builds  *)
(* from them, AuthService's calls of Firebase, and the screens that the    *)
(* answers open.                                                           *)
(*                                                                         *)
(*   text ---filter---> latest --\                                         *)
(*                                combine --> tap --flatMap--> Firebase    *)
(*   text ---filter---> latest --/                                         *)
(*                                                                         *)
(*   Firebase --main queue--> do(onError: alert) --> retry(3) --> push     *)
(*                                                                         *)
(* Everything the app does runs on the main thread.  Firebase answers on   *)
(* threads of its own: it first records the signed-in user, then enqueues  *)
(* the completion handler on the main queue, so answers to several taps    *)
(* come in any order and meet whatever the user has done in the meantime.  *)
(***************************************************************************)
EXTENDS Navigation

CONSTANTS
  Text,       \* what a text field can hold
  EmptyText,  \* ... and holds at first
  Count,      \* Count[t] is the number of characters of t
  Account,    \* the <<login, password>> pairs that Firebase accepts
  Request     \* bound: the sign-in calls that can be under way at a time

ASSUME TextAssumption ==
  /\ EmptyText \in Text
  /\ Count \in [Text -> Nat]
  /\ Count[EmptyText] = 0

ASSUME AccountAssumption == Account \subseteq Text \X Text

ASSUME NoneAssumption ==
  /\ None \notin Text
  /\ None \notin Text \X Text

VARIABLES
  text,         \* text[f]: what field f shows
  latest,       \* latest[f]: the last valid text of f that combineLatest holds
  attempts,     \* subscriptions that retry still has, the current one included
  calls,        \* calls[r]: how far the sign-in call r is
  credentials,  \* credentials[r]: the pair that call r submitted
  observed,     \* the calls whose observer is not disposed
  mainQueue,    \* completion handlers waiting for the main thread
  currentUser   \* the user that Firebase keeps, also across launches

signInVars ==
  <<text, latest, attempts, calls, credentials, observed, mainQueue, currentUser>>

vars == <<signInVars, navVars>>

-----------------------------------------------------------------------------

Field == {"login", "password"}

CallStatus == {"idle", "sent", "accepted", "rejected"}

MinCount == 3
MaxCount == 20
MaxAttempts == 3

\* The filters that validationUser puts on the text of a field.
Valid(t) ==
  /\ Count[t] >= MinCount
  /\ Count[t] < MaxCount

\* Mutated: the fields do not replay their text.
LatestForgotten == [f \in Field |-> None]

\* A text field replays its current text to a new subscriber; the filters
\* then drop it unless it is valid.
LatestOnSubscribe ==
  [f \in Field |-> IF Valid(text[f]) THEN text[f] ELSE None]

TypeOK ==
  /\ NavTypeOK
  /\ text \in [Field -> Text]
  /\ latest \in [Field -> Text \union {None}]
  /\ attempts \in 0..MaxAttempts
  /\ calls \in [Request -> CallStatus]
  /\ credentials \in [Request -> (Text \X Text) \union {None}]
  /\ \A r \in Request : calls[r] # "idle" => credentials[r] \in Text \X Text
  /\ observed \subseteq Request
  /\ mainQueue \in Seq(Request)
  /\ currentUser \in Account \union {None}

Init ==
  /\ NavInit
  /\ text = [f \in Field |-> EmptyText]
  /\ latest = [f \in Field |-> None]
  /\ attempts = MaxAttempts
  /\ calls = [r \in Request |-> "idle"]
  /\ credentials = [r \in Request |-> None]
  /\ observed = {}
  /\ mainQueue = << >>
  /\ currentUser = None

-----------------------------------------------------------------------------
(***************************************************************************)
(* The user.                                                               *)
(***************************************************************************)

\* An invalid text reaches the screen but not combineLatest, which keeps the
\* last valid one.  Nobody listens any more once retry has given up.
Type(f, t) ==
  /\ Frontmost("Auth")
  /\ t # text[f]
  /\ text' = [text EXCEPT ![f] = t]
  /\ latest' = IF attempts > 0 /\ Valid(t) THEN [latest EXCEPT ![f] = t] ELSE latest
  /\ UNCHANGED <<attempts, calls, credentials, observed, mainQueue, currentUser, navVars>>

\* Mutated: a tap counts before both fields have had a valid text.
TapUnready(r) ==
  /\ Frontmost("Auth")
  /\ attempts > 0
  /\ calls[r] = "idle"
  /\ calls' = [calls EXCEPT ![r] = "sent"]
  /\ credentials' = [credentials EXCEPT ![r] = <<latest["login"], latest["password"]>>]
  /\ observed' = observed \union {r}
  /\ UNCHANGED <<text, latest, attempts, mainQueue, currentUser, navVars>>

\* Mutated: flatMapLatest, so that a tap disposes the calls under way.
TapLatest(r) ==
  /\ Frontmost("Auth")
  /\ attempts > 0
  /\ \A f \in Field : latest[f] # None
  /\ calls[r] = "idle"
  /\ calls' = [calls EXCEPT ![r] = "sent"]
  /\ credentials' = [credentials EXCEPT ![r] = <<latest["login"], latest["password"]>>]
  /\ observed' = {r}
  /\ UNCHANGED <<text, latest, attempts, mainQueue, currentUser, navVars>>

\* withLatestFrom drops a tap until both fields have had a valid text.  The
\* button stays enabled: flatMap starts a call beside those under way.
Tap(r) ==
  /\ Frontmost("Auth")
  /\ attempts > 0
  /\ \A f \in Field : latest[f] # None
  /\ calls[r] = "idle"
  /\ calls' = [calls EXCEPT ![r] = "sent"]
  /\ credentials' = [credentials EXCEPT ![r] = <<latest["login"], latest["password"]>>]
  /\ observed' = observed \union {r}
  /\ UNCHANGED <<text, latest, attempts, mainQueue, currentUser, navVars>>

-----------------------------------------------------------------------------
(***************************************************************************)
(* Firebase, on its own queues.                                            *)
(***************************************************************************)

\* Mutated: the completion handler is enqueued before the user is recorded.
AcceptUnrecorded(r) ==
  /\ calls[r] = "sent"
  /\ credentials[r] \in Account
  /\ calls' = [calls EXCEPT ![r] = "accepted"]
  /\ mainQueue' = Append(mainQueue, r)
  /\ UNCHANGED <<text, latest, attempts, credentials, observed, currentUser, navVars>>

Accept(r) ==
  /\ calls[r] = "sent"
  /\ credentials[r] \in Account
  /\ calls' = [calls EXCEPT ![r] = "accepted"]
  /\ currentUser' = credentials[r]
  /\ mainQueue' = Append(mainQueue, r)
  /\ UNCHANGED <<text, latest, attempts, credentials, observed, navVars>>

\* Wrong credentials, but also no network, a timeout or a full keychain.
Reject(r) ==
  /\ calls[r] = "sent"
  /\ calls' = [calls EXCEPT ![r] = "rejected"]
  /\ mainQueue' = Append(mainQueue, r)
  /\ UNCHANGED <<text, latest, attempts, credentials, observed, currentUser, navVars>>

Answer(r) == Accept(r) \/ Reject(r)

-----------------------------------------------------------------------------
(***************************************************************************)
(* The main thread runs the next completion handler.                       *)
(***************************************************************************)

Dequeue(r) ==
  /\ mainQueue # << >>
  /\ r = Head(mainQueue)
  /\ mainQueue' = Tail(mainQueue)
  /\ calls' = [calls EXCEPT ![r] = "idle"]
  /\ credentials' = [credentials EXCEPT ![r] = None]

\* Mutated: onNext without looking at the error.
DeliverAnyAnswer(r) ==
  /\ Dequeue(r)
  /\ r \in observed
  /\ observed' = observed \ {r}
  /\ Push("Office")
  /\ UNCHANGED <<text, latest, attempts, currentUser, modal, userName>>

\* onNext reaches the subscriber, whose router pushes the screen of offices
\* on top of whatever shows by now; onCompleted ends the inner observable.
DeliverSuccess(r) ==
  /\ Dequeue(r)
  /\ r \in observed
  /\ calls[r] = "accepted"
  /\ observed' = observed \ {r}
  /\ Push("Office")
  /\ UNCHANGED <<text, latest, attempts, currentUser, modal, userName>>

\* Mutated: the error of a call disposes no other call.
DeliverFailureOfOne(r) ==
  /\ Dequeue(r)
  /\ r \in observed
  /\ calls[r] = "rejected"
  /\ observed' = observed \ {r}
  /\ attempts' = attempts - 1
  /\ latest' = IF attempts > 1 THEN LatestOnSubscribe ELSE [f \in Field |-> None]
  /\ Present("Auth", "alert")
  /\ UNCHANGED <<text, currentUser, stack, userName>>

\* Mutated: AuthService reports no error.
DeliverFailureToNobody(r) ==
  /\ Dequeue(r)
  /\ r \in observed
  /\ calls[r] = "rejected"
  /\ UNCHANGED <<text, latest, attempts, observed, currentUser, navVars>>

\* Mutated: retry() without a limit.
DeliverFailureUncounted(r) ==
  /\ Dequeue(r)
  /\ r \in observed
  /\ calls[r] = "rejected"
  /\ observed' = {}
  /\ latest' = LatestOnSubscribe
  /\ Present("Auth", "alert")
  /\ UNCHANGED <<text, attempts, currentUser, stack, userName>>

\* onError passes through flatMap, which disposes every call under way, to
\* do(onError:), which presents the alert, and to retry, which subscribes to
\* the whole chain again or, at its last attempt, ends it for good.
DeliverFailure(r) ==
  /\ Dequeue(r)
  /\ r \in observed
  /\ calls[r] = "rejected"
  /\ observed' = {}
  /\ attempts' = attempts - 1
  /\ latest' = IF attempts > 1 THEN LatestOnSubscribe ELSE [f \in Field |-> None]
  /\ Present("Auth", "alert")
  /\ UNCHANGED <<text, currentUser, stack, userName>>

\* The answer to a call whose observer is disposed has no effect: AuthService
\* cannot cancel a call, it can only be ignored.
DeliverIgnored(r) ==
  /\ Dequeue(r)
  /\ r \notin observed
  /\ UNCHANGED <<text, latest, attempts, observed, currentUser, navVars>>

Deliver(r) == DeliverSuccess(r) \/ DeliverFailure(r) \/ DeliverIgnored(r)

-----------------------------------------------------------------------------

\* The user moves between the screens.
Navigate == NavNext /\ UNCHANGED signInVars

\* The process ends at any point and the app starts again at the sign-in
\* screen, although Firebase still knows its user.  UserDefaults stays too.
Relaunch ==
  /\ stack' = <<"Auth">>
  /\ modal' = "none"
  /\ text' = [f \in Field |-> EmptyText]
  /\ latest' = [f \in Field |-> None]
  /\ attempts' = MaxAttempts
  /\ calls' = [r \in Request |-> "idle"]
  /\ credentials' = [r \in Request |-> None]
  /\ observed' = {}
  /\ mainQueue' = << >>
  /\ UNCHANGED <<currentUser, userName>>

Next ==
  \/ \E f \in Field, t \in Text : Type(f, t)
  \/ \E r \in Request : Tap(r)
  \/ \E r \in Request : Accept(r)
  \/ \E r \in Request : Reject(r)
  \/ \E r \in Request : DeliverSuccess(r)
  \/ \E r \in Request : DeliverFailure(r)
  \/ \E r \in Request : DeliverIgnored(r)
  \/ Navigate
  \/ Relaunch

Spec == Init /\ [][Next]_vars

(***************************************************************************)
(* Firebase answers every call, if only with a timeout, and the main       *)
(* thread never stops running its queue.  The user owes nothing.           *)
(***************************************************************************)
Fairness ==
  /\ \A r \in Request : WF_vars(Answer(r))
  /\ WF_vars(\E r \in Request : Deliver(r))

FairSpec == Spec /\ Fairness

-----------------------------------------------------------------------------
(***************************************************************************)
(* Properties.                                                             *)
(***************************************************************************)

Acceptable(t) == Count[t] \in 3..19

\* While retry has attempts left, the pair that the next tap submits is the
\* pair on the screen, except for a field whose text the filters refuse: that
\* one stands with an earlier text of 3 to 19 characters, or stops the tap.
\* After a failed attempt this rests on the fields replaying their text to the
\* new subscription (AuthViewModel.transform, validationUser, retry).
LatestTracksScreen ==
  attempts > 0 =>
    \A f \in Field :
      IF Acceptable(text[f])
      THEN latest[f] = text[f]
      ELSE latest[f] = None \/ Acceptable(latest[f])

\* While the alert of a failed sign-in shows, no call is left that could open
\* a screen beneath it or call for a second alert: the error of one call
\* silences all the others (flatMap under do(onError:) in bindViewModel).
AlertMeansQuiet == modal = "alert" => observed = {}

\* The screen of offices is open only if Firebase knows its user, whatever the
\* order of answers, failures, navigation and relaunches (AuthService.signIn
\* reports success only after Firebase has recorded the user).
OfficeRequiresUser == OnStack("Office") => currentUser # None

\* An answer is ignored only on account of a failure reported before it in the
\* same launch: a second tap alone never disposes the call of the first
\* (flatMap, not flatMapLatest, in AuthViewModel.transform).
IgnoredOnlyAfterFailure ==
  \A r \in Request : calls[r] # "idle" /\ r \notin observed => attempts < MaxAttempts

\* Once retry has used up its attempts, the answers to calls sent before that
\* neither open the screen of offices nor present an alert, until the app is
\* started again (retry(3) disposes its source in bindViewModel).
SilentOnceExhausted ==
  [][attempts = 0 /\ attempts' = 0 =>
       /\ stack' # Append(stack, "Office")
       /\ modal' = "alert" => modal = "alert"]_vars

\* Every tap that sends a call is settled: by the screen of offices, by an
\* alert, or by the failure of another call (AuthService.signIn ends the
\* sequence on either outcome of the completion handler).
EveryTapSettles == \A r \in Request : r \in observed ~> r \notin observed

\* The pipeline implements the rounds that SignInRounds describes: a call is
\* pending while its observer is not disposed, and the rounds left are the
\* subscriptions that retry(3) has left.
Rounds ==
  INSTANCE SignInRounds
    WITH Limit <- MaxAttempts,
         left <- attempts,
         pending <- observed,
         admitted <- OnStack("Office"),
         signedIn <- (currentUser # None)

RoundsSpec == Rounds!Spec

\* The alert asks the user to repeat the attempt, so there should be a
\* subscription left that a repeated tap reaches (the message of the alert,
\* AuthorizationViewController.swift:110).
AlertInvitesLiveRetry == modal = "alert" => attempts > 0

-----------------------------------------------------------------------------
(***************************************************************************)
(* The inductive invariant behind the safety properties.                   *)
(***************************************************************************)

\* The last failure leaves no observer behind.
ExhaustedMeansQuiet == attempts = 0 => observed = {}

\* Firebase records the user before the completion handler can run.
AcceptedMeansUser == \A r \in Request : calls[r] = "accepted" => currentUser # None

\* The properties above, made inductive by two facts that bindViewModel and
\* AuthService.signIn establish between them: no observer outlives the last
\* subscription of retry(3), and no acceptance precedes Firebase's record.
IInv ==
  /\ TypeOK
  /\ ExhaustedMeansQuiet
  /\ AcceptedMeansUser
  /\ LatestTracksScreen
  /\ AlertMeansQuiet
  /\ OfficeRequiresUser
  /\ IgnoredOnlyAfterFailure

=============================================================================
