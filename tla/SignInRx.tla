------------------------------- MODULE SignInRx -------------------------------
(***************************************************************************)
(* How RxSwift runs the pipeline of SignIn, one call at a time.            *)
(*                                                                         *)
(* SignIn treats what a completion handler does as one step: the alert,    *)
(* the end of every call under way and the new subscription of retry(3),   *)
(* in which the fields replay their texts.  Here the main thread works     *)
(* through it operator by operator, while the threads of Firebase go on    *)
(* recording users and enqueueing handlers.                                *)
(*                                                                         *)
(* The tap with its latest pair, the pair itself and the two fields are    *)
(* shared sequences (Signal and Driver): the first observer connects one   *)
(* to its sources, the last one to leave disconnects it, and only a new    *)
(* connection makes a field report the text that it shows.                 *)
(*                                                                         *)
(* The filters and the conversions between Driver and Signal share their   *)
(* sequences, too; they belong to the field that they stand on.            *)
(***************************************************************************)
EXTENDS Navigation

CONSTANTS Text, EmptyText, Count, Account, Request  \* those of SignIn

ASSUME TextAssumption ==
  /\ EmptyText \in Text
  /\ Count \in [Text -> Nat]
  /\ Count[EmptyText] = 0

ASSUME AccountAssumption == Account \subseteq Text \X Text

ASSUME NoneAssumption == None \notin Text /\ None \notin Text \X Text

VARIABLES
  text, calls, credentials, mainQueue, currentUser, \* those of SignIn
  left,    \* the sources that the iterator of retry(3) has not yet returned
  over,    \* whether retry has forwarded an error and disposed itself
  sinks,   \* the subscriptions of flatMap alive, by their number
  home,    \* home[r]: the subscription that call r belongs to, 0 once it ended
  users,   \* users[n]: the number of observers of shared sequence n
  values,  \* values[f]: what the sink of combineLatest holds for field f
  pair,    \* _latest of the sink of withLatestFrom
  todo     \* what is left of the main thread's current piece of work

rxVars == <<left, over, sinks, home, users, values, pair, todo>>

sharedVars == <<text, calls, credentials, mainQueue, currentUser, navVars>>

-----------------------------------------------------------------------------
(***************************************************************************)
(* What SignIn knows of this.  The work of the main thread counts as done  *)
(* as soon as it begins.                                                   *)
(***************************************************************************)

Field == {"login", "password"}

Busy == todo # << >>

\* The work is the end of a call that succeeded.
Completing(r) == Busy /\ todo[1] = <<"complete", r>>

\* retry has yet to ask its iterator for another subscription.
RetryDue == Busy /\ todo[1] = <<"retry">>

Attempts == IF over THEN 0 ELSE IF RetryDue THEN left ELSE left + 1

Resubscribing == Busy /\ \A r \in Request : ~Completing(r)

Observed ==
  IF Resubscribing THEN {} ELSE {r \in Request : home[r] \in sinks /\ ~Completing(r)}

\* The filters of a field.
Valid(t) == Count[t] \in 3..19

\* What the fields will replay to the subscription that is under way.
Expected == [f \in Field |-> IF Attempts > 0 /\ Valid(text[f]) THEN text[f] ELSE None]

Latest == IF Resubscribing THEN Expected ELSE values

S == INSTANCE SignIn WITH latest <- Latest, attempts <- Attempts, observed <- Observed

-----------------------------------------------------------------------------
(***************************************************************************)
(* The shared sequences.                                                   *)
(***************************************************************************)

\* Sequences that are shared, and what each subscribes to, in order.
Sources ==
  [withLatest |-> <<"combined">>,
   combined |-> <<"login", "password">>,
   login |-> << >>,
   password |-> << >>]

Shared == DOMAIN Sources

Nothing == [f \in Field |-> None]

Each(verb, nodes) == [i \in DOMAIN nodes |-> <<verb, nodes[i]>>]

\* The current subscription.
Number == S!MaxAttempts - left

Steps ==
  {<<"retry">>, <<"subscribe">>}
    \union {<<"dispose", k>> : k \in 1..S!MaxAttempts}
    \union {<<verb, n>> : verb \in {"join", "leave"}, n \in Shared}
    \union {<<"complete", r>> : r \in Request}

TypeOK ==
  /\ left \in 0..S!MaxAttempts - 1
  /\ over \in BOOLEAN
  /\ sinks \subseteq 1..S!MaxAttempts
  /\ home \in [Request -> 0..S!MaxAttempts]
  /\ users \in [Shared -> 0..1]
  /\ values \in [Field -> {t \in Text : Valid(t)} \union {None}]
  /\ pair \in (Text \X Text) \union {None}
  /\ \A i \in DOMAIN todo : todo[i] \in Steps
  /\ S!TypeOK

\* Subscribing is under way as the app starts.
Init ==
  /\ NavInit
  /\ text = [f \in Field |-> EmptyText]
  /\ calls = [r \in Request |-> "idle"]
  /\ credentials = [r \in Request |-> None]
  /\ mainQueue = << >>
  /\ currentUser = None
  /\ left = S!MaxAttempts - 1
  /\ over = FALSE
  /\ sinks = {}
  /\ home = [r \in Request |-> 0]
  /\ users = [n \in Shared |-> 0]
  /\ values = Nothing
  /\ pair = None
  /\ todo = <<<<"subscribe">>>>

-----------------------------------------------------------------------------
(***************************************************************************)
(* Work of the main thread that nothing of its own can interrupt.          *)
(***************************************************************************)

\* A field reports its text t to the filters and from there to combineLatest,
\* which emits a pair as soon as it has both.
Emit(f, t) ==
  /\ values' = IF users["combined"] > 0 /\ Valid(t) THEN [values EXCEPT ![f] = t] ELSE values
  /\ pair' = IF users["withLatest"] > 0 /\ \A g \in Field : values'[g] # None
             THEN <<values'["login"], values'["password"]>> ELSE pair

Doing(step) == Busy /\ todo[1] = step

\* Mutated: the new source is subscribed to before the old one is disposed.
RetrySubscribesFirst ==
  /\ RetryDue
  /\ IF left > 0
     THEN /\ left' = left - 1
          /\ todo' = <<<<"subscribe">>, <<"dispose", Number>>>>
          /\ UNCHANGED over
     ELSE /\ over' = TRUE
          /\ todo' = <<<<"dispose", Number>>>>
          /\ UNCHANGED left
  /\ UNCHANGED <<sinks, home, users, values, pair, sharedVars>>

\* moveNextCommand: replacing the subscription disposes the old one before the
\* next source is subscribed to.  Without a next one, the error goes to the
\* subscriber, who has no onError, and retry disposes itself.
Retry ==
  /\ RetryDue
  /\ IF left > 0
     THEN /\ left' = left - 1
          /\ todo' = <<<<"dispose", Number>>, <<"subscribe">>>>
          /\ UNCHANGED over
     ELSE /\ over' = TRUE
          /\ todo' = <<<<"dispose", Number>>>>
          /\ UNCHANGED left
  /\ UNCHANGED <<sinks, home, users, values, pair, sharedVars>>

\* flatMap's sink and with it the observers of its calls.
Dispose(k) ==
  /\ Doing(<<"dispose", k>>)
  /\ sinks' = sinks \ {k}
  /\ todo' = <<<<"leave", "withLatest">>>> \o Tail(todo)
  /\ UNCHANGED <<left, over, home, users, values, pair, sharedVars>>

\* Mutated: a sequence stays connected when its last observer has left.
LeaveConnected(n) ==
  /\ Doing(<<"leave", n>>)
  /\ users' = [users EXCEPT ![n] = @ - 1]
  /\ todo' = Tail(todo)
  /\ UNCHANGED <<left, over, sinks, home, values, pair, sharedVars>>

\* Mutated: the latest pair outlives the sink that holds it.
LeaveKeepsPair(n) ==
  /\ Doing(<<"leave", n>>)
  /\ users' = [users EXCEPT ![n] = @ - 1]
  /\ todo' = (IF users[n] = 1 THEN Each("leave", Sources[n]) ELSE << >>) \o Tail(todo)
  /\ values' = IF n = "combined" /\ users[n] = 1 THEN Nothing ELSE values
  /\ UNCHANGED <<left, over, sinks, home, pair, sharedVars>>

\* The last observer to leave disconnects; the next connection starts empty.
Leave(n) ==
  /\ Doing(<<"leave", n>>)
  /\ users' = [users EXCEPT ![n] = @ - 1]
  /\ todo' = (IF users[n] = 1 THEN Each("leave", Sources[n]) ELSE << >>) \o Tail(todo)
  /\ values' = IF n = "combined" /\ users[n] = 1 THEN Nothing ELSE values
  /\ pair' = IF n = "withLatest" /\ users[n] = 1 THEN None ELSE pair
  /\ UNCHANGED <<left, over, sinks, home, sharedVars>>

\* A new sink of flatMap.
Subscribe ==
  /\ Doing(<<"subscribe">>)
  /\ sinks' = sinks \union {Number}
  /\ todo' = <<<<"join", "withLatest">>>> \o Tail(todo)
  /\ UNCHANGED <<left, over, home, users, values, pair, sharedVars>>

\* Mutated: the first observer is inserted only after connecting, when the
\* fields have already reported their texts.
JoinAfterConnecting(n) ==
  /\ Doing(<<"join", n>>)
  /\ users' = [users EXCEPT ![n] = @ + 1]
  /\ todo' = (IF users[n] = 0 THEN Each("join", Sources[n]) ELSE << >>) \o Tail(todo)
  /\ UNCHANGED <<left, over, sinks, home, values, pair, sharedVars>>

\* The observer is inserted, and the first one then connects.  A field that is
\* connected reports its text at once, before the next source is joined.
Join(n) ==
  /\ Doing(<<"join", n>>)
  /\ users' = [users EXCEPT ![n] = @ + 1]
  /\ todo' = (IF users[n] = 0 THEN Each("join", Sources[n]) ELSE << >>) \o Tail(todo)
  /\ IF n \in Field /\ users[n] = 0 THEN Emit(n, text[n]) ELSE UNCHANGED <<values, pair>>
  /\ UNCHANGED <<left, over, sinks, home, sharedVars>>

\* onCompleted, after onNext, removes the call from flatMap's group.
Complete(r) ==
  /\ Completing(r)
  /\ home' = [home EXCEPT ![r] = 0]
  /\ todo' = Tail(todo)
  /\ UNCHANGED <<left, over, sinks, users, values, pair, sharedVars>>

Work ==
  \/ Retry
  \/ \E k \in 1..S!MaxAttempts : Dispose(k)
  \/ \E n \in Shared : Leave(n)
  \/ Subscribe
  \/ \E n \in Shared : Join(n)
  \/ \E r \in Request : Complete(r)

-----------------------------------------------------------------------------
(***************************************************************************)
(* What starts work on the main thread, or none.                           *)
(***************************************************************************)

Type(f, t) ==
  /\ ~Busy
  /\ Frontmost("Auth")
  /\ t # text[f]
  /\ text' = [text EXCEPT ![f] = t]
  /\ IF users[f] > 0 THEN Emit(f, t) ELSE UNCHANGED <<values, pair>>
  /\ UNCHANGED <<calls, credentials, mainQueue, currentUser, navVars,
                 left, over, sinks, home, users, todo>>

Tap(r) ==
  /\ ~Busy
  /\ Frontmost("Auth")
  /\ users["withLatest"] > 0
  /\ pair # None
  /\ calls[r] = "idle"
  /\ calls' = [calls EXCEPT ![r] = "sent"]
  /\ credentials' = [credentials EXCEPT ![r] = pair]
  /\ home' = [home EXCEPT ![r] = Number]
  /\ UNCHANGED <<text, mainQueue, currentUser, navVars,
                 left, over, sinks, users, values, pair, todo>>

\* onNext passes through flatMap, do and retry to the subscriber's router.
Succeed(r) ==
  /\ ~Busy
  /\ S!Dequeue(r)
  /\ calls[r] = "accepted"
  /\ home[r] \in sinks
  /\ Push("Office")
  /\ todo' = <<<<"complete", r>>>>
  /\ UNCHANGED <<text, currentUser, modal, userName,
                 left, over, sinks, home, users, values, pair>>

\* onError passes through flatMap to do, which presents the alert before retry
\* hears of the error.
Fail(r) ==
  /\ ~Busy
  /\ S!Dequeue(r)
  /\ calls[r] = "rejected"
  /\ home[r] \in sinks
  /\ home' = [home EXCEPT ![r] = 0]
  /\ Present("Auth", "alert")
  /\ todo' = <<<<"retry">>>>
  /\ UNCHANGED <<text, currentUser, stack, userName,
                 left, over, sinks, users, values, pair>>

\* The observer of the call was disposed with its subscription.
Ignore(r) ==
  /\ ~Busy
  /\ S!Dequeue(r)
  /\ home[r] \notin sinks
  /\ home' = [home EXCEPT ![r] = 0]
  /\ UNCHANGED <<text, currentUser, navVars, left, over, sinks, users, values, pair, todo>>

\* Firebase, on threads of its own, also while the main thread is busy.
Answer(r) == UNCHANGED rxVars /\ S!Answer(r)

Navigate ==
  /\ ~Busy
  /\ NavNext
  /\ UNCHANGED <<text, calls, credentials, mainQueue, currentUser, rxVars>>

Relaunch ==
  /\ stack' = <<"Auth">>
  /\ modal' = "none"
  /\ text' = [f \in Field |-> EmptyText]
  /\ calls' = [r \in Request |-> "idle"]
  /\ credentials' = [r \in Request |-> None]
  /\ mainQueue' = << >>
  /\ left' = S!MaxAttempts - 1
  /\ over' = FALSE
  /\ sinks' = {}
  /\ home' = [r \in Request |-> 0]
  /\ users' = [n \in Shared |-> 0]
  /\ values' = Nothing
  /\ pair' = None
  /\ todo' = <<<<"subscribe">>>>
  /\ UNCHANGED <<currentUser, userName>>

Next ==
  \/ Work
  \/ \E f \in Field, t \in Text : Type(f, t)
  \/ \E r \in Request : Tap(r)
  \/ \E r \in Request : Succeed(r)
  \/ \E r \in Request : Fail(r)
  \/ \E r \in Request : Ignore(r)
  \/ \E r \in Request : Answer(r)
  \/ Navigate
  \/ Relaunch

vars == <<sharedVars, rxVars>>

Spec == Init /\ [][Next]_vars

-----------------------------------------------------------------------------
(***************************************************************************)
(* Properties.                                                             *)
(***************************************************************************)

\* RxSwift, operator by operator and beside the threads of Firebase, does what
\* SignIn says in one step: the calls of an attempt that failed end, and the
\* next attempt starts from the texts on the screen and from nothing else
\* (flatMap under do and retry(3) in bindViewModel, over shared sequences).
ImplementsSignIn == S!Spec

\* Between two pieces of work there is one subscription, with one observer on
\* every shared sequence, or none at all once retry has given up: a failed
\* attempt leaves no connection behind that would sign in on a tap as well.
OneSubscription ==
  ~Busy =>
    /\ sinks = IF over THEN {} ELSE {Number}
    /\ \A n \in Shared : users[n] = IF over THEN 0 ELSE 1

\* The pair that a tap submits is the pair that combineLatest holds, or there
\* is none as long as one of its fields has reported no valid text.
PairIsCurrent ==
  ~Busy =>
    pair = IF \A f \in Field : values[f] # None
           THEN <<values["login"], values["password"]>> ELSE None

-----------------------------------------------------------------------------
(***************************************************************************)
(* The inductive invariant behind the safety properties.                   *)
(***************************************************************************)

Connected(nodes) == [n \in Shared |-> IF n \in nodes THEN 1 ELSE 0]

\* The main thread has this work left, with these sequences connected and these
\* subscriptions alive.
At(work, connected, alive) ==
  /\ todo = work
  /\ users = Connected(connected)
  /\ sinks = alive

Idle == At(<< >>, IF over THEN {} ELSE Shared, IF over THEN {} ELSE {Number})

\* An answer has reached the subscriber or the alert.
Answered(first) == ~over /\ At(<<first>>, Shared, {Number})

\* What follows once the failed attempt is taken down.
Afterwards == IF over THEN << >> ELSE <<<<"subscribe">>>>

\* The sequences of the failed attempt are left from flatMap down to the fields.
TakingDown ==
  \/ \E k \in 1..S!MaxAttempts : At(<<<<"dispose", k>>>> \o Afterwards, Shared, {k})
  \/ At(<<<<"leave", "withLatest">>>> \o Afterwards, Shared, {})
  \/ At(<<<<"leave", "combined">>>> \o Afterwards, Shared \ {"withLatest"}, {})
  \/ At(<<<<"leave", "login">>, <<"leave", "password">>>> \o Afterwards, Field, {})
  \/ At(<<<<"leave", "password">>>> \o Afterwards, {"password"}, {})

\* Those of the next one are joined in the same order.
SettingUp ==
  /\ ~over
  /\ \/ At(<<<<"subscribe">>>>, {}, {})
     \/ At(<<<<"join", "withLatest">>>>, {}, {Number})
     \/ At(<<<<"join", "combined">>>>, {"withLatest"}, {Number})
     \/ At(<<<<"join", "login">>, <<"join", "password">>>>, {"withLatest", "combined"}, {Number})
     \/ At(<<<<"join", "password">>>>, Shared \ {"password"}, {Number})

Whereabouts ==
  \/ Idle
  \/ \E r \in Request : Answered(<<"complete", r>>)
  \/ Answered(<<"retry">>)
  \/ TakingDown
  \/ SettingUp

\* Nothing outlives the sink of combineLatest, and a new one knows the texts of
\* the fields that it has joined.
ValuesAreFresh ==
  /\ users["combined"] = 0 => values = Nothing
  /\ SettingUp => values = [f \in Field |-> IF users[f] = 1 THEN Expected[f] ELSE None]

PairFollows ==
  pair = IF users["withLatest"] = 1 /\ \A f \in Field : values[f] # None
         THEN <<values["login"], values["password"]>> ELSE None

\* A call belongs to a subscription made before, and to an earlier one as soon as
\* the next one is being made.
HomesAreOlder ==
  \A r \in Request :
    /\ home[r] <= Number
    /\ ~over /\ (TakingDown \/ SettingUp) => home[r] < Number

RxTypeOK ==
  /\ text \in [Field -> Text]
  /\ left \in 0..S!MaxAttempts - 1
  /\ over \in BOOLEAN
  /\ home \in [Request -> 0..S!MaxAttempts]
  /\ values \in [Field -> {t \in Text : Valid(t)} \union {None}]

\* The main thread takes one subscription down and sets the next one up, in this
\* order and with nothing left over (moveNextCommand, and the shared sequences).
IInv ==
  /\ RxTypeOK
  /\ Whereabouts
  /\ ValuesAreFresh
  /\ PairFollows
  /\ HomesAreOlder

=============================================================================
