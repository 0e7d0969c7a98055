---------------------------- MODULE SignInProofs ----------------------------
(***************************************************************************)
(* Proofs about SignIn: type correctness, the safety properties that TLC   *)
(* checks on small instances, and that SignIn implements SignInRounds, for *)
(* every set of texts, accounts and concurrent calls.                      *)
(***************************************************************************)
EXTENDS SignIn, TLAPS

-----------------------------------------------------------------------------
(***************************************************************************)
(* Lemmas about the stack of screens.                                      *)
(***************************************************************************)

\* Pushing a screen keeps the stack a non-empty sequence of screens, puts the
\* new screen on it and keeps every other one (UINavigationController's
\* pushViewController).
LEMMA PushFacts ==
  ASSUME NEW s \in Seq(Screen), NEW screen \in Screen
  PROVE  /\ Append(s, screen) \in Seq(Screen)
         /\ Append(s, screen) # << >>
         /\ Append(s, screen) # s
         /\ Len(Append(s, screen)) = Len(s) + 1
         /\ \A i \in 1..Len(s) : Append(s, screen)[i] = s[i]
         /\ Append(s, screen)[Len(s) + 1] = screen
  OBVIOUS

\* Going back keeps the stack a non-empty sequence of screens and adds none
\* (the back button of the navigation controller).
LEMMA PopFacts ==
  ASSUME NEW s \in Seq(Screen), Len(s) > 1
  PROVE  LET t == SubSeq(s, 1, Len(s) - 1) IN
         /\ t \in Seq(Screen)
         /\ t # << >>
         /\ Len(t) = Len(s) - 1
         /\ \A i \in 1..Len(t) : t[i] = s[i]
  OBVIOUS

\* What the user does between the screens leaves the types of the stack and
\* the modal alone, and never puts a screen of offices on the stack nor an
\* alert over it (the handlers modelled by Navigation).
LEMMA NavFacts ==
  ASSUME NavTypeOK, NavNext
  PROVE  /\ NavTypeOK'
         /\ OnStack("Office")' => OnStack("Office")
         /\ modal' = "alert" => modal = "alert"
         /\ stack' # Append(stack, "Office")
  <1> USE DEF NavTypeOK
  <1>1. ASSUME NEW source \in Screen, NEW target \in Screen \ {"Office"},
               Open(source, target)
        PROVE  /\ NavTypeOK'
               /\ OnStack("Office")' => OnStack("Office")
               /\ modal' = modal
               /\ stack' # Append(stack, "Office")
    <2>1. stack' = Append(stack, target) /\ UNCHANGED <<modal, userName>>
      BY <1>1 DEF Open, Push
    <2>2. stack'[Len(stack) + 1] = target /\ Append(stack, "Office")[Len(stack) + 1] = "Office"
      BY <2>1, PushFacts DEF Screen
    <2>3. OnStack("Office")' => OnStack("Office")
      BY <2>1, PushFacts DEF OnStack
    <2> QED
      BY <2>1, <2>2, <2>3, PushFacts
  <1>2. CASE Back
    <2>1. /\ Len(stack) > 1
          /\ stack' = SubSeq(stack, 1, Len(stack) - 1)
          /\ UNCHANGED <<modal, userName>>
      BY <1>2 DEF Back
    <2>2. OnStack("Office")' => OnStack("Office")
      BY <2>1, PopFacts DEF OnStack
    <2>3. Len(stack') # Len(Append(stack, "Office"))
      BY <2>1, PopFacts, PushFacts DEF Screen
    <2> QED
      BY <2>1, <2>2, <2>3, PopFacts
  <1>3. CASE ShowProfile \/ SaveProfile \/ DismissAlert
    BY <1>3, PushFacts DEF ShowProfile, SaveProfile, DismissAlert, Modal, OnStack, Screen
  <1> QED
    BY <1>1, <1>2, <1>3 DEF NavNext, ShowRooms, ShowWorkPlaces, ShowDates, Screen

-----------------------------------------------------------------------------
(***************************************************************************)
(* Type correctness.                                                       *)
(***************************************************************************)

\* Taking the next completion handler off the main queue keeps the types of
\* what it touches.
LEMMA DequeueTypes ==
  ASSUME TypeOK, NEW r \in Request, Dequeue(r)
  PROVE  /\ mainQueue' \in Seq(Request)
         /\ calls' \in [Request -> CallStatus]
         /\ credentials' \in [Request -> (Text \X Text) \union {None}]
         /\ \A q \in Request : calls'[q] # "idle" => credentials'[q] \in Text \X Text
  BY DEF TypeOK, Dequeue, CallStatus

\* What the fields replay to a new subscription are texts, or nothing (the
\* filters of validationUser).
LEMMA LatestOnSubscribeType ==
  ASSUME TypeOK
  PROVE  LatestOnSubscribe \in [Field -> Text \union {None}]
  BY DEF TypeOK, LatestOnSubscribe

\* Every step keeps the types; that the attempts of retry do not fall below
\* zero takes ExhaustedMeansQuiet.
LEMMA TypeStep == TypeOK /\ ExhaustedMeansQuiet /\ [Next]_vars => TypeOK'
  <1> SUFFICES ASSUME TypeOK, ExhaustedMeansQuiet, [Next]_vars
               PROVE  TypeOK'
    OBVIOUS
  <1>1. ASSUME NEW f \in Field, NEW t \in Text, Type(f, t)
        PROVE  TypeOK'
    BY <1>1 DEF Type, TypeOK, navVars, NavTypeOK
  <1>2. ASSUME NEW r \in Request, Tap(r)
        PROVE  TypeOK'
    <2>1. <<latest["login"], latest["password"]>> \in Text \X Text
      BY <1>2 DEF Tap, TypeOK, Field
    <2>2. credentials' \in [Request -> (Text \X Text) \union {None}]
      BY <1>2, <2>1 DEF Tap, TypeOK
    <2>3. \A q \in Request : calls'[q] # "idle" => credentials'[q] \in Text \X Text
      BY <1>2, <2>1 DEF Tap, TypeOK
    <2> QED
      BY <1>2, <2>2, <2>3 DEF Tap, TypeOK, CallStatus, navVars, NavTypeOK
  <1>3. ASSUME NEW r \in Request, Accept(r)
        PROVE  TypeOK'
    BY <1>3 DEF Accept, TypeOK, CallStatus, navVars, NavTypeOK
  <1>4. ASSUME NEW r \in Request, Reject(r)
        PROVE  TypeOK'
    BY <1>4 DEF Reject, TypeOK, CallStatus, navVars, NavTypeOK
  <1>5. ASSUME NEW r \in Request, DeliverSuccess(r)
        PROVE  TypeOK'
    <2>1. NavTypeOK'
      BY <1>5, PushFacts DEF DeliverSuccess, Push, TypeOK, NavTypeOK, Screen
    <2> QED
      BY <1>5, <2>1, DequeueTypes DEF DeliverSuccess, TypeOK
  <1>6. ASSUME NEW r \in Request, DeliverFailure(r)
        PROVE  TypeOK'
    <2>0. attempts - 1 \in 0..MaxAttempts
      BY <1>6 DEF DeliverFailure, ExhaustedMeansQuiet, TypeOK, MaxAttempts
    <2>1. NavTypeOK'
      BY <1>6 DEF DeliverFailure, Present, TypeOK, NavTypeOK, Modal
    <2>2. latest' \in [Field -> Text \union {None}]
      BY <1>6, LatestOnSubscribeType DEF DeliverFailure
    <2> QED
      BY <1>6, <2>0, <2>1, <2>2, DequeueTypes DEF DeliverFailure, TypeOK
  <1>7. ASSUME NEW r \in Request, DeliverIgnored(r)
        PROVE  TypeOK'
    BY <1>7, DequeueTypes DEF DeliverIgnored, TypeOK, navVars, NavTypeOK
  <1>8. CASE Navigate
    BY <1>8, NavFacts DEF Navigate, signInVars, TypeOK
  <1>9. CASE Relaunch
    BY <1>9, TextAssumption
       DEF Relaunch, TypeOK, NavTypeOK, Screen, Modal, MaxAttempts, CallStatus
  <1>10. CASE UNCHANGED vars
    BY <1>10 DEF vars, signInVars, navVars, TypeOK, NavTypeOK
  <1> QED
    BY <1>1, <1>2, <1>3, <1>4, <1>5, <1>6, <1>7, <1>8, <1>9, <1>10 DEF Next

\* The app starts with every variable of its type (viewDidLoad and
\* didFinishLaunchingWithOptions).
LEMMA TypeInit == Init => TypeOK
  BY TextAssumption
     DEF Init, NavInit, TypeOK, NavTypeOK, Screen, Modal, MaxAttempts, CallStatus

-----------------------------------------------------------------------------
(***************************************************************************)
(* The conjuncts of the inductive invariant, one lemma each.               *)
(***************************************************************************)

\* No observer outlives the last subscription: the failure that uses it up
\* disposes them all, and a tap needs a subscription.
LEMMA ExhaustedStep ==
  TypeOK /\ ExhaustedMeansQuiet /\ [Next]_vars => ExhaustedMeansQuiet'
  <1> SUFFICES ASSUME TypeOK, ExhaustedMeansQuiet, [Next]_vars
               PROVE  ExhaustedMeansQuiet'
    OBVIOUS
  <1> USE DEF ExhaustedMeansQuiet
  <1>1. ASSUME NEW f \in Field, NEW t \in Text, Type(f, t)
        PROVE  ExhaustedMeansQuiet'
    BY <1>1 DEF Type
  <1>2. ASSUME NEW r \in Request,
               \/ Tap(r) \/ Accept(r) \/ Reject(r)
               \/ DeliverSuccess(r) \/ DeliverFailure(r) \/ DeliverIgnored(r)
        PROVE  ExhaustedMeansQuiet'
    BY <1>2 DEF TypeOK, Tap, Accept, Reject, DeliverSuccess, DeliverFailure, DeliverIgnored
  <1>3. CASE Navigate \/ Relaunch \/ UNCHANGED vars
    BY <1>3 DEF Navigate, Relaunch, vars, signInVars, MaxAttempts
  <1> QED
    BY <1>1, <1>2, <1>3 DEF Next

\* Firebase records its user in the step that makes a call an accepted one,
\* and no step of the app makes it forget the user.
LEMMA AcceptedStep ==
  TypeOK /\ AcceptedMeansUser /\ [Next]_vars => AcceptedMeansUser'
  <1> SUFFICES ASSUME TypeOK, AcceptedMeansUser, [Next]_vars
               PROVE  AcceptedMeansUser'
    OBVIOUS
  <1> USE DEF AcceptedMeansUser, TypeOK
  <1>1. ASSUME NEW f \in Field, NEW t \in Text, Type(f, t)
        PROVE  AcceptedMeansUser'
    BY <1>1 DEF Type
  <1>2. ASSUME NEW r \in Request, Accept(r)
        PROVE  AcceptedMeansUser'
    BY <1>2, AccountAssumption, NoneAssumption DEF Accept
  <1>3. ASSUME NEW r \in Request, Tap(r) \/ Reject(r)
        PROVE  AcceptedMeansUser'
    BY <1>3 DEF Tap, Reject
  <1>4. ASSUME NEW r \in Request, DeliverSuccess(r) \/ DeliverFailure(r) \/ DeliverIgnored(r)
        PROVE  AcceptedMeansUser'
    BY <1>4 DEF DeliverSuccess, DeliverFailure, DeliverIgnored, Dequeue
  <1>5. CASE Navigate \/ Relaunch \/ UNCHANGED vars
    BY <1>5 DEF Navigate, Relaunch, vars, signInVars
  <1> QED
    BY <1>1, <1>2, <1>3, <1>4, <1>5 DEF Next

\* The two filters of validationUser admit 3 to 19 characters.
LEMMA ValidIsAcceptable ==
  ASSUME NEW t \in Text
  PROVE  Valid(t) <=> Acceptable(t)
  BY TextAssumption DEF Valid, Acceptable, MinCount, MaxCount

\* combineLatest follows the screen through edits and through the new
\* subscriptions that retry makes.
LEMMA LatestStep ==
  TypeOK /\ LatestTracksScreen /\ [Next]_vars => LatestTracksScreen'
  <1> SUFFICES ASSUME TypeOK, LatestTracksScreen, [Next]_vars
               PROVE  LatestTracksScreen'
    OBVIOUS
  <1> USE DEF LatestTracksScreen, TypeOK
  <1>1. ASSUME NEW f \in Field, NEW t \in Text, Type(f, t)
        PROVE  LatestTracksScreen'
    BY <1>1, ValidIsAcceptable DEF Type
  <1>2. ASSUME NEW r \in Request,
               Tap(r) \/ Accept(r) \/ Reject(r) \/ DeliverSuccess(r) \/ DeliverIgnored(r)
        PROVE  LatestTracksScreen'
    BY <1>2 DEF Tap, Accept, Reject, DeliverSuccess, DeliverIgnored
  <1>3. ASSUME NEW r \in Request, DeliverFailure(r)
        PROVE  LatestTracksScreen'
    <2>1. text' = text /\ attempts' = attempts - 1
      BY <1>3 DEF DeliverFailure
    <2>2. CASE attempts > 1
      <3>1. latest' = LatestOnSubscribe
        BY <1>3, <2>2 DEF DeliverFailure
      <3>2. \A f \in Field : IF Acceptable(text[f]) THEN latest'[f] = text[f]
                                                    ELSE latest'[f] = None
        BY <3>1, ValidIsAcceptable DEF LatestOnSubscribe
      <3> QED
        BY <2>1, <3>2
    <2>3. CASE ~(attempts > 1)
      BY <2>1, <2>3
    <2> QED
      BY <2>2, <2>3
  <1>4. CASE Navigate \/ UNCHANGED vars
    BY <1>4 DEF Navigate, vars, signInVars
  <1>5. CASE Relaunch
    BY <1>5, TextAssumption DEF Relaunch, Acceptable
  <1> QED
    BY <1>1, <1>2, <1>3, <1>4, <1>5 DEF Next

\* The failure that presents the alert disposes every observer, and no call is
\* made while the alert covers the button.
LEMMA AlertStep ==
  TypeOK /\ AlertMeansQuiet /\ [Next]_vars => AlertMeansQuiet'
  <1> SUFFICES ASSUME TypeOK, AlertMeansQuiet, [Next]_vars
               PROVE  AlertMeansQuiet'
    OBVIOUS
  <1> USE DEF AlertMeansQuiet
  <1>1. ASSUME NEW f \in Field, NEW t \in Text, Type(f, t)
        PROVE  AlertMeansQuiet'
    BY <1>1 DEF Type, navVars
  <1>2. ASSUME NEW r \in Request, Tap(r)
        PROVE  AlertMeansQuiet'
    BY <1>2 DEF Tap, Frontmost, navVars
  <1>3. ASSUME NEW r \in Request, Accept(r) \/ Reject(r) \/ DeliverIgnored(r)
        PROVE  AlertMeansQuiet'
    BY <1>3 DEF Accept, Reject, DeliverIgnored, navVars
  <1>4. ASSUME NEW r \in Request, DeliverSuccess(r) \/ DeliverFailure(r)
        PROVE  AlertMeansQuiet'
    BY <1>4 DEF DeliverSuccess, DeliverFailure
  <1>5. CASE Navigate
    BY <1>5, NavFacts DEF Navigate, signInVars, TypeOK
  <1>6. CASE Relaunch \/ UNCHANGED vars
    BY <1>6 DEF Relaunch, vars, signInVars, navVars
  <1> QED
    BY <1>1, <1>2, <1>3, <1>4, <1>5, <1>6 DEF Next

\* Only an accepted call pushes the screen of offices, and then Firebase has a
\* user, which it keeps.
LEMMA OfficeStep ==
  TypeOK /\ AcceptedMeansUser /\ OfficeRequiresUser /\ [Next]_vars => OfficeRequiresUser'
  <1> SUFFICES ASSUME TypeOK, AcceptedMeansUser, OfficeRequiresUser, [Next]_vars
               PROVE  OfficeRequiresUser'
    OBVIOUS
  <1> USE DEF OfficeRequiresUser
  <1>1. ASSUME NEW f \in Field, NEW t \in Text, Type(f, t)
        PROVE  OfficeRequiresUser'
    BY <1>1 DEF Type, navVars, OnStack
  <1>2. ASSUME NEW r \in Request, Accept(r)
        PROVE  OfficeRequiresUser'
    BY <1>2, AccountAssumption, NoneAssumption DEF Accept
  <1>3. ASSUME NEW r \in Request,
               Tap(r) \/ Reject(r) \/ DeliverFailure(r) \/ DeliverIgnored(r)
        PROVE  OfficeRequiresUser'
    BY <1>3 DEF Tap, Reject, DeliverFailure, DeliverIgnored, navVars, OnStack
  <1>4. ASSUME NEW r \in Request, DeliverSuccess(r)
        PROVE  OfficeRequiresUser'
    BY <1>4 DEF DeliverSuccess, AcceptedMeansUser
  <1>5. CASE Navigate
    BY <1>5, NavFacts DEF Navigate, signInVars, TypeOK
  <1>6. CASE Relaunch
    BY <1>6 DEF Relaunch, OnStack
  <1>7. CASE UNCHANGED vars
    BY <1>7 DEF vars, signInVars, navVars, OnStack
  <1> QED
    BY <1>1, <1>2, <1>3, <1>4, <1>5, <1>6, <1>7 DEF Next

\* An observer is disposed with its call under way only by a failure, which
\* costs one of the attempts of retry(3).
LEMMA IgnoredStep ==
  TypeOK /\ IgnoredOnlyAfterFailure /\ [Next]_vars => IgnoredOnlyAfterFailure'
  <1> SUFFICES ASSUME TypeOK, IgnoredOnlyAfterFailure, [Next]_vars
               PROVE  IgnoredOnlyAfterFailure'
    OBVIOUS
  <1> USE DEF IgnoredOnlyAfterFailure, TypeOK
  <1>1. ASSUME NEW f \in Field, NEW t \in Text, Type(f, t)
        PROVE  IgnoredOnlyAfterFailure'
    BY <1>1 DEF Type
  <1>2. ASSUME NEW r \in Request, Tap(r) \/ Accept(r) \/ Reject(r)
        PROVE  IgnoredOnlyAfterFailure'
    BY <1>2 DEF Tap, Accept, Reject
  <1>3. ASSUME NEW r \in Request, DeliverSuccess(r) \/ DeliverIgnored(r)
        PROVE  IgnoredOnlyAfterFailure'
    BY <1>3 DEF DeliverSuccess, DeliverIgnored, Dequeue
  <1>4. ASSUME NEW r \in Request, DeliverFailure(r)
        PROVE  IgnoredOnlyAfterFailure'
    BY <1>4 DEF DeliverFailure, MaxAttempts
  <1>5. CASE Navigate \/ Relaunch \/ UNCHANGED vars
    BY <1>5 DEF Navigate, Relaunch, vars, signInVars
  <1> QED
    BY <1>1, <1>2, <1>3, <1>4, <1>5 DEF Next

-----------------------------------------------------------------------------
(***************************************************************************)
(* The theorems.                                                           *)
(***************************************************************************)

\* The inductive invariant holds when the app starts.
LEMMA InvariantInit == Init => IInv
  <1> SUFFICES ASSUME Init
               PROVE  IInv
    OBVIOUS
  <1>1. TypeOK
    BY TypeInit
  <1>2. LatestTracksScreen
    BY TextAssumption DEF Init, LatestTracksScreen, Acceptable
  <1>3. OfficeRequiresUser
    BY DEF Init, NavInit, OfficeRequiresUser, OnStack
  <1> QED
    BY <1>1, <1>2, <1>3
       DEF Init, NavInit, IInv, ExhaustedMeansQuiet, AcceptedMeansUser,
           AlertMeansQuiet, IgnoredOnlyAfterFailure, MaxAttempts

\* Every step of the sign-in pipeline, of Firebase and of the user preserves
\* the inductive invariant.
LEMMA InvariantStep == IInv /\ [Next]_vars => IInv'
  BY TypeStep, ExhaustedStep, AcceptedStep, LatestStep, AlertStep, OfficeStep, IgnoredStep
     DEF IInv

\* The inductive invariant holds in every reachable state of sign-in, for any
\* number of texts, accounts and concurrent calls.
THEOREM InvariantHolds == Spec => []IInv
  <1>1. QED
    BY InvariantInit, InvariantStep, PTL DEF Spec

\* Every variable of the sign-in pipeline and of the screens keeps its type; in
\* particular a call never carries a pair of which a part was never entered.
THEOREM TypeCorrect == Spec => []TypeOK
  <1>1. IInv => TypeOK
    BY DEF IInv
  <1> QED
    BY <1>1, InvariantHolds, PTL

\* The pair that a tap submits is the pair on the screen wherever the filters
\* accept the screen's text.
THEOREM SubmitsTheScreen == Spec => []LatestTracksScreen
  <1>1. IInv => LatestTracksScreen
    BY DEF IInv
  <1> QED
    BY <1>1, InvariantHolds, PTL

\* Behind the alert of a failed sign-in no call is left that could act.
THEOREM AlertIsQuiet == Spec => []AlertMeansQuiet
  <1>1. IInv => AlertMeansQuiet
    BY DEF IInv
  <1> QED
    BY <1>1, InvariantHolds, PTL

\* The screen of offices is never open without a user that Firebase knows.
THEOREM OfficeIsGuarded == Spec => []OfficeRequiresUser
  <1>1. IInv => OfficeRequiresUser
    BY DEF IInv
  <1> QED
    BY <1>1, InvariantHolds, PTL

\* Only a failure makes the app ignore an answer.
THEOREM TapsDoNotCancel == Spec => []IgnoredOnlyAfterFailure
  <1>1. IInv => IgnoredOnlyAfterFailure
    BY DEF IInv
  <1> QED
    BY <1>1, InvariantHolds, PTL

\* What a step does to the screens once retry has given up.
LEMMA SilentStep ==
  ASSUME IInv, [Next]_vars, attempts = 0, attempts' = 0
  PROVE  /\ stack' # Append(stack, "Office")
         /\ modal' = "alert" => modal = "alert"
  <1> DEFINE Silent == /\ stack' # Append(stack, "Office")
                       /\ modal' = "alert" => modal = "alert"
  <1> USE DEF IInv, TypeOK, NavTypeOK
  <1>1. ASSUME UNCHANGED navVars
        PROVE  Silent
    BY <1>1, PushFacts DEF navVars, Screen
  <1>2. ASSUME NEW f \in Field, NEW t \in Text, Type(f, t)
        PROVE  Silent
    BY <1>1, <1>2 DEF Type
  <1>3. ASSUME NEW r \in Request,
               \/ Tap(r) \/ Accept(r) \/ Reject(r)
               \/ DeliverSuccess(r) \/ DeliverFailure(r) \/ DeliverIgnored(r)
        PROVE  Silent
    BY <1>1, <1>3
       DEF ExhaustedMeansQuiet, Tap, Accept, Reject,
           DeliverSuccess, DeliverFailure, DeliverIgnored
  <1>4. CASE Navigate
    BY <1>4, NavFacts DEF Navigate
  <1>5. CASE Relaunch
    BY <1>5 DEF Relaunch, MaxAttempts
  <1>6. CASE UNCHANGED vars
    BY <1>1, <1>6 DEF vars
  <1> QED
    BY <1>2, <1>3, <1>4, <1>5, <1>6 DEF Next

\* After the third failure nothing that Firebase still answers reaches the
\* screens, for any number of calls under way.
THEOREM ExhaustedIsSilent == Spec => SilentOnceExhausted
  <1>1. IInv /\ [Next]_vars =>
          [attempts = 0 /\ attempts' = 0 =>
             /\ stack' # Append(stack, "Office")
             /\ modal' = "alert" => modal = "alert"]_vars
    BY SilentStep
  <1> QED
    BY <1>1, InvariantHolds, PTL DEF Spec, SilentOnceExhausted

-----------------------------------------------------------------------------
(***************************************************************************)
(* Refinement: every step of sign-in is a step of SignInRounds or leaves   *)
(* its state unchanged.                                                    *)
(***************************************************************************)

\* Every step of the pipeline is a step of the rounds or leaves them alone:
\* onError in bindViewModel refuses, the push of AuthViewRouter admits.
LEMMA RoundsStep == IInv /\ [Next]_vars => [Rounds!Next]_(Rounds!roundVars)
  <1> SUFFICES ASSUME IInv, [Next]_vars
               PROVE  Rounds!Next \/ UNCHANGED Rounds!roundVars
    OBVIOUS
  <1> USE DEF IInv, TypeOK, Rounds!roundVars
  <1>1. ASSUME NEW f \in Field, NEW t \in Text, Type(f, t)
        PROVE  UNCHANGED Rounds!roundVars
    BY <1>1 DEF Type, navVars, OnStack
  <1>2. ASSUME NEW r \in Request, Tap(r)
        PROVE  Rounds!Ask(r) \/ UNCHANGED Rounds!roundVars
    BY <1>2 DEF Tap, navVars, OnStack, Rounds!Ask
  <1>3. ASSUME NEW r \in Request, Accept(r)
        PROVE  Rounds!Authenticate
    <2>1. currentUser' # None
      BY <1>3, AccountAssumption, NoneAssumption DEF Accept
    <2> QED
      BY <1>3, <2>1 DEF Accept, navVars, OnStack, Rounds!Authenticate
  <1>4. ASSUME NEW r \in Request, Reject(r) \/ DeliverIgnored(r)
        PROVE  UNCHANGED Rounds!roundVars
    BY <1>4 DEF Reject, DeliverIgnored, navVars, OnStack
  <1>5. ASSUME NEW r \in Request, DeliverSuccess(r)
        PROVE  Rounds!Admit(r)
    <2>1. OnStack("Office")'
      <3>1. stack' = Append(stack, "Office")
        BY <1>5 DEF DeliverSuccess, Push
      <3>2. /\ Len(stack') = Len(stack) + 1
            /\ stack'[Len(stack) + 1] = "Office"
            /\ Len(stack) \in Nat
        BY <3>1, PushFacts DEF NavTypeOK, Screen
      <3> QED
        BY <3>2 DEF OnStack
    <2> QED
      BY <1>5, <2>1 DEF DeliverSuccess, AcceptedMeansUser, Rounds!Admit
  <1>6. ASSUME NEW r \in Request, DeliverFailure(r)
        PROVE  Rounds!Refuse(r)
    BY <1>6 DEF DeliverFailure, ExhaustedMeansQuiet, OnStack, MaxAttempts, Rounds!Refuse
  <1>7. ASSUME Navigate
        PROVE  Rounds!Leave \/ UNCHANGED Rounds!roundVars
    <2>1. OnStack("Office")' => OnStack("Office")
      BY <1>7, NavFacts DEF Navigate
    <2>2. OnStack("Office") \in BOOLEAN /\ OnStack("Office")' \in BOOLEAN
      BY DEF OnStack
    <2> QED
      BY <1>7, <2>1, <2>2 DEF Navigate, signInVars, Rounds!Leave
  <1>8. ASSUME Relaunch
        PROVE  Rounds!Relaunch
    <2>1. OnStack("Office")' = FALSE
      BY <1>8 DEF Relaunch, OnStack
    <2> QED
      BY <1>8, <2>1 DEF Relaunch, Rounds!Relaunch
  <1>9. ASSUME UNCHANGED vars
        PROVE  UNCHANGED Rounds!roundVars
    BY <1>9 DEF vars, signInVars, navVars, OnStack
  <1> QED
    BY <1>1, <1>2, <1>3, <1>4, <1>5, <1>6, <1>7, <1>8, <1>9 DEF Next, Rounds!Next

\* The sign-in pipeline implements the rounds of SignInRounds: three refusals
\* per launch, each of which ends every attempt outstanding, and admission only
\* by an acceptance of the current round.
THEOREM ImplementsRounds == Spec => RoundsSpec
  <1>1. Init => Rounds!Init
    BY DEF Init, NavInit, OnStack, Rounds!Init
  <1> QED
    BY <1>1, RoundsStep, InvariantHolds, PTL DEF Spec, RoundsSpec, Rounds!Spec

=============================================================================
