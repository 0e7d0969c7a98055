--------------------------- MODULE ChooseDateProofs ---------------------------
(***************************************************************************)
(* Proofs about ChooseDate, for any days and times that the picker can     *)
(* show, with one finger or several, and with a keyboard over the picker   *)
(* or without.                                                             *)
(***************************************************************************)
EXTENDS ChooseDate, TLAPS

-----------------------------------------------------------------------------

\* The handler of a field sets the mode for what its Done button prints.
LEMMA ModesAgree ==
  ASSUME NEW f \in Field
  PROVE  ModeFor(f) = Printed(f) /\ Printed(f) \in Mode /\ f # None
  BY NoneAssumption DEF ModeFor, Printed, Mode, Field

\* What the picker of a new screen shows is what its fields show at first.
LEMMA MomentType ==
  ASSUME NEW p \in Moment
  PROVE  LET first == [f \in Field |-> p[Printed(f)]] IN
         /\ first \in [Field -> Day \union Time \union {Typed}]
         /\ \A f \in Field : first[f] \in Value(Printed(f)) \union {Typed}
  <1>1. \A f \in Field : p[Printed(f)] \in Value(Printed(f))
    BY ModesAgree DEF Moment
  <1>2. \A m \in Mode : Value(m) \subseteq Day \union Time
    BY DEF Value
  <1> QED
    BY <1>1, <1>2, ModesAgree

\* A component of what the picker holds is a day or a time.
LEMMA PickerRange ==
  ASSUME NEW p \in Moment, NEW m \in Mode
  PROVE  p[m] \in Value(m) /\ p[m] \in Day \union Time /\ p[m] # None
  <1>1. p[m] \in Value(m)
    BY DEF Moment
  <1> QED
    BY <1>1, NoneAssumption DEF Value

\* What is noted as seen is something that the picker can show.
LEMMA ShowsType ==
  ASSUME seen \in [Mode -> Day \union Time \union {None}], picker' \in Moment,
         mode' \in Mode, NEW m \in Mode, Shows(m)
  PROVE  seen' \in [Mode -> Day \union Time \union {None}]
  <1>1. picker'[mode'] \in Day \union Time
    BY PickerRange
  <1> QED
    BY <1>1 DEF Shows

\* Pressing a button keeps the types of all it touches.
LEMMA PressTypes ==
  ASSUME TypeOK, NEW f \in Field, Press(f)
  PROVE  /\ picker' \in Moment /\ mode' \in Mode
         /\ {hidden', covered', spinning'} \subseteq BOOLEAN
         /\ fingers' \subseteq Field
         /\ {editing', touched'} \subseteq Field \union {None}
         /\ seen' \in [Mode -> Day \union Time \union {None}]
  BY DEF TypeOK, Press

\* Wheels that come to rest leave a moment in the picker.
LEMMA SettledMoment ==
  ASSUME TypeOK, NEW x, Settle(x)
  PROVE  picker' \in Moment
  <1>1. x \in Value(mode) /\ x \in Day \union Time
    BY DEF Settle, Value
  <1>2. picker' = [picker EXCEPT ![mode] = x] /\ mode \in Mode
    BY DEF Settle, TypeOK
  <1>3. \A m \in Mode : picker'[m] = IF m = mode THEN x ELSE picker[m]
    BY <1>2 DEF TypeOK, Moment
  <1>4. picker' \in [Mode -> Day \union Time]
    BY <1>1, <1>2 DEF TypeOK, Moment
  <1> QED
    BY <1>1, <1>3, <1>4 DEF TypeOK, Moment

\* Every step keeps the types: a field shows a value of its own component or
\* what the user has typed, whatever mode the picker is in.
LEMMA TypeStep == TypeOK /\ ModeFollowsTouch /\ [Next]_vars => TypeOK'
  <1> SUFFICES ASSUME TypeOK, ModeFollowsTouch, [Next]_vars
               PROVE  TypeOK'
    OBVIOUS
  <1>1. ASSUME NEW f \in Field, TouchDown(f)
        PROVE  TypeOK'
    <2>1. mode' \in Mode /\ picker' \in Moment /\ spinning' \in BOOLEAN
      BY <1>1, ModesAgree DEF TouchDown, TypeOK
    <2>2. seen' \in [Mode -> Day \union Time \union {None}]
      BY <1>1, <2>1, ShowsType, ModesAgree DEF TouchDown, TypeOK
    <2> QED
      BY <1>1, <2>1, <2>2 DEF TouchDown, TypeOK
  <1>2. ASSUME NEW f \in Field, LiftWithin(f)
        PROVE  TypeOK'
    <2>1. touched \in Field
      BY <1>2 DEF LiftWithin, ModeFollowsTouch, TypeOK
    <2>2. seen' \in [Mode -> Day \union Time \union {None}]
      BY <1>2, <2>1, ShowsType, ModesAgree DEF LiftWithin, TypeOK
    <2> QED
      BY <1>2, <2>2 DEF LiftWithin, TypeOK
  <1>3. ASSUME NEW x \in Day \union Time, Settle(x)
        PROVE  TypeOK'
    <2>1. touched \in Field
      BY <1>3 DEF Settle, ModeFollowsTouch, TypeOK
    <2>2. picker' \in Moment /\ mode' \in Mode
      BY <1>3, SettledMoment DEF Settle, TypeOK
    <2>3. seen' \in [Mode -> Day \union Time \union {None}]
      BY <1>3, <2>1, <2>2, ShowsType, ModesAgree DEF Settle, TypeOK
    <2> QED
      BY <1>3, <2>2, <2>3 DEF Settle, TypeOK
  <1>4. CASE Type
    <2>1. editing \in Field
      BY <1>4 DEF Type, TypeOK
    <2> QED
      BY <1>4, <2>1 DEF Type, TypeOK
  <1>5. ASSUME NEW f \in Field, Done(f)
        PROVE  TypeOK'
    <2>1. /\ picker[Printed(f)] \in Value(Printed(f))
          /\ picker[Printed(f)] \in Day \union Time
      BY ModesAgree, PickerRange DEF TypeOK
    <2>2. shown' = [shown EXCEPT ![f] = picker[Printed(f)]]
      BY <1>5 DEF Done
    <2>3. /\ shown' \in [Field -> Day \union Time \union {Typed}]
          /\ \A g \in Field : shown'[g] \in Value(Printed(g)) \union {Typed}
      BY <2>1, <2>2 DEF TypeOK
    <2> QED
      BY <1>5, <2>3, PressTypes DEF Done, TypeOK
  <1>6. ASSUME NEW f \in Field, Cancel(f)
        PROVE  TypeOK'
    BY <1>6, PressTypes DEF Cancel, TypeOK
  <1>7. CASE Reopen
    BY <1>7, MomentType DEF Reopen, TypeOK, Mode
  <1>8. ASSUME NEW f \in Field, SlideOff(f)
        PROVE  TypeOK'
    BY <1>8 DEF SlideOff, TypeOK
  <1>9. CASE Spin
    BY <1>9 DEF Spin, TypeOK
  <1>10. CASE UNCHANGED vars
    BY <1>10 DEF vars, TypeOK
  <1> QED
    BY <1>1, <1>2, <1>3, <1>4, <1>5, <1>6, <1>7, <1>8, <1>9, <1>10 DEF Next

\* Only touching a field sets the mode or changes which field was touched last,
\* and it does both; nothing else happens before the first touch.
LEMMA ModeStep == TypeOK /\ ModeFollowsTouch /\ [Next]_vars => ModeFollowsTouch'
  <1> SUFFICES ASSUME TypeOK, ModeFollowsTouch, [Next]_vars
               PROVE  ModeFollowsTouch'
    OBVIOUS
  <1> USE DEF ModeFollowsTouch
  <1>1. ASSUME NEW f \in Field, TouchDown(f)
        PROVE  ModeFollowsTouch'
    BY <1>1, ModesAgree DEF TouchDown
  <1>2. ASSUME NEW f \in Field, LiftWithin(f) \/ SlideOff(f)
        PROVE  ModeFollowsTouch'
    BY <1>2 DEF LiftWithin, SlideOff
  <1>3. ASSUME NEW f \in Field, Press(f)
        PROVE  ModeFollowsTouch'
    BY <1>3 DEF Press
  <1>4. ASSUME Spin \/ \E x \in Day \union Time : Settle(x)
        PROVE  ModeFollowsTouch'
    BY <1>4 DEF Spin, Settle, InSight
  <1>5. ASSUME UNCHANGED <<touched, mode, hidden, spinning, fingers>>
        PROVE  ModeFollowsTouch'
    BY <1>5
  <1>6. CASE Reopen
    BY <1>6 DEF Reopen
  <1> QED
    BY <1>1, <1>2, <1>3, <1>4, <1>5, <1>6 DEF Next, Type, Done, Cancel, vars

\* The picker shows the component that the field touched last is for, so what
\* the user sees of it is what it holds.
LEMMA ShowsStands ==
  ASSUME TypeOK, SeenStands, NEW m \in Mode, mode' = m, Shows(m),
         \A n \in Mode \ {m} : picker'[n] = picker[n]
  PROVE  SeenStands'
  BY DEF TypeOK, SeenStands, Shows

\* The picker moves only by its own wheels, and then the user sees it or what
\* was seen counts no more.
LEMMA SeenStep == TypeOK /\ ModeFollowsTouch /\ SeenStands /\ [Next]_vars => SeenStands'
  <1> SUFFICES ASSUME TypeOK, ModeFollowsTouch, SeenStands, [Next]_vars
               PROVE  SeenStands'
    OBVIOUS
  <1>1. ASSUME UNCHANGED <<seen, picker>>
        PROVE  SeenStands'
    BY <1>1 DEF SeenStands
  <1>2. ASSUME NEW f \in Field, TouchDown(f)
        PROVE  SeenStands'
    <2>1. mode' = Printed(f) /\ picker' = picker
      BY <1>2, ModesAgree DEF TouchDown
    <2>2. CASE covered
      BY <1>1, <1>2, <2>2 DEF TouchDown
    <2>3. CASE ~covered
      BY <1>2, <2>1, <2>3, ModesAgree, ShowsStands DEF TouchDown
    <2> QED
      BY <2>2, <2>3
  <1>3. ASSUME NEW f \in Field, LiftWithin(f)
        PROVE  SeenStands'
    <2>1. mode' = Printed(touched) /\ picker' = picker /\ Printed(touched) \in Mode
      BY <1>3, ModesAgree DEF LiftWithin, ModeFollowsTouch, TypeOK
    <2>2. CASE InSight'
      BY <1>3, <2>1, <2>2, ShowsStands DEF LiftWithin
    <2>3. CASE ~InSight'
      BY <1>1, <1>3, <2>3 DEF LiftWithin
    <2> QED
      BY <2>2, <2>3
  <1>4. ASSUME NEW x \in Day \union Time, Settle(x)
        PROVE  SeenStands'
    <2>1. mode' = mode /\ mode = Printed(touched) /\ mode \in Mode
      BY <1>4 DEF Settle, ModeFollowsTouch, TypeOK
    <2>2. \A n \in Mode \ {mode} : picker'[n] = picker[n]
      BY <1>4 DEF Settle, TypeOK, Moment
    <2>3. CASE InSight
      BY <1>4, <2>1, <2>2, <2>3, ShowsStands DEF Settle
    <2>4. CASE ~InSight
      <3>1. seen' = [seen EXCEPT ![mode] = None]
        BY <1>4, <2>1, <2>4 DEF Settle
      <3> QED
        BY <2>2, <3>1 DEF SeenStands, TypeOK
    <2> QED
      BY <2>3, <2>4
  <1>5. CASE Reopen
    BY <1>5 DEF Reopen, SeenStands
  <1> QED
    BY <1>1, <1>2, <1>3, <1>4, <1>5
       DEF Next, SlideOff, Spin, Type, Press, Done, Cancel, vars

-----------------------------------------------------------------------------
(***************************************************************************)
(* The theorems.                                                           *)
(***************************************************************************)

\* The inductive invariant holds in every reachable state.
THEOREM InvariantHolds == Spec => []IInv
  <1>1. Init => IInv
    <2> SUFFICES ASSUME Init
                 PROVE  IInv
      OBVIOUS
    <2>1. TypeOK
      BY MomentType DEF Init, TypeOK, Mode
    <2> QED
      BY <2>1 DEF Init, IInv, ModeFollowsTouch, SeenStands
  <1>2. IInv /\ [Next]_vars => IInv'
    BY TypeStep, ModeStep, SeenStep DEF IInv
  <1> QED
    BY <1>1, <1>2, PTL DEF Spec

\* Every variable keeps its type; in particular no field ever shows a value of
\* another component than its own.
THEOREM TypeCorrect == Spec => []TypeOK
  <1>1. IInv => TypeOK
    BY DEF IInv
  <1> QED
    BY <1>1, InvariantHolds, PTL

\* A picker that is not hidden has the mode of the field touched last, also under
\* several fingers.
THEOREM VisiblePickerFits == Spec => []VisiblePickerFitsLastTouch
  <1>1. IInv => VisiblePickerFitsLastTouch
    BY DEF IInv, ModeFollowsTouch, VisiblePickerFitsLastTouch
  <1> QED
    BY <1>1, InvariantHolds, PTL

\* Done stores what the user has seen last of its component, with any fingers,
\* keyboards and toolbars.
THEOREM DoneStoresTheSeen == Spec => DoneStoresWhatWasSeen
  <1>1. IInv /\ [Next]_vars =>
          [\A f \in Field :
             Done(f) /\ seen[Printed(f)] # None => shown'[f] = seen[Printed(f)]]_vars
    <2> SUFFICES ASSUME IInv, NEW f \in Field, Done(f), seen[Printed(f)] # None
                 PROVE  shown'[f] = seen[Printed(f)]
      OBVIOUS
    <2>1. shown'[f] = picker[Printed(f)]
      BY DEF IInv, TypeOK, Done
    <2> QED
      BY <2>1, ModesAgree DEF IInv, SeenStands
  <1> QED
    BY <1>1, InvariantHolds, PTL DEF Spec, DoneStoresWhatWasSeen

\* What a step does to the fields that are not edited.
LEMMA EditedStep ==
  ASSUME TypeOK, [Next]_vars, ~Reopen, NEW f \in Field, shown'[f] # shown[f]
  PROVE  editing = f
  <1>1. ASSUME NEW g \in Field, Done(g)
        PROVE  editing = f
    BY <1>1 DEF Done, Press, TypeOK
  <1>2. CASE Type
    BY <1>2 DEF Type, TypeOK
  <1> QED
    BY <1>1, <1>2 DEF Next, TouchDown, LiftWithin, SlideOff, Spin, Settle, Cancel, vars

\* The handlers never write into a field that is not being edited.
THEOREM OthersAreLeftAlone == Spec => OnlyTheEditedFieldChanges
  <1>1. TypeOK /\ [Next]_vars =>
          [~Reopen => \A f \in Field : shown'[f] # shown[f] => editing = f]_vars
    BY EditedStep
  <1> QED
    BY <1>1, TypeCorrect, PTL DEF Spec, OnlyTheEditedFieldChanges

=============================================================================
