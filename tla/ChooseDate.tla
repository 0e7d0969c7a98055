------------------------------ MODULE ChooseDate ------------------------------
(***************************************************************************)
(* ChooseDateVC: three text fields, for the day, the start and the finish, *)
(* and one date picker that serves all of them.  The picker stands hidden  *)
(* at the bottom of the screen; touching a field sets its mode and shows   *)
(* it, and the toolbar over the keyboard of the edited field has a Done    *)
(* and a Cancel button, which hide it.                                     *)
(*                                                                         *)
(* The picker is not the input view of the fields: it appears on the first *)
(* contact of a finger, while a field is edited only once the finger lifts *)
(* within it.  Then the keyboard comes up and lies over the picker, unless *)
(* a hardware keyboard leaves only the toolbar there.  Nothing else        *)
(* happens with what the fields show: the button for the reservation has   *)
(* no handler.                                                             *)
(***************************************************************************)

CONSTANTS
  Day,    \* what the picker can show in its mode "date"
  Time,   \* ... and in its mode "time"
  Typed,  \* any text that the user types into a field
  None

ASSUME TypedAssumption == Typed \notin Day \union Time
ASSUME NoneAssumption == None \notin {"date", "start", "finish"} \union Day \union Time

VARIABLES
  shown,     \* shown[f]: what field f shows
  picker,    \* picker[m]: what the picker shows whenever its mode is m
  mode,      \* the mode of the picker
  hidden,    \* whether the picker is hidden (isHidden)
  covered,   \* whether a keyboard lies over the place of the picker
  spinning,  \* whether its wheels have yet to come to rest
  fingers,   \* the fields that a finger has touched and not yet left
  editing,   \* the field that is the first responder
  touched,   \* history: the field touched last
  seen       \* history: seen[m]: what the picker has shown last, in the sight of
             \* the user, for a field that wants component m; None if nothing

vars == <<shown, picker, mode, hidden, covered, spinning, fingers, editing, touched, seen>>

-----------------------------------------------------------------------------

Field == {"date", "start", "finish"}

Mode == {"date", "time"}

Value(m) == IF m = "date" THEN Day ELSE Time

\* The component of a moment that field f is for, as the formatter of its Done
\* button prints it, whatever mode the picker is in.
Printed(f) == IF f = "date" THEN "date" ELSE "time"

\* Mutated: showFinishPicker trusts the mode to be that of the start.
ModeUnlessFinish(f) == CASE f = "date" -> "date" [] f = "start" -> "time" [] OTHER -> mode

\* The mode that the handler of field f sets.
ModeFor(f) == IF f = "date" THEN "date" ELSE "time"

\* The user sees the picker.
InSight == ~hidden /\ ~covered

Moment == {p \in [Mode -> Day \union Time] : \A m \in Mode : p[m] \in Value(m)}

TypeOK ==
  /\ shown \in [Field -> Day \union Time \union {Typed}]
  /\ \A f \in Field : shown[f] \in Value(Printed(f)) \union {Typed}
  /\ picker \in Moment
  /\ mode \in Mode
  /\ {hidden, covered, spinning} \subseteq BOOLEAN
  /\ fingers \subseteq Field
  /\ {editing, touched} \subseteq Field \union {None}
  /\ seen \in [Mode -> Day \union Time \union {None}]

\* viewDidLoad: one moment, the present, in the picker and in all the fields.
\* showTime comes after showDate and leaves its mode behind.
Init ==
  /\ picker \in Moment
  /\ shown = [f \in Field |-> picker[Printed(f)]]
  /\ mode = "time"
  /\ hidden = TRUE
  /\ covered = FALSE
  /\ spinning = FALSE
  /\ fingers = {}
  /\ editing = None
  /\ touched = None
  /\ seen = [m \in Mode |-> None]

-----------------------------------------------------------------------------
(***************************************************************************)
(* A finger on a field.                                                    *)
(***************************************************************************)

\* What the picker shows after the step for a field that wants component m.
Shows(m) == seen' = [seen EXCEPT ![m] = picker'[mode']]

\* tapOnText, tapOnStartTimeField and tapOnFinishField, on touchDown.  A mode
\* that changes replaces the wheels, which thereby stop.
TouchDown(f) ==
  /\ f \notin fingers
  /\ fingers' = fingers \union {f}
  /\ touched' = f
  /\ mode' = ModeFor(f)
  /\ hidden' = FALSE
  /\ spinning' = (spinning /\ mode' = mode)
  /\ UNCHANGED <<shown, picker, covered, editing>>
  /\ IF covered THEN UNCHANGED seen ELSE Shows(Printed(f))

\* The finger lifts within the field, which becomes the first responder.  With
\* no input view of its own it calls for the keyboard, or for the toolbar alone.
LiftWithin(f) ==
  /\ f \in fingers
  /\ fingers' = fingers \ {f}
  /\ editing' = f
  /\ covered' \in BOOLEAN
  /\ UNCHANGED <<shown, picker, mode, hidden, spinning, touched>>
  /\ IF InSight' THEN Shows(Printed(touched)) ELSE UNCHANGED seen

\* The finger slides off the field, or the touch is cancelled.
SlideOff(f) ==
  /\ f \in fingers
  /\ fingers' = fingers \ {f}
  /\ UNCHANGED <<shown, picker, mode, hidden, covered, spinning, editing, touched, seen>>

-----------------------------------------------------------------------------
(***************************************************************************)
(* The picker, the keyboard and the toolbar.                               *)
(***************************************************************************)

\* The user turns the wheels of a picker in sight.
Spin ==
  /\ InSight
  /\ spinning' = TRUE
  /\ UNCHANGED <<shown, picker, mode, hidden, covered, fingers, editing, touched, seen>>

\* They come to rest, maybe after the keyboard has come up or the picker is hidden.
Settle(x) ==
  /\ spinning
  /\ x \in Value(mode)
  /\ picker' = [picker EXCEPT ![mode] = x]
  /\ spinning' = FALSE
  /\ UNCHANGED <<shown, mode, hidden, covered, fingers, editing, touched>>
  /\ IF InSight
     THEN Shows(Printed(touched))
     ELSE seen' = [seen EXCEPT ![Printed(touched)] = None]

\* The keyboard of the field takes any text, also beside the picker.
Type ==
  /\ editing # None
  /\ shown' = [shown EXCEPT ![editing] = Typed]
  /\ UNCHANGED <<picker, mode, hidden, covered, spinning, fingers, editing, touched, seen>>

\* A button of the toolbar that belongs to the edited field f.
Press(f) ==
  /\ editing = f
  /\ hidden' = TRUE
  /\ editing' = None
  /\ covered' = FALSE
  /\ UNCHANGED <<picker, mode, spinning, fingers, touched, seen>>

\* Mutated: DoneFinishTime is a copy of doneStartTime.
DoneWithStart(f) ==
  /\ Press(f)
  /\ LET g == IF f = "finish" THEN "start" ELSE f
     IN  shown' = [shown EXCEPT ![g] = picker[Printed(f)]]

\* Mutated: DoneFinishTime prints with the formatter of the date.
DoneAsDate(f) ==
  /\ Press(f)
  /\ shown' = [shown EXCEPT ![f] = picker[IF f = "start" THEN "time" ELSE "date"]]

\* Mutated: the picker is put back to the present before it is printed.
DoneAfterReset(f) ==
  /\ Press(f)
  /\ \E x \in Value(Printed(f)) : shown' = [shown EXCEPT ![f] = x]

\* The handlers each have their formatter: what it prints need not be what the
\* picker shows.
Done(f) ==
  /\ Press(f)
  /\ shown' = [shown EXCEPT ![f] = picker[Printed(f)]]

\* Neither the picker nor a text typed meanwhile is put back.
Cancel(f) ==
  /\ Press(f)
  /\ UNCHANGED shown

\* The screen is left, and opened anew later: a new view controller.
Reopen ==
  /\ picker' \in Moment
  /\ shown' = [f \in Field |-> picker'[Printed(f)]]
  /\ mode' = "time"
  /\ hidden' = TRUE
  /\ covered' = FALSE
  /\ spinning' = FALSE
  /\ fingers' = {}
  /\ editing' = None
  /\ touched' = None
  /\ seen' = [m \in Mode |-> None]

Next ==
  \/ \E f \in Field : TouchDown(f)
  \/ \E f \in Field : LiftWithin(f)
  \/ \E f \in Field : SlideOff(f)
  \/ Spin
  \/ \E x \in Day \union Time : Settle(x)
  \/ Type
  \/ \E f \in Field : Done(f)
  \/ \E f \in Field : Cancel(f)
  \/ Reopen

Spec == Init /\ [][Next]_vars

-----------------------------------------------------------------------------
(***************************************************************************)
(* Properties.                                                             *)
(***************************************************************************)

\* Only the field being edited ever changes, until the screen is opened anew:
\* the three sets of handlers, copies of one another, do not write into each
\* other's field (doneDateButton, doneStartTime and DoneFinishTime).
OnlyTheEditedFieldChanges ==
  [][~Reopen => \A f \in Field : shown'[f] # shown[f] => editing = f]_vars

\* However touches, edits and cancelled edits of the three fields follow one
\* another, a picker that is not hidden has the mode of the field touched last
\* (showDatePiker, showStartPicker and showFinishPicker).
VisiblePickerFitsLastTouch ==
  ~hidden => touched # None /\ mode = Printed(touched)

\* Done stores what the user has seen last of the component that its field is
\* for, although by then the keyboard may lie over the picker, the picker may be
\* hidden or, after another field was touched, in the other mode.  This is silent
\* only on a component that the user has not seen: the keyboard was up whenever
\* the picker stood for it, or its wheels came to rest out of sight (touchDown
\* shows the picker, the keyboard covers it, Done reads datePicker.date).
DoneStoresWhatWasSeen ==
  [][\A f \in Field :
       Done(f) /\ seen[Printed(f)] # None => shown'[f] = seen[Printed(f)]]_vars

-----------------------------------------------------------------------------
(***************************************************************************)
(* The inductive invariant behind the safety properties.                   *)
(***************************************************************************)

\* The mode of the picker is that of the field touched last, hidden or not, and
\* the wheels turn only once a field was touched.
ModeFollowsTouch ==
  IF touched = None
  THEN hidden /\ ~spinning /\ fingers = {}
  ELSE mode = Printed(touched)

\* What the user has seen last of a component still stands in the picker.
SeenStands == \A m \in Mode : seen[m] \in {None, picker[m]}

\* What Done prints is what was seen because the mode, which says what the picker
\* shows, agrees with the component that the field touched last is for, and
\* nothing moves the picker out of sight but its own wheels (touchDown of the
\* fields, Done and Cancel).
IInv ==
  /\ TypeOK
  /\ ModeFollowsTouch
  /\ SeenStands

=============================================================================
