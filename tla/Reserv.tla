-------------------------------- MODULE Reserv --------------------------------
(***************************************************************************)
(* The app as a whole: SignIn, with its screens, and ListScreens, joined   *)
(* where a step of the app is a step of both.  A success of sign-in pushes *)
(* a screen of offices and loads it; what the user opens from a list needs *)
(* a row of that list; going back leaves the top screen in both; and a     *)
(* crash of one part, or a relaunch, ends everything.                      *)
(*                                                                         *)
(* SignIn alone lets the user open the next screen whenever a screen shows *)
(* on top, and ListScreens alone opens offices at any time.  Here neither  *)
(* does more than the other allows: each step is a step of a part, or      *)
(* leaves it alone, by the way the actions are put together.               *)
(***************************************************************************)
EXTENDS SignIn

CONSTANT View   \* bound: the list screens that can exist at a time

VARIABLES
  kind, opened, table, tableCalls, spinnerCalls, \* those of ListScreens
  at   \* history: at[i] is where on the stack the list screen opened[i] lies

listVars == <<kind, opened, table, tableCalls, spinnerCalls>>

allVars == <<vars, listVars, at>>

Lists == INSTANCE ListScreens

-----------------------------------------------------------------------------

IsList(screen) == screen \in Lists!Kind

ReservInit ==
  /\ Init
  /\ Lists!Init
  /\ at = << >>

\* The step pushes a list screen.
PushedList == at' = Append(at, Len(stack'))

\* Nothing of sign-in touches the lists unless the offices open.
SignInStep ==
  /\ \/ \E f \in Field, t \in Text : Type(f, t)
     \/ \E r \in Request : Tap(r)
     \/ \E r \in Request : Answer(r)
     \/ \E r \in Request : DeliverFailure(r)
     \/ \E r \in Request : DeliverIgnored(r)
  /\ UNCHANGED <<listVars, at>>

\* The router pushes the offices, whose viewDidLoad starts their downloads.
OpenOffice(r, v) ==
  /\ DeliverSuccess(r)
  /\ Lists!OpenOffice(v)
  /\ PushedList

\* A tap on a row of offices, or on the button of a cell of rooms.
OpenRooms(v) ==
  /\ ShowRooms
  /\ Lists!OpenRooms(v)
  /\ PushedList
  /\ UNCHANGED signInVars

OpenWorkPlace(v) ==
  /\ ShowWorkPlaces
  /\ Lists!OpenWorkPlace(v)
  /\ PushedList
  /\ UNCHANGED signInVars

\* Mutated: the dates are opened by a button of the screen, not of a cell.
OpenDatesAnyway ==
  /\ ShowDates
  /\ UNCHANGED <<signInVars, listVars, at>>

\* The button of a cell of workplaces; the dates download nothing.
OpenDates ==
  /\ ShowDates
  /\ Lists!RowsOf("WorkPlace")
  /\ UNCHANGED <<signInVars, listVars, at>>

\* Neither the profile nor the alert touches the lists beneath it.
ModalStep ==
  /\ ShowProfile \/ SaveProfile \/ DismissAlert
  /\ UNCHANGED <<signInVars, listVars, at>>

LeaveTop ==
  /\ Back
  /\ IF IsList(Top)
     THEN Lists!Back /\ at' = SubSeq(at, 1, Len(at) - 1)
     ELSE UNCHANGED <<listVars, at>>
  /\ UNCHANGED signInVars

\* Answers to downloads, which the user sees only if the screen shows.
ListAnswered(v) ==
  /\ \/ Lists!SpinnerAnswered(v)
     \/ Lists!TableFills(v)
     \/ Lists!TableStaysEmpty(v)
     \/ Lists!TableIgnored(v)
  /\ UNCHANGED <<vars, at>>

\* A debug build ends on a download that failed.
ListCrashes(v) ==
  /\ Lists!TableCrashes(v)
  /\ Relaunch
  /\ at' = << >>

RelaunchApp ==
  /\ Relaunch
  /\ Lists!Relaunch
  /\ at' = << >>

ReservNext ==
  \/ SignInStep
  \/ \E r \in Request, v \in View : OpenOffice(r, v)
  \/ \E v \in View : OpenRooms(v)
  \/ \E v \in View : OpenWorkPlace(v)
  \/ OpenDates
  \/ ModalStep
  \/ LeaveTop
  \/ \E v \in View : ListAnswered(v)
  \/ \E v \in View : ListCrashes(v)
  \/ RelaunchApp

ReservSpec == ReservInit /\ [][ReservNext]_allVars

-----------------------------------------------------------------------------
(***************************************************************************)
(* The property that takes both parts.                                     *)
(***************************************************************************)

\* Place k of the stack is a list of that kind, and shows rows.
Loaded(k, screen) ==
  /\ k \in DOMAIN stack
  /\ stack[k] = screen
  /\ \E i \in DOMAIN at : at[i] = k /\ table[opened[i]] = "rows"

\* Whoever chooses a date has come through a sign-in that Firebase accepted and
\* through offices, rooms and workplaces that lie loaded beneath, each right
\* under the next, however late answers pile up screens (DeliverSuccess pushes
\* onto any screen; the handlers of the lists need a row).
DatesHaveTheirPath ==
  \A k \in DOMAIN stack :
    stack[k] = "ChooseDate" =>
      /\ currentUser # None
      /\ Loaded(k - 1, "WorkPlace")
      /\ Loaded(k - 2, "Rooms")
      /\ Loaded(k - 3, "Office")

-----------------------------------------------------------------------------
(***************************************************************************)
(* The inductive invariant behind the safety properties.                   *)
(***************************************************************************)

\* What couples the two parts: stack and opened both stand for the view controllers
\* of the one navigation controller, and at says which is which.  This is about the
\* model, not about the app.
StackAgrees ==
  /\ DOMAIN at = DOMAIN opened
  /\ \A i \in DOMAIN at : at[i] \in DOMAIN stack /\ stack[at[i]] = kind[opened[i]]
  /\ \A i, j \in DOMAIN at : i < j => at[i] < at[j]
  /\ \A k \in DOMAIN stack : IsList(stack[k]) => \E i \in DOMAIN at : at[i] = k

\* Every screen of that class lies right above a loaded list of the other.
Leads(before, screen) ==
  \A k \in DOMAIN stack : stack[k] = screen => Loaded(k - 1, before)

PathOnStack ==
  /\ Leads("Office", "Rooms")
  /\ Leads("Rooms", "WorkPlace")
  /\ Leads("WorkPlace", "ChooseDate")

\* Beneath the dates each screen answers for the next one down, and the offices
\* at the end answer for the user: by what the handlers of the lists demand and
\* by SignIn's own invariant.
ReservIInv ==
  /\ IInv
  /\ Lists!IInv
  /\ at \in Seq(Nat)
  /\ StackAgrees
  /\ PathOnStack

=============================================================================
