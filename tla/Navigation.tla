----------------------------- MODULE Navigation -----------------------------
(***************************************************************************)
(* The screens of the app: the UINavigationController that AppDelegate     *)
(* creates, the routers and handlers that push onto it, and the modal      *)
(* controllers presented over it.                                          *)
(*                                                                         *)
(* A screen is represented by the name of its view controller class.       *)
(* Pushing never looks at what is on top: a router appends to the stack    *)
(* whatever screen is showing when it runs.  What a list screen downloads  *)
(* once it is on the stack is the subject of ListScreens.                  *)
(***************************************************************************)
EXTENDS Naturals, Sequences

CONSTANTS
  MaxDepth,  \* bound: the user opens no further screen beyond this depth
  Name,      \* the user names that can be entered in the profile
  None

ASSUME MaxDepthAssumption == MaxDepth \in Nat

VARIABLES
  stack,   \* the view controllers of the navigation controller, root first
  modal,   \* what is presented over the navigation controller
  userName \* the user name in UserDefaults, None before the first save

navVars == <<stack, modal, userName>>

Screen == {"Auth", "Office", "Rooms", "WorkPlace", "ChooseDate"}
Modal  == {"none", "alert", "profile"}

NavTypeOK ==
  /\ stack \in Seq(Screen) /\ stack # << >>
  /\ modal \in Modal
  /\ userName \in Name \union {None}

Top == stack[Len(stack)]

\* The screen that receives the user's touches.
Frontmost(screen) == Top = screen /\ modal = "none"

OnStack(screen) == \E i \in 1..Len(stack) : stack[i] = screen

(***************************************************************************)
(* UIKit, as the app uses it.  pushViewController appends.  A controller   *)
(* presents nothing while something is already presented; presented from a *)
(* controller that is covered by another one, UIKit may show it or only    *)
(* log that the view is not in the window hierarchy.                       *)
(***************************************************************************)
Push(screen) == stack' = Append(stack, screen)

Present(source, m) ==
  IF modal # "none" THEN modal' = modal
  ELSE IF Top = source THEN modal' = m
  ELSE modal' \in {modal, m}

NavInit ==
  /\ stack = <<"Auth">>
  /\ modal = "none"
  /\ userName = None

(***************************************************************************)
(* The user's moves from screen to screen.                                 *)
(***************************************************************************)
Open(source, target) ==
  /\ Frontmost(source)
  /\ Len(stack) < MaxDepth
  /\ Push(target)
  /\ UNCHANGED <<modal, userName>>

\* Any row of the table of offices: the handler ignores which one.
ShowRooms == Open("Office", "Rooms")

\* The button of an available room.
ShowWorkPlaces == Open("Rooms", "WorkPlace")

\* The button of an available workplace.
ShowDates == Open("WorkPlace", "ChooseDate")

\* The profile button presents, on the navigation controller itself.
ShowProfile ==
  /\ Frontmost("Office")
  /\ modal' = "profile"
  /\ UNCHANGED <<stack, userName>>

\* The save button, the only way out of the profile: it stores whatever its
\* text field holds, which began with the stored name, and dismisses.
SaveProfile ==
  /\ modal = "profile"
  /\ userName' \in Name
  /\ modal' = "none"
  /\ UNCHANGED stack

DismissAlert ==
  /\ modal = "alert"
  /\ modal' = "none"
  /\ UNCHANGED <<stack, userName>>

\* The back button; the root has none.
Back ==
  /\ modal = "none"
  /\ Len(stack) > 1
  /\ stack' = SubSeq(stack, 1, Len(stack) - 1)
  /\ UNCHANGED <<modal, userName>>

NavNext ==
  \/ ShowRooms
  \/ ShowWorkPlaces
  \/ ShowDates
  \/ ShowProfile
  \/ SaveProfile
  \/ DismissAlert
  \/ Back

=============================================================================
