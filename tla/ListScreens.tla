----------------------------- MODULE ListScreens -----------------------------
(***************************************************************************)
(* The three screens that show a downloaded list: offices, rooms and       *)
(* workplaces.  Loading a screen subscribes to its download, the screen of *)
(* offices even twice: once for its spinner and once for its table, each   *)
(* subscription with an HTTP request of its own.  A request cannot be      *)
(* cancelled: it is answered after its screen has been left, too.          *)
(*                                                                         *)
(* A screen that was left is released as soon as nothing holds it any      *)
(* more; its subscriptions end with it, in its dispose bag.                *)
(*                                                                         *)
(* Of the navigation stack only these screens are represented: what else   *)
(* lies on it takes no part in downloads, and keeps no list screen alive.  *)
(***************************************************************************)
EXTENDS Naturals, Sequences

CONSTANT View   \* bound: the list screens that can exist at a time

VARIABLES
  kind,          \* kind[v]: the class of view controller v, "none" once released
  opened,        \* the list screens on the navigation stack, oldest first
  table,         \* table[v]: what the table of v shows
  tableCalls,    \* the screens whose table awaits the answer to a request
  spinnerCalls   \* the screens whose spinner does

vars == <<kind, opened, table, tableCalls, spinnerCalls>>

-----------------------------------------------------------------------------

Kind == {"Office", "Rooms", "WorkPlace"}

Shows == {"nothing yet", "rows", "no rows"}

Opened(v) == \E i \in 1..Len(opened) : opened[i] = v

Alive(v) == kind[v] # "none"

Settled(v) == v \notin tableCalls \union spinnerCalls

TypeOK ==
  /\ kind \in [View -> Kind \union {"none"}]
  /\ opened \in Seq(View)
  /\ \A v \in View : Opened(v) => Alive(v)
  /\ table \in [View -> Shows]
  /\ tableCalls \subseteq View
  /\ spinnerCalls \subseteq View

Init ==
  /\ kind = [v \in View |-> "none"]
  /\ opened = << >>
  /\ table = [v \in View |-> "nothing yet"]
  /\ tableCalls = {}
  /\ spinnerCalls = {}

\* Mutated: nothing but its subscription keeps a screen in memory.
HeldOffStack(v, path, spinners) ==
  \/ v \in spinners
  \/ kind[v] \in {"Rooms", "WorkPlace"}

\* Mutated: the table of offices configures its cells with a closure that
\* refers to the view controller, as the other two tables do.
HeldByEveryTable(v, path, spinners) ==
  \/ \E i \in 1..Len(path) : path[i] = v
  \/ v \in spinners
  \/ kind[v] # "none"

(***************************************************************************)
(* What holds view controller v, given the screens on the stack and those  *)
(* whose spinner has a subscription: the stack; the spinner's closure; and *)
(* for rooms and workplaces the closure that configures their cells, which *)
(* the data source of their own table keeps.                               *)
(***************************************************************************)
Held(v, path, spinners) ==
  \/ \E i \in 1..Len(path) : path[i] = v
  \/ v \in spinners
  \/ kind[v] \in {"Rooms", "WorkPlace"}

\* Holds of the stack and the subscriptions as the step leaves them.
ReleaseUnheld ==
  kind' = [v \in View |-> IF Held(v, opened', spinnerCalls') THEN kind[v] ELSE "none"]

-----------------------------------------------------------------------------
(***************************************************************************)
(* Opening and leaving screens.                                            *)
(***************************************************************************)

\* v is pushed and loaded, and its table's download is requested.
Load(v, k) ==
  /\ ~Alive(v) /\ Settled(v)
  /\ kind' = [kind EXCEPT ![v] = k]
  /\ opened' = Append(opened, v)
  /\ table' = [table EXCEPT ![v] = "nothing yet"]
  /\ tableCalls' = tableCalls \union {v}

\* The user is looking at a list of the given kind, and it has rows.
RowsOf(k) ==
  /\ opened # << >>
  /\ kind[opened[Len(opened)]] = k
  /\ table[opened[Len(opened)]] = "rows"

\* A sign-in succeeds: at any time, over whatever screen shows by then.  Reserv
\* says when.
OpenOffice(v) ==
  /\ Load(v, "Office")
  /\ spinnerCalls' = spinnerCalls \union {v}

\* Mutated: rooms can be opened without a row of an office to tap.
OpenRoomsRowless(v) ==
  /\ opened # << >>
  /\ kind[opened[Len(opened)]] = "Office"
  /\ Load(v, "Rooms")
  /\ UNCHANGED spinnerCalls

OpenRooms(v) ==
  /\ RowsOf("Office")
  /\ Load(v, "Rooms")
  /\ UNCHANGED spinnerCalls

OpenWorkPlace(v) ==
  /\ RowsOf("Rooms")
  /\ Load(v, "WorkPlace")
  /\ UNCHANGED spinnerCalls

Back ==
  /\ opened # << >>
  /\ opened' = SubSeq(opened, 1, Len(opened) - 1)
  /\ UNCHANGED <<table, tableCalls, spinnerCalls>>
  /\ ReleaseUnheld

\* The process ends at any point and the app starts again, at the sign-in.
Relaunch ==
  /\ kind' = [v \in View |-> "none"]
  /\ opened' = << >>
  /\ table' = [v \in View |-> "nothing yet"]
  /\ tableCalls' = {}
  /\ spinnerCalls' = {}

-----------------------------------------------------------------------------
(***************************************************************************)
(* Answers, on the main thread, in any order.                              *)
(***************************************************************************)

\* Either outcome ends the subscription and releases its closure.  What the
\* spinner looks like afterwards is left out.
SpinnerAnswered(v) ==
  /\ v \in spinnerCalls
  /\ spinnerCalls' = spinnerCalls \ {v}
  /\ UNCHANGED <<opened, table, tableCalls>>
  /\ ReleaseUnheld

\* Mutated: the response handler may be called once more.
TableFillsAgain(v) ==
  /\ v \in tableCalls
  /\ Alive(v)
  /\ table' = [table EXCEPT ![v] = "rows"]
  /\ UNCHANGED <<kind, opened, tableCalls, spinnerCalls>>

TableFills(v) ==
  /\ v \in tableCalls
  /\ Alive(v)
  /\ tableCalls' = tableCalls \ {v}
  /\ table' = [table EXCEPT ![v] = "rows"]
  /\ UNCHANGED <<kind, opened, spinnerCalls>>

\* Mutated: a body that cannot be parsed produces no event.
TableForgotten(v) ==
  /\ v \in tableCalls
  /\ Alive(v)
  /\ tableCalls' = tableCalls \ {v}
  /\ UNCHANGED <<kind, opened, table, spinnerCalls>>

\* An empty list or, in a release build, an error, which is printed: the table
\* stays without rows, and nothing asks for them again.
TableStaysEmpty(v) ==
  /\ v \in tableCalls
  /\ Alive(v)
  /\ tableCalls' = tableCalls \ {v}
  /\ table' = [table EXCEPT ![v] = "no rows"]
  /\ UNCHANGED <<kind, opened, spinnerCalls>>

\* In a debug build RxCocoa's bindingError ends the process on an error.
TableCrashes(v) ==
  /\ v \in tableCalls
  /\ Alive(v)
  /\ Relaunch

\* The subscription ended with its screen.
TableIgnored(v) ==
  /\ v \in tableCalls
  /\ ~Alive(v)
  /\ tableCalls' = tableCalls \ {v}
  /\ UNCHANGED <<kind, opened, table, spinnerCalls>>

TableAnswered(v) ==
  TableFills(v) \/ TableStaysEmpty(v) \/ TableCrashes(v) \/ TableIgnored(v)

-----------------------------------------------------------------------------

Next ==
  \/ \E v \in View : OpenOffice(v)
  \/ \E v \in View : OpenRooms(v)
  \/ \E v \in View : OpenWorkPlace(v)
  \/ Back
  \/ \E v \in View : SpinnerAnswered(v)
  \/ \E v \in View : TableFills(v)
  \/ \E v \in View : TableStaysEmpty(v)
  \/ \E v \in View : TableCrashes(v)
  \/ \E v \in View : TableIgnored(v)
  \/ Relaunch

Spec == Init /\ [][Next]_vars

\* Alamofire answers every request, if only with a timeout, on the main queue.
Fairness ==
  \A v \in View : WF_vars(SpinnerAnswered(v)) /\ WF_vars(TableAnswered(v))

FairSpec == Spec /\ Fairness

-----------------------------------------------------------------------------
(***************************************************************************)
(* Properties.                                                             *)
(***************************************************************************)

Follows(k, before) ==
  \A i \in 1..Len(opened) :
    kind[opened[i]] = k =>
      /\ i > 1
      /\ kind[opened[i - 1]] = before
      /\ table[opened[i - 1]] = "rows"

\* However screens of offices pile up through late answers to sign-ins, the
\* rooms on the stack lie right above offices that have loaded, and workplaces
\* right above rooms that have (didSelectRowAt and the buttons of the cells).
PathIsLoaded == Follows("Rooms", "Office") /\ Follows("WorkPlace", "Rooms")

\* A screen of offices that was left is released in the end: the closure of its
\* spinner's subscription holds it no longer than the download takes
\* (bindTableView refers to self, but in no closure its own table keeps).
LeftOfficeIsReleased ==
  \A v \in View : kind[v] = "Office" /\ ~Opened(v) ~> kind[v] = "none"

\* No table waits for ever: each comes to show rows, or is known to have none,
\* unless its screen is gone (requestData and parseArray end on every outcome).
EveryTableConcludes ==
  \A v \in View :
    Alive(v) /\ table[v] = "nothing yet" ~> ~Alive(v) \/ table[v] # "nothing yet"

-----------------------------------------------------------------------------
(***************************************************************************)
(* The inductive invariant behind the safety properties.                   *)
(***************************************************************************)

\* The table of a screen changes but once, when its only request is answered.
AwaitedIsBlank ==
  \A v \in View : v \in tableCalls /\ Alive(v) => table[v] = "nothing yet"

\* That a list once loaded stays loaded beneath those opened from it rests on
\* its request being answered only once (requestData, requestOffice).
IInv ==
  /\ TypeOK
  /\ AwaitedIsBlank
  /\ PathIsLoaded

=============================================================================
