------------------------------ MODULE TableCells ------------------------------
(***************************************************************************)
(* The table of a screen of rooms or of workplaces.  UIKit keeps the cells *)
(* of rows that have scrolled off the screen and hands them out again for  *)
(* rows that scroll onto it, as they were left; configure is called on     *)
(* each cell that is handed out, and nothing else ever resets it.          *)
(*                                                                         *)
(* The button of a cell opens the next screen.  It is there only for a row *)
(* that is available: the handler itself does not look at the row.         *)
(***************************************************************************)
EXTENDS Naturals

CONSTANTS
  Cell,     \* bound: the cells that UIKit makes
  MaxRows,  \* bound: the length of the downloaded list
  None

ASSUME MaxRowsAssumption == MaxRows \in Nat
ASSUME NoneAssumption == None \notin 1..MaxRows

VARIABLES
  available,  \* available[r]: whether row r of the list is; empty at first
  cellOf,     \* cellOf[r]: the cell that shows row r, None if it is off screen
  label,      \* label[c]: the row whose text cell c shows
  hidden,     \* hidden[c]: whether its button is hidden
  callback,   \* callback[c]: whether configure has given it a callback
  source      \* history: the row whose button opened a screen last

vars == <<available, cellOf, label, hidden, callback, source>>

-----------------------------------------------------------------------------

Row == 1..MaxRows

Lists == UNION {[1..n -> BOOLEAN] : n \in 0..MaxRows}

TypeOK ==
  /\ available \in Lists
  /\ cellOf \in [Row -> Cell \union {None}]
  /\ label \in [Cell -> Row \union {None}]
  /\ hidden \in [Cell -> BOOLEAN]
  /\ callback \in [Cell -> BOOLEAN]
  /\ source \in Row \union {None}
  /\ \A r \in Row : cellOf[r] # None => r \in DOMAIN available

\* A new screen, whose table has no rows yet, and no cells: when one is made its
\* button is visible and does nothing.
Init ==
  /\ available = << >>
  /\ cellOf = [r \in Row |-> None]
  /\ label = [c \in Cell |-> None]
  /\ hidden = [c \in Cell |-> FALSE]
  /\ callback = [c \in Cell |-> FALSE]
  /\ source = None

\* Mutated: a list that is bound again replaces the data, not the cells.
Rebind(list) ==
  /\ available' = list
  /\ UNCHANGED <<cellOf, label, hidden, callback, source>>

\* The list has been downloaded: the data source holds it, the table reloads.
Bind(list) ==
  /\ available = << >>
  /\ available' = list
  /\ UNCHANGED <<cellOf, label, hidden, callback, source>>

\* Mutated: configure hides the button of a row that is not available, and
\* never shows it again.
HidesForGood(c, r) == hidden[c] \/ ~available[r]

\* Mutated: ... shows that of an available row, and never hides it again.
ShowsForGood(c, r) == hidden[c] /\ ~available[r]

\* What configure makes of the button of cell c for row r.
ButtonHidden(c, r) == ~available[r]

\* UIKit never hands out a cell that is on the screen.
Unused(c) == \A r \in Row : cellOf[r] # c

\* Row r scrolls onto the screen: cell c, new or left over, is configured.
Appear(r, c) ==
  /\ r \in DOMAIN available
  /\ cellOf[r] = None
  /\ Unused(c)
  /\ cellOf' = [cellOf EXCEPT ![r] = c]
  /\ label' = [label EXCEPT ![c] = r]
  /\ hidden' = [hidden EXCEPT ![c] = ButtonHidden(c, r)]
  /\ callback' = [callback EXCEPT ![c] = TRUE]
  /\ UNCHANGED <<available, source>>

Disappear(r) ==
  /\ cellOf[r] # None
  /\ cellOf' = [cellOf EXCEPT ![r] = None]
  /\ UNCHANGED <<available, label, hidden, callback, source>>

\* buttonPressed of the cell of row r, whose callback pushes the next screen.
PressButton(r) ==
  /\ cellOf[r] # None
  /\ ~hidden[cellOf[r]]
  /\ callback[cellOf[r]]
  /\ source' = r
  /\ UNCHANGED <<available, cellOf, label, hidden, callback>>

\* The screen is left, and another one opened.
Reopen ==
  /\ available' = << >>
  /\ cellOf' = [r \in Row |-> None]
  /\ label' = [c \in Cell |-> None]
  /\ hidden' = [c \in Cell |-> FALSE]
  /\ callback' = [c \in Cell |-> FALSE]
  /\ source' = None

Next ==
  \/ \E list \in Lists : Bind(list)
  \/ \E r \in Row, c \in Cell : Appear(r, c)
  \/ \E r \in Row : Disappear(r)
  \/ \E r \in Row : PressButton(r)
  \/ Reopen

Spec == Init /\ [][Next]_vars

-----------------------------------------------------------------------------
(***************************************************************************)
(* Properties.                                                             *)
(***************************************************************************)

\* Whatever rows a cell has shown before, on the screen it shows the text of
\* its own row, and its button exactly if that row is available (configure
\* sets each attribute on every call; no prepareForReuse resets any).
CellsShowTheirRows ==
  \A r \in Row :
    cellOf[r] # None =>
      /\ label[cellOf[r]] = r
      /\ hidden[cellOf[r]] = ~available[r]
      /\ callback[cellOf[r]]

\* A screen is never opened from a row that is not available, though neither
\* the callback nor the router looks at the row (bindViewModel of rooms and
\* of workplaces, buttonPressed).
OpensOnlyAvailable == source # None => available[source]

-----------------------------------------------------------------------------
(***************************************************************************)
(* The inductive invariant behind the safety properties.                   *)
(***************************************************************************)

\* A button was pressed only in a list that is there.
SourceIsListed == source # None => source \in DOMAIN available

\* That a pressed button belonged to an available row rests on what its cell
\* showed at that moment (configure, buttonPressed).
IInv ==
  /\ TypeOK
  /\ SourceIsListed
  /\ CellsShowTheirRows
  /\ OpensOnlyAvailable

=============================================================================
