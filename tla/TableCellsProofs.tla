--------------------------- MODULE TableCellsProofs ---------------------------
(***************************************************************************)
(* Proofs about TableCells, for lists of any length and any number of      *)
(* cells.                                                                  *)
(***************************************************************************)
EXTENDS TableCells, SequenceTheorems, TLAPS

-----------------------------------------------------------------------------

\* A table that has not been bound yet has no rows.
LEMMA NoRows ==
  /\ << >> \in Lists
  /\ DOMAIN << >> = {}
  <1>1. << >> \in Seq(BOOLEAN) /\ Len(<< >>) = 0
    BY EmptySeq
  <1>2. << >> \in [1..0 -> BOOLEAN]
    BY <1>1, LenProperties
  <1>3. 0 \in 0..MaxRows
    BY MaxRowsAssumption
  <1> QED
    BY <1>2, <1>3 DEF Lists

\* The availability of a listed row is known.
LEMMA ListedRow ==
  ASSUME NEW list \in Lists, NEW r \in DOMAIN list
  PROVE  list[r] \in BOOLEAN
  BY DEF Lists

\* Until the list has been downloaded no cell shows a row.
LEMMA EmptyTable ==
  ASSUME TypeOK, available = << >>, NEW r \in Row
  PROVE  cellOf[r] = None
  BY NoRows DEF TypeOK

\* A cell that is handed out shows no other row.
LEMMA AppearFacts ==
  ASSUME TypeOK, NEW r \in Row, NEW c \in Cell, Appear(r, c)
  PROVE  /\ cellOf'[r] = c
         /\ label'[c] = r /\ callback'[c] /\ (hidden'[c] <=> ~available[r])
         /\ \A q \in Row : q # r /\ cellOf[q] # None =>
              /\ cellOf'[q] = cellOf[q]
              /\ label'[cellOf[q]] = label[cellOf[q]]
              /\ (hidden'[cellOf[q]] <=> hidden[cellOf[q]])
              /\ (callback'[cellOf[q]] <=> callback[cellOf[q]])
         /\ \A q \in Row : q # r => cellOf'[q] = cellOf[q]
  <1>1. /\ cellOf' = [cellOf EXCEPT ![r] = c]
        /\ label' = [label EXCEPT ![c] = r]
        /\ hidden' = [hidden EXCEPT ![c] = ~available[r]]
        /\ callback' = [callback EXCEPT ![c] = TRUE]
        /\ \A q \in Row : cellOf[q] # c
    BY DEF Appear, ButtonHidden, Unused
  <1>2. /\ cellOf'[r] = c
        /\ \A q \in Row : q # r => cellOf'[q] = cellOf[q]
        /\ label'[c] = r
        /\ \A d \in Cell : d # c => label'[d] = label[d]
    BY <1>1 DEF TypeOK
  <1>3. callback'[c] /\ \A d \in Cell : d # c => callback'[d] = callback[d]
    BY <1>1 DEF TypeOK
  <1>4. (hidden'[c] <=> ~available[r]) /\ \A d \in Cell : d # c => hidden'[d] = hidden[d]
    BY <1>1 DEF TypeOK
  <1>5. \A q \in Row : cellOf[q] # None => cellOf[q] \in Cell /\ cellOf[q] # c
    BY <1>1 DEF TypeOK
  <1> QED
    BY <1>2, <1>3, <1>4, <1>5

-----------------------------------------------------------------------------
(***************************************************************************)
(* The inductive invariant.                                                *)
(***************************************************************************)

\* Every step keeps the types; in particular only rows of the list are shown.
LEMMA TypeStep == TypeOK /\ [Next]_vars => TypeOK'
  <1> SUFFICES ASSUME TypeOK, [Next]_vars
               PROVE  TypeOK'
    OBVIOUS
  <1>1. ASSUME NEW list \in Lists, Bind(list)
        PROVE  TypeOK'
    <2>1. \A r \in Row : cellOf[r] = None
      BY <1>1, EmptyTable DEF Bind
    <2> QED
      BY <1>1, <2>1 DEF Bind, TypeOK
  <1>2. ASSUME NEW r \in Row, NEW c \in Cell, Appear(r, c)
        PROVE  TypeOK'
    <2>1. /\ cellOf' \in [Row -> Cell \union {None}]
          /\ label' \in [Cell -> Row \union {None}]
      BY <1>2 DEF Appear, TypeOK
    <2>2. ButtonHidden(c, r) \in BOOLEAN
      BY DEF ButtonHidden
    <2>3. hidden' \in [Cell -> BOOLEAN] /\ callback' \in [Cell -> BOOLEAN]
      BY <1>2, <2>2 DEF Appear, TypeOK
    <2>4. \A q \in Row : cellOf'[q] # None => q \in DOMAIN available
      BY <1>2, AppearFacts DEF Appear, TypeOK
    <2> QED
      BY <1>2, <2>1, <2>3, <2>4 DEF Appear, TypeOK
  <1>3. ASSUME NEW r \in Row, Disappear(r)
        PROVE  TypeOK'
    BY <1>3 DEF Disappear, TypeOK
  <1>4. ASSUME NEW r \in Row, PressButton(r)
        PROVE  TypeOK'
    BY <1>4 DEF PressButton, TypeOK
  <1>5. CASE Reopen
    BY <1>5, NoRows DEF Reopen, TypeOK
  <1>6. CASE UNCHANGED vars
    BY <1>6 DEF vars, TypeOK
  <1> QED
    BY <1>1, <1>2, <1>3, <1>4, <1>5, <1>6 DEF Next

\* A button is pressed only where a row is shown.
LEMMA ListedStep == TypeOK /\ SourceIsListed /\ [Next]_vars => SourceIsListed'
  <1> SUFFICES ASSUME TypeOK, SourceIsListed, [Next]_vars
               PROVE  SourceIsListed'
    OBVIOUS
  <1> USE DEF SourceIsListed
  <1>1. ASSUME NEW list \in Lists, Bind(list)
        PROVE  SourceIsListed'
    BY <1>1, NoRows DEF Bind
  <1>2. ASSUME NEW r \in Row, PressButton(r)
        PROVE  SourceIsListed'
    BY <1>2 DEF PressButton, TypeOK
  <1>3. ASSUME UNCHANGED <<available, source>>
        PROVE  SourceIsListed'
    BY <1>3
  <1>4. CASE Reopen
    BY <1>4 DEF Reopen
  <1> QED
    BY <1>1, <1>2, <1>3, <1>4 DEF Next, Appear, Disappear, vars

\* configure gives a cell all that its row needs, whatever the cell showed
\* before, and touches no cell on the screen.
LEMMA CellsStep == TypeOK /\ CellsShowTheirRows /\ [Next]_vars => CellsShowTheirRows'
  <1> SUFFICES ASSUME TypeOK, CellsShowTheirRows, [Next]_vars
               PROVE  CellsShowTheirRows'
    OBVIOUS
  <1>1. ASSUME NEW list \in Lists, Bind(list)
        PROVE  CellsShowTheirRows'
    <2>1. \A r \in Row : cellOf'[r] = None
      BY <1>1, EmptyTable DEF Bind
    <2> QED
      BY <2>1 DEF CellsShowTheirRows
  <1>2. ASSUME NEW r \in Row, NEW c \in Cell, Appear(r, c)
        PROVE  CellsShowTheirRows'
    <2>1. available' = available /\ r \in DOMAIN available
      BY <1>2 DEF Appear
    <2>2. hidden' \in [Cell -> BOOLEAN]
      BY <1>2, TypeStep DEF TypeOK
    <2> SUFFICES ASSUME NEW q \in Row, cellOf'[q] # None
                 PROVE  /\ label'[cellOf'[q]] = q
                        /\ hidden'[cellOf'[q]] = ~available[q]
                        /\ callback'[cellOf'[q]]
      BY <2>1 DEF CellsShowTheirRows
    <2>3. CASE q = r
      <3>1. /\ cellOf'[r] = c /\ label'[c] = r /\ callback'[c]
            /\ (hidden'[c] <=> ~available[r])
        BY <1>2, AppearFacts
      <3>2. hidden'[c] \in BOOLEAN
        BY <2>2
      <3>3. hidden'[c] = ~available[r]
        BY <3>1, <3>2
      <3> QED
        BY <2>3, <3>1, <3>3
    <2>4. CASE q # r
      <3>1. cellOf[q] # None /\ cellOf'[q] = cellOf[q]
        BY <1>2, <2>4, AppearFacts
      <3>2. /\ label[cellOf[q]] = q
            /\ hidden[cellOf[q]] = ~available[q]
            /\ callback[cellOf[q]]
        BY <3>1 DEF CellsShowTheirRows
      <3>3. /\ label'[cellOf[q]] = label[cellOf[q]]
            /\ (hidden'[cellOf[q]] <=> hidden[cellOf[q]])
            /\ (callback'[cellOf[q]] <=> callback[cellOf[q]])
        BY <1>2, <2>4, <3>1, AppearFacts
      <3>4. hidden'[cellOf[q]] \in BOOLEAN
        BY <2>2, <3>1 DEF TypeOK
      <3>5. hidden'[cellOf[q]] = ~available[q]
        BY <3>2, <3>3, <3>4
      <3> QED
        BY <3>1, <3>2, <3>3, <3>5
    <2> QED
      BY <2>3, <2>4
  <1>3. ASSUME NEW r \in Row, Disappear(r)
        PROVE  CellsShowTheirRows'
    BY <1>3 DEF Disappear, CellsShowTheirRows, TypeOK
  <1>4. ASSUME UNCHANGED <<available, cellOf, label, hidden, callback>>
        PROVE  CellsShowTheirRows'
    BY <1>4 DEF CellsShowTheirRows
  <1>5. CASE Reopen
    BY <1>5 DEF Reopen, CellsShowTheirRows
  <1> QED
    BY <1>1, <1>2, <1>3, <1>4, <1>5 DEF Next, PressButton, vars

\* The button of a row on the screen is hidden unless the row is available.
LEMMA OpensStep ==
  TypeOK /\ SourceIsListed /\ CellsShowTheirRows /\ OpensOnlyAvailable /\ [Next]_vars
    => OpensOnlyAvailable'
  <1> SUFFICES ASSUME TypeOK, SourceIsListed, CellsShowTheirRows, OpensOnlyAvailable,
                      [Next]_vars
               PROVE  OpensOnlyAvailable'
    OBVIOUS
  <1>1. ASSUME NEW list \in Lists, Bind(list)
        PROVE  OpensOnlyAvailable'
    BY <1>1, NoRows DEF Bind, SourceIsListed, OpensOnlyAvailable
  <1>2. ASSUME NEW r \in Row, PressButton(r)
        PROVE  OpensOnlyAvailable'
    <2>1. cellOf[r] # None /\ ~hidden[cellOf[r]] /\ source' = r /\ available' = available
      BY <1>2 DEF PressButton
    <2>2. hidden[cellOf[r]] = ~available[r]
      BY <2>1 DEF CellsShowTheirRows
    <2>3. available[r]
      BY <2>1, <2>2
    <2> QED
      BY <2>1, <2>3 DEF OpensOnlyAvailable
  <1>3. ASSUME UNCHANGED <<available, source>>
        PROVE  OpensOnlyAvailable'
    BY <1>3 DEF OpensOnlyAvailable
  <1>4. CASE Reopen
    BY <1>4 DEF Reopen, OpensOnlyAvailable
  <1> QED
    BY <1>1, <1>2, <1>3, <1>4 DEF Next, Appear, Disappear, vars

-----------------------------------------------------------------------------
(***************************************************************************)
(* The theorems.                                                           *)
(***************************************************************************)

\* The inductive invariant holds in every reachable state.
THEOREM InvariantHolds == Spec => []IInv
  <1>1. Init => IInv
    BY NoRows
       DEF Init, IInv, TypeOK, SourceIsListed, CellsShowTheirRows, OpensOnlyAvailable
  <1>2. IInv /\ [Next]_vars => IInv'
    BY TypeStep, ListedStep, CellsStep, OpensStep DEF IInv
  <1> QED
    BY <1>1, <1>2, PTL DEF Spec

\* Every variable keeps its type; in particular only rows of the list are shown.
THEOREM TypeCorrect == Spec => []TypeOK
  <1>1. IInv => TypeOK
    BY DEF IInv
  <1> QED
    BY <1>1, InvariantHolds, PTL

\* However the user scrolls, a cell on the screen shows its own row and has the
\* button that belongs to it.
THEOREM CellsAreFresh == Spec => []CellsShowTheirRows
  <1>1. IInv => CellsShowTheirRows
    BY DEF IInv
  <1> QED
    BY <1>1, InvariantHolds, PTL

\* No screen is ever opened from a row that is not available.
THEOREM UnavailableStaysShut == Spec => []OpensOnlyAvailable
  <1>1. IInv => OpensOnlyAvailable
    BY DEF IInv
  <1> QED
    BY <1>1, InvariantHolds, PTL

=============================================================================
