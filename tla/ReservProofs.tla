---------------------------- MODULE ReservProofs ----------------------------
(***************************************************************************)
(* Proofs about Reserv: that the dates lie above a loaded path, for every  *)
(* set of texts, accounts, concurrent calls and list screens.              *)
(***************************************************************************)
EXTENDS Reserv, SignInProofs

LP == INSTANCE ListScreensProofs

-----------------------------------------------------------------------------
(***************************************************************************)
(* A step of the app is a step of its parts, so that what is proved of     *)
(* each part alone can be used.                                            *)
(***************************************************************************)

\* A step of the app is a step of sign-in, or leaves it alone.
LEMMA SignInSimulation == [ReservNext]_allVars => [Next]_vars
  <1> SUFFICES ASSUME [ReservNext]_allVars
               PROVE  [Next]_vars
    OBVIOUS
  <1>1. CASE SignInStep
    BY <1>1 DEF SignInStep, Answer, Next
  <1>2. ASSUME NEW r \in Request, NEW v \in View, OpenOffice(r, v)
        PROVE  Next
    BY <1>2 DEF OpenOffice, Next
  <1>3. ASSUME NEW v \in View, OpenRooms(v) \/ OpenWorkPlace(v)
        PROVE  Next
    BY <1>3 DEF OpenRooms, OpenWorkPlace, Next, Navigate, NavNext
  <1>4. CASE OpenDates \/ ModalStep \/ LeaveTop
    BY <1>4 DEF OpenDates, ModalStep, LeaveTop, Next, Navigate, NavNext
  <1>5. ASSUME NEW v \in View, ListAnswered(v)
        PROVE  UNCHANGED vars
    BY <1>5 DEF ListAnswered
  <1>6. ASSUME NEW v \in View, ListCrashes(v)
        PROVE  Next
    BY <1>6 DEF ListCrashes, Next
  <1>7. CASE RelaunchApp
    BY <1>7 DEF RelaunchApp, Next
  <1>8. CASE UNCHANGED allVars
    BY <1>8 DEF allVars
  <1> QED
    BY <1>1, <1>2, <1>3, <1>4, <1>5, <1>6, <1>7, <1>8 DEF ReservNext

\* A step of the app is a step of the list screens, or leaves them alone.
LEMMA ListsSimulation == [ReservNext]_allVars => [Lists!Next]_(Lists!vars)
  <1> SUFFICES ASSUME [ReservNext]_allVars
               PROVE  [Lists!Next]_(Lists!vars)
    OBVIOUS
  <1>1. CASE SignInStep \/ OpenDates \/ ModalStep
    BY <1>1 DEF SignInStep, OpenDates, ModalStep, listVars, Lists!vars
  <1>2. ASSUME NEW r \in Request, NEW v \in View, OpenOffice(r, v)
        PROVE  Lists!Next
    BY <1>2 DEF OpenOffice, Lists!Next
  <1>3. ASSUME NEW v \in View, OpenRooms(v) \/ OpenWorkPlace(v)
        PROVE  Lists!Next
    BY <1>3 DEF OpenRooms, OpenWorkPlace, Lists!Next
  <1>4. CASE LeaveTop
    BY <1>4 DEF LeaveTop, Lists!Next, listVars, Lists!vars
  <1>5. ASSUME NEW v \in View, ListAnswered(v) \/ ListCrashes(v)
        PROVE  Lists!Next
    BY <1>5 DEF ListAnswered, ListCrashes, Lists!Next
  <1>6. CASE RelaunchApp
    BY <1>6 DEF RelaunchApp, Lists!Next
  <1>7. CASE UNCHANGED allVars
    BY <1>7 DEF allVars, listVars, Lists!vars
  <1> QED
    BY <1>1, <1>2, <1>3, <1>4, <1>5, <1>6, <1>7 DEF ReservNext

-----------------------------------------------------------------------------
(***************************************************************************)
(* What is proved of the list screens alone.  Lists and LP are the same    *)
(* module twice, which the provers see once its definitions are expanded.  *)
(***************************************************************************)

\* Their inductive invariant.
LEMMA ListsStep == Lists!IInv /\ [Lists!Next]_(Lists!vars) => Lists!IInv'
  BY LP!InvariantStep
     DEF Lists!IInv, Lists!TypeOK, Lists!AwaitedIsBlank, Lists!PathIsLoaded, Lists!Follows,
         Lists!Kind, Lists!Shows, Lists!Opened, Lists!Alive, Lists!Settled, Lists!RowsOf,
         Lists!Load, Lists!OpenOffice, Lists!OpenRooms, Lists!OpenWorkPlace, Lists!Back,
         Lists!Held, Lists!ReleaseUnheld, Lists!Relaunch, Lists!SpinnerAnswered,
         Lists!TableFills, Lists!TableStaysEmpty, Lists!TableCrashes, Lists!TableIgnored,
         Lists!Next, Lists!vars,
         LP!IInv, LP!TypeOK, LP!AwaitedIsBlank, LP!PathIsLoaded, LP!Follows,
         LP!Kind, LP!Shows, LP!Opened, LP!Alive, LP!Settled, LP!RowsOf,
         LP!Load, LP!OpenOffice, LP!OpenRooms, LP!OpenWorkPlace, LP!Back,
         LP!Held, LP!ReleaseUnheld, LP!Relaunch, LP!SpinnerAnswered,
         LP!TableFills, LP!TableStaysEmpty, LP!TableCrashes, LP!TableIgnored,
         LP!Next, LP!vars

\* A list screen that is opened is a new one.
LEMMA ListsLoad ==
  ASSUME Lists!TypeOK, NEW v \in View, NEW k \in Lists!Kind, Lists!Load(v, k)
  PROVE  /\ Len(opened') = Len(opened) + 1
         /\ opened'[Len(opened) + 1] = v
         /\ kind'[v] = k
         /\ \A i \in 1..Len(opened) :
              /\ opened'[i] = opened[i]
              /\ kind'[opened[i]] = kind[opened[i]]
              /\ table'[opened[i]] = table[opened[i]]
  BY LP!LoadFacts
     DEF Lists!TypeOK, Lists!Kind, Lists!Shows, Lists!Opened, Lists!Alive, Lists!Settled,
         Lists!Load, LP!TypeOK, LP!Kind, LP!Shows, LP!Opened, LP!Alive, LP!Settled, LP!Load

\* Going back keeps the rest of the lists as they are.
LEMMA ListsBack ==
  ASSUME Lists!TypeOK, Lists!Back
  PROVE  /\ Len(opened') = Len(opened) - 1
         /\ table' = table
         /\ \A i \in 1..Len(opened') :
              opened'[i] = opened[i] /\ kind'[opened[i]] = kind[opened[i]]
  <1>1. table' = table
    BY DEF Lists!Back
  <1> QED
    BY <1>1, LP!BackFacts
       DEF Lists!TypeOK, Lists!Kind, Lists!Shows, Lists!Opened, Lists!Alive, Lists!Back,
           Lists!Held, Lists!ReleaseUnheld, LP!TypeOK, LP!Kind, LP!Shows, LP!Opened,
           LP!Alive, LP!Back, LP!Held, LP!ReleaseUnheld

\* No answer touches what lies on the stack, nor the rows there.
LEMMA ListsAnswer ==
  ASSUME Lists!TypeOK, Lists!AwaitedIsBlank, NEW v \in View, ListAnswered(v)
  PROVE  /\ opened' = opened
         /\ \A i \in 1..Len(opened) :
              /\ kind'[opened[i]] = kind[opened[i]]
              /\ table[opened[i]] = "rows" => table'[opened[i]] = "rows"
  BY LP!AnswerFacts
     DEF ListAnswered, Lists!TypeOK, Lists!AwaitedIsBlank, Lists!Kind, Lists!Shows,
         Lists!Opened, Lists!Alive, Lists!Held, Lists!ReleaseUnheld, Lists!SpinnerAnswered,
         Lists!TableFills, Lists!TableStaysEmpty, Lists!TableIgnored,
         LP!TypeOK, LP!AwaitedIsBlank, LP!Kind, LP!Shows,
         LP!Opened, LP!Alive, LP!Held, LP!ReleaseUnheld, LP!SpinnerAnswered,
         LP!TableFills, LP!TableStaysEmpty, LP!TableIgnored

-----------------------------------------------------------------------------
(***************************************************************************)
(* The stack and the lists on it.                                          *)
(***************************************************************************)

LEMMA DomainFacts ==
  ASSUME NEW S, NEW s \in Seq(S)
  PROVE  DOMAIN s = 1..Len(s) /\ Len(s) \in Nat
  OBVIOUS

LEMMA SameDomain == \A m, n \in Nat : 1..m = 1..n => m = n
  <1> SUFFICES ASSUME NEW m \in Nat, NEW n \in Nat, 1..m = 1..n
               PROVE  m = n
    OBVIOUS
  <1>1. m > 0 => m \in 1..n
    OBVIOUS
  <1>2. n > 0 => n \in 1..m
    OBVIOUS
  <1> QED
    BY <1>1, <1>2

\* The invariant in numbers: at and opened are as long as each other, and at
\* lists the places of the lists on the stack, from the root on.
LEMMA ShapeFacts ==
  ASSUME ReservIInv
  PROVE  /\ stack \in Seq(Screen) /\ Len(stack) \in Nat \ {0} /\ DOMAIN stack = 1..Len(stack)
         /\ opened \in Seq(View) /\ Len(at) \in Nat /\ DOMAIN at = 1..Len(at)
         /\ Len(opened) = Len(at)
         /\ \A i \in 1..Len(at) :
              /\ at[i] \in 1..Len(stack) /\ stack[at[i]] = kind[opened[i]]
              /\ opened[i] \in View /\ IsList(stack[at[i]])
         /\ \A i, j \in 1..Len(at) : i < j => at[i] < at[j]
         /\ \A k \in 1..Len(stack) : IsList(stack[k]) => \E i \in 1..Len(at) : at[i] = k
  <1>1. stack \in Seq(Screen) /\ stack # << >> /\ opened \in Seq(View) /\ at \in Seq(Nat)
    BY DEF ReservIInv, IInv, TypeOK, NavTypeOK, Lists!IInv, Lists!TypeOK
  <1>2. /\ DOMAIN stack = 1..Len(stack) /\ Len(stack) \in Nat \ {0}
        /\ DOMAIN opened = 1..Len(opened) /\ Len(opened) \in Nat
        /\ DOMAIN at = 1..Len(at) /\ Len(at) \in Nat
    BY <1>1, DomainFacts
  <1>3. Len(opened) = Len(at)
    BY <1>2, SameDomain DEF ReservIInv, StackAgrees
  <1>4. \A i \in 1..Len(at) : opened[i] \in View /\ kind[opened[i]] \in Lists!Kind
    <2> SUFFICES ASSUME NEW i \in 1..Len(at)
                 PROVE  opened[i] \in View /\ kind[opened[i]] \in Lists!Kind
      OBVIOUS
    <2>1. opened[i] \in View /\ Lists!Opened(opened[i])
      BY <1>1, <1>3 DEF Lists!Opened
    <2> QED
      BY <2>1 DEF ReservIInv, Lists!IInv, Lists!TypeOK, Lists!Alive
  <1> QED
    BY <1>1, <1>2, <1>3, <1>4 DEF ReservIInv, StackAgrees, IsList

\* The list screen on top of the stack is the last one that was opened.
LEMMA TopFacts ==
  ASSUME ReservIInv
  PROVE  /\ IsList(Top) => Len(at) > 0 /\ at[Len(at)] = Len(stack)
         /\ \A i \in 1..Len(at) : i < Len(at) => at[i] < Len(stack)
         /\ ~IsList(Top) => \A i \in 1..Len(at) : at[i] < Len(stack)
  <1>1. \A i \in 1..Len(at) : at[i] = Len(stack) => i = Len(at)
    <2> SUFFICES ASSUME NEW i \in 1..Len(at), at[i] = Len(stack), i # Len(at)
                 PROVE  FALSE
      OBVIOUS
    <2>1. Len(at) \in Nat /\ Len(stack) \in Nat
      BY ShapeFacts
    <2>2. i < Len(at) /\ Len(at) \in 1..Len(at)
      BY <2>1
    <2>3. at[i] < at[Len(at)] /\ at[Len(at)] \in 1..Len(stack)
      BY <2>2, ShapeFacts
    <2> QED
      BY <2>1, <2>3
  <1>2. Len(stack) \in 1..Len(stack)
    BY ShapeFacts
  <1>3. IsList(Top) => \E i \in 1..Len(at) : at[i] = Len(stack)
    BY <1>2, ShapeFacts DEF Top
  <1>4. \A i \in 1..Len(at) : at[i] \in 1..Len(stack) /\ IsList(stack[at[i]])
    BY ShapeFacts
  <1>5. Len(stack) \in Nat /\ Len(at) \in Nat
    BY ShapeFacts
  <1>6. IsList(Top) => Len(at) > 0 /\ at[Len(at)] = Len(stack)
    BY <1>1, <1>3, <1>5
  <1>7. \A i \in 1..Len(at) : i < Len(at) => at[i] < Len(stack)
    BY <1>1, <1>4, <1>5
  <1>8. ~IsList(Top) => \A i \in 1..Len(at) : at[i] < Len(stack)
    BY <1>4, <1>5 DEF Top
  <1> QED
    BY <1>6, <1>7, <1>8

\* A loaded list stays loaded if nothing happens to its place and its rows.
LEMMA LoadedStays ==
  ASSUME NEW k, NEW screen, Loaded(k, screen),
         k \in DOMAIN stack', stack'[k] = stack[k],
         \A i \in DOMAIN at :
           at[i] = k =>
             /\ i \in DOMAIN at' /\ at'[i] = at[i]
             /\ table[opened[i]] = "rows" => table'[opened'[i]] = "rows"
  PROVE  Loaded(k, screen)'
  BY DEF Loaded

-----------------------------------------------------------------------------
(***************************************************************************)
(* What a push, a pop and an answer do to both.                            *)
(***************************************************************************)

LEMMA AppendFacts ==
  ASSUME NEW S, NEW s \in Seq(S), NEW e \in S
  PROVE  /\ Append(s, e) \in Seq(S)
         /\ Len(Append(s, e)) = Len(s) + 1
         /\ Append(s, e)[Len(s) + 1] = e
         /\ \A i \in 1..Len(s) : Append(s, e)[i] = s[i]
  OBVIOUS

LEMMA CutFacts ==
  ASSUME NEW s \in Seq(Nat), Len(s) > 0
  PROVE  LET t == SubSeq(s, 1, Len(s) - 1) IN
         /\ t \in Seq(Nat)
         /\ Len(t) = Len(s) - 1
         /\ \A i \in 1..Len(t) : t[i] = s[i]
  <1>0. Len(s) \in Nat
    OBVIOUS
  <1>1. CASE Len(s) > 1
    BY <1>1
  <1>2. CASE Len(s) = 1
    <2>1. SubSeq(s, 1, 0) = << >>
      BY LP!SubSeqEmpty
    <2>2. Len(s) - 1 = 0 /\ << >> \in Seq(Nat) /\ Len(<< >>) = 0
      BY <1>2, LP!EmptySeq
    <2>3. 1..0 = {}
      OBVIOUS
    <2> QED
      BY <1>2, <2>1, <2>2, <2>3
  <1>3. \A n \in Nat : n > 0 => n > 1 \/ n = 1
    OBVIOUS
  <1> QED
    BY <1>0, <1>1, <1>2, <1>3, Zenon

\* The definition of StackAgrees in numbers, after the step.
LEMMA AgreesNext ==
  ASSUME IInv', Lists!IInv', at' \in Seq(Nat), Len(opened') = Len(at'),
         \A i \in 1..Len(at') :
           at'[i] \in 1..Len(stack') /\ stack'[at'[i]] = kind'[opened'[i]],
         \A i, j \in 1..Len(at') : i < j => at'[i] < at'[j],
         \A k \in 1..Len(stack') :
           IsList(stack'[k]) => \E i \in 1..Len(at') : at'[i] = k
  PROVE  StackAgrees'
  <1>1. stack' \in Seq(Screen) /\ opened' \in Seq(View)
    BY DEF IInv, TypeOK, NavTypeOK, Lists!IInv, Lists!TypeOK
  <1>2. /\ DOMAIN stack' = 1..Len(stack')
        /\ DOMAIN opened' = 1..Len(opened')
        /\ DOMAIN at' = 1..Len(at')
    BY <1>1, DomainFacts
  <1> QED
    BY <1>2 DEF StackAgrees, IsList, Lists!Kind

\* A screen whose list is on top and has rows is loaded.
LEMMA TopLoaded ==
  ASSUME ReservIInv, NEW k \in Lists!Kind, Frontmost(k), Lists!RowsOf(k)
  PROVE  Loaded(Len(stack), k)
  <1>1. Top = k /\ IsList(Top) /\ table[opened[Len(opened)]] = "rows"
    BY DEF Frontmost, IsList, Lists!RowsOf
  <1>2. Len(at) > 0 /\ at[Len(at)] = Len(stack)
    BY <1>1, TopFacts
  <1>3. /\ Len(at) \in Nat /\ DOMAIN at = 1..Len(at) /\ Len(opened) = Len(at)
        /\ Len(stack) \in Nat \ {0} /\ DOMAIN stack = 1..Len(stack)
    BY ShapeFacts
  <1>4. Len(at) \in DOMAIN at /\ Len(stack) \in DOMAIN stack
    BY <1>2, <1>3
  <1> QED
    BY <1>1, <1>2, <1>3, <1>4 DEF Loaded, Top

\* A list screen is pushed in both (the routers and handlers that open one).
LEMMA PushListStep ==
  ASSUME ReservIInv, IInv', Lists!IInv',
         NEW v \in View, NEW k \in Lists!Kind,
         Lists!Load(v, k), Push(k), PushedList
  PROVE  /\ at' \in Seq(Nat) /\ StackAgrees'
         /\ \A p, before : Loaded(p, before) => Loaded(p, before)'
  <1>1. /\ stack \in Seq(Screen) /\ Len(stack) \in Nat /\ DOMAIN stack = 1..Len(stack)
        /\ at \in Seq(Nat) /\ Len(at) \in Nat /\ DOMAIN at = 1..Len(at)
        /\ Len(opened) = Len(at)
    BY ShapeFacts DEF ReservIInv
  <1>2. k \in Screen
    BY DEF Lists!Kind, Screen
  <1>3. /\ Len(stack') = Len(stack) + 1
        /\ stack'[Len(stack) + 1] = k
        /\ \A p \in 1..Len(stack) : stack'[p] = stack[p]
    BY <1>1, <1>2, AppendFacts DEF Push
  <1>4. /\ at' \in Seq(Nat)
        /\ Len(at') = Len(at) + 1
        /\ at'[Len(at) + 1] = Len(stack) + 1
        /\ \A i \in 1..Len(at) : at'[i] = at[i]
    <2>1. at' = Append(at, Len(stack) + 1) /\ Len(stack) + 1 \in Nat
      BY <1>1, <1>3 DEF PushedList
    <2> QED
      BY <1>1, <2>1, AppendFacts
  <1>5. /\ Len(opened') = Len(at')
        /\ kind'[opened'[Len(at) + 1]] = k
        /\ \A i \in 1..Len(at) :
             /\ kind'[opened'[i]] = kind[opened[i]]
             /\ table'[opened'[i]] = table[opened[i]]
    BY <1>1, <1>4, ListsLoad DEF ReservIInv, Lists!IInv
  <1>6. \A i \in 1..Len(at') : i \in 1..Len(at) \/ i = Len(at) + 1
    BY <1>1, <1>4
  <1>7. \A p \in 1..Len(stack') : p \in 1..Len(stack) \/ p = Len(stack) + 1
    BY <1>1, <1>3
  <1>8. /\ \A i \in 1..Len(at) :
             at[i] \in 1..Len(stack) /\ stack[at[i]] = kind[opened[i]]
        /\ \A i, j \in 1..Len(at) : i < j => at[i] < at[j]
        /\ \A p \in 1..Len(stack) : IsList(stack[p]) => \E i \in 1..Len(at) : at[i] = p
    BY ShapeFacts
  <1>9. \A i \in 1..Len(at') :
          at'[i] \in 1..Len(stack') /\ stack'[at'[i]] = kind'[opened'[i]]
    <2> SUFFICES ASSUME NEW i \in 1..Len(at')
                 PROVE  at'[i] \in 1..Len(stack') /\ stack'[at'[i]] = kind'[opened'[i]]
      OBVIOUS
    <2>1. CASE i \in 1..Len(at)
      BY <1>1, <1>3, <1>4, <1>5, <1>8, <2>1
    <2>2. CASE i = Len(at) + 1
      BY <1>1, <1>3, <1>4, <1>5, <2>2
    <2> QED
      BY <1>6, <2>1, <2>2
  <1>10. \A i, j \in 1..Len(at') : i < j => at'[i] < at'[j]
    <2> SUFFICES ASSUME NEW i \in 1..Len(at'), NEW j \in 1..Len(at'), i < j
                 PROVE  at'[i] < at'[j]
      OBVIOUS
    <2>1. i \in 1..Len(at) /\ at'[i] = at[i] /\ at[i] \in 1..Len(stack)
      BY <1>1, <1>4, <1>6, <1>8
    <2>2. CASE j \in 1..Len(at)
      BY <1>4, <1>8, <2>1, <2>2
    <2>3. CASE j = Len(at) + 1
      BY <1>1, <1>4, <2>1, <2>3
    <2> QED
      BY <1>6, <2>2, <2>3
  <1>11. \A p \in 1..Len(stack') : IsList(stack'[p]) => \E i \in 1..Len(at') : at'[i] = p
    <2> SUFFICES ASSUME NEW p \in 1..Len(stack'), IsList(stack'[p])
                 PROVE  \E i \in 1..Len(at') : at'[i] = p
      OBVIOUS
    <2>1. Len(at) + 1 \in 1..Len(at') /\ 1..Len(at) \subseteq 1..Len(at')
      BY <1>1, <1>4
    <2>2. CASE p \in 1..Len(stack)
      <3>1. IsList(stack[p])
        BY <1>3, <2>2
      <3>2. PICK i \in 1..Len(at) : at[i] = p
        BY <1>8, <2>2, <3>1
      <3> QED
        BY <1>4, <2>1, <3>2
    <2>3. CASE p = Len(stack) + 1
      BY <1>4, <2>1, <2>3
    <2> QED
      BY <1>7, <2>2, <2>3
  <1>12. StackAgrees'
    BY <1>4, <1>5, <1>9, <1>10, <1>11, AgreesNext
  <1>13. ASSUME NEW p, NEW before, Loaded(p, before)
         PROVE  Loaded(p, before)'
    <2>1. p \in 1..Len(stack) /\ 1..Len(stack) \subseteq 1..Len(stack')
      BY <1>1, <1>3, <1>13 DEF Loaded
    <2>2. DOMAIN stack' = 1..Len(stack') /\ DOMAIN at' = 1..Len(at')
      BY <1>4, DomainFacts DEF IInv, TypeOK, NavTypeOK
    <2>3. 1..Len(at) \subseteq 1..Len(at')
      BY <1>1, <1>4
    <2> QED
      BY <1>1, <1>3, <1>4, <1>5, <1>13, <2>1, <2>2, <2>3, LoadedStays
  <1> QED
    BY <1>4, <1>12, <1>13

\* Nothing happens to the lists, and only a screen that is no list comes or goes.
LEMMA OthersStep ==
  ASSUME ReservIInv, IInv', Lists!IInv', at' = at, opened' = opened,
         \A i \in 1..Len(opened) :
           /\ kind'[opened[i]] = kind[opened[i]]
           /\ table[opened[i]] = "rows" => table'[opened[i]] = "rows",
         \A i \in 1..Len(at) : at[i] \in 1..Len(stack'),
         \A p \in 1..Len(stack') :
           \/ p \in 1..Len(stack) /\ stack'[p] = stack[p]
           \/ p = Len(stack) + 1 /\ ~IsList(stack'[p])
  PROVE  /\ at' \in Seq(Nat) /\ StackAgrees'
         /\ \A p \in 1..Len(stack') : \A before : Loaded(p, before) => Loaded(p, before)'
  <1>1. /\ Len(stack) \in Nat /\ DOMAIN stack = 1..Len(stack)
        /\ at \in Seq(Nat) /\ Len(at) \in Nat /\ DOMAIN at = 1..Len(at)
        /\ Len(opened) = Len(at)
    BY ShapeFacts DEF ReservIInv
  <1>2. /\ \A i \in 1..Len(at) :
             at[i] \in 1..Len(stack) /\ stack[at[i]] = kind[opened[i]]
        /\ \A i, j \in 1..Len(at) : i < j => at[i] < at[j]
        /\ \A p \in 1..Len(stack) : IsList(stack[p]) => \E i \in 1..Len(at) : at[i] = p
    BY ShapeFacts
  <1>3. \A p \in 1..Len(stack) : p \in 1..Len(stack') => stack'[p] = stack[p]
    BY <1>1
  <1>4. \A i \in 1..Len(at') :
          at'[i] \in 1..Len(stack') /\ stack'[at'[i]] = kind'[opened'[i]]
    BY <1>1, <1>2, <1>3
  <1>5. \A p \in 1..Len(stack') : IsList(stack'[p]) => \E i \in 1..Len(at') : at'[i] = p
    BY <1>2
  <1>6. StackAgrees'
    BY <1>1, <1>2, <1>4, <1>5, AgreesNext
  <1>7. DOMAIN stack' = 1..Len(stack')
    BY DomainFacts DEF IInv, TypeOK, NavTypeOK
  <1>8. ASSUME NEW p \in 1..Len(stack'), NEW before, Loaded(p, before)
        PROVE  Loaded(p, before)'
    <2>1. p \in 1..Len(stack)
      BY <1>1, <1>8 DEF Loaded
    <2> QED
      BY <1>1, <1>3, <1>7, <1>8, <2>1, LoadedStays
  <1> QED
    BY <1>1, <1>6, <1>8

\* A list screen is left in both (the back button).
LEMMA PopListStep ==
  ASSUME ReservIInv, IInv', Lists!IInv', IsList(Top), Len(stack) > 1,
         stack' = SubSeq(stack, 1, Len(stack) - 1),
         Lists!Back, at' = SubSeq(at, 1, Len(at) - 1)
  PROVE  /\ at' \in Seq(Nat) /\ StackAgrees'
         /\ \A p \in 1..Len(stack') : \A before : Loaded(p, before) => Loaded(p, before)'
  <1>1. /\ stack \in Seq(Screen) /\ Len(stack) \in Nat /\ DOMAIN stack = 1..Len(stack)
        /\ at \in Seq(Nat) /\ Len(at) \in Nat /\ DOMAIN at = 1..Len(at)
        /\ Len(opened) = Len(at)
    BY ShapeFacts DEF ReservIInv
  <1>2. /\ Len(at) > 0 /\ at[Len(at)] = Len(stack)
        /\ \A i \in 1..Len(at) : i < Len(at) => at[i] < Len(stack)
    BY TopFacts
  <1>3. /\ Len(stack') = Len(stack) - 1
        /\ \A p \in 1..Len(stack') : stack'[p] = stack[p]
    BY <1>1, PopFacts
  <1>4. /\ at' \in Seq(Nat)
        /\ Len(at') = Len(at) - 1
        /\ \A i \in 1..Len(at') : at'[i] = at[i]
    BY <1>1, <1>2, CutFacts
  <1>5. /\ Len(opened') = Len(at')
        /\ table' = table
        /\ \A i \in 1..Len(at') :
             opened'[i] = opened[i] /\ kind'[opened[i]] = kind[opened[i]]
    BY <1>1, <1>4, ListsBack DEF ReservIInv, Lists!IInv
  <1>6. /\ \A i \in 1..Len(at) :
             at[i] \in 1..Len(stack) /\ stack[at[i]] = kind[opened[i]]
        /\ \A i, j \in 1..Len(at) : i < j => at[i] < at[j]
        /\ \A p \in 1..Len(stack) : IsList(stack[p]) => \E i \in 1..Len(at) : at[i] = p
    BY ShapeFacts
  <1>7. \A i \in 1..Len(at') : i \in 1..Len(at) /\ i < Len(at)
    BY <1>1, <1>4
  <1>8. \A i \in 1..Len(at') :
          at'[i] \in 1..Len(stack') /\ stack'[at'[i]] = kind'[opened'[i]]
    <2> SUFFICES ASSUME NEW i \in 1..Len(at')
                 PROVE  at'[i] \in 1..Len(stack') /\ stack'[at'[i]] = kind'[opened'[i]]
      OBVIOUS
    <2>1. at[i] \in 1..Len(stack) /\ at[i] < Len(stack)
      BY <1>2, <1>6, <1>7
    <2>2. at[i] \in 1..Len(stack')
      BY <1>1, <1>3, <2>1
    <2>3. at'[i] = at[i] /\ stack'[at[i]] = stack[at[i]]
      BY <1>3, <1>4, <2>2
    <2>4. stack[at[i]] = kind[opened[i]]
      BY <1>6, <1>7
    <2>5. kind'[opened'[i]] = kind[opened[i]]
      BY <1>5
    <2> QED
      BY <2>2, <2>3, <2>4, <2>5
  <1>9. \A i, j \in 1..Len(at') : i < j => at'[i] < at'[j]
    BY <1>4, <1>6, <1>7
  <1>10. \A p \in 1..Len(stack') : IsList(stack'[p]) => \E i \in 1..Len(at') : at'[i] = p
    <2> SUFFICES ASSUME NEW p \in 1..Len(stack'), IsList(stack'[p])
                 PROVE  \E i \in 1..Len(at') : at'[i] = p
      OBVIOUS
    <2>0. Len(stack) \in Nat /\ Len(at) \in Nat
      BY <1>1
    <2>1. p \in 1..Len(stack) /\ p # Len(stack) /\ IsList(stack[p])
      <3>1. p \in 1..Len(stack) /\ p # Len(stack)
        BY <1>3, <2>0
      <3> QED
        BY <1>3, <3>1
    <2>2. PICK i \in 1..Len(at) : at[i] = p
      BY <1>6, <2>1
    <2>3. i # Len(at)
      BY <1>2, <2>1, <2>2
    <2>4. i \in 1..Len(at')
      BY <1>4, <2>0, <2>3
    <2> QED
      BY <1>4, <2>2, <2>4
  <1>11. StackAgrees'
    BY <1>4, <1>5, <1>8, <1>9, <1>10, AgreesNext
  <1>12. DOMAIN stack' = 1..Len(stack') /\ DOMAIN at' = 1..Len(at')
    BY <1>4, DomainFacts DEF IInv, TypeOK, NavTypeOK
  <1>13. ASSUME NEW p \in 1..Len(stack'), NEW before, Loaded(p, before)
         PROVE  Loaded(p, before)'
    <2>1. p < Len(stack)
      BY <1>1, <1>3
    <2>2. ASSUME NEW i \in DOMAIN at, at[i] = p
          PROVE  i \in 1..Len(at')
      <3>1. i # Len(at)
        BY <1>2, <2>1, <2>2
      <3> QED
        BY <1>1, <1>4, <3>1
    <2> QED
      BY <1>3, <1>4, <1>5, <1>12, <1>13, <2>2, LoadedStays
  <1> QED
    BY <1>4, <1>11, <1>13

\* A screen leads to the next one as before, unless it was just pushed.
LEMMA LeadsNext ==
  ASSUME ReservIInv, IInv', NEW before, NEW screen, Leads(before, screen),
         \A p \in 1..Len(stack') :
           stack'[p] = screen =>
             \/ p \in 1..Len(stack) /\ stack[p] = screen
             \/ Loaded(p - 1, before)',
         \A p \in 1..Len(stack') : Loaded(p, before) => Loaded(p, before)'
  PROVE  Leads(before, screen)'
  <1>1. DOMAIN stack' = 1..Len(stack') /\ Len(stack') \in Nat
    BY DomainFacts DEF IInv, TypeOK, NavTypeOK
  <1>2. DOMAIN stack = 1..Len(stack) /\ Len(stack) \in Nat
    BY ShapeFacts
  <1>3. ASSUME NEW p \in 1..Len(stack'), p \in 1..Len(stack), stack[p] = screen
        PROVE  Loaded(p - 1, before)'
    <2>1. Loaded(p - 1, before)
      BY <1>2, <1>3 DEF Leads
    <2>2. p - 1 \in 1..Len(stack)
      BY <1>2, <2>1 DEF Loaded
    <2>3. p - 1 \in 1..Len(stack')
      BY <1>1, <1>2, <2>2
    <2> QED
      BY <2>1, <2>3
  <1> QED
    BY <1>1, <1>3 DEF Leads

\* Where no screen is pushed, the path stays as it is.
LEMMA PathKept ==
  ASSUME ReservIInv, IInv',
         \A p \in 1..Len(stack') : p \in 1..Len(stack) /\ stack'[p] = stack[p],
         \A p \in 1..Len(stack') : \A before : Loaded(p, before) => Loaded(p, before)'
  PROVE  PathOnStack'
  <1>1. Leads("Office", "Rooms")'
    BY LeadsNext DEF ReservIInv, PathOnStack
  <1>2. Leads("Rooms", "WorkPlace")'
    BY LeadsNext DEF ReservIInv, PathOnStack
  <1>3. Leads("WorkPlace", "ChooseDate")'
    BY LeadsNext DEF ReservIInv, PathOnStack
  <1> QED
    BY <1>1, <1>2, <1>3 DEF PathOnStack

\* A screen that needs a list beneath it is pushed onto that list, loaded.
LEMMA PathPush ==
  ASSUME ReservIInv, IInv', NEW new \in Screen, stack' = Append(stack, new),
         new = "Rooms" => Loaded(Len(stack), "Office"),
         new = "WorkPlace" => Loaded(Len(stack), "Rooms"),
         new = "ChooseDate" => Loaded(Len(stack), "WorkPlace"),
         \A p \in 1..Len(stack') : \A before : Loaded(p, before) => Loaded(p, before)'
  PROVE  PathOnStack'
  <1>1. stack \in Seq(Screen) /\ Len(stack) \in Nat \ {0}
    BY ShapeFacts
  <1>2. /\ Len(stack') = Len(stack) + 1
        /\ stack'[Len(stack) + 1] = new
        /\ \A p \in 1..Len(stack) : stack'[p] = stack[p]
    BY <1>1, AppendFacts
  <1>3. Len(stack) \in 1..Len(stack')
    BY <1>1, <1>2
  <1>4. \A p \in 1..Len(stack') :
          \/ p \in 1..Len(stack) /\ stack'[p] = stack[p]
          \/ p - 1 = Len(stack) /\ stack'[p] = new
    <2> SUFFICES ASSUME NEW p \in 1..Len(stack')
                 PROVE  \/ p \in 1..Len(stack) /\ stack'[p] = stack[p]
                        \/ p - 1 = Len(stack) /\ stack'[p] = new
      OBVIOUS
    <2>1. p \in 1..Len(stack) \/ p = Len(stack) + 1
      BY <1>1, <1>2
    <2>2. p = Len(stack) + 1 => p - 1 = Len(stack)
      BY <1>1
    <2> QED
      BY <1>2, <2>1, <2>2
  <1>5. Leads("Office", "Rooms")'
    BY <1>3, <1>4, LeadsNext DEF ReservIInv, PathOnStack
  <1>6. Leads("Rooms", "WorkPlace")'
    BY <1>3, <1>4, LeadsNext DEF ReservIInv, PathOnStack
  <1>7. Leads("WorkPlace", "ChooseDate")'
    BY <1>3, <1>4, LeadsNext DEF ReservIInv, PathOnStack
  <1> QED
    BY <1>5, <1>6, <1>7 DEF PathOnStack

-----------------------------------------------------------------------------
(***************************************************************************)
(* The inductive invariant.                                                *)
(***************************************************************************)

\* A step that leaves the stack, and the rows shown on it, alone.
LEMMA StackStays ==
  ASSUME ReservIInv, IInv', Lists!IInv', stack' = stack, at' = at, opened' = opened,
         \A i \in 1..Len(opened) :
           /\ kind'[opened[i]] = kind[opened[i]]
           /\ table[opened[i]] = "rows" => table'[opened[i]] = "rows"
  PROVE  ReservIInv'
  <1>1. \A i \in 1..Len(at) : at[i] \in 1..Len(stack')
    BY ShapeFacts
  <1>2. \A p \in 1..Len(stack') : p \in 1..Len(stack) /\ stack'[p] = stack[p]
    OBVIOUS
  <1>3. /\ at' \in Seq(Nat) /\ StackAgrees'
        /\ \A p \in 1..Len(stack') : \A before : Loaded(p, before) => Loaded(p, before)'
    BY <1>1, <1>2, OthersStep
  <1>4. PathOnStack'
    BY <1>2, <1>3, PathKept
  <1> QED
    BY <1>3, <1>4 DEF ReservIInv

\* The process ends in both.
LEMMA ResetStep ==
  ASSUME IInv', Lists!IInv', stack' = <<"Auth">>, opened' = << >>, at' = << >>
  PROVE  ReservIInv'
  <1>1. at' \in Seq(Nat) /\ Len(at') = 0 /\ DOMAIN at' = {} /\ Len(opened') = 0
    BY LP!EmptySeq
  <1>2. \A p \in 1..Len(stack') : stack'[p] = "Auth"
    OBVIOUS
  <1>3. \A p \in DOMAIN stack' : stack'[p] = "Auth"
    OBVIOUS
  <1>4. StackAgrees'
    BY <1>3 DEF StackAgrees, IsList, Lists!Kind
  <1>5. PathOnStack'
    BY <1>3 DEF PathOnStack, Leads
  <1> QED
    BY <1>1, <1>4, <1>5 DEF ReservIInv

\* Every step preserves the inductive invariant.
LEMMA ReservInvariantStep == ReservIInv /\ [ReservNext]_allVars => ReservIInv'
  <1> SUFFICES ASSUME ReservIInv, [ReservNext]_allVars
               PROVE  ReservIInv'
    OBVIOUS
  <1>0. IInv' /\ Lists!IInv'
    BY SignInSimulation, ListsSimulation, InvariantStep, ListsStep DEF ReservIInv
  <1>1. CASE SignInStep \/ ModalStep \/ UNCHANGED allVars
    <2>1. stack' = stack
      BY <1>1
         DEF SignInStep, ModalStep, allVars, vars, navVars, Type, Tap, Answer, Accept, Reject,
             DeliverFailure, DeliverIgnored, ShowProfile, SaveProfile, DismissAlert
    <2>2. UNCHANGED <<listVars, at>>
      BY <1>1 DEF SignInStep, ModalStep, allVars
    <2> QED
      BY <1>0, <2>1, <2>2, StackStays DEF listVars
  <1>2. ASSUME NEW v \in View, NEW k \in Lists!Kind, Lists!Load(v, k), Push(k), PushedList,
               k = "Rooms" => Loaded(Len(stack), "Office"),
               k = "WorkPlace" => Loaded(Len(stack), "Rooms")
        PROVE  ReservIInv'
    <2>1. k \in Screen /\ k # "ChooseDate"
      BY DEF Lists!Kind, Screen
    <2>2. /\ at' \in Seq(Nat) /\ StackAgrees'
          /\ \A p, before : Loaded(p, before) => Loaded(p, before)'
      BY <1>0, <1>2, PushListStep
    <2>3. PathOnStack'
      BY <1>0, <1>2, <2>1, <2>2, PathPush DEF Push
    <2> QED
      BY <1>0, <2>2, <2>3 DEF ReservIInv
  <1>3. ASSUME NEW r \in Request, NEW v \in View, OpenOffice(r, v)
        PROVE  ReservIInv'
    BY <1>2, <1>3 DEF OpenOffice, DeliverSuccess, Lists!OpenOffice, Lists!Kind
  <1>4. ASSUME NEW v \in View, OpenRooms(v)
        PROVE  ReservIInv'
    <2>1. Loaded(Len(stack), "Office")
      BY <1>4, TopLoaded
         DEF OpenRooms, ShowRooms, Open, Lists!OpenRooms, Lists!Kind
    <2> QED
      BY <1>2, <1>4, <2>1 DEF OpenRooms, ShowRooms, Open, Lists!OpenRooms, Lists!Kind
  <1>5. ASSUME NEW v \in View, OpenWorkPlace(v)
        PROVE  ReservIInv'
    <2>1. Loaded(Len(stack), "Rooms")
      BY <1>5, TopLoaded
         DEF OpenWorkPlace, ShowWorkPlaces, Open, Lists!OpenWorkPlace, Lists!Kind
    <2> QED
      BY <1>2, <1>5, <2>1
         DEF OpenWorkPlace, ShowWorkPlaces, Open, Lists!OpenWorkPlace, Lists!Kind
  <1>6. CASE OpenDates
    <2>1. Loaded(Len(stack), "WorkPlace")
      BY <1>6, TopLoaded DEF OpenDates, ShowDates, Open, Lists!Kind
    <2>2. /\ stack' = Append(stack, "ChooseDate")
          /\ UNCHANGED <<listVars, at>>
      BY <1>6 DEF OpenDates, ShowDates, Open, Push
    <2>3. stack \in Seq(Screen) /\ Len(stack) \in Nat
      BY ShapeFacts
    <2>4. /\ Len(stack') = Len(stack) + 1
          /\ stack'[Len(stack) + 1] = "ChooseDate"
          /\ \A p \in 1..Len(stack) : stack'[p] = stack[p]
      BY <2>2, <2>3, AppendFacts DEF Screen
    <2>5. 1..Len(stack) \subseteq 1..Len(stack')
      BY <2>3, <2>4
    <2>6. \A i \in 1..Len(at) : at[i] \in 1..Len(stack')
      BY <2>5, ShapeFacts
    <2>7. \A p \in 1..Len(stack') : p \in 1..Len(stack) \/ p = Len(stack) + 1
      BY <2>3, <2>4
    <2>8. ~IsList("ChooseDate")
      BY DEF IsList, Lists!Kind
    <2>9. /\ at' \in Seq(Nat) /\ StackAgrees'
          /\ \A p \in 1..Len(stack') : \A before : Loaded(p, before) => Loaded(p, before)'
      BY <1>0, <2>2, <2>4, <2>6, <2>7, <2>8, OthersStep DEF listVars
    <2>10. PathOnStack'
      BY <1>0, <2>1, <2>2, <2>9, PathPush DEF Screen
    <2> QED
      BY <1>0, <2>9, <2>10 DEF ReservIInv
  <1>7. CASE LeaveTop
    <2>1. Len(stack) > 1 /\ stack' = SubSeq(stack, 1, Len(stack) - 1)
      BY <1>7 DEF LeaveTop, Back
    <2>2. stack \in Seq(Screen) /\ Len(stack) \in Nat
      BY ShapeFacts
    <2>3. Len(stack') = Len(stack) - 1 /\ \A p \in 1..Len(stack') : stack'[p] = stack[p]
      BY <2>1, <2>2, PopFacts
    <2>4. \A p \in 1..Len(stack') : p \in 1..Len(stack)
      BY <2>2, <2>3
    <2>5. /\ at' \in Seq(Nat) /\ StackAgrees'
          /\ \A p \in 1..Len(stack') : \A before : Loaded(p, before) => Loaded(p, before)'
      <3>1. CASE IsList(Top)
        BY <1>0, <1>7, <2>1, <3>1, PopListStep DEF LeaveTop
      <3>2. CASE ~IsList(Top)
        <4>1. UNCHANGED <<listVars, at>>
          BY <1>7, <3>2 DEF LeaveTop
        <4>2. \A i \in 1..Len(at) : at[i] \in 1..Len(stack')
          <5>1. \A i \in 1..Len(at) : at[i] \in 1..Len(stack) /\ at[i] < Len(stack)
            BY <3>2, ShapeFacts, TopFacts
          <5> QED
            BY <2>2, <2>3, <5>1
        <4> QED
          BY <1>0, <2>3, <2>4, <4>1, <4>2, OthersStep DEF listVars
      <3> QED
        BY <3>1, <3>2
    <2>6. PathOnStack'
      BY <1>0, <2>3, <2>4, <2>5, PathKept
    <2> QED
      BY <1>0, <2>5, <2>6 DEF ReservIInv
  <1>8. ASSUME NEW v \in View, ListAnswered(v)
        PROVE  ReservIInv'
    <2>1. stack' = stack /\ at' = at
      BY <1>8 DEF ListAnswered, vars, navVars
    <2> QED
      BY <1>0, <1>8, <2>1, ListsAnswer, StackStays DEF ReservIInv, Lists!IInv
  <1>9. ASSUME NEW v \in View, ListCrashes(v)
        PROVE  ReservIInv'
    BY <1>0, <1>9, ResetStep DEF ListCrashes, Relaunch, Lists!TableCrashes, Lists!Relaunch
  <1>10. CASE RelaunchApp
    BY <1>0, <1>10, ResetStep DEF RelaunchApp, Relaunch, Lists!Relaunch
  <1> QED
    BY <1>1, <1>3, <1>4, <1>5, <1>6, <1>7, <1>8, <1>9, <1>10 DEF ReservNext

\* At first there is nothing but the sign-in, in both.
LEMMA ReservInvariantInit == ReservInit => ReservIInv
  <1> SUFFICES ASSUME ReservInit
               PROVE  ReservIInv
    OBVIOUS
  <1>1. IInv
    BY InvariantInit DEF ReservInit
  <1>2. Lists!IInv
    <2>1. 1..0 = {} /\ << >> \in Seq(View) /\ Len(<< >>) = 0
      BY LP!EmptySeq
    <2> QED
      BY <2>1
         DEF ReservInit, Lists!Init, Lists!IInv, Lists!TypeOK, Lists!AwaitedIsBlank,
             Lists!PathIsLoaded, Lists!Follows, Lists!Opened, Lists!Shows
  <1>3. at = << >> /\ stack = <<"Auth">> /\ opened = << >>
    BY DEF ReservInit, Init, NavInit, Lists!Init
  <1>4. at \in Seq(Nat) /\ DOMAIN at = {} /\ DOMAIN opened = {}
    BY <1>3, LP!EmptySeq
  <1>5. \A p \in DOMAIN stack : stack[p] = "Auth"
    BY <1>3
  <1>6. StackAgrees
    BY <1>4, <1>5 DEF StackAgrees, IsList, Lists!Kind
  <1>7. PathOnStack
    BY <1>5 DEF PathOnStack, Leads
  <1> QED
    BY <1>1, <1>2, <1>4, <1>6, <1>7 DEF ReservIInv

-----------------------------------------------------------------------------
(***************************************************************************)
(* The theorems.                                                           *)
(***************************************************************************)

\* The inductive invariant holds in every reachable state of the app.
THEOREM ReservInvariantHolds == ReservSpec => []ReservIInv
  BY ReservInvariantInit, ReservInvariantStep, PTL DEF ReservSpec

\* Whoever chooses a date came through an accepted sign-in and three loaded
\* lists, which lie right beneath.
THEOREM DatesAlwaysHaveTheirPath == ReservSpec => []DatesHaveTheirPath
  <1>1. ReservIInv => DatesHaveTheirPath
    <2> SUFFICES ASSUME ReservIInv, NEW k \in DOMAIN stack, stack[k] = "ChooseDate"
                 PROVE  /\ currentUser # None
                        /\ Loaded(k - 1, "WorkPlace")
                        /\ Loaded(k - 2, "Rooms")
                        /\ Loaded(k - 3, "Office")
      BY DEF DatesHaveTheirPath
    <2>1. k \in Nat /\ DOMAIN stack = 1..Len(stack)
      BY ShapeFacts
    <2>2. Loaded(k - 1, "WorkPlace")
      BY DEF ReservIInv, PathOnStack, Leads
    <2>3. k - 1 \in DOMAIN stack /\ stack[k - 1] = "WorkPlace"
      BY <2>2 DEF Loaded
    <2>4. Loaded((k - 1) - 1, "Rooms")
      BY <2>3 DEF ReservIInv, PathOnStack, Leads
    <2>5. (k - 1) - 1 \in DOMAIN stack /\ stack[(k - 1) - 1] = "Rooms"
      BY <2>4 DEF Loaded
    <2>6. Loaded(((k - 1) - 1) - 1, "Office")
      BY <2>5 DEF ReservIInv, PathOnStack, Leads
    <2>7. (k - 1) - 1 = k - 2 /\ ((k - 1) - 1) - 1 = k - 3
      BY <2>1
    <2>8. currentUser # None
      <3>1. k - 3 \in 1..Len(stack) /\ stack[k - 3] = "Office"
        BY <2>1, <2>6, <2>7 DEF Loaded
      <3> QED
        BY <3>1 DEF ReservIInv, IInv, OfficeRequiresUser, OnStack
    <2> QED
      BY <2>2, <2>4, <2>6, <2>7, <2>8
  <1> QED
    BY <1>1, ReservInvariantHolds, PTL

=============================================================================
