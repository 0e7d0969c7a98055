-------------------------- MODULE ListScreensProofs --------------------------
(***************************************************************************)
(* Proofs about ListScreens: type correctness, and that every list on the  *)
(* stack was opened from a list that had loaded, for any number of screens.*)
(***************************************************************************)
EXTENDS ListScreens, SequenceTheorems, TLAPS

-----------------------------------------------------------------------------
(***************************************************************************)
(* Lemmas about the stack of list screens.                                 *)
(***************************************************************************)

\* The empty stack, and one that is not.
LEMMA NoScreens ==
  /\ << >> \in Seq(View)
  /\ Len(<< >>) = 0
  /\ 1..Len(<< >>) = {}
  /\ \A s \in Seq(View) : s # << >> => Len(s) > 0
  <1>1. /\ << >> \in Seq(View)
        /\ Len(<< >>) = 0
        /\ \A s \in Seq(View) : s # << >> => Len(s) \in Nat \ {0}
    BY EmptySeq
  <1> QED
    BY <1>1

\* Pushing adds one screen on top of those that are there.
LEMMA PushFacts ==
  ASSUME NEW s \in Seq(View), NEW v \in View
  PROVE  /\ Append(s, v) \in Seq(View)
         /\ Len(Append(s, v)) = Len(s) + 1
         /\ Len(s) \in Nat
         /\ Append(s, v)[Len(s) + 1] = v
         /\ \A i \in 1..Len(s) : Append(s, v)[i] = s[i] /\ s[i] \in View
  OBVIOUS

\* Going back removes the screen on top.
LEMMA PopFacts ==
  ASSUME NEW s \in Seq(View), Len(s) > 0
  PROVE  LET t == SubSeq(s, 1, Len(s) - 1) IN
         /\ t \in Seq(View)
         /\ Len(t) = Len(s) - 1
         /\ Len(s) \in Nat
         /\ \A i \in 1..Len(t) : t[i] = s[i] /\ s[i] \in View
  <1>0. Len(s) \in Nat
    OBVIOUS
  <1>1. CASE Len(s) > 1
    BY <1>1
  <1>2. CASE Len(s) = 1
    <2>1. SubSeq(s, 1, 0) = << >>
      BY SubSeqEmpty
    <2>2. Len(s) - 1 = 0
      BY <1>2
    <2> QED
      BY <1>2, <2>1, <2>2, NoScreens
  <1>3. \A n \in Nat : n > 0 => n > 1 \/ n = 1
    OBVIOUS
  <1> QED
    BY <1>0, <1>1, <1>2, <1>3, Zenon

-----------------------------------------------------------------------------
(***************************************************************************)
(* What the steps have in common.                                          *)
(***************************************************************************)

\* A screen that is opened is a new one: it was not on the stack, and nothing
\* of it is awaited (viewDidLoad of the three list screens).
LEMMA LoadFacts ==
  ASSUME TypeOK, NEW v \in View, NEW k \in Kind, Load(v, k)
  PROVE  /\ TypeOK' <=> spinnerCalls' \subseteq View
         /\ Len(opened') = Len(opened) + 1
         /\ opened'[Len(opened) + 1] = v
         /\ kind'[v] = k /\ table'[v] = "nothing yet"
         /\ \A i \in 1..Len(opened) :
              /\ opened'[i] = opened[i]
              /\ opened[i] \in View /\ opened[i] # v
              /\ kind'[opened[i]] = kind[opened[i]]
              /\ table'[opened[i]] = table[opened[i]]
         /\ \A u \in View : u # v => kind'[u] = kind[u] /\ table'[u] = table[u]
  <1>1. /\ opened' = Append(opened, v)
        /\ kind' = [kind EXCEPT ![v] = k]
        /\ table' = [table EXCEPT ![v] = "nothing yet"]
        /\ tableCalls' = tableCalls \union {v}
        /\ ~Alive(v)
    BY DEF Load
  <1>2. \A i \in 1..Len(opened) : opened[i] \in View /\ opened[i] # v
    BY <1>1, PushFacts DEF TypeOK, Opened
  <1>3. kind'[v] = k /\ table'[v] = "nothing yet"
    BY <1>1 DEF TypeOK
  <1>4. \A u \in View : u # v => kind'[u] = kind[u] /\ table'[u] = table[u]
    BY <1>1 DEF TypeOK
  <1>5. /\ opened' \in Seq(View)
        /\ Len(opened') = Len(opened) + 1
        /\ opened'[Len(opened) + 1] = v
        /\ \A i \in 1..Len(opened) : opened'[i] = opened[i]
    BY <1>1, PushFacts DEF TypeOK
  <1>6. /\ kind' \in [View -> Kind \union {"none"}]
        /\ table' \in [View -> Shows]
        /\ tableCalls' \subseteq View
    BY <1>1 DEF TypeOK, Shows
  <1>7. \A u \in View : Opened(u)' => Alive(u)'
    <2> SUFFICES ASSUME NEW u \in View, NEW i \in 1..Len(opened'), opened'[i] = u
                 PROVE  kind'[u] # "none"
      BY DEF Opened, Alive
    <2>1. CASE u = v
      BY <2>1, <1>3 DEF Kind
    <2>2. CASE u # v
      <3>1. i \in 1..Len(opened)
        BY <2>2, <1>5, PushFacts DEF TypeOK
      <3> QED
        BY <3>1, <2>2, <1>4, <1>5 DEF TypeOK, Opened, Alive
    <2> QED
      BY <2>1, <2>2
  <1>8. TypeOK' <=> spinnerCalls' \subseteq View
    BY <1>5, <1>6, <1>7 DEF TypeOK
  <1> QED
    BY <1>2, <1>3, <1>4, <1>5, <1>8

\* Whatever a step releases, it is no screen on the stack.
LEMMA ReleaseFacts ==
  ASSUME TypeOK, opened' \in Seq(View), ReleaseUnheld,
         \A v \in View : Opened(v)' => Opened(v)
  PROVE  /\ kind' \in [View -> Kind \union {"none"}]
         /\ \A v \in View : Alive(v)' => kind'[v] = kind[v]
         /\ \A v \in View : Opened(v)' => kind'[v] = kind[v] /\ Alive(v)'
  <1>1. \A v \in View :
          kind'[v] = IF Held(v, opened', spinnerCalls') THEN kind[v] ELSE "none"
    BY DEF ReleaseUnheld
  <1>2. \A v \in View : Opened(v)' => Held(v, opened', spinnerCalls')
    BY DEF Opened, Held
  <1>3. \A v \in View : Opened(v)' => kind'[v] = kind[v] /\ Alive(v)'
    BY <1>1, <1>2 DEF TypeOK, Alive
  <1>4. kind' \in [View -> Kind \union {"none"}]
    BY DEF ReleaseUnheld, TypeOK
  <1> QED
    BY <1>1, <1>3, <1>4 DEF Alive

\* Going back keeps the rest of the stack as it is (the back button).
LEMMA BackFacts ==
  ASSUME TypeOK, Back
  PROVE  /\ TypeOK'
         /\ Len(opened') = Len(opened) - 1
         /\ \A i \in 1..Len(opened') :
              opened'[i] = opened[i] /\ kind'[opened[i]] = kind[opened[i]]
         /\ \A v \in View : Alive(v)' => Alive(v)
  <1>1. /\ opened' \in Seq(View)
        /\ Len(opened') = Len(opened) - 1
        /\ Len(opened) \in Nat
        /\ \A i \in 1..Len(opened') : opened'[i] = opened[i] /\ opened[i] \in View
    BY PopFacts, NoScreens DEF TypeOK, Back
  <1>2. \A v \in View : Opened(v)' => Opened(v)
    <2>1. 1..Len(opened') \subseteq 1..Len(opened)
      BY <1>1
    <2> QED
      BY <1>1, <2>1 DEF Opened
  <1>3. /\ kind' \in [View -> Kind \union {"none"}]
        /\ \A v \in View : Alive(v)' => kind'[v] = kind[v]
        /\ \A v \in View : Opened(v)' => kind'[v] = kind[v] /\ Alive(v)'
    BY <1>1, <1>2, ReleaseFacts DEF Back
  <1>5. TypeOK'
    BY <1>1, <1>3 DEF Back, TypeOK
  <1>6. ASSUME NEW i \in 1..Len(opened')
        PROVE  kind'[opened[i]] = kind[opened[i]]
    <2>1. opened[i] \in View /\ \E j \in 1..Len(opened') : opened'[j] = opened[i]
      BY <1>1
    <2>2. \A v \in View : (\E j \in 1..Len(opened') : opened'[j] = v) => kind'[v] = kind[v]
      BY <1>3 DEF Opened
    <2> QED
      BY <2>1, <2>2
  <1> QED
    BY <1>1, <1>3, <1>5, <1>6 DEF Alive

\* No answer and no release touches what lies on the stack; a table there that
\* has rows keeps them, having been answered before (requestData).
LEMMA AnswerFacts ==
  ASSUME TypeOK, AwaitedIsBlank, NEW v \in View,
         \/ SpinnerAnswered(v)
         \/ TableFills(v) \/ TableStaysEmpty(v) \/ TableIgnored(v)
  PROVE  /\ opened' = opened
         /\ \A i \in 1..Len(opened) :
              /\ kind'[opened[i]] = kind[opened[i]]
              /\ table[opened[i]] = "rows" => table'[opened[i]] = "rows"
  <1>0. \A i \in 1..Len(opened) : opened[i] \in View /\ Opened(opened[i]) /\ Alive(opened[i])
    BY DEF TypeOK, Opened
  <1>1. CASE SpinnerAnswered(v)
    <2>1. opened' = opened /\ table' = table /\ \A u \in View : Opened(u)' <=> Opened(u)
      BY <1>1 DEF SpinnerAnswered, Opened
    <2>2. \A u \in View : Opened(u)' => kind'[u] = kind[u]
      BY <1>1, <2>1, ReleaseFacts DEF SpinnerAnswered, TypeOK
    <2> QED
      BY <1>0, <2>1, <2>2
  <1>2. CASE TableFills(v) \/ TableStaysEmpty(v) \/ TableIgnored(v)
    <2>1. opened' = opened /\ kind' = kind
      BY <1>2 DEF TableFills, TableStaysEmpty, TableIgnored
    <2>2. \A u \in View : Alive(u) /\ table[u] = "rows" => table'[u] = "rows"
      BY <1>2 DEF TableFills, TableStaysEmpty, TableIgnored, AwaitedIsBlank, TypeOK
    <2> QED
      BY <1>0, <2>1, <2>2
  <1> QED
    BY <1>1, <1>2

-----------------------------------------------------------------------------
(***************************************************************************)
(* The inductive invariant.                                                *)
(***************************************************************************)

\* Every step keeps the types; in particular no screen on the stack is ever
\* released.
LEMMA TypeStep == TypeOK /\ [Next]_vars => TypeOK'
  <1> SUFFICES ASSUME TypeOK, [Next]_vars
               PROVE  TypeOK'
    OBVIOUS
  <1>1. ASSUME NEW v \in View, OpenOffice(v) \/ OpenRooms(v) \/ OpenWorkPlace(v)
        PROVE  TypeOK'
    BY <1>1, LoadFacts DEF OpenOffice, OpenRooms, OpenWorkPlace, TypeOK, Kind
  <1>2. CASE Back
    BY <1>2, BackFacts
  <1>3. ASSUME NEW v \in View, SpinnerAnswered(v)
        PROVE  TypeOK'
    <2>1. opened' = opened /\ \A u \in View : Opened(u)' <=> Opened(u)
      BY <1>3 DEF SpinnerAnswered, Opened
    <2> QED
      BY <1>3, <2>1, ReleaseFacts DEF SpinnerAnswered, TypeOK
  <1>4. ASSUME NEW v \in View, TableFills(v) \/ TableStaysEmpty(v) \/ TableIgnored(v)
        PROVE  TypeOK'
    BY <1>4 DEF TableFills, TableStaysEmpty, TableIgnored, TypeOK, Opened, Alive, Shows
  <1>5. CASE Relaunch
    BY <1>5, NoScreens DEF Relaunch, TypeOK, Opened, Shows
  <1>6. CASE UNCHANGED vars
    BY <1>6 DEF vars, TypeOK, Opened, Alive
  <1> QED
    BY <1>1, <1>2, <1>3, <1>4, <1>5, <1>6 DEF Next, TableCrashes

\* A request is answered once: while it is awaited, the table is as it was
\* when its screen was opened.
LEMMA AwaitedStep == TypeOK /\ AwaitedIsBlank /\ [Next]_vars => AwaitedIsBlank'
  <1> SUFFICES ASSUME TypeOK, AwaitedIsBlank, [Next]_vars
               PROVE  AwaitedIsBlank'
    OBVIOUS
  <1> USE DEF AwaitedIsBlank
  <1>1. ASSUME NEW v \in View, NEW k \in Kind, Load(v, k)
        PROVE  AwaitedIsBlank'
    <2>1. /\ tableCalls' = tableCalls \union {v}
          /\ kind'[v] = k /\ table'[v] = "nothing yet"
          /\ \A u \in View : u # v => kind'[u] = kind[u] /\ table'[u] = table[u]
      BY <1>1, LoadFacts DEF Load
    <2> QED
      BY <2>1 DEF Alive
  <1>2. CASE Back
    BY <1>2, BackFacts DEF Back
  <1>3. ASSUME NEW v \in View, SpinnerAnswered(v)
        PROVE  AwaitedIsBlank'
    <2>1. opened' = opened /\ \A u \in View : Opened(u)' <=> Opened(u)
      BY <1>3 DEF SpinnerAnswered, Opened
    <2>2. \A u \in View : Alive(u)' => kind'[u] = kind[u]
      BY <1>3, <2>1, ReleaseFacts DEF SpinnerAnswered, TypeOK
    <2> QED
      BY <1>3, <2>2 DEF SpinnerAnswered, Alive
  <1>4. ASSUME NEW v \in View, TableFills(v) \/ TableStaysEmpty(v) \/ TableIgnored(v)
        PROVE  AwaitedIsBlank'
    BY <1>4 DEF TableFills, TableStaysEmpty, TableIgnored, TypeOK, Alive
  <1>5. CASE Relaunch
    BY <1>5 DEF Relaunch
  <1>6. CASE UNCHANGED vars
    BY <1>6 DEF vars, Alive
  <1> QED
    BY <1>1, <1>2, <1>3, <1>4, <1>5, <1>6
       DEF Next, TableCrashes, OpenOffice, OpenRooms, OpenWorkPlace, Kind

\* Opening a screen of kind k keeps the rule that screens of one kind follow
\* loaded screens of another, if the new screen obeys it.
LEMMA FollowsLoad ==
  ASSUME TypeOK, NEW v \in View, NEW k \in Kind, Load(v, k),
         NEW after \in Kind, NEW before \in Kind, Follows(after, before),
         k = after => RowsOf(before)
  PROVE  Follows(after, before)'
  <1> SUFFICES ASSUME NEW i \in 1..Len(opened'), kind'[opened'[i]] = after
               PROVE  /\ i > 1
                      /\ kind'[opened'[i - 1]] = before
                      /\ table'[opened'[i - 1]] = "rows"
    BY DEF Follows
  <1>1. Len(opened') = Len(opened) + 1 /\ Len(opened) \in Nat
    BY LoadFacts, PushFacts DEF TypeOK
  <1>2. CASE i = Len(opened) + 1
    <2>1. RowsOf(before)
      BY <1>2, LoadFacts
    <2>2. Len(opened) > 0
      BY <2>1, NoScreens DEF RowsOf, TypeOK
    <2>3. /\ kind[opened[Len(opened)]] = before
          /\ table[opened[Len(opened)]] = "rows"
      BY <2>1 DEF RowsOf
    <2>4. i - 1 = Len(opened) /\ Len(opened) \in 1..Len(opened)
      BY <1>1, <1>2, <2>2
    <2>5. /\ opened'[Len(opened)] = opened[Len(opened)]
          /\ kind'[opened[Len(opened)]] = kind[opened[Len(opened)]]
          /\ table'[opened[Len(opened)]] = table[opened[Len(opened)]]
      BY <2>4, LoadFacts
    <2> QED
      BY <1>1, <1>2, <2>2, <2>3, <2>4, <2>5
  <1>3. CASE i \in 1..Len(opened)
    <2>1. \A j \in 1..Len(opened) :
            /\ opened'[j] = opened[j]
            /\ kind'[opened[j]] = kind[opened[j]]
            /\ table'[opened[j]] = table[opened[j]]
      BY LoadFacts
    <2>2. kind[opened[i]] = after
      BY <1>3, <2>1
    <2>3. i > 1 /\ kind[opened[i - 1]] = before /\ table[opened[i - 1]] = "rows"
      BY <1>3, <2>2 DEF Follows
    <2>4. i - 1 \in 1..Len(opened)
      BY <1>1, <1>3, <2>3
    <2>5. /\ opened'[i - 1] = opened[i - 1]
          /\ kind'[opened[i - 1]] = kind[opened[i - 1]]
          /\ table'[opened[i - 1]] = table[opened[i - 1]]
      BY <2>1, <2>4
    <2> QED
      BY <2>3, <2>5
  <1> QED
    BY <1>1, <1>2, <1>3

\* Every step keeps the rule that screens of one kind follow loaded screens of
\* another.
LEMMA FollowsStep ==
  ASSUME TypeOK, AwaitedIsBlank, [Next]_vars,
         NEW after \in Kind, NEW before \in Kind, Follows(after, before),
         \A v \in View : OpenOffice(v) => after # "Office",
         \A v \in View : OpenRooms(v) /\ after = "Rooms" => before = "Office",
         \A v \in View : OpenWorkPlace(v) /\ after = "WorkPlace" => before = "Rooms"
  PROVE  Follows(after, before)'
  <1>1. ASSUME NEW v \in View, OpenOffice(v) \/ OpenRooms(v) \/ OpenWorkPlace(v)
        PROVE  Follows(after, before)'
    BY <1>1, FollowsLoad DEF OpenOffice, OpenRooms, OpenWorkPlace, Kind
  <1>2. CASE Back
    <2> SUFFICES ASSUME NEW i \in 1..Len(opened'), kind'[opened'[i]] = after
                 PROVE  /\ i > 1
                        /\ kind'[opened'[i - 1]] = before
                        /\ table'[opened'[i - 1]] = "rows"
      BY DEF Follows
    <2>1. Len(opened') = Len(opened) - 1 /\ Len(opened) \in Nat /\ table' = table
      BY <1>2, BackFacts DEF Back, TypeOK
    <2>2. i \in 1..Len(opened) /\ kind[opened[i]] = after
      BY <1>2, <2>1, BackFacts
    <2>3. i > 1 /\ kind[opened[i - 1]] = before /\ table[opened[i - 1]] = "rows"
      BY <2>2 DEF Follows
    <2>4. i - 1 \in 1..Len(opened')
      BY <2>1, <2>3
    <2> QED
      BY <1>2, <2>1, <2>3, <2>4, BackFacts
  <1>3. ASSUME NEW v \in View, \/ SpinnerAnswered(v)
                               \/ TableFills(v) \/ TableStaysEmpty(v) \/ TableIgnored(v)
        PROVE  Follows(after, before)'
    <2>1. Len(opened) \in Nat
      BY DEF TypeOK
    <2> QED
      BY <1>3, <2>1, AnswerFacts DEF Follows
  <1>4. CASE Relaunch
    BY <1>4, NoScreens DEF Relaunch, Follows
  <1>5. CASE UNCHANGED vars
    BY <1>5 DEF vars, Follows
  <1> QED
    BY <1>1, <1>2, <1>3, <1>4, <1>5 DEF Next, TableCrashes

\* Every step preserves the inductive invariant.
LEMMA InvariantStep == IInv /\ [Next]_vars => IInv'
  <1> SUFFICES ASSUME IInv, [Next]_vars
               PROVE  IInv'
    OBVIOUS
  <1>1. TypeOK' /\ AwaitedIsBlank'
    BY TypeStep, AwaitedStep DEF IInv
  <1>2. Follows("Rooms", "Office")'
    BY FollowsStep DEF IInv, PathIsLoaded, Kind
  <1>3. Follows("WorkPlace", "Rooms")'
    BY FollowsStep DEF IInv, PathIsLoaded, Kind
  <1> QED
    BY <1>1, <1>2, <1>3 DEF IInv, PathIsLoaded

\* The inductive invariant holds in every reachable state, for any number of
\* list screens and any order of answers.
THEOREM InvariantHolds == Spec => []IInv
  <1>1. Init => IInv
    BY NoScreens DEF Init, IInv, TypeOK, AwaitedIsBlank, PathIsLoaded, Follows, Opened, Shows
  <1> QED
    BY <1>1, InvariantStep, PTL DEF Spec

\* Every variable keeps its type; in particular no screen on the stack is ever
\* released.
THEOREM TypeCorrect == Spec => []TypeOK
  <1>1. IInv => TypeOK
    BY DEF IInv
  <1> QED
    BY <1>1, InvariantHolds, PTL

\* Rooms lie right above offices that have loaded, workplaces right above rooms
\* that have.
THEOREM PathIsAlwaysLoaded == Spec => []PathIsLoaded
  <1>1. IInv => PathIsLoaded
    BY DEF IInv
  <1> QED
    BY <1>1, InvariantHolds, PTL

=============================================================================
