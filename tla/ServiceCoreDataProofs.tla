------------------------ MODULE ServiceCoreDataProofs ------------------------
(***************************************************************************)
(* Proofs about ServiceCoreData, for lists of any length and any number of *)
(* entities that are saved alike.                                          *)
(***************************************************************************)
EXTENDS ServiceCoreData, FiniteSetTheorems, TLAPS

-----------------------------------------------------------------------------
(***************************************************************************)
(* Lemmas about bags of rows.                                              *)
(***************************************************************************)

\* The copies of a row in a list are counted by a number, as a list is finite.
LEMMA CopiesType ==
  ASSUME NEW list \in Lists, NEW w
  PROVE  Copies(list, w) \in Nat
  <1>1. PICK n \in 0..MaxLength : list \in [1..n -> Item]
    BY DEF Lists
  <1>2. n \in Int /\ DOMAIN list = 1..n
    BY <1>1
  <1>3. IsFiniteSet(1..n)
    BY <1>2, FS_Interval
  <1>4. IsFiniteSet({i \in DOMAIN list : list[i] = w})
    BY <1>2, <1>3, FS_Subset
  <1> QED
    BY <1>4, FS_CardinalityType DEF Copies

\* No list contains a blank row: none of the saves that insert a row for every
\* element stores one.
LEMMA NoBlankCopies ==
  ASSUME NEW list \in Lists
  PROVE  Copies(list, Blank) = 0
  <1>1. {i \in DOMAIN list : list[i] = Blank} = {}
    BY BlankAssumption DEF Lists
  <1> QED
    BY <1>1, FS_EmptySet DEF Copies

\* What a save inserts is a bag, and contains a blank row only of users
\* (saveUser and the saves of the other lists).
LEMMA InsertedType ==
  ASSUME NEW e \in Entity, NEW list \in Lists
  PROVE  /\ Inserted(e, list) \in Bag
         /\ e \in ListEntity => Inserted(e, list)[Blank] = 0
  <1>1. CASE e \in ListEntity
    BY <1>1, CopiesType, NoBlankCopies DEF Inserted, Bag, Row
  <1>2. CASE e \notin ListEntity
    BY <1>2 DEF Inserted, Bag, Row
  <1> QED
    BY <1>1, <1>2

\* Putting two bags together adds up the copies of each row.
LEMMA PlusType ==
  ASSUME NEW a \in Bag, NEW b \in Bag
  PROVE  /\ Plus(a, b) \in Bag
         /\ \A w \in Row : Plus(a, b)[w] = a[w] + b[w]
  BY DEF Plus, Bag

\* The empty bag is a bag.
LEMMA NothingType == Nothing \in Bag /\ \A w \in Row : Nothing[w] = 0
  BY DEF Nothing, Bag

-----------------------------------------------------------------------------
(***************************************************************************)
(* What the two kinds of save do to the bags, row by row.                  *)
(***************************************************************************)

\* The bags have their types; a part of TypeOK that every step needs.
Bags ==
  /\ disk \in [Entity -> Bag]
  /\ pending \in [Entity -> Bag]
  /\ reported \in [Entity -> Bag]
  /\ failed \in [Entity -> Bag]

\* The types of the bags, and that a bag counts.
LEMMA BagFacts ==
  /\ TypeOK => Bags
  /\ Bags => \A e \in Entity, w \in Row :
               /\ disk[e][w] \in Nat /\ pending[e][w] \in Nat
               /\ reported[e][w] \in Nat /\ failed[e][w] \in Nat
  <1>1. TypeOK => Bags
    BY DEF TypeOK, Bags
  <1>2. ASSUME NEW b \in [Entity -> Bag], NEW e \in Entity, NEW w \in Row
        PROVE  b[e][w] \in Nat
    BY DEF Bag
  <1> QED
    BY <1>1, <1>2 DEF Bags

\* context.save writes what was pending in every entity, and its own rows.
LEMMA SaveSucceedsFacts ==
  ASSUME Bags, NEW e \in Entity, NEW list \in Lists, SaveSucceeds(e, list)
  PROVE  /\ Bags'
         /\ \A d \in Entity, w \in Row :
              LET new == IF d = e THEN Inserted(e, list)[w] ELSE 0
              IN  /\ disk'[d][w] = disk[d][w] + pending[d][w] + new
                  /\ pending'[d][w] = 0
                  /\ reported'[d][w] = reported[d][w] + new
                  /\ failed'[d][w] = failed[d][w]
                  /\ new \in Nat
  <1> DEFINE New(d) == IF d = e THEN Inserted(e, list) ELSE Nothing
  <1>1. ASSUME NEW d \in Entity
        PROVE  /\ New(d) \in Bag
               /\ Visible(d) \in Bag
               /\ \A w \in Row : Visible(d)[w] = disk[d][w] + pending[d][w]
               /\ Plus(Visible(d), New(d)) \in Bag
               /\ \A w \in Row : Plus(Visible(d), New(d))[w] = Visible(d)[w] + New(d)[w]
    <2>1. New(d) \in Bag
      BY InsertedType, NothingType
    <2>2. disk[d] \in Bag /\ pending[d] \in Bag
      BY DEF Bags
    <2>3. Visible(d) \in Bag /\ \A w \in Row : Visible(d)[w] = disk[d][w] + pending[d][w]
      BY <2>2, PlusType DEF Visible
    <2> HIDE DEF New
    <2> QED
      BY <2>1, <2>3, PlusType
  <1>2. disk' = [d \in Entity |-> Plus(Visible(d), New(d))]
    BY DEF SaveSucceeds
  <1>3. Inserted(e, list) \in Bag /\ reported[e] \in Bag
    BY InsertedType DEF Bags
  <1>4. /\ Plus(reported[e], Inserted(e, list)) \in Bag
        /\ \A w \in Row :
             Plus(reported[e], Inserted(e, list))[w] = reported[e][w] + Inserted(e, list)[w]
    BY <1>3, PlusType
  <1>5. reported' = [reported EXCEPT ![e] = Plus(reported[e], Inserted(e, list))]
    BY DEF SaveSucceeds
  <1>6. pending' = [d \in Entity |-> Nothing] /\ failed' = failed
    BY DEF SaveSucceeds
  <1>7. Bags'
    <2>1. disk' \in [Entity -> Bag]
      BY <1>1, <1>2
    <2>2. reported' \in [Entity -> Bag]
      BY <1>4, <1>5 DEF Bags
    <2>3. pending' \in [Entity -> Bag] /\ failed' \in [Entity -> Bag]
      BY <1>6, NothingType DEF Bags
    <2> QED
      BY <2>1, <2>2, <2>3 DEF Bags
  <1>8. ASSUME NEW d \in Entity, NEW w \in Row
        PROVE  LET new == IF d = e THEN Inserted(e, list)[w] ELSE 0
               IN  /\ disk'[d][w] = disk[d][w] + pending[d][w] + new
                   /\ pending'[d][w] = 0
                   /\ reported'[d][w] = reported[d][w] + new
                   /\ failed'[d][w] = failed[d][w]
                   /\ new \in Nat
    <2>1. New(d)[w] = IF d = e THEN Inserted(e, list)[w] ELSE 0
      BY NothingType
    <2>2. disk'[d][w] = disk[d][w] + pending[d][w] + New(d)[w]
      BY <1>1, <1>2
    <2>3. New(d)[w] \in Nat
      BY <1>1 DEF Bag
    <2>4. reported[d][w] \in Nat
      BY BagFacts
    <2>5. reported'[d][w] = reported[d][w] + (IF d = e THEN Inserted(e, list)[w] ELSE 0)
      BY <1>4, <1>5, <2>4 DEF Bags
    <2> HIDE DEF New
    <2> QED
      BY <2>1, <2>2, <2>3, <2>5, <1>6, NothingType
  <1> QED
    BY <1>7, <1>8

\* A save that fails leaves its rows pending.
LEMMA SaveFailsFacts ==
  ASSUME Bags, NEW e \in Entity, NEW list \in Lists, SaveFails(e, list)
  PROVE  /\ Bags'
         /\ \A d \in Entity, w \in Row :
              LET new == IF d = e THEN Inserted(e, list)[w] ELSE 0
              IN  /\ disk'[d][w] = disk[d][w]
                  /\ pending'[d][w] = pending[d][w] + new
                  /\ reported'[d][w] = reported[d][w]
                  /\ failed'[d][w] = failed[d][w] + new
                  /\ new \in Nat
  <1>1. Inserted(e, list) \in Bag /\ pending[e] \in Bag /\ failed[e] \in Bag
    BY InsertedType DEF Bags
  <1>2. /\ Plus(pending[e], Inserted(e, list)) \in Bag
        /\ \A w \in Row :
             Plus(pending[e], Inserted(e, list))[w] = pending[e][w] + Inserted(e, list)[w]
        /\ Plus(failed[e], Inserted(e, list)) \in Bag
        /\ \A w \in Row :
             Plus(failed[e], Inserted(e, list))[w] = failed[e][w] + Inserted(e, list)[w]
    BY <1>1, PlusType
  <1>3. /\ pending' = [pending EXCEPT ![e] = Plus(pending[e], Inserted(e, list))]
        /\ failed' = [failed EXCEPT ![e] = Plus(failed[e], Inserted(e, list))]
        /\ UNCHANGED <<disk, reported>>
    BY DEF SaveFails
  <1>4. Bags'
    BY <1>2, <1>3 DEF Bags
  <1>5. ASSUME NEW d \in Entity, NEW w \in Row
        PROVE  LET new == IF d = e THEN Inserted(e, list)[w] ELSE 0
               IN  /\ disk'[d][w] = disk[d][w]
                   /\ pending'[d][w] = pending[d][w] + new
                   /\ reported'[d][w] = reported[d][w]
                   /\ failed'[d][w] = failed[d][w] + new
                   /\ new \in Nat
    <2>1. pending[d][w] \in Nat /\ failed[d][w] \in Nat
      BY BagFacts
    <2>2. Inserted(e, list)[w] \in Nat
      BY <1>1 DEF Bag
    <2> QED
      BY <1>2, <1>3, <2>1, <2>2 DEF Bags
  <1> QED
    BY <1>4, <1>5

-----------------------------------------------------------------------------
(***************************************************************************)
(* Type correctness.                                                       *)
(***************************************************************************)

\* Initially there are no rows anywhere.
LEMMA TypeInit == Init => TypeOK
  BY NothingType DEF Init, TypeOK, Row, Entity

\* Every step keeps the types; of the lists that are saved element by element
\* no blank row is ever stored.
LEMMA TypeStep == TypeOK /\ [Next]_vars => TypeOK'
  <1> SUFFICES ASSUME TypeOK, [Next]_vars
               PROVE  TypeOK'
    OBVIOUS
  <1>0. Bags /\ Blank \in Row /\ ListEntity \subseteq Entity
    BY BagFacts DEF Row, Entity
  <1>1. ASSUME NEW e \in Entity, NEW list \in Lists, SaveSucceeds(e, list)
        PROVE  TypeOK'
    <2>1. Bags' /\ read' = read
      BY <1>0, <1>1, SaveSucceedsFacts DEF SaveSucceeds
    <2>2. \A d \in ListEntity : disk'[d][Blank] = 0 /\ pending'[d][Blank] = 0
      BY <1>0, <1>1, SaveSucceedsFacts, InsertedType DEF TypeOK
    <2> QED
      BY <2>1, <2>2 DEF TypeOK, Bags
  <1>2. ASSUME NEW e \in Entity, NEW list \in Lists, SaveFails(e, list)
        PROVE  TypeOK'
    <2>1. Bags' /\ read' = read
      BY <1>0, <1>2, SaveFailsFacts DEF SaveFails
    <2>2. \A d \in ListEntity : disk'[d][Blank] = 0 /\ pending'[d][Blank] = 0
      BY <1>0, <1>2, SaveFailsFacts, InsertedType DEF TypeOK
    <2> QED
      BY <2>1, <2>2 DEF TypeOK, Bags
  <1>3. ASSUME NEW e \in Entity, read' = <<e, Visible(e)>>,
               UNCHANGED <<disk, pending, reported, failed>>
        PROVE  TypeOK'
    <2>1. Visible(e) \in Bag
      BY <1>0, PlusType DEF Visible, Bags
    <2> QED
      BY <1>3, <2>1 DEF TypeOK
  <1>4. ASSUME Relaunch
        PROVE  TypeOK'
    BY <1>0, <1>4, NothingType DEF Relaunch, TypeOK
  <1>5. CASE UNCHANGED vars
    BY <1>5 DEF vars, TypeOK
  <1>6. ASSUME ReadUser
        PROVE  TypeOK'
    BY <1>3, <1>6 DEF ReadUser, Entity
  <1>7. ASSUME NEW e \in ListEntity, ReadList(e)
        PROVE  TypeOK'
    BY <1>0, <1>3, <1>7 DEF ReadList
  <1> QED
    BY <1>1, <1>2, <1>4, <1>5, <1>6, <1>7 DEF Next, ReadUserCrashes

\* The bags of rows on disk, pending and in the histories have their types in
\* every reachable state, and none but the entity of users ever gets a blank
\* row (the saves of class ServiceCoreData).
THEOREM TypeCorrect == Spec => []TypeOK
  BY TypeInit, TypeStep, PTL DEF Spec

-----------------------------------------------------------------------------
(***************************************************************************)
(* What is on disk, and what subscribers were told.                        *)
(***************************************************************************)

\* Rows on disk stay, and a save reports its own only with writing them.
LEMMA StoredStep == TypeOK /\ ReportedIsStored /\ [Next]_vars => ReportedIsStored'
  <1> SUFFICES ASSUME TypeOK, ReportedIsStored, [Next]_vars
               PROVE  ReportedIsStored'
    OBVIOUS
  <1>0. /\ Bags
        /\ \A e \in Entity, w \in Row :
             disk[e][w] \in Nat /\ pending[e][w] \in Nat /\ reported[e][w] \in Nat
    BY BagFacts
  <1>1. ASSUME NEW e \in Entity, NEW list \in Lists, SaveSucceeds(e, list)
        PROVE  ReportedIsStored'
    <2> SUFFICES ASSUME NEW d \in Entity, NEW w \in Row
                 PROVE  reported'[d][w] <= disk'[d][w]
      BY DEF ReportedIsStored
    <2> QED
      BY <1>0, <1>1, SaveSucceedsFacts DEF ReportedIsStored
  <1>2. ASSUME NEW e \in Entity, NEW list \in Lists, SaveFails(e, list)
        PROVE  ReportedIsStored'
    BY <1>2 DEF SaveFails, ReportedIsStored
  <1>3. ASSUME UNCHANGED <<disk, reported>>
        PROVE  ReportedIsStored'
    BY <1>3 DEF ReportedIsStored
  <1> QED
    BY <1>1, <1>2, <1>3 DEF Next, ReadUser, ReadList, ReadUserCrashes, Relaunch, vars

\* Whatever fails or ends in between, what a save has reported as stored is on
\* disk (context.save comes before onNext).
THEOREM ReportsAreTrue == Spec => []ReportedIsStored
  <1>1. Init => ReportedIsStored
    BY NothingType DEF Init, ReportedIsStored
  <1> QED
    BY <1>1, StoredStep, TypeCorrect, PTL DEF Spec

\* A pending row is written once and is pending no longer.
LEMMA OnceStep == TypeOK /\ NothingIsStoredTwice /\ [Next]_vars => NothingIsStoredTwice'
  <1> SUFFICES ASSUME TypeOK, NothingIsStoredTwice, [Next]_vars
               PROVE  NothingIsStoredTwice'
    OBVIOUS
  <1>0. /\ Bags
        /\ \A e \in Entity, w \in Row :
             /\ disk[e][w] \in Nat /\ pending[e][w] \in Nat
             /\ reported[e][w] \in Nat /\ failed[e][w] \in Nat
    BY BagFacts
  <1>1. ASSUME NEW e \in Entity, NEW list \in Lists, SaveSucceeds(e, list)
        PROVE  NothingIsStoredTwice'
    <2> SUFFICES ASSUME NEW d \in Entity, NEW w \in Row
                 PROVE  disk'[d][w] + pending'[d][w] <= reported'[d][w] + failed'[d][w]
      BY DEF NothingIsStoredTwice
    <2> QED
      BY <1>0, <1>1, SaveSucceedsFacts DEF NothingIsStoredTwice
  <1>2. ASSUME NEW e \in Entity, NEW list \in Lists, SaveFails(e, list)
        PROVE  NothingIsStoredTwice'
    <2> SUFFICES ASSUME NEW d \in Entity, NEW w \in Row
                 PROVE  disk'[d][w] + pending'[d][w] <= reported'[d][w] + failed'[d][w]
      BY DEF NothingIsStoredTwice
    <2> QED
      BY <1>0, <1>2, SaveFailsFacts DEF NothingIsStoredTwice
  <1>3. ASSUME Relaunch
        PROVE  NothingIsStoredTwice'
    BY <1>0, <1>3, NothingType DEF Relaunch, NothingIsStoredTwice
  <1>4. ASSUME UNCHANGED <<disk, pending, reported, failed>>
        PROVE  NothingIsStoredTwice'
    BY <1>4 DEF NothingIsStoredTwice
  <1> QED
    BY <1>1, <1>2, <1>3, <1>4 DEF Next, ReadUser, ReadList, ReadUserCrashes, vars

\* A failed save takes effect at most once, through whichever save comes next.
THEOREM FailuresCountOnce == Spec => []NothingIsStoredTwice
  <1>1. Init => NothingIsStoredTwice
    BY NothingType DEF Init, NothingIsStoredTwice
  <1> QED
    BY <1>1, OnceStep, TypeCorrect, PTL DEF Spec

\* With a blank row on disk no read of users gets through.
LEMMA BlankStep ==
  ASSUME TypeOK, [Next]_vars, disk["Users"][Blank] > 0
  PROVE  /\ disk'["Users"][Blank] > 0
         /\ read' # read => read' = None \/ read'[1] # "Users"
  <1>0. /\ Bags /\ "Users" \in Entity /\ Blank \in Row
        /\ disk["Users"][Blank] \in Nat /\ pending["Users"][Blank] \in Nat
    BY BagFacts DEF Entity, Row
  <1>1. ASSUME NEW e \in Entity, NEW list \in Lists, SaveSucceeds(e, list)
        PROVE  disk'["Users"][Blank] > 0 /\ read' = read
    <2> DEFINE New(d, w) == IF d = e THEN Inserted(e, list)[w] ELSE 0
    <2>1. \A d \in Entity, w \in Row :
            disk'[d][w] = disk[d][w] + pending[d][w] + New(d, w) /\ New(d, w) \in Nat
      BY <1>0, <1>1, SaveSucceedsFacts
    <2>2. read' = read
      BY <1>1 DEF SaveSucceeds
    <2> HIDE DEF New
    <2> QED
      BY <1>0, <2>1, <2>2
  <1>2. ASSUME NEW e \in Entity, NEW list \in Lists, SaveFails(e, list)
        PROVE  disk' = disk /\ read' = read
    BY <1>2 DEF SaveFails
  <1>3. ~ReadUser
    <2>1. Visible("Users")[Blank] = disk["Users"][Blank] + pending["Users"][Blank]
      BY <1>0, PlusType DEF Visible, Bags
    <2> QED
      BY <1>0, <2>1 DEF ReadUser
  <1>4. ASSUME NEW e \in ListEntity, ReadList(e)
        PROVE  disk' = disk /\ read'[1] # "Users"
    BY <1>4, EntityAssumption DEF ReadList
  <1>5. CASE Relaunch \/ ReadUserCrashes \/ UNCHANGED vars
    BY <1>5 DEF Relaunch, ReadUserCrashes, vars
  <1> QED
    BY <1>1, <1>2, <1>3, <1>4, <1>5 DEF Next

\* One blank row, and users can never be read again: no operation of the class
\* deletes or repairs it.
THEOREM BlankRowIsForever == Spec => BlankUserEndsReading
  <1>1. TypeOK /\ [Next]_vars =>
          [disk["Users"][Blank] > 0 =>
             /\ disk'["Users"][Blank] > 0
             /\ read' # read => read' = None \/ read'[1] # "Users"]_vars
    BY BlankStep
  <1> QED
    BY <1>1, TypeCorrect, PTL DEF Spec, BlankUserEndsReading

=============================================================================
