---------------------------- MODULE UserStoreProofs ----------------------------
(***************************************************************************)
(* Proofs about UserStore, for any number of concurrent saves and reads,   *)
(* of containers and of rows: type correctness, on which rows a read may   *)
(* fail, how half-built rows reach the disk and that they end the reading  *)
(* of users for good, that delivered users are whole, what the race for    *)
(* the container loses, and that the disk holds whole lists.               *)
(***************************************************************************)
EXTENDS UserStore, FiniteSetTheorems, TLAPS

-----------------------------------------------------------------------------
(***************************************************************************)
(* Lemmas about operations and rows.                                       *)
(***************************************************************************)

\* The operations are told apart, and each is a save or a read
\* (ServiceCoreDataOperation's saveUser and readUser).
LEMMA OperationFacts ==
  /\ \A f \in Fetch : Save(f) \in Operation /\ Read(f) \in Operation
  /\ \A f, g \in Fetch : Save(f) # Read(g)
  /\ \A f, g \in Fetch : f # g => Save(f) # Save(g) /\ Read(f) # Read(g)
  BY DEF Save, Read, Operation

\* An operation that runs has a container (appDelegate.persistentContainer).
LEMMA RunningFacts ==
  ASSUME TypeOK, NEW f \in Fetch
  PROVE  /\ SaveRunning(f) => mine[Save(f)] \in Container
         /\ ReadRunning(f) => mine[Read(f)] \in Container
  BY OperationFacts DEF TypeOK, SaveRunning, ReadRunning

\* A row is seen in the state that the context knows, or else the disk.
LEMMA SeenType ==
  ASSUME TypeOK, NEW c \in Container, NEW w \in Row
  PROVE  Seen(c, w) \in RowState
  BY DEF TypeOK, Seen

-----------------------------------------------------------------------------
(***************************************************************************)
(* Type correctness.                                                       *)
(***************************************************************************)

\* Initially there is nothing.
LEMMA TypeInit == Init => TypeOK
  <1> SUFFICES ASSUME Init
               PROVE  TypeOK
    OBVIOUS
  <1>1. /\ left \in [Fetch -> 0..UserCount]
        /\ NoRows \in [Row -> RowState]
    BY UserCountAssumption DEF Init, NoRows, RowState
  <1>2. /\ status \in [Operation -> Status]
        /\ \A j \in Operation : status[j] \notin {"opening", "running"}
    BY DEF Init, Status
  <1> QED
    BY <1>1, <1>2 DEF Init, TypeOK

\* Operations are enqueued and get hold of a container.
LEMMA TypeOpening ==
  ASSUME TypeOK,
         \/ \E f \in Fetch : FetchUserData(f)
         \/ \E j \in Operation : UseContainer(j) \/ PublishContainer(j)
         \/ \E j \in Operation, c \in Container : MakeContainer(j, c)
  PROVE  TypeOK'
  <1>1. ASSUME NEW f \in Fetch, FetchUserData(f)
        PROVE  TypeOK'
    <2>1. status' \in [Operation -> Status]
      BY <1>1, OperationFacts DEF FetchUserData, TypeOK, Status
    <2>2. left' \in [Fetch -> 0..UserCount]
      BY <1>1, UserCountAssumption DEF FetchUserData, TypeOK
    <2>3. \A j \in Operation : status'[j] \in {"opening", "running"} => mine[j] # None
      BY <1>1, OperationFacts DEF FetchUserData, TypeOK
    <2> QED
      BY <1>1, <2>1, <2>2, <2>3 DEF FetchUserData, TypeOK
  <1>2. ASSUME NEW j \in Operation, UseContainer(j)
        PROVE  TypeOK'
    <2>1. overlapped' \in BOOLEAN
      BY <1>2 DEF UseContainer, Overlap
    <2> QED
      BY <1>2, <2>1 DEF UseContainer, TypeOK, Status
  <1>3. ASSUME NEW j \in Operation, PublishContainer(j)
        PROVE  TypeOK'
    <2>1. overlapped' \in BOOLEAN
      BY <1>3 DEF PublishContainer, Overlap
    <2> QED
      BY <1>3, <2>1 DEF PublishContainer, TypeOK, Status
  <1>4. ASSUME NEW j \in Operation, NEW c \in Container, MakeContainer(j, c)
        PROVE  TypeOK'
    <2>1. NoRows \in [Row -> RowState] /\ c # None
      BY NoneAssumption DEF NoRows, RowState
    <2> QED
      BY <1>4, <2>1 DEF MakeContainer, TypeOK, Status
  <1> QED
    BY <1>1, <1>2, <1>3, <1>4

\* Rows are inserted, completed and saved.
LEMMA TypeSave ==
  ASSUME TypeOK, NEW f \in Fetch,
         \/ \E w \in Row : InsertUser(f, w)
         \/ CompleteUser(f) \/ SaveContext(f) \/ SaveContextFails(f)
  PROVE  TypeOK'
  <1>0. /\ Save(f) \in Operation
        /\ SaveRunning(f) => mine[Save(f)] \in Container
    BY OperationFacts, RunningFacts
  <1>1. ASSUME NEW w \in Row, InsertUser(f, w)
        PROVE  TypeOK'
    <2>1. left[f] - 1 \in 0..UserCount
      BY <1>1, UserCountAssumption DEF InsertUser, TypeOK
    <2>2. left' \in [Fetch -> 0..UserCount]
      BY <1>1, <2>1 DEF InsertUser, TypeOK
    <2>3. context' \in [Container -> [Row -> RowState]]
      BY <1>0, <1>1 DEF InsertUser, TypeOK, RowState
    <2>4. building' \in [Fetch -> Row \union {None}]
      BY <1>1 DEF InsertUser, TypeOK
    <2> QED
      BY <1>1, <2>2, <2>3, <2>4 DEF InsertUser, TypeOK
  <1>2. CASE CompleteUser(f)
    <2>1. building[f] \in Row
      BY <1>2 DEF CompleteUser, TypeOK
    <2>2. context' \in [Container -> [Row -> RowState]]
      BY <1>0, <1>2, <2>1 DEF CompleteUser, TypeOK, RowState
    <2> QED
      BY <1>2, <2>2 DEF CompleteUser, TypeOK
  <1>3. CASE SaveContext(f) \/ SaveContextFails(f)
    <2>1. /\ status' = [status EXCEPT ![Save(f)] = "free"]
          /\ mine' = [mine EXCEPT ![Save(f)] = None]
      BY <1>3 DEF SaveContext, SaveContextFails, EndSave
    <2>2. /\ status' \in [Operation -> Status]
          /\ mine' \in [Operation -> Container \union {None}]
          /\ \A j \in Operation : status'[j] \in {"opening", "running"} => mine'[j] # None
      BY <1>0, <2>1 DEF TypeOK, Status
    <2>3. store' \in [Row -> RowState]
      BY <1>0, <1>3, SeenType DEF SaveContext, SaveContextFails, TypeOK
    <2> QED
      BY <1>3, <2>2, <2>3 DEF SaveContext, SaveContextFails, TypeOK
  <1> QED
    BY <1>1, <1>2, <1>3

\* Rows are fetched, mapped and delivered.
LEMMA TypeRead ==
  ASSUME TypeOK, NEW f \in Fetch,
         FetchRows(f) \/ FetchFails(f) \/ MapRow(f) \/ DeliverUsers(f)
  PROVE  TypeOK'
  <1>0. /\ Read(f) \in Operation
        /\ ReadRunning(f) => mine[Read(f)] \in Container
    BY OperationFacts, RunningFacts
  <1>1. CASE FetchRows(f)
    <2> DEFINE c == mine[Read(f)]
               rows == {w \in Row : Seen(c, w) # "none"}
               what(w) == IF context[c][w] # "none" THEN "live" ELSE store[w]
    <2>1. c \in Container
      BY <1>0, <1>1 DEF FetchRows
    <2>2. \A w \in rows : what(w) \in {"live", "partial", "full"}
      BY <2>1 DEF TypeOK, RowState, Seen
    <2>3. {<<w, what(w)>> : w \in rows} \subseteq Row \X {"live", "partial", "full"}
      BY <2>2
    <2>4. /\ unread' = [unread EXCEPT ![f] = {<<w, what(w)>> : w \in rows}]
          /\ fetched' = [fetched EXCEPT ![f] = rows]
      BY <1>1 DEF FetchRows
    <2>5. unread' \in [Fetch -> SUBSET (Row \X {"live", "partial", "full"})]
      BY <2>3, <2>4 DEF TypeOK
    <2>6. fetched' \in [Fetch -> (SUBSET Row) \union {None}]
      BY <2>4 DEF TypeOK
    <2> QED
      BY <1>1, <2>5, <2>6 DEF FetchRows, TypeOK
  <1>2. CASE FetchFails(f)
    BY <1>0, <1>2 DEF FetchFails, TypeOK, Status
  <1>3. CASE MapRow(f)
    BY <1>3 DEF MapRow, TypeOK
  <1>4. CASE DeliverUsers(f)
    <2>1. /\ userArray' \in (SUBSET Row) \union {None}
          /\ fetched' \in [Fetch -> (SUBSET Row) \union {None}]
      BY <1>4 DEF DeliverUsers, TypeOK
    <2>2. /\ status' \in [Operation -> Status]
          /\ mine' \in [Operation -> Container \union {None}]
          /\ \A j \in Operation : status'[j] \in {"opening", "running"} => mine'[j] # None
      BY <1>0, <1>4 DEF DeliverUsers, TypeOK, Status
    <2> QED
      BY <1>4, <2>1, <2>2 DEF DeliverUsers, TypeOK
  <1> QED
    BY <1>1, <1>2, <1>3, <1>4

\* Every step keeps the types.
LEMMA TypeStep == TypeOK /\ [Next]_vars => TypeOK'
  <1> SUFFICES ASSUME TypeOK, [Next]_vars
               PROVE  TypeOK'
    OBVIOUS
  <1>1. CASE Restart
    <2>1. /\ left' \in [Fetch -> 0..UserCount]
          /\ context' \in [Container -> [Row -> RowState]]
      BY <1>1, UserCountAssumption DEF Restart, NoRows, RowState
    <2>2. /\ status' \in [Operation -> Status]
          /\ \A j \in Operation : status'[j] \notin {"opening", "running"}
      BY <1>1 DEF Restart, Status
    <2> QED
      BY <1>1, <2>1, <2>2 DEF Restart, TypeOK
  <1>2. CASE UNCHANGED vars
    BY <1>2 DEF vars, TypeOK
  <1> QED
    BY <1>1, <1>2, TypeOpening, TypeSave, TypeRead DEF Next, CrashOnRow, Die

-----------------------------------------------------------------------------
(***************************************************************************)
(* Rows being filled in.                                                   *)
(***************************************************************************)

\* The steps that neither insert nor complete a row, nor end the process.
Elsewhere ==
  \/ \E f \in Fetch :
       \/ FetchUserData(f) \/ SaveContext(f) \/ SaveContextFails(f)
       \/ FetchRows(f) \/ FetchFails(f) \/ MapRow(f) \/ DeliverUsers(f)
  \/ \E j \in Operation : UseContainer(j) \/ PublishContainer(j)
  \/ \E j \in Operation, c \in Container : MakeContainer(j, c)
  \/ UNCHANGED vars

\* Every step is of one of four kinds.
LEMMA StepKinds ==
  [Next]_vars =>
    \/ Elsewhere
    \/ \E f \in Fetch, w \in Row : InsertUser(f, w)
    \/ \E f \in Fetch : CompleteUser(f)
    \/ Restart
  BY DEF Next, Elsewhere, CrashOnRow, Die

\* Such a step leaves a save that is filling in a row at its work, and contexts
\* can only be emptied.
LEMMA ElsewhereFacts ==
  ASSUME TypeOK, BuilderIsAtWork, Elsewhere
  PROVE  /\ building' = building
         /\ \A f \in Fetch : building[f] # None =>
              /\ SaveRunning(f)'
              /\ mine'[Save(f)] = mine[Save(f)]
              /\ context'[mine[Save(f)]] = context[mine[Save(f)]]
         /\ \A c \in Container : context'[c] = context[c] \/ context'[c] = NoRows
         /\ context' \in [Container -> [Row -> RowState]]
  <1>0. \A f \in Fetch : building[f] # None => status[Save(f)] = "running"
    BY DEF BuilderIsAtWork, SaveRunning
  <1> SUFFICES
        /\ building' = building
        /\ \A f \in Fetch : building[f] # None =>
             /\ status'[Save(f)] = "running"
             /\ mine'[Save(f)] = mine[Save(f)]
             /\ context'[mine[Save(f)]] = context[mine[Save(f)]]
        /\ \A c \in Container : context'[c] = context[c] \/ context'[c] = NoRows
    BY TypeStep, StepKinds DEF SaveRunning, Elsewhere, Next, TypeOK
  <1>1. ASSUME NEW f \in Fetch,
               FetchUserData(f) \/ FetchRows(f) \/ FetchFails(f) \/ MapRow(f) \/ DeliverUsers(f)
        PROVE  /\ building' = building /\ context' = context
               /\ \A g \in Fetch : status[Save(g)] = "running" =>
                    status'[Save(g)] = "running" /\ mine'[Save(g)] = mine[Save(g)]
    BY <1>1, OperationFacts
       DEF FetchUserData, FetchRows, FetchFails, MapRow, DeliverUsers, TypeOK
  <1>2. ASSUME NEW f \in Fetch, SaveContext(f) \/ SaveContextFails(f)
        PROVE  /\ building' = building /\ context' = context
               /\ \A g \in Fetch : building[g] # None =>
                    status'[Save(g)] = status[Save(g)] /\ mine'[Save(g)] = mine[Save(g)]
    BY <1>2, OperationFacts DEF SaveContext, SaveContextFails, EndSave, TypeOK
  <1>3. ASSUME NEW j \in Operation, UseContainer(j) \/ PublishContainer(j)
        PROVE  /\ building' = building /\ context' = context
               /\ \A g \in Fetch : status[Save(g)] = "running" =>
                    status'[Save(g)] = "running" /\ mine'[Save(g)] = mine[Save(g)]
    BY <1>3, OperationFacts DEF UseContainer, PublishContainer, TypeOK
  <1>4. ASSUME NEW j \in Operation, NEW c \in Container, MakeContainer(j, c)
        PROVE  /\ building' = building
               /\ \A g \in Fetch : status[Save(g)] = "running" =>
                    /\ status'[Save(g)] = "running" /\ mine'[Save(g)] = mine[Save(g)]
                    /\ context'[mine[Save(g)]] = context[mine[Save(g)]]
               /\ \A d \in Container : context'[d] = context[d] \/ context'[d] = NoRows
    <2>1. \A g \in Fetch : status[Save(g)] = "running" =>
            mine[Save(g)] \in Container /\ mine[Save(g)] # c /\ Save(g) # j
      BY <1>4, OperationFacts, RunningFacts DEF MakeContainer, SaveRunning
    <2> QED
      BY <1>4, <2>1, OperationFacts DEF MakeContainer, TypeOK
  <1>5. CASE UNCHANGED vars
    BY <1>0, <1>5 DEF vars
  <1> QED
    BY <1>0, <1>1, <1>2, <1>3, <1>4, <1>5 DEF Elsewhere

\* An inserted row was unused; it belongs to the save that inserted it.
LEMMA InsertFacts ==
  ASSUME TypeOK, NEW f \in Fetch, NEW w \in Row, InsertUser(f, w)
  PROVE  LET c == mine[Save(f)] IN
         /\ c \in Container /\ SaveRunning(f)'
         /\ building[f] = None /\ building'[f] = w /\ w # None
         /\ \A g \in Fetch : g # f => building'[g] = building[g]
         /\ \A d \in Container : context[d][w] = "none"
         /\ store[w] = "none"
         /\ context'[c][w] = "partial"
         /\ \A d \in Container, v \in Row :
              d # c \/ v # w => context'[d][v] = context[d][v]
         /\ UNCHANGED <<status, mine, store, fetched, unread, userArray, overlapped>>
  <1>1. mine[Save(f)] \in Container
    BY RunningFacts DEF InsertUser
  <1> QED
    BY <1>1, NoneAssumption DEF InsertUser, TypeOK, Unused, SaveRunning

\* A row is completed by the save that fills it in.
LEMMA CompleteFacts ==
  ASSUME TypeOK, NEW f \in Fetch, CompleteUser(f)
  PROVE  LET c == mine[Save(f)]
             w == building[f]
         IN
         /\ c \in Container /\ w \in Row /\ w # None /\ SaveRunning(f)
         /\ building'[f] = None
         /\ \A g \in Fetch : g # f => building'[g] = building[g]
         /\ context'[c][w] = "full"
         /\ \A d \in Container, v \in Row :
              d # c \/ v # w => context'[d][v] = context[d][v]
         /\ UNCHANGED <<status, mine, store, fetched, unread, userArray, overlapped>>
  <1>1. mine[Save(f)] \in Container /\ building[f] \in Row
    BY RunningFacts DEF CompleteUser, TypeOK
  <1> QED
    BY <1>1 DEF CompleteUser, TypeOK

-----------------------------------------------------------------------------
(***************************************************************************)
(* The parts of the inductive invariant, one by one.                       *)
(***************************************************************************)

\* A row is partial from its insertion until the save that fills it in has
\* completed it, and that save cannot end meanwhile.
LEMMA BuilderStep ==
  TypeOK /\ BuilderIsAtWork /\ BuildersDiffer /\ [Next]_vars
    => BuilderIsAtWork' /\ BuildersDiffer'
  <1> SUFFICES ASSUME TypeOK, BuilderIsAtWork, BuildersDiffer, [Next]_vars
               PROVE  BuilderIsAtWork' /\ BuildersDiffer'
    OBVIOUS
  <1>1. CASE Elsewhere
    BY <1>1, ElsewhereFacts DEF BuilderIsAtWork, BuildersDiffer
  <1>2. ASSUME NEW f \in Fetch, NEW w \in Row, InsertUser(f, w)
        PROVE  BuilderIsAtWork' /\ BuildersDiffer'
    <2>1. \A g \in Fetch : building[g] # None =>
            /\ mine[Save(g)] \in Container /\ building[g] # w
            /\ building[g] \in Row /\ g # f
      BY <1>2, InsertFacts, RunningFacts DEF BuilderIsAtWork, TypeOK
    <2>2. \A g \in Fetch : SaveRunning(g)' <=> SaveRunning(g)
      BY <1>2 DEF InsertUser, SaveRunning
    <2>3. BuilderIsAtWork'
      BY <1>2, <2>1, <2>2, InsertFacts DEF BuilderIsAtWork
    <2>4. BuildersDiffer'
      BY <1>2, <2>1, InsertFacts DEF BuildersDiffer
    <2> QED
      BY <2>3, <2>4
  <1>3. ASSUME NEW f \in Fetch, CompleteUser(f)
        PROVE  BuilderIsAtWork' /\ BuildersDiffer'
    <2>1. \A g \in Fetch : g # f /\ building[g] # None =>
            /\ mine[Save(g)] \in Container /\ building[g] # building[f]
            /\ building[g] \in Row
      BY <1>3, CompleteFacts, RunningFacts DEF BuilderIsAtWork, BuildersDiffer, TypeOK
    <2>2. \A g \in Fetch : SaveRunning(g)' <=> SaveRunning(g)
      BY <1>3 DEF CompleteUser, SaveRunning
    <2>3. BuilderIsAtWork'
      BY <1>3, <2>1, <2>2, CompleteFacts DEF BuilderIsAtWork
    <2>4. BuildersDiffer'
      BY <1>3, <2>1, CompleteFacts DEF BuildersDiffer
    <2> QED
      BY <2>3, <2>4
  <1>4. CASE Restart
    BY <1>4 DEF Restart, BuilderIsAtWork, BuildersDiffer
  <1> QED
    BY <1>1, <1>2, <1>3, <1>4, StepKinds

\* A partial row comes about by an insertion only, and its save goes on.
LEMMA HalfBuiltStep ==
  TypeOK /\ BuilderIsAtWork /\ HalfBuiltIsAccountedFor /\ [Next]_vars
    => HalfBuiltIsAccountedFor'
  <1> SUFFICES ASSUME TypeOK, BuilderIsAtWork, HalfBuiltIsAccountedFor, [Next]_vars,
                      NEW c \in Container, NEW w \in Row, context'[c][w] = "partial"
               PROVE  \E f \in Fetch :
                        SaveRunning(f)' /\ building'[f] = w /\ mine'[Save(f)] = c
    BY DEF HalfBuiltIsAccountedFor, UnderWay
  <1>0. context[c][w] = "partial" =>
          \E f \in Fetch : SaveRunning(f) /\ building[f] = w /\ mine[Save(f)] = c
    BY DEF HalfBuiltIsAccountedFor, UnderWay
  <1>1. CASE Elsewhere
    <2>1. context[c][w] = "partial"
      BY <1>1, ElsewhereFacts DEF NoRows
    <2>2. w # None
      BY NoneAssumption
    <2> QED
      BY <1>0, <1>1, <2>1, <2>2, ElsewhereFacts
  <1>2. ASSUME NEW f \in Fetch, NEW v \in Row, InsertUser(f, v)
        PROVE  \E g \in Fetch :
                 SaveRunning(g)' /\ building'[g] = w /\ mine'[Save(g)] = c
    <2>1. CASE c = mine[Save(f)] /\ w = v
      BY <1>2, <2>1, InsertFacts
    <2>2. CASE c # mine[Save(f)] \/ w # v
      <3>1. PICK g \in Fetch : SaveRunning(g) /\ building[g] = w /\ mine[Save(g)] = c
        BY <1>0, <1>2, <2>2, InsertFacts
      <3>2. g # f
        BY <1>2, <3>1, InsertFacts, NoneAssumption
      <3> QED
        BY <1>2, <3>1, <3>2, InsertFacts DEF SaveRunning
    <2> QED
      BY <2>1, <2>2
  <1>3. ASSUME NEW f \in Fetch, CompleteUser(f)
        PROVE  \E g \in Fetch :
                 SaveRunning(g)' /\ building'[g] = w /\ mine'[Save(g)] = c
    <2>1. c # mine[Save(f)] \/ w # building[f]
      BY <1>3, CompleteFacts
    <2>2. PICK g \in Fetch : SaveRunning(g) /\ building[g] = w /\ mine[Save(g)] = c
      BY <1>0, <1>3, <2>1, CompleteFacts
    <2>3. g # f
      BY <2>1, <2>2
    <2> QED
      BY <1>3, <2>2, <2>3, CompleteFacts DEF SaveRunning
  <1>4. CASE Restart
    BY <1>4 DEF Restart, NoRows
  <1> QED
    BY <1>1, <1>2, <1>3, <1>4, StepKinds

\* What a step does to the disk: context.save alone writes there.
LEMMA StoreFacts ==
  ASSUME TypeOK, [Next]_vars
  PROVE  \/ store' = store
         \/ \E f \in Fetch :
              /\ SaveContext(f)
              /\ mine[Save(f)] \in Container /\ SaveRunning(f) /\ building[f] = None
              /\ context' = context /\ overlapped' = overlapped
              /\ \A w \in Row : store'[w] = Seen(mine[Save(f)], w)
  <1>1. ASSUME NEW f \in Fetch, SaveContext(f)
        PROVE  /\ mine[Save(f)] \in Container /\ SaveRunning(f) /\ building[f] = None
               /\ context' = context /\ overlapped' = overlapped
               /\ \A w \in Row : store'[w] = Seen(mine[Save(f)], w)
    BY <1>1, RunningFacts DEF SaveContext
  <1>2. store' = store \/ \E f \in Fetch : SaveContext(f)
    BY DEF Next, vars, FetchUserData, UseContainer, MakeContainer, PublishContainer,
           InsertUser, CompleteUser, SaveContextFails, FetchRows, FetchFails, MapRow,
           DeliverUsers, CrashOnRow, Die, Restart
  <1> QED
    BY <1>1, <1>2

\* A row is inserted into one context, where no other knows it.
LEMMA OneContextStep ==
  TypeOK /\ BuilderIsAtWork /\ RowsHaveOneContext /\ [Next]_vars => RowsHaveOneContext'
  <1> SUFFICES ASSUME TypeOK, BuilderIsAtWork, RowsHaveOneContext, [Next]_vars,
                      NEW c \in Container, NEW d \in Container, NEW w \in Row,
                      context'[c][w] # "none", context'[d][w] # "none"
               PROVE  c = d
    BY DEF RowsHaveOneContext
  <1>0. context[c][w] # "none" /\ context[d][w] # "none" => c = d
    BY DEF RowsHaveOneContext
  <1>1. CASE Elsewhere
    BY <1>0, <1>1, ElsewhereFacts DEF NoRows
  <1>2. ASSUME NEW f \in Fetch, NEW v \in Row, InsertUser(f, v)
        PROVE  c = d
    BY <1>0, <1>2, InsertFacts
  <1>3. ASSUME NEW f \in Fetch, CompleteUser(f)
        PROVE  c = d
    <2>1. context[mine[Save(f)]][building[f]] # "none"
      BY <1>3, CompleteFacts DEF BuilderIsAtWork
    <2> QED
      BY <1>0, <1>3, <2>1, CompleteFacts
  <1>4. CASE Restart
    BY <1>4 DEF Restart, NoRows
  <1> QED
    BY <1>1, <1>2, <1>3, <1>4, StepKinds

\* A row that is full on disk was written full, and is not touched again.
LEMMA FullStep ==
  TypeOK /\ BuilderIsAtWork /\ RowsHaveOneContext /\ FullStaysFull /\ [Next]_vars
    => FullStaysFull' /\ \A w \in Row : store[w] = "full" => store'[w] = "full"
  <1> SUFFICES ASSUME TypeOK, BuilderIsAtWork, RowsHaveOneContext, FullStaysFull, [Next]_vars
               PROVE  FullStaysFull' /\ \A w \in Row : store[w] = "full" => store'[w] = "full"
    OBVIOUS
  <1>1. \A w \in Row : store[w] = "full" => store'[w] = "full"
    BY StoreFacts DEF Seen, FullStaysFull, TypeOK, RowState
  <1> SUFFICES ASSUME NEW c \in Container, NEW w \in Row, store'[w] = "full",
                      context'[c][w] = "partial"
               PROVE  FALSE
    BY <1>1 DEF FullStaysFull
  <1>2. CASE store' = store
    <2>1. context[c][w] # "partial" /\ store[w] = "full"
      BY <1>2 DEF FullStaysFull
    <2>2. CASE Elsewhere
      BY <2>1, <2>2, ElsewhereFacts DEF NoRows
    <2>3. ASSUME NEW f \in Fetch, NEW v \in Row, InsertUser(f, v)
          PROVE  FALSE
      BY <2>1, <2>3, InsertFacts
    <2>4. ASSUME NEW f \in Fetch, CompleteUser(f)
          PROVE  FALSE
      BY <2>1, <2>4, CompleteFacts
    <2>5. CASE Restart
      BY <2>5 DEF Restart, NoRows
    <2> QED
      BY <2>2, <2>3, <2>4, <2>5, StepKinds
  <1>3. ASSUME NEW f \in Fetch, mine[Save(f)] \in Container, context' = context,
               store'[w] = Seen(mine[Save(f)], w)
        PROVE  FALSE
    BY <1>3 DEF Seen, FullStaysFull, RowsHaveOneContext
  <1> QED
    BY <1>2, <1>3, StoreFacts

\* Saves come to run on one container only where an operation gets hold of it,
\* and there the overlap is noted.
LEMMA OverlapStep == TypeOK /\ OverlapIsNoted /\ [Next]_vars => OverlapIsNoted'
  <1> SUFFICES ASSUME TypeOK, OverlapIsNoted, [Next]_vars
               PROVE  OverlapIsNoted'
    OBVIOUS
  <1>1. ASSUME overlapped' = overlapped,
               \A f \in Fetch : status'[Save(f)] = "running" =>
                 status[Save(f)] = "running" /\ mine'[Save(f)] = mine[Save(f)]
        PROVE  OverlapIsNoted'
    BY <1>1 DEF OverlapIsNoted, Overlap, SaveRunning
  <1>2. ASSUME NEW f \in Fetch,
               \/ \E w \in Row : InsertUser(f, w)
               \/ FetchUserData(f) \/ CompleteUser(f) \/ SaveContext(f) \/ SaveContextFails(f)
        PROVE  OverlapIsNoted'
    BY <1>1, <1>2, OperationFacts
       DEF FetchUserData, InsertUser, CompleteUser, SaveContext, SaveContextFails,
           EndSave, TypeOK
  <1>3. ASSUME NEW f \in Fetch,
               FetchRows(f) \/ FetchFails(f) \/ MapRow(f) \/ DeliverUsers(f)
        PROVE  OverlapIsNoted'
    BY <1>1, <1>3, OperationFacts DEF FetchRows, FetchFails, MapRow, DeliverUsers, TypeOK
  <1>4. ASSUME NEW j \in Operation, UseContainer(j) \/ PublishContainer(j)
        PROVE  OverlapIsNoted'
    BY <1>4 DEF UseContainer, PublishContainer, OverlapIsNoted
  <1>5. ASSUME NEW j \in Operation, NEW c \in Container, MakeContainer(j, c)
        PROVE  OverlapIsNoted'
    BY <1>1, <1>5, OperationFacts DEF MakeContainer, TypeOK
  <1>6. CASE Restart
    BY <1>1, <1>6, OperationFacts DEF Restart
  <1>7. CASE UNCHANGED vars
    BY <1>1, <1>7 DEF vars
  <1> QED
    BY <1>2, <1>3, <1>4, <1>5, <1>6, <1>7 DEF Next, CrashOnRow, Die

\* Two saves that have overlapped are never forgotten.
LEMMA OverlapStays == [Next]_vars => (overlapped => overlapped')
  BY DEF Next, vars, FetchUserData, UseContainer, MakeContainer, PublishContainer,
         InsertUser, CompleteUser, SaveContext, SaveContextFails, FetchRows, FetchFails,
         MapRow, DeliverUsers, CrashOnRow, Die, Restart

\* A save that writes a half-built row writes that of another save, which runs
\* on the same container.
LEMMA FullRowsStep ==
  TypeOK /\ HalfBuiltIsAccountedFor /\ OverlapIsNoted /\ FullRowsOnDisk /\ [Next]_vars
    => FullRowsOnDisk'
  <1> SUFFICES ASSUME TypeOK, HalfBuiltIsAccountedFor, OverlapIsNoted, FullRowsOnDisk,
                      [Next]_vars, ~overlapped', NEW w \in Row, store'[w] = "partial"
               PROVE  FALSE
    BY DEF FullRowsOnDisk
  <1>1. ~overlapped /\ store[w] # "partial"
    BY OverlapStays DEF FullRowsOnDisk
  <1>2. PICK f \in Fetch :
          /\ mine[Save(f)] \in Container /\ SaveRunning(f) /\ building[f] = None
          /\ Seen(mine[Save(f)], w) = "partial"
    BY <1>1, StoreFacts
  <1>3. context[mine[Save(f)]][w] = "partial"
    BY <1>1, <1>2 DEF Seen
  <1>4. PICK g \in Fetch : SaveRunning(g) /\ building[g] = w /\ mine[Save(g)] = mine[Save(f)]
    BY <1>2, <1>3 DEF HalfBuiltIsAccountedFor, UnderWay
  <1>5. g # f
    BY <1>2, <1>4, NoneAssumption
  <1> QED
    BY <1>1, <1>2, <1>4, <1>5 DEF OverlapIsNoted, Overlap

\* What a running read knows of the container, and of what it has fetched.
LEMMA ReadFacts ==
  ASSUME TypeOK, [Next]_vars, NEW f \in Fetch, ReadRunning(f), ~Restart,
         ~FetchRows(f), ~FetchFails(f), ~MapRow(f), ~DeliverUsers(f)
  PROVE  /\ ReadRunning(f)' /\ mine'[Read(f)] = mine[Read(f)]
         /\ fetched'[f] = fetched[f] /\ unread'[f] = unread[f]
  <1>0. status[Read(f)] = "running" /\ Read(f) \in Operation
    BY OperationFacts DEF ReadRunning
  <1> SUFFICES /\ status'[Read(f)] = "running" /\ mine'[Read(f)] = mine[Read(f)]
               /\ fetched'[f] = fetched[f] /\ unread'[f] = unread[f]
    BY DEF ReadRunning
  <1>1. ASSUME NEW g \in Fetch,
               \/ \E w \in Row : InsertUser(g, w)
               \/ FetchUserData(g) \/ CompleteUser(g) \/ SaveContext(g) \/ SaveContextFails(g)
        PROVE  /\ status'[Read(f)] = "running" /\ mine'[Read(f)] = mine[Read(f)]
               /\ fetched' = fetched /\ unread' = unread
    BY <1>0, <1>1, OperationFacts
       DEF FetchUserData, InsertUser, CompleteUser, SaveContext, SaveContextFails,
           EndSave, TypeOK
  <1>2. ASSUME NEW g \in Fetch, g # f,
               FetchRows(g) \/ FetchFails(g) \/ MapRow(g) \/ DeliverUsers(g)
        PROVE  /\ status'[Read(f)] = "running" /\ mine'[Read(f)] = mine[Read(f)]
               /\ fetched'[f] = fetched[f] /\ unread'[f] = unread[f]
    BY <1>0, <1>2, OperationFacts DEF FetchRows, FetchFails, MapRow, DeliverUsers, TypeOK
  <1>3. ASSUME NEW j \in Operation,
               \/ UseContainer(j) \/ PublishContainer(j)
               \/ \E c \in Container : MakeContainer(j, c)
        PROVE  /\ status'[Read(f)] = "running" /\ mine'[Read(f)] = mine[Read(f)]
               /\ fetched' = fetched /\ unread' = unread
    BY <1>0, <1>3 DEF UseContainer, PublishContainer, MakeContainer, TypeOK
  <1>4. CASE UNCHANGED vars
    BY <1>0, <1>4 DEF vars
  <1> QED
    BY <1>1, <1>2, <1>3, <1>4 DEF Next, CrashOnRow, Die

\* A row once in the context of a running operation stays there, though its
\* state may change: no container that is in use is made anew.
LEMMA ContextStays ==
  ASSUME TypeOK, BuilderIsAtWork, [Next]_vars, ~Restart, NEW j \in Operation,
         mine[j] \in Container, NEW w \in Row, context[mine[j]][w] # "none"
  PROVE  context'[mine[j]][w] # "none"
  <1>1. ASSUME NEW f \in Fetch, NEW v \in Row, InsertUser(f, v)
        PROVE  context'[mine[j]][w] # "none"
    BY <1>1, InsertFacts
  <1>2. ASSUME NEW f \in Fetch, CompleteUser(f)
        PROVE  context'[mine[j]][w] # "none"
    BY <1>2, CompleteFacts
  <1>3. ASSUME NEW i \in Operation, NEW c \in Container, MakeContainer(i, c)
        PROVE  context'[mine[j]][w] # "none"
    BY <1>3 DEF MakeContainer, TypeOK
  <1>4. ASSUME context' = context
        PROVE  context'[mine[j]][w] # "none"
    BY <1>4
  <1> QED
    BY <1>1, <1>2, <1>3, <1>4
       DEF Next, CrashOnRow, Die, FetchUserData, UseContainer, PublishContainer,
           SaveContext, SaveContextFails, FetchRows, FetchFails, MapRow, DeliverUsers, vars

\* A read finds a row partial for as long as it is: it can drop no other row from
\* what it has to map.
LEMMA FetchedStep ==
  TypeOK /\ BuilderIsAtWork /\ RowsHaveOneContext /\ FullStaysFull
    /\ FetchedIsAccountedFor /\ [Next]_vars => FetchedIsAccountedFor'
  <1> SUFFICES ASSUME TypeOK, BuilderIsAtWork, RowsHaveOneContext, FullStaysFull,
                      FetchedIsAccountedFor, [Next]_vars, NEW f \in Fetch, fetched'[f] # None
               PROVE  /\ ReadRunning(f)'
                      /\ \A w \in fetched'[f] :
                           \/ context'[mine'[Read(f)]][w] # "none"
                           \/ store'[w] = "full"
                           \/ <<w, "partial">> \in unread'[f]
    BY DEF FetchedIsAccountedFor
  <1> DEFINE Accounted ==
               /\ ReadRunning(f)'
               /\ \A w \in fetched'[f] :
                    \/ context'[mine'[Read(f)]][w] # "none"
                    \/ store'[w] = "full"
                    \/ <<w, "partial">> \in unread'[f]
  <1>0. ~Restart
    BY DEF Restart
  <1>1. CASE FetchRows(f)
    <2> DEFINE c == mine[Read(f)]
               rows == {w \in Row : Seen(c, w) # "none"}
               what(w) == IF context[c][w] # "none" THEN "live" ELSE store[w]
    <2>1. /\ fetched'[f] = rows
          /\ unread'[f] = {<<w, what(w)>> : w \in rows}
          /\ UNCHANGED <<status, mine, context, store>>
          /\ ReadRunning(f)
      BY <1>1 DEF FetchRows, TypeOK
    <2>2. c \in Container
      BY <2>1, RunningFacts
    <2>3. ASSUME NEW w \in rows
          PROVE  context[c][w] # "none" \/ store[w] = "full" \/ <<w, "partial">> \in unread'[f]
      <3>1. CASE context[c][w] = "none" /\ store[w] # "full"
        <4>1. store[w] = "partial"
          BY <3>1, <2>2 DEF Seen, TypeOK, RowState
        <4>2. what(w) = "partial"
          BY <3>1, <4>1
        <4> QED
          BY <2>1, <4>2
      <3> QED
        BY <3>1
    <2>4. ReadRunning(f)'
      BY <2>1 DEF ReadRunning
    <2> HIDE DEF rows, what
    <2> QED
      BY <2>1, <2>3, <2>4
  <1>2. ASSUME ~FetchRows(f), ~DeliverUsers(f)
        PROVE  fetched'[f] = fetched[f]
    <2>1. ASSUME NEW g \in Fetch, FetchRows(g)
          PROVE  fetched'[f] = fetched[f]
      <3>1. f # g
        BY <1>2, <2>1
      <3> QED
        BY <2>1, <3>1 DEF FetchRows, TypeOK
    <2>2. ASSUME NEW g \in Fetch, DeliverUsers(g)
          PROVE  fetched'[f] = fetched[f]
      <3>1. f # g
        BY <1>2, <2>2
      <3> QED
        BY <2>2, <3>1 DEF DeliverUsers, TypeOK
    <2>3. CASE fetched' = fetched
      BY <2>3
    <2> QED
      BY <1>0, <2>1, <2>2, <2>3
         DEF Next, CrashOnRow, Die, FetchUserData, UseContainer, PublishContainer,
             MakeContainer, InsertUser, CompleteUser, SaveContext, SaveContextFails,
             FetchFails, MapRow, vars
  <1>3. ~DeliverUsers(f)
    BY DEF DeliverUsers, TypeOK
  <1>4. CASE ~FetchRows(f)
    <2>1. /\ fetched[f] # None /\ fetched'[f] = fetched[f] /\ ReadRunning(f)
          /\ fetched[f] \subseteq Row
          /\ \A w \in fetched[f] :
               \/ context[mine[Read(f)]][w] # "none"
               \/ store[w] = "full"
               \/ <<w, "partial">> \in unread[f]
      BY <1>2, <1>3, <1>4 DEF FetchedIsAccountedFor, TypeOK
    <2>2. ~FetchFails(f)
      BY <2>1 DEF FetchFails
    <2>3. /\ ReadRunning(f)'
          /\ mine'[Read(f)] = mine[Read(f)]
          /\ \A w \in Row : <<w, "partial">> \in unread[f] => <<w, "partial">> \in unread'[f]
      <3>1. CASE MapRow(f)
        <4>1. PICK row \in unread[f] :
                /\ Found(f, row) = "full"
                /\ unread' = [unread EXCEPT ![f] = unread[f] \ {row}]
                /\ UNCHANGED <<status, mine>>
          BY <3>1 DEF MapRow
        <4>2. \A w \in Row : row # <<w, "partial">>
          BY <4>1 DEF Found
        <4> QED
          BY <2>1, <4>1, <4>2 DEF TypeOK, ReadRunning
      <3>2. CASE ~MapRow(f)
        BY <1>0, <1>3, <1>4, <2>1, <2>2, <3>2, ReadFacts
      <3> QED
        BY <3>1, <3>2
    <2>4. \A w \in Row :
            context[mine[Read(f)]][w] # "none" => context'[mine[Read(f)]][w] # "none"
      BY <1>0, <2>1, OperationFacts, RunningFacts, ContextStays
    <2>5. \A w \in Row : store[w] = "full" => store'[w] = "full"
      BY FullStep
    <2> QED
      BY <2>1, <2>3, <2>4, <2>5
  <1> QED
    BY <1>1, <1>4

-----------------------------------------------------------------------------
(***************************************************************************)
(* Counting rows: without overlapping saves the disk holds whole lists.    *)
(***************************************************************************)

\* Whole lists and whole lists are whole lists.
LEMMA WholeSum ==
  /\ 0 % UserCount = 0
  /\ \A m, n \in Nat : m % UserCount = 0 /\ n % UserCount = 0 => (m + n) % UserCount = 0
  /\ \A m \in Nat : m % UserCount = 0 => (m + UserCount) % UserCount = 0
  <1>0. UserCount \in Nat \ {0}
    BY UserCountAssumption
  <1>1. 0 % UserCount = 0 /\ UserCount % UserCount = 0
    BY <1>0
  <1>2. ASSUME NEW m \in Nat, NEW n \in Nat, m % UserCount = 0, n % UserCount = 0
        PROVE  (m + n) % UserCount = 0
    <2>1. PICK i \in Nat : m = i * UserCount
      BY <1>0, <1>2
    <2>2. PICK j \in Nat : n = j * UserCount
      BY <1>0, <1>2
    <2>3. i + j \in Nat /\ m + n = (i + j) * UserCount
      BY <1>0, <2>1, <2>2
    <2>4. \A k \in Nat : (k * UserCount) % UserCount = 0
      BY <1>0
    <2> QED
      BY <2>3, <2>4
  <1> QED
    BY <1>0, <1>1, <1>2

\* How the rows on disk and those that wait in the contexts add up.
LEMMA RowCounts ==
  ASSUME RowsAreFinite
  PROVE  /\ Cardinality(OnDisk) \in Nat
         /\ \A c \in Container : Cardinality(Unsaved(c)) \in Nat
  BY FS_CardinalityType DEF RowsAreFinite

\* No save has inserted anything before it runs (the loop of saveUser).
LEMMA NothingInsertedStep == TypeOK /\ NothingInsertedYet /\ [Next]_vars => NothingInsertedYet'
  <1> SUFFICES ASSUME TypeOK, NothingInsertedYet, [Next]_vars
               PROVE  NothingInsertedYet'
    OBVIOUS
  <1> USE DEF NothingInsertedYet
  <1>1. ASSUME NEW f \in Fetch,
               FetchUserData(f) \/ SaveContext(f) \/ SaveContextFails(f)
        PROVE  NothingInsertedYet'
    BY <1>1, OperationFacts DEF FetchUserData, SaveContext, SaveContextFails, EndSave, TypeOK
  <1>2. ASSUME NEW f \in Fetch,
               FetchRows(f) \/ FetchFails(f) \/ MapRow(f) \/ DeliverUsers(f)
        PROVE  NothingInsertedYet'
    BY <1>2, OperationFacts DEF FetchRows, FetchFails, MapRow, DeliverUsers, TypeOK
  <1>3. ASSUME NEW f \in Fetch, CompleteUser(f) \/ \E w \in Row : InsertUser(f, w)
        PROVE  NothingInsertedYet'
    BY <1>3, OperationFacts DEF CompleteUser, InsertUser, SaveRunning, TypeOK
  <1>4. ASSUME NEW j \in Operation, UseContainer(j) \/ PublishContainer(j)
        PROVE  NothingInsertedYet'
    BY <1>4, OperationFacts DEF UseContainer, PublishContainer, TypeOK
  <1>5. ASSUME NEW j \in Operation, NEW c \in Container, MakeContainer(j, c)
        PROVE  NothingInsertedYet'
    BY <1>5, OperationFacts DEF MakeContainer, TypeOK
  <1>6. CASE Restart
    BY <1>6, OperationFacts DEF Restart
  <1>7. CASE UNCHANGED vars
    BY <1>7 DEF vars
  <1> QED
    BY <1>1, <1>2, <1>3, <1>4, <1>5, <1>6, <1>7 DEF Next, CrashOnRow, Die

\* A step that moves no row, starts or ends no save and leaves to every save at
\* work what it has left changes nothing about the lists.
LEMMA ListsStay ==
  ASSUME RowsAreFinite, ListsAddUp, overlapped' = overlapped, OnDisk' = OnDisk,
         \A c \in Container : Unsaved(c)' = Unsaved(c),
         \A c \in Container, f \in Fetch :
           /\ Saving(f, c)' <=> Saving(f, c)
           /\ Saving(f, c) => left'[f] = left[f]
  PROVE  RowsAreFinite' /\ ListsAddUp'
  BY DEF RowsAreFinite, ListsAddUp, WholeListsOnDisk

\* Enqueueing, reading and completing a row.
LEMMA ListsKept ==
  ASSUME TypeOK, BuilderIsAtWork, RowsAreFinite, ListsAddUp, NEW f \in Fetch,
         \/ FetchUserData(f) \/ CompleteUser(f)
         \/ FetchRows(f) \/ FetchFails(f) \/ MapRow(f) \/ DeliverUsers(f)
  PROVE  RowsAreFinite' /\ ListsAddUp'
  <1>1. overlapped' = overlapped /\ store' = store
    BY DEF FetchUserData, CompleteUser, FetchRows, FetchFails, MapRow, DeliverUsers
  <1>2. \A c \in Container, g \in Fetch : Saving(g, c)' <=> Saving(g, c)
    BY OperationFacts
       DEF FetchUserData, CompleteUser, FetchRows, FetchFails, MapRow, DeliverUsers,
           Saving, SaveRunning, TypeOK
  <1>3. \A c \in Container, g \in Fetch : Saving(g, c) => left'[g] = left[g]
    BY OperationFacts
       DEF FetchUserData, CompleteUser, FetchRows, FetchFails, MapRow, DeliverUsers,
           Saving, SaveRunning, TypeOK
  <1>4. \A c \in Container : Unsaved(c)' = Unsaved(c)
    <2>1. CASE CompleteUser(f)
      <3>1. context[mine[Save(f)]][building[f]] # "none"
        BY <2>1, CompleteFacts DEF BuilderIsAtWork
      <3>2. \A c \in Container, w \in Row : context'[c][w] # "none" <=> context[c][w] # "none"
        BY <2>1, <3>1, CompleteFacts
      <3> QED
        BY <1>1, <3>2 DEF Unsaved
    <2>2. CASE ~CompleteUser(f)
      <3>1. context' = context
        BY <2>2 DEF FetchUserData, FetchRows, FetchFails, MapRow, DeliverUsers
      <3> QED
        BY <1>1, <3>1 DEF Unsaved
    <2> QED
      BY <2>1, <2>2
  <1>5. OnDisk' = OnDisk
    BY <1>1 DEF OnDisk
  <1> QED
    BY <1>1, <1>2, <1>3, <1>4, <1>5, ListsStay

\* A save that gets hold of its container has its whole list left to insert, and
\* finds whole lists there, unless another save is at work.
LEMMA ListsOpened ==
  ASSUME TypeOK, OverlapIsNoted', RowsAreFinite, NothingInsertedYet, ListsAddUp,
         NEW j \in Operation, UseContainer(j) \/ PublishContainer(j)
  PROVE  RowsAreFinite' /\ ListsAddUp'
  <1>1. /\ OnDisk' = OnDisk /\ \A c \in Container : Unsaved(c)' = Unsaved(c)
        /\ left' = left
        /\ overlapped => overlapped'
    BY DEF UseContainer, PublishContainer, OnDisk, Unsaved
  <1>2. \A c \in Container, g \in Fetch :
          /\ Saving(g, c) => Saving(g, c)'
          /\ Saving(g, c)' => Saving(g, c) \/ j = Save(g)
    BY OperationFacts DEF UseContainer, PublishContainer, Saving, SaveRunning, TypeOK
  <1>3. \A g \in Fetch : j = Save(g) => left[g] = UserCount
    BY DEF UseContainer, PublishContainer, NothingInsertedYet
  <1>4. RowsAreFinite'
    BY <1>1 DEF RowsAreFinite
  <1>5. ASSUME ~overlapped', NEW c \in Container, NEW g \in Fetch, Saving(g, c)'
        PROVE  (Cardinality(Unsaved(c)) + left[g]) % UserCount = 0
    <2>1. CASE Saving(g, c)
      BY <1>1, <1>5, <2>1 DEF ListsAddUp
    <2>2. CASE ~Saving(g, c)
      <3>1. j = Save(g)
        BY <1>2, <1>5, <2>2
      <3>2. \A h \in Fetch : ~Saving(h, c)
        <4> SUFFICES ASSUME NEW h \in Fetch, Saving(h, c)
                     PROVE  FALSE
          OBVIOUS
        <4>1. h # g /\ Saving(h, c)'
          BY <1>2, <2>2
        <4> QED
          BY <1>5, <4>1 DEF OverlapIsNoted, Overlap, Saving
      <3>3. Cardinality(Unsaved(c)) % UserCount = 0
        BY <1>1, <1>5, <3>2 DEF ListsAddUp
      <3>4. Cardinality(Unsaved(c)) \in Nat
        BY RowCounts
      <3> QED
        BY <1>3, <3>1, <3>3, <3>4, WholeSum
    <2> QED
      BY <2>1, <2>2
  <1>6. ListsAddUp'
    BY <1>1, <1>2, <1>5 DEF ListsAddUp, WholeListsOnDisk
  <1> QED
    BY <1>4, <1>6

\* A new container is empty, and nothing is at work on it.
LEMMA ListsMade ==
  ASSUME TypeOK, RowsAreFinite, ListsAddUp,
         NEW j \in Operation, NEW d \in Container, MakeContainer(j, d)
  PROVE  RowsAreFinite' /\ ListsAddUp'
  <1>1. /\ OnDisk' = OnDisk /\ left' = left /\ overlapped' = overlapped
        /\ \A c \in Container : Unsaved(c)' = IF c = d THEN {} ELSE Unsaved(c)
    <2>1. /\ store' = store /\ left' = left /\ overlapped' = overlapped
          /\ \A c \in Container : context'[c] = IF c = d THEN NoRows ELSE context[c]
      BY DEF MakeContainer, TypeOK
    <2>2. \A w \in Row : NoRows[w] = "none"
      BY DEF NoRows
    <2>3. Unsaved(d)' = {}
      BY <2>1, <2>2 DEF Unsaved
    <2> QED
      BY <2>1, <2>3 DEF OnDisk, Unsaved
  <1>2. \A c \in Container, g \in Fetch : Saving(g, c)' <=> Saving(g, c) /\ c # d
    BY OperationFacts DEF MakeContainer, Saving, SaveRunning, TypeOK
  <1>3. RowsAreFinite'
    BY <1>1, FS_EmptySet DEF RowsAreFinite
  <1>4. Cardinality({}) % UserCount = 0
    BY FS_EmptySet, WholeSum
  <1>5. ASSUME ~overlapped, NEW c \in Container
        PROVE  /\ (\A g \in Fetch : ~Saving(g, c)') => Cardinality(Unsaved(c)') % UserCount = 0
               /\ \A g \in Fetch :
                    Saving(g, c)' => (Cardinality(Unsaved(c)') + left'[g]) % UserCount = 0
    <2>1. CASE c = d
      BY <1>1, <1>2, <1>4, <2>1
    <2>2. CASE c # d
      <3>1. Unsaved(c)' = Unsaved(c) /\ \A g \in Fetch : Saving(g, c)' <=> Saving(g, c)
        BY <1>1, <1>2, <2>2
      <3> QED
        BY <1>1, <1>5, <3>1 DEF ListsAddUp
    <2> QED
      BY <2>1, <2>2
  <1>6. ListsAddUp'
    BY <1>1, <1>5 DEF ListsAddUp, WholeListsOnDisk
  <1> QED
    BY <1>3, <1>6

\* What a save inserts, it has no longer left to insert.
LEMMA ListsInsert ==
  ASSUME TypeOK, OverlapIsNoted, RowsAreFinite, ListsAddUp,
         NEW f \in Fetch, NEW w \in Row, InsertUser(f, w)
  PROVE  RowsAreFinite' /\ ListsAddUp'
  <1>0. PICK c \in Container : c = mine[Save(f)]
    BY InsertFacts
  <1>1. /\ Saving(f, c)
        /\ OnDisk' = OnDisk /\ overlapped' = overlapped
        /\ left[f] \in Nat /\ left[f] > 0 /\ left'[f] = left[f] - 1
        /\ \A g \in Fetch : g # f => left'[g] = left[g]
        /\ \A d \in Container, g \in Fetch : Saving(g, d)' <=> Saving(g, d)
    BY <1>0, InsertFacts, UserCountAssumption
       DEF InsertUser, Saving, SaveRunning, OnDisk, TypeOK
  <1>2. /\ w \notin Unsaved(c) /\ Unsaved(c)' = Unsaved(c) \union {w}
        /\ \A d \in Container : d # c => Unsaved(d)' = Unsaved(d)
    <2>1. /\ store' = store /\ store[w] = "none" /\ context[c][w] = "none"
          /\ context'[c][w] = "partial"
          /\ \A d \in Container, v \in Row : d # c \/ v # w => context'[d][v] = context[d][v]
      BY <1>0, InsertFacts
    <2> QED
      BY <2>1 DEF Unsaved
  <1>3. /\ IsFiniteSet(Unsaved(c)) /\ IsFiniteSet(Unsaved(c)')
        /\ Cardinality(Unsaved(c)) \in Nat
        /\ Cardinality(Unsaved(c)') = Cardinality(Unsaved(c)) + 1
    <2>1. IsFiniteSet(Unsaved(c)) /\ Cardinality(Unsaved(c)) \in Nat
      BY RowCounts DEF RowsAreFinite
    <2> QED
      BY <1>2, <2>1, FS_AddElement
  <1>4. RowsAreFinite'
    BY <1>1, <1>2, <1>3 DEF RowsAreFinite
  <1>5. Cardinality(Unsaved(c)') + left'[f] = Cardinality(Unsaved(c)) + left[f]
    BY <1>1, <1>3
  <1>6. ~overlapped => \A g \in Fetch : Saving(g, c) => g = f
    BY <1>1 DEF OverlapIsNoted, Overlap, Saving
  <1>7. \A d \in Container, g \in Fetch :
          ~overlapped /\ Saving(g, d) =>
            Cardinality(Unsaved(d)') + left'[g] = Cardinality(Unsaved(d)) + left[g]
    <2> SUFFICES ASSUME NEW d \in Container, NEW g \in Fetch, ~overlapped, Saving(g, d)
                 PROVE  Cardinality(Unsaved(d)') + left'[g] = Cardinality(Unsaved(d)) + left[g]
      OBVIOUS
    <2>1. CASE d = c
      BY <1>5, <1>6, <2>1
    <2>2. CASE d # c
      <3>1. g # f
        BY <1>0, <2>2 DEF Saving
      <3> QED
        BY <1>1, <1>2, <2>2, <3>1
    <2> QED
      BY <2>1, <2>2
  <1>8. ListsAddUp'
    BY <1>1, <1>2, <1>7 DEF ListsAddUp, WholeListsOnDisk
  <1> QED
    BY <1>4, <1>8

\* A save ends with nothing left to insert, written or not; what it writes is all
\* that waits in its context and in no other (context.save).
LEMMA ListsSaved ==
  ASSUME TypeOK, OverlapIsNoted, RowsHaveOneContext, RowsAreFinite, ListsAddUp,
         NEW f \in Fetch, SaveContext(f) \/ SaveContextFails(f)
  PROVE  RowsAreFinite' /\ ListsAddUp'
  <1>0. PICK c \in Container : c = mine[Save(f)]
    BY RunningFacts DEF SaveContext, SaveContextFails
  <1>1. /\ Saving(f, c)
        /\ left' = left /\ left[f] = 0 /\ overlapped' = overlapped
        /\ context' = context
    BY <1>0 DEF SaveContext, SaveContextFails, Saving
  <1>2. \A d \in Container, g \in Fetch : Saving(g, d)' <=> Saving(g, d) /\ g # f
    BY OperationFacts DEF SaveContext, SaveContextFails, EndSave, Saving, SaveRunning, TypeOK
  <1>3. ~overlapped => \A g \in Fetch : Saving(g, c) => g = f
    BY <1>1 DEF OverlapIsNoted, Overlap, Saving
  <1>4. Cardinality(OnDisk) \in Nat /\ Cardinality(Unsaved(c)) \in Nat
    BY <1>1, RowCounts
  <1>5. ~overlapped => Cardinality(Unsaved(c)) % UserCount = 0
    BY <1>1, <1>4 DEF ListsAddUp
  <1>6. \A d \in Container : d # c => ~Saving(f, d)
    BY <1>0 DEF Saving
  <1>7. CASE SaveContextFails(f)
    <2>1. OnDisk' = OnDisk /\ \A d \in Container : Unsaved(d)' = Unsaved(d)
      BY <1>7 DEF SaveContextFails, OnDisk, Unsaved
    <2>2. RowsAreFinite'
      BY <2>1 DEF RowsAreFinite
    <2>3. ListsAddUp'
      BY <1>1, <1>2, <1>3, <1>5, <1>6, <2>1 DEF ListsAddUp, WholeListsOnDisk
    <2> QED
      BY <2>2, <2>3
  <1>8. CASE SaveContext(f)
    <2>1. \A w \in Row :
            store'[w] # "none" <=> store[w] # "none" \/ context[c][w] # "none"
      BY <1>0, <1>8 DEF SaveContext, Seen
    <2>2. /\ OnDisk' = OnDisk \union Unsaved(c) /\ OnDisk \intersect Unsaved(c) = {}
          /\ Unsaved(c)' = {}
      BY <1>1, <2>1 DEF OnDisk, Unsaved
    <2>3. \A d \in Container : d # c => Unsaved(d)' = Unsaved(d)
      <3> SUFFICES ASSUME NEW d \in Container, d # c, NEW w \in Row
                   PROVE  w \in Unsaved(d)' <=> w \in Unsaved(d)
        BY DEF Unsaved
      <3>1. context[d][w] # "none" => context[c][w] = "none"
        BY <1>1 DEF RowsHaveOneContext
      <3> QED
        BY <1>1, <2>1, <3>1 DEF Unsaved
    <2>4. /\ IsFiniteSet(OnDisk')
          /\ Cardinality(OnDisk') = Cardinality(OnDisk) + Cardinality(Unsaved(c))
      <3>1. IsFiniteSet(OnDisk) /\ IsFiniteSet(Unsaved(c))
        BY <1>1 DEF RowsAreFinite
      <3>2. /\ IsFiniteSet(OnDisk')
            /\ Cardinality(OnDisk') = Cardinality(OnDisk) + Cardinality(Unsaved(c))
                                        - Cardinality({})
        BY <2>2, <3>1, FS_Union
      <3> QED
        BY <1>4, <3>2, FS_EmptySet
    <2>5. RowsAreFinite'
      BY <2>2, <2>3, <2>4, FS_EmptySet DEF RowsAreFinite
    <2>6. ~overlapped => Cardinality(OnDisk') % UserCount = 0
      BY <1>4, <1>5, <2>4, WholeSum DEF ListsAddUp, WholeListsOnDisk
    <2>7. Cardinality({}) % UserCount = 0
      BY FS_EmptySet, WholeSum
    <2>8. ListsAddUp'
      BY <1>1, <1>2, <1>3, <1>6, <2>2, <2>3, <2>6, <2>7 DEF ListsAddUp, WholeListsOnDisk
    <2> QED
      BY <2>5, <2>8
  <1> QED
    BY <1>7, <1>8

\* Nothing waits and nothing is at work after a crash; the disk is as it was.
LEMMA ListsRestart ==
  ASSUME RowsAreFinite, ListsAddUp, Restart
  PROVE  RowsAreFinite' /\ ListsAddUp'
  <1>1. OnDisk' = OnDisk /\ overlapped' = overlapped
    BY DEF Restart, OnDisk
  <1>2. \A c \in Container : Unsaved(c)' = {}
    BY DEF Restart, Unsaved, NoRows
  <1>3. \A c \in Container, g \in Fetch : ~Saving(g, c)'
    BY OperationFacts DEF Restart, Saving, SaveRunning
  <1>4. Cardinality({}) % UserCount = 0
    BY FS_EmptySet, WholeSum
  <1> QED
    BY <1>1, <1>2, <1>3, <1>4, FS_EmptySet DEF RowsAreFinite, ListsAddUp, WholeListsOnDisk

\* Every step keeps the count.
LEMMA ListsStep ==
  ASSUME TypeOK, BuilderIsAtWork, RowsHaveOneContext, OverlapIsNoted, OverlapIsNoted',
         RowsAreFinite, NothingInsertedYet, ListsAddUp, [Next]_vars
  PROVE  RowsAreFinite' /\ ListsAddUp'
  <1>1. CASE UNCHANGED vars
    BY <1>1, ListsStay DEF vars, OnDisk, Unsaved, Saving, SaveRunning
  <1> QED
    BY <1>1, ListsKept, ListsOpened, ListsMade, ListsInsert, ListsSaved, ListsRestart
       DEF Next, CrashOnRow, Die

-----------------------------------------------------------------------------
(***************************************************************************)
(* Reads beside saves, and containers that lost the race.                  *)
(***************************************************************************)

\* Nothing runs, and so nothing is inserted, before a container is published.
LEMMA NothingBeforeStep ==
  TypeOK /\ NothingBeforeTheContainer /\ [Next]_vars => NothingBeforeTheContainer'
  <1> SUFFICES ASSUME TypeOK, NothingBeforeTheContainer, [Next]_vars, shared' = None
               PROVE  /\ \A j \in Operation : status'[j] # "running"
                      /\ \A c \in Container : context'[c] = NoRows
                      /\ userArray' = None
    BY DEF NothingBeforeTheContainer
  <1>1. CASE Restart
    BY <1>1 DEF Restart
  <1>2. ASSUME shared = None
        PROVE  /\ \A j \in Operation : status[j] # "running"
               /\ \A c \in Container : context[c] = NoRows
               /\ userArray = None
    BY <1>2 DEF NothingBeforeTheContainer
  <1>3. ASSUME NEW f \in Fetch
        PROVE  /\ ~SaveRunning(f) \/ shared # None
               /\ ~ReadRunning(f) \/ shared # None
    BY <1>2, OperationFacts DEF SaveRunning, ReadRunning
  <1>4. ASSUME NEW f \in Fetch,
               \/ \E w \in Row : InsertUser(f, w)
               \/ CompleteUser(f) \/ SaveContext(f) \/ SaveContextFails(f)
               \/ FetchRows(f) \/ FetchFails(f) \/ DeliverUsers(f)
        PROVE  FALSE
    BY <1>3, <1>4
       DEF InsertUser, CompleteUser, SaveContext, SaveContextFails, FetchRows,
           FetchFails, DeliverUsers
  <1>5. ASSUME NEW f \in Fetch, FetchUserData(f)
        PROVE  /\ \A j \in Operation : status'[j] # "running"
               /\ UNCHANGED <<context, userArray, shared>>
    BY <1>2, <1>5 DEF FetchUserData, TypeOK
  <1>6. ASSUME NEW f \in Fetch, MapRow(f)
        PROVE  UNCHANGED <<status, context, userArray, shared>>
    BY <1>6 DEF MapRow
  <1>7. ASSUME NEW j \in Operation, UseContainer(j) \/ PublishContainer(j)
        PROVE  FALSE
    BY <1>7, NoneAssumption DEF UseContainer, PublishContainer, TypeOK
  <1>8. ASSUME NEW j \in Operation, NEW c \in Container, MakeContainer(j, c)
        PROVE  /\ \A i \in Operation : status'[i] # "running"
               /\ \A d \in Container : context'[d] = NoRows
               /\ userArray' = None
    BY <1>2, <1>8 DEF MakeContainer, TypeOK
  <1>9. CASE UNCHANGED vars
    BY <1>2, <1>9 DEF vars
  <1> QED
    BY <1>1, <1>2, <1>4, <1>5, <1>6, <1>7, <1>8, <1>9 DEF Next, CrashOnRow, Die

\* Short of a crash a row in a context changes only by being completed.
LEMMA RowStays ==
  ASSUME TypeOK, NothingBeforeTheContainer, [Next]_vars, ~Restart,
         NEW c \in Container, NEW w \in Row, context[c][w] # "none"
  PROVE  \/ context'[c][w] = context[c][w]
         \/ \E f \in Fetch : CompleteUser(f) /\ mine[Save(f)] = c /\ context'[c][w] = "full"
  <1>1. ASSUME NEW f \in Fetch, NEW v \in Row, InsertUser(f, v)
        PROVE  context'[c][w] = context[c][w]
    BY <1>1, InsertFacts
  <1>2. ASSUME NEW f \in Fetch, CompleteUser(f)
        PROVE  \/ context'[c][w] = context[c][w]
               \/ mine[Save(f)] = c /\ context'[c][w] = "full"
    BY <1>2, CompleteFacts
  <1>3. ASSUME NEW j \in Operation, NEW d \in Container, MakeContainer(j, d)
        PROVE  FALSE
    BY <1>3 DEF MakeContainer, NothingBeforeTheContainer, NoRows
  <1>4. ASSUME context' = context
        PROVE  context'[c][w] = context[c][w]
    BY <1>4
  <1> QED
    BY <1>1, <1>2, <1>3, <1>4
       DEF Next, vars, FetchUserData, UseContainer, PublishContainer, SaveContext,
           SaveContextFails, FetchRows, FetchFails, MapRow, DeliverUsers, CrashOnRow, Die

\* A complete row stays complete, on disk or in its context, short of a crash.
LEMMA WholeStays ==
  ASSUME TypeOK, BuilderIsAtWork, RowsHaveOneContext, FullStaysFull,
         NothingBeforeTheContainer, [Next]_vars, ~Restart, NEW w \in Row, Whole(w)
  PROVE  Whole(w)'
  <1>1. CASE store[w] = "full"
    BY <1>1, FullStep DEF Whole
  <1>2. ASSUME NEW c \in Container, context[c][w] = "full"
        PROVE  context'[c][w] = "full"
    BY <1>2, RowStays
  <1> QED
    BY <1>1, <1>2 DEF Whole

\* What a read has fetched changes by its own steps only.
LEMMA FetchedKept ==
  ASSUME TypeOK, [Next]_vars, ~Restart, NEW f \in Fetch,
         ~FetchRows(f), ~MapRow(f), ~DeliverUsers(f)
  PROVE  fetched'[f] = fetched[f] /\ unread'[f] = unread[f]
  <1>1. ASSUME NEW g \in Fetch, g # f, FetchRows(g) \/ MapRow(g) \/ DeliverUsers(g)
        PROVE  fetched'[f] = fetched[f] /\ unread'[f] = unread[f]
    BY <1>1 DEF FetchRows, MapRow, DeliverUsers, TypeOK
  <1>2. ASSUME UNCHANGED <<fetched, unread>>
        PROVE  fetched'[f] = fetched[f] /\ unread'[f] = unread[f]
    BY <1>2
  <1> QED
    BY <1>1, <1>2
       DEF Next, vars, FetchUserData, UseContainer, MakeContainer, PublishContainer,
           InsertUser, CompleteUser, SaveContext, SaveContextFails, FetchFails,
           CrashOnRow, Die

\* A fetch notes each row as it is on disk, or as one of the context.
LEMMA FetchNotes ==
  ASSUME TypeOK, FullRowsOnDisk, NEW f \in Fetch, FetchRows(f)
  PROVE  /\ fetched'[f] # None
         /\ \A w \in fetched'[f] : \E row \in unread'[f] : row[1] = w
         /\ \A row \in unread'[f] :
              /\ row[2] = "full" => store[row[1]] = "full"
              /\ row[2] = "partial" => overlapped
  <1> DEFINE c == mine[Read(f)]
             rows == {w \in Row : Seen(c, w) # "none"}
             what(w) == IF context[c][w] # "none" THEN "live" ELSE store[w]
  <1>1. /\ fetched'[f] = rows
        /\ unread'[f] = {<<w, what(w)>> : w \in rows}
    BY DEF FetchRows, TypeOK
  <1>2. \A w \in rows :
          /\ what(w) = "full" => store[w] = "full"
          /\ what(w) = "partial" => overlapped
    BY DEF FullRowsOnDisk
  <1>3. rows # None
    BY NoneAssumption
  <1>4. \A w \in rows : <<w, what(w)>> \in unread'[f] /\ <<w, what(w)>>[1] = w
    BY <1>1
  <1>5. \A row \in unread'[f] : row[1] \in rows /\ row[2] = what(row[1])
    BY <1>1
  <1> HIDE DEF rows, what
  <1>6. fetched'[f] # None /\ \A w \in fetched'[f] : \E row \in unread'[f] : row[1] = w
    BY <1>1, <1>3, <1>4
  <1>7. ASSUME NEW row \in unread'[f]
        PROVE  /\ row[2] = "full" => store[row[1]] = "full"
               /\ row[2] = "partial" => overlapped
    BY <1>2, <1>5
  <1> QED
    BY <1>6, <1>7

\* What a read still has to map it finds as noted, and what it has mapped is
\* complete.
LEMMA UnreadStep ==
  ASSUME TypeOK, BuilderIsAtWork, RowsHaveOneContext, FullStaysFull, FullRowsOnDisk,
         FetchedIsAccountedFor, NothingBeforeTheContainer, UnreadIsAccountedFor, [Next]_vars
  PROVE  UnreadIsAccountedFor'
  <1> DEFINE Accounted(f) ==
        /\ fetched[f] = None => unread[f] = {}
        /\ fetched[f] # None =>
             \A w \in fetched[f] : Whole(w) \/ \E row \in unread[f] : row[1] = w
        /\ \A row \in unread[f] :
             /\ row[2] = "full" => store[row[1]] = "full"
             /\ row[2] = "partial" => overlapped
  <1>0. \A f \in Fetch : Accounted(f)
    BY DEF UnreadIsAccountedFor
  <1> SUFFICES ASSUME NEW f \in Fetch
               PROVE  Accounted(f)'
    BY DEF UnreadIsAccountedFor
  <1>1. /\ \A row \in unread[f] : row[1] \in Row
        /\ fetched[f] # None => fetched[f] \subseteq Row
    BY DEF TypeOK
  <1>2. \A w \in Row : store[w] = "full" => store'[w] = "full"
    BY FullStep
  <1>3. overlapped => overlapped'
    BY OverlapStays
  <1>4. CASE Restart
    BY <1>4 DEF Restart
  <1>5. CASE FetchRows(f)
    <2>1. store' = store /\ overlapped' = overlapped
      BY <1>5 DEF FetchRows
    <2> QED
      BY <1>5, <2>1, FetchNotes
  <1>6. ASSUME MapRow(f), ~Restart
        PROVE  Accounted(f)'
    <2>1. PICK row \in unread[f] :
            Found(f, row) = "full" /\ unread'[f] = unread[f] \ {row}
      BY <1>6 DEF MapRow, TypeOK
    <2>2. fetched' = fetched /\ store' = store /\ context' = context
          /\ overlapped' = overlapped
      BY <1>6 DEF MapRow
    <2>3. ReadRunning(f) /\ mine[Read(f)] \in Container
      BY <1>0, <2>1, RunningFacts DEF FetchedIsAccountedFor
    <2>4. row[1] \in Row /\ Whole(row[1])
      BY <1>0, <1>1, <2>1, <2>3 DEF Found, Whole
    <2>5. \A w : Whole(w)' <=> Whole(w)
      BY <2>2 DEF Whole
    <2> QED
      BY <1>0, <2>1, <2>2, <2>4, <2>5
  <1>7. CASE DeliverUsers(f)
    BY <1>7 DEF DeliverUsers, TypeOK
  <1>8. ASSUME ~Restart, ~FetchRows(f), ~MapRow(f), ~DeliverUsers(f)
        PROVE  Accounted(f)'
    <2>1. fetched'[f] = fetched[f] /\ unread'[f] = unread[f]
      BY <1>8, FetchedKept
    <2>2. \A w \in Row : Whole(w) => Whole(w)'
      BY <1>8, WholeStays
    <2> QED
      BY <1>0, <1>1, <1>2, <1>3, <2>1, <2>2
  <1> QED
    BY <1>4, <1>5, <1>6, <1>7, <1>8

\* A read delivers once it has nothing left to map; what it delivered stays.
LEMMA DeliveredStep ==
  ASSUME TypeOK, BuilderIsAtWork, RowsHaveOneContext, FullStaysFull,
         NothingBeforeTheContainer, UnreadIsAccountedFor, DeliveredUsersAreWhole,
         [Next]_vars
  PROVE  DeliveredUsersAreWhole'
  <1>1. CASE Restart
    BY <1>1 DEF Restart, DeliveredUsersAreWhole
  <1>2. ASSUME NEW f \in Fetch, DeliverUsers(f)
        PROVE  DeliveredUsersAreWhole'
    <2>1. /\ userArray' = fetched[f] /\ fetched[f] # None /\ unread[f] = {}
          /\ store' = store /\ context' = context
      BY <1>2 DEF DeliverUsers
    <2>2. \A w \in fetched[f] : Whole(w)
      BY <2>1 DEF UnreadIsAccountedFor
    <2> QED
      BY <2>1, <2>2 DEF DeliveredUsersAreWhole, Whole
  <1>3. ASSUME ~Restart, userArray' = userArray
        PROVE  DeliveredUsersAreWhole'
    <2>1. userArray # None => userArray \subseteq Row
      BY DEF TypeOK
    <2> QED
      BY <1>3, <2>1, WholeStays DEF DeliveredUsersAreWhole
  <1> QED
    BY <1>1, <1>2, <1>3
       DEF Next, vars, FetchUserData, UseContainer, MakeContainer, PublishContainer,
           InsertUser, CompleteUser, SaveContext, SaveContextFails, FetchRows, FetchFails,
           MapRow, CrashOnRow, Die

\* A container that lost the race is out of reach, and its rows are in it alone.
LEMMA OrphanedStep ==
  ASSUME TypeOK, RowsHaveOneContext, NothingBeforeTheContainer, [Next]_vars,
         NEW c \in Container, NEW w \in Row, Orphaned(c, w)
  PROVE  Orphaned(c, w)' \/ (store'[w] = "none" /\ context'[c][w] = "none")
  <1>0. /\ shared # None /\ shared # c /\ \A j \in Operation : mine[j] # c
        /\ context[c][w] # "none" /\ store[w] = "none" /\ c # None
    BY NoneAssumption DEF Orphaned
  <1>1. CASE Restart
    BY <1>0, <1>1 DEF Restart, NoRows
  <1>2. store'[w] = "none"
    <2>1. CASE store' = store
      BY <1>0, <2>1
    <2>2. ASSUME NEW f \in Fetch, mine[Save(f)] \in Container,
                 store'[w] = Seen(mine[Save(f)], w)
          PROVE  store'[w] = "none"
      <3>1. mine[Save(f)] # c
        BY <1>0, OperationFacts
      <3>2. context[mine[Save(f)]][w] = "none"
        BY <1>0, <2>2, <3>1 DEF RowsHaveOneContext
      <3> QED
        BY <1>0, <2>2, <3>2 DEF Seen
    <2> QED
      BY <2>1, <2>2, StoreFacts
  <1>3. ASSUME ~Restart
        PROVE  context'[c][w] # "none"
    BY <1>0, <1>3, RowStays
  <1>4. ASSUME ~Restart
        PROVE  /\ shared' \notin {None, c} /\ \A j \in Operation : mine'[j] # c
    <2>1. ASSUME NEW j \in Operation, UseContainer(j)
          PROVE  shared' = shared /\ \A i \in Operation : mine'[i] # c
      BY <1>0, <2>1 DEF UseContainer, TypeOK
    <2>2. ASSUME NEW j \in Operation, PublishContainer(j)
          PROVE  shared' = mine[j] /\ mine' = mine /\ mine[j] # None
      BY <2>2 DEF PublishContainer, TypeOK
    <2>3. ASSUME NEW j \in Operation, NEW d \in Container, MakeContainer(j, d)
          PROVE  FALSE
      BY <1>0, <2>3 DEF MakeContainer
    <2>4. ASSUME NEW f \in Fetch, SaveContext(f) \/ SaveContextFails(f)
          PROVE  shared' = shared /\ \A i \in Operation : mine'[i] # c
      BY <1>0, <2>4, OperationFacts DEF SaveContext, SaveContextFails, EndSave, TypeOK
    <2>5. ASSUME NEW f \in Fetch, FetchFails(f) \/ DeliverUsers(f)
          PROVE  shared' = shared /\ \A i \in Operation : mine'[i] # c
      BY <1>0, <2>5, OperationFacts DEF FetchFails, DeliverUsers, TypeOK
    <2>6. ASSUME UNCHANGED <<shared, mine>>
          PROVE  shared' = shared /\ \A i \in Operation : mine'[i] # c
      BY <1>0, <2>6
    <2> QED
      BY <1>0, <1>4, <2>1, <2>2, <2>3, <2>4, <2>5, <2>6
         DEF Next, vars, FetchUserData, InsertUser, CompleteUser, FetchRows, MapRow,
             CrashOnRow, Die
  <1> QED
    BY <1>1, <1>2, <1>3, <1>4 DEF Orphaned

-----------------------------------------------------------------------------
(***************************************************************************)
(* The theorems.                                                           *)
(***************************************************************************)

\* Initially nothing runs and there are no rows.
LEMMA InvariantInit == Init => IInv
  <1> SUFFICES ASSUME Init
               PROVE  IInv
    OBVIOUS
  <1>1. TypeOK
    BY TypeInit
  <1>2. \A f \in Fetch : ~SaveRunning(f) /\ building[f] = None /\ fetched[f] = None
    BY OperationFacts DEF Init, SaveRunning
  <1>3. \A c \in Container, w \in Row : context[c][w] = "none" /\ store[w] = "none"
    BY DEF Init, NoRows
  <1>4. BuilderIsAtWork /\ BuildersDiffer /\ FetchedIsAccountedFor
    BY <1>2 DEF BuilderIsAtWork, BuildersDiffer, FetchedIsAccountedFor
  <1>5. HalfBuiltIsAccountedFor
    BY <1>3 DEF HalfBuiltIsAccountedFor
  <1>6. RowsHaveOneContext
    BY <1>3 DEF RowsHaveOneContext
  <1>7. FullStaysFull
    BY <1>3 DEF FullStaysFull
  <1>8. FullRowsOnDisk
    <2>1. \A w \in Row : store[w] = "none"
      BY DEF Init, NoRows
    <2> QED
      BY <2>1 DEF FullRowsOnDisk
  <1>9. OverlapIsNoted
    BY <1>2 DEF OverlapIsNoted, Overlap
  <1>10. NothingInsertedYet
    BY OperationFacts DEF Init, NothingInsertedYet
  <1>11. OnDisk = {} /\ \A c \in Container : Unsaved(c) = {}
    BY <1>3 DEF Init, NoRows, OnDisk, Unsaved
  <1>12. Cardinality({}) % UserCount = 0
    BY FS_EmptySet, WholeSum
  <1>13. RowsAreFinite /\ ListsAddUp
    BY <1>2, <1>11, <1>12, FS_EmptySet
       DEF RowsAreFinite, ListsAddUp, WholeListsOnDisk, Saving
  <1>14. NothingBeforeTheContainer /\ UnreadIsAccountedFor /\ DeliveredUsersAreWhole
    BY DEF Init, NothingBeforeTheContainer, UnreadIsAccountedFor, DeliveredUsersAreWhole
  <1> QED
    BY <1>1, <1>4, <1>5, <1>6, <1>7, <1>8, <1>9, <1>10, <1>13, <1>14 DEF IInv

\* Every step of the operations, and every crash, preserves the inductive
\* invariant.
LEMMA InvariantStep == IInv /\ [Next]_vars => IInv'
  BY TypeStep, BuilderStep, HalfBuiltStep, OneContextStep, FullStep, OverlapStep,
     FullRowsStep, FetchedStep, NothingBeforeStep, UnreadStep, DeliveredStep,
     NothingInsertedStep, ListsStep
     DEF IInv

\* The inductive invariant holds in every reachable state.
THEOREM InvariantHolds == Spec => []IInv
  BY InvariantInit, InvariantStep, PTL DEF Spec

\* Every variable keeps its type.
THEOREM TypeCorrect == Spec => []TypeOK
  <1>1. IInv => TypeOK
    BY DEF IInv
  <1> QED
    BY <1>1, InvariantHolds, PTL

\* A read fails on a missing attribute only beside the save that is about to set
\* it, as long as no two saves overlap.
THEOREM ReadsFailBesideABuilder == Spec => []ReadsFailOnlyBesideABuilder
  <1>1. IInv => ReadsFailOnlyBesideABuilder
    <2> SUFFICES ASSUME IInv, ~overlapped, NEW f \in Fetch, NEW row \in unread[f],
                        Found(f, row) = "partial"
                 PROVE  UnderWay(mine[Read(f)], row[1])
      BY DEF ReadsFailOnlyBesideABuilder
    <2>1. row[1] \in Row
      BY DEF IInv, TypeOK
    <2>2. row[2] # "partial" /\ fetched[f] # None
      BY DEF IInv, UnreadIsAccountedFor
    <2>3. mine[Read(f)] \in Container
      BY <2>2, RunningFacts DEF IInv, FetchedIsAccountedFor
    <2>4. context[mine[Read(f)]][row[1]] = "partial"
      BY <2>2 DEF Found
    <2> QED
      BY <2>1, <2>3, <2>4 DEF IInv, HalfBuiltIsAccountedFor
  <1> QED
    BY <1>1, InvariantHolds, PTL

\* Half-built rows reach the disk only by the save of another fetch that ends on
\* the same context while they are being filled in.
THEOREM HalfBuiltNeedsAnother == Spec => HalfBuiltIsSavedByAnother
  <1>1. IInv /\ [Next]_vars =>
          [\A w \in Row :
             store'[w] = "partial" /\ store[w] # "partial" =>
               \E f \in Fetch :
                 /\ SaveRunning(f) /\ building[f] # w /\ ~SaveRunning(f)'
                 /\ UnderWay(mine[Save(f)], w)]_vars
    <2> SUFFICES ASSUME IInv, [Next]_vars, NEW w \in Row,
                        store'[w] = "partial", store[w] # "partial"
                 PROVE  \E f \in Fetch :
                          /\ SaveRunning(f) /\ building[f] # w /\ ~SaveRunning(f)'
                          /\ UnderWay(mine[Save(f)], w)
      OBVIOUS
    <2>1. PICK f \in Fetch :
            /\ SaveContext(f) /\ mine[Save(f)] \in Container /\ SaveRunning(f)
            /\ building[f] = None /\ Seen(mine[Save(f)], w) = "partial"
      BY StoreFacts DEF IInv
    <2>2. context[mine[Save(f)]][w] = "partial"
      BY <2>1 DEF Seen
    <2>3. UnderWay(mine[Save(f)], w)
      BY <2>1, <2>2 DEF IInv, HalfBuiltIsAccountedFor
    <2>4. ~SaveRunning(f)'
      BY <2>1, OperationFacts DEF SaveContext, EndSave, SaveRunning, IInv, TypeOK
    <2>5. building[f] # w
      BY <2>1, NoneAssumption
    <2> QED
      BY <2>1, <2>3, <2>4, <2>5
  <1> QED
    BY <1>1, InvariantHolds, PTL DEF Spec, HalfBuiltIsSavedByAnother

\* Delivered users are complete and exist as long as the process does.
THEOREM DeliveredAreWhole == Spec => []DeliveredUsersAreWhole
  <1>1. IInv => DeliveredUsersAreWhole
    BY DEF IInv
  <1> QED
    BY <1>1, InvariantHolds, PTL

\* What waits in a container that lost the race is lost with the process.
THEOREM OrphansAreLost == Spec => LostRaceLosesRows
  <1>1. IInv /\ [Next]_vars =>
          [\A c \in Container, w \in Row :
             Orphaned(c, w) =>
               Orphaned(c, w)' \/ (store'[w] = "none" /\ context'[c][w] = "none")]_vars
    BY OrphanedStep DEF IInv
  <1> QED
    BY <1>1, InvariantHolds, PTL DEF Spec, LostRaceLosesRows

\* Without overlapping saves the disk holds whole lists of users, whatever failed
\* or crashed.
THEOREM DiskHoldsWholeLists == Spec => []WholeListsOnDisk
  <1>1. IInv => (~overlapped => WholeListsOnDisk)
    BY DEF IInv, ListsAddUp
  <1>2. overlapped => WholeListsOnDisk
    BY DEF WholeListsOnDisk
  <1> QED
    BY <1>1, <1>2, InvariantHolds, PTL

\* A poisoned row is changed by nothing, and a read that has fetched it never
\* comes to the end.
LEMMA PoisonStep ==
  ASSUME IInv, [Next]_vars, NEW w \in Row, Poisoned(w),
         \A f \in Fetch : fetched[f] # None => w \in fetched[f]
  PROVE  Poisoned(w)' /\ userArray' \in {userArray, None}
  <1> USE DEF IInv
  <1>0. store[w] = "partial" /\ \A c \in Container : context[c][w] = "none"
    BY DEF Poisoned
  <1>1. store'[w] = "partial"
    BY <1>0, StoreFacts DEF Seen
  <1>2. \A c \in Container : context'[c][w] = "none"
    <2>1. CASE Elsewhere
      BY <1>0, <2>1, ElsewhereFacts DEF NoRows
    <2>2. ASSUME NEW f \in Fetch, NEW v \in Row, InsertUser(f, v)
          PROVE  \A c \in Container : context'[c][w] = "none"
      BY <1>0, <2>2, InsertFacts
    <2>3. ASSUME NEW f \in Fetch, CompleteUser(f)
          PROVE  \A c \in Container : context'[c][w] = "none"
      <3>1. context[mine[Save(f)]][building[f]] = "partial"
        BY <2>3, CompleteFacts DEF BuilderIsAtWork
      <3>2. building[f] # w
        BY <1>0, <2>3, <3>1, CompleteFacts
      <3> QED
        BY <1>0, <2>3, <3>2, CompleteFacts
    <2>4. CASE Restart
      BY <2>4 DEF Restart, NoRows
    <2> QED
      BY <2>1, <2>2, <2>3, <2>4, StepKinds
  <1>3. ASSUME NEW f \in Fetch, DeliverUsers(f)
        PROVE  FALSE
    <2>1. fetched[f] # None /\ unread[f] = {} /\ ReadRunning(f)
      BY <1>3 DEF DeliverUsers
    <2>2. mine[Read(f)] \in Container
      BY <2>1, RunningFacts
    <2> QED
      BY <1>0, <2>1, <2>2 DEF FetchedIsAccountedFor
  <1>4. userArray' \in {userArray, None}
    BY <1>3
       DEF Next, vars, FetchUserData, UseContainer, MakeContainer, PublishContainer,
           InsertUser, CompleteUser, SaveContext, SaveContextFails, FetchRows, FetchFails,
           MapRow, CrashOnRow, Die, Restart
  <1> QED
    BY <1>1, <1>2, <1>4 DEF Poisoned

\* Once a half-built row is all that is left of its save, on disk, no read that
\* fetches it ever delivers, and no later step repairs or removes it.
THEOREM PoisonedForGood == Spec => PoisonIsForever
  <1>1. IInv /\ [Next]_vars =>
          [\A w \in Row :
             Poisoned(w) /\ (\A f \in Fetch : fetched[f] # None => w \in fetched[f]) =>
               Poisoned(w)' /\ userArray' \in {userArray, None}]_vars
    BY PoisonStep
  <1> QED
    BY <1>1, InvariantHolds, PTL DEF Spec, PoisonIsForever

=============================================================================
