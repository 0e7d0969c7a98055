----------------------------- MODULE UserStore ------------------------------
(***************************************************************************)
(* Users in Core Data: fetchUserData of AuthorizationViewController, the   *)
(* operations that ServiceCoreDataOperation puts on its OperationQueue,    *)
(* and the lazy persistentContainer of AppDelegate that they share.        *)
(*                                                                         *)
(* The queue is concurrent: a save and the read enqueued right after it,   *)
(* or two saves, run at the same time, on one managed object context that  *)
(* none of them locks.  A save inserts its users one by one and writes     *)
(* whatever the context holds; a read also sees what is not saved yet.     *)
(*                                                                         *)
(* A row is an object of entity Users with its pet and phone numbers.  It  *)
(* is partial from its insertion until every attribute and relationship    *)
(* that readUser unwraps by force is set, and full from then on.           *)
(***************************************************************************)
EXTENDS Naturals, FiniteSets

CONSTANTS
  Fetch,      \* bound: calls of fetchUserData under way at a time
  Row,        \* bound: the rows that can exist
  Container,  \* bound: the persistent containers that can exist at a time
  UserCount,  \* the users in the JSON file
  None

ASSUME UserCountAssumption == UserCount \in Nat \ {0}
ASSUME NoneAssumption ==
  /\ None \notin Row \union Container
  /\ \A rows \in SUBSET Row : None # rows

VARIABLES
  shared,      \* AppDelegate's persistentContainer, None until its first use
  status,      \* status[j]: how far the operation j is
  mine,        \* mine[j]: the container that operation j got hold of
  left,        \* left[f]: the users that the save of f has yet to insert
  building,    \* building[f]: the row that the save of f is filling in
  fetched,     \* fetched[f]: the rows that the read of f has fetched, or None
  unread,      \* unread[f]: those it has yet to map, each with what it will see
  context,     \* context[c][w]: row w as inserted through container c
  store,       \* store[w]: row w on disk
  userArray,   \* the rows last delivered to the view controller, or None
  overlapped   \* history: two saves have run on one container at a time

vars == <<shared, status, mine, left, building, fetched, unread,
          context, store, userArray, overlapped>>

-----------------------------------------------------------------------------

RowState == {"none", "partial", "full"}

Save(f) == <<f, "save">>
Read(f) == <<f, "read">>

Operation == Fetch \X {"save", "read"}

Status == {"free", "queued", "opening", "running"}

NoRows == [w \in Row |-> "none"]

\* A row as a fetch through container c finds it.
Seen(c, w) == IF context[c][w] # "none" THEN context[c][w] ELSE store[w]

OnDisk == {w \in Row : store[w] # "none"}

Unused(w) == store[w] = "none" /\ \A c \in Container : context[c][w] = "none"

SaveRunning(f) == status[Save(f)] = "running"
ReadRunning(f) == status[Read(f)] = "running"

Overlap ==
  \E f, g \in Fetch :
    f # g /\ SaveRunning(f) /\ SaveRunning(g) /\ mine[Save(f)] = mine[Save(g)]

TypeOK ==
  /\ shared \in Container \union {None}
  /\ status \in [Operation -> Status]
  /\ mine \in [Operation -> Container \union {None}]
  /\ \A j \in Operation : status[j] \in {"opening", "running"} => mine[j] # None
  /\ left \in [Fetch -> 0..UserCount]
  /\ building \in [Fetch -> Row \union {None}]
  /\ fetched \in [Fetch -> (SUBSET Row) \union {None}]
  /\ unread \in [Fetch -> SUBSET (Row \X {"live", "partial", "full"})]
  /\ context \in [Container -> [Row -> RowState]]
  /\ store \in [Row -> RowState]
  /\ userArray \in (SUBSET Row) \union {None}
  /\ overlapped \in BOOLEAN

Init ==
  /\ shared = None
  /\ status = [j \in Operation |-> "free"]
  /\ mine = [j \in Operation |-> None]
  /\ left = [f \in Fetch |-> 0]
  /\ building = [f \in Fetch |-> None]
  /\ fetched = [f \in Fetch |-> None]
  /\ unread = [f \in Fetch |-> {}]
  /\ context = [c \in Container |-> NoRows]
  /\ store = NoRows
  /\ userArray = None
  /\ overlapped = FALSE

-----------------------------------------------------------------------------
(***************************************************************************)
(* Enqueueing, and the first thing an operation does: it gets hold of the  *)
(* container.  The lazy property is not atomic: operations that all find   *)
(* it empty each make a container, and the last one to store it wins.      *)
(***************************************************************************)

\* Bound: enough unused rows for the saves still inserting and this one.
RowsSuffice ==
  Cardinality({w \in Row : Unused(w)}) >=
    UserCount * (1 + Cardinality({f \in Fetch : left[f] > 0}))

\* The file is read and parsed; then both operations are enqueued at once.
FetchUserData(f) ==
  /\ status[Save(f)] = "free" /\ status[Read(f)] = "free"
  /\ RowsSuffice
  /\ status' = [status EXCEPT ![Save(f)] = "queued", ![Read(f)] = "queued"]
  /\ left' = [left EXCEPT ![f] = UserCount]
  /\ UNCHANGED <<shared, mine, building, fetched, unread, context, store,
                 userArray, overlapped>>

UseContainer(j) ==
  /\ status[j] = "queued"
  /\ shared # None
  /\ status' = [status EXCEPT ![j] = "running"]
  /\ mine' = [mine EXCEPT ![j] = shared]
  /\ overlapped' = (overlapped \/ Overlap')
  /\ UNCHANGED <<shared, left, building, fetched, unread, context, store, userArray>>

MakeContainer(j, c) ==
  /\ status[j] = "queued"
  /\ shared = None
  /\ \A i \in Operation : mine[i] # c
  /\ status' = [status EXCEPT ![j] = "opening"]
  /\ mine' = [mine EXCEPT ![j] = c]
  /\ context' = [context EXCEPT ![c] = NoRows]
  /\ UNCHANGED <<shared, left, building, fetched, unread, store, userArray, overlapped>>

PublishContainer(j) ==
  /\ status[j] = "opening"
  /\ status' = [status EXCEPT ![j] = "running"]
  /\ shared' = mine[j]
  /\ UNCHANGED <<mine, left, building, fetched, unread, context, store, userArray>>
  /\ overlapped' = (overlapped \/ Overlap')

-----------------------------------------------------------------------------
(***************************************************************************)
(* saveUser.                                                               *)
(***************************************************************************)

\* Mutated: a loop that does not stop at the end of the list.
InsertUnlimited(f, w) ==
  /\ SaveRunning(f)
  /\ building[f] = None
  /\ Unused(w)
  /\ left' = [left EXCEPT ![f] = @ - 1]
  /\ building' = [building EXCEPT ![f] = w]
  /\ context' = [context EXCEPT ![mine[Save(f)]][w] = "partial"]
  /\ UNCHANGED <<shared, status, mine, fetched, unread, store, userArray, overlapped>>

\* Mutated: the loop asks the delegate for the context of each new user.
InsertIntoShared(f, w) ==
  /\ SaveRunning(f)
  /\ left[f] > 0 /\ building[f] = None
  /\ Unused(w)
  /\ left' = [left EXCEPT ![f] = @ - 1]
  /\ building' = [building EXCEPT ![f] = w]
  /\ context' = [context EXCEPT ![shared][w] = "partial"]
  /\ UNCHANGED <<shared, status, mine, fetched, unread, store, userArray, overlapped>>

InsertUser(f, w) ==
  /\ SaveRunning(f)
  /\ left[f] > 0 /\ building[f] = None
  /\ Unused(w)
  /\ left' = [left EXCEPT ![f] = @ - 1]
  /\ building' = [building EXCEPT ![f] = w]
  /\ context' = [context EXCEPT ![mine[Save(f)]][w] = "partial"]
  /\ UNCHANGED <<shared, status, mine, fetched, unread, store, userArray, overlapped>>

\* Mutated: the phone numbers are never linked to the user.
CompleteWithoutNumbers(f) ==
  /\ SaveRunning(f)
  /\ building[f] # None
  /\ building' = [building EXCEPT ![f] = None]
  /\ UNCHANGED <<shared, status, mine, left, fetched, unread, context, store,
                 userArray, overlapped>>

\* The last attribute or relationship of the row is set.
CompleteUser(f) ==
  /\ SaveRunning(f)
  /\ building[f] # None
  /\ building' = [building EXCEPT ![f] = None]
  /\ context' = [context EXCEPT ![mine[Save(f)]][building[f]] = "full"]
  /\ UNCHANGED <<shared, status, mine, left, fetched, unread, store, userArray, overlapped>>

EndSave(f) ==
  /\ status' = [status EXCEPT ![Save(f)] = "free"]
  /\ mine' = [mine EXCEPT ![Save(f)] = None]

\* Mutated: context.save inside the loop.
SaveContextEagerly(f) ==
  /\ SaveRunning(f)
  /\ building[f] = None
  /\ store' = [w \in Row |-> Seen(mine[Save(f)], w)]
  /\ UNCHANGED <<shared, status, mine, left, building, fetched, unread, context,
                 userArray, overlapped>>

\* Mutated: ... and before the attributes of the row are set.
SaveContextUnfinished(f) ==
  /\ SaveRunning(f)
  /\ building[f] # None
  /\ store' = [w \in Row |-> Seen(mine[Save(f)], w)]
  /\ UNCHANGED <<shared, status, mine, left, building, fetched, unread, context,
                 userArray, overlapped>>

\* context.save writes all that the context holds, whoever inserted it.
SaveContext(f) ==
  /\ SaveRunning(f)
  /\ left[f] = 0 /\ building[f] = None
  /\ store' = [w \in Row |-> Seen(mine[Save(f)], w)]
  /\ EndSave(f)
  /\ UNCHANGED <<shared, left, building, fetched, unread, context, userArray, overlapped>>

\* Mutated: an error ends the loop over the users, too.
SaveGivesUp(f) ==
  /\ SaveRunning(f)
  /\ building[f] = None
  /\ EndSave(f)
  /\ UNCHANGED <<shared, left, building, fetched, unread, context, store,
                 userArray, overlapped>>

\* The error is only printed; the rows stay in the context, unsaved.
SaveContextFails(f) ==
  /\ SaveRunning(f)
  /\ left[f] = 0 /\ building[f] = None
  /\ EndSave(f)
  /\ UNCHANGED <<shared, left, building, fetched, unread, context, store,
                 userArray, overlapped>>

-----------------------------------------------------------------------------
(***************************************************************************)
(* readUser.                                                               *)
(***************************************************************************)

\* The fetch returns the saved rows and those pending in the same context.
\* An object of this context is read live, whatever a save still does to it;
\* a row that came from the disk is read as it was when fetched.
FetchRows(f) ==
  LET c == mine[Read(f)]
      rows == {w \in Row : Seen(c, w) # "none"}
  IN  /\ ReadRunning(f)
      /\ fetched[f] = None
      /\ fetched' = [fetched EXCEPT ![f] = rows]
      /\ unread' = [unread EXCEPT ![f] =
           {<<w, IF context[c][w] # "none" THEN "live" ELSE store[w]>> : w \in rows}]
      /\ UNCHANGED <<shared, status, mine, left, building, context, store,
                     userArray, overlapped>>

\* The error is only printed: the closure never runs.
FetchFails(f) ==
  /\ ReadRunning(f)
  /\ fetched[f] = None
  /\ status' = [status EXCEPT ![Read(f)] = "free"]
  /\ mine' = [mine EXCEPT ![Read(f)] = None]
  /\ UNCHANGED <<shared, left, building, fetched, unread, context, store,
                 userArray, overlapped>>

\* What the read of f finds in a row it maps.
Found(f, row) == IF row[2] = "live" THEN context[mine[Read(f)]][row[1]] ELSE row[2]

\* Mutated: rows with missing parts are passed over instead of unwrapped.
MapRowLeniently(f) ==
  \E row \in unread[f] :
    /\ unread' = [unread EXCEPT ![f] = @ \ {row}]
    /\ UNCHANGED <<shared, status, mine, left, building, fetched, context, store,
                   userArray, overlapped>>

MapRow(f) ==
  \E row \in unread[f] :
    /\ Found(f, row) = "full"
    /\ unread' = [unread EXCEPT ![f] = @ \ {row}]
    /\ UNCHANGED <<shared, status, mine, left, building, fetched, context, store,
                   userArray, overlapped>>

\* The closure of fetchUserData stores the users in the view controller.
DeliverUsers(f) ==
  /\ ReadRunning(f)
  /\ fetched[f] # None /\ unread[f] = {}
  /\ userArray' = fetched[f]
  /\ fetched' = [fetched EXCEPT ![f] = None]
  /\ status' = [status EXCEPT ![Read(f)] = "free"]
  /\ mine' = [mine EXCEPT ![Read(f)] = None]
  /\ UNCHANGED <<shared, left, building, unread, context, store, overlapped>>

-----------------------------------------------------------------------------
(***************************************************************************)
(* The process ends; the app is started again.  Only the disk remains.     *)
(***************************************************************************)

Restart ==
  /\ shared' = None
  /\ status' = [j \in Operation |-> "free"]
  /\ mine' = [j \in Operation |-> None]
  /\ left' = [f \in Fetch |-> 0]
  /\ building' = [f \in Fetch |-> None]
  /\ fetched' = [f \in Fetch |-> None]
  /\ unread' = [f \in Fetch |-> {}]
  /\ context' = [c \in Container |-> NoRows]
  /\ userArray' = None
  /\ UNCHANGED <<store, overlapped>>

\* Unwrapping a missing attribute or relationship by force ends the process.
CrashOnRow(f) ==
  /\ \E row \in unread[f] : Found(f, row) = "partial"
  /\ Restart

\* The user or the system ends the process, or it dies of the unsynchronised
\* use of a context by several threads.
Die == Restart

Next ==
  \/ \E f \in Fetch : FetchUserData(f)
  \/ \E j \in Operation : UseContainer(j)
  \/ \E j \in Operation, c \in Container : MakeContainer(j, c)
  \/ \E j \in Operation : PublishContainer(j)
  \/ \E f \in Fetch, w \in Row : InsertUser(f, w)
  \/ \E f \in Fetch : CompleteUser(f)
  \/ \E f \in Fetch : SaveContext(f)
  \/ \E f \in Fetch : SaveContextFails(f)
  \/ \E f \in Fetch : FetchRows(f)
  \/ \E f \in Fetch : FetchFails(f)
  \/ \E f \in Fetch : MapRow(f)
  \/ \E f \in Fetch : DeliverUsers(f)
  \/ \E f \in Fetch : CrashOnRow(f)
  \/ Die

Spec == Init /\ [][Next]_vars

-----------------------------------------------------------------------------
(***************************************************************************)
(* Properties.                                                             *)
(***************************************************************************)

\* Row w is half built in the context of container c only because some save is at
\* work on it there, right now.
UnderWay(c, w) == \E f \in Fetch : SaveRunning(f) /\ building[f] = w /\ mine[Save(f)] = c

\* As long as no two saves share a container, a read that is about to end the
\* process on a missing attribute does so on a row that a save is filling in on
\* the same context at that very moment; no read has anything to fear from saves
\* that failed, from containers that lost the race or from earlier launches
\* (readUser is enqueued together with saveUser on a queue that runs both).
ReadsFailOnlyBesideABuilder ==
  ~overlapped =>
    \A f \in Fetch : \A row \in unread[f] :
      Found(f, row) = "partial" => UnderWay(mine[Read(f)], row[1])

\* A half-built row reaches the disk in one way only: another save that shares
\* the context of its builder ends while the builder is still at work on the row
\* (context.save writes all that the context holds).
HalfBuiltIsSavedByAnother ==
  [][\A w \in Row :
       store'[w] = "partial" /\ store[w] # "partial" =>
         \E f \in Fetch :
           /\ SaveRunning(f) /\ building[f] # w /\ ~SaveRunning(f)'
           /\ UnderWay(mine[Save(f)], w)]_vars

\* The users that a read has delivered are complete, and exist for as long as the
\* process does: on disk, or in a context that still may save them (readUser maps
\* rows that another operation saves, fails to save or fills in meanwhile).
Whole(w) == store[w] = "full" \/ \E c \in Container : context[c][w] = "full"

DeliveredUsersAreWhole == userArray # None => \A w \in userArray : Whole(w)

\* A row that its save has left unsaved in a container that lost the race for the
\* lazy property, and that no operation uses any more.
Orphaned(c, w) ==
  /\ shared \notin {None, c} /\ \A j \in Operation : mine[j] # c
  /\ context[c][w] # "none" /\ store[w] = "none"

\* Such a row is lost: no later operation gets hold of its container, and no other
\* container writes it, until the process ends without it.  Through the shared
\* container the next save would have written it (the lazy persistentContainer of
\* AppDelegate, and the catch of saveUser, which only prints).
LostRaceLosesRows ==
  [][\A c \in Container, w \in Row :
       Orphaned(c, w) =>
         Orphaned(c, w)' \/ (store'[w] = "none" /\ context'[c][w] = "none")]_vars

\* Unless two saves have shared a container, the disk holds whole lists of users:
\* no save that failed or ended with its process has left a part of its list there
\* (saveUser saves the context once, after its loop).
WholeListsOnDisk ==
  ~overlapped => Cardinality(OnDisk) % UserCount = 0

\* A half-built row that reached the disk and whose save is gone.
Poisoned(w) ==
  store[w] = "partial" /\ \A c \in Container : context[c][w] = "none"

\* Such a row stays, and no read that fetches it ever delivers: from then on
\* the users in the view controller never change again, except to be lost
\* with the process (readUser unwraps by force, and nothing deletes rows).
PoisonIsForever ==
  [][\A w \in Row :
       Poisoned(w) /\ (\A f \in Fetch : fetched[f] # None => w \in fetched[f]) =>
         Poisoned(w)' /\ userArray' \in {userArray, None}]_vars

-----------------------------------------------------------------------------
(***************************************************************************)
(* The inductive invariant behind the safety properties.                   *)
(***************************************************************************)

\* A row is half built in a context only while the save that inserted it is at
\* work there.
HalfBuiltIsAccountedFor ==
  \A c \in Container, w \in Row : context[c][w] = "partial" => UnderWay(c, w)

FullRowsOnDisk == ~overlapped => \A w \in Row : store[w] # "partial"

\* A row being filled in is a partial row in the context of a running save.
BuilderIsAtWork ==
  \A f \in Fetch :
    building[f] # None =>
      SaveRunning(f) /\ context[mine[Save(f)]][building[f]] = "partial"

BuildersDiffer ==
  \A f, g \in Fetch : f # g /\ building[f] # None => building[f] # building[g]

RowsHaveOneContext ==
  \A c, d \in Container, w \in Row :
    context[c][w] # "none" /\ context[d][w] # "none" => c = d

\* No save can make a row of the disk partial that was full.
FullStaysFull ==
  \A c \in Container, w \in Row : store[w] = "full" => context[c][w] # "partial"

OverlapIsNoted == Overlap => overlapped

\* What a read has fetched and no longer has to map was full when it mapped it,
\* and is full on disk or in the context of the read.
FetchedIsAccountedFor ==
  \A f \in Fetch :
    fetched[f] # None =>
      /\ ReadRunning(f)
      /\ \A w \in fetched[f] :
           \/ context[mine[Read(f)]][w] # "none"
           \/ store[w] = "full"
           \/ <<w, "partial">> \in unread[f]

\* Before the container is published nothing runs, and nothing is inserted.
NothingBeforeTheContainer ==
  shared = None =>
    /\ \A j \in Operation : status[j] # "running"
    /\ \A c \in Container : context[c] = NoRows
    /\ userArray = None

\* A row that a read has fetched is still to be mapped, or is complete somewhere;
\* one to be mapped is as on disk, or in the context of the read.
UnreadIsAccountedFor ==
  \A f \in Fetch :
    /\ fetched[f] = None => unread[f] = {}
    /\ fetched[f] # None =>
         \A w \in fetched[f] : Whole(w) \/ \E row \in unread[f] : row[1] = w
    /\ \A row \in unread[f] :
         /\ row[2] = "full" => store[row[1]] = "full"
         /\ row[2] = "partial" => overlapped

\* What the next save through container c adds to the disk.
Unsaved(c) == {w \in Row : context[c][w] # "none" /\ store[w] = "none"}

Saving(f, c) == SaveRunning(f) /\ mine[Save(f)] = c

RowsAreFinite == IsFiniteSet(OnDisk) /\ \A c \in Container : IsFiniteSet(Unsaved(c))

\* No save has inserted anything before it runs.
NothingInsertedYet ==
  \A f \in Fetch : status[Save(f)] \in {"queued", "opening"} => left[f] = UserCount

\* Without overlapping saves, the rows on disk are whole lists, and so are those
\* that wait in a context, be it for a save that has failed, as soon as the save
\* at work there has inserted the users that it has left.
ListsAddUp ==
  ~overlapped =>
    /\ WholeListsOnDisk
    /\ \A c \in Container :
         (\A f \in Fetch : ~Saving(f, c)) => Cardinality(Unsaved(c)) % UserCount = 0
    /\ \A c \in Container, f \in Fetch :
         Saving(f, c) => (Cardinality(Unsaved(c)) + left[f]) % UserCount = 0

\* A partial row can be traced to the save that inserted it, a poisoned one is
\* met by every read, and lists are written as wholes (saveUser, readUser).
IInv ==
  /\ TypeOK
  /\ BuilderIsAtWork
  /\ BuildersDiffer
  /\ HalfBuiltIsAccountedFor
  /\ RowsHaveOneContext
  /\ FullStaysFull
  /\ OverlapIsNoted
  /\ FullRowsOnDisk
  /\ FetchedIsAccountedFor
  /\ NothingBeforeTheContainer
  /\ UnreadIsAccountedFor
  /\ DeliveredUsersAreWhole
  /\ RowsAreFinite
  /\ NothingInsertedYet
  /\ ListsAddUp

=============================================================================
