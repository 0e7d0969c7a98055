--------------------------- MODULE ServiceCoreData ---------------------------
(***************************************************************************)
(* The observables of class ServiceCoreData: saving and reading lists of   *)
(* users, offices, rooms and workplaces through the one context of         *)
(* AppDelegate's container.  An observable runs as a whole, synchronously, *)
(* when it is subscribed to; a view context belongs to the main thread, so *)
(* subscriptions do not interleave.                                        *)
(*                                                                         *)
(* A save inserts its rows and then saves the context: all of it, whoever  *)
(* inserted what it holds.  If that fails the rows stay, and the next save *)
(* of any list writes them.                                                *)
(*                                                                         *)
(* Lists of rows are bags: how many copies of each item there are.  Their  *)
(* order is left out, and with it the sorting of offices by number and of  *)
(* workplaces by the text of theirs.                                       *)
(***************************************************************************)
EXTENDS Naturals, Sequences, FiniteSets

CONSTANTS
  ListEntity, \* Offices, RoomsData and WorkPlaceData, which are saved alike
  Item,       \* what a list can contain
  Blank,      \* a row of which no attribute was ever set
  MaxLength,  \* bound: the length of a list
  MaxRows,    \* bound: rows of an item that saves have ever been given
  None

ASSUME EntityAssumption == "Users" \notin ListEntity
ASSUME BlankAssumption == Blank \notin Item

VARIABLES
  disk,      \* disk[e][w]: the copies of row w in entity e on disk
  pending,   \* pending[e][w]: those in the context that are not saved
  reported,  \* history: what successful saves of list e were to store
  failed,    \* history: ... and failed ones
  read       \* the entity and the rows that the last successful read delivered

vars == <<disk, pending, reported, failed, read>>

-----------------------------------------------------------------------------

Entity == ListEntity \union {"Users"}

Row == Item \union {Blank}

Bag == [Row -> Nat]

Nothing == [w \in Row |-> 0]

Plus(a, b) == [w \in Row |-> a[w] + b[w]]

Lists == UNION {[1..n -> Item] : n \in 0..MaxLength}

Copies(list, w) == Cardinality({i \in DOMAIN list : list[i] = w})

\* Mutated: every save creates a row before its loop, too, as saveUser does.
InsertedWithHeader(e, list) ==
  [w \in Row |-> Copies(list, w) + (IF w = Blank THEN 1 ELSE 0)]

\* saveUser inserts a single row, which each user of the list overwrites; the
\* other saves insert a row for every element.  The entities they look up by
\* name are those of the data model, so the lookup does not fail.
Inserted(e, list) ==
  IF e \in ListEntity THEN [w \in Row |-> Copies(list, w)]
  ELSE [w \in Row |->
          IF w = (IF list = << >> THEN Blank ELSE list[Len(list)]) THEN 1 ELSE 0]

TypeOK ==
  /\ {disk, pending, reported, failed} \subseteq [Entity -> Bag]
  /\ read \in (Entity \X Bag) \union {None}
  /\ \A e \in ListEntity : disk[e][Blank] = 0 /\ pending[e][Blank] = 0

Init ==
  /\ disk = [e \in Entity |-> Nothing]
  /\ pending = [e \in Entity |-> Nothing]
  /\ reported = [e \in Entity |-> Nothing]
  /\ failed = [e \in Entity |-> Nothing]
  /\ read = None

-----------------------------------------------------------------------------

\* Bound on the rows ever inserted.
Fits(e, list) ==
  \A w \in Row : reported[e][w] + failed[e][w] + Inserted(e, list)[w] <= MaxRows

\* A fetch finds the rows on disk and those pending in the context.
Visible(e) == Plus(disk[e], pending[e])

\* Mutated: the failure of context.save is only printed.
SaveSucceedsRegardless(e, list) ==
  /\ Fits(e, list)
  /\ \/ /\ disk' = [d \in Entity |->
              Plus(Visible(d), IF d = e THEN Inserted(e, list) ELSE Nothing)]
        /\ pending' = [d \in Entity |-> Nothing]
     \/ /\ pending' = [pending EXCEPT ![e] = Plus(@, Inserted(e, list))]
        /\ UNCHANGED disk
  /\ reported' = [reported EXCEPT ![e] = Plus(@, Inserted(e, list))]
  /\ UNCHANGED <<failed, read>>

\* The subscriber gets onNext and onCompleted.
SaveSucceeds(e, list) ==
  /\ Fits(e, list)
  /\ disk' = [d \in Entity |->
       Plus(Visible(d), IF d = e THEN Inserted(e, list) ELSE Nothing)]
  /\ pending' = [d \in Entity |-> Nothing]
  /\ reported' = [reported EXCEPT ![e] = Plus(@, Inserted(e, list))]
  /\ UNCHANGED <<failed, read>>

\* Mutated: a failed save is repeated without telling the subscriber.
SaveFailsTwice(e, list) ==
  /\ Fits(e, list)
  /\ pending' = [pending EXCEPT ![e] = Plus(@, Plus(Inserted(e, list), Inserted(e, list)))]
  /\ failed' = [failed EXCEPT ![e] = Plus(@, Inserted(e, list))]
  /\ UNCHANGED <<disk, reported, read>>

\* context.save throws, as on a full disk: the subscriber gets onError.
SaveFails(e, list) ==
  /\ Fits(e, list)
  /\ pending' = [pending EXCEPT ![e] = Plus(@, Inserted(e, list))]
  /\ failed' = [failed EXCEPT ![e] = Plus(@, Inserted(e, list))]
  /\ UNCHANGED <<disk, reported, read>>

\* Mutated: users without a name are passed over.
ReadUserLeniently ==
  /\ read' = <<"Users", [Visible("Users") EXCEPT ![Blank] = 0]>>
  /\ UNCHANGED <<disk, pending, reported, failed>>

\* Every attribute of every row is unwrapped by force.
ReadUser ==
  /\ Visible("Users")[Blank] = 0
  /\ read' = <<"Users", Visible("Users")>>
  /\ UNCHANGED <<disk, pending, reported, failed>>

\* The attributes that these reads cast by force are mandatory in the data model.
\* A fetch that throws, here as of users, only reports the error.
ReadList(e) ==
  /\ read' = <<e, Visible(e)>>
  /\ UNCHANGED <<disk, pending, reported, failed>>

\* The process ends; what was pending is lost.
Relaunch ==
  /\ pending' = [e \in Entity |-> Nothing]
  /\ read' = None
  /\ UNCHANGED <<disk, reported, failed>>

ReadUserCrashes ==
  /\ Visible("Users")[Blank] > 0
  /\ Relaunch

Next ==
  \/ \E e \in Entity, list \in Lists : SaveSucceeds(e, list)
  \/ \E e \in Entity, list \in Lists : SaveFails(e, list)
  \/ ReadUser
  \/ \E e \in ListEntity : ReadList(e)
  \/ ReadUserCrashes
  \/ Relaunch

Spec == Init /\ [][Next]_vars

-----------------------------------------------------------------------------
(***************************************************************************)
(* Properties.                                                             *)
(***************************************************************************)

\* What a save has reported as stored is on disk, whatever failed or ended
\* before or after it (saveOfficeData, saveRoomsData and saveWorkplaceData
\* report after context.save; saveUser does so for the one row it makes).
ReportedIsStored ==
  \A e \in Entity, w \in Row : reported[e][w] <= disk[e][w]

\* A save that reported an error may take effect later, but at most once: on
\* disk and pending there is nothing but what successful and failed saves were
\* to store (context.save clears the insertions that it writes).
NothingIsStoredTwice ==
  \A e \in Entity, w \in Row :
    disk[e][w] + pending[e][w] <= reported[e][w] + failed[e][w]

\* Saving an empty list of users stores a blank row: it outlives every relaunch,
\* and from then on no read of users delivers (saveUser creates its row before
\* the loop, readUser unwraps by force).
BlankUserEndsReading ==
  [][disk["Users"][Blank] > 0 =>
       /\ disk'["Users"][Blank] > 0
       /\ read' # read => read' = None \/ read'[1] # "Users"]_vars

=============================================================================
