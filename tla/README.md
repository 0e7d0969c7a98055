# Reserv, specified in TLA+

Reserv is an iOS app that signs a user in with Firebase and leads them through
offices, rooms and workplaces to the choice of a date. These modules specify the
app's own behaviour (the Swift code under `src/Reservation/Reservation`), TLC
checks them on small instances, and TLAPS proves their safety properties for
every value of the constants. `PROJECT.json` maps each definition to the lines of
code that it models.

All paths below are relative to `src/Reservation/Reservation`.

## Inventory

**Sign-in** (`Modules/Auth`, `Services/AuthService.swift`,
`Services/ValidationService.swift`). State: two text fields; the last valid text
of each, held by `combineLatest`; the subscriptions that `retry(3)` has left; the
calls of Firebase under way and their observers; completion handlers on the main
queue; Firebase's current user. Operations: type, tap, the two answers of
Firebase, the two outcomes of a completion handler. Hard: the button stays
enabled, so calls run concurrently; an error disposes the sibling calls but
Firebase cannot be stopped; `retry(3)` counts over the whole life of the screen;
an answer acts on whatever screen is showing. Correct when a tap submits what is
on the screen, the offices open only for a user that Firebase knows, every tap
is settled, and nothing happens behind an alert.

**Screens and navigation** (`Root/AppDelegate.swift`, the routers, the handlers
of rows and buttons, `ProfileViewController`). State: the stack of the
navigation controller, what is presented over it, the user name in
`UserDefaults`. Operations: push, back, present, dismiss. Routers push without
looking at the top. Sign-in drives it, from callbacks that may be late.

**List screens and downloads** (`OfficeChoiceController`, `RoomsViewController`,
`WorkPlaceViewController`, their view models, `ServiceDownloadData`,
`ServiceRequestData`, `ServiceParsingJSON`). State: the view controllers in
memory, what their tables show, the requests under way. Operations: load, open
the next list, go back, the answers. Hard: requests cannot be cancelled and the
offices send two; the closures passed to Rx decide how long a screen lives; a
failed download is never repeated. Correct when a list is opened only from a
list that has loaded, no table waits for ever, and left screens are released.

**Users in Core Data** (`fetchUserData`, `Services/ServiceCDOperation.swift`,
`AppDelegate.persistentContainer`, `Services/ServiceReadJSON.swift`). State: the
lazy container, its context, the rows on disk, the operations on a concurrent
queue. Operations: enqueue a save and a read, insert and fill in rows, save the
context, fetch, map, deliver. Hard: saves and reads share one context unlocked;
the lazy property is not atomic; a missing attribute is unwrapped by force.
Correct when reads deliver whole users and the disk holds whole lists.
calls `fetchUserData` in the shipped app; it is specified as written.

**Choosing date and time** (`ChooseDateVC`). State: three fields, one hidden
picker and the mode it is in, the field being edited. Operations: touch, edit,
turn the wheels, type, Done, Cancel. Hard: the picker is shared by the fields; it
is shown when a finger touches a field, before the field is edited; and it is not
their input view, so that the keyboard of the edited field lies over it. Correct
when Done stores what the user has seen, in its own field only.

**ServiceCoreData** (`Services/ServiceCoreData.swift`). State: per entity, the
rows on disk and those pending in the context. Operations: observables that save
and read users, offices, rooms and workplaces. Hard: a failed save leaves its
rows to the next save of any list; users share one row. Correct when what was
reported as saved is on disk and nothing gets there twice. No screen calls it.

**Profile** (`ProfileViewController`): the saved user name, modelled in
Navigation; the picture comes from an image library.

**Table cells** (`RoomsTableViewCell`, `WorkPlaceTableViewCell`). State: a label,
a button that may be hidden, its callback. Operations: configure, press. Hard:
UIKit reuses cells, and nothing but `configure` resets them. Correct when a cell
shows its own row and only available rows open a screen.

**Footers, layout, data types**: no behaviour.

**Vendored libraries** (`../Pods`): RxSwift, RxCocoa, Firebase, Alamofire. Their
code is not specified for its own sake, only as far as the app's behaviour rests
on it: `retry` (`Catch.swift`, `TailRecursiveSink.swift`), `flatMap`
(`Merge.swift`), `withLatestFrom`, `combineLatest`, shared sequences
(`ShareReplayScope.swift`), the replay of a text field (`UIControl+Rx.swift`), the
binding of tables (`DelegateProxyType.swift`), and the order in which Firebase
records its user and calls back (`FIRAuth.m`).

## Modules

| Module | Models |
| --- | --- |
| `Navigation` | the screens; EXTENDed by `SignIn` and `SignInRx` |
| `SignIn` | sign-in, composed with the screens |
| `SignInRounds` | what sign-in promises; `SignIn` refines it |
| `SignInRx` | sign-in as RxSwift runs it, operator by operator; refines `SignIn` |
| `ListScreens` | loading, answering and releasing the list screens |
| `TableCells` | the reused cells of one list of rooms or workplaces |
| `ChooseDate` | the three fields and the picker |
| `Reserv` | the app: `SignIn` and `ListScreens` on one stack |
| `UserStore` | users in Core Data |
| `ServiceCoreData` | the observables that save and read the four lists |
| `SignInProofs`, `SignInRxProofs`, `ListScreensProofs`, `TableCellsProofs`, `ChooseDateProofs`, `ReservProofs`, `UserStoreProofs`, `ServiceCoreDataProofs` | the theorems |
| `MC...` | instances for TLC |

`Reserv` EXTENDS `SignIn` and takes in `ListScreens` by INSTANCE. `TableCells` and
`ChooseDate` describe what happens on one screen and share no state with the
others; their `Reopen` is a new screen.

### Correspondence

*SignIn.* A field's text reaches the screen (`text`) and, if the filters of
`validationUser` pass it, `combineLatest` (`latest`). `Tap` is the chain from the
button through `withLatestFrom` and `flatMap` to the call of Firebase; `Accept`
and `Reject` are Firebase's own threads, which record the user first and enqueue
the completion handler last; the three `Deliver` actions are the handler on the
main thread together with everything it runs synchronously: the observer, the
alert, the new subscription of `retry`, the push. An observer that `flatMap` has
disposed is out of `observed`; its answer is ignored. `attempts` counts the
subscriptions that `retry(3)` has left, the current one included. `Relaunch` may
happen between any two steps and keeps what Firebase and `UserDefaults` keep.

*Navigation.* A screen is the name of its class. Presenting over something that
is presented does nothing; presenting from a covered controller may or may not
show, so both are allowed. Transitions are instantaneous: UIKit takes no touches
while one runs.

*ListScreens.* A view controller is an identity that is reused once it is
released and all its requests are answered. `Held` says what keeps it alive: the
stack, the closure of the spinner's subscription (which refers to `self`), and
for rooms and workplaces the closure that configures their cells, which their
own table keeps. `TableCrashes` is a debug build, `TableStaysEmpty` a release
build or an empty list; a behaviour of the specification may mix the two, which
allows more than either build does. What the spinner looks like is left out.

*SignInRx.* What `DeliverFailure` of `SignIn` does in one step, the main thread here
does in a dozen: `todo` is the rest of its current piece of work, `Retry`, `Dispose`
and `Subscribe` are what `moveNextCommand` and `flatMap` do, `Leave` and `Join` what a
shared sequence does when an observer goes or comes. In between only Firebase's
threads run (`Answer`), and the process may end. The refinement mapping counts a
piece of work as done when it begins: while the chain is being rebuilt, `latest` is
what the fields will replay (`Expected`) and nobody observes.

*Reserv.* Each action is a step of both modules, or of one while the other
stutters: a success pushes the offices and loads them, opening a list needs a row
of the list on top, going back leaves the top of both, a crash or a relaunch ends
both. That `Reserv` implements its parts is thus a matter of how it is written, and
no result. The history variable `at` says where on the stack each list screen lies.

*TableCells.* A row is its availability. `Appear` is UIKit handing out a cell, new
or left over, and `configure` filling it in. Rows never change once they are bound.

*ChooseDate.* What the picker shows is kept per mode: changing the mode changes
what is visible of one moment, not the moment. `Printed` is the format of a Done
button, `ModeFor` the mode that a touch sets. The picker appears on touchDown, the
toolbar once the finger lifts within the field (`LiftWithin`); a finger may also slide
off. With the toolbar comes the keyboard, for the fields set no `inputView`, and lies
over the picker, which is anchored to the bottom of the view; with a hardware
keyboard only the toolbar is there. `covered` is either. The user sees the picker
only if it is neither hidden nor covered (`InSight`). Wheels turned in sight (`Spin`)
may come to rest later (`Settle`), covered or hidden by then. The history variable `seen`
remembers what the picker has shown last in sight for a field of each component.
A field may show any text, for the keyboard types into it. Any number of fingers may
rest on fields.

*UserStore.* A row is `partial` from its insertion until its last attribute is
set. A read sees the disk and the pending rows of its context; those of its own
context it reads live. Two saves interleave row by row. Contexts are used by
several threads without a lock; beyond the interleavings modelled, that may end
the process, which `Die` may do at any time.

*ServiceCoreData.* A subscription runs as one step: the body of the observable is
synchronous and the view context belongs to the main thread. Lists are bags of
rows. `Inserted` is what a save puts into the context: a row per element, or for
users a single one, overwritten by each. Offices, rooms and workplaces differ
only in their attributes and are members of `ListEntity`. The lookups of an
entity by name cannot fail with the repository's data model, and are left out.

## Runs

| Run | Question | Instance |
| --- | --- | --- |
| `signin_typing` | what does a tap submit? | lengths 0, 2, 3, 19, 20; two calls |
| `signin_answers` | what may an answer do? | three calls, up to five screens |
| `signin_settles` | is every tap settled; does sign-in refine its rounds? | three calls |
| `signin_exhausted` | does the alert tell the truth? (violated) | one call |
| `signin_rx` | do RxSwift's operators do what `SignIn` says? | two calls, three texts |
| `lists` | what lies beneath a list; are lists concluded and released? | four list screens |
| `reserv` | what lies beneath the dates? | two calls, four list screens, up to six screens |
| `table_cells` | what does a reused cell show? | two cells, up to four rows |
| `choose_date` | does the picker fit the field; does Done store what was seen? | two days, two times |
| `user_store` | what may a read stumble over; which rows are half built or lost? | two fetches of two users, two containers, five rows |
| `service_core_data` | is what was reported stored, and once? | two entities of lists and the users, lists of up to two |

*Bounds.* `Request` bounds the calls under way: two show a sibling being
disposed, three also a late success between two failures; the number of calls in
a behaviour is not bounded. Texts lie on both sides of both limits.
`MaxDepth` bounds only what the user opens; answers push beyond it. `View` of
three is a whole path, four puts a late screen of offices on it; with six screens
in `reserv` that one can also lie beneath the path that leads to the dates. Five rows with
two users per list allow two saves and a row left over from a process that
ended; `RowsSuffice` starts a save only if the rows left are enough for it.

`reserv` leaves the name in the profile out (`Name = {None}`): `signin_answers`
changes it, and nothing reads it but the profile. Two
cells for four rows make each cell show several rows in turn. Two days and two
times tell what is shown from what is stored. `SignInRx` stops at two screens: a
push does not depend on what is on the stack.

In `ServiceCoreData`, `MaxRows` ends the saves of an item: two allow a failed
save, its repetition and a save of another list in every order.

*Fairness.* Firebase and Alamofire answer each request (with a timeout at
latest), and the main thread keeps running its queue: weak fairness of each
answer and of delivery (`FairSpec` of `SignIn` and of `ListScreens`, used by the two
runs of liveness properties). Nothing is assumed of the user or of relaunches.

*Deadlock* is checked in every run.

### What the runs show

What a tap submits is what the screen shows, or for a field whose text the
filters refuse an earlier valid text: the user is not told. Several calls never
cancel one another by themselves, only through a failure, which silences all the
others. A success silenced like that leaves the user signed in with Firebase and
the app at the sign-in screen. The offices are open only for a user that
Firebase knows, but can be opened twice, over any other screen.

`signin_exhausted` finds a disagreement between code and message: the alert asks
to repeat the attempt, and after the third alert a repeated tap goes nowhere,
since `retry(3)` has given up and its subscriber has no `onError`. Only a relaunch
helps.

`signin_rx` confirms what `SignIn` takes for granted: the old chain is taken down
before the new one joins, so the fields connect anew and replay what they show.
Were it the other way round, each attempt after a failure would find no pair.

Whoever chooses a date came through an accepted sign-in and three loaded lists
that lie right beneath, however many screens of offices late answers push.

A cell never shows another row's text, button or callback; only available rows
open a screen, although the handlers never look at the row.

Done stores what the user has seen last of the component its field is for, through
any order of touches, slides, edits and cancelled edits (`DoneStoresWhatWasSeen`),
although at the time of Done the keyboard usually lies over the picker, and a finger
that has touched another field and slid off may have left it in the other mode.
The property is silent where nothing was seen: someone who goes from one field to
the next with the keyboard up never sees the picker in its new mode, and wheels
still turning when the keyboard comes up come to rest unseen; Done stores a value
all the same. A cancelled edit leaves the picker, and any text typed, as they are.
Nothing orders the start before the finish. No document of the repository speaks
of any of this.

A read ends the process only on a row that a save is filling in beside it
(`ReadsFailOnlyBesideABuilder`), as long as no two saves share a container. Half-built
users reach the disk only if they do (`HalfBuiltIsSavedByAnother`); without such an
overlap the disk holds whole lists (`WholeListsOnDisk`). A half-built user on disk
stays there, and every read that fetches it ends the process. What a read does
deliver is complete and still exists somewhere (`DeliveredUsersAreWhole`), though
possibly only in a context that a failed save has left unsaved; if that context
belongs to a container that lost the race for the lazy property, its rows are lost
for good (`LostRaceLosesRows`).

A screen of offices is released after it was left and its spinner's download is
answered. Screens of rooms and workplaces never are: `Held` records the cycle.

What `ServiceCoreData` reports as stored is on disk, through failures and
relaunches. The converse fails by design of the code: rows of a save that
reported an error may turn up later, though no more often than they were given.
An empty list of users stores a blank row, after which no read of users delivers.

## Proofs

For any texts, accounts, numbers of calls, screens, operations, containers, rows,
cells, days and times, TLAPS proves the type invariants, the other invariants and
the action properties of the runs, and two refinements; what is left to TLC
is listed below. Each proof module has a lemma per conjunct of its inductive
invariant with a step per action (`SignInRxProofs` a lemma per step), and the
theorems at its end. The inductive invariants are the `IInv` at the end of each
module (`ReservIInv` in `Reserv`); `signin_answers`, `signin_rx`, `lists` and
`user_store` check theirs, too.

The assumptions are the named ones of the modules, no more: `MaxDepth` and
`MaxRows` are natural numbers and `UserCount` a positive one, `Count` gives each
text a length and the empty text length 0, accounts are pairs of texts, `None`,
`Typed` and `Blank` are none of the values that they are told from, `"Users"` is not a list
entity. `SignInRx` assumes what `SignIn` assumes of its constants. No set of calls, screens or rows
is assumed to be finite.

*SignIn.* `TypeOK` (`attempts` stays at or above 0) and `SilentOnceExhausted` need
`ExhaustedMeansQuiet`: a failure counts only while an observer is left, and the
last subscription leaves none. `OfficeRequiresUser` needs `AcceptedMeansUser`: the
handler of an accepted call runs only after Firebase has recorded its user.
`RoundsStep` shows that each step refines to a step of the rounds or a stutter.

*SignInRx.* `Whereabouts` says where the main thread can be: idle, about to take
an answer to `retry`, at one of the five stages of taking a chain down
(`TakingDown`) or of the five of setting one up (`SettingUp`), each with
the shared sequences that are connected and the subscription that is alive. There
are no others, because every step has a successor that is fixed by its stage: a
lemma per step says from which stage to which it leads (`RetryGoes`, `LeaveGoes`,
`JoinGoes`...). Data follows: `combineLatest` keeps nothing of the old chain and, while
the new one is set up, knows just the texts of the fields already joined
(`ValuesAreFresh`); the pair is that of its values (`PairFollows`); and a call under
way belongs to the present subscription or an earlier one (`HomesAreOlder`).
`OneSubscription` and `PairIsCurrent` follow.
For the refinement, every step of the work is a stutter of `SignIn` (`WorkStep`), since
`Latest`, `Observed` and `Attempts` anticipate how the work ends; the fields' reports
while the chain is set up turn out to be what was anticipated. The other
actions are the actions of `SignIn` of the same name (`SignInStep`). `InheritsSignIn`
carries the invariant of `SignIn` over.

*ListScreens.* A list stays loaded beneath those opened from it because its
request is answered once: `AwaitedIsBlank`. That no screen on the stack is released
is part of `TypeOK`.

*Reserv.* `SignInSimulation` and `ListsSimulation` map each step to both parts, so
their invariants hold here, too. `PathOnStack` is local: each screen lies right
above a loaded list of the kind before it. It needs `StackAgrees`, which couples
the two views that the model has of the one stack, to know that the list on top is
the last that was opened. Three applications lead from the dates
to the offices, and `OfficeRequiresUser` from there to the user.

*TableCells.* `OpensOnlyAvailable` speaks of a past press; it rests on
`CellsShowTheirRows` at that moment, and on lists that never change once bound.

*ChooseDate.* `DoneStoresWhatWasSeen` needs `SeenStands`: what was seen last of a
component still stands in the picker, since only its wheels move it, and wheels that
come to rest out of sight count as nothing seen. That in turn needs
`ModeFollowsTouch`: what is in sight is always the component that the field touched
last is for.

*UserStore.* A partial row is traced to the save that inserted it
(`HalfBuiltIsAccountedFor`), whose `building` names no other save's row
(`BuilderIsAtWork`, `BuildersDiffer`), on the one context that holds the row
(`RowsHaveOneContext`). So a save that writes a partial row has met another save
on its container (`OverlapIsNoted`). A read traces what it has yet to map the same way
(`UnreadIsAccountedFor`): rows of the disk are as they were noted, pending rows belong
to the read's own context, and what it has mapped is whole. Rows stay whole until
the process ends (`WholeStays`), and nothing is in a container before it is made
(`NothingBeforeTheContainer`), so a new one shadows no row. `PoisonIsForever` needs `FullStaysFull` and
`FetchedIsAccountedFor`: a read never drops a row without having found it full.
`WholeListsOnDisk` is proved by counting (`ListsAddUp`): while no saves overlap, the
rows on disk are a multiple of `UserCount`, and so are those that wait in a
context together with those that its save has still to insert. Rows left by a
save that failed are a whole list, since a save fails only after its last
insertion. The counts mean something because the rows in use are finite
(`RowsAreFinite`) though `Row` need not be.

*ServiceCoreData.* Its properties are inductive with `TypeOK`; the work is in lemmas
about bags (`BagFacts`, `InsertedType`).

Only model-checked: the liveness properties (`EveryTapSettles`,
`LeftOfficeIsReleased`, `EveryTableConcludes`), which rest on fairness and are beyond
the prover. `AlertInvitesLiveRetry` is the one property that TLC refutes.

## Plan

Done: all modules named above, and a theorem for every safety property and
refinement of the runs. What could follow: `TableCells` and `ChooseDate` joined to
`Reserv`, so that `OpenWorkPlace` and `OpenDates` press a cell's button, with the
proof that whoever chooses a date came through an available room and workplace.

## Not modelled

Layout, colours and fonts; the contents of rows and the order in which
`ServiceCoreData` sorts them; the image library's download of the avatar; the JSON
resource files. The spinner of the offices is left out because nothing says what it
should show: as written, it starts when its download ends. The profile buttons and
the fields of the dates register their actions with `addTarget(self, ...)` in the
initialiser of a stored `let`, where `self` is not yet the object meant; the models
assume that UIKit still delivers them. (The buttons of the cells are `lazy var`s, whose
`self` is the cell.) The closure of `readUser` assigns the view controller's array
off the main thread; a delivery is one step all the same.

`src/Reservation/Pods` holds the vendored libraries, among them some 650,000 lines
of C, C++ and Objective-C of BoringSSL, gRPC, Firestore and LevelDB. The app links
them and calls none of Firestore's operations; they are other projects' code and
are not specified, so these modules cover next to none of the lines in the
repository, though they cover the app's own state and control.
