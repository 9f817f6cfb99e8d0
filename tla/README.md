# Verification of MVVM-Example

TLA+ modules, TLC configurations and TLAPS proofs for MVVM-Example, an iOS
application in Swift (RxSwift/RxCocoa, Realm, Firebase, KRProgressHUD). The
application's own code is in `src/MVVM-Example/MVVM-Example/` (31 files);
`src/MVVM-Example/Pods/` is vendored, and of it what decides the behaviour of the
application's screens is read: the operators of RxSwift, the message display
KRProgressHUD, and the part of Realm that brings changes to query results. The
paths below that have no directory are in the first of the two.

Contents: [1 The system](#1-the-system), [2 The modules](#2-the-modules),
[3 What TLC checks](#3-what-tlc-checks), [4 What is proved](#4-what-is-proved),
[5 What is not covered](#5-what-is-not-covered), [6 Plan](#6-plan),
[7 Running it](#7-running-it).

## 1 The system

The window shows a tab bar with two tabs. The first holds the login screen, from
which sign-up screens are pushed and over which the main screen is presented; the
second holds a list of memos, from which the editor of a memo is pushed. Each
screen is a view controller with a view model; a view model calls use cases, and
a use case calls a DAO that it makes for itself. Observables bind the pieces.

| component | files | state | operations |
|---|---|---|---|
| Memo store | `MemoDao`, `Memo` | the Realm file: memos by `id` | `newId`, `insert`, `update`, `getList`, `get`, `delete` |
| Memo list | `TableViewController`, `TableViewModel`, `MemoDataSource`, the Add/Delete/GetMemoList use cases | `memoList`, `_itemModels`, the open swipe | add, swipe, delete, select a row |
| Memo editor | `MemoViewController`, `MemoViewModel`, `SavingMemoUseCase`, RxCocoa's `UITextView+Rx` | `id`, `memoText`, the text view, blocks on the main queue | type, delivery, save, back |
| Login screen | `LoginViewController`, `LoginViewModel`, `LoginUseCase` | two fields, the button, flatMap's subscriptions | edit, log in, push sign-up, show an answer |
| Sign-up screen | `SignUpViewController`, `SignUpViewModel`, `SignUpUseCase` | the same, for each screen that was opened | edit, confirm, back, show an answer and pop |
| Authentication DAO | `AuthenticationDao`, `Result` | a subject for sign-ups and one for logins | create a user, sign in, report the answer |
| Tab bar | `TabBarViewController` | the selected tab | start, switch |
| Message display | KRProgressHUD | visibility, the dismiss handler, timers | show, dismiss |
| Main and next screens | `MainViewController`, `MainViewModel`, `NextViewController`, `NextViewModel`, `TestFireBase` | a text, a label, two database paths | edit, go to next, back |
| Realm: callbacks of a notifier | `collection_notifier.cpp`, `transact_log_handler.cpp` | the vector of callbacks, an index and a count into it, changes collected and packaged | add, remove, run, package, call, report an error |
| Realm: coordinator and notifiers | `realm_coordinator.cpp`, `results_notifier.cpp`, `results.cpp`, `shared_realm.cpp` | versions, two lists of notifiers, two pinned versions, a version to skip to, the worker | evaluate, observe, refresh, write, suppress, run, deliver |
| RxSwift operators | `Merge` (flatMap), `PublishSubject`, `ShareReplayScope` | subscriptions, replayed element | subscribe, emit, dispose |
| Application delegate | `AppDelegate` | Core Data container, never filled | start and life-cycle callbacks |
| Unused helpers | `Segue`, `NavigationViewController`, `ViewControllable`, `UseCase`, `Table` | none | none |
| Firebase, UIKit, Realm's storage engine | vendored or system code | - | only as the application sees them |

### How they interact

* A tap runs to its end on the main thread: `TableViewModel.addMemo` and
  `deleteMemo` call the use case and then read the whole list again into
  `memoList`, whose binding hands it to `MemoDataSource` and reloads the table.
  Nothing observes Realm: list and store agree only because each operation
  refreshes by hand.
* The list holds live Realm objects, not copies. Reading one that was deleted
  ends the process, as does an index past the end of `memoList`.
* The editor holds copies (`MemoViewModel.init`). Its text goes both ways: the
  view model's text drives the text view, and the text view's changes are bound
  to the view model. The second way is asynchronous: RxCocoa observes the text
  storage and passes each change through `observeOn(MainScheduler.asyncInstance)`
  (`UITextView+Rx.swift:33`), a later block of the main queue, and reads the
  text view *there*.
* A tap on login or confirm sends a request to Firebase and returns the DAO's
  one subject. The view model's `flatMap` subscribes to it once more with each
  tap, and the subject never completes. The answer arrives later on the main
  thread, through a closure that holds the DAO `unowned`.
* Sign-up screens come and go while their requests are out. The view controller
  disposes of its subscriptions when it is deallocated; its view model is kept by
  a cycle through its own `lazy var inputs` and `outpus`.

* A message (`KRProgressHUD.showSuccess` after a save, `showError` after a failed
  login) is shown by two blocks of the main queue, which leave a *dismiss handler*
  with a global queue. When it fires, on a thread of that queue, it asks the main
  queue for a fade-out and then cancels the current handler, which by then may be
  that of another message. The property `dismissHandler` is shared without a lock.
* The main screen writes a text to `user/01` and opens a page whose view model has
  asked for the value of `test`; the database client answers later, to a local
  variable that has been returned already.
* Every `Results` that is evaluated on a run-loop thread, as `MemoDao.getList`'s
  is, gets a notifier (`results.cpp:279-282`). A worker thread reruns the queries
  after each commit of any Realm on the file and hands rows and changes over; the
  thread of the Realm packages them when it advances, and calls the callbacks with
  the mutex released. The application adds no callback; the machinery runs all the
  same, and it is where this repository's concurrency is.

### What is hard here, and what makes each component correct

The hazards, each with its line and the properties that cover it, are listed in
`PROJECT.json`. In short:

* **Store**: a new id must be above every id in use, or the upsert in `insert`
  replaces a memo; and it must not run out before `Int.max` is used.
* **List**: `deleteMemo(index)` acts on a *position*. Whatever was added,
  deleted or reloaded since the row was swiped, the position must still be that
  of the same memo, and it must be in the list. List, table and store must agree
  between any two taps, and after a restart.
* **Editor**: keystrokes, queued deliveries and the save button interleave. The
  page must never be turned back to an older text, the view model must catch up,
  `update` (an upsert) must hit a memo that exists, and what is saved must have
  been on the page.
* **Login and sign-up**: answers come late, in any order, and perhaps to a
  screen that is gone. The `unowned` reference must find its DAO; an answer must
  reach the screen that asked and no other; the main screen must follow a
  successful login only; every tap must come to a result.
* **Message display**: a message must come down, and not before its time; the
  handler must be there when it is armed.
* **Main and next screens**: what the page shows must not depend on when the
  database answers; the database must get what was tapped, in order.
* **Callbacks**: adding in a callback and removing on any thread must not make the
  iteration miss a callback, call one twice, call a newcomer early or read past the
  end; each change must be told once.
* **Coordinator**: with commits, refreshes, registrations and runs in any order, a
  callback must be told exactly what happened since the version it knows, rows
  must be of the version they are delivered at, a writer must start with everything
  told, waits must end, and suppression must hit one write.

## 2 The modules

| module | models | extends |
|---|---|---|
| `MemoDao` | the queries and writes of the store, as operators (no variables) | - |
| `Notebook` | the abstract specification: what the memo tab promises its user | `MemoDao` |
| `Memos` | store, list, editor and process life composed; refines `Notebook` | `MemoDao` |
| `Auth` | login screen, sign-up screens, requests and answers | - |
| `Hud` | the message display: main queue, global threads, the shared handler | - |
| `MainScreen` | main screen, next page, and the database client | - |
| `Callbacks` | the callbacks of one notifier, between the worker, the target thread and any other | - |
| `Delivery` | the abstract specification: what Realm promises to readers and observers of a file | - |
| `Coordinator` | Realms, notifiers, worker and coordinator composed; refines `Delivery` | - |
| `MemoDaoProofs`, `MemosProofs`, `AuthProofs`, `HudProofs`, `MainScreenProofs`, `CallbacksProofs`, `CoordinatorProofs` | theorems | the module of the name, `TLAPS` |
| `DeliveryProofs` | that commits and waits are served, and that `Coordinator` refines `Delivery` | `CoordinatorProofs` |
| `MCMemos`, `MCAuth`, `MCHud`, `MCMainScreen`, `MCCallbacks`, `MCCoordinator` | instances for TLC | the module of the name |

### MemoDao

A store is a function from ids `0..IntMax` to texts or `NoMemo`. `GetList` is the
ascending sequence of ids, defined by rank so that it can be proved about without
recursion; `MCMemos` compares it with the community modules' sort on every set of
ids up to 5. `NewId` is `last + 1`, which leaves `Id` exactly where the Swift
addition traps. `insert` and `update` are the same `realm.add(memo, update: true)`
and so one operator, `Upsert`. The title is a function of the id that nothing
edits and is left out. Operators whose comment calls
them mutants (`NewIdByCount`, `RefreshBeforeWrite`, ...) are deliberately wrong
forms of the operator after them, which show that a property can fail.

### Memos

| variable | code |
|---|---|
| `app` | the process: killed, launched on the login tab, listing the memos, or trapped and by what |
| `realm` | the Realm file, the only state that outlives the process |
| `memoList` | `TableViewModel.memoList`, by ids (its elements are live objects) |
| `rows` | `MemoDataSource._itemModels` |
| `swipe` | the row with an open delete button (`editActionsForRowAt`) |
| `editor` | `MemoViewModel.id` and `memoText`, the text view's text, the queued notifications |
| `seen` | history, read by no action's guard: the memo under the button when it came out, the last text typed, all texts the open page has shown |

One action is one tap, keystroke or main-queue block run to its end, with all the
calls it makes: `AddMemo` is `TableViewModel.addMemo` down to Realm and back up
through the reload, `DeleteMemo` and `Save` alike. What can come between two
actions is what can come between two turns of the main run loop. Error paths are
disjuncts: the overflow trap in `newId`, the write that fails under `try!`
(allowed at every write), the index out of range. `Kill` may come at any time and
leaves the Realm file alone; `Launch` reads it again. `Deliver` applies the oldest
notification: it reads the text view at *delivery* (`Delivered`), hands the text
to the view model, and the driver's way back sets the text view only if the text
differs. When a reload happens under an open swipe UIKit may or may not close it;
`AddMemo` allows both.

`Notebook` states what this is for: notes, at most one open draft, at most one
note under a delete button; adding takes a fresh id after all others, only the
user changes a page, saving touches the open note alone and stores a text its page
has shown, removing takes the note the button was shown on, and any end of the
process loses nothing that was saved. `ImplementsNotebook` is the refinement
(`notes <- realm`, `draft <- Draft`, `aimed <- seen.aimed`).

### Auth

A screen is a number: 0 is the login screen, the others are the sign-up screens in
the order they are opened. A screen stands for its view controller, view model,
use case and DAO, since each makes its own.

| variable | code |
|---|---|
| `stage` | on the navigation stack, popped but still animating (`leaving`), or deallocated (`gone`) |
| `filled`, `enabled` | non-empty fields of the view model; the button, as `isValid` last set it |
| `inner` | number of subscriptions that `flatMap` holds on the DAO's subject (`MergeSink`) |
| `selfHeld` | the cycle through `inputs`/`outpus` |
| `requests` | every request with what was sent, its answer, and how many times it was shown |
| `loginTab`, `main` | the selected tab; the main screen presented |
| `dangling` | an `unowned` callback met a deallocated DAO |

`Answer` is the Firebase callback: it finds its DAO or not, the subject delivers
to each subscription there is (`Deliver`), and the screen reacts (`LoginShows`,
`SignUpShows`). A second delivery of the same answer changes nothing that the
model keeps (the main screen is presented already; the popped screen has no
navigation controller), so the number of deliveries is recorded in `shown`.
`present` on a view controller that is covered or off-screen is UIKit's to accept
or refuse, so both outcomes are allowed. The message display dims the screen
without the model taking touches away: the model allows more taps than the
screen may.

### Hud

| variable | code |
|---|---|
| `queue` | the main queue: blocks of `show` (`prepare`, `present`) and of `dismiss` (`fadeOut`) |
| `arming` | the main thread is between the two statements of `registerDismissHandler` |
| `dismissHandler` | `KRProgressHUD.dismissHandler`, by the message whose handler it is |
| `handler`, `held`, `cancelled` | how far each handler has got on its global thread, and what it has loaded |
| `fading`, `visible`, `face` | fade-outs under way, `isVisible`, the message that came up last |
| `calm`, `robbed` | history: messages prepared on a quiet display; those whose handler another's cancelled |

A step touches `dismissHandler` once, so that the two threads interleave as they
may: `Load`, `Cancel` and `Clear` are the reads and writes of
`cancelCurrentDismissHandler` on the global thread, `Registers` and `Arm` those of
the main thread. Time is left out: any handler may fire at any time after it is
armed, which includes the timings of the code (one second, or the two that
`set(deadlineTime: 2.0)` sets at `LoginViewController.swift:66` and
`SignUpViewController.swift:47` and `:53`) and delays of a thread.

### MainScreen

`value` holds the local variables that `getValue`'s closures keep alive, one for
each observer, among them those of the view models that pages make and throw away;
`outbox` is what the database client has not sent. `Kill` empties it (no disk
persistence is configured) and `Open` begins again. The path `user/01` is hard-coded
(`TestFireBase.swift:23`), so every install writes to the same place, and the server
may refuse a write. The model has other clients write to `test` only and every sent
write accepted: what is checked and proved of `user01` is about this client's own
writes, and two users who overwrite each other are not covered.

### Callbacks

| variable | code |
|---|---|
| `m_callbacks`, `m_callback_index`, `m_callback_count`, `m_have_callbacks` | the members of these names; npos is -1, and what `--m_callback_count` makes of it lies below |
| `accumulated`, `toDeliver`, `initialDelivered` | the members of each `Callback` |
| `phase`, `calling`, `size` | the target thread: `before_advance`, `did_change`, `after_advance` or `deliver_error`; the callback it is in; the size it has read without the mutex |
| `changes`, `ran`, `wake`, `posted`, `failed` | commits, the worker's last run, its pipe, the run loop's, `m_async_error` |

One action is one section under `m_callback_mutex`. `Loop` goes on to the next
callback that has something to be told; the callback then runs with the mutex
released, and while it does the application may add callbacks, and anybody may
remove any. `Fail` is a first run that opens no file; `m_async_error` may also be set
by `pin_version` (`realm_coordinator.cpp:447`) when a later notifier is registered,
which is left out.

### Coordinator

| variable | code |
|---|---|
| `latest`, `at`, `writer` | versions of the file, the one each Realm reads, the write lock |
| `stage`, `goal`, `blocked`, `posted` | each Realm's thread: reading, in a write, or waiting in `package_and_wait`, and on `m_notifier_cv`; its run loop was signalled |
| `news`, `main`, `advancer`, `helper`, `skipVersion` | `m_new_notifiers`, `m_notifiers`, what the two SharedGroups read, `m_notifier_skip_version` |
| `alive`, `nt` | the notifiers whose Results is there, and the state of each |
| `wake`, `work` | the worker's pipe, and how far it is in `run_async_notifiers` |
| `quiet`, `muted`, `passedOver`, `mixedUp` | the commit that suppresses; history: what each notifier was not to be told, and the events below |

One action is one section under `m_notifier_mutex`, or what one thread does between
two. Every commit changes what every Results holds, so that a collection is known
by its version and a change by the version that made it: losing, repeating and
reordering changes are then visible as sets of versions. `passedOver` are the
notifiers that a run left alone as unwanted (`need_to_run`), `mixedUp` those whose
suppression met another step (a run under way, a commit that failed, another
Realm's commit); `ChangesContinue` and `RowsAreCurrent` hold of all others, and section
3 says for each of the two what goes wrong. Left out: `m_async_error` (see
`Callbacks`), writes begun inside callbacks (which neither wait nor notify,
`shared_realm.cpp:608-616`, and which its comment gives up on: all properties, and
`WritersKnowAll` and `ImplementsDelivery` above all, are about writes begun outside
callbacks), more than one callback for a notifier (`Callbacks`), and spurious wake-ups of the
condition variable.

`Delivery` states what all of this is for, without notifiers, queries, packages,
locks or a worker: the versions of a file follow each other, each Realm reads one of
them, and a callback observes what its Realm reads. A write starts at the latest
version (`Commit`), so that no write is lost to another; a Realm only goes forward
(`Advance`); changes arrive from where those before them end (`Arrive`), never those
silenced; and a callback is called with what leads exactly to the version that its
Realm reads (`Call`), every time that its Realm goes on. `ImplementsDelivery` is the
refinement: `latest` and `at` are those of the code, and `sub` is, for each notifier
whose callback has been called, the version it was told, the notifier's version, the
changes collected and the versions muted (`Subscription`). A notifier with nothing to
promise (none called yet, passed over, its suppression mixed up) has an empty
subscription.

## 3 What TLC checks

| run | instance | distinct states | shows |
|---|---|---|---|
| `memos` | ids to 4, three texts, two queued notifications | 55,744 | the memo tab's properties below, and the refinement of `Notebook` |
| `memos_delivery` | ids to 2, two texts, two notifications | - | expected violation: `TextDeliveredImmediately` |
| `auth` | two sign-up screens, three requests | 746,312 | the login tab's properties |
| `hud` | three messages | 66,033 | the message display's properties |
| `hud_stuck` | two messages | - | expected violation: `MessagesComeDown` |
| `main_screen` | three texts, two pages | 11,160 | the properties of the main and next screens |
| `callbacks` | three callbacks, one change | 437,049 | the properties of the callbacks |
| `callbacks_count` | two callbacks, one change | - | expected violation: `CountAsCommented` |
| `notifiers_safety` | a Realm with a notifier, one that only writes, three versions, suppression, failing commits, other threads | 3,170,872 | `ChangesContinue`, `RowsAreCurrent`, `WritersKnowAll`, `WaitersAreServed`, `CommitsAreOnTheWay`, the refinement of `Delivery` |
| `notifiers_two` | two Realms with a notifier each, two versions, symmetric | 3,873,945 | what holds between notifiers: `VersionsInOrder` |
| `notifiers_progress` | as the first, two versions, no suppression, no other threads | 134,452 | `WaitsEnd`, `CommitsArrive` |
| `notifiers_silent` | as the first | - | expected violation: `SuppressedAreSilent` |

Memo tab: `ListMatchesStore` (list = sorted store, table = list, at every point where
the program waits), `SwipeAimsTrue` (the delete button stays on the memo it came out
on), `TrapsOnlyAtIntMax` (no index past the end, and an overflow only when `Int.max` is
an id), `EditorOverStoredMemo` (a save never makes a memo), `EditorSettles` (the two-way
binding never reverts typing and ends in agreement), `SavesWhatWasShown` (action
property), `ImplementsNotebook` (refinement), `ModelCatchesUp` (liveness).

Login tab: `NeverDangles`, `AnswersAreShown` (lost only on a screen that is gone,
shown at most once per tap), `MainOnlyAfterLogin`, `GoneScreensAreSilent` (action
property), `TapsAreAnswered` (liveness).

Message display: `LeftUpOnlyIfRobbed` and `MessagesComeDownUnlessRobbed` (safety and
liveness of coming down, for every interleaving but the one named),
`CalmMessagesAreSafe` and `CalmMessagesKeepTheirTime` (a message prepared while
nothing but one waiting handler is there is in no race and keeps its time).

Main and next screens: `PageStaysBlank`, `WritesWhatWasTapped` (action property: only
what was tapped is written, through restarts, and the last tap is the last in line or
written), `LastTapArrives` (liveness). The last two speak of this client's own writes,
accepted by the server.

Callbacks: `CountIsOfPackaged` (in front of the count are exactly the packaged
callbacks that remain), `NewcomersWait` (action property), `EachChangeOnce`,
`NothingIsForgotten` (the flag that the worker reads without the mutex is right, what
waits has been posted, and a callback never called has a wake-up, a post or a delivery
ahead of it: the safety half of the next), `EarlyCallbacksAreCalled` (liveness). All but the
first two parts of `NothingIsForgotten` except what follows once a token was dropped
during a delivery that it was no part of (`strayed`), which `CountAsCommented` and
`CountFitsVector` below are about. The last part of `NothingIsForgotten` and
`EarlyCallbacksAreCalled` are about callbacks added while nothing is being sent; of one
that is added inside a callback nothing is promised, see `EveryCallbackIsCalled` below.

Coordinator: `ChangesContinue` (what waits for a callback is exactly what lies
between the version it knows and that of its notifier), `RowsAreCurrent`,
`WritersKnowAll`, `VersionsInOrder` (`VersionsArePinned`, `RunsForward`,
`OnePackageVersion`), `ImplementsDelivery` (refinement), `WaitsEnd` and `CommitsArrive`
(liveness), and the safety halves of these two: `WaitersAreServed` (whoever waits has
the run ahead that ends the wait, and a sleeper a wake-up) and `CommitsAreOnTheWay`
(whatever a callback lacks has a signal, a run or a hand-over ahead). Writes are begun
outside callbacks in all of them.

Each property of a passing run has a mutant in `PROJECT.json`: a plausible bug of
the code (an id by count, a refresh before the write, a view model that is not
filled, a subscription that is not made or not disposed of) under which TLC finds
that property violated in the same instance.

### Where the code and what is said of it differ

Four of these have a run that expects the violation, and an entry under `findings`
with the line quoted:

* `hud_stuck`: a dismiss handler that is delayed after its own `dismiss` cancels the
  handler of the next message, which then stays up. The application can meet this by
  saving again about a second after a save.
* `callbacks_count`: removing a newcomer during a delivery makes the count one too
  small, and the last packaged callback is not called.
* `notifiers_silent`: a suppression is used up by a run that had begun before the
  commit, and the callback is told the write after all.
* `memos_delivery`, a disagreement with a doc comment: RxCocoa documents every
  `ControlProperty` as delivering on `MainScheduler.instance`
  (`ControlProperty.swift:31`), and `MainScheduler.swift:12` says that work scheduled
  from the main queue is performed immediately. The text view's property goes
  through `MainScheduler.asyncInstance` instead, so a save that runs before the
  queued block stores the text before the last keystroke. `SavesWhatWasShown` and
  `ModelCatchesUp` say what does hold: an older text of the page at worst, and not
  for good.

The last section of `Hud`, `Callbacks` and `Coordinator` states further claims that
the code's words make and its steps do not keep. They are checked by hand, by adding
the claim to the configuration named; TLC then shows the behaviour described.

| claim | configuration | what happens |
|---|---|---|
| `MessagesKeepTheirTime` | `MCHud`, two messages | the completion of a fade-out takes down whatever is up, before that message's own handler has fired (`InnerKRProgressHUD.swift:177`); a save shortly after a save meets it |
| `HandlerIsThere` | `MCHud`, two messages | an earlier handler clears the property between its assignment and `dismissHandler!` (line 149) |
| `CountFitsVector` | `MCCallbacks` | `deliver_error` reads the size outside the mutex; a token dropped in between leaves the count above it, which `collection_notifier.cpp:372` asserts never to be |
| `EveryCallbackIsCalled` | `MCCallbacksCount` under `FairSpec` | a callback added in a callback wakes nobody, and is called when something else does |
| `OthersAreTold` | `MCCoordinatorSilent` | a commit that fails leaves its mark (`RLMRealm.mm:599`), and the next write is skipped in its place |
| `ChangesContinueAlways` | `MCCoordinator`, three versions | a run that passes a notifier over as unwanted moves its version on and leaves its previous rows behind; a callback added later is told changes it already has |
| `RowsAreCurrentAlways` | `MCCoordinator`, four versions | the same, and a waiting table view is moved to a version whose rows it does not have |
| `UseResumesUpdates` | `MCCoordinatorLive` | updates that stopped for want of use do not start again (`results.cpp:728` says they do) |
| `WaitsEnd` with `OtherThreads` | `MCCoordinatorLive`, `OtherThreads = TRUE` | the last notifier goes away on another thread, the worker returns at `realm_coordinator.cpp:630` without a `notify_all`, and the wait does not end |

### Bounds, and why they are enough

* `IntMax` = 4 gives stores with gaps at the front, in the middle and at the end,
  two memos above and below a deleted one, and the overflow, with free ids and
  without. Larger ids repeat these cases, and the theorems hold for every `IntMax`.
* Three texts tell the empty text, the stored one and a newer one apart.
* `MaxPending` bounds unserved notifications: with two, a delivery can be overtaken
  by a newer keystroke and another can still wait behind it.
* `MaxSignUps` = 2 is the least number where a late answer to one screen finds
  another one on the stack; `MaxTaps` = 3 lets two requests of one screen and one
  of another be out together, in all orders of answers.
* `MaxSignUps` and `MaxTaps` count over the life of the process. Behind them the
  instance stops (everything answered under the main screen, which is never
  dismissed), so `MCAuth.cfg` does not check for deadlock. The memo tab's runs do.
* Three messages are one that replaces another and one that is robbed by it, with
  a fade-out of the first still under way; two suffice for each violation.
* `MaxPages` = 2 gives a page opened again, with an observer left by the first.
* Three tokens: one that is packaged, one that comes during the delivery, and one
  before or behind either that is dropped. One change is enough: a second one is
  accumulated into the same set before it is packaged, or is a later delivery.
* Three versions: one known, one told or suppressed, one more under way. A Realm without
  notifiers stands for other processes as well. Two notifiers are the least that can
  disagree.
* All these counts are over the life of the process, so the runs of `Hud`,
  `Callbacks` and `Coordinator` end and do not check for deadlock; what must go on is
  stated as liveness. `main_screen` checks for deadlock.

Symmetry is used in `notifiers_two` alone, where the two Realms change places with
their notifiers and only invariants are checked.

### Fairness

`Memos`: weak fairness of `Deliver` alone. A block on the main queue is run as long as
the process runs. No tap, keystroke, launch or kill is fair. `Auth`: weak fairness of
the answer to each request: Firebase calls every completion handler, if only with a
timeout error. Nothing is assumed of the user, who may leave a screen and never come
back; that is why `TapsAreAnswered` ends with the screen gone as the alternative. `Hud`:
weak fairness of the main queue, of the end of animations and of each global thread, as
Dispatch and Core Animation give it. `MainScreen`: the client sends and brings values.
`Callbacks`: the worker serves its pipe and callbacks return (weak); the run loop serves
what is posted (strong: a delivery may be under way each time it would). `Coordinator`:
the worker and each waiting thread run (weak); a thread ends a write it has begun, by a
commit or by cancelling it (weak: nothing that it may do meanwhile prevents that, and no
commit is forced); and it comes back to its run loop (strong, because it may do other
things in between). No user's step (evaluating, observing, refreshing, beginning a
write, dropping a token) is fair.

## 4 What is proved

All theorems hold for every value of the constants under the named assumptions of the
modules (`IntMaxAssumption`, `TextAssumption`, `MaxPendingAssumption`,
`NoEditorAssumption`, `BoundsAssumption`, `MaxMessagesAssumption`,
`MaxPagesAssumption`, `ConstantsAssumption`), which only say what kind of value a
constant is.

**MemoDaoProofs.** `Rank` is increasing on a finite set of ids (`RankIncreasing`),
so injective, so a bijection onto `1..n` (`RankSurjective`). Hence the list is
strictly ascending (`SortedAscends`), its last entry is the greatest id, `newId` is
above every id in use and overflows only if `Int.max` is among them
(`NewIdIsFresh`), and a new memo goes to the end and moves no row (`SortedAppends`).

**MemosProofs.** The inductive invariant `IInv` is the conjunction of the checked
invariants and two more. `Screens` says which screens can exist together: an open
swipe excludes the editor, so no delete happens behind an editor's back (this is
what makes `EditorOverStoredMemo` inductive), and `seen.aimed` is set exactly while
a button is out. `PageWasShown` says that both texts of the editor were shown,
which `SavesWhatWasShown` needs. `SwipeAimsTrue` across `AddMemo` rests on
`SortedAppends`. `NextInv` has one step per action; `Invariance` gives the
correctness theorems (`TrapCorrectness` puts the two traps together, as the run checks
them), and `Implementation` shows that each step is a step of
`Notebook` or leaves its variables alone.

**AuthProofs.** `IInv` adds three facts to the checked invariants. `ScreenLife`: a
screen that was ever opened keeps its view model through its inputs, so that its
DAO lives when an answer comes, and only screens on the stack have subscriptions.
`SubscribedByTaps`: a screen on the stack with a request has a subscription, and
never more than it has taps; this is what bounds deliveries and keeps an answer
from being lost. `SentFilled`: an enabled button has both fields filled. From these
follow `CallbackSafety`, `AnswerCorrectness`, `LoginCorrectness` and
`SilenceOfGoneScreens`, for any number of screens and requests.

`CallbackSafety` is worth a remark: the `unowned` reference is safe *because of* the
reference cycle (a leak of one view model per sign-up screen). Removing the leak,
the mutant `ComputedInputsHoldSelf`, makes the callback dangle.

**HudProofs.** The inductive invariant says which threads can be where: a handler that
is referred to waits, runs or is about to be armed; a calm message has nothing of
earlier ones under way but one waiting handler, which its own `prepare` cancels. From
it `LeftUpCorrectness`, `CalmSafety` and `CalmTime`, for any number of messages.

**MainScreenProofs.** `PageCorrectness` rests on the label being read before any
observer is called; `WriteCorrectness` on all that waits in the outbox having been
tapped, an enabled button having a text, and sends taking the first of the outbox,
so that its last stays the last tap (`LastTapIsOnItsWay`). It is about this client's
own writes, accepted by the server.

**CallbacksProofs.** `ListInv` (`Distinct`: a token is given to one callback; `Indexed`:
the index stays inside the vector; `Counted`: what is called was packaged;
`CountIsOfPackaged`) is what makes an index into a vector that others remove from come
out right: in front of the count are the packaged callbacks that remain, in their order.
`ToldInv` adds `Brought` and `Drained`, what each callback still has to be told and that
nothing packaged outlives its delivery, from which `EachChangeOnce` follows. Hence
`CountCorrectness`, `NewcomersCorrectness` and `OnceCorrectness`, for any number of
callbacks and changes, and as long as no token is dropped during a delivery that it was
no part of (`strayed`). `NoneForgotten` is the conjunction of three arguments: the flag
(`FlagCorrectness`); `Prompted`, that what is collected is posted, which needs that a
worker that failed has collected nothing; and `Reached`, that a callback that was added
while nothing was sent and never called is, with the same exception, in front of the
index of the delivery that will call it. The last holds across a removal because what
was in front of the index stays there (`RemovedInFront`), and across the loop because
the loop neither ends nor passes a callback by while one in front of it has something to
be told (`LoopReaches`).

**CoordinatorProofs.** `IInv` is `TypeOK`, `VersionsArePinned`, `OnePackageVersion` and
two more. `Listed`: which notifiers are on which list at each step of the worker
(those it took along are in `m_notifiers`, new ones have not run). `Forward`: no
version read or waited for is past the latest, and the worker's target and skip
version are in order. From these `ForwardCorrectness`, `PinCorrectness` and
`PackageCorrectness`; three stronger invariants are laid on top.

* `WriterCorrectness`, of writes begun outside callbacks, needs who holds the write lock
  and since which version (`Locked`), that every notifier of a Realm is on one of the
  lists (`Enlisted`), and that a thread is let past its wait only with everything told
  (`Informed`).
* `RowsCorrectness` (`RowsInv`) says for every notifier that its rows are those of
  the version it is at (`Settled`) or, if the worker has run it and not handed it over
  yet (`Pending`), of the version that the run goes to (`Moving`).
* `ChangesCorrectness` (`ChangesInv`) is the promise of a fine-grained notification: a
  callback is told exactly the changes between the version it knows and the one it is
  brought to, no change lost, none told twice. `Fine` gives for every live notifier what
  its callback knows (`Known`), what a mark of `skip_next` means (`Marking`) and, unless
  it was passed over or its suppression met another step, what its two sets of changes
  are (`Continues`): what is accumulated is everything after the version told, less what
  was suppressed; what the run has found is everything from there to the version the
  worker is at; and a mark is due for exactly the next version of its notifier, to which
  the worker goes first (`Due`). `Following` (the worker is not behind any notifier) and
  `Quieted` (a suppression lasts for one commit) connect these with the worker's steps.

One step per action shows each of them preserved, for any number of Realms,
notifiers and versions. `VersionsCorrectness` puts the first three together as the run
checks them.

`UnsuppressedCorrectness` is what these come to where no write suppresses notifications
(`SilentWrites = FALSE`, the case of this application): `muted` and `mixedUp` stay empty
(`Outright`), and every change is told in every notifier that no run has passed over.

**DeliveryProofs.** Three results on top of `CoordinatorProofs`.

* `CommitCorrectness`: `CommitsAreOnTheWay` is inductive relative to `ChangesInv`, which
  says where a notifier stands when a run ends. The proof has one lemma per action; the
  cases that matter are a commit while a run is under way (its signal comes after), a
  first callback added behind the worker's back (`AddCallback` wakes it), and the end of
  a run, where what was run is handed over or somebody has asked again.
* `WaitCorrectness`: `WaitInv` says of each thread that it is served while it waits
  (`Served`), and that one which sleeps has a notifier with a callback that is there,
  unless tokens may be dropped on any thread (`Held`). Without `Held` the worker could
  find no notifiers and return without waking anybody. That a run never ends with a
  waiter unserved follows from the hand-over moving every notifier taken along to the
  worker's target.
* `DeliveryCorrectness`: the refinement of `Delivery`, one lemma per action
  (what each does to a notifier's `Subscription`), where writes are begun outside
  callbacks. It needs that no Realm waits
  for a version it has left behind, and that one which writes reads the latest
  (`Reading`, which rests on the write lock); that a called callback knows a version
  (`Knows`); and `ChangesInv`, from which the changes that arrive continue those before.

With liveness out of the provers' reach, the first two are the part of `CommitsArrive`
and `WaitsEnd` that can be proved: there is no state in which nobody has anything to do
and a callback is behind or a thread waits.

**Only model-checked**: the liveness properties (liveness is beyond the installed
provers): `ModelCatchesUp`, `TapsAreAnswered`, `MessagesComeDownUnlessRobbed`,
`LastTapArrives`, `EarlyCallbacksAreCalled`, `WaitsEnd`, `CommitsArrive`; and the
refuted claims, of which TLC gives a counterexample. Every invariant and every
action property that a run checks is a theorem as well, and so are the two refinements.

## 5 What is not covered

* The vendored code but for the parts named above. The repository holds some 118,000
  lines of C++ and Objective-C, nearly all of them the headers of Realm's storage
  engine (B+-trees, columns, queries, transaction logs, network and sync), which the
  application sees through a handful of calls; it is a library of data structures
  shipped as a binary with its headers, and its implementation is for the most part
  not in the repository. What is modelled of it is the object store's notification
  machinery, whose source is here.
* Of the message display: loading messages, styles, `update` and every `set(...)` but
  `set(deadlineTime:)`: never used. That one is used, and covered by leaving time out.
* Of the database: other installs, which write to the same hard-coded `user/01`, and a
  server that refuses a write.
* Of the coordinator: writes begun inside callbacks, opening and caching of Realms,
  schemas, sync, `invalidate`, and notifiers of single objects and lists.
* `share(replay: 1)`: each shared observable here has one subscriber, for which it
  passes events through.
* `AppDelegate`'s Core Data stack: no code puts an object into its context.
* The unused helper files; wording, layout and the title of a memo.
* Realm's durability and Firebase's behaviour: a Realm write happens as a
  whole or ends the process; a request is answered at most once, at any later time.
* The tabs are not composed. They share no state but the selected tab and the
  message display.

## 6 Plan

Done, in this order: `MemoDao`, `Memos` with `Notebook`, `Auth`, `Hud`, `MainScreen`,
`Callbacks`, `Coordinator` with `Delivery`, and the proofs about each. What is left, in
order of what it would add:

1. Abstract specifications of `Auth` (a request is answered once, to its own screen) and
   `Hud` (a message stays up for its time), and their refinements.
2. `Callbacks` composed with `Coordinator`: several callbacks of one notifier with
   suppression, where `skip_next` of one must not touch another.
3. `App`: `Auth` and `Hud` together (an answer's message over a later screen).
4. `ShareReplay`: the reference-counted replay of `ShareReplayScope.swift`, if the
   application ever subscribes to a shared observable twice.

## 7 Running it

    tlc -workers 2 -config MCMemos.cfg MCMemos
    tlc -workers 2 -config MCMemosDoc.cfg MCMemos
    tlc -workers 2 -config MCAuth.cfg MCAuth
    tlc -workers 2 -config MCHud.cfg MCHud
    tlc -workers 2 -config MCHudStuck.cfg MCHud
    tlc -workers 2 -config MCMainScreen.cfg MCMainScreen
    tlc -workers 2 -config MCCallbacks.cfg MCCallbacks
    tlc -workers 2 -config MCCallbacksCount.cfg MCCallbacks
    tlc -workers 2 -config MCCoordinator.cfg MCCoordinator
    tlc -workers 2 -config MCCoordinatorTwo.cfg MCCoordinator
    tlc -workers 2 -config MCCoordinatorLive.cfg MCCoordinator
    tlc -workers 2 -config MCCoordinatorSilent.cfg MCCoordinator
    tlapm MemoDaoProofs.tla   (and MemosProofs, AuthProofs, HudProofs, MainScreenProofs,
                               CallbacksProofs, CoordinatorProofs, DeliveryProofs)
