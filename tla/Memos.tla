------------------------------- MODULE Memos -------------------------------
(***************************************************************************)
(* The memo tab: the Realm store (MemoDao.tla), the list screen            *)
(* (TableViewController, TableViewModel, MemoDataSource), the editor       *)
(* (MemoViewController, MemoViewModel, the text view's RxCocoa property)   *)
(* and the life of the process around them.                                *)
(*                                                                         *)
(* All of it runs on the main thread: one action is one tap, one keystroke *)
(* or one block of the main dispatch queue, run to its end.  What can come *)
(* between two actions is anything the user or the system does in between. *)
(***************************************************************************)
EXTENDS MemoDao, Sequences

CONSTANTS
    NoEditor,   \* the editor screen is not on the navigation stack
    MaxPending  \* bound: editing notifications waiting on the main queue

ASSUME MaxPendingAssumption == MaxPending \in Nat

(* What the editor screen is made of: the copy of the memo that its view    *)
(* model holds (id, memoText), the text of the text view (view), and the    *)
(* editing notifications that wait on the main queue (pending).             *)
Editors == [id: Id, memoText: Text, view: Text, pending: Seq(Text)]

ASSUME NoEditorAssumption == NoEditor \notin Editors

VARIABLES
    app,       \* the process, and the screen it has got to
    realm,     \* the Realm file
    memoList,  \* TableViewModel.memoList, by the ids of its memos
    rows,      \* MemoDataSource._itemModels, what the table shows
    swipe,     \* the row whose delete button is out, 0 for none
    editor,    \* the editor screen, or NoEditor
    seen       \* history: what the user sees, which no code reads: the memo
               \*   under the delete button when it came out (aimed), the last
               \*   text typed (typed), all texts the open page showed (shown)

vars == <<app, realm, memoList, rows, swipe, editor, seen>>

Running == {"launched", "listing"}
Trapped == {"overflow", "outOfRange", "writeFailed"}

NoSight == [aimed |-> 0, typed |-> EmptyText, shown |-> {}]

(* The memory of the process goes with it; the Realm file stays. *)
Clear ==
    /\ memoList' = <<>>
    /\ rows' = <<>>
    /\ swipe' = 0
    /\ editor' = NoEditor
    /\ seen' = NoSight

Trap(kind) == app' = kind /\ Clear /\ UNCHANGED realm

Init ==
    /\ app = "killed"
    /\ realm = EmptyStore
    /\ memoList = <<>> /\ rows = <<>> /\ swipe = 0
    /\ editor = NoEditor /\ seen = NoSight

-----------------------------------------------------------------------------
(* The process *)

(* AppDelegate makes the tab bar, and the tab bar the list screen: its view *)
(* model reads the store.  The first tab is on top, no table view exists.   *)
Launch ==
    /\ app \notin Running
    /\ app' = "launched"
    /\ memoList' = GetList(realm)
    /\ UNCHANGED <<realm, rows, swipe, editor, seen>>

(* The user turns to the memo tab: viewDidLoad binds the table to the list. *)
ShowTable ==
    /\ app = "launched"
    /\ app' = "listing"
    /\ rows' = memoList
    /\ UNCHANGED <<realm, memoList, swipe, editor, seen>>

(* The system or the user ends the process, between any two steps of it. *)
Kill ==
    /\ app \in Running
    /\ app' = "killed" /\ Clear /\ UNCHANGED realm

-----------------------------------------------------------------------------
(* The list screen *)

OnList == app = "listing" /\ editor = NoEditor

(* memoList.value[index] and then a property of that memo: the process      *)
(* traps when the index is past the end, or the memo was deleted since.     *)
Reachable(index) == index \in DOMAIN memoList /\ realm[memoList[index]] # NoMemo

(* Mutants of Refresh: the list is read before the write; the table is      *)
(* given the new list and the view model keeps the old one.                 *)
RefreshBeforeWrite(store) == memoList' = GetList(realm) /\ rows' = memoList'
RefreshTableOnly(store)   == rows' = GetList(store) /\ UNCHANGED memoList

(* memoList.value = getMemoListUseCase.invoke(): the assignment runs the    *)
(* table's binding, which takes the list and reloads the table.             *)
Refresh(store) ==
    /\ memoList' = GetList(store)
    /\ rows' = memoList'

(* try! realm.write: the store is replaced, or the process is gone. *)
WriteFails == Trap("writeFailed")

(* The add button.  On the reload UIKit may keep an open swipe or close it. *)
AddMemo ==
    /\ OnList
    /\ \/ /\ NewId(realm) > IntMax
          /\ Trap("overflow")
       \/ /\ NewId(realm) <= IntMax
          /\ \/ WriteFails
             \/ /\ realm' = Upsert(realm, NewId(realm), EmptyText)
                /\ Refresh(realm')
                /\ swipe' \in {swipe, 0}
                /\ seen' = [seen EXCEPT !.aimed = IF swipe' = 0 THEN 0 ELSE @]
                /\ UNCHANGED <<app, editor>>

(* A row is swiped: editActionsForRowAt gives it its delete button. *)
Swipe(r) ==
    /\ OnList
    /\ swipe' = r
    /\ seen' = [seen EXCEPT !.aimed = rows[r]]
    /\ UNCHANGED <<app, realm, memoList, rows, editor>>

CloseSwipe ==
    /\ OnList /\ swipe # 0
    /\ swipe' = 0
    /\ seen' = [seen EXCEPT !.aimed = 0]
    /\ UNCHANGED <<app, realm, memoList, rows, editor>>

(* The delete button: TableViewModel.deleteMemo(index) with the row it is   *)
(* on now.  The reload takes the button away.                               *)
DeleteMemo ==
    /\ OnList /\ swipe # 0
    /\ IF ~Reachable(swipe)
       THEN Trap("outOfRange")
       ELSE \/ WriteFails
            \/ /\ realm' = Delete(realm, memoList[swipe])
               /\ Refresh(realm')
               /\ swipe' = 0
               /\ seen' = [seen EXCEPT !.aimed = 0]
               /\ UNCHANGED <<app, editor>>

-----------------------------------------------------------------------------
(* The editor screen *)

(* Mutants of EditorOver: the controller keeps the view model of a Memo();  *)
(* the text view is filled from the memo, and the view model is not.        *)
EditorOverDefaultMemo(id) ==
    [id |-> 0, memoText |-> EmptyText, view |-> EmptyText, pending |-> <<>>]
EditorWithoutCopy(id) ==
    [id |-> id, memoText |-> EmptyText, view |-> realm[id], pending |-> <<>>]

(* MemoViewModel(memo:) copies the memo; the driver then puts the copy on   *)
(* the text view before the text view's own changes are subscribed to, so   *)
(* nothing is pending.                                                      *)
EditorOver(id) ==
    [id |-> id, memoText |-> realm[id], view |-> realm[id], pending |-> <<>>]

(* A row is tapped: the editor is pushed over the list. *)
Select(r) ==
    /\ OnList
    /\ IF ~Reachable(r)
       THEN Trap("outOfRange")
       ELSE /\ editor' = EditorOver(memoList[r])
            /\ swipe' = 0
            /\ seen' = [aimed |-> 0, typed |-> editor'.view, shown |-> {editor'.view}]
            /\ UNCHANGED <<app, realm, memoList, rows>>

(* Mutant of Shows: the change of the text view is not observed. *)
ShowsUnobserved(e, text) == [e EXCEPT !.view = text]

(* The text view is given a text: its text storage posts a notification,    *)
(* which observeOn(MainScheduler.asyncInstance) puts on the main queue.  An *)
(* entry is the text at the time of the post.                               *)
Shows(e, text) == [e EXCEPT !.view = text, !.pending = Append(@, text)]

(* A keystroke, a paste or an autocorrection. *)
Type(text) ==
    /\ editor # NoEditor
    /\ Len(editor.pending) < MaxPending
    /\ editor' = Shows(editor, text)
    /\ seen' = [seen EXCEPT !.typed = text, !.shown = @ \union {text}]
    /\ UNCHANGED <<app, realm, memoList, rows, swipe>>

(* Mutant of Delivered: the map that reads the text stands before the       *)
(* observeOn.                                                               *)
DeliveredAsPosted(posted, now) == posted

(* The text that a notification brings to the view model: the map that      *)
(* reads the text view stands behind the observeOn, so it reads the text of *)
(* the moment of delivery, not that of the post.                            *)
Delivered(posted, now) == now

(* The main queue runs the oldest notification.  The view model takes the   *)
(* text, and its driver hands it back to the text view, which sets it only  *)
(* when it differs.                                                         *)
Deliver ==
    /\ editor # NoEditor /\ editor.pending # <<>>
    /\ LET text  == Delivered(Head(editor.pending), editor.view)
           taken == [editor EXCEPT !.memoText = text, !.pending = Tail(@)]
       IN  editor' = IF text = editor.view THEN taken ELSE Shows(taken, text)
    /\ UNCHANGED <<app, realm, memoList, rows, swipe, seen>>

(* The save button: the view model writes its copy.  The list keeps its     *)
(* memos, which are live objects of the same ids.                           *)
Save ==
    /\ editor # NoEditor
    /\ \/ WriteFails
       \/ /\ realm' = Upsert(realm, editor.id, editor.memoText)
          /\ UNCHANGED <<app, memoList, rows, swipe, editor, seen>>

(* The back button: the screen is popped and its bindings disposed of. *)
Back ==
    /\ editor # NoEditor
    /\ editor' = NoEditor
    /\ seen' = NoSight
    /\ UNCHANGED <<app, realm, memoList, rows, swipe>>

-----------------------------------------------------------------------------
Next ==
    \/ Launch \/ ShowTable \/ Kill
    \/ AddMemo \/ CloseSwipe \/ DeleteMemo
    \/ \E r \in DOMAIN rows : Swipe(r) \/ Select(r)
    \/ \E text \in Text : Type(text)
    \/ Deliver \/ Save \/ Back

Spec == Init /\ [][Next]_vars

(* The main queue runs what is put on it.  The user owes the program        *)
(* nothing: no tap and no keystroke is fair.                                *)
FairSpec == Spec /\ WF_vars(Deliver)

-----------------------------------------------------------------------------
(* Types.  The ids of stored memos and of list entries are positive: 0 is   *)
(* what a Memo() has that the store never gave an id to (MemoDao.newId).    *)
TypeOK ==
    /\ app \in {"killed"} \union Running \union Trapped
    /\ realm \in Store /\ Stored(realm) \subseteq Id \ {0}
    /\ memoList \in Seq(Id \ {0}) /\ rows \in Seq(Id \ {0})
    /\ swipe \in 0 .. Len(rows)
    /\ editor \in Editors \union {NoEditor}
    /\ seen \in [aimed: Id, typed: Text, shown: SUBSET Text]

(* The view model's list is the sorted content of the store whenever the    *)
(* program waits for the user, although three use cases with a DAO each     *)
(* write to it and nothing observes it; and the table shows that list       *)
(* (TableViewModel.addMemo and deleteMemo, MemoDataSource).                 *)
ListMatchesStore ==
    /\ app \in Running => memoList = GetList(realm)
    /\ app = "listing" => rows = memoList

(* The row that carries the delete button still shows the memo that the     *)
(* button came out on: deleteMemo(index) acts on a position, and the memos  *)
(* added meanwhile must not move it (TableViewController, newId).           *)
SwipeAimsTrue == swipe # 0 => rows[swipe] = seen.aimed

(* No tap on the list ends the process: no index is past the list and no    *)
(* memo of the list was deleted before it is read (deleteMemo,              *)
(* didSelectRowAt).                                                         *)
NeverOutOfRange == app # "outOfRange"

(* Adding traps on an overflow only when the largest id is in use: gaps     *)
(* that deletions leave do not use ids up (newId).                          *)
OverflowOnlyAtIntMax == app = "overflow" => realm[IntMax] # NoMemo

(* However the list was edited, no tap on it ends the process while there   *)
(* are ids left.                                                            *)
TrapsOnlyAtIntMax == NeverOutOfRange /\ OverflowOnlyAtIntMax

(* The editor is open on a memo that the store has: Save, an upsert, writes *)
(* over a memo and never makes one that the list does not show.             *)
EditorOverStoredMemo == editor # NoEditor => editor.id \in Stored(realm)

(* The two-way binding between the text view and the view model settles on  *)
(* the text the user typed last: it never turns the page back to an older   *)
(* text, and once no notification waits both ends agree                     *)
(* (MemoViewController.binding, UITextView+Rx).                             *)
EditorSettles ==
    editor # NoEditor =>
        /\ editor.view = seen.typed
        /\ editor.pending = <<>> => editor.memoText = editor.view

(* What Save stores was on the page at some time since it was opened: the   *)
(* view model has no text of its own (MemoViewModel.savingObservable).      *)
SavesWhatWasShown ==
    [][editor # NoEditor /\ realm' # realm => realm'[editor.id] \in seen.shown]_vars

(* What the documentation of ControlProperty and MainScheduler says of the  *)
(* binding of the text view: an event from the main queue is delivered at   *)
(* once, so the view model has the text of the page at every step.          *)
TextDeliveredImmediately == editor # NoEditor => editor.memoText = editor.view

(* An open page does not stay ahead of the view model: again and again the  *)
(* two agree, or the editor is closed, however fast the user types.         *)
ModelCatchesUp == []<>(editor = NoEditor \/ editor.memoText = editor.view)

-----------------------------------------------------------------------------
(* The memo tab implements the notebook: ids for notes, the page of the     *)
(* text view for the draft, the memo that the button came out on for aim.   *)
Draft ==
    IF editor = NoEditor
    THEN [id |-> 0, page |-> EmptyText, shown |-> {}]
    ELSE [id |-> editor.id, page |-> editor.view, shown |-> seen.shown]

Book == INSTANCE Notebook
            WITH notes <- realm, draft <- Draft, aimed <- seen.aimed, NoId <- 0

(* What the user of the memo tab is promised: Notebook's specification. *)
ImplementsNotebook == Book!Spec
=============================================================================
