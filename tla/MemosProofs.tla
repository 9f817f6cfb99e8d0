---------------------------- MODULE MemosProofs ----------------------------
(***************************************************************************)
(* Proofs about Memos.tla, for every Int.max, every set of texts and every *)
(* bound on the main queue: the type invariant, the safety invariants, the *)
(* action property of Save, and that the memo tab implements the notebook. *)
(***************************************************************************)
EXTENDS Memos, MemoDaoProofs

(* What the safety invariants need to be inductive: which screens can be    *)
(* there together, and that both texts of the editor were shown on it.      *)
Screens ==
    /\ app # "listing" => rows = <<>> /\ editor = NoEditor
    /\ swipe # 0 => editor = NoEditor
    /\ seen.aimed = 0 <=> swipe = 0

PageWasShown ==
    editor # NoEditor =>
        {editor.memoText, editor.view} \subseteq seen.shown

IInv ==
    /\ TypeOK
    /\ ListMatchesStore
    /\ SwipeAimsTrue
    /\ NeverOutOfRange
    /\ OverflowOnlyAtIntMax
    /\ EditorOverStoredMemo
    /\ EditorSettles
    /\ Screens
    /\ PageWasShown

-----------------------------------------------------------------------------
(* The store and the list *)

(* The list of a store is a sequence of the ids of its memos. *)
LEMMA ListType ==
    ASSUME NEW store \in Store, Stored(store) \subseteq Id \ {0}
    PROVE  /\ GetList(store) \in Seq(Id \ {0})
           /\ Len(GetList(store)) = Cardinality(Stored(store))
           /\ DOMAIN GetList(store) = 1 .. Cardinality(Stored(store))
           /\ \A r \in DOMAIN GetList(store) : GetList(store)[r] \in Stored(store)
<1>1. Stored(store) \in SUBSET Id
  OBVIOUS
<1>2. /\ GetList(store) \in Seq(Stored(store))
      /\ Len(GetList(store)) = Cardinality(Stored(store))
      /\ DOMAIN GetList(store) = 1 .. Cardinality(Stored(store))
  BY <1>1, SortedType DEF GetList
<1>3. GetList(store) \in Seq(Id \ {0})
  BY <1>2
<1>4. \A r \in DOMAIN GetList(store) : GetList(store)[r] \in Stored(store)
  BY <1>2
<1> QED
  BY <1>2, <1>3, <1>4

(* insert with a fresh id adds that id. *)
LEMMA InsertedStore ==
    ASSUME NEW store \in Store, Stored(store) \subseteq Id \ {0},
           NewId(store) <= IntMax
    PROVE  /\ Upsert(store, NewId(store), EmptyText) \in Store
           /\ NewId(store) \in Id \ {0}
           /\ Stored(Upsert(store, NewId(store), EmptyText))
                 = Stored(store) \union {NewId(store)}
<1>1. NewId(store) \in Id \ {0}
  BY NewIdIsFresh, IntMaxAssumption DEF Id
<1>2. EmptyText \in Text /\ EmptyText # NoMemo
  BY TextAssumption
<1> QED
  BY <1>1, <1>2 DEF Store, Stored, Upsert

(* update on a stored memo changes its text and no set of ids. *)
LEMMA UpdatedStore ==
    ASSUME NEW store \in Store, NEW id \in Stored(store), NEW text \in Text
    PROVE  /\ Upsert(store, id, text) \in Store
           /\ Stored(Upsert(store, id, text)) = Stored(store)
BY TextAssumption DEF Store, Stored, Upsert

LEMMA DeletedStore ==
    ASSUME NEW store \in Store, NEW id \in Id
    PROVE  /\ Delete(store, id) \in Store
           /\ Stored(Delete(store, id)) = Stored(store) \ {id}
BY DEF Store, Stored, Delete

(* Wherever the table has a row, the view model has that memo, and the      *)
(* store has it.                                                            *)
LEMMA RowsAreReachable ==
    ASSUME TypeOK, ListMatchesStore, app = "listing"
    PROVE  /\ rows = memoList /\ memoList = GetList(realm)
           /\ \A r \in DOMAIN rows : Reachable(r) /\ rows[r] \in Stored(realm)
<1>1. rows = memoList /\ memoList = GetList(realm)
  BY DEF ListMatchesStore, Running
<1>2. \A r \in DOMAIN rows : rows[r] \in Stored(realm)
  BY <1>1, ListType DEF TypeOK
<1> QED
  BY <1>1, <1>2 DEF Reachable, Stored

(* With a fresh id every row stays where it was. *)
LEMMA RowsStay ==
    ASSUME NEW store \in Store, Stored(store) \subseteq Id \ {0},
           NewId(store) <= IntMax
    PROVE  LET new == Upsert(store, NewId(store), EmptyText)
           IN  /\ DOMAIN GetList(store) \subseteq DOMAIN GetList(new)
               /\ \A r \in DOMAIN GetList(store) : GetList(new)[r] = GetList(store)[r]
<1> DEFINE new == Upsert(store, NewId(store), EmptyText)
           S == Stored(store)
           n == NewId(store)
<1>1. /\ new \in Store /\ n \in Id \ {0} /\ Stored(new) = S \union {n}
      /\ S \in SUBSET Id /\ Cardinality(S) \in Nat
  BY InsertedStore, IdsFinite
<1>2. \A id \in S : id < n
  BY NewIdIsFresh
<1> HIDE DEF n, S, new
<1>3. /\ Cardinality(S \union {n}) = Cardinality(S) + 1
      /\ \A r \in 1 .. Cardinality(S) : Sorted(S \union {n})[r] = Sorted(S)[r]
  BY <1>1, <1>2, SortedAppends
<1>4. /\ DOMAIN Sorted(S) = 1 .. Cardinality(S)
      /\ DOMAIN Sorted(S \union {n}) = 1 .. Cardinality(S \union {n})
  BY DEF Sorted
<1>5. /\ DOMAIN Sorted(S) \subseteq DOMAIN Sorted(S \union {n})
      /\ \A r \in DOMAIN Sorted(S) : Sorted(S \union {n})[r] = Sorted(S)[r]
  <2>1. 1 .. Cardinality(S) \subseteq 1 .. Cardinality(S) + 1
    BY <1>1
  <2> QED
    BY <2>1, <1>3, <1>4, Zenon
<1>6. GetList(store) = Sorted(S) /\ GetList(new) = Sorted(S \union {n})
  BY <1>1 DEF GetList, S
<1>7. /\ DOMAIN GetList(store) \subseteq DOMAIN GetList(new)
      /\ \A r \in DOMAIN GetList(store) : GetList(new)[r] = GetList(store)[r]
  BY <1>5, <1>6
<1> QED
  BY <1>7 DEF new, n

-----------------------------------------------------------------------------
(* The inductive invariant *)

LEMMA InitInv == Init => IInv
<1> SUFFICES ASSUME Init PROVE IInv
  OBVIOUS
<1>1. Stored(realm) = {} /\ realm \in Store
  BY DEF Init, EmptyStore, Stored, Store
<1>2. 0 \in Id
  BY IntMaxAssumption DEF Id
<1> QED
  BY <1>1, <1>2, TextAssumption, NoEditorAssumption
  DEF Init, IInv, TypeOK, ListMatchesStore, SwipeAimsTrue, NeverOutOfRange,
      OverflowOnlyAtIntMax, EditorOverStoredMemo, EditorSettles, Screens,
      PageWasShown, Running, Trapped, NoSight

(* The end of the process, by a trap or from outside, leaves the store.     *)
LEMMA GoneInv ==
    ASSUME IInv, Clear, UNCHANGED realm,
           app' \in {"killed", "overflow", "writeFailed"},
           app' = "overflow" => realm[IntMax] # NoMemo
    PROVE  IInv'
<1>1. 0 \in Id
  BY IntMaxAssumption DEF Id
<1> QED
  BY <1>1, TextAssumption, NoEditorAssumption
  DEF Clear, IInv, TypeOK, ListMatchesStore, SwipeAimsTrue, NeverOutOfRange,
      OverflowOnlyAtIntMax, EditorOverStoredMemo, EditorSettles, Screens,
      PageWasShown, Running, Trapped, NoSight, Stored, Store

LEMMA NextInv == IInv /\ [Next]_vars => IInv'
<1> SUFFICES ASSUME IInv, [Next]_vars PROVE IInv'
  OBVIOUS
<1> USE DEF IInv
<1>0. /\ realm \in Store /\ Stored(realm) \subseteq Id \ {0}
      /\ 0 \in Id /\ EmptyText \in Text
  BY IntMaxAssumption, TextAssumption DEF TypeOK, Id
<1>1. CASE Launch
  <2>1. GetList(realm) \in Seq(Id \ {0})
    BY <1>0, ListType
  <2> QED
    BY <1>1, <2>1
    DEF Launch, TypeOK, ListMatchesStore, SwipeAimsTrue, NeverOutOfRange,
        OverflowOnlyAtIntMax, EditorOverStoredMemo, EditorSettles, Screens,
        PageWasShown, Running, Trapped, Stored, Store
<1>2. CASE ShowTable
  <2>1. rows = <<>> /\ swipe = 0 /\ editor = NoEditor
    BY <1>2 DEF ShowTable, Screens, TypeOK
  <2> QED
    BY <1>2, <2>1
    DEF ShowTable, TypeOK, ListMatchesStore, SwipeAimsTrue, NeverOutOfRange,
        OverflowOnlyAtIntMax, EditorOverStoredMemo, EditorSettles, Screens,
        PageWasShown, Running, Trapped, Stored, Store
<1>3. CASE Kill
  BY <1>3, GoneInv DEF Kill
<1>4. CASE AddMemo
  <2>1. CASE NewId(realm) > IntMax /\ Trap("overflow")
    <3>1. realm[IntMax] # NoMemo
      BY <1>0, <2>1, NewIdIsFresh DEF Stored
    <3> QED
      BY <2>1, <3>1, GoneInv DEF Trap
  <2>2. CASE WriteFails
    BY <2>2, GoneInv DEF WriteFails, Trap
  <2>3. CASE /\ NewId(realm) <= IntMax
             /\ realm' = Upsert(realm, NewId(realm), EmptyText)
             /\ Refresh(realm')
             /\ swipe' \in {swipe, 0}
             /\ seen' = [seen EXCEPT !.aimed = IF swipe' = 0 THEN 0 ELSE @]
             /\ UNCHANGED <<app, editor>>
    <3>1. /\ realm' \in Store /\ Stored(realm') \subseteq Id \ {0}
          /\ Stored(realm) \subseteq Stored(realm')
      BY <1>0, <2>3, InsertedStore
    <3>2. /\ memoList' = GetList(realm') /\ rows' = GetList(realm')
          /\ GetList(realm') \in Seq(Id \ {0})
      BY <2>3, <3>1, ListType DEF Refresh
    <3>3. rows = GetList(realm)
      BY <1>4, RowsAreReachable DEF AddMemo, OnList
    <3>4. /\ DOMAIN rows \subseteq DOMAIN rows'
          /\ \A r \in DOMAIN rows : rows'[r] = rows[r]
      BY <1>0, <2>3, <3>2, <3>3, RowsStay
    <3>5. swipe' \in 0 .. Len(rows')
      BY <2>3, <3>2, <3>4 DEF TypeOK
    <3>6. swipe' # 0 => rows'[swipe'] = seen'.aimed
      BY <2>3, <3>4 DEF TypeOK, SwipeAimsTrue
    <3>7. TypeOK'
      BY <1>0, <2>3, <3>1, <3>2, <3>5 DEF TypeOK
    <3>8. EditorOverStoredMemo' /\ OverflowOnlyAtIntMax'
      BY <1>4, <2>3, NoEditorAssumption, <3>1
      DEF AddMemo, OnList, EditorOverStoredMemo, OverflowOnlyAtIntMax, TypeOK
    <3>9. EditorSettles' /\ PageWasShown' /\ Screens'
      BY <1>4, <2>3
      DEF AddMemo, OnList, EditorSettles, PageWasShown, Screens, TypeOK
    <3> QED
      BY <2>3, <3>2, <3>6, <3>7, <3>8, <3>9
      DEF ListMatchesStore, SwipeAimsTrue, NeverOutOfRange, Running
  <2> QED
    BY <1>4, <2>1, <2>2, <2>3 DEF AddMemo
<1>5. CASE CloseSwipe
  BY <1>0, <1>5
  DEF CloseSwipe, OnList, TypeOK, ListMatchesStore, SwipeAimsTrue, NeverOutOfRange,
      OverflowOnlyAtIntMax, EditorOverStoredMemo, EditorSettles, Screens,
      PageWasShown, Running, Trapped, Stored, Store
<1>6. CASE DeleteMemo
  <2>1. /\ OnList /\ swipe \in DOMAIN rows /\ Reachable(swipe)
        /\ memoList[swipe] \in Stored(realm)
    <3>1. OnList /\ app = "listing" /\ swipe \in DOMAIN rows
      BY <1>6 DEF DeleteMemo, OnList, TypeOK
    <3> QED
      BY <3>1, RowsAreReachable
  <2>2. CASE WriteFails
    BY <2>2, GoneInv DEF WriteFails, Trap
  <2>3. CASE /\ realm' = Delete(realm, memoList[swipe])
             /\ Refresh(realm')
             /\ swipe' = 0
             /\ seen' = [seen EXCEPT !.aimed = 0]
             /\ UNCHANGED <<app, editor>>
    <3>1. realm' \in Store /\ Stored(realm') \subseteq Id \ {0}
      BY <1>0, <2>1, <2>3, DeletedStore
    <3>2. /\ memoList' = GetList(realm') /\ rows' = GetList(realm')
          /\ GetList(realm') \in Seq(Id \ {0})
      BY <2>3, <3>1, ListType DEF Refresh
    <3>3. TypeOK'
      BY <1>0, <2>3, <3>1, <3>2 DEF TypeOK
    <3> QED
      BY <2>1, <2>3, <3>2, <3>3
      DEF OnList, TypeOK, ListMatchesStore, SwipeAimsTrue, NeverOutOfRange,
          OverflowOnlyAtIntMax, EditorOverStoredMemo, EditorSettles, Screens,
          PageWasShown, Running
  <2> QED
    BY <1>6, <2>1, <2>2, <2>3 DEF DeleteMemo
<1>7. ASSUME NEW r \in DOMAIN rows, Swipe(r)
      PROVE  IInv'
  <2>1. rows[r] \in Stored(realm) /\ OnList
    BY <1>7, RowsAreReachable DEF Swipe, OnList
  <2>2. r \in 1 .. Len(rows) /\ rows[r] # 0
    BY <1>0, <2>1 DEF TypeOK
  <2>3. TypeOK'
    BY <1>0, <1>7, <2>1, <2>2 DEF Swipe, TypeOK
  <2> QED
    BY <1>7, <2>1, <2>2, <2>3
    DEF Swipe, OnList, TypeOK, ListMatchesStore, SwipeAimsTrue, NeverOutOfRange,
        OverflowOnlyAtIntMax, EditorOverStoredMemo, EditorSettles, Screens,
        PageWasShown, Running
<1>8. ASSUME NEW r \in DOMAIN rows, Select(r)
      PROVE  IInv'
  <2>1. /\ OnList /\ Reachable(r) /\ memoList[r] \in Stored(realm)
    <3>1. OnList /\ app = "listing"
      BY <1>8 DEF Select, OnList
    <3> QED
      BY <3>1, RowsAreReachable
  <2>2. /\ editor' = EditorOver(memoList[r]) /\ swipe' = 0
        /\ seen' = [aimed |-> 0, typed |-> editor'.view, shown |-> {editor'.view}]
        /\ UNCHANGED <<app, realm, memoList, rows>>
    BY <1>8, <2>1 DEF Select
  <2>3. /\ memoList[r] \in Id /\ realm[memoList[r]] \in Text
        /\ editor' \in Editors
        /\ editor'.id = memoList[r] /\ editor'.view = realm[memoList[r]]
        /\ editor'.memoText = editor'.view
    BY <1>0, <2>1, <2>2 DEF EditorOver, Editors, Stored, Store
  <2>4. TypeOK'
    BY <1>0, <2>2, <2>3 DEF TypeOK, Editors
  <2> QED
    BY <2>1, <2>2, <2>3, <2>4
    DEF OnList, ListMatchesStore, SwipeAimsTrue, NeverOutOfRange,
        OverflowOnlyAtIntMax, EditorOverStoredMemo, EditorSettles, Screens,
        PageWasShown, Running
<1>9. ASSUME NEW text \in Text, Type(text)
      PROVE  IInv'
  <2>1. editor \in Editors /\ app = "listing"
    BY <1>9 DEF Type, TypeOK, Screens
  <2>2. /\ editor' \in Editors /\ editor'.id = editor.id
        /\ editor'.memoText = editor.memoText /\ editor'.view = text
        /\ editor'.pending = Append(editor.pending, text)
    <3>1. /\ editor.pending \in Seq(Text)
          /\ Append(editor.pending, text) \in Seq(Text)
      BY <2>1 DEF Editors
    <3>2. editor' = [editor EXCEPT !.view = text, !.pending = Append(@, text)]
      BY <1>9 DEF Type, Shows
    <3> QED
      BY <2>1, <3>1, <3>2 DEF Editors
  <2>3. editor'.pending # <<>>
    BY <2>1, <2>2 DEF Editors
  <2>4. /\ seen' = [seen EXCEPT !.typed = text, !.shown = @ \union {text}]
        /\ seen'.typed = text /\ seen'.aimed = seen.aimed
        /\ seen'.shown = seen.shown \union {text}
        /\ UNCHANGED <<app, realm, memoList, rows, swipe>>
    BY <1>9 DEF Type, TypeOK
  <2>5. TypeOK'
    BY <1>0, <2>2, <2>4 DEF TypeOK
  <2>6. EditorSettles' /\ PageWasShown'
    BY <1>9, <2>2, <2>3, <2>4 DEF Type, EditorSettles, PageWasShown
  <2>7. EditorOverStoredMemo' /\ Screens'
    BY <1>9, <2>1, <2>2, <2>4 DEF Type, EditorOverStoredMemo, Screens
  <2> QED
    BY <2>4, <2>5, <2>6, <2>7
    DEF ListMatchesStore, SwipeAimsTrue, NeverOutOfRange, OverflowOnlyAtIntMax, Running
<1>10. CASE Deliver
  <2>1. editor \in Editors /\ editor.pending # <<>>
    BY <1>10 DEF Deliver, TypeOK
  <2>2. /\ editor' = [editor EXCEPT !.memoText = editor.view, !.pending = Tail(@)]
        /\ UNCHANGED <<app, realm, memoList, rows, swipe, seen>>
    BY <1>10 DEF Deliver, Delivered
  <2>3. /\ editor' \in Editors /\ editor'.id = editor.id
        /\ editor'.memoText = editor.view /\ editor'.view = editor.view
    <3>1. editor.pending \in Seq(Text) /\ Tail(editor.pending) \in Seq(Text)
      BY <2>1 DEF Editors
    <3> QED
      BY <2>1, <2>2, <3>1 DEF Editors
  <2>4. TypeOK'
    BY <2>2, <2>3 DEF TypeOK
  <2>5. EditorSettles' /\ PageWasShown'
    BY <1>10, <2>2, <2>3 DEF Deliver, EditorSettles, PageWasShown
  <2>6. EditorOverStoredMemo' /\ Screens'
    BY <1>10, <2>2, <2>3 DEF Deliver, EditorOverStoredMemo, Screens
  <2> QED
    BY <2>2, <2>4, <2>5, <2>6
    DEF ListMatchesStore, SwipeAimsTrue, NeverOutOfRange, OverflowOnlyAtIntMax, Running
<1>11. CASE Save
  <2>1. CASE WriteFails
    BY <2>1, GoneInv DEF WriteFails, Trap
  <2>2. CASE /\ realm' = Upsert(realm, editor.id, editor.memoText)
             /\ UNCHANGED <<app, memoList, rows, swipe, editor, seen>>
    <3>1. /\ editor \in Editors /\ app = "listing"
          /\ editor.id \in Stored(realm) /\ editor.memoText \in Text
      BY <1>11 DEF Save, TypeOK, Screens, EditorOverStoredMemo, Editors
    <3>2. realm' \in Store /\ Stored(realm') = Stored(realm)
      BY <1>0, <2>2, <3>1, UpdatedStore
    <3>3. GetList(realm') = GetList(realm)
      BY <3>2 DEF GetList
    <3> QED
      BY <2>2, <3>1, <3>2, <3>3
      DEF TypeOK, ListMatchesStore, SwipeAimsTrue, NeverOutOfRange,
          OverflowOnlyAtIntMax, EditorOverStoredMemo, EditorSettles, Screens,
          PageWasShown, Running
  <2> QED
    BY <1>11, <2>1, <2>2 DEF Save
<1>12. CASE Back
  <2>1. swipe = 0
    BY <1>12 DEF Back, Screens
  <2> QED
    BY <1>0, <1>12, <2>1
    DEF Back, NoSight, TypeOK, ListMatchesStore, SwipeAimsTrue, NeverOutOfRange,
        OverflowOnlyAtIntMax, EditorOverStoredMemo, EditorSettles, Screens,
        PageWasShown, Running, Trapped, Stored, Store
<1>13. CASE UNCHANGED vars
  BY <1>13
  DEF vars, TypeOK, ListMatchesStore, SwipeAimsTrue, NeverOutOfRange,
      OverflowOnlyAtIntMax, EditorOverStoredMemo, EditorSettles, Screens,
      PageWasShown, Running, Trapped, Stored, Store
<1> QED
  BY <1>1, <1>2, <1>3, <1>4, <1>5, <1>6, <1>7, <1>8, <1>9, <1>10, <1>11,
     <1>12, <1>13
  DEF Next

(* The invariant holds in every behaviour. *)
THEOREM Invariance == Spec => []IInv
BY InitInv, NextInv, PTL DEF Spec

(* Every variable keeps its type; ids in use are positive. *)
THEOREM TypeCorrectness == Spec => []TypeOK
BY Invariance, PTL DEF IInv

(* The list and the table agree with the store after every tap.             *)
THEOREM ListCorrectness == Spec => []ListMatchesStore
BY Invariance, PTL DEF IInv

(* A delete button stays on the memo it came out on.                        *)
THEOREM SwipeCorrectness == Spec => []SwipeAimsTrue
BY Invariance, PTL DEF IInv

(* No tap on the list reads past it or reads a deleted memo (deleteMemo,    *)
(* didSelectRowAt).                                                         *)
THEOREM NoTrapOnTaps == Spec => []NeverOutOfRange
BY Invariance, PTL DEF IInv

(* newId overflows only when Int.max is in use. *)
THEOREM OverflowCorrectness == Spec => []OverflowOnlyAtIntMax
BY Invariance, PTL DEF IInv

(* Together: nothing that is done to the list ends the process while there  *)
(* are ids left.                                                            *)
THEOREM TrapCorrectness == Spec => []TrapsOnlyAtIntMax
BY NoTrapOnTaps, OverflowCorrectness, PTL DEF TrapsOnlyAtIntMax

(* The editor is on a stored memo, so that Save makes no memo.              *)
THEOREM StoredMemoCorrectness == Spec => []EditorOverStoredMemo
BY Invariance, PTL DEF IInv

(* The two-way binding of the editor settles on what the user typed last.   *)
THEOREM EditorCorrectness == Spec => []EditorSettles
BY Invariance, PTL DEF IInv

-----------------------------------------------------------------------------
(* Saving, and the notebook *)

(* While the editor is open the store changes by Save alone, which stores   *)
(* a text that the page showed.                                             *)
LEMMA OnlySaveWrites ==
    ASSUME IInv, [Next]_vars, editor # NoEditor, realm' # realm
    PROVE  /\ realm' = Upsert(realm, editor.id, editor.memoText)
           /\ UNCHANGED <<app, memoList, rows, swipe, editor, seen>>
BY DEF Next, vars, Launch, ShowTable, Kill, AddMemo, OnList, Trap, WriteFails,
       CloseSwipe, DeleteMemo, Swipe, Select, Type, Deliver, Save, Back

(* Save never stores a text that the user has not seen on the page.         *)
THEOREM SaveCorrectness == Spec => SavesWhatWasShown
<1>1. ASSUME IInv, [Next]_vars, editor # NoEditor, realm' # realm
      PROVE  realm'[editor.id] \in seen.shown
  <2>1. realm' = Upsert(realm, editor.id, editor.memoText)
    BY <1>1, OnlySaveWrites
  <2>2. editor \in Editors /\ editor.id \in Id /\ realm \in Store
    BY <1>1 DEF IInv, TypeOK, Editors
  <2>3. realm'[editor.id] = editor.memoText
    BY <2>1, <2>2 DEF Upsert, Store
  <2> QED
    BY <1>1, <2>3 DEF IInv, PageWasShown
<1>2. IInv /\ [Next]_vars
        => [editor # NoEditor /\ realm' # realm => realm'[editor.id] \in seen.shown]_vars
  BY <1>1
<1> QED
  BY <1>2, Invariance, PTL DEF Spec, SavesWhatWasShown

LEMMA InitBook == Init => Book!Init
BY DEF Init, Book!Init, Book!NoDraft, Draft, NoSight, EmptyStore, Book!EmptyStore,
       Id, Book!Id

(* The notebook's draft is empty exactly when no editor is open, and both   *)
(* modules compute the same on a store.                                     *)
LEMMA BookView ==
    ASSUME IInv
    PROVE  /\ Book!NoDraft = [id |-> 0, page |-> EmptyText, shown |-> {}]
           /\ Draft = Book!NoDraft <=> editor = NoEditor
           /\ Book!Stored(realm) = Stored(realm) /\ Book!Id = Id
           /\ \A id, t : Book!Upsert(realm, id, t) = Upsert(realm, id, t)
           /\ \A id : Book!Delete(realm, id) = Delete(realm, id)
<1>1. editor # NoEditor => editor.id # 0
  BY DEF IInv, TypeOK, EditorOverStoredMemo
<1>2. Book!NoDraft = [id |-> 0, page |-> EmptyText, shown |-> {}]
  BY DEF Book!NoDraft
<1>3. Draft = Book!NoDraft <=> editor = NoEditor
  BY <1>1, <1>2 DEF Draft
<1> QED
  BY <1>2, <1>3
  DEF Book!Stored, Stored, Book!Id, Id, Book!Upsert, Upsert, Book!Delete, Delete

(* Where the process ends, the notebook is left. *)
LEMMA GoneLeaves ==
    ASSUME IInv, Clear, UNCHANGED realm
    PROVE  Book!Leave
BY BookView DEF Book!Leave, Clear, NoSight, Draft

(* Every step of the memo tab is a step of the notebook or none at all.     *)
LEMMA NextBook == IInv /\ IInv' /\ [Next]_vars => [Book!Next]_Book!vars
<1> SUFFICES ASSUME IInv, IInv', [Next]_vars PROVE [Book!Next]_Book!vars
  OBVIOUS
<1>0. /\ realm \in Store /\ Stored(realm) \subseteq Id \ {0}
  BY DEF IInv, TypeOK
<1>1. CASE Launch \/ ShowTable \/ UNCHANGED vars
  BY <1>1 DEF Launch, ShowTable, vars, Draft, Book!vars
<1>2. CASE Kill
  BY <1>2, GoneLeaves DEF Kill, Book!Next
<1>3. CASE AddMemo
  <2>1. CASE Trap("overflow") \/ WriteFails
    BY <2>1, GoneLeaves DEF WriteFails, Trap, Book!Next
  <2>2. CASE /\ NewId(realm) <= IntMax
             /\ realm' = Upsert(realm, NewId(realm), EmptyText)
             /\ swipe' \in {swipe, 0}
             /\ seen' = [seen EXCEPT !.aimed = IF swipe' = 0 THEN 0 ELSE @]
             /\ UNCHANGED editor
    <3>1. NewId(realm) \in Id \ {0} /\ \A old \in Stored(realm) : old < NewId(realm)
      BY <1>0, <2>2, InsertedStore, NewIdIsFresh
    <3>2. seen'.aimed \in {seen.aimed, 0} /\ seen'.shown = seen.shown
      BY <2>2 DEF IInv, TypeOK
    <3>3. UNCHANGED Draft
      BY <2>2, <3>2 DEF Draft
    <3>4. Book!Add
      BY <2>2, <3>1, <3>2, <3>3, BookView DEF Book!Add
    <3> QED
      BY <3>4 DEF Book!Next
  <2> QED
    BY <1>3, <2>1, <2>2 DEF AddMemo
<1>4. CASE CloseSwipe
  <2>1. UNCHANGED <<realm, editor>> /\ seen' = [seen EXCEPT !.aimed = 0]
    BY <1>4 DEF CloseSwipe
  <2>2. Book!Leave
    <3>1. seen'.aimed = 0 /\ seen'.shown = seen.shown
      BY <2>1 DEF IInv, TypeOK
    <3>2. UNCHANGED Draft
      BY <2>1, <3>1 DEF Draft
    <3> QED
      BY <2>1, <3>1, <3>2 DEF Book!Leave
  <2> QED
    BY <2>2 DEF Book!Next
<1>5. CASE DeleteMemo
  <2>1. /\ swipe # 0 /\ Reachable(swipe) /\ memoList[swipe] = seen.aimed
        /\ seen.aimed \in Stored(realm)
    <3>1. app = "listing" /\ swipe # 0 /\ swipe \in DOMAIN rows
      BY <1>5 DEF DeleteMemo, OnList, IInv, TypeOK
    <3>2. rows = memoList /\ Reachable(swipe) /\ rows[swipe] \in Stored(realm)
      BY <3>1, RowsAreReachable DEF IInv
    <3> QED
      BY <3>1, <3>2 DEF IInv, SwipeAimsTrue
  <2>2. CASE WriteFails
    BY <2>2, GoneLeaves DEF WriteFails, Trap, Book!Next
  <2>3. CASE /\ realm' = Delete(realm, memoList[swipe])
             /\ seen' = [seen EXCEPT !.aimed = 0]
             /\ UNCHANGED editor
    <3>1. seen'.aimed = 0 /\ UNCHANGED Draft
      BY <2>3 DEF Draft, IInv, TypeOK
    <3>2. Book!Remove
      BY <2>1, <2>3, <3>1, BookView DEF Book!Remove
    <3> QED
      BY <3>2 DEF Book!Next
  <2> QED
    BY <1>5, <2>1, <2>2, <2>3 DEF DeleteMemo
<1>6. ASSUME NEW r \in DOMAIN rows, Swipe(r)
      PROVE  [Book!Next]_Book!vars
  <2>1. rows[r] \in Stored(realm) /\ editor = NoEditor
    BY <1>6, RowsAreReachable DEF Swipe, OnList, IInv
  <2>2. UNCHANGED <<realm, Draft>> /\ seen'.aimed = rows[r] /\ Draft = Book!NoDraft
    BY <1>6, <2>1, BookView DEF Swipe, Draft, IInv, TypeOK
  <2>3. Book!Aim
    BY <2>1, <2>2, BookView DEF Book!Aim
  <2> QED
    BY <2>3 DEF Book!Next
<1>7. ASSUME NEW r \in DOMAIN rows, Select(r)
      PROVE  [Book!Next]_Book!vars
  <2> DEFINE id == memoList[r]
  <2>1. Reachable(r) /\ id \in Stored(realm) /\ editor = NoEditor
    BY <1>7, RowsAreReachable DEF Select, OnList, IInv
  <2>2. /\ editor' = EditorOver(id) /\ UNCHANGED realm
        /\ seen' = [aimed |-> 0, typed |-> editor'.view, shown |-> {editor'.view}]
    BY <1>7, <2>1 DEF Select
  <2>3. /\ editor' # NoEditor
    <3>1. EditorOver(id) \in Editors
      BY <1>0, <2>1 DEF EditorOver, Editors, Stored, Store
    <3> QED
      BY <2>2, <3>1, NoEditorAssumption
  <2>4. /\ Draft = Book!NoDraft /\ seen'.aimed = 0
        /\ Draft' = [id |-> id, page |-> realm[id], shown |-> {realm[id]}]
    <3>1. editor'.id = id /\ editor'.view = realm[id]
      BY <2>2 DEF EditorOver
    <3> QED
      BY <2>1, <2>2, <2>3, <3>1, BookView DEF Draft
  <2>5. Book!Open
    BY <2>1, <2>2, <2>4, BookView DEF Book!Open
  <2> QED
    BY <2>5 DEF Book!Next
<1>8. ASSUME NEW text \in Text, Type(text)
      PROVE  [Book!Next]_Book!vars
  <2>1. editor # NoEditor /\ editor \in Editors /\ editor' # NoEditor
    <3>1. editor # NoEditor /\ editor \in Editors /\ UNCHANGED app
      BY <1>8 DEF Type, IInv, TypeOK
    <3>2. editor' = [editor EXCEPT !.view = text, !.pending = Append(@, text)]
      BY <1>8 DEF Type, Shows
    <3>3. editor' \in Editors
      <4>1. Append(editor.pending, text) \in Seq(Text)
        BY <3>1 DEF Editors
      <4> QED
        BY <3>1, <3>2, <4>1 DEF Editors
    <3> QED
      BY <3>1, <3>3, NoEditorAssumption
  <2>2. /\ editor'.id = editor.id /\ editor'.view = text
        /\ seen'.shown = seen.shown \union {text} /\ seen'.aimed = seen.aimed
        /\ UNCHANGED realm
    <3>1. /\ seen' = [seen EXCEPT !.typed = text, !.shown = @ \union {text}]
          /\ editor' = [editor EXCEPT !.view = text, !.pending = Append(@, text)]
          /\ UNCHANGED realm
      BY <1>8 DEF Type, Shows
    <3>2. editor'.id = editor.id /\ editor'.view = text
      BY <2>1, <3>1 DEF Editors
    <3>3. seen'.shown = seen.shown \union {text} /\ seen'.aimed = seen.aimed
      BY <3>1 DEF IInv, TypeOK
    <3> QED
      BY <3>1, <3>2, <3>3
  <2>3. /\ Draft = [id |-> editor.id, page |-> editor.view, shown |-> seen.shown]
        /\ Draft' = [id |-> editor.id, page |-> text,
                     shown |-> seen.shown \union {text}]
    BY <2>1, <2>2 DEF Draft
  <2>4. Book!Write
    BY <2>1, <2>2, <2>3, BookView DEF Book!Write
  <2> QED
    BY <2>4 DEF Book!Next
<1>9. CASE Deliver
  <2>1. /\ editor # NoEditor /\ editor \in Editors
        /\ editor' = [editor EXCEPT !.memoText = editor.view, !.pending = Tail(@)]
        /\ UNCHANGED <<realm, seen>>
    BY <1>9 DEF Deliver, Delivered, IInv, TypeOK
  <2>2. editor'.id = editor.id /\ editor'.view = editor.view /\ editor' # NoEditor
    <3>1. Tail(editor.pending) \in Seq(Text)
      BY <1>9, <2>1 DEF Deliver, Editors
    <3>2. editor' \in Editors
      BY <2>1, <3>1 DEF Editors
    <3> QED
      BY <2>1, <3>2, NoEditorAssumption DEF Editors
  <2> QED
    BY <2>1, <2>2 DEF Draft, Book!vars
<1>10. CASE Save
  <2>1. CASE WriteFails
    BY <2>1, GoneLeaves DEF WriteFails, Trap, Book!Next
  <2>2. CASE /\ realm' = Upsert(realm, editor.id, editor.memoText)
             /\ UNCHANGED <<editor, seen>>
    <3>1. /\ editor # NoEditor /\ editor.id \in Stored(realm)
          /\ editor.memoText \in seen.shown
      BY <1>10 DEF Save, IInv, EditorOverStoredMemo, PageWasShown
    <3>2. UNCHANGED <<Draft, seen.aimed>> /\ Draft # Book!NoDraft
      BY <2>2, <3>1, BookView DEF Draft
    <3>3. Draft.id = editor.id /\ Draft.shown = seen.shown
      BY <3>1 DEF Draft
    <3>4. Book!Keep
      BY <2>2, <3>1, <3>2, <3>3, BookView DEF Book!Keep
    <3> QED
      BY <3>4 DEF Book!Next
  <2> QED
    BY <1>10, <2>1, <2>2 DEF Save
<1>11. CASE Back
  <2>1. Draft' = Book!NoDraft /\ seen'.aimed = 0 /\ UNCHANGED realm
    BY <1>11, BookView DEF Back, NoSight, Draft
  <2>2. Book!Leave
    BY <2>1 DEF Book!Leave
  <2> QED
    BY <2>2 DEF Book!Next
<1> QED
  BY <1>1, <1>2, <1>3, <1>4, <1>5, <1>6, <1>7, <1>8, <1>9, <1>10, <1>11
  DEF Next

(* The memo tab implements the notebook. *)
THEOREM Implementation == Spec => ImplementsNotebook
<1>1. Init => Book!Init
  BY InitBook
<1>2. IInv /\ IInv' /\ [Next]_vars => [Book!Next]_Book!vars
  BY NextBook
<1> QED
  BY <1>1, <1>2, Invariance, PTL DEF Spec, ImplementsNotebook, Book!Spec
=============================================================================
