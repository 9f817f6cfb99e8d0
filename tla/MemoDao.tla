------------------------------ MODULE MemoDao ------------------------------
(***************************************************************************)
(* The memo store: what the queries and writes of MemoDao compute on the   *)
(* Realm file.  The module has no variables: a store is a value, a query   *)
(* is an operator on it and a write returns the store it leaves.           *)
(*                                                                         *)
(* A store maps every id that the primary key can hold to the text of the  *)
(* memo that has it, or to NoMemo.  The title is left out: it is a         *)
(* function of the id ("title <id>", AddMemoUseCase) that nothing edits.   *)
(***************************************************************************)
EXTENDS Integers, FiniteSets

CONSTANTS
    IntMax,     \* Int.max: the largest id; adding one to it traps
    Text,       \* the texts a memo can have
    EmptyText,  \* the default value of Memo.memoText
    NoMemo      \* the store has no memo with this id

ASSUME IntMaxAssumption == IntMax \in Nat \ {0}
ASSUME TextAssumption   == EmptyText \in Text /\ NoMemo \notin Text

(* 0 is the id of a Memo() that nobody gave an id to. *)
Id    == 0 .. IntMax
Store == [Id -> Text \union {NoMemo}]

EmptyStore == [id \in Id |-> NoMemo]

(* The ids of the memos in the store. *)
Stored(realm) == {id \in Id : realm[id] # NoMemo}

-----------------------------------------------------------------------------
(* realm.objects(Memo.self).sorted(byKeyPath: "id"): the ids in ascending   *)
(* order, as a sequence.  Each id stands at the place that its rank gives.  *)
Rank(S, id) == Cardinality({j \in S : j <= id})

Sorted(S) == [r \in 1 .. Cardinality(S) |-> CHOOSE id \in S : Rank(S, id) = r]

GetList(realm) == Sorted(Stored(realm))

(* Mutants of NewId: zero-based on an empty store; the count plus one; the   *)
(* least id that is free.                                                   *)
NewIdFromZero(realm) ==
    LET ids == GetList(realm)
    IN  IF Stored(realm) = {} THEN 0 ELSE ids[Cardinality(Stored(realm))] + 1
NewIdByCount(realm) == Cardinality(Stored(realm)) + 1
NewIdLeastFree(realm) ==
    CHOOSE id \in 1 .. IntMax + 1 :
        id \notin Stored(realm) /\ \A j \in 1 .. id - 1 : j \in Stored(realm)

(* newId(): one more than the last of the sorted ids, 1 on an empty store.  *)
(* The addition traps when the last id is Int.max: such a NewId is not in   *)
(* Id, and the caller takes it as the trap.                                 *)
NewId(realm) ==
    LET ids == GetList(realm)
    IN  IF Stored(realm) = {} THEN 1 ELSE ids[Cardinality(Stored(realm))] + 1

(* insert and update are both realm.add(memo, update: true): they replace   *)
(* the memo that has the id, or make one.                                   *)
Upsert(realm, id, text) == [realm EXCEPT ![id] = text]

(* delete(get(id)) on a stored memo. *)
Delete(realm, id) == [realm EXCEPT ![id] = NoMemo]
=============================================================================
