----------------------------- MODULE Notebook ------------------------------
(***************************************************************************)
(* What the memo tab promises its user, without lists, rows, events or     *)
(* view models.  There are notes, at most one of them open in a draft, and *)
(* at most one of them under a delete button.  Memos.tla implements it.    *)
(***************************************************************************)
EXTENDS MemoDao

CONSTANT NoId

VARIABLES
    notes,  \* the notes on the device
    draft,  \* the note open in the editor, what its page shows, and every
            \*   text it has shown since it was opened
    aimed   \* the note under a delete button on the screen

vars == <<notes, draft, aimed>>

NoDraft == [id |-> NoId, page |-> EmptyText, shown |-> {}]

Init == notes = EmptyStore /\ draft = NoDraft /\ aimed = NoId

(* A new note is blank and is listed after every older one, so that no note *)
(* on the screen moves; it takes nobody's id.  The delete button may go.    *)
Add == \E id \in Id \ {0} :
    /\ \A old \in Stored(notes) : old < id
    /\ notes' = Upsert(notes, id, EmptyText)
    /\ aimed' \in {aimed, NoId}
    /\ UNCHANGED draft

(* Opening a note shows what is stored of it. *)
Open == \E id \in Stored(notes) :
    /\ draft = NoDraft
    /\ draft' = [id |-> id, page |-> notes[id], shown |-> {notes[id]}]
    /\ aimed' = NoId
    /\ UNCHANGED notes

(* Only the user changes the page. *)
Write == \E t \in Text :
    /\ draft # NoDraft
    /\ draft' = [id |-> draft.id, page |-> t, shown |-> draft.shown \union {t}]
    /\ UNCHANGED <<notes, aimed>>

(* Saving touches the open note alone, and stores a text its page has shown *)
(* since it was opened: the latest one, or one that it replaced.            *)
Keep == \E t \in draft.shown :
    /\ draft # NoDraft
    /\ draft.id \in Stored(notes)
    /\ notes' = Upsert(notes, draft.id, t)
    /\ UNCHANGED <<draft, aimed>>

Aim == \E id \in Stored(notes) :
    /\ draft = NoDraft
    /\ aimed' = id
    /\ UNCHANGED <<notes, draft>>

(* The note that goes is the one the delete button was shown on. *)
Remove ==
    /\ aimed \in Stored(notes)
    /\ notes' = Delete(notes, aimed)
    /\ aimed' = NoId
    /\ UNCHANGED draft

(* Leaving the editor, closing the button, or the end of the process: what  *)
(* was not saved is gone, what was saved is not.                            *)
Leave ==
    /\ draft' \in {draft, NoDraft}
    /\ aimed' = NoId
    /\ UNCHANGED notes

Next == Add \/ Open \/ Write \/ Keep \/ Aim \/ Remove \/ Leave

Spec == Init /\ [][Next]_vars
=============================================================================
