------------------------------ MODULE MainScreen ------------------------------
(***************************************************************************)
(* The main screen and the next screen over it (MainViewController,        *)
(* NextViewController, their view models, TestFireBase): the user types a  *)
(* text and taps; the text is written to the database under user/01, and a *)
(* page comes up with what is read from the database under test.           *)
(*                                                                         *)
(* All of the code runs on the main thread, one action a tap, a keystroke  *)
(* or a callback.  The database client sends writes in order, later, and   *)
(* brings the value of an observed place later, and again when it changes. *)
(*                                                                         *)
(* The place user/01 is hard-coded (TestFireBase.swift:23), so that every  *)
(* install of the application writes to it, and the server may refuse a    *)
(* write.  Here other clients write to test only, and every write that is  *)
(* sent is accepted: the properties are about what this client alone       *)
(* writes, and say nothing of two users overwriting each other.            *)
(***************************************************************************)
EXTENDS Integers, Sequences

CONSTANTS
    Text,       \* what a text field or the database may hold
    EmptyText,  \* ""
    MaxPages    \* bound: pages opened while the process lives

ASSUME TextAssumption == EmptyText \in Text
ASSUME MaxPagesAssumption == MaxPages \in Nat

(* Each TestFireBase that was asked for its value observes the database     *)
(* from then on: 0 is that of the main screen's nextViewModel, the others   *)
(* are those of the view models that the pages make for themselves.         *)
Observer == 0 .. MaxPages

VARIABLES
    main,       \* the main screen is there
    text,       \* MainViewModel.text, and the text field, which it follows
    enabled,    \* the button, as isButtonEnable has set it last
    label,      \* NextViewModel.label of the main screen's nextViewModel
    page,       \* the next page is over the main screen
    pages,      \* the pages opened so far
    observing,  \* the observers registered under test
    value,      \* of each: the local variable of getValue, which its
                \*   closure keeps alive
    test,       \* the database under test
    outbox,     \* writes to user/01 that the client has not sent
    user01,     \* the database under user/01, as this client writes it
    tapped,     \* history: the texts that stood in the field at a tap,
    last        \*   and the last of them since the process began

screen   == <<main, text, enabled, page, pages>>
database == <<test, outbox, user01>>
history  == <<tapped, last>>
vars     == <<screen, label, observing, value, database, history>>

Init ==
    /\ main = FALSE /\ text = EmptyText /\ enabled = FALSE
    /\ label = EmptyText /\ page = FALSE /\ pages = 0
    /\ observing = {} /\ value = [o \in Observer |-> EmptyText]
    /\ test \in Text /\ outbox = <<>> /\ user01 \in Text
    /\ tapped = {} /\ last = EmptyText

(* Mutants of Got: the value is waited for, and returned; there is no value *)
(* before the observer is called.                                           *)
GotFromDatabase(o) == test
GotNil(o) == "nil"

(* What getValue returns: its local variable, before the observer that sets *)
(* it can have been called.                                                 *)
Got(o) == value[o]

(* The login has succeeded: LoginViewController presents the screen.  Its   *)
(* nextViewModel reads the database, and the empty field reaches the view   *)
(* model and the button.                                                    *)
Open ==
    /\ ~main /\ main' = TRUE
    /\ text' = EmptyText /\ enabled' = FALSE
    /\ observing' = {0} /\ label' = Got(0)
    /\ UNCHANGED <<page, pages, value, database, history>>

(* Mutant of Enables: the button stays as it is when the field is cleared. *)
EnablesOnce(t) == enabled \/ t # EmptyText

Enables(t) == t # EmptyText

Type(t) ==
    /\ main /\ ~page
    /\ text' = t /\ enabled' = Enables(t)
    /\ UNCHANGED <<main, page, pages, label, observing, value, database, history>>

(* Mutant of Posted: each write goes before those that wait. *)
PostedFirst(t) == <<t>> \o outbox

(* The client keeps writes in the order they were made. *)
Posted(t) == Append(outbox, t)

(* The button: the text is written, and the next page comes up.  Its        *)
(* controller makes a view model of its own, which observes, and is then    *)
(* given the main screen's.                                                 *)
Tap ==
    /\ main /\ ~page /\ enabled /\ pages < MaxPages
    /\ outbox' = Posted(text)
    /\ tapped' = tapped \union {text} /\ last' = text
    /\ page' = TRUE /\ pages' = pages + 1
    /\ observing' = observing \union {pages'}
    /\ UNCHANGED <<main, text, enabled, label, value, test, user01>>

(* The back button of the page.  Its observer stays. *)
Back ==
    /\ page /\ page' = FALSE
    /\ UNCHANGED <<main, text, enabled, pages, label, observing, value, database, history>>

(* The client brings the value of test to an observer. *)
Observe(o) ==
    /\ o \in observing /\ value[o] # test
    /\ value' = [value EXCEPT ![o] = test]
    /\ UNCHANGED <<screen, label, observing, database, history>>

(* Another client of the database writes to test; see above for user/01. *)
Change(t) ==
    /\ test' = t
    /\ UNCHANGED <<screen, label, observing, value, outbox, user01, history>>

Send ==
    /\ outbox # <<>>
    /\ user01' = Head(outbox) /\ outbox' = Tail(outbox)
    /\ UNCHANGED <<screen, label, observing, value, test, history>>

(* The process ends, with what it has not sent. *)
Kill ==
    /\ main /\ main' = FALSE
    /\ text' = EmptyText /\ enabled' = FALSE /\ label' = EmptyText
    /\ page' = FALSE /\ pages' = 0
    /\ observing' = {} /\ value' = [o \in Observer |-> EmptyText]
    /\ outbox' = <<>> /\ last' = EmptyText
    /\ UNCHANGED <<test, user01, tapped>>

Next ==
    \/ Open \/ Tap \/ Back \/ Send \/ Kill
    \/ \E t \in Text : Type(t) \/ Change(t)
    \/ \E o \in Observer : Observe(o)

Spec == Init /\ [][Next]_vars

(* The client sends what it has and brings what it observes. *)
FairSpec ==
    /\ Spec
    /\ WF_vars(Send)
    /\ \A o \in Observer : WF_vars(Observe(o))

-----------------------------------------------------------------------------
TypeOK ==
    /\ main \in BOOLEAN /\ enabled \in BOOLEAN /\ page \in BOOLEAN
    /\ text \in Text /\ label \in Text
    /\ pages \in 0 .. MaxPages
    /\ observing \subseteq Observer
    /\ value \in [Observer -> Text]
    /\ test \in Text /\ user01 \in Text /\ outbox \in Seq(Text)
    /\ tapped \subseteq Text /\ last \in Text

(* The page that a tap brings up is blank, whatever the database holds and  *)
(* however often its observers have been called since                       *)
(* (TestFireBase.getValue, NextViewModel.init).                             *)
PageStaysBlank == page => label = EmptyText

(* No tap is overtaken or lost while the process lives: the text that was   *)
(* tapped last is the last of those that wait to be sent, or it is what the *)
(* database has of this client, although the user types on and earlier      *)
(* writes are still out.                                                    *)
LastTapIsOnItsWay ==
    last # EmptyText =>
        IF outbox # <<>> THEN outbox[Len(outbox)] = last ELSE user01 = last

(* This client gives the database only texts that stood in the field when   *)
(* the button was tapped, and never the empty one; the field may have been cleared,    *)
(* and the process restarted, since (MainViewModel.isButtonEnable,          *)
(* TestFireBase.setValue).  And the last of them is always on its way.      *)
WritesWhatWasTapped ==
    [][/\ user01' # user01 => user01' \in tapped \ {EmptyText}
       /\ LastTapIsOnItsWay']_vars

(* What was tapped last is what the database has in the end, also when the  *)
(* user goes back and types on, unless the process ends; where no other     *)
(* install writes to the same place and the server accepts the writes       *)
(* (TestFireBase.setValue).                                                 *)
LastTapArrives ==
    \A t \in Text :
        page /\ last = t ~> ~main \/ last # t \/ (user01 = t /\ outbox = <<>>)
=============================================================================
