-------------------------------- MODULE Auth --------------------------------
(***************************************************************************)
(* The login tab: the login screen, the sign-up screens pushed over it,    *)
(* the requests they send to Firebase Auth, and the answers, which come    *)
(* late, in any order, to screens that may be gone.                        *)
(*                                                                         *)
(* A screen stands for its view controller, view model, use case and DAO:  *)
(* each screen makes its own.  Each tap subscribes the flatMap of the view *)
(* model once more to the one subject of the DAO, which never completes:   *)
(* an answer is shown once for each subscription there is by then.         *)
(*                                                                         *)
(* Everything runs on the main thread, Firebase's answers too.             *)
(***************************************************************************)
EXTENDS Integers, Sequences, FiniteSets

CONSTANTS
    MaxSignUps,  \* bound: sign-up screens opened in the life of the process
    MaxTaps      \* bound: requests sent in the life of the process

ASSUME BoundsAssumption == MaxSignUps \in Nat /\ MaxTaps \in Nat

Login  == 0
Screen == 0 .. MaxSignUps
SignUps == Screen \ {Login}

(* The two text fields of a screen: id or mail address, and password. *)
Fields == {"name", "password"}

Stage == {"unborn", "up", "leaving", "gone"}

VARIABLES
    stage,     \* of each screen: up is on the navigation stack, leaving is
               \*   popped and still animating, gone is deallocated
    filled,    \* of each screen: the fields that its view model holds as
               \*   non-empty
    enabled,   \* of each screen: its button takes taps
    inner,     \* of each screen: its subscriptions to its DAO's subject
    selfHeld,  \* of each screen: its view model is held by its own inputs
    requests,  \* what was sent to Firebase, and what came of it
    loginTab,  \* the login tab is the one selected
    main,      \* the main screen is presented over the tabs
    dangling   \* a callback ran into its deallocated DAO: the process is gone

vars == <<stage, filled, enabled, inner, selfHeld, requests, loginTab, main, dangling>>

OnStack == {"up", "leaving"}

Init ==
    /\ stage = [s \in Screen |-> IF s = Login THEN "up" ELSE "unborn"]
    /\ filled = [s \in Screen |-> {}]
    /\ enabled = [s \in Screen |-> FALSE]
    /\ inner = [s \in Screen |-> 0]
    /\ selfHeld = [s \in Screen |-> s = Login]
    /\ requests = <<>>
    /\ loginTab = TRUE /\ main = FALSE /\ dangling = FALSE

-----------------------------------------------------------------------------
(* The screen the user can touch: the top of the navigation stack, when the *)
(* tab is selected, nothing is presented over it and no pop is animating.   *)
Touchable(s) ==
    /\ ~dangling /\ loginTab /\ ~main
    /\ stage[s] = "up"
    /\ \A t \in Screen : t > s => stage[t] \notin OnStack

(* isValid: both fields have characters. *)
Valid(fields) == fields = Fields

(* The user edits the fields: rx.text brings them to the view model, whose  *)
(* isValid sets the button, all within the editing event.                   *)
Edit(s, fields) ==
    /\ Touchable(s)
    /\ filled' = [filled EXCEPT ![s] = fields]
    /\ enabled' = [enabled EXCEPT ![s] = Valid(fields)]
    /\ UNCHANGED <<stage, inner, selfHeld, requests, loginTab, main, dangling>>

(* Mutant of Subscribed: the tap's inner observable is not subscribed to. *)
NotSubscribed(n) == n

(* The number of subscriptions that flatMap leaves after one more tap: none *)
(* is ever disposed of while the screen is there.                           *)
Subscribed(n) == n + 1

(* The request that a tap sends, made from the fields the view model holds. *)
(* The guards there, on a field that is nil, never stop a tap: the button   *)
(* takes taps only while both fields have characters.                       *)
NewRequest(s) ==
    [screen |-> s, sent |-> filled[s], answer |-> "none", shown |-> 0]

(* The login or confirm button: the request goes out, and flatMap           *)
(* subscribes to the subject that the DAO returns.                          *)
Tap(s) ==
    /\ Touchable(s) /\ enabled[s]
    /\ Len(requests) < MaxTaps
    /\ requests' = Append(requests, NewRequest(s))
    /\ inner' = [inner EXCEPT ![s] = Subscribed(@)]
    /\ UNCHANGED <<stage, filled, enabled, selfHeld, loginTab, main, dangling>>

(* Mutant of LazyInputsHoldSelf: inputs and outputs are computed, and hold nothing. *)
ComputedInputsHoldSelf == FALSE

(* The lazy inputs and outputs of a view model are set to the view model    *)
(* itself when the view controller first reads them: a reference cycle.     *)
LazyInputsHoldSelf == TRUE

(* The sign-up button of the login screen: a new screen is pushed, and its  *)
(* viewDidLoad binds its view model.                                        *)
PushSignUp(s) ==
    /\ Touchable(Login)
    /\ stage[s] = "unborn" /\ stage[s - 1] # "unborn"
    /\ stage' = [stage EXCEPT ![s] = "up"]
    /\ selfHeld' = [selfHeld EXCEPT ![s] = LazyInputsHoldSelf]
    /\ UNCHANGED <<filled, enabled, inner, requests, loginTab, main, dangling>>

(* The back button or the edge swipe. *)
Back(s) ==
    /\ Touchable(s)
    /\ stage' = [stage EXCEPT ![s] = "leaving"]
    /\ UNCHANGED <<filled, enabled, inner, selfHeld, requests, loginTab, main, dangling>>

(* Mutants of Dispose: the subscriptions are in no dispose bag; one of them *)
(* is disposed of.                                                          *)
NoDispose(n) == n
DisposeOne(n) == n - 1

(* What the view controller's dispose bag leaves of the subscriptions. *)
Dispose(n) == 0

(* The pop is over: the view controller goes, and its dispose bag with it.  *)
Leave(s) ==
    /\ ~dangling /\ stage[s] = "leaving"
    /\ stage' = [stage EXCEPT ![s] = "gone"]
    /\ inner' = [inner EXCEPT ![s] = Dispose(@)]
    /\ UNCHANGED <<filled, enabled, selfHeld, requests, loginTab, main, dangling>>

(* The user turns to the other tab or back. *)
SwitchTab ==
    /\ ~dangling /\ ~main
    /\ loginTab' = ~loginTab
    /\ UNCHANGED <<stage, filled, enabled, inner, selfHeld, requests, main, dangling>>

-----------------------------------------------------------------------------
(* The callback of a request holds its DAO unowned; the DAO lives as long   *)
(* as the view model, in the view controller's hands or in its own.         *)
DaoAlive(s) == stage[s] \in OnStack \/ selfHeld[s]

(* Mutant of LoginShows: every answer presents the main screen. *)
LoginShowsAny(answer) == main' \in {TRUE} \union (IF Touchable(Login) THEN {} ELSE {main})

(* The login screen shows an answer: it presents the main screen on         *)
(* success, a message on failure.  Presenting from a view that is not on    *)
(* the screen is UIKit's to refuse; once it is presented it stays.          *)
LoginShows(answer) ==
    IF answer = "success"
    THEN main' \in {TRUE} \union (IF Touchable(Login) THEN {} ELSE {main})
    ELSE UNCHANGED main

(* The sign-up screen shows an answer: a message, and on success it pops    *)
(* itself; being popped already, it has no navigation controller to do so.  *)
SignUpShows(s, answer) ==
    stage' = IF answer = "success" THEN [stage EXCEPT ![s] = "leaving"] ELSE stage

(* The subject delivers an answer to every subscription there is. *)
Deliver(s, answer) ==
    \/ inner[s] = 0 /\ UNCHANGED <<stage, main>>
    \/ inner[s] > 0 /\ s = Login /\ LoginShows(answer) /\ UNCHANGED stage
    \/ inner[s] > 0 /\ s # Login /\ SignUpShows(s, answer) /\ UNCHANGED main

Reported(req, answer, n) == [req EXCEPT !.answer = answer, !.shown = n]

(* Firebase calls the callback of a request, with or without an error. *)
Answer(r, answer) ==
    LET s == requests[r].screen
    IN  /\ ~dangling /\ requests[r].answer = "none"
        /\ IF DaoAlive(s)
           THEN /\ requests' = [requests EXCEPT ![r] = Reported(@, answer, inner[s])]
                /\ Deliver(s, answer)
                /\ UNCHANGED dangling
           ELSE /\ dangling' = TRUE
                /\ UNCHANGED <<requests, stage, main>>
        /\ UNCHANGED <<filled, enabled, inner, selfHeld, loginTab>>

-----------------------------------------------------------------------------
Verdict == {"success", "failure"}

Next ==
    \/ \E s \in Screen : Tap(s) \/ \E fields \in SUBSET Fields : Edit(s, fields)
    \/ \E s \in SignUps : PushSignUp(s) \/ Back(s) \/ Leave(s)
    \/ SwitchTab
    \/ \E r \in DOMAIN requests, answer \in Verdict : Answer(r, answer)

Spec == Init /\ [][Next]_vars

(* Firebase answers every request, if only with a timeout.  The user may    *)
(* stop at any time.                                                        *)
Answered(r) == r \in DOMAIN requests /\ \E answer \in Verdict : Answer(r, answer)

FairSpec == Spec /\ \A r \in 1 .. MaxTaps : WF_vars(Answered(r))

-----------------------------------------------------------------------------
Requests ==
    [screen: Screen, sent: SUBSET Fields, answer: Verdict \union {"none"}, shown: Nat]

TypeOK ==
    /\ stage \in [Screen -> Stage]
    /\ filled \in [Screen -> SUBSET Fields]
    /\ enabled \in [Screen -> BOOLEAN]
    /\ inner \in [Screen -> Nat]
    /\ selfHeld \in [Screen -> BOOLEAN]
    /\ requests \in Seq(Requests)
    /\ loginTab \in BOOLEAN /\ main \in BOOLEAN /\ dangling \in BOOLEAN

(* A callback never meets a deallocated DAO, although it holds it unowned   *)
(* and answers come after the screen is popped (AuthenticationDao).         *)
NeverDangles == ~dangling

(* The requests that the taps on a screen sent. *)
Taps(s) == {r \in DOMAIN requests : requests[r].screen = s}

(* An answer is lost only on a screen that is gone; on any other it is      *)
(* shown, and at most once for each tap on that screen (flatMap over the    *)
(* one subject of AuthenticationDao).                                       *)
AnswersAreShown ==
    \A r \in DOMAIN requests :
        LET req == requests[r]
        IN  req.answer # "none" =>
                /\ req.shown = 0 => stage[req.screen] = "gone"
                /\ req.shown <= Cardinality(Taps(req.screen))

(* The main screen is there only after Firebase accepted a login that was   *)
(* sent with both fields filled, whatever other answers came before or      *)
(* after (LoginViewController.bind, LoginViewModel.isValid).                *)
MainOnlyAfterLogin ==
    main => \E r \in Taps(Login) :
                requests[r].answer = "success" /\ requests[r].sent = Fields

(* An answer to a screen that is gone moves no other screen: it does not    *)
(* pop the sign-up screen that was opened since, and shows nothing.         *)
GoneScreensAreSilent ==
    [][\A r \in DOMAIN requests :
         /\ requests[r].answer # requests'[r].answer
         /\ stage[requests[r].screen] = "gone"
         => requests'[r].shown = 0 /\ UNCHANGED <<stage, main>>]_vars

(* Every tap on a button comes to a message or the next screen, unless the  *)
(* user has left the screen by then.                                        *)
TapsAreAnswered ==
    \A r \in 1 .. MaxTaps :
        r \in DOMAIN requests ~>
            r \in DOMAIN requests /\ \/ requests[r].shown > 0
                                     \/ stage[requests[r].screen] = "gone"
=============================================================================
