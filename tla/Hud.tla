-------------------------------- MODULE Hud --------------------------------
(***************************************************************************)
(* The message display (KRProgressHUD), as the application uses it: it     *)
(* shows messages that are to dismiss themselves, and dismisses none.      *)
(*                                                                         *)
(* Two kinds of threads meet here.  The main thread runs the blocks of the *)
(* main queue in order, one at a time.  The dismiss handler of a message   *)
(* runs on a thread of a global queue once its time is over.  Both read    *)
(* and write KRProgressHUD.dismissHandler, without a lock; a step of the   *)
(* model touches it once.                                                  *)
(*                                                                         *)
(* Time is left out: a handler may fire at any time after it is armed,     *)
(* whatever deadlineTime was set to, and a fade-out may end at any time    *)
(* after it began.                                                         *)
(***************************************************************************)
EXTENDS Integers, Sequences

CONSTANT MaxMessages  \* bound: messages shown in the life of the process

ASSUME MaxMessagesAssumption == MaxMessages \in Nat

Message == 1 .. MaxMessages
None    == 0

(* The blocks that show and dismiss put on the main queue. *)
Blocks == [kind: {"prepare", "present", "fadeOut"}, msg: Message]

VARIABLES
    sent,            \* the number of messages that the application has shown
    queue,           \* the main queue: blocks that wait
    arming,          \* the message whose registerDismissHandler the main
                     \*   thread is in, after the assignment
    dismissHandler,  \* the message whose handler KRProgressHUD refers to
    handler,         \* of each message: how far its handler has got
    held,            \* of each message: the handler that its own handler's
                     \*   cancelCurrentDismissHandler has loaded
    cancelled,       \* the messages whose handler was cancelled
    fading,          \* the number of fade-outs whose completion is to come
    visible,         \* KRProgressHUD.isVisible: the window is on the screen
    face,            \* the message that came up last
    trapped,         \* dismissHandler! found nil: the process is gone
    calm, robbed     \* history: the messages that were prepared while the
                     \*   display was quiet, and those whose handler another
                     \*   one's handler cancelled

hudVars == <<sent, queue, arming, dismissHandler, handler, held, cancelled,
             fading, visible, face, trapped, calm, robbed>>

Init ==
    /\ sent = 0 /\ queue = <<>> /\ arming = None
    /\ dismissHandler = None
    /\ handler = [m \in Message |-> "none"]
    /\ held = [m \in Message |-> None]
    /\ cancelled = {}
    /\ fading = 0 /\ visible = FALSE /\ face = None /\ trapped = FALSE
    /\ calm = {} /\ robbed = {}

-----------------------------------------------------------------------------
(* The main thread.  While it is in registerDismissHandler it does nothing  *)
(* else.                                                                    *)
MainIsFree == ~trapped /\ arming = None

(* The next block of the main queue is of this kind, and is taken off. *)
Runs(kind) == MainIsFree /\ queue # <<>> /\ Head(queue).kind = kind

Handlers == {m \in Message : handler[m] # "none"}

(* Handlers that will still do something. *)
Live == {m \in Handlers : /\ handler[m] # "done"
                          /\ handler[m] = "waiting" => m \notin cancelled}

(* Nothing of an earlier message is under way but its handler, which waits  *)
(* and is the one that can be cancelled.                                    *)
Quiet ==
    /\ Tail(queue) = <<>> /\ fading = 0
    /\ \A m \in Live : m = dismissHandler /\ handler[m] = "waiting"

(* showSuccess or showError, called by a block of the main thread. *)
Show ==
    /\ MainIsFree /\ sent < MaxMessages
    /\ sent' = sent + 1
    /\ queue' = Append(queue, [kind |-> "prepare", msg |-> sent + 1])
    /\ UNCHANGED <<arming, dismissHandler, handler, held, cancelled, fading,
                   visible, face, trapped, calm, robbed>>

(* Mutant of CancelCurrent: the handler is dropped and not cancelled. *)
ForgetCurrent == dismissHandler' = None /\ UNCHANGED cancelled

(* Mutant of CancelCurrent: the guard on the handler is missing, and cancel *)
(* is sent to one that is nil.                                              *)
CancelUnguarded ==
    /\ cancelled' = cancelled \union {dismissHandler}
    /\ dismissHandler' = None

(* cancelCurrentDismissHandler on the main thread.  It answers true, with   *)
(* a handler or without: the delay of show is always zero.                  *)
CancelCurrent ==
    /\ cancelled' = cancelled \union ({dismissHandler} \ {None})
    /\ dismissHandler' = None

(* The block of show: the new text is laid out, the current handler is      *)
(* cancelled, and a block that presents the message is queued.              *)
Prepare ==
    /\ Runs("prepare")
    /\ LET m == Head(queue).msg
       IN  /\ queue' = Append(Tail(queue), [kind |-> "present", msg |-> m])
           /\ calm' = IF Quiet THEN calm \union {m} ELSE calm
    /\ CancelCurrent
    /\ UNCHANGED <<sent, arming, handler, held, fading, visible, face, trapped, robbed>>

(* Mutant of Registers: a message that comes up over another has no handler. *)
RegistersOnce(m) ==
    IF visible THEN UNCHANGED <<dismissHandler, arming>>
               ELSE dismissHandler' = m /\ arming' = m

(* The assignment of registerDismissHandler (isLoading is false throughout  *)
(* the application).                                                        *)
Registers(m) == dismissHandler' = m /\ arming' = m

(* The block that show delays: the message comes up, and its handler is     *)
(* assigned.                                                                *)
Present ==
    /\ Runs("present")
    /\ queue' = Tail(queue)
    /\ visible' = TRUE
    /\ face' = Head(queue).msg
    /\ Registers(Head(queue).msg)
    /\ UNCHANGED <<sent, handler, held, cancelled, fading, trapped, calm, robbed>>

(* asyncAfter(deadline:, execute: dismissHandler!): the property is read    *)
(* again, and is nil if another thread has cleared it since.                *)
Arm ==
    /\ ~trapped /\ arming # None
    /\ arming' = None
    /\ IF dismissHandler = None
       THEN trapped' = TRUE /\ UNCHANGED handler
       ELSE handler' = [handler EXCEPT ![dismissHandler] = "waiting"] /\ UNCHANGED trapped
    /\ UNCHANGED <<sent, queue, dismissHandler, held, cancelled, fading, visible,
                   face, calm, robbed>>

(* The block of dismiss starts the fade-out. *)
FadeOut ==
    /\ Runs("fadeOut")
    /\ queue' = Tail(queue)
    /\ fading' = fading + 1
    /\ UNCHANGED <<sent, arming, dismissHandler, handler, held, cancelled,
                   visible, face, trapped, calm, robbed>>

(* The completion of a fade-out: whatever is on the screen is taken down. *)
FadedOut ==
    /\ MainIsFree /\ fading > 0
    /\ fading' = fading - 1
    /\ visible' = FALSE
    /\ UNCHANGED <<sent, queue, arming, dismissHandler, handler, held, cancelled,
                   face, trapped, calm, robbed>>

-----------------------------------------------------------------------------
(* The dismiss handler of message m, on a thread of the global queue. *)
Moves(m, from, to) ==
    /\ ~trapped /\ handler[m] = from
    /\ handler' = [handler EXCEPT ![m] = to]

(* Its time is over: it starts, unless it was cancelled before. *)
Fire(m) ==
    /\ m \notin cancelled
    /\ Moves(m, "waiting", "running")
    /\ UNCHANGED <<sent, queue, arming, dismissHandler, held, cancelled, fading,
                   visible, face, trapped, calm, robbed>>

(* KRProgressHUD.dismiss(): a block for the main queue. *)
Dismiss(m) ==
    /\ Moves(m, "running", "dismissed")
    /\ queue' = Append(queue, [kind |-> "fadeOut", msg |-> m])
    /\ UNCHANGED <<sent, arming, dismissHandler, held, cancelled, fading, visible,
                   face, trapped, calm, robbed>>

(* cancelCurrentDismissHandler() on this thread: the handler is loaded, and *)
(* cancelled, and the property cleared, whatever it refers to by then.      *)
Load(m) ==
    /\ Moves(m, "dismissed", IF dismissHandler = None THEN "done" ELSE "loaded")
    /\ held' = [held EXCEPT ![m] = dismissHandler]
    /\ UNCHANGED <<sent, queue, arming, dismissHandler, cancelled, fading, visible,
                   face, trapped, calm, robbed>>

Cancel(m) ==
    /\ Moves(m, "loaded", "clearing")
    /\ cancelled' = cancelled \union {held[m]}
    /\ robbed' = robbed \union ({held[m]} \ {m})
    /\ UNCHANGED <<sent, queue, arming, dismissHandler, held, fading, visible,
                   face, trapped, calm>>

Clear(m) ==
    /\ Moves(m, "clearing", "done")
    /\ dismissHandler' = None
    /\ UNCHANGED <<sent, queue, arming, held, cancelled, fading, visible, face,
                   trapped, calm, robbed>>

-----------------------------------------------------------------------------
MainBlock == Prepare \/ Present \/ Arm \/ FadeOut

Handle(m) == Fire(m) \/ Dismiss(m) \/ Load(m) \/ Cancel(m) \/ Clear(m)

Next ==
    \/ Show
    \/ MainBlock
    \/ FadedOut
    \/ \E m \in Message : Handle(m)

Spec == Init /\ [][Next]_hudVars

(* The main queue and the global queue run what is put on them, and every   *)
(* animation ends.                                                          *)
FairSpec ==
    /\ Spec
    /\ WF_hudVars(MainBlock)
    /\ WF_hudVars(FadedOut)
    /\ \A m \in Message : WF_hudVars(Handle(m))

-----------------------------------------------------------------------------
Stage == {"none", "waiting", "running", "dismissed", "loaded", "clearing", "done"}

(* The types of the variables.  Only handlers of messages are ever          *)
(* cancelled, not the nil that dismissHandler may hold                      *)
(* (cancelCurrentDismissHandler).                                           *)
TypeOK ==
    /\ sent \in 0 .. MaxMessages
    /\ queue \in Seq(Blocks)
    /\ arming \in Message \union {None}
    /\ dismissHandler \in Message \union {None}
    /\ handler \in [Message -> Stage]
    /\ held \in [Message -> Message \union {None}]
    /\ cancelled \subseteq Message
    /\ fading \in Nat
    /\ visible \in BOOLEAN /\ trapped \in BOOLEAN
    /\ face \in Message \union {None}
    /\ calm \subseteq Message /\ robbed \subseteq Message

Waits(kind) == \E i \in DOMAIN queue : queue[i].kind = kind

(* The handler of a message has started. *)
Over(m) == handler[m] \notin {"none", "waiting"}

(* What is on the screen is going to be taken down or replaced, in every    *)
(* interleaving of the two threads, but for one case: the handler of an     *)
(* earlier message, which runs on after that message, has cancelled its     *)
(* handler (KRProgressHUD.registerDismissHandler).                          *)
LeftUpOnlyIfRobbed ==
    visible /\ ~trapped =>
        \/ Waits("present") \/ Waits("fadeOut") \/ fading > 0
        \/ arming = face
        \/ handler[face] = "waiting" /\ face \notin cancelled
        \/ handler[face] = "running"
        \/ face \in robbed

(* A message that was prepared while the display was quiet, with another    *)
(* message up or without, is in no race: nobody cancels its handler, and    *)
(* the handler is there when it is armed.                                   *)
CalmMessagesAreSafe == face \in calm => face \notin robbed /\ ~trapped

(* Such a message stays until it is replaced or its own time is over: the   *)
(* handler of the message that it replaced does not take it down.           *)
CalmMessagesKeepTheirTime ==
    [][visible /\ ~visible' /\ face \in calm => Over(face)]_hudVars

(* Every message comes down or is replaced in the end, calm or not, unless  *)
(* its handler was cancelled by another's or the process has ended.         *)
MessagesComeDownUnlessRobbed ==
    \A m \in Message :
        visible /\ face = m ~> ~visible \/ face # m \/ m \in robbed \/ trapped

-----------------------------------------------------------------------------
(* What the comments on showSuccess and showError say, that the display     *)
(* dismisses after its time: every message comes down in the end ...        *)
MessagesComeDown ==
    \A m \in Message : visible /\ face = m ~> ~visible \/ face # m \/ trapped

(* ... and not before its own time is over.                                 *)
MessagesKeepTheirTime ==
    [][visible /\ ~visible' => Over(face)]_hudVars

(* What the ! of registerDismissHandler asserts: the handler that was       *)
(* assigned two statements before is still there.                           *)
HandlerIsThere == ~trapped
=============================================================================
