----------------------------- MODULE HudProofs -----------------------------
(***************************************************************************)
(* Proofs about Hud.tla, for any number of messages.                       *)
(***************************************************************************)
EXTENDS Hud, TLAPS, SequenceTheorems

(* Mentioned by a block that is still to prepare or present it. *)
Queued(m) == \E i \in DOMAIN queue : queue[i].kind # "fadeOut" /\ queue[i].msg = m

(* Nothing has happened yet to a message that has not come up. *)
Fresh(m) ==
    /\ handler[m] = "none" /\ m # face
    /\ m \notin robbed /\ m \notin cancelled
    /\ \A x \in Message : held[x] # m

FreshBeforePresent ==
    /\ \A m \in Message : m > sent \/ Queued(m) => Fresh(m)
    /\ \A m \in calm : m <= sent
    /\ \A i \in DOMAIN queue : queue[i].kind = "prepare" => queue[i].msg \notin calm

(* Each message is mentioned once. *)
QueuedOnce ==
    /\ \A i \in DOMAIN queue : queue[i].kind # "fadeOut" => queue[i].msg <= sent
    /\ \A i, j \in DOMAIN queue :
         queue[i].kind # "fadeOut" /\ queue[j].kind # "fadeOut" /\ queue[i].msg = queue[j].msg
             => i = j

(* KRProgressHUD refers to the handler of the message that came up last, if *)
(* to any, and it is armed but for the moment before.                       *)
CurrentHandler ==
    /\ dismissHandler \in {None, face}
    /\ arming # None => arming = face /\ handler[face] = "none"
    /\ arming = None /\ dismissHandler # None => handler[dismissHandler] # "none"

CancelsWhatItHolds ==
    /\ \A m \in Message : handler[m] \in {"loaded", "clearing"} => held[m] # None
    /\ \A m \in cancelled : handler[m] = "none" => m \in robbed

(* The fade-out of a message that has dismissed itself is on its way. *)
Dismissing ==
    visible => /\ face # None
               /\ Over(face) /\ handler[face] # "running" => Waits("fadeOut") \/ fading > 0

(* A calm message that waits to come up finds nothing under way, and none   *)
(* comes before it; one that is up has the only live handler.               *)
CalmWaits ==
    \A i \in DOMAIN queue :
        queue[i].kind = "present" /\ queue[i].msg \in calm =>
            /\ i = 1 /\ arming = None /\ ~trapped
            /\ Live = {} /\ fading = 0 /\ ~Waits("fadeOut")

CalmIsUp ==
    face \in calm =>
        /\ Live \subseteq {face}
        /\ Waits("fadeOut") \/ fading > 0 => Over(face)
        /\ arming # None => dismissHandler = face
        /\ handler[face] = "loaded" => held[face] = face

IInv ==
    /\ TypeOK
    /\ FreshBeforePresent
    /\ QueuedOnce
    /\ CurrentHandler
    /\ CancelsWhatItHolds
    /\ Dismissing
    /\ CalmWaits
    /\ CalmIsUp
    /\ LeftUpOnlyIfRobbed
    /\ CalmMessagesAreSafe

-----------------------------------------------------------------------------
(* The queue *)

(* A block that is put at the end moves no other.                           *)
LEMMA Appended ==
    ASSUME NEW q \in Seq(Blocks), NEW b \in Blocks
    PROVE  LET n == Len(q) + 1
               r == Append(q, b)
           IN  /\ r \in Seq(Blocks)
               /\ DOMAIN r = DOMAIN q \union {n} /\ n \notin DOMAIN q /\ r[n] = b
               /\ \A i \in DOMAIN q : r[i] = q[i]
  OBVIOUS

(* Taking the first block off moves every other up by one.                  *)
LEMMA TakenOff ==
    ASSUME NEW q \in Seq(Blocks), q # <<>>
    PROVE  LET r == Tail(q)
           IN  /\ r \in Seq(Blocks)
               /\ 1 \in DOMAIN q /\ Head(q) = q[1] /\ Head(q) \in Blocks
               /\ \A i \in DOMAIN r : i \in Nat \ {0} /\ i + 1 \in DOMAIN q /\ r[i] = q[i + 1]
               /\ \A i \in DOMAIN q : i = 1 \/ (i - 1 \in DOMAIN r /\ r[i - 1] = q[i])
  OBVIOUS

-----------------------------------------------------------------------------
(* The inductive invariant *)

(* A message is shown: its block goes to the end of the queue, about a      *)
(* fresh one.                                                               *)
LEMMA ShowStep ==
    ASSUME IInv, Show
    PROVE  IInv'
<1> DEFINE b == [kind |-> "prepare", msg |-> sent + 1]
<1>a. /\ b \in Blocks /\ queue' = Append(queue, b) /\ b.kind = "prepare" /\ b.msg = sent + 1
      /\ queue \in Seq(Blocks) /\ sent \in Nat
  <2>1. sent \in 0 .. MaxMessages /\ sent < MaxMessages
    BY DEF IInv, TypeOK, Show
  <2>2. sent + 1 \in Message /\ sent \in Nat
    BY <2>1, MaxMessagesAssumption DEF Message
  <2> QED
    BY <2>2 DEF IInv, TypeOK, Show, Blocks
<1>b. /\ queue' \in Seq(Blocks)
      /\ \A i \in DOMAIN queue : i \in DOMAIN queue' /\ queue'[i] = queue[i]
      /\ \A i, j \in DOMAIN queue' : i \notin DOMAIN queue /\ j \notin DOMAIN queue => i = j
      /\ \A i \in DOMAIN queue' : i \notin DOMAIN queue => queue'[i] = b
  BY <1>a, Appended
<1> HIDE DEF b
<1>1. TypeOK'
  <2>1. sent' \in 0 .. MaxMessages
    BY <1>a, MaxMessagesAssumption DEF Show, IInv, TypeOK
  <2> QED
    BY <1>b, <2>1 DEF IInv, TypeOK, Show, Stage
<1>2. FreshBeforePresent'
  <2>1. ASSUME NEW m \in Message, m > sent' \/ Queued(m)'
        PROVE  m > sent \/ Queued(m)
    <3>1. CASE m > sent'
      BY <1>a, <3>1 DEF Show, Message
    <3>2. CASE Queued(m)'
      BY <1>a, <1>b, <3>2 DEF Queued, Message
    <3> QED
      BY <2>1, <3>1, <3>2
  <2>2. \A m \in Message : Fresh(m) => Fresh(m)'
    BY DEF Fresh, Show
  <2>3. \A m \in calm' : m <= sent'
    BY <1>a DEF IInv, TypeOK, FreshBeforePresent, Show, Message
  <2>4. \A i \in DOMAIN queue' : queue'[i].kind = "prepare" => queue'[i].msg \notin calm'
    BY <1>a, <1>b, <2>3 DEF IInv, FreshBeforePresent, Show, TypeOK, Message
  <2> QED
    BY <2>1, <2>2, <2>3, <2>4 DEF IInv, FreshBeforePresent
<1>3. QueuedOnce'
  <2>1. \A i \in DOMAIN queue : queue[i] \in Blocks /\ queue[i].msg \in Int
    <3>1. \A b1 \in Blocks : b1.msg \in Int
      BY DEF Blocks, Message
    <3> QED
      BY <1>a, <3>1
  <2>2. \A i \in DOMAIN queue : queue[i].kind # "fadeOut" => queue[i].msg < sent + 1
    BY <1>a, <2>1 DEF IInv, QueuedOnce
  <2>3. \A i \in DOMAIN queue' : queue'[i].kind # "fadeOut" => queue'[i].msg <= sent'
    BY <1>a, <1>b, <2>1, <2>2 DEF Show
  <2> QED
    BY <1>a, <1>b, <2>1, <2>2, <2>3 DEF IInv, QueuedOnce
<1>4. CurrentHandler'
  BY <1>a, <1>b DEF IInv, CurrentHandler, Show, Moves, Runs, MainIsFree
<1>5. CancelsWhatItHolds'
  BY <1>a, <1>b DEF IInv, CancelsWhatItHolds, Show, Moves, Runs, MainIsFree
<1>6. Dismissing'
  BY <1>a, <1>b DEF IInv, Dismissing, Show, Moves, Runs, MainIsFree, Waits, Over
<1>7. CalmWaits'
  BY <1>a, <1>b DEF IInv, CalmWaits, Show, Moves, Runs, MainIsFree, Live, Handlers, Waits
<1>8. CalmIsUp'
  BY <1>a, <1>b DEF IInv, CalmIsUp, Show, Moves, Runs, MainIsFree, Live, Handlers, Waits, Over
<1>9. LeftUpOnlyIfRobbed'
  BY <1>a, <1>b DEF IInv, LeftUpOnlyIfRobbed, Show, Moves, Runs, MainIsFree, Waits
<1>10. CalmMessagesAreSafe'
  BY <1>a, <1>b DEF IInv, CalmMessagesAreSafe, Show, Moves, Runs, MainIsFree
<1> QED
  BY <1>1, <1>2, <1>3, <1>4, <1>5, <1>6, <1>7, <1>8, <1>9, <1>10 DEF IInv

(* The block of show runs: the handler it finds is cancelled, and a message *)
(* that finds the display quiet is calm from then on.                       *)
LEMMA PrepareStep ==
    ASSUME IInv, Prepare
    PROVE  IInv'
<1> DEFINE x == Head(queue).msg
             b == [kind |-> "present", msg |-> x]
<1>a. /\ queue \in Seq(Blocks) /\ queue # <<>> /\ Head(queue).kind = "prepare"
      /\ queue' = Append(Tail(queue), b)
      /\ calm' = IF Quiet THEN calm \union {x} ELSE calm
      /\ arming = None /\ ~trapped
  BY DEF IInv, TypeOK, Prepare, Runs, MainIsFree
<1>b. /\ Tail(queue) \in Seq(Blocks)
      /\ 1 \in DOMAIN queue /\ queue[1].kind = "prepare" /\ queue[1].msg = x
      /\ b \in Blocks /\ b.kind = "present" /\ b.msg = x /\ x \in Message
  BY <1>a, TakenOff DEF Blocks
<1>c. /\ queue' \in Seq(Blocks)
      /\ \A i \in DOMAIN queue' : \/ queue'[i] = b
                                  \/ /\ i + 1 \in DOMAIN queue /\ i + 1 # 1
                                     /\ queue'[i] = queue[i + 1]
      /\ \A i \in DOMAIN queue : i = 1 \/ (i - 1 \in DOMAIN queue' /\ queue'[i - 1] = queue[i])
      /\ \E i \in DOMAIN queue' : queue'[i] = b
      /\ \A i, j \in DOMAIN queue' : \/ i = j
                                     \/ i + 1 \in DOMAIN queue /\ queue'[i] = queue[i + 1]
                                     \/ j + 1 \in DOMAIN queue /\ queue'[j] = queue[j + 1]
      /\ Tail(queue) = <<>> => DOMAIN queue' = {1} /\ queue'[1] = b
  <2>1. /\ DOMAIN queue' = DOMAIN Tail(queue) \union {Len(Tail(queue)) + 1}
        /\ Len(Tail(queue)) + 1 \notin DOMAIN Tail(queue)
        /\ queue'[Len(Tail(queue)) + 1] = b /\ queue' \in Seq(Blocks)
        /\ \A i \in DOMAIN Tail(queue) : queue'[i] = Tail(queue)[i]
    BY <1>a, <1>b, Appended
  <2>2. Tail(queue) = <<>> => DOMAIN Tail(queue) = {} /\ Len(Tail(queue)) + 1 = 1
    <3>1. Tail(queue) = <<>> => Len(Tail(queue)) = 0
      BY EmptySeq
    <3> QED
      BY <1>b, <3>1
  <2> QED
    BY <1>a, <2>1, <2>2, TakenOff
<1>d. /\ x # face /\ x \notin calm /\ Queued(x)
      /\ \A i \in DOMAIN queue : queue[i].kind # "fadeOut" /\ queue[i].msg = x => i = 1
  BY <1>b DEF IInv, FreshBeforePresent, QueuedOnce, Queued, Fresh
<1> HIDE DEF x, b
<1>1. TypeOK'
  BY <1>a, <1>b, <1>c, <1>d DEF IInv, TypeOK, Prepare, Moves, CancelCurrent, Quiet, Stage
<1>2. FreshBeforePresent'
  BY <1>a, <1>b, <1>c, <1>d DEF IInv, TypeOK, FreshBeforePresent, QueuedOnce,
     CurrentHandler, CancelsWhatItHolds, Dismissing, CalmWaits, CalmIsUp, LeftUpOnlyIfRobbed,
     CalmMessagesAreSafe, Prepare, Moves, CancelCurrent, Quiet, Queued, Fresh
<1>3. QueuedOnce'
  BY <1>a, <1>b, <1>c, <1>d DEF IInv, TypeOK, QueuedOnce, Prepare, Moves, CancelCurrent, Quiet
<1>4. CurrentHandler'
  BY <1>a, <1>b, <1>c, <1>d DEF IInv, CurrentHandler, Prepare, Moves, CancelCurrent, Quiet
<1>5. CancelsWhatItHolds'
  BY <1>a, <1>b, <1>c, <1>d DEF IInv, CurrentHandler, CancelsWhatItHolds, Prepare, Moves,
     CancelCurrent, Quiet
<1>6. Dismissing'
  <2>1. Waits("fadeOut") => Waits("fadeOut")'
    BY <1>b, <1>c DEF Waits
  <2> QED
    BY <2>1 DEF IInv, Dismissing, Prepare, Over
<1>7. CalmWaits'
  <2> SUFFICES ASSUME NEW i \in DOMAIN queue', queue'[i].kind = "present", queue'[i].msg \in calm'
               PROVE  /\ i = 1 /\ arming' = None /\ ~trapped'
                      /\ Live' = {} /\ fading' = 0 /\ ~Waits("fadeOut")'
    BY DEF CalmWaits
  <2>1. queue'[i].msg = x
    <3> SUFFICES ASSUME queue'[i] # b
                 PROVE  queue'[i].msg = x
      BY <1>b
    <3>1. i + 1 \in DOMAIN queue /\ i + 1 # 1 /\ queue'[i] = queue[i + 1]
      BY <1>c
    <3>2. queue'[i].msg \notin calm
      BY <3>1 DEF IInv, CalmWaits
    <3> QED
      BY <1>a, <3>2
  <2>2. x \in calm' /\ Quiet
    BY <1>a, <1>d, <2>1
  <2>3. i = 1 /\ ~Waits("fadeOut")'
    BY <1>b, <1>c, <2>2 DEF Quiet, Waits
  <2>4. Live' = {}
    <3>1. /\ handler' = handler
          /\ cancelled' = cancelled \union ({dismissHandler} \ {None})
      BY DEF Prepare, CancelCurrent
    <3>2. \A m \in Live : m \in Message /\ m = dismissHandler /\ handler[m] = "waiting"
      BY <2>2 DEF Quiet, Live, Handlers
    <3>3. \A m \in Live' : m \in Live
      BY <3>1 DEF Live, Handlers
    <3> QED
      BY <3>1, <3>2, <3>3 DEF Live, Message, None
  <2> QED
    BY <1>a, <2>2, <2>3, <2>4 DEF Quiet, Prepare
<1>8. CalmIsUp'
  BY <1>a, <1>b, <1>c, <1>d DEF IInv, CalmIsUp, Prepare, Moves, CancelCurrent, Quiet, Live,
     Handlers, Waits, Over
<1>9. LeftUpOnlyIfRobbed'
  BY <1>a, <1>b, <1>c, <1>d DEF IInv, LeftUpOnlyIfRobbed, Prepare, Moves, CancelCurrent,
     Quiet, Waits
<1>10. CalmMessagesAreSafe'
  BY <1>a, <1>b, <1>c, <1>d DEF IInv, CalmMessagesAreSafe, Prepare, Moves, CancelCurrent, Quiet
<1> QED
  BY <1>1, <1>2, <1>3, <1>4, <1>5, <1>6, <1>7, <1>8, <1>9, <1>10 DEF IInv

(* The message comes up, and what was under way for it is its own handler.  *)
LEMMA PresentStep ==
    ASSUME IInv, Present
    PROVE  IInv'
<1> DEFINE x == Head(queue).msg
<1>a. /\ queue \in Seq(Blocks) /\ queue # <<>> /\ Head(queue).kind = "present"
      /\ queue' = Tail(queue) /\ face' = x /\ dismissHandler' = x /\ arming' = x
      /\ arming = None /\ ~trapped
  BY DEF IInv, TypeOK, Present, Runs, MainIsFree, Registers
<1>b. /\ queue' \in Seq(Blocks) /\ x \in Message
      /\ 1 \in DOMAIN queue /\ queue[1].kind = "present" /\ queue[1].msg = x
      /\ \A i \in DOMAIN queue' : i + 1 \in DOMAIN queue /\ i + 1 # 1 /\ queue'[i] = queue[i + 1]
  <2>1. /\ Tail(queue) \in Seq(Blocks) /\ 1 \in DOMAIN queue
        /\ Head(queue) = queue[1] /\ Head(queue) \in Blocks
        /\ \A i \in DOMAIN queue' : /\ i \in Nat \ {0} /\ i + 1 \in DOMAIN queue
                                   /\ queue'[i] = queue[i + 1]
    BY <1>a, TakenOff
  <2> QED
    BY <1>a, <2>1 DEF Blocks
<1>c. /\ Queued(x) /\ Fresh(x) /\ x <= sent
      /\ \A i \in DOMAIN queue : queue[i].kind # "fadeOut" /\ queue[i].msg = x => i = 1
  BY <1>b DEF IInv, FreshBeforePresent, QueuedOnce, Queued
<1> HIDE DEF x
<1>1. TypeOK'
  BY <1>a, <1>b, <1>c DEF IInv, TypeOK, Present, Moves, Fresh, Stage
<1>2. FreshBeforePresent'
  <2>1. ASSUME NEW m \in Message, m > sent' \/ Queued(m)'
        PROVE  m # x /\ (m > sent \/ Queued(m))
    BY <1>b, <1>c, <2>1 DEF Queued, Present, Message, IInv, TypeOK
  <2>2. \A m \in Message : m # x /\ Fresh(m) => Fresh(m)'
    BY <1>a DEF Fresh, Present
  <2> QED
    BY <1>b, <2>1, <2>2 DEF IInv, FreshBeforePresent, Present
<1>3. QueuedOnce'
  BY <1>a, <1>b, <1>c DEF IInv, QueuedOnce, Present, Moves, Fresh
<1>4. CurrentHandler'
  BY <1>a, <1>b, <1>c DEF IInv, CurrentHandler, Present, Moves, Fresh
<1>5. CancelsWhatItHolds'
  BY <1>a, <1>b, <1>c DEF IInv, CancelsWhatItHolds, Present, Moves, Fresh
<1>6. Dismissing'
  <2>1. x # None /\ handler'[x] = "none"
    BY <1>b, <1>c DEF Fresh, Present, None, Message
  <2> QED
    BY <1>a, <2>1 DEF Dismissing, Over
<1>7. CalmWaits'
  BY <1>a, <1>b, <1>c DEF IInv, CalmWaits, Present, Moves, Fresh, Live, Handlers, Waits
<1>8. CalmIsUp'
  BY <1>a, <1>b, <1>c DEF IInv, FreshBeforePresent, CurrentHandler, CalmWaits, CalmIsUp,
     Present, Moves, Fresh, Live, Handlers, Waits, Over
<1>9. LeftUpOnlyIfRobbed'
  BY <1>a, <1>b, <1>c DEF IInv, LeftUpOnlyIfRobbed, Present, Moves, Fresh, Waits
<1>10. CalmMessagesAreSafe'
  BY <1>a, <1>b, <1>c DEF IInv, CalmMessagesAreSafe, Present, Moves, Fresh
<1> QED
  BY <1>1, <1>2, <1>3, <1>4, <1>5, <1>6, <1>7, <1>8, <1>9, <1>10 DEF IInv

(* The handler that is armed is that of the message on the screen.          *)
LEMMA ArmStep ==
    ASSUME IInv, Arm
    PROVE  IInv'
<1>1. TypeOK'
  BY DEF IInv, TypeOK, Arm, Moves, Runs, MainIsFree, Stage
<1>2. FreshBeforePresent'
  BY DEF IInv, TypeOK, FreshBeforePresent, QueuedOnce, CurrentHandler, CancelsWhatItHolds,
     Dismissing, CalmIsUp, Arm, Moves, Runs, MainIsFree, Queued, Fresh
<1>3. QueuedOnce'
  BY DEF IInv, QueuedOnce, Arm, Moves, Runs, MainIsFree
<1>4. CurrentHandler'
  BY DEF IInv, TypeOK, FreshBeforePresent, CurrentHandler, CancelsWhatItHolds, Dismissing,
     CalmIsUp, Arm, Moves, Runs, MainIsFree
<1>5. CancelsWhatItHolds'
  BY DEF IInv, TypeOK, CurrentHandler, CancelsWhatItHolds, Dismissing, CalmIsUp, Arm, Moves,
     Runs, MainIsFree
<1>6. Dismissing'
  BY DEF IInv, TypeOK, FreshBeforePresent, CurrentHandler, CancelsWhatItHolds, Dismissing,
     CalmIsUp, Arm, Moves, Runs, MainIsFree, Waits, Over
<1>7. CalmWaits'
  BY DEF IInv, CalmWaits, Arm, Moves, Runs, MainIsFree, Live, Handlers, Waits
<1>8. CalmIsUp'
  BY DEF IInv, TypeOK, FreshBeforePresent, CurrentHandler, CancelsWhatItHolds, Dismissing,
     CalmWaits, CalmIsUp, Arm, Moves, Runs, MainIsFree, Live, Handlers, Waits, Over
<1>9. LeftUpOnlyIfRobbed'
  BY DEF IInv, TypeOK, CurrentHandler, CancelsWhatItHolds, Dismissing, CalmIsUp,
     LeftUpOnlyIfRobbed, Arm, Moves, Runs, MainIsFree, Waits
<1>10. CalmMessagesAreSafe'
  BY DEF IInv, FreshBeforePresent, CurrentHandler, CalmIsUp, CalmMessagesAreSafe, Arm,
     Moves, Runs, MainIsFree
<1> QED
  BY <1>1, <1>2, <1>3, <1>4, <1>5, <1>6, <1>7, <1>8, <1>9, <1>10 DEF IInv

(* A fade-out that waited begins.                                           *)
LEMMA FadeOutStep ==
    ASSUME IInv, FadeOut
    PROVE  IInv'
<1>1. TypeOK'
  BY DEF IInv, TypeOK, FadeOut, Moves, Runs, MainIsFree, Stage
<1>2. FreshBeforePresent'
  BY DEF IInv, FreshBeforePresent, FadeOut, Moves, Runs, MainIsFree, Queued, Fresh
<1>3. QueuedOnce'
  BY DEF IInv, TypeOK, QueuedOnce, FadeOut, Moves, Runs, MainIsFree
<1>4. CurrentHandler'
  BY DEF IInv, CurrentHandler, FadeOut, Moves, Runs, MainIsFree
<1>5. CancelsWhatItHolds'
  BY DEF IInv, CancelsWhatItHolds, FadeOut, Moves, Runs, MainIsFree
<1>6. Dismissing'
  BY DEF IInv, TypeOK, FreshBeforePresent, CurrentHandler, CancelsWhatItHolds, Dismissing,
     CalmIsUp, FadeOut, Moves, Runs, MainIsFree, Waits, Over
<1>7. CalmWaits'
  BY DEF IInv, TypeOK, CurrentHandler, CancelsWhatItHolds, Dismissing, CalmWaits, CalmIsUp,
     FadeOut, Moves, Runs, MainIsFree, Live, Handlers, Waits
<1>8. CalmIsUp'
  BY DEF IInv, CalmIsUp, FadeOut, Moves, Runs, MainIsFree, Live, Handlers, Waits, Over
<1>9. LeftUpOnlyIfRobbed'
  BY DEF IInv, TypeOK, CurrentHandler, CancelsWhatItHolds, Dismissing, CalmIsUp,
     LeftUpOnlyIfRobbed, FadeOut, Moves, Runs, MainIsFree, Waits
<1>10. CalmMessagesAreSafe'
  BY DEF IInv, CalmMessagesAreSafe, FadeOut, Moves, Runs, MainIsFree
<1> QED
  BY <1>1, <1>2, <1>3, <1>4, <1>5, <1>6, <1>7, <1>8, <1>9, <1>10 DEF IInv

(* A fade-out ends, and nothing is on the screen.                           *)
LEMMA FadedOutStep ==
    ASSUME IInv, FadedOut
    PROVE  IInv'
<1>1. TypeOK'
  <2>1. fading' \in Nat
    BY DEF IInv, TypeOK, FadedOut
  <2> QED
    BY <2>1 DEF IInv, TypeOK, FadedOut, Stage
<1>2. FreshBeforePresent'
  BY DEF IInv, FreshBeforePresent, FadedOut, Moves, Runs, MainIsFree, Queued, Fresh
<1>3. QueuedOnce'
  BY DEF IInv, QueuedOnce, FadedOut, Moves, Runs, MainIsFree
<1>4. CurrentHandler'
  BY DEF IInv, CurrentHandler, FadedOut, Moves, Runs, MainIsFree
<1>5. CancelsWhatItHolds'
  BY DEF IInv, CancelsWhatItHolds, FadedOut, Moves, Runs, MainIsFree
<1>6. Dismissing'
  BY DEF IInv, Dismissing, FadedOut, Moves, Runs, MainIsFree, Waits, Over
<1>7. CalmWaits'
  BY DEF IInv, CalmWaits, FadedOut, Moves, Runs, MainIsFree, Live, Handlers, Waits
<1>8. CalmIsUp'
  BY DEF IInv, CalmIsUp, FadedOut, Moves, Runs, MainIsFree, Live, Handlers, Waits, Over
<1>9. LeftUpOnlyIfRobbed'
  BY DEF IInv, LeftUpOnlyIfRobbed, FadedOut, Moves, Runs, MainIsFree, Waits
<1>10. CalmMessagesAreSafe'
  BY DEF IInv, CalmMessagesAreSafe, FadedOut, Moves, Runs, MainIsFree
<1> QED
  BY <1>1, <1>2, <1>3, <1>4, <1>5, <1>6, <1>7, <1>8, <1>9, <1>10 DEF IInv

(* A handler starts: it was not cancelled.                                  *)
LEMMA FireStep ==
    ASSUME IInv, NEW m \in Message, Fire(m)
    PROVE  IInv'
<1>1. TypeOK'
  BY DEF IInv, TypeOK, Fire, Moves, Runs, MainIsFree, Stage
<1>2. FreshBeforePresent'
  BY DEF IInv, FreshBeforePresent, Fire, Moves, Runs, MainIsFree, Queued, Fresh
<1>3. QueuedOnce'
  BY DEF IInv, QueuedOnce, Fire, Moves, Runs, MainIsFree
<1>4. CurrentHandler'
  BY DEF IInv, CurrentHandler, Fire, Moves, Runs, MainIsFree
<1>5. CancelsWhatItHolds'
  BY DEF IInv, CancelsWhatItHolds, Fire, Moves, Runs, MainIsFree
<1>6. Dismissing'
  BY DEF IInv, Dismissing, Fire, Moves, Runs, MainIsFree, Waits, Over
<1>7. CalmWaits'
  BY DEF IInv, CalmWaits, Fire, Moves, Runs, MainIsFree, Live, Handlers, Waits
<1>8. CalmIsUp'
  BY DEF IInv, CalmIsUp, Fire, Moves, Runs, MainIsFree, Live, Handlers, Waits, Over
<1>9. LeftUpOnlyIfRobbed'
  BY DEF IInv, LeftUpOnlyIfRobbed, Fire, Moves, Runs, MainIsFree, Waits
<1>10. CalmMessagesAreSafe'
  BY DEF IInv, CalmMessagesAreSafe, Fire, Moves, Runs, MainIsFree
<1> QED
  BY <1>1, <1>2, <1>3, <1>4, <1>5, <1>6, <1>7, <1>8, <1>9, <1>10 DEF IInv

(* A running handler puts its fade-out on the queue.                        *)
LEMMA DismissStep ==
    ASSUME IInv, NEW m \in Message, Dismiss(m)
    PROVE  IInv'
<1> DEFINE b == [kind |-> "fadeOut", msg |-> m]
<1>a. b \in Blocks /\ queue' = Append(queue, b) /\ b.kind = "fadeOut" /\ queue \in Seq(Blocks)
  BY DEF IInv, TypeOK, Dismiss, Blocks
<1>b. /\ queue' \in Seq(Blocks)
      /\ \A i \in DOMAIN queue : i \in DOMAIN queue' /\ queue'[i] = queue[i]
      /\ \E i \in DOMAIN queue' : queue'[i] = b
      /\ \A i \in DOMAIN queue' : i \notin DOMAIN queue => queue'[i] = b
  BY <1>a, Appended
<1> HIDE DEF b
<1>1. TypeOK'
  BY <1>a, <1>b DEF IInv, TypeOK, Dismiss, Moves, Runs, MainIsFree, Stage
<1>2. FreshBeforePresent'
  BY <1>a, <1>b DEF IInv, FreshBeforePresent, Dismiss, Moves, Runs, MainIsFree, Queued, Fresh
<1>3. QueuedOnce'
  BY <1>a, <1>b DEF IInv, QueuedOnce, Dismiss, Moves, Runs, MainIsFree
<1>4. CurrentHandler'
  BY <1>a, <1>b DEF IInv, CurrentHandler, Dismiss, Moves, Runs, MainIsFree
<1>5. CancelsWhatItHolds'
  BY <1>a, <1>b DEF IInv, CancelsWhatItHolds, Dismiss, Moves, Runs, MainIsFree
<1>6. Dismissing'
  BY <1>a, <1>b DEF IInv, Dismissing, Dismiss, Moves, Runs, MainIsFree, Waits, Over
<1>7. CalmWaits'
  BY <1>a, <1>b DEF IInv, CalmWaits, Dismiss, Moves, Runs, MainIsFree, Live, Handlers, Waits
<1>8. CalmIsUp'
  BY <1>a, <1>b DEF IInv, CalmIsUp, Dismiss, Moves, Runs, MainIsFree, Live, Handlers, Waits,
     Over
<1>9. LeftUpOnlyIfRobbed'
  BY <1>a, <1>b DEF IInv, LeftUpOnlyIfRobbed, Dismiss, Moves, Runs, MainIsFree, Waits
<1>10. CalmMessagesAreSafe'
  BY <1>a, <1>b DEF IInv, CalmMessagesAreSafe, Dismiss, Moves, Runs, MainIsFree
<1> QED
  BY <1>1, <1>2, <1>3, <1>4, <1>5, <1>6, <1>7, <1>8, <1>9, <1>10 DEF IInv

(* A handler loads the handler that is current, its own if its message is   *)
(* calm.                                                                    *)
LEMMA LoadStep ==
    ASSUME IInv, NEW m \in Message, Load(m)
    PROVE  IInv'
<1>1. TypeOK'
  BY DEF IInv, TypeOK, Load, Moves, Runs, MainIsFree, Stage
<1>2. FreshBeforePresent'
  <2>1. \A y \in Message : Fresh(y) => Fresh(y)'
    BY DEF IInv, TypeOK, CurrentHandler, Fresh, Load, Moves, Message, None
  <2> QED
    BY <2>1 DEF IInv, FreshBeforePresent, Queued, Load
<1>3. QueuedOnce'
  BY DEF IInv, QueuedOnce, Load, Moves, Runs, MainIsFree
<1>4. CurrentHandler'
  BY DEF IInv, CurrentHandler, Load, Moves, Runs, MainIsFree
<1>5. CancelsWhatItHolds'
  BY DEF IInv, TypeOK, CurrentHandler, CancelsWhatItHolds, Dismissing, CalmIsUp, Load,
     Moves, Runs, MainIsFree
<1>6. Dismissing'
  BY DEF IInv, Dismissing, Load, Moves, Runs, MainIsFree, Waits, Over
<1>7. CalmWaits'
  BY DEF IInv, CalmWaits, Load, Moves, Runs, MainIsFree, Live, Handlers, Waits
<1>8. CalmIsUp'
  BY DEF IInv, TypeOK, FreshBeforePresent, CurrentHandler, CancelsWhatItHolds, Dismissing,
     CalmWaits, CalmIsUp, Load, Moves, Runs, MainIsFree, Live, Handlers, Waits, Over
<1>9. LeftUpOnlyIfRobbed'
  BY DEF IInv, LeftUpOnlyIfRobbed, Load, Moves, Runs, MainIsFree, Waits
<1>10. CalmMessagesAreSafe'
  BY DEF IInv, CalmMessagesAreSafe, Load, Moves, Runs, MainIsFree
<1> QED
  BY <1>1, <1>2, <1>3, <1>4, <1>5, <1>6, <1>7, <1>8, <1>9, <1>10 DEF IInv

(* A handler cancels what it has loaded.                                    *)
LEMMA CancelStep ==
    ASSUME IInv, NEW m \in Message, Cancel(m)
    PROVE  IInv'
<1>1. TypeOK'
  BY DEF IInv, TypeOK, CurrentHandler, CancelsWhatItHolds, Dismissing, CalmIsUp, Cancel,
     Moves, Runs, MainIsFree, Stage
<1>2. FreshBeforePresent'
  BY DEF IInv, FreshBeforePresent, Cancel, Moves, Runs, MainIsFree, Queued, Fresh
<1>3. QueuedOnce'
  BY DEF IInv, QueuedOnce, Cancel, Moves, Runs, MainIsFree
<1>4. CurrentHandler'
  BY DEF IInv, CurrentHandler, Cancel, Moves, Runs, MainIsFree
<1>5. CancelsWhatItHolds'
  BY DEF IInv, CancelsWhatItHolds, Cancel, Moves, Runs, MainIsFree
<1>6. Dismissing'
  BY DEF IInv, Dismissing, Cancel, Moves, Runs, MainIsFree, Waits, Over
<1>7. CalmWaits'
  BY DEF IInv, CalmWaits, Cancel, Moves, Runs, MainIsFree, Live, Handlers, Waits
<1>8. CalmIsUp'
  BY DEF IInv, CalmIsUp, Cancel, Moves, Runs, MainIsFree, Live, Handlers, Waits, Over
<1>9. LeftUpOnlyIfRobbed'
  BY DEF IInv, LeftUpOnlyIfRobbed, Cancel, Moves, Runs, MainIsFree, Waits
<1>10. CalmMessagesAreSafe'
  BY DEF IInv, FreshBeforePresent, CurrentHandler, CalmIsUp, CalmMessagesAreSafe, Cancel,
     Moves, Runs, MainIsFree, Live, Handlers
<1> QED
  BY <1>1, <1>2, <1>3, <1>4, <1>5, <1>6, <1>7, <1>8, <1>9, <1>10 DEF IInv

(* A handler clears the property, and is done.                              *)
LEMMA ClearStep ==
    ASSUME IInv, NEW m \in Message, Clear(m)
    PROVE  IInv'
<1>1. TypeOK'
  BY DEF IInv, TypeOK, Clear, Moves, Runs, MainIsFree, Stage
<1>2. FreshBeforePresent'
  BY DEF IInv, FreshBeforePresent, Clear, Moves, Runs, MainIsFree, Queued, Fresh
<1>3. QueuedOnce'
  BY DEF IInv, QueuedOnce, Clear, Moves, Runs, MainIsFree
<1>4. CurrentHandler'
  BY DEF IInv, CurrentHandler, Clear, Moves, Runs, MainIsFree
<1>5. CancelsWhatItHolds'
  BY DEF IInv, CancelsWhatItHolds, Clear, Moves, Runs, MainIsFree
<1>6. Dismissing'
  BY DEF IInv, Dismissing, Clear, Moves, Runs, MainIsFree, Waits, Over
<1>7. CalmWaits'
  BY DEF IInv, CalmWaits, Clear, Moves, Runs, MainIsFree, Live, Handlers, Waits
<1>8. CalmIsUp'
  BY DEF IInv, FreshBeforePresent, CurrentHandler, CalmWaits, CalmIsUp, Clear, Moves, Runs,
     MainIsFree, Live, Handlers, Waits, Over
<1>9. LeftUpOnlyIfRobbed'
  BY DEF IInv, LeftUpOnlyIfRobbed, Clear, Moves, Runs, MainIsFree, Waits
<1>10. CalmMessagesAreSafe'
  BY DEF IInv, CalmMessagesAreSafe, Clear, Moves, Runs, MainIsFree
<1> QED
  BY <1>1, <1>2, <1>3, <1>4, <1>5, <1>6, <1>7, <1>8, <1>9, <1>10 DEF IInv

-----------------------------------------------------------------------------
(* Nothing has happened at first. *)
LEMMA InitInv == Init => IInv
<1> SUFFICES ASSUME Init
             PROVE  IInv
  OBVIOUS
<1>1. TypeOK
  <2>1. queue \in Seq(Blocks) /\ sent \in 0 .. MaxMessages
    BY EmptySeq, MaxMessagesAssumption DEF Init
  <2> QED
    BY <2>1 DEF Init, TypeOK, Stage
<1>2. DOMAIN queue = {}
  BY DEF Init
<1>3. FreshBeforePresent /\ QueuedOnce /\ CalmWaits
  BY <1>2 DEF Init, FreshBeforePresent, Queued, Fresh, QueuedOnce, CalmWaits, Message, None
<1>4. CurrentHandler /\ CancelsWhatItHolds /\ Dismissing /\ CalmIsUp
  BY DEF Init, CurrentHandler, CancelsWhatItHolds, Dismissing, CalmIsUp
<1>5. LeftUpOnlyIfRobbed /\ CalmMessagesAreSafe
  BY DEF Init, LeftUpOnlyIfRobbed, CalmMessagesAreSafe
<1> QED
  BY <1>1, <1>3, <1>4, <1>5 DEF IInv

(* Every step keeps the invariant.                                          *)
LEMMA NextInv == IInv /\ [Next]_hudVars => IInv'
<1> SUFFICES ASSUME IInv, [Next]_hudVars
             PROVE  IInv'
  OBVIOUS
<1>1. CASE Show
  BY <1>1, ShowStep
<1>2. CASE MainBlock
  BY <1>2, PrepareStep, PresentStep, ArmStep, FadeOutStep DEF MainBlock
<1>3. CASE FadedOut
  BY <1>3, FadedOutStep
<1>4. ASSUME NEW m \in Message, Handle(m)
      PROVE  IInv'
  BY <1>4, FireStep, DismissStep, LoadStep, CancelStep, ClearStep DEF Handle
<1>5. CASE UNCHANGED hudVars
  BY <1>5 DEF hudVars, IInv, TypeOK, Stage, FreshBeforePresent, Queued, Fresh, QueuedOnce,
              CurrentHandler, CancelsWhatItHolds, Dismissing, CalmWaits, CalmIsUp, Live,
              Handlers, Waits, Over, LeftUpOnlyIfRobbed, CalmMessagesAreSafe
<1> QED
  BY <1>1, <1>2, <1>3, <1>4, <1>5 DEF Next

(* The invariant holds in every state of every behaviour.                   *)
THEOREM Invariance == Spec => []IInv
  BY InitInv, NextInv, PTL DEF Spec

-----------------------------------------------------------------------------
(* The state of the display keeps its type (KRProgressHUD.dismissHandler,   *)
(* KRProgressHUD.isVisible).                                                *)
THEOREM TypeCorrectness == Spec => []TypeOK
<1>1. IInv => TypeOK
  BY DEF IInv
<1> QED
  BY <1>1, Invariance, PTL

(* A message that stays on the screen for good has lost its handler to the  *)
(* handler of another (KRProgressHUD.cancelCurrentDismissHandler).          *)
THEOREM LeftUpCorrectness == Spec => []LeftUpOnlyIfRobbed
<1>1. IInv => LeftUpOnlyIfRobbed
  BY DEF IInv
<1> QED
  BY <1>1, Invariance, PTL

(* A message prepared while the display was quiet loses its handler to      *)
(* nobody, and finds it when it arms it.                                    *)
THEOREM CalmSafety == Spec => []CalmMessagesAreSafe
<1>1. IInv => CalmMessagesAreSafe
  BY DEF IInv
<1> QED
  BY <1>1, Invariance, PTL

(* Only FadedOut takes a message down, and a calm one's fade-out comes      *)
(* after its own handler has started (KRProgressHUD.fadeOutView).           *)
THEOREM CalmTime == Spec => CalmMessagesKeepTheirTime
<1>1. ASSUME IInv, [Next]_hudVars, visible, ~visible', face \in calm
      PROVE  Over(face)
  <2>1. visible' = FALSE /\ fading > 0
    BY <1>1 DEF Next, MainBlock, Handle, Show, Prepare, Present, Arm, FadeOut, FadedOut,
                Fire, Dismiss, Load, Cancel, Clear, hudVars
  <2> QED
    BY <1>1, <2>1 DEF IInv, CalmIsUp
<1>2. IInv /\ [Next]_hudVars => [visible /\ ~visible' /\ face \in calm => Over(face)]_hudVars
  BY <1>1
<1> QED
  BY <1>2, Invariance, PTL DEF Spec, CalmMessagesKeepTheirTime
=============================================================================
