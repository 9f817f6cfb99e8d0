----------------------------- MODULE AuthProofs -----------------------------
(***************************************************************************)
(* Proofs about Auth.tla, for any number of sign-up screens and requests.  *)
(***************************************************************************)
EXTENDS Auth, TLAPS, FiniteSetTheorems

(* What the life of a screen fixes: the login screen stays, a screen that   *)
(* was ever opened holds its view model, and only a screen on the stack has *)
(* subscriptions.                                                           *)
ScreenLife ==
    /\ stage[Login] = "up"
    /\ \A s \in Screen :
         /\ stage[s] # "unborn" => selfHeld[s]
         /\ stage[s] \notin OnStack => inner[s] = 0

(* A screen on the stack has a subscription as soon as it has a request,    *)
(* and never more than requests.                                            *)
SubscribedByTaps ==
    \A s \in Screen :
        /\ inner[s] <= Cardinality(Taps(s))
        /\ stage[s] \in OnStack /\ Taps(s) # {} => inner[s] > 0
        /\ stage[s] = "unborn" => Taps(s) = {}

(* A button that takes taps has both of its fields filled, and what was     *)
(* sent had them filled.                                                    *)
SentFilled ==
    /\ \A s \in Screen : enabled[s] => filled[s] = Fields
    /\ \A r \in DOMAIN requests : requests[r].sent = Fields

IInv ==
    /\ TypeOK
    /\ NeverDangles
    /\ AnswersAreShown
    /\ MainOnlyAfterLogin
    /\ ScreenLife
    /\ SubscribedByTaps
    /\ SentFilled

-----------------------------------------------------------------------------
(* Requests and taps *)

(* The number of a screen's taps is a natural number.                       *)
LEMMA TapsFinite ==
    ASSUME TypeOK, NEW s
    PROVE  IsFiniteSet(Taps(s)) /\ Cardinality(Taps(s)) \in Nat
<1>1. DOMAIN requests = 1 .. Len(requests) /\ Len(requests) \in Nat
  BY DEF TypeOK
<1>2. IsFiniteSet(1 .. Len(requests))
  BY <1>1, FS_Interval
<1>3. IsFiniteSet(Taps(s))
  BY <1>1, <1>2, FS_Subset DEF Taps
<1> QED
  BY <1>3, FS_CardinalityType

(* What an answer does to the requests: it fills in one record.             *)
LEMMA AnswerRecords ==
    ASSUME TypeOK, NEW r \in DOMAIN requests, NEW answer \in Verdict, NEW n \in Nat,
           requests' = [requests EXCEPT ![r] = Reported(@, answer, n)]
    PROVE  /\ requests' \in Seq(Requests) /\ DOMAIN requests' = DOMAIN requests
           /\ \A q \in DOMAIN requests :
                /\ requests'[q].screen = requests[q].screen
                /\ requests'[q].sent = requests[q].sent
                /\ q # r => requests'[q] = requests[q]
           /\ requests'[r].answer = answer /\ requests'[r].shown = n
           /\ \A s : Taps(s)' = Taps(s)
<1>1. /\ requests \in Seq(Requests) /\ requests[r] \in Requests
      /\ DOMAIN requests = 1 .. Len(requests) /\ Len(requests) \in Nat
  BY DEF TypeOK
<1> DEFINE rec == Reported(requests[r], answer, n)
<1>2. /\ rec \in Requests /\ rec.screen = requests[r].screen
      /\ rec.sent = requests[r].sent /\ rec.answer = answer /\ rec.shown = n
  BY <1>1 DEF Requests, Reported
<1>3. requests' = [requests EXCEPT ![r] = rec]
  BY <1>1
<1> HIDE DEF rec
<1>4. /\ requests' \in Seq(Requests) /\ DOMAIN requests' = DOMAIN requests
      /\ requests'[r] = rec /\ \A q \in DOMAIN requests : q # r => requests'[q] = requests[q]
  BY <1>1, <1>2, <1>3
<1>5. \A q \in DOMAIN requests :
        /\ requests'[q].screen = requests[q].screen
        /\ requests'[q].sent = requests[q].sent
  BY <1>2, <1>4
<1>6. \A s : Taps(s)' = Taps(s)
  BY <1>4, <1>5 DEF Taps
<1> QED
  BY <1>2, <1>4, <1>5, <1>6

(* What a tap does to the requests: it adds one, to its screen.             *)
LEMMA TapRecords ==
    ASSUME TypeOK, NEW s \in Screen, NEW req \in Requests, req.screen = s,
           requests' = Append(requests, req)
    PROVE  LET n == Len(requests) + 1
           IN  /\ requests' \in Seq(Requests)
               /\ DOMAIN requests' = DOMAIN requests \union {n} /\ n \notin DOMAIN requests
               /\ requests'[n] = req
               /\ \A q \in DOMAIN requests : requests'[q] = requests[q]
               /\ \A t : t # s => Taps(t)' = Taps(t)
               /\ Cardinality(Taps(s)') = Cardinality(Taps(s)) + 1
<1> DEFINE n == Len(requests) + 1
<1>1. /\ requests \in Seq(Requests) /\ DOMAIN requests = 1 .. Len(requests)
      /\ Len(requests) \in Nat
  BY DEF TypeOK
<1>2. /\ requests' \in Seq(Requests) /\ DOMAIN requests' = 1 .. n
      /\ requests'[n] = req
      /\ \A q \in DOMAIN requests : requests'[q] = requests[q]
  BY <1>1
<1>3. DOMAIN requests' = DOMAIN requests \union {n} /\ n \notin DOMAIN requests
  BY <1>1, <1>2
<1> HIDE DEF n
<1>4. \A t : t # s => Taps(t)' = Taps(t)
  BY <1>2, <1>3 DEF Taps
<1>5. Taps(s)' = Taps(s) \union {n} /\ n \notin Taps(s)
  BY <1>2, <1>3 DEF Taps
<1>6. Cardinality(Taps(s)') = Cardinality(Taps(s)) + 1
  BY <1>5, TapsFinite, FS_AddElement
<1> QED
  BY <1>2, <1>3, <1>4, <1>6 DEF n

(* The callback of a waiting request finds its DAO.                         *)
LEMMA DaoIsAlive ==
    ASSUME IInv, NEW r \in DOMAIN requests
    PROVE  requests[r].screen \in Screen /\ DaoAlive(requests[r].screen)
<1>1. requests[r].screen \in Screen
  <2>1. requests[r] \in Requests
    BY DEF IInv, TypeOK
  <2> QED
    BY <2>1 DEF Requests
<1>2. r \in Taps(requests[r].screen)
  BY DEF Taps
<1> QED
  <2>1. stage[requests[r].screen] # "unborn"
    BY <1>1, <1>2 DEF IInv, SubscribedByTaps
  <2>2. selfHeld[requests[r].screen]
    BY <1>1, <2>1, Zenon DEF IInv, ScreenLife
  <2> QED
    BY <1>1, <2>2, Zenon DEF DaoAlive

-----------------------------------------------------------------------------
(* The inductive invariant *)

LEMMA InitInv == Init => IInv
<1> SUFFICES ASSUME Init PROVE IInv
  OBVIOUS
<1>1. \A s \in Screen : Taps(s) = {}
  BY DEF Init, Taps
<1>2. Cardinality({}) = 0
  BY FS_EmptySet
<1>3. Login \in Screen
  BY BoundsAssumption DEF Login, Screen
<1>4. TypeOK
  <2>1. stage \in [Screen -> Stage]
    BY DEF Init, Stage
  <2>2. selfHeld \in [Screen -> BOOLEAN]
    BY Zenon DEF Init
  <2>3. enabled \in [Screen -> BOOLEAN] /\ filled \in [Screen -> SUBSET Fields]
    BY DEF Init
  <2>4. inner \in [Screen -> Nat] /\ requests \in Seq(Requests)
    BY DEF Init
  <2> QED
    BY <2>1, <2>2, <2>3, <2>4 DEF Init, TypeOK
<1>5. ScreenLife
  BY <1>3 DEF Init, ScreenLife, OnStack
<1>6. SubscribedByTaps
  <2> SUFFICES ASSUME NEW s \in Screen
               PROVE  /\ inner[s] <= Cardinality(Taps(s))
                      /\ Taps(s) = {}
    BY DEF SubscribedByTaps
  <2>1. inner[s] = 0 /\ Cardinality(Taps(s)) = 0
    BY <1>1, <1>2 DEF Init
  <2> QED
    BY <1>1, <2>1
<1> QED
  BY <1>4, <1>5, <1>6 DEF Init, IInv, NeverDangles, AnswersAreShown, MainOnlyAfterLogin, SentFilled

(* Steps that send and answer nothing, and leave no screen with a request   *)
(* unborn or bare of subscriptions, keep what the requests depend on.       *)
LEMMA QuietSteps ==
    ASSUME IInv, UNCHANGED requests,
           \A s \in Screen : stage[s] = "gone" => stage'[s] = "gone",
           \A s \in Screen : stage'[s] = "unborn" => stage[s] = "unborn",
           \A s \in Screen : stage'[s] \in OnStack /\ stage[s] # "unborn"
                               => inner'[s] = inner[s] /\ stage[s] \in OnStack,
           \A s \in Screen : inner'[s] = 0 \/ inner'[s] = inner[s]
    PROVE  AnswersAreShown' /\ SubscribedByTaps'
<1>1. \A s : Taps(s)' = Taps(s) /\ Cardinality(Taps(s)) \in Nat
  BY TapsFinite DEF Taps, IInv
<1>2. \A r \in DOMAIN requests : requests[r].screen \in Screen
  BY DaoIsAlive
<1>3. AnswersAreShown'
  BY <1>1, <1>2 DEF IInv, AnswersAreShown
<1>4. SubscribedByTaps'
  BY <1>1 DEF IInv, SubscribedByTaps, TypeOK
<1> QED
  BY <1>3, <1>4

LEMMA EditInv ==
    ASSUME IInv, NEW s \in Screen, NEW fields \in SUBSET Fields, Edit(s, fields)
    PROVE  IInv'
<1>1. /\ filled' = [filled EXCEPT ![s] = fields]
      /\ enabled' = [enabled EXCEPT ![s] = fields = Fields]
      /\ UNCHANGED <<stage, inner, selfHeld, requests, loginTab, main, dangling>>
  BY DEF Edit, Valid
<1>2. TypeOK'
  BY <1>1 DEF IInv, TypeOK
<1>3. AnswersAreShown' /\ SubscribedByTaps' /\ ScreenLife'
  BY <1>1 DEF IInv, AnswersAreShown, SubscribedByTaps, ScreenLife, Taps
<1>4. ASSUME NEW t \in Screen, enabled'[t]
      PROVE  filled'[t] = Fields
  <2>1. CASE t = s
    BY <1>1, <1>4, <2>1 DEF IInv, TypeOK
  <2>2. CASE t # s
    <3>1. enabled[t] /\ filled'[t] = filled[t]
      BY <1>1, <1>4, <2>2 DEF IInv, TypeOK
    <3> QED
      BY <3>1 DEF IInv, SentFilled
  <2> QED
    BY <2>1, <2>2
<1>5. SentFilled'
  BY <1>1, <1>4 DEF IInv, SentFilled
<1> QED
  BY <1>1, <1>2, <1>3, <1>5 DEF IInv, NeverDangles, MainOnlyAfterLogin, Taps

LEMMA TapInv ==
    ASSUME IInv, NEW s \in Screen, Tap(s)
    PROVE  IInv'
<1> DEFINE n   == Len(requests) + 1
           req == [screen |-> s, sent |-> filled[s], answer |-> "none", shown |-> 0]
<1>0. TypeOK /\ stage[s] = "up"
  BY DEF IInv, Tap, NewRequest, Touchable
<1>1. /\ requests' = Append(requests, req)
      /\ inner' = [inner EXCEPT ![s] = @ + 1]
      /\ UNCHANGED <<stage, filled, enabled, selfHeld, loginTab, main, dangling>>
  BY DEF Tap, NewRequest, Subscribed
<1>2. filled[s] = Fields
  BY DEF Tap, NewRequest, IInv, SentFilled
<1>3. /\ req \in Requests /\ req.screen = s /\ req.sent = Fields
      /\ req.answer = "none"
  BY <1>0, <1>2 DEF Requests, TypeOK
<1> HIDE DEF req
<1>4. /\ requests' \in Seq(Requests)
      /\ DOMAIN requests' = DOMAIN requests \union {n} /\ n \notin DOMAIN requests
      /\ requests'[n] = req
      /\ \A q \in DOMAIN requests : requests'[q] = requests[q]
      /\ \A t : t # s => Taps(t)' = Taps(t)
      /\ Cardinality(Taps(s)') = Cardinality(Taps(s)) + 1
  BY <1>0, <1>1, <1>3, TapRecords
<1> HIDE DEF n
<1>5. \A t : Cardinality(Taps(t)) \in Nat
  BY <1>0, TapsFinite
<1>6. TypeOK'
  BY <1>0, <1>1, <1>4 DEF TypeOK
<1>7. AnswersAreShown'
  <2> SUFFICES ASSUME NEW r \in DOMAIN requests, requests[r].answer # "none"
               PROVE  /\ requests[r].shown = 0 => stage[requests[r].screen] = "gone"
                      /\ requests[r].shown <= Cardinality(Taps(requests[r].screen)')
    BY <1>1, <1>3, <1>4 DEF AnswersAreShown
  <2>1. requests[r] \in Requests
    BY <1>0 DEF TypeOK
  <2>2. requests[r].shown \in Nat
    BY <2>1 DEF Requests
  <2>3. /\ requests[r].shown = 0 => stage[requests[r].screen] = "gone"
        /\ requests[r].shown <= Cardinality(Taps(requests[r].screen))
    BY DEF IInv, AnswersAreShown
  <2>4. Cardinality(Taps(requests[r].screen)) <= Cardinality(Taps(requests[r].screen)')
    BY <1>4, <1>5
  <2>5. Cardinality(Taps(requests[r].screen)') \in Nat
    BY <1>4, <1>5
  <2> QED
    BY <1>5, <2>2, <2>3, <2>4, <2>5
<1>8. MainOnlyAfterLogin'
  BY <1>1, <1>4 DEF IInv, MainOnlyAfterLogin, Taps
<1>9. ScreenLife'
  BY <1>0, <1>1 DEF IInv, ScreenLife, OnStack, TypeOK
<1>10. SubscribedByTaps'
  <2> SUFFICES ASSUME NEW t \in Screen
               PROVE  /\ inner'[t] <= Cardinality(Taps(t)')
                      /\ stage[t] \in OnStack /\ Taps(t)' # {} => inner'[t] > 0
                      /\ stage[t] = "unborn" => Taps(t)' = {}
    BY <1>1 DEF SubscribedByTaps
  <2>1. CASE t = s
    <3>1. inner'[s] = inner[s] + 1 /\ inner[s] \in Nat
      BY <1>0, <1>1 DEF TypeOK
    <3>2. inner[s] <= Cardinality(Taps(s))
      BY DEF IInv, SubscribedByTaps
    <3>3. inner'[s] <= Cardinality(Taps(s)') /\ inner'[s] > 0
      BY <1>4, <1>5, <3>1, <3>2
    <3> QED
      BY <1>0, <2>1, <3>3
  <2>2. CASE t # s
    <3>1. inner'[t] = inner[t] /\ Taps(t)' = Taps(t)
      BY <1>0, <1>1, <1>4, <2>2 DEF TypeOK
    <3> QED
      BY <3>1 DEF IInv, SubscribedByTaps
  <2> QED
    BY <2>1, <2>2
<1>11. SentFilled'
  BY <1>1, <1>3, <1>4 DEF IInv, SentFilled
<1> QED
  BY <1>1, <1>6, <1>7, <1>8, <1>9, <1>10, <1>11 DEF IInv, NeverDangles

LEMMA PushSignUpInv ==
    ASSUME IInv, NEW s \in SignUps, PushSignUp(s)
    PROVE  IInv'
<1>1. /\ stage' = [stage EXCEPT ![s] = "up"] /\ stage[s] = "unborn"
      /\ selfHeld' = [selfHeld EXCEPT ![s] = TRUE]
      /\ UNCHANGED <<filled, enabled, inner, requests, loginTab, main, dangling>>
      /\ s \in Screen /\ s # Login
  BY DEF PushSignUp, LazyInputsHoldSelf, SignUps
<1>2. TypeOK'
  BY <1>1 DEF IInv, TypeOK, Stage
<1>3. AnswersAreShown'
  <2>1. \A r \in DOMAIN requests : requests[r].screen \in Screen
    BY DaoIsAlive
  <2>2. \A t \in Screen : stage[t] = "gone" => stage'[t] = "gone"
    BY <1>1 DEF IInv, TypeOK
  <2>3. \A t : Taps(t)' = Taps(t)
    BY <1>1 DEF Taps
  <2> QED
    BY <1>1, <2>1, <2>2, <2>3 DEF IInv, AnswersAreShown
<1>4. \A t : Taps(t)' = Taps(t)
  BY <1>1 DEF Taps
<1>5. SubscribedByTaps'
  <2> SUFFICES ASSUME NEW t \in Screen
               PROVE  /\ inner[t] <= Cardinality(Taps(t))
                      /\ stage'[t] \in OnStack /\ Taps(t) # {} => inner[t] > 0
                      /\ stage'[t] = "unborn" => Taps(t) = {}
    BY <1>1, <1>4 DEF SubscribedByTaps
  <2> QED
    BY <1>1 DEF IInv, TypeOK, SubscribedByTaps
<1>6. ScreenLife'
  <2>1. stage'[Login] = "up"
    BY <1>1 DEF IInv, ScreenLife, TypeOK
  <2>2. \A t \in Screen : stage'[t] \notin OnStack => inner'[t] = 0
    BY <1>1 DEF IInv, ScreenLife, TypeOK, OnStack
  <2>3. ASSUME NEW t \in Screen, stage'[t] # "unborn"
        PROVE  selfHeld'[t]
    <3>1. CASE t = s
      BY <1>1, <3>1, Zenon DEF IInv, TypeOK
    <3>2. CASE t # s
      <4>1. stage[t] # "unborn"
        BY <1>1, <2>3, <3>2 DEF IInv, TypeOK
      <4>2. selfHeld[t]
        BY <4>1, Zenon DEF IInv, ScreenLife
      <4> QED
        BY <1>1, <3>2, <4>2, Zenon DEF IInv, TypeOK
    <3> QED
      BY <3>1, <3>2
  <2> QED
    BY <2>1, <2>2, <2>3, Zenon DEF ScreenLife
<1> QED
  BY <1>1, <1>2, <1>3, <1>4, <1>5, <1>6
  DEF IInv, NeverDangles, MainOnlyAfterLogin, SentFilled

LEMMA BackInv ==
    ASSUME IInv, NEW s \in SignUps, Back(s)
    PROVE  IInv'
<1>1. /\ stage' = [stage EXCEPT ![s] = "leaving"] /\ stage[s] = "up"
      /\ UNCHANGED <<filled, enabled, inner, selfHeld, requests, loginTab, main, dangling>>
      /\ s \in Screen /\ s # Login
  BY DEF Back, Touchable, SignUps
<1>2. TypeOK'
  BY <1>1 DEF IInv, TypeOK, Stage
<1>3. AnswersAreShown' /\ SubscribedByTaps'
  BY <1>1, <1>2, QuietSteps DEF IInv, TypeOK, OnStack
<1>4. ScreenLife'
  <2>1. /\ stage'[Login] = "up"
        /\ \A t \in Screen : stage'[t] \notin OnStack => inner'[t] = 0
    BY <1>1 DEF IInv, ScreenLife, TypeOK, OnStack
  <2>2. \A t \in Screen : stage'[t] # "unborn" => stage[t] # "unborn"
    BY <1>1 DEF IInv, TypeOK
  <2> QED
    BY <1>1, <2>1, <2>2, Zenon DEF IInv, ScreenLife
<1> QED
  BY <1>1, <1>2, <1>3, <1>4 DEF IInv, NeverDangles, MainOnlyAfterLogin, SentFilled, Taps

LEMMA LeaveInv ==
    ASSUME IInv, NEW s \in SignUps, Leave(s)
    PROVE  IInv'
<1>1. /\ stage' = [stage EXCEPT ![s] = "gone"] /\ stage[s] = "leaving"
      /\ inner' = [inner EXCEPT ![s] = 0]
      /\ UNCHANGED <<filled, enabled, selfHeld, requests, loginTab, main, dangling>>
      /\ s \in Screen /\ s # Login
  BY DEF Leave, Dispose, SignUps
<1>2. TypeOK'
  BY <1>1 DEF IInv, TypeOK, Stage
<1>3. AnswersAreShown' /\ SubscribedByTaps'
  BY <1>1, <1>2, QuietSteps DEF IInv, TypeOK, OnStack
<1>4. ScreenLife'
  <2>1. /\ stage'[Login] = "up"
        /\ \A t \in Screen : stage'[t] \notin OnStack => inner'[t] = 0
    BY <1>1 DEF IInv, ScreenLife, TypeOK, OnStack
  <2>2. \A t \in Screen : stage'[t] # "unborn" => stage[t] # "unborn"
    BY <1>1 DEF IInv, TypeOK
  <2> QED
    BY <1>1, <2>1, <2>2, Zenon DEF IInv, ScreenLife
<1> QED
  BY <1>1, <1>2, <1>3, <1>4 DEF IInv, NeverDangles, MainOnlyAfterLogin, SentFilled, Taps

(* What an answer finds and what it changes: the one screen it was for, if  *)
(* that is on the stack, and the main screen, if it was for the login one.  *)
LEMMA AnswerEffect ==
    ASSUME IInv, NEW r \in DOMAIN requests, NEW answer \in Verdict, Answer(r, answer)
    PROVE  LET s == requests[r].screen
           IN  /\ s \in Screen /\ r \in Taps(s) /\ requests[r].answer = "none"
               /\ requests' = [requests EXCEPT ![r] = Reported(@, answer, inner[s])]
               /\ inner[s] = 0 => stage[s] = "gone" /\ UNCHANGED <<stage, main>>
               /\ inner[s] # 0 => stage[s] \in OnStack
               /\ stage' \in {stage, [stage EXCEPT ![s] = "leaving"]}
               /\ stage' # stage => s # Login
               /\ main' # main => s = Login /\ answer = "success"
               /\ UNCHANGED <<filled, enabled, inner, selfHeld, loginTab, dangling>>
<1> DEFINE s == requests[r].screen
<1>1. s \in Screen /\ DaoAlive(s)
  BY DaoIsAlive
<1>2. r \in Taps(s)
  BY DEF Taps
<1>3. /\ requests[r].answer = "none"
      /\ requests' = [requests EXCEPT ![r] = Reported(@, answer, inner[s])]
      /\ Deliver(s, answer)
      /\ UNCHANGED <<filled, enabled, inner, selfHeld, loginTab, dangling>>
  BY <1>1 DEF Answer
<1> HIDE DEF s
<1>4. inner[s] = 0 => stage[s] = "gone"
  <2>1. stage[s] # "unborn" /\ stage[s] \in Stage
    BY <1>1, <1>2 DEF IInv, TypeOK, SubscribedByTaps
  <2>2. inner[s] = 0 => stage[s] \notin OnStack
    BY <1>1, <1>2 DEF IInv, SubscribedByTaps
  <2> QED
    BY <2>1, <2>2 DEF Stage, OnStack
<1>5. inner[s] # 0 => stage[s] \in OnStack
  BY <1>1 DEF IInv, ScreenLife
<1>6. inner[s] \in Nat
  BY <1>1 DEF IInv, TypeOK
<1>7. /\ inner[s] = 0 => UNCHANGED <<stage, main>>
      /\ stage' \in {stage, [stage EXCEPT ![s] = "leaving"]}
      /\ stage' # stage => s # Login
      /\ main' # main => s = Login /\ answer = "success"
  <2>1. CASE inner[s] = 0 /\ UNCHANGED <<stage, main>>
    BY <2>1
  <2>2. CASE inner[s] > 0 /\ s = Login /\ LoginShows(answer) /\ UNCHANGED stage
    <3>1. answer # "success" => UNCHANGED main
      BY <2>2 DEF LoginShows
    <3> QED
      BY <1>6, <2>2, <3>1
  <2>3. CASE inner[s] > 0 /\ s # Login /\ SignUpShows(s, answer) /\ UNCHANGED main
    <3>1. stage' \in {stage, [stage EXCEPT ![s] = "leaving"]}
      BY <2>3 DEF SignUpShows
    <3> QED
      BY <1>6, <2>3, <3>1
  <2> QED
    BY <1>3, <2>1, <2>2, <2>3 DEF Deliver
<1> QED
  BY <1>1, <1>2, <1>3, <1>4, <1>5, <1>7 DEF s

LEMMA AnswerInv ==
    ASSUME IInv, NEW r \in DOMAIN requests, NEW answer \in Verdict, Answer(r, answer)
    PROVE  IInv'
<1> DEFINE s == requests[r].screen
<1>0. TypeOK
  BY DEF IInv
<1>1. /\ s \in Screen /\ r \in Taps(s) /\ requests[r].answer = "none"
      /\ requests' = [requests EXCEPT ![r] = Reported(@, answer, inner[s])]
      /\ inner[s] = 0 => stage[s] = "gone" /\ UNCHANGED <<stage, main>>
      /\ inner[s] # 0 => stage[s] \in OnStack
      /\ stage' \in {stage, [stage EXCEPT ![s] = "leaving"]}
      /\ stage' # stage => s # Login
      /\ main' # main => s = Login /\ answer = "success"
      /\ UNCHANGED <<filled, enabled, inner, selfHeld, loginTab, dangling>>
  BY AnswerEffect
<1>2. inner[s] \in Nat
  BY <1>0, <1>1 DEF TypeOK
<1>3. /\ requests' \in Seq(Requests) /\ DOMAIN requests' = DOMAIN requests
      /\ \A q \in DOMAIN requests :
           /\ requests'[q].screen = requests[q].screen
           /\ requests'[q].sent = requests[q].sent
           /\ q # r => requests'[q] = requests[q]
      /\ requests'[r].answer = answer /\ requests'[r].shown = inner[s]
      /\ \A t : Taps(t)' = Taps(t)
  BY <1>0, <1>1, <1>2, AnswerRecords
<1> HIDE DEF s
<1>4. TypeOK'
  <2>1. stage' \in [Screen -> Stage]
    BY <1>0, <1>1 DEF TypeOK, Stage
  <2>2. main' \in BOOLEAN
    BY <1>0 DEF Answer, Deliver, LoginShows, TypeOK
  <2> QED
    BY <1>0, <1>1, <1>3, <2>1, <2>2 DEF TypeOK
<1>5. /\ \A t \in Screen : stage[t] = "gone" => stage'[t] = "gone"
      /\ \A t \in Screen : stage'[t] = "unborn" <=> stage[t] = "unborn"
      /\ \A t \in Screen : stage'[t] \in OnStack <=> stage[t] \in OnStack
  BY <1>0, <1>1 DEF TypeOK, OnStack
<1>6. AnswersAreShown'
  <2> SUFFICES ASSUME NEW q \in DOMAIN requests, requests'[q].answer # "none"
               PROVE  /\ requests'[q].shown = 0 => stage'[requests[q].screen] = "gone"
                      /\ requests'[q].shown <= Cardinality(Taps(requests[q].screen))
    BY <1>3 DEF AnswersAreShown
  <2>1. CASE q = r
    <3>1. inner[s] <= Cardinality(Taps(s))
      BY <1>1 DEF IInv, SubscribedByTaps
    <3>2. inner[s] = 0 => stage'[s] = "gone"
      BY <1>1
    <3> QED
      BY <1>3, <2>1, <3>1, <3>2 DEF s
  <2>2. CASE q # r
    <3>1. requests[q].screen \in Screen
      BY DaoIsAlive
    <3> QED
      BY <1>3, <1>5, <2>2, <3>1 DEF IInv, AnswersAreShown
  <2> QED
    BY <2>1, <2>2
<1>7. MainOnlyAfterLogin'
  <2> SUFFICES ASSUME main'
               PROVE  \E q \in Taps(Login) :
                         requests'[q].answer = "success" /\ requests'[q].sent = Fields
    BY <1>3 DEF MainOnlyAfterLogin
  <2>1. CASE main
    <3>1. PICK q \in Taps(Login) :
               requests[q].answer = "success" /\ requests[q].sent = Fields
      BY <2>1 DEF IInv, MainOnlyAfterLogin
    <3>2. q # r /\ q \in DOMAIN requests
      BY <1>1, <3>1 DEF Taps
    <3> QED
      BY <1>3, <3>1, <3>2
  <2>2. CASE ~main
    <3>1. s = Login /\ answer = "success"
      BY <1>1, <2>2
    <3>2. requests[r].sent = Fields
      BY DEF IInv, SentFilled
    <3> QED
      BY <1>1, <1>3, <3>1, <3>2
  <2> QED
    BY <2>1, <2>2
<1>8. ScreenLife'
  <2>1. stage'[Login] = "up"
    <3>1. CASE stage' = stage
      BY <3>1 DEF IInv, ScreenLife
    <3>2. CASE stage' # stage
      <4>1. s # Login /\ stage' = [stage EXCEPT ![s] = "leaving"]
        BY <1>1, <3>2
      <4>2. Login \in Screen
        BY BoundsAssumption DEF Login, Screen
      <4> QED
        BY <1>0, <4>1, <4>2 DEF IInv, ScreenLife, TypeOK
    <3> QED
      BY <3>1, <3>2
  <2>2. \A t \in Screen : stage'[t] \notin OnStack => inner'[t] = 0
    BY <1>1, <1>5 DEF IInv, ScreenLife
  <2>3. \A t \in Screen : stage'[t] # "unborn" => selfHeld'[t]
    BY <1>1, <1>5, Zenon DEF IInv, ScreenLife
  <2> QED
    BY <2>1, <2>2, <2>3, Zenon DEF ScreenLife
<1>9. SubscribedByTaps'
  BY <1>1, <1>3, <1>5 DEF IInv, SubscribedByTaps
<1>10. SentFilled'
  BY <1>1, <1>3 DEF IInv, SentFilled
<1> QED
  BY <1>1, <1>4, <1>6, <1>7, <1>8, <1>9, <1>10 DEF IInv, NeverDangles

LEMMA NextInv == IInv /\ [Next]_vars => IInv'
<1> SUFFICES ASSUME IInv, [Next]_vars PROVE IInv'
  OBVIOUS
<1>1. ASSUME NEW s \in Screen, Tap(s)
      PROVE  IInv'
  BY <1>1, TapInv
<1>2. ASSUME NEW s \in Screen, NEW fields \in SUBSET Fields, Edit(s, fields)
      PROVE  IInv'
  BY <1>2, EditInv
<1>3. ASSUME NEW s \in SignUps, PushSignUp(s)
      PROVE  IInv'
  BY <1>3, PushSignUpInv
<1>4. ASSUME NEW s \in SignUps, Back(s)
      PROVE  IInv'
  BY <1>4, BackInv
<1>5. ASSUME NEW s \in SignUps, Leave(s)
      PROVE  IInv'
  BY <1>5, LeaveInv
<1>6. ASSUME NEW r \in DOMAIN requests, NEW answer \in Verdict, Answer(r, answer)
      PROVE  IInv'
  BY <1>6, AnswerInv
<1>7. CASE SwitchTab \/ UNCHANGED vars
  <2>1. /\ UNCHANGED <<stage, filled, enabled, inner, selfHeld, requests, main, dangling>>
        /\ loginTab' \in BOOLEAN
    BY <1>7 DEF SwitchTab, vars, IInv, TypeOK
  <2>2. \A t : Taps(t)' = Taps(t)
    BY <2>1 DEF Taps
  <2> QED
    BY <2>1, <2>2
    DEF IInv, TypeOK, NeverDangles, AnswersAreShown, MainOnlyAfterLogin, ScreenLife,
        SubscribedByTaps, SentFilled
<1> QED
  BY <1>1, <1>2, <1>3, <1>4, <1>5, <1>6, <1>7 DEF Next

(* The invariant holds in every behaviour. *)
THEOREM Invariance == Spec => []IInv
BY InitInv, NextInv, PTL DEF Spec

(* Every variable keeps its type. *)
THEOREM TypeCorrectness == Spec => []TypeOK
BY Invariance, PTL DEF IInv

(* No callback of Firebase ever meets a deallocated DAO. *)
THEOREM CallbackSafety == Spec => []NeverDangles
BY Invariance, PTL DEF IInv

(* Answers are lost only on screens that are gone, and are shown at most    *)
(* once per tap.                                                            *)
THEOREM AnswerCorrectness == Spec => []AnswersAreShown
BY Invariance, PTL DEF IInv

(* The main screen follows a successful, complete login. *)
THEOREM LoginCorrectness == Spec => []MainOnlyAfterLogin
BY Invariance, PTL DEF IInv

(* An answer changes requests only through the one it is for.               *)
LEMMA OnlyAnswerAnswers ==
    ASSUME IInv, [Next]_vars, NEW r \in DOMAIN requests,
           requests[r].answer # requests'[r].answer
    PROVE  \E answer \in Verdict : Answer(r, answer)
<1> USE DEF IInv
<1>1. UNCHANGED requests => FALSE
  OBVIOUS
<1>2. ASSUME NEW s \in Screen, Tap(s)
      PROVE  FALSE
  <2>1. requests'[r] = requests[r]
    BY <1>2 DEF Tap, NewRequest, TypeOK
  <2> QED
    BY <2>1
<1>3. ASSUME NEW q \in DOMAIN requests, NEW answer \in Verdict, Answer(q, answer)
      PROVE  q = r
  <2>1. \/ UNCHANGED requests
        \/ requests' = [requests EXCEPT ![q] =
                          Reported(@, answer, inner[requests[q].screen])]
    BY <1>3 DEF Answer
  <2>2. q # r => requests'[r] = requests[r]
    BY <2>1 DEF TypeOK
  <2> QED
    BY <2>2
<1> QED
  BY <1>1, <1>2, <1>3
  DEF Next, vars, Edit, PushSignUp, Back, Leave, SwitchTab

(* A screen that is gone shows no answer, and none of its answers moves     *)
(* another screen.                                                          *)
THEOREM SilenceOfGoneScreens == Spec => GoneScreensAreSilent
<1>1. ASSUME IInv, [Next]_vars, NEW r \in DOMAIN requests,
             requests[r].answer # requests'[r].answer,
             stage[requests[r].screen] = "gone"
      PROVE  requests'[r].shown = 0 /\ UNCHANGED <<stage, main>>
  <2> DEFINE s == requests[r].screen
  <2>1. PICK answer \in Verdict : Answer(r, answer)
    BY <1>1, OnlyAnswerAnswers
  <2>2. /\ requests' = [requests EXCEPT ![r] = Reported(@, answer, inner[s])]
        /\ inner[s] = 0 => UNCHANGED <<stage, main>>
        /\ inner[s] # 0 => stage[s] \in OnStack
    BY <1>1, <2>1, AnswerEffect
  <2>3. inner[s] = 0
    BY <1>1, <2>2 DEF OnStack
  <2>4. requests'[r].shown = 0
    <3>1. requests' = [requests EXCEPT ![r] = Reported(@, answer, 0)]
      BY <2>2, <2>3
    <3> QED
      BY <1>1, <3>1, AnswerRecords DEF IInv
  <2> QED
    BY <2>2, <2>3, <2>4
<1>2. IInv /\ [Next]_vars
        => [\A r \in DOMAIN requests :
              /\ requests[r].answer # requests'[r].answer
              /\ stage[requests[r].screen] = "gone"
              => requests'[r].shown = 0 /\ UNCHANGED <<stage, main>>]_vars
  BY <1>1
<1> QED
  BY <1>2, Invariance, PTL DEF Spec, GoneScreensAreSilent
=============================================================================
