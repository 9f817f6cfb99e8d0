-------------------------- MODULE MainScreenProofs --------------------------
(***************************************************************************)
(* Proofs about MainScreen.tla, for any texts and any number of pages.     *)
(***************************************************************************)
EXTENDS MainScreen, TLAPS

(* A process starts with nothing observed, and the label is read once,      *)
(* right after.                                                             *)
LabelIsBlank ==
    /\ label = EmptyText
    /\ ~main => observing = {} /\ value = [o \in Observer |-> EmptyText]

(* What waits to be sent was in the field at a tap, and the button is only  *)
(* there for a text.                                                        *)
OutboxIsTapped ==
    /\ enabled => text # EmptyText
    /\ \A i \in 1 .. Len(outbox) : outbox[i] \in tapped \ {EmptyText}

IInv == TypeOK /\ LabelIsBlank /\ OutboxIsTapped /\ LastTapIsOnItsWay

-----------------------------------------------------------------------------
(* A fresh process has neither screen, text nor observer.                   *)
LEMMA InitInv == Init => IInv
<1> SUFFICES ASSUME Init PROVE IInv
  OBVIOUS
<1>1. value \in [Observer -> Text] /\ 0 \in 0 .. MaxPages /\ <<>> \in Seq(Text)
  BY TextAssumption, MaxPagesAssumption DEF Init
<1>2. TypeOK
  BY <1>1, TextAssumption DEF Init, TypeOK
<1>3. LabelIsBlank /\ OutboxIsTapped /\ LastTapIsOnItsWay
  BY DEF Init, LabelIsBlank, OutboxIsTapped, LastTapIsOnItsWay
<1> QED  BY <1>2, <1>3 DEF IInv

(* The main screen opens: getValue returns what its variable began with.    *)
LEMMA OpenStep ==
    ASSUME IInv, Open
    PROVE  IInv'
<1>1. 0 \in Observer
  BY MaxPagesAssumption DEF Observer
<1>2. TypeOK' /\ LabelIsBlank'
  BY <1>1, TextAssumption DEF Open, Got, IInv, TypeOK, LabelIsBlank, database, history
<1>3. OutboxIsTapped' /\ LastTapIsOnItsWay'
  BY DEF Open, IInv, OutboxIsTapped, LastTapIsOnItsWay, database, history
<1> QED  BY <1>2, <1>3 DEF IInv

(* A keystroke: the button follows the text.                                *)
LEMMA TypeStep ==
    ASSUME IInv, NEW t \in Text, Type(t)
    PROVE  IInv'
<1>1. TypeOK' /\ LabelIsBlank'
  BY DEF Type, Enables, IInv, TypeOK, LabelIsBlank, database, history
<1>2. OutboxIsTapped' /\ LastTapIsOnItsWay'
  BY DEF Type, Enables, IInv, OutboxIsTapped, LastTapIsOnItsWay, database, history
<1> QED  BY <1>1, <1>2 DEF IInv

(* A tap: the text in the field waits to be sent, and is recorded.          *)
LEMMA TapStep ==
    ASSUME IInv, Tap
    PROVE  IInv'
<1>1. /\ outbox' = Append(outbox, text) /\ outbox \in Seq(Text) /\ text \in Text
      /\ tapped' = tapped \union {text} /\ text # EmptyText
  BY DEF Tap, Posted, IInv, TypeOK, OutboxIsTapped
<1>2. outbox' \in Seq(Text) /\ \A i \in 1 .. Len(outbox') : outbox'[i] \in tapped' \ {EmptyText}
  BY <1>1 DEF IInv, OutboxIsTapped
<1>3. pages' \in Observer
  BY MaxPagesAssumption DEF Tap, IInv, TypeOK, Observer
<1>4. TypeOK' /\ LabelIsBlank'
  BY <1>1, <1>2, <1>3 DEF Tap, IInv, TypeOK, LabelIsBlank, Observer
<1>5. OutboxIsTapped'
  BY <1>1, <1>2 DEF Tap, IInv, OutboxIsTapped
<1>6. LastTapIsOnItsWay'
  <2>1. outbox' # <<>> /\ outbox'[Len(outbox')] = text /\ last' = text
    BY <1>1 DEF Tap
  <2> QED  BY <2>1 DEF LastTapIsOnItsWay
<1> QED  BY <1>4, <1>5, <1>6 DEF IInv

(* The client brings a value, to a variable that nobody reads any more.     *)
LEMMA ObserveStep ==
    ASSUME IInv, NEW o \in Observer, Observe(o)
    PROVE  IInv'
<1>1. TypeOK' /\ LabelIsBlank'
  BY DEF Observe, IInv, TypeOK, LabelIsBlank, screen, database, history
<1>2. OutboxIsTapped' /\ LastTapIsOnItsWay'
  BY DEF Observe, IInv, OutboxIsTapped, LastTapIsOnItsWay, screen, database, history
<1> QED  BY <1>1, <1>2 DEF IInv

(* The client sends the first write; the last to be sent stays the last.    *)
LEMMA SendStep ==
    ASSUME IInv, Send
    PROVE  IInv' /\ user01' \in tapped \ {EmptyText}
<1>1. /\ outbox \in Seq(Text) /\ outbox # <<>>
      /\ outbox' = Tail(outbox) /\ user01' = Head(outbox)
      /\ tapped' = tapped /\ enabled' = enabled /\ text' = text
      /\ \A i \in 1 .. Len(outbox) : outbox[i] \in tapped \ {EmptyText}
  BY DEF Send, IInv, TypeOK, OutboxIsTapped, screen, history
<1>2. /\ outbox' \in Seq(Text) /\ user01' \in Text /\ user01' \in tapped \ {EmptyText}
      /\ \A i \in 1 .. Len(outbox') : outbox'[i] \in tapped \ {EmptyText}
  BY <1>1
<1>3. TypeOK' /\ LabelIsBlank'
  BY <1>2 DEF Send, IInv, TypeOK, LabelIsBlank, screen, history
<1>4. OutboxIsTapped'
  BY <1>1, <1>2 DEF IInv, OutboxIsTapped
<1>5. ASSUME last # EmptyText
      PROVE  /\ outbox' # <<>> => outbox'[Len(outbox')] = last
             /\ outbox' = <<>> => user01' = last
  <2>1. outbox[Len(outbox)] = last
    BY <1>1, <1>5 DEF IInv, LastTapIsOnItsWay
  <2>2. outbox' # <<>> => outbox'[Len(outbox')] = outbox[Len(outbox)]
    BY <1>1
  <2>3. outbox' = <<>> => Len(outbox) = 1
    <3>1. Len(outbox') = Len(outbox) - 1 /\ Len(outbox) \in Nat
      BY <1>1
    <3>2. outbox' = <<>> => Len(outbox') = 0
      OBVIOUS
    <3> QED  BY <3>1, <3>2
  <2> QED  BY <1>1, <2>1, <2>2, <2>3
<1>6. LastTapIsOnItsWay'
  BY <1>1, <1>5 DEF Send, LastTapIsOnItsWay, history
<1> QED  BY <1>2, <1>3, <1>4, <1>6 DEF IInv

(* The process ends: memory is as at the start.                             *)
LEMMA KillStep ==
    ASSUME IInv, Kill
    PROVE  IInv'
<1>1. value' \in [Observer -> Text] /\ 0 \in 0 .. MaxPages /\ <<>> \in Seq(Text)
  BY TextAssumption, MaxPagesAssumption DEF Kill
<1>2. TypeOK'
  BY <1>1, TextAssumption DEF Kill, IInv, TypeOK
<1>3. LabelIsBlank' /\ OutboxIsTapped' /\ LastTapIsOnItsWay'
  BY DEF Kill, LabelIsBlank, OutboxIsTapped, LastTapIsOnItsWay
<1> QED  BY <1>2, <1>3 DEF IInv

(* The rest leaves alone what the invariant is about.                       *)
LEMMA OtherStep ==
    ASSUME IInv, Back \/ (\E t \in Text : Change(t)) \/ UNCHANGED vars
    PROVE  IInv'
<1>1. TypeOK' /\ LabelIsBlank'
  BY DEF Back, Change, IInv, TypeOK, LabelIsBlank, vars, screen, database, history
<1>2. OutboxIsTapped' /\ LastTapIsOnItsWay'
  BY DEF Back, Change, IInv, OutboxIsTapped, LastTapIsOnItsWay, vars, screen, database,
         history
<1> QED  BY <1>1, <1>2 DEF IInv

-----------------------------------------------------------------------------
(* Every step keeps the invariant, and only a send changes the database     *)
(* under user/01.                                                           *)
LEMMA NextInv ==
    ASSUME IInv, [Next]_vars
    PROVE  IInv' /\ (user01' # user01 => user01' \in tapped \ {EmptyText})
<1>1. CASE Send
  BY <1>1, SendStep
<1>2. CASE Open \/ Tap \/ Kill
  BY <1>2, OpenStep, TapStep, KillStep DEF Open, Tap, Kill, database
<1>3. CASE \E t \in Text : Type(t)
  BY <1>3, TypeStep DEF Type, database
<1>4. CASE \E o \in Observer : Observe(o)
  BY <1>4, ObserveStep DEF Observe, database
<1>5. CASE Back \/ (\E t \in Text : Change(t)) \/ UNCHANGED vars
  BY <1>5, OtherStep DEF Back, Change, vars, database
<1> QED  BY <1>1, <1>2, <1>3, <1>4, <1>5 DEF Next

(* The inductive invariant holds throughout.                                *)
THEOREM Invariance == Spec => []IInv
  BY InitInv, NextInv, PTL DEF Spec

(* Every variable keeps its type, for any texts and any number of pages.    *)
THEOREM TypeCorrectness == Spec => []TypeOK
<1>1. IInv => TypeOK
  BY DEF IInv
<1> QED  BY <1>1, Invariance, PTL

(* Whatever the database holds or becomes, no page ever shows it.           *)
THEOREM PageCorrectness == Spec => []PageStaysBlank
<1>1. IInv => PageStaysBlank
  BY DEF IInv, LabelIsBlank, PageStaysBlank
<1> QED  BY <1>1, Invariance, PTL

(* Only texts that were tapped are ever written, whatever is typed, killed  *)
(* or started again between the tap and the write; and no tap is lost or    *)
(* overtaken while the process lives.  These are this client's own writes,  *)
(* which the server accepts.                                                *)
THEOREM WriteCorrectness == Spec => WritesWhatWasTapped
<1>1. IInv /\ [Next]_vars =>
        [/\ user01' # user01 => user01' \in tapped \ {EmptyText}
         /\ LastTapIsOnItsWay']_vars
  BY NextInv DEF IInv
<1> QED  BY <1>1, Invariance, PTL DEF Spec, WritesWhatWasTapped
=============================================================================
