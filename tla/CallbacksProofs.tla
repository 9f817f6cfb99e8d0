--------------------------- MODULE CallbacksProofs ---------------------------
(***************************************************************************)
(* Proofs about Callbacks.tla, for any number of callbacks and changes.    *)
(***************************************************************************)
EXTENDS Callbacks, SequenceTheorems, TLAPS

(* A callback is in the vector once, and was given its token before.        *)
Distinct ==
    /\ \A i \in DOMAIN m_callbacks : m_callbacks[i] < nextToken
    /\ \A i, j \in DOMAIN m_callbacks : m_callbacks[i] = m_callbacks[j] => i = j
    /\ packaged \subseteq 1 .. nextToken - 1

(* The index is inside the vector, and npos when nothing is iterated.       *)
Indexed ==
    /\ ~outOfRange => m_callback_index < Len(m_callbacks)
    /\ calling # NoToken => phase \in {"before", "after", "error"}
    /\ phase \in {"idle", "between", "sizing"} => m_callback_index = npos

(* The size that was read is still right, and what is called was packaged.  *)
Counted ==
    /\ phase = "sizing" /\ ~strayed => size = Len(m_callbacks) /\ packaged = Registered
    /\ calling # NoToken /\ ~strayed => calling \in packaged
    /\ outOfRange => strayed

(* What a callback knows was brought, and none that is not yet there knows  *)
(* any of it.                                                               *)
Brought ==
    \A t \in Token :
        /\ since[t] \subseteq 1 .. ran
        /\ t >= nextToken =>
             accumulated[t] = {} /\ toDeliver[t] = {} /\ got[t] = {} /\ since[t] = {}

(* Nothing is left packaged of what is not sent, nor behind the index.      *)
Drained ==
    ~strayed =>
        /\ \A t \in Registered : phase \in {"idle", "sizing", "error"} \/ t \notin packaged =>
                                  toDeliver[t] = {}
        /\ phase = "after" =>
             \A i \in DOMAIN m_callbacks :
                 i <= m_callback_index + 1 => toDeliver[m_callbacks[i]] = {}

ToldInv == Brought /\ Drained /\ EachChangeOnce

-----------------------------------------------------------------------------
(* What is taken from the vector, and what is left.                         *)
LEMMA RemoveAtIs ==
    ASSUME NEW S, NEW s \in Seq(S), NEW i \in 1 .. Len(s)
    PROVE  /\ RemoveAt(s, i) \in Seq(S)
           /\ Len(RemoveAt(s, i)) = Len(s) - 1
           /\ \A j \in 1 .. Len(s) - 1 :
                RemoveAt(s, i)[j] = IF j < i THEN s[j] ELSE s[j + 1]
<1> DEFINE a == SubSeq(s, 1, i - 1)
           b == SubSeq(s, i + 1, Len(s))
<1>1. Len(s) \in Nat
  OBVIOUS
<1>2. a \in Seq(S) /\ Len(a) = i - 1 /\ \A j \in 1 .. i - 1 : a[j] = s[j]
  BY <1>1, SubSeqProperties
<1>3. b \in Seq(S) /\ Len(b) = Len(s) - i /\ \A j \in 1 .. Len(s) - i : b[j] = s[j + i]
  BY <1>1, SubSeqProperties
<1>4. RemoveAt(s, i) = a \o b
  BY DEF RemoveAt
<1> HIDE DEF a, b
<1>5. a \o b \in Seq(S) /\ Len(a \o b) = Len(a) + Len(b)
      /\ \A j \in 1 .. Len(a) + Len(b) : (a \o b)[j] = IF j <= Len(a) THEN a[j] ELSE b[j - Len(a)]
  BY <1>2, <1>3, ConcatProperties
<1> QED  BY <1>1, <1>2, <1>3, <1>4, <1>5

(* A callback is taken from its position, and those behind it move up.      *)
LEMMA WithoutIs ==
    ASSUME TypeOK, NEW t \in Registered
    PROVE  /\ Position(t) \in 1 .. Len(m_callbacks) /\ m_callbacks[Position(t)] = t
           /\ Without(t) \in Seq(Token)
           /\ Len(Without(t)) = Len(m_callbacks) - 1
           /\ \A j \in 1 .. Len(m_callbacks) - 1 :
                Without(t)[j] = IF j < Position(t) THEN m_callbacks[j] ELSE m_callbacks[j + 1]
<1>1. m_callbacks \in Seq(Token) /\ DOMAIN m_callbacks = 1 .. Len(m_callbacks)
  BY DEF TypeOK
<1>2. Position(t) \in DOMAIN m_callbacks /\ m_callbacks[Position(t)] = t
  BY DEF Registered, Position
<1> QED  BY <1>1, <1>2, RemoveAtIs DEF Without

(* The vector, as its elements.                                             *)
LEMMA ListTyped ==
    ASSUME TypeOK
    PROVE  /\ m_callbacks \in Seq(Token) /\ Len(m_callbacks) \in Nat
           /\ DOMAIN m_callbacks = 1 .. Len(m_callbacks)
           /\ \A i \in 1 .. Len(m_callbacks) :
                m_callbacks[i] \in Token /\ m_callbacks[i] \in Registered
           /\ Registered \subseteq Token
           /\ m_callbacks # <<>> <=> Len(m_callbacks) # 0
<1>1. m_callbacks \in Seq(Token)
  BY DEF TypeOK
<1>2. Len(m_callbacks) \in Nat /\ DOMAIN m_callbacks = 1 .. Len(m_callbacks)
  BY <1>1
<1>3. \A i \in 1 .. Len(m_callbacks) : m_callbacks[i] \in Token
  BY <1>1
<1>4. m_callbacks # <<>> <=> Len(m_callbacks) # 0
  BY <1>1, EmptySeq
<1> QED  BY <1>1, <1>2, <1>3, <1>4 DEF Registered

(* A step of the vector by which a callback goes.                           *)
Goes(t, p) ==
    /\ p \in 1 .. Len(m_callbacks) /\ m_callbacks[p] = t
    /\ m_callbacks' \in Seq(Token)
    /\ Len(m_callbacks') = Len(m_callbacks) - 1
    /\ \A j \in 1 .. Len(m_callbacks) - 1 :
         m_callbacks'[j] = IF j < p THEN m_callbacks[j] ELSE m_callbacks[j + 1]
    /\ m_callback_index' = IF m_callback_index # npos /\ m_callback_index >= p - 1
                           THEN m_callback_index - 1 ELSE m_callback_index
    /\ m_callback_count' = m_callback_count - 1
    /\ m_have_callbacks' = (m_callbacks' # <<>>)

(* So it is when a token is dropped.                                        *)
LEMMA RemovedGoes ==
    ASSUME TypeOK, NEW t \in Registered, Removed(t)
    PROVE  \E p \in 1 .. Len(m_callbacks) : Goes(t, p)
<1>1. Position(t) \in 1 .. Len(m_callbacks) /\ Goes(t, Position(t))
  BY WithoutIs DEF Removed, Goes, Offset
<1> QED  BY <1>1

(* A step of the vector by which a callback is added.                       *)
LEMMA AppendIs ==
    ASSUME TypeOK, NEW t \in Token, m_callbacks' = Append(m_callbacks, t)
    PROVE  /\ m_callbacks' \in Seq(Token)
           /\ Len(m_callbacks') = Len(m_callbacks) + 1
           /\ m_callbacks' # <<>>
           /\ \A j \in 1 .. Len(m_callbacks) : m_callbacks'[j] = m_callbacks[j]
           /\ m_callbacks'[Len(m_callbacks) + 1] = t
<1>1. m_callbacks \in Seq(Token)
  BY DEF TypeOK
<1>2. Append(m_callbacks, t) # <<>>
  BY <1>1, AppendProperties
<1>3. m_callbacks' \in Seq(Token) /\ Len(m_callbacks') = Len(m_callbacks) + 1
  BY <1>1, AppendProperties
<1>4. \A j \in 1 .. Len(m_callbacks) + 1 :
          m_callbacks'[j] = IF j <= Len(m_callbacks) THEN m_callbacks[j] ELSE t
  BY <1>1, AppendProperties
<1> QED  BY <1>1, <1>2, <1>3, <1>4

-----------------------------------------------------------------------------
(* Types                                                                    *)

(* What the loop does: it ends, runs past the end, or calls somebody.       *)
LoopEnds ==
    /\ Stops = {}
    /\ m_callback_index' = npos /\ phase' = Following
    /\ UNCHANGED <<told, calling, outOfRange>>
LoopStrays(i) ==
    /\ i = Len(m_callbacks) /\ m_callback_index' = i /\ outOfRange' = TRUE
    /\ UNCHANGED <<told, calling, phase>>
LoopCalls(i) ==
    /\ i # Len(m_callbacks) /\ m_callback_index' = i
    /\ calling' = m_callbacks[i + 1]
    /\ IF phase = "after"
       THEN Tell(m_callbacks[i + 1]) /\ UNCHANGED <<accumulated, since>>
       ELSE UNCHANGED told
    /\ UNCHANGED <<outOfRange, phase>>

(* What the loop of for_each_callback does next.                            *)
LEMMA LoopIs ==
    ASSUME Loop
    PROVE  /\ ~outOfRange /\ calling = NoToken /\ phase \in {"before", "after", "error"}
           /\ UNCHANGED <<m_callbacks, m_callback_count, m_have_callbacks, size, packaged,
                          work, nextToken, early, strayed>>
           /\ \/ LoopEnds
              \/ \E i \in Stops : /\ \A j \in Stops : i <= j
                                  /\ LoopStrays(i) \/ LoopCalls(i)
  BY DEF Loop, LoopEnds, LoopStrays, LoopCalls

(* The offset at which it stops is in the vector, or the one past its end.  *)
LEMMA StopsAre ==
    ASSUME TypeOK, NEW i \in Stops
    PROVE  /\ i \in Nat /\ i > m_callback_index /\ i <= Len(m_callbacks)
           /\ m_callback_count < 0 \/ i < m_callback_count
           /\ i # Len(m_callbacks) => m_callbacks[i + 1] \in Token
  BY ListTyped DEF Stops, Ahead, TypeOK, npos

(* Each of the three keeps the types.                                       *)
LEMMA LoopTyped ==
    ASSUME TypeOK, Loop
    PROVE  TypeOK'
<1> USE LoopIs
<1>1. CASE LoopEnds
  BY <1>1 DEF LoopEnds, TypeOK, told, work, npos, Following
<1>2. ASSUME NEW i \in Stops, LoopStrays(i)
      PROVE  TypeOK'
  BY <1>2, StopsAre DEF LoopStrays, TypeOK, told, work, npos
<1>3. ASSUME NEW i \in Stops, LoopCalls(i)
      PROVE  TypeOK'
  <2>1. i \in Nat /\ m_callbacks[i + 1] \in Token
    BY <1>3, StopsAre DEF LoopCalls
  <2>2. CASE phase = "after"
    <3>1. /\ initialDelivered' \subseteq Token
          /\ got' \in [Token -> SUBSET Change] /\ toDeliver' \in [Token -> SUBSET Change]
      BY <1>3, <2>1, <2>2 DEF LoopCalls, Tell, TypeOK
    <3> QED  BY <1>3, <2>1, <2>2, <3>1 DEF LoopCalls, TypeOK, work, npos
  <2>3. CASE phase # "after"
    BY <1>3, <2>1, <2>3 DEF LoopCalls, TypeOK, told, work, npos
  <2> QED  BY <2>2, <2>3
<1> QED  BY <1>1, <1>2, <1>3

(* So does the removal of a callback ...                                    *)
LEMMA RemovedTyped ==
    ASSUME TypeOK, NEW t \in Registered, Removed(t)
    PROVE  /\ m_callbacks' \in Seq(Token)
           /\ m_callback_index' \in Int /\ m_callback_index' >= npos
           /\ m_callback_count' \in Int /\ m_have_callbacks' \in BOOLEAN
<1>1. PICK p \in 1 .. Len(m_callbacks) : Goes(t, p)
  BY RemovedGoes
<1> QED  BY <1>1, ListTyped DEF Goes, TypeOK, npos

(* ... what a run finds is a set of changes ...                             *)
LEMMA FreshTyped ==
    ASSUME TypeOK
    PROVE  Fresh \subseteq Change
  BY BoundsAssumption DEF Fresh, TypeOK, Change, npos

(* ... and packaging and reading the size keep the types.                   *)
LEMMA PackageTyped ==
    ASSUME TypeOK, NEW next \in {"before", "after"}, Package(next), posted' \in BOOLEAN
    PROVE  TypeOK'
<1>1. toDeliver' \in [Token -> SUBSET Change] /\ accumulated' \in [Token -> SUBSET Change]
  BY DEF Package, TypeOK
<1> QED  BY <1>1, ListTyped DEF Package, TypeOK, npos

(* The size that is read is a number.                                       *)
LEMMA ReadSizeTyped ==
    ASSUME TypeOK, ReadSize, posted' \in BOOLEAN
    PROVE  TypeOK'
  BY ListTyped DEF ReadSize, TypeOK, npos, list, told

(* The types are kept by every step ...                                     *)
LEMMA StepTyped ==
    ASSUME TypeOK, [Next]_vars
    PROVE  TypeOK'
<1>1. CASE AddCallback
  <2>1. nextToken \in Token /\ m_callbacks' \in Seq(Token)
    BY <1>1, AppendIs DEF AddCallback
  <2>2. nextToken' \in 1 .. MaxTokens + 1 /\ early' \subseteq Token
    BY <1>1, <2>1, BoundsAssumption DEF AddCallback, TypeOK, Token
  <2> QED  BY <1>1, <2>1, <2>2 DEF AddCallback, TypeOK, told, stage
<1>2. ASSUME NEW t \in Token, RemoveCallback(t)
      PROVE  TypeOK'
  <2>1. t \in Registered /\ Removed(t)
    BY <1>2 DEF RemoveCallback
  <2> QED  BY <1>2, <2>1, RemovedTyped DEF RemoveCallback, TypeOK, told, stage, work
<1>3. CASE Commit
  BY <1>3, BoundsAssumption DEF Commit, TypeOK, list, told, stage, npos
<1>4. CASE WakeUp
  BY <1>4 DEF WakeUp, TypeOK, list, told, stage
<1>5. CASE Fail
  BY <1>5 DEF Fail, TypeOK, list, told, stage
<1>6. CASE Run
  <2>1. accumulated' \in [Token -> SUBSET Change] /\ since' \in [Token -> SUBSET Change]
    BY <1>6, FreshTyped DEF Run, TypeOK
  <2>2. changes' \in 0 .. MaxChanges /\ ran' \in npos .. changes'
    BY <1>6, BoundsAssumption DEF Run, TypeOK, npos
  <2> QED  BY <1>6, <2>1, <2>2 DEF Run, TypeOK, list, stage
<1>7. CASE Notify
  BY <1>7, PackageTyped, ReadSizeTyped DEF Notify
<1>8. CASE Advance
  <2>1. posted' \in BOOLEAN
    BY <1>8 DEF Advance, TypeOK
  <2> QED  BY <1>8, <2>1, PackageTyped, ReadSizeTyped DEF Advance
<1>9. CASE Loop
  BY <1>9, LoopTyped
<1>10. CASE Return
  <2>1. CASE phase = "error" /\ calling \in Registered
    BY <1>10, <2>1, RemovedTyped DEF Return, TypeOK, told, work
  <2>2. CASE ~(phase = "error" /\ calling \in Registered)
    BY <1>10, <2>2 DEF Return, TypeOK, list, told, work
  <2> QED  BY <2>1, <2>2
<1>11. CASE Deliver
  BY <1>11 DEF Deliver, TypeOK, list, told, work
<1>12. CASE StoreCount
  BY <1>12 DEF StoreCount, TypeOK, told, work
<1>13. CASE UNCHANGED vars
  BY <1>13 DEF vars, TypeOK, list, told, stage, work
<1> QED
  BY <1>1, <1>2, <1>3, <1>4, <1>5, <1>6, <1>7, <1>8, <1>9, <1>10, <1>11, <1>12, <1>13
     DEF Next, Sending

(* ... and hold at first.                                                   *)
LEMMA InitTyped == Init => TypeOK
<1> SUFFICES ASSUME Init PROVE TypeOK
  OBVIOUS
<1>1. m_callbacks \in Seq(Token)
  BY EmptySeq DEF Init
<1>2. \A f : f = [t \in Token |-> {}] => f \in [Token -> SUBSET Change]
  OBVIOUS
<1>3. nextToken \in 1 .. MaxTokens + 1 /\ changes \in 0 .. MaxChanges /\ ran \in npos .. changes
  BY BoundsAssumption DEF Init, npos
<1>4. /\ accumulated \in [Token -> SUBSET Change] /\ toDeliver \in [Token -> SUBSET Change]
      /\ got \in [Token -> SUBSET Change] /\ since \in [Token -> SUBSET Change]
  BY <1>2 DEF Init
<1>5. m_callback_index \in Int /\ m_callback_index >= npos /\ m_callback_count \in Int
  BY DEF Init, npos
<1> QED  BY <1>1, <1>3, <1>4, <1>5 DEF Init, TypeOK

(* The types hold in every state. *)
THEOREM TypeCorrectness == Spec => []TypeOK
  BY InitTyped, StepTyped, PTL DEF Spec

-----------------------------------------------------------------------------
(* The vector and the index                                                 *)

(* What a step does to the vector.                                          *)
Lists ==
    \/ /\ m_callbacks' = m_callbacks /\ nextToken' = nextToken
       /\ m_have_callbacks' = m_have_callbacks
       /\ packaged' \in {packaged, Registered}
    \/ AddCallback
    \/ \E t \in Registered : Removed(t) /\ nextToken' = nextToken /\ packaged' = packaged

(* The vector and the flag change when callbacks come and go, and then only.*)
LEMMA StepLists ==
    ASSUME TypeOK, [Next]_vars
    PROVE  Lists
<1>1. CASE AddCallback
  BY <1>1 DEF Lists
<1>2. ASSUME NEW t \in Token, RemoveCallback(t)
      PROVE  Lists
  BY <1>2 DEF Lists, RemoveCallback, stage
<1>3. CASE Commit \/ WakeUp \/ Fail \/ Run
  BY <1>3 DEF Lists, Commit, WakeUp, Fail, Run, list, stage
<1>4. CASE Notify \/ Advance
  BY <1>4 DEF Lists, Notify, Advance, Package, ReadSize, list
<1>5. CASE Loop \/ Deliver \/ StoreCount
  BY <1>5 DEF Lists, Loop, Deliver, StoreCount, list, stage
<1>6. CASE Return
  BY <1>6 DEF Lists, Return, list
<1>7. CASE UNCHANGED vars
  BY <1>7 DEF Lists, vars, list, stage
<1> QED  BY <1>1, <1>2, <1>3, <1>4, <1>5, <1>6, <1>7 DEF Next, Sending

(* Tokens are given out once.                                               *)
LEMMA StepDistinct ==
    ASSUME TypeOK, Distinct, [Next]_vars
    PROVE  Distinct'
<1> USE ListTyped
<1>1. nextToken \in Nat
  BY DEF TypeOK
<1>2. CASE /\ m_callbacks' = m_callbacks /\ nextToken' = nextToken
           /\ packaged' \in {packaged, Registered}
  <2>1. Registered \subseteq 1 .. nextToken - 1
    BY <1>1 DEF Distinct, Registered, Token
  <2> QED  BY <1>2, <2>1 DEF Distinct
<1>3. CASE AddCallback
  <2>1. /\ m_callbacks' = Append(m_callbacks, nextToken) /\ nextToken' = nextToken + 1
        /\ packaged' = packaged /\ nextToken \in Token
    BY <1>3 DEF AddCallback, stage
  <2>2. /\ DOMAIN m_callbacks' = 1 .. Len(m_callbacks) + 1
        /\ \A j \in 1 .. Len(m_callbacks) : m_callbacks'[j] = m_callbacks[j]
        /\ m_callbacks'[Len(m_callbacks) + 1] = nextToken
    BY <2>1, AppendIs
  <2>3. \A i \in 1 .. Len(m_callbacks) + 1 : i \in 1 .. Len(m_callbacks) \/ i = Len(m_callbacks) + 1
    OBVIOUS
  <2>4. \A i \in 1 .. Len(m_callbacks) : m_callbacks[i] < nextToken /\ m_callbacks[i] \in Nat
    BY DEF Distinct, Token
  <2>5. packaged' \subseteq 1 .. nextToken' - 1
    BY <1>1, <2>1 DEF Distinct
  <2>6. \A i \in DOMAIN m_callbacks' : m_callbacks'[i] < nextToken'
    BY <1>1, <2>1, <2>2, <2>3, <2>4
  <2>7. \A i, j \in DOMAIN m_callbacks' : m_callbacks'[i] = m_callbacks'[j] => i = j
    BY <1>1, <2>2, <2>3, <2>4 DEF Distinct
  <2> QED  BY <2>5, <2>6, <2>7 DEF Distinct
<1>4. ASSUME NEW t \in Registered, Removed(t), nextToken' = nextToken, packaged' = packaged
      PROVE  Distinct'
  <2>1. PICK p \in 1 .. Len(m_callbacks) : Goes(t, p)
    BY <1>4, RemovedGoes
  <2>2. DOMAIN m_callbacks' = 1 .. Len(m_callbacks) - 1
    BY <2>1 DEF Goes
  <2>3. \A j \in 1 .. Len(m_callbacks) - 1 :
            m_callbacks'[j] = IF j < p THEN m_callbacks[j] ELSE m_callbacks[j + 1]
    BY <2>1 DEF Goes
  <2> DEFINE was(j) == IF j < p THEN j ELSE j + 1
  <2>4. \A j \in 1 .. Len(m_callbacks) - 1 :
            was(j) \in 1 .. Len(m_callbacks) /\ m_callbacks'[j] = m_callbacks[was(j)]
    BY <2>3
  <2>5. \A i, j \in 1 .. Len(m_callbacks) - 1 : was(i) = was(j) => i = j
    OBVIOUS
  <2> HIDE DEF was
  <2>6. \A i \in DOMAIN m_callbacks' : m_callbacks'[i] < nextToken'
    BY <1>4, <2>2, <2>4 DEF Distinct
  <2>7. \A i, j \in DOMAIN m_callbacks' : m_callbacks'[i] = m_callbacks'[j] => i = j
    BY <2>2, <2>4, <2>5 DEF Distinct
  <2> QED  BY <1>4, <2>6, <2>7 DEF Distinct
<1> QED  BY StepLists, <1>2, <1>3, <1>4 DEF Lists

(* The flag follows the vector.                                             *)
LEMMA StepFlag ==
    ASSUME TypeOK, Indexed, HaveCallbacksIsRight, [Next]_vars
    PROVE  HaveCallbacksIsRight'
<1>1. CASE m_callbacks' = m_callbacks /\ m_have_callbacks' = m_have_callbacks
  BY <1>1 DEF HaveCallbacksIsRight
<1>2. CASE AddCallback
  <2>1. m_callbacks' # <<>>
    BY <1>2, AppendIs DEF AddCallback
  <2>2. CASE m_callback_index = npos
    BY <1>2, <2>1, <2>2 DEF AddCallback, HaveCallbacksIsRight
  <2>3. CASE m_callback_index # npos
    <3>1. Len(m_callbacks) # 0
      BY <1>2, <2>3, ListTyped DEF AddCallback, Indexed, TypeOK, npos
    <3> QED  BY <1>2, <2>1, <2>3, <3>1, ListTyped DEF AddCallback, HaveCallbacksIsRight
  <2> QED  BY <2>2, <2>3
<1>3. ASSUME NEW t \in Registered, Removed(t)
      PROVE  HaveCallbacksIsRight'
  BY <1>3 DEF Removed, HaveCallbacksIsRight
<1> QED  BY StepLists, <1>1, <1>2, <1>3 DEF Lists

(* A callback goes: the index stays inside the vector.                      *)
LEMMA RemovedIndexed ==
    ASSUME TypeOK, NEW t \in Registered, Removed(t), m_callback_index < Len(m_callbacks)
    PROVE  /\ m_callback_index' < Len(m_callbacks')
           /\ m_callback_index = npos => m_callback_index' = npos
<1>1. PICK p \in 1 .. Len(m_callbacks) : Goes(t, p)
  BY RemovedGoes
<1> QED  BY <1>1, ListTyped DEF Goes, TypeOK, npos

(* The index is inside the vector while the loop goes through it ...        *)
LEMMA LoopIndexed ==
    ASSUME TypeOK, Indexed, Loop
    PROVE  Indexed'
<1> USE LoopIs, ListTyped
<1>1. CASE LoopEnds
  BY <1>1 DEF LoopEnds, Indexed, Following, npos, told
<1>2. ASSUME NEW i \in Stops, LoopStrays(i)
      PROVE  Indexed'
  BY <1>2 DEF LoopStrays, Indexed, told
<1>3. ASSUME NEW i \in Stops, LoopCalls(i)
      PROVE  Indexed'
  BY <1>3, StopsAre DEF LoopCalls, Indexed
<1> QED  BY <1>1, <1>2, <1>3

(* ... and when callbacks are removed meanwhile.                            *)
LEMMA StepIndexed ==
    ASSUME TypeOK, Indexed, [Next]_vars
    PROVE  Indexed'
<1> USE ListTyped
<1>1. CASE AddCallback
  BY <1>1, AppendIs DEF AddCallback, Indexed, TypeOK, stage, told
<1>2. ASSUME NEW t \in Token, RemoveCallback(t)
      PROVE  Indexed'
  BY <1>2, RemovedIndexed DEF RemoveCallback, Indexed, stage
<1>3. CASE Commit \/ WakeUp \/ Fail \/ Run
  BY <1>3 DEF Commit, WakeUp, Fail, Run, list, stage, Indexed
<1>4. CASE Notify \/ Advance
  <2>1. /\ ~outOfRange /\ phase = "idle" /\ phase' \in {"before", "after", "sizing"}
        /\ UNCHANGED <<m_callbacks, m_callback_index, calling, outOfRange>>
    BY <1>4 DEF Notify, Advance, Package, ReadSize, list
  <2> QED  BY <2>1 DEF Indexed
<1>5. CASE Loop
  BY <1>5, LoopIndexed
<1>6. CASE Deliver \/ StoreCount
  BY <1>6 DEF Deliver, StoreCount, list, Indexed
<1>7. CASE Return
  <2>1. CASE phase = "error" /\ calling \in Registered
    BY <1>7, <2>1, RemovedIndexed DEF Return, Indexed, NoToken
  <2>2. CASE ~(phase = "error" /\ calling \in Registered)
    BY <1>7, <2>2 DEF Return, Indexed, list
  <2> QED  BY <2>1, <2>2
<1>8. CASE UNCHANGED vars
  BY <1>8 DEF vars, list, stage, Indexed
<1> QED  BY <1>1, <1>2, <1>3, <1>4, <1>5, <1>6, <1>7, <1>8 DEF Next, Sending

(* The flag that says whether there are callbacks is right. *)
THEOREM FlagCorrectness == Spec => []HaveCallbacksIsRight
<1>1. Init => Indexed /\ HaveCallbacksIsRight
  <2> SUFFICES ASSUME Init PROVE Indexed /\ HaveCallbacksIsRight
    OBVIOUS
  <2>1. Len(m_callbacks) \in Nat
    BY InitTyped, ListTyped
  <2>2. Indexed
    BY <2>1 DEF Init, Indexed, npos
  <2>3. m_callbacks = <<>> /\ m_have_callbacks = FALSE
    BY DEF Init
  <2>4. HaveCallbacksIsRight
    BY <2>3 DEF HaveCallbacksIsRight
  <2> QED  BY <2>2, <2>4
<1>2. TypeOK /\ Indexed /\ HaveCallbacksIsRight /\ [Next]_vars => (Indexed /\ HaveCallbacksIsRight)'
  BY StepIndexed, StepFlag
<1> QED  BY <1>1, <1>2, TypeCorrectness, PTL DEF Spec

-----------------------------------------------------------------------------
(* The count                                                                *)

(* What is said of the count, of any state in which a package is sent.      *)
CountFits ==
    /\ m_callback_index < m_callback_count \/ m_callback_index = npos
    /\ m_callback_count \in 0 .. Len(m_callbacks)
    /\ \A i \in DOMAIN m_callbacks : i <= m_callback_count <=> m_callbacks[i] \in packaged

(* A callback goes that was packaged, another comes that was not.           *)
LEMMA RemovedFits ==
    ASSUME TypeOK, CountFits, NEW t \in Registered, Removed(t), t \in packaged,
           packaged' = packaged
    PROVE  CountFits'
<1> USE ListTyped
<1>1. PICK p \in 1 .. Len(m_callbacks) : Goes(t, p)
  BY RemovedGoes
<1>2. p <= m_callback_count
  BY <1>1 DEF Goes, CountFits
<1>3. m_callback_index' < m_callback_count' \/ m_callback_index' = npos
  BY <1>1, <1>2 DEF Goes, CountFits, TypeOK, npos
<1>4. m_callback_count' \in 0 .. Len(m_callbacks')
  BY <1>1, <1>2 DEF Goes, CountFits
<1>5. ASSUME NEW j \in 1 .. Len(m_callbacks) - 1
      PROVE  j <= m_callback_count' <=> m_callbacks'[j] \in packaged'
  <2>1. CASE j < p
    BY <1>1, <1>2, <1>5, <2>1 DEF Goes, CountFits
  <2>2. CASE j >= p
    BY <1>1, <1>2, <1>5, <2>2 DEF Goes, CountFits
  <2> QED  BY <2>1, <2>2
<1>6. DOMAIN m_callbacks' = 1 .. Len(m_callbacks) - 1
  BY <1>1 DEF Goes
<1> QED  BY <1>3, <1>4, <1>5, <1>6 DEF CountFits

(* A callback that is added is behind the count.                            *)
LEMMA AddedFits ==
    ASSUME TypeOK, Distinct, CountFits, AddCallback
    PROVE  CountFits'
<1> USE ListTyped
<1>1. nextToken \in Token /\ nextToken \notin packaged
  BY DEF AddCallback, Distinct, TypeOK
<1>2. /\ DOMAIN m_callbacks' = 1 .. Len(m_callbacks) + 1
      /\ Len(m_callbacks') = Len(m_callbacks) + 1
      /\ \A j \in 1 .. Len(m_callbacks) : m_callbacks'[j] = m_callbacks[j]
      /\ m_callbacks'[Len(m_callbacks) + 1] = nextToken
  BY <1>1, AppendIs DEF AddCallback
<1>3. /\ m_callback_index' = m_callback_index /\ m_callback_count' = m_callback_count
      /\ packaged' = packaged
  BY DEF AddCallback, stage
<1>4. \A j \in 1 .. Len(m_callbacks) + 1 : j \in 1 .. Len(m_callbacks) \/ j = Len(m_callbacks) + 1
  OBVIOUS
<1> QED  BY <1>1, <1>2, <1>3, <1>4 DEF CountFits

(* The count is what it should be during deliveries that nothing strays from. *)
LEMMA CountIs == CountIsOfPackaged <=> (Delivering /\ ~strayed => CountFits)
  BY DEF CountIsOfPackaged, CountFits

CountInv == Counted /\ CountIsOfPackaged

(* What the loop stops at was packaged, and is in the vector.               *)
LEMMA LoopCounted ==
    ASSUME TypeOK, CountInv, Loop
    PROVE  CountInv'
<1> USE LoopIs, ListTyped
<1>1. Delivering
  BY DEF Delivering
<1>2. CASE strayed
  BY <1>2 DEF CountInv, Counted, CountIsOfPackaged
<1>3. CASE ~strayed
  <2>1. CountFits
    BY <1>1, <1>3, CountIs DEF CountInv
  <2>2. CASE LoopEnds
    <3>1. CountFits'
      BY <2>1, <2>2 DEF LoopEnds, CountFits
    <3> QED  BY <1>3, <2>2, <3>1, CountIs
             DEF LoopEnds, CountInv, Counted, CountIsOfPackaged, CountFits, Following
  <2>3. ASSUME NEW i \in Stops
        PROVE  i < m_callback_count /\ i # Len(m_callbacks) /\ m_callbacks[i + 1] \in packaged
    BY <2>1, <2>3, StopsAre DEF CountFits
  <2>4. ASSUME NEW i \in Stops, LoopCalls(i)
        PROVE  CountInv'
    <3>1. CountFits'
      BY <2>1, <2>3, <2>4 DEF LoopCalls, CountFits
    <3>2. Counted'
      BY <1>3, <2>3, <2>4 DEF LoopCalls, CountInv, Counted
    <3> QED  BY <3>1, <3>2, <1>3 DEF CountInv, CountIsOfPackaged, CountFits
  <2> QED  BY <2>2, <2>3, <2>4 DEF LoopStrays
<1> QED  BY <1>2, <1>3

(* The count is kept by every step.                                         *)
LEMMA StepCount ==
    ASSUME TypeOK, Distinct, Indexed, CountInv, [Next]_vars
    PROVE  CountInv'
<1> USE ListTyped
<1>1. CASE AddCallback
  <2>1. /\ UNCHANGED <<stage, outOfRange, strayed>> /\ phase # "sizing"
    BY <1>1 DEF AddCallback, UserCode, Indexed
  <2>2. CASE Delivering /\ ~strayed
    <3>1. CountFits'
      BY <1>1, <2>2, CountIs, AddedFits DEF CountInv
    <3> QED  BY <2>1, <3>1 DEF CountInv, Counted, CountIsOfPackaged, CountFits, stage
  <2>3. CASE ~(Delivering /\ ~strayed)
    BY <2>1, <2>3 DEF CountInv, Counted, CountIsOfPackaged, Delivering, stage
  <2> QED  BY <2>2, <2>3
<1>2. ASSUME NEW t \in Token, RemoveCallback(t)
      PROVE  CountInv'
  <2>1. /\ t \in Registered /\ Removed(t) /\ strayed' = (strayed \/ Strays(t)) /\ ~outOfRange
        /\ UNCHANGED <<stage, outOfRange>>
    BY <1>2 DEF RemoveCallback
  <2>2. CASE Delivering /\ ~strayed'
    <3>1. CountFits /\ t \in packaged
      BY <2>1, <2>2, CountIs DEF CountInv, Strays, Delivering, TypeOK
    <3>2. CountFits'
      BY <2>1, <3>1, RemovedFits DEF stage
    <3> QED  BY <2>1, <2>2, <3>2 DEF CountInv, Counted, CountIsOfPackaged, CountFits, stage,
                                     Delivering
  <2>3. CASE ~(Delivering /\ ~strayed')
    BY <2>1, <2>3 DEF CountInv, Counted, CountIsOfPackaged, Delivering, Strays, stage
  <2> QED  BY <2>2, <2>3
<1>3. CASE Commit \/ WakeUp \/ Fail \/ Run
  <2>1. UNCHANGED <<list, stage, outOfRange, strayed>>
    BY <1>3 DEF Commit, WakeUp, Fail, Run
  <2> QED  BY <2>1 DEF list, stage, CountInv, Counted, CountIsOfPackaged, Delivering, Registered
<1>4. CASE Notify \/ Advance
  <2>1. CASE ReadSize
    <3>1. /\ phase' = "sizing" /\ size' = Len(m_callbacks) /\ packaged' = Registered
          /\ ~outOfRange /\ phase = "idle"
          /\ UNCHANGED <<m_callbacks, calling, outOfRange, strayed>>
      BY <2>1 DEF ReadSize, list
    <3>2. calling = NoToken
      BY <3>1 DEF Indexed
    <3>3. Registered' = Registered
      BY <3>1 DEF Registered
    <3> QED  BY <3>1, <3>2, <3>3 DEF CountInv, Counted, CountIsOfPackaged, Delivering
  <2>2. ASSUME NEW next \in {"before", "after"}, Package(next)
        PROVE  CountInv'
    <3>1. /\ phase' = next /\ m_callback_count' = Len(m_callbacks) /\ packaged' = Registered
          /\ ~outOfRange /\ phase = "idle"
          /\ UNCHANGED <<m_callbacks, m_callback_index, calling, outOfRange, strayed>>
      BY <2>2 DEF Package
    <3>2. calling = NoToken /\ m_callback_index = npos
      BY <3>1 DEF Indexed
    <3>3. CountFits'
      BY <3>1, <3>2 DEF CountFits
    <3> QED  BY <3>1, <3>2, <3>3 DEF CountInv, Counted, CountIsOfPackaged, CountFits
  <2> QED  BY <1>4, <2>1, <2>2 DEF Notify, Advance
<1>5. CASE Loop
  BY <1>5, LoopCounted
<1>6. CASE Return
  <2>1. /\ calling' = NoToken /\ calling # NoToken /\ ~outOfRange
        /\ UNCHANGED <<phase, size, packaged, outOfRange, strayed>>
        /\ phase \in {"before", "after", "error"}
    BY <1>6 DEF Return, Indexed
  <2>2. Counted'
    BY <2>1 DEF Counted
  <2>3. CASE strayed
    BY <2>1, <2>2, <2>3 DEF CountInv, CountIsOfPackaged
  <2>4. CASE ~strayed
    <3>1. CountFits /\ calling \in packaged
      BY <2>1, <2>4, CountIs DEF CountInv, Counted, Delivering
    <3>2. CountFits'
      <4>1. CASE phase = "error" /\ calling \in Registered
        BY <1>6, <2>1, <3>1, <4>1, RemovedFits DEF Return
      <4>2. CASE ~(phase = "error" /\ calling \in Registered)
        BY <1>6, <2>1, <3>1, <4>2 DEF Return, CountFits, list
      <4> QED  BY <4>1, <4>2
    <3> QED  BY <2>2, <3>2 DEF CountInv, CountIsOfPackaged, CountFits
  <2> QED  BY <2>3, <2>4
<1>7. CASE Deliver
  BY <1>7 DEF Deliver, list, CountInv, Counted, CountIsOfPackaged, Delivering
<1>8. CASE StoreCount
  <2>1. /\ phase = "sizing" /\ phase' = "error" /\ m_callback_count' = size /\ ~outOfRange
        /\ UNCHANGED <<m_callbacks, m_callback_index, calling, packaged, outOfRange, strayed>>
    BY <1>8 DEF StoreCount
  <2>2. calling = NoToken /\ m_callback_index = npos
    BY <2>1 DEF Indexed
  <2>3. ~strayed => CountFits'
    BY <2>1, <2>2 DEF CountFits, CountInv, Counted
  <2> QED  BY <2>1, <2>2, <2>3 DEF CountInv, Counted, CountIsOfPackaged, CountFits
<1>9. CASE UNCHANGED vars
  BY <1>9 DEF vars, list, stage, CountInv, Counted, CountIsOfPackaged, Delivering, Registered
<1> QED
  BY <1>1, <1>2, <1>3, <1>4, <1>5, <1>6, <1>7, <1>8, <1>9 DEF Next, Sending

ListInv == TypeOK /\ Distinct /\ Indexed /\ CountInv

(* The invariant of the vector holds at first ...                           *)
LEMMA InitList == Init => ListInv
<1> SUFFICES ASSUME Init PROVE ListInv
  OBVIOUS
<1>1. TypeOK
  BY InitTyped
<1>2. m_callbacks = <<>> /\ Len(m_callbacks) = 0 /\ DOMAIN m_callbacks = {}
  BY <1>1, ListTyped DEF Init
<1>3. Distinct
  BY <1>2 DEF Init, Distinct
<1>4. Indexed
  BY <1>2 DEF Init, Indexed, npos
<1>5. CountInv
  BY DEF Init, CountInv, Counted, CountIsOfPackaged, Delivering
<1> QED  BY <1>1, <1>3, <1>4, <1>5 DEF ListInv

(* ... is kept ...                                                          *)
LEMMA StepList == ListInv /\ [Next]_vars => ListInv'
  BY StepTyped, StepDistinct, StepIndexed, StepCount DEF ListInv

(* ... and so holds throughout.                                             *)
LEMMA ListCorrectness == Spec => []ListInv
  BY InitList, StepList, PTL DEF Spec

(* Each callback that was packaged is in front of the count, and no other,  *)
(* unless a token was dropped during a delivery that it was no part of.     *)
THEOREM CountCorrectness == Spec => []CountIsOfPackaged
<1>1. ListInv => CountIsOfPackaged
  BY DEF ListInv, CountInv
<1> QED  BY <1>1, ListCorrectness, PTL

(* A callback that is added while notifications are sent is not called by   *)
(* that delivery, unless a token was dropped during a delivery that it was  *)
(* no part of.                                                              *)
THEOREM NewcomersCorrectness == Spec => NewcomersWait
<1> DEFINE Waits == calling' # calling /\ calling' # NoToken => calling' \in packaged \/ strayed
<1>1. ListInv /\ ListInv' /\ [Next]_vars => [Waits]_vars
  <2> SUFFICES ASSUME ListInv, ListInv', Next, calling' # calling, calling' # NoToken
               PROVE  calling' \in packaged \/ strayed
    BY DEF vars
  <2>1. Loop
    BY DEF Next, Sending, AddCallback, RemoveCallback, Commit, WakeUp, Fail, Run, Notify,
           Advance, Package, ReadSize, Return, Deliver, StoreCount, stage, told, list
  <2>2. packaged' = packaged /\ strayed' = strayed
    BY <2>1, LoopIs
  <2> QED  BY <2>2 DEF ListInv, CountInv, Counted
<1>2. Spec => [][Waits]_vars
  BY <1>1, StepList, ListCorrectness, PTL DEF Spec
<1> QED  BY <1>2 DEF NewcomersWait

-----------------------------------------------------------------------------
(* What callbacks are told                                                  *)

(* What EachChangeOnce says of a callback, but for the last conjunct.       *)
Once(t) ==
    /\ accumulated[t] \union toDeliver[t] \union got[t] = since[t]
    /\ accumulated[t] \intersect toDeliver[t] = {}
    /\ (accumulated[t] \union toDeliver[t]) \intersect got[t] = {}

(* What EachChangeOnce says, callback by callback.                          *)
LEMMA OnceIs ==
    EachChangeOnce <=>
        (~strayed => \A t \in Registered : Once(t) /\ (phase = "idle" => toDeliver[t] = {}))
  BY DEF EachChangeOnce, Once

(* A callback that has not been there before is told nothing.               *)
LEMMA AddTold ==
    ASSUME ListInv, ToldInv, AddCallback
    PROVE  ToldInv'
<1> USE ListTyped DEF ListInv
<1>1. /\ nextToken \in Token /\ nextToken' = nextToken + 1
      /\ UNCHANGED <<told, stage, m_callback_index, ran, strayed>>
  BY DEF AddCallback
<1>2. /\ Len(m_callbacks') = Len(m_callbacks) + 1
      /\ DOMAIN m_callbacks' = 1 .. Len(m_callbacks) + 1
      /\ \A j \in 1 .. Len(m_callbacks) : m_callbacks'[j] = m_callbacks[j]
      /\ m_callbacks'[Len(m_callbacks) + 1] = nextToken
  BY <1>1, AppendIs DEF AddCallback
<1>3. /\ accumulated[nextToken] = {} /\ toDeliver[nextToken] = {}
      /\ got[nextToken] = {} /\ since[nextToken] = {}
  BY <1>1 DEF ToldInv, Brought, Token
<1>4. Registered' \subseteq Registered \union {nextToken}
  BY <1>2 DEF Registered
<1>5. Brought'
  BY <1>1 DEF ToldInv, Brought, told, Token, TypeOK
<1>6. EachChangeOnce'
  BY <1>1, <1>3, <1>4 DEF ToldInv, EachChangeOnce, told, stage
<1>7. Drained'
  <2>1. ASSUME NEW t \in Registered', ~strayed,
               phase \in {"idle", "sizing", "error"} \/ t \notin packaged
        PROVE  toDeliver[t] = {}
    BY <1>3, <1>4, <2>1 DEF ToldInv, Drained
  <2>2. ASSUME NEW i \in DOMAIN m_callbacks', ~strayed, phase = "after", i <= m_callback_index + 1
        PROVE  toDeliver[m_callbacks'[i]] = {}
    <3>1. m_callback_index < Len(m_callbacks)
      BY DEF AddCallback, Indexed
    <3>2. i \in DOMAIN m_callbacks
      BY <1>2, <2>2, <3>1 DEF TypeOK
    <3> QED  BY <1>2, <2>2, <3>2 DEF ToldInv, Drained
  <2> QED  BY <1>1, <2>1, <2>2 DEF Drained, told, stage
<1> QED  BY <1>5, <1>6, <1>7 DEF ToldInv

(* What a callback was told stays when another goes.                        *)
LEMMA RemovedTold ==
    ASSUME ListInv, ToldInv, NEW t \in Registered, Removed(t),
           UNCHANGED <<told, phase, packaged, ran, nextToken>>, strayed => strayed'
    PROVE  ToldInv'
<1> USE ListTyped DEF ListInv
<1>1. PICK p \in 1 .. Len(m_callbacks) : Goes(t, p)
  BY RemovedGoes
<1>2. DOMAIN m_callbacks' = 1 .. Len(m_callbacks) - 1
  BY <1>1 DEF Goes
<1>3. \A j \in 1 .. Len(m_callbacks) - 1 : m_callbacks'[j] \in Registered
  BY <1>1 DEF Goes
<1>4. Registered' \subseteq Registered
  BY <1>2, <1>3 DEF Registered
<1>5. Brought'
  BY DEF ToldInv, Brought, told
<1>6. EachChangeOnce'
  BY <1>4 DEF ToldInv, EachChangeOnce, told
<1>7. ASSUME NEW j \in 1 .. Len(m_callbacks) - 1, j <= m_callback_index' + 1
      PROVE  \E i \in 1 .. Len(m_callbacks) :
                 i <= m_callback_index + 1 /\ m_callbacks'[j] = m_callbacks[i]
  <2>1. CASE j < p
    BY <1>1, <1>7, <2>1 DEF Goes, TypeOK, npos
  <2>2. CASE j >= p
    BY <1>1, <1>7, <2>2 DEF Goes, TypeOK, npos
  <2> QED  BY <2>1, <2>2
<1>8. Drained'
  BY <1>2, <1>4, <1>7 DEF ToldInv, Drained, told
<1> QED  BY <1>5, <1>6, <1>8 DEF ToldInv

(* What a run brings is new to every callback.                              *)
LEMMA RunTold ==
    ASSUME ListInv, ToldInv, Run
    PROVE  ToldInv'
<1> USE ListTyped DEF ListInv
<1>1. /\ ran' = changes
      /\ UNCHANGED <<list, toDeliver, got, stage, nextToken, strayed>>
  BY DEF Run
<1>2. \A t \in Token :
          /\ accumulated'[t] = accumulated[t] \union (IF t \in Registered THEN Fresh ELSE {})
          /\ since'[t] = since[t] \union (IF t \in Registered THEN Fresh ELSE {})
  BY DEF Run
<1>3. Fresh \subseteq 1 .. changes /\ Fresh \intersect 1 .. ran = {}
      /\ 1 .. ran \subseteq 1 .. changes
  BY DEF Fresh, TypeOK, npos
<1>4. \A t \in Registered : t < nextToken
  BY DEF Distinct, Registered
<1>5. Brought'
  <2>1. ASSUME NEW t \in Token
        PROVE  since'[t] \subseteq 1 .. ran'
    <3>1. since[t] \subseteq 1 .. ran
      BY DEF ToldInv, Brought
    <3>2. since'[t] \subseteq since[t] \union Fresh
      BY <1>2
    <3>3. 1 .. ran' = 1 .. changes
      BY <1>1
    <3> QED  BY <3>1, <3>2, <3>3, <1>3
  <2>2. ASSUME NEW t \in Token, t >= nextToken
        PROVE  accumulated'[t] = {} /\ since'[t] = {}
    <3>1. t \notin Registered
      BY <1>4, <2>2 DEF TypeOK, Token
    <3> QED  BY <1>2, <2>2, <3>1 DEF ToldInv, Brought
  <2> QED  BY <1>1, <2>1, <2>2 DEF ToldInv, Brought
<1>6. Registered' = Registered
  BY <1>1 DEF Registered, list
<1>7. ASSUME NEW t \in Registered, ~strayed
      PROVE  Once(t)'
  <2>1. Once(t) /\ since[t] \subseteq 1 .. ran
    BY <1>7, OnceIs DEF ToldInv, Brought
  <2>2. accumulated'[t] = accumulated[t] \union Fresh /\ since'[t] = since[t] \union Fresh
    BY <1>2
  <2> QED  BY <1>1, <1>3, <2>1, <2>2 DEF Once
<1>8. EachChangeOnce'
  BY <1>1, <1>6, <1>7, OnceIs DEF ToldInv, EachChangeOnce, Once, stage
<1>9. Drained'
  BY <1>1, <1>6 DEF ToldInv, Drained, list, stage
<1> QED  BY <1>5, <1>8, <1>9 DEF ToldInv

(* What is packaged was waiting, and nothing else was packaged.             *)
LEMMA PackageTold ==
    ASSUME ListInv, ToldInv, NEW next \in {"before", "after"}, Package(next)
    PROVE  ToldInv'
<1> USE ListTyped DEF ListInv
<1>1. /\ phase = "idle" /\ phase' = next /\ packaged' = Registered
      /\ UNCHANGED <<m_callbacks, m_callback_index, got, since, ran, nextToken, strayed>>
  BY DEF Package
<1>2. \A t \in Token :
          /\ toDeliver'[t] = IF t \in Registered THEN accumulated[t] ELSE toDeliver[t]
          /\ accumulated'[t] = IF t \in Registered THEN {} ELSE accumulated[t]
  BY DEF Package
<1>3. Registered' = Registered /\ m_callback_index = npos
  BY <1>1 DEF Registered, Indexed
<1>4. \A t \in Token : t >= nextToken => accumulated'[t] = {} /\ toDeliver'[t] = {}
  BY <1>2 DEF ToldInv, Brought
<1>5. Brought'
  BY <1>1, <1>4 DEF ToldInv, Brought
<1>6. ASSUME NEW t \in Registered, ~strayed
      PROVE  Once(t)'
  <2>1. Once(t) /\ toDeliver[t] = {}
    BY <1>1, <1>6, OnceIs DEF ToldInv
  <2>2. toDeliver'[t] = accumulated[t] /\ accumulated'[t] = {}
    BY <1>2
  <2> QED  BY <1>1, <2>1, <2>2 DEF Once
<1>7. EachChangeOnce'
  BY <1>1, <1>3, <1>6 DEF EachChangeOnce, Once
<1>8. Drained'
  BY <1>1, <1>3 DEF Drained, npos
<1> QED  BY <1>5, <1>7, <1>8 DEF ToldInv

(* What the loop leaves behind its index has nothing left to be told.       *)
LEMMA LoopLeaves ==
    ASSUME ListInv, ToldInv, ~outOfRange, phase = "after", ~strayed,
           NEW i \in 1 .. Len(m_callbacks), i - 1 \notin Stops, i <= m_callback_count
    PROVE  toDeliver[m_callbacks[i]] = {}
<1> USE ListTyped DEF ListInv
<1>1. CASE i <= m_callback_index + 1
  BY <1>1 DEF ToldInv, Drained
<1>2. CASE i > m_callback_index + 1
  <2>1. i - 1 \in Ahead
    BY <1>2 DEF Ahead, TypeOK, npos
  <2>2. ~Sends(m_callbacks[(i - 1) + 1])
    BY <2>1 DEF Stops
  <2>3. ~Sends(m_callbacks[i])
    BY <2>2
  <2> QED  BY <2>3 DEF Sends
<1> QED  BY <1>1, <1>2 DEF TypeOK

(* The loop tells a callback what was packaged for it, and takes it away.   *)
LEMMA LoopTold ==
    ASSUME ListInv, ToldInv, Loop
    PROVE  ToldInv'
<1> USE LoopIs, ListTyped DEF ListInv
<1>1. /\ Registered' = Registered
      /\ UNCHANGED <<m_callbacks, packaged, ran, nextToken, strayed>>
  BY DEF Registered, work
<1>2. CASE LoopEnds
  <2>1. UNCHANGED told /\ m_callback_index' = npos /\ phase' = Following /\ Stops = {}
    BY <1>2 DEF LoopEnds
  <2>2. Brought'
    BY <1>1, <2>1 DEF ToldInv, Brought, told
  <2>3. ASSUME NEW t \in Registered, ~strayed, phase = "after"
        PROVE  toDeliver[t] = {}
    <3>1. PICK i \in 1 .. Len(m_callbacks) : t = m_callbacks[i]
      BY DEF Registered
    <3>2. CASE t \in packaged
      <4>1. i <= m_callback_count
        BY <2>3, <3>1, <3>2 DEF CountInv, CountIsOfPackaged, Delivering
      <4> QED  BY <2>1, <2>3, <3>1, <4>1, LoopLeaves
    <3>3. CASE t \notin packaged
      BY <2>3, <3>3 DEF ToldInv, Drained
    <3> QED  BY <3>2, <3>3
  <2>4. ASSUME NEW t \in Registered, ~strayed, phase' = "idle"
        PROVE  toDeliver[t] = {}
    BY <2>1, <2>3, <2>4 DEF Following, ToldInv, Drained
  <2>5. EachChangeOnce'
    BY <1>1, <2>1, <2>4 DEF ToldInv, EachChangeOnce, told
  <2>6. phase' \in {"between", "idle"}
    BY <2>1 DEF Following
  <2>7. Drained'
    BY <1>1, <2>1, <2>4, <2>6 DEF ToldInv, Drained, told
  <2> QED  BY <2>2, <2>5, <2>7 DEF ToldInv
<1>3. ASSUME NEW i \in Stops, \A j \in Stops : i <= j, LoopCalls(i)
      PROVE  ToldInv'
  <2>1. /\ i \in Nat /\ i < Len(m_callbacks) /\ m_callbacks[i + 1] \in Token
        /\ m_callback_index' = i /\ phase' = phase
    BY <1>3, StopsAre DEF LoopCalls
  <2>2. CASE phase # "after"
    BY <1>1, <1>3, <2>1, <2>2 DEF LoopCalls, ToldInv, Brought, EachChangeOnce, Drained, told
  <2>3. CASE phase = "after"
    <3> DEFINE c == m_callbacks[i + 1]
    <3>1. /\ c \in Registered /\ UNCHANGED <<accumulated, since>>
          /\ got' = [got EXCEPT ![c] = @ \union toDeliver[c]]
          /\ toDeliver' = [toDeliver EXCEPT ![c] = {}]
      <4>1. i + 1 \in 1 .. Len(m_callbacks)
        BY <2>1
      <4>2. c \in Registered
        BY <4>1
      <4>3. Tell(c) /\ UNCHANGED <<accumulated, since>>
        BY <1>3, <2>3 DEF LoopCalls
      <4> QED  BY <4>2, <4>3 DEF Tell
    <3> HIDE DEF c
    <3>2. /\ got'[c] = got[c] \union toDeliver[c] /\ toDeliver'[c] = {}
          /\ \A t \in Token \ {c} : got'[t] = got[t] /\ toDeliver'[t] = toDeliver[t]
      BY <3>1 DEF TypeOK
    <3>3. c < nextToken
      BY <3>1 DEF Registered, Distinct
    <3>4. Brought'
      <4>1. ASSUME NEW t \in Token, t >= nextToken
            PROVE  got'[t] = {} /\ toDeliver'[t] = {}
        <5>1. t # c
          BY <3>3, <4>1 DEF TypeOK, Token
        <5> QED  BY <3>2, <4>1, <5>1 DEF ToldInv, Brought
      <4> QED  BY <1>1, <3>1, <4>1 DEF ToldInv, Brought
    <3>5. ASSUME NEW t \in Registered, ~strayed
          PROVE  Once(t)'
      <4>1. Once(t)
        BY <3>5, OnceIs DEF ToldInv
      <4>2. CASE t = c
        BY <3>1, <3>2, <4>1, <4>2 DEF Once
      <4>3. CASE t # c
        BY <3>1, <3>2, <4>1, <4>3 DEF Once
      <4> QED  BY <4>2, <4>3
    <3>6. EachChangeOnce'
      BY <1>1, <2>1, <2>3, <3>5 DEF EachChangeOnce, Once
    <3>7. \A t \in Token : toDeliver[t] = {} => toDeliver'[t] = {}
      BY <3>2
    <3>8. ASSUME NEW j \in 1 .. Len(m_callbacks), j <= i + 1, ~strayed
          PROVE  toDeliver'[m_callbacks[j]] = {}
      <4>1. CASE j = i + 1
        BY <3>2, <4>1 DEF c
      <4>2. CASE j # i + 1
        <5>1. j - 1 \notin Stops
          BY <1>3, <2>1, <3>8, <4>2
        <5>2. j <= m_callback_count
          BY <2>1, <2>3, <3>8, <4>2, StopsAre DEF CountInv, CountIsOfPackaged, Delivering, TypeOK
        <5> QED  BY <2>3, <3>7, <3>8, <5>1, <5>2, LoopLeaves
      <4> QED  BY <4>1, <4>2
    <3>9. Drained'
      BY <1>1, <2>1, <2>3, <3>7, <3>8 DEF ToldInv, Drained
    <3> QED  BY <3>4, <3>6, <3>9 DEF ToldInv
  <2> QED  BY <2>2, <2>3
<1>4. ASSUME NEW i \in Stops, LoopStrays(i)
      PROVE  ToldInv'
  <2>1. strayed'
    BY <1>4, StepCount DEF LoopStrays, CountInv, Counted, Next, Sending
  <2> QED  BY <1>1, <1>4, <2>1 DEF LoopStrays, ToldInv, Brought, Drained, EachChangeOnce, told
<1> QED  BY <1>2, <1>3, <1>4

(* What is told and what waits is kept apart by every step ...              *)
LEMMA StepTold ==
    ASSUME ListInv, ToldInv, [Next]_vars
    PROVE  ToldInv'
<1> USE ListTyped DEF ListInv
<1>1. CASE AddCallback
  BY <1>1, AddTold
<1>2. ASSUME NEW t \in Token, RemoveCallback(t)
      PROVE  ToldInv'
  BY <1>2, RemovedTold DEF RemoveCallback, stage, work
<1>3. CASE Commit \/ WakeUp \/ Fail
  <2>1. UNCHANGED <<list, told, stage, ran, nextToken, strayed>>
    BY <1>3 DEF Commit, WakeUp, Fail
  <2> QED  BY <2>1 DEF list, told, stage, ToldInv, Brought, EachChangeOnce, Drained, Registered
<1>4. CASE Run
  BY <1>4, RunTold
<1>5. CASE Notify \/ Advance
  <2>1. CASE ReadSize
    <3>1. /\ phase = "idle" /\ phase' = "sizing"
          /\ UNCHANGED <<list, told, ran, nextToken, strayed>>
      BY <2>1 DEF ReadSize
    <3> QED  BY <3>1 DEF list, told, ToldInv, Brought, EachChangeOnce, Drained, Registered
  <2> QED  BY <1>5, <2>1, PackageTold DEF Notify, Advance
<1>6. CASE Loop
  BY <1>6, LoopTold
<1>7. CASE Return
  <2>1. UNCHANGED <<told, phase, packaged, work, nextToken, strayed>>
    BY <1>7 DEF Return
  <2>2. CASE phase = "error" /\ calling \in Registered
    BY <1>7, <2>1, <2>2, RemovedTold DEF Return, work
  <2>3. CASE ~(phase = "error" /\ calling \in Registered)
    <3>1. UNCHANGED list
      BY <1>7, <2>3 DEF Return
    <3> QED  BY <2>1, <3>1
             DEF list, told, work, ToldInv, Brought, EachChangeOnce, Drained, Registered
  <2> QED  BY <2>2, <2>3
<1>8. CASE Deliver \/ StoreCount
  <2>1. /\ UNCHANGED <<m_callbacks, m_callback_index, told, packaged, work, nextToken, strayed>>
        /\ \/ phase = "between" /\ phase' = "after"
           \/ phase = "sizing" /\ phase' = "error"
    BY <1>8 DEF Deliver, StoreCount, list
  <2>2. m_callback_index = npos
    BY <2>1 DEF Indexed
  <2>3. Brought' /\ EachChangeOnce'
    BY <2>1 DEF told, work, ToldInv, Brought, EachChangeOnce, Registered
  <2>4. Drained'
    BY <2>1, <2>2 DEF told, ToldInv, Drained, Registered, npos
  <2> QED  BY <2>3, <2>4 DEF ToldInv
<1>9. CASE UNCHANGED vars
  BY <1>9 DEF vars, list, told, stage, work, ToldInv, Brought, EachChangeOnce, Drained, Registered
<1> QED
  BY <1>1, <1>2, <1>3, <1>4, <1>5, <1>6, <1>7, <1>8, <1>9 DEF Next, Sending

(* ... and at first nothing waits.                                          *)
LEMMA InitTold == Init => ToldInv
<1> SUFFICES ASSUME Init PROVE ToldInv
  OBVIOUS
<1>1. Registered = {} /\ DOMAIN m_callbacks = {}
  BY InitTyped, ListTyped DEF Init, Registered
<1>2. \A t \in Token : accumulated[t] = {} /\ toDeliver[t] = {} /\ got[t] = {} /\ since[t] = {}
  BY DEF Init
<1> QED  BY <1>1, <1>2 DEF ToldInv, Brought, EachChangeOnce, Drained

(* No change is lost, and none is told twice, unless a token was dropped    *)
(* during a delivery that it was no part of.                                *)
THEOREM OnceCorrectness == Spec => []EachChangeOnce
<1>1. Spec => []ToldInv
  BY InitTold, StepTold, ListCorrectness, PTL DEF Spec
<1>2. ToldInv => EachChangeOnce
  BY DEF ToldInv
<1> QED  BY <1>1, <1>2, PTL

-----------------------------------------------------------------------------
(* Nobody is forgotten                                                      *)

(* What has been brought is posted; a worker that has failed brought none.  *)
Prompted ==
    /\ \A t \in Registered : accumulated[t] # {} => posted
    /\ ran = npos => \A t \in Token : accumulated[t] = {}
    /\ failed => ran = npos
    /\ early \subseteq 1 .. nextToken - 1

(* A callback that has never been called is about to be.                    *)
Uncalled == (Registered \intersect early) \ initialDelivered
Reached  == ~strayed => \A t \in Uncalled : wake \/ posted \/ ComesTo(t)

(* Whoever goes, what was in front of the index stays there.                *)
LEMMA RemovedInFront ==
    ASSUME TypeOK, Distinct, NEW t \in Registered, Removed(t)
    PROVE  /\ Registered' \subseteq Registered \ {t}
           /\ \A u \in Registered' : InFront(u) => InFront(u)'
<1> USE ListTyped
<1>1. PICK p \in 1 .. Len(m_callbacks) : Goes(t, p)
  BY RemovedGoes
<1>2. /\ DOMAIN m_callbacks' = 1 .. Len(m_callbacks) - 1
      /\ \A j \in 1 .. Len(m_callbacks) - 1 :
           m_callbacks'[j] = IF j < p THEN m_callbacks[j] ELSE m_callbacks[j + 1]
  BY <1>1 DEF Goes
<1>3. \A i \in 1 .. Len(m_callbacks) : i # p => m_callbacks[i] # t
  BY <1>1 DEF Goes, Distinct
<1>4. ASSUME NEW j \in 1 .. Len(m_callbacks) - 1
      PROVE  m_callbacks'[j] \in Registered /\ m_callbacks'[j] # t
  <2>1. CASE j < p
    BY <1>2, <1>3, <1>4, <2>1
  <2>2. CASE j >= p
    BY <1>2, <1>3, <1>4, <2>2
  <2> QED  BY <2>1, <2>2
<1>5. Registered' \subseteq Registered \ {t}
  BY <1>2, <1>4 DEF Registered
<1>6. ASSUME NEW u \in Registered', InFront(u)
      PROVE  InFront(u)'
  <2>1. PICK i \in 1 .. Len(m_callbacks) : m_callbacks[i] = u /\ i > m_callback_index + 1
    BY <1>6 DEF InFront
  <2>2. i # p
    BY <1>1, <1>5, <2>1 DEF Goes
  <2>3. CASE i < p
    <3>1. i \in 1 .. Len(m_callbacks) - 1 /\ m_callbacks'[i] = u
      BY <1>2, <2>1, <2>3
    <3>2. i > m_callback_index' + 1
      BY <1>1, <2>1, <2>3 DEF Goes, TypeOK, npos
    <3> QED  BY <1>2, <3>1, <3>2 DEF InFront
  <2>4. CASE i > p
    <3>1. i - 1 \in 1 .. Len(m_callbacks) - 1 /\ m_callbacks'[i - 1] = u
      BY <1>2, <2>1, <2>4
    <3>2. i - 1 > m_callback_index' + 1
      BY <1>1, <2>1, <2>4 DEF Goes, TypeOK, npos
    <3> QED  BY <1>2, <3>1, <3>2 DEF InFront
  <2> QED  BY <2>2, <2>3, <2>4
<1> QED  BY <1>5, <1>6

(* This does not depend on the callbacks that leave. *)
LEMMA PromptedStays ==
    ASSUME Prompted, \A t \in Registered' : t \in Registered,
           accumulated' = accumulated, ran' = ran, failed' = failed, posted' = posted,
           early' = early, nextToken' = nextToken
    PROVE  Prompted'
  BY DEF Prompted

LEMMA SameRegistered ==
    ASSUME m_callbacks' = m_callbacks
    PROVE  Registered' = Registered
  BY DEF Registered

(* What is posted stays posted until it is packaged.                        *)
LEMMA StepPrompted ==
    ASSUME TypeOK, Distinct, Brought, Prompted, [Next]_vars
    PROVE  Prompted'
<1> USE ListTyped
<1>1. CASE AddCallback
  <2>1. /\ nextToken \in Token /\ nextToken' = nextToken + 1
        /\ early' \subseteq early \union {nextToken}
        /\ UNCHANGED <<told, ran, posted, failed>>
    BY <1>1 DEF AddCallback
  <2>2. Registered' \subseteq Registered \union {nextToken}
    <3>1. /\ DOMAIN m_callbacks' = 1 .. Len(m_callbacks) + 1
          /\ \A j \in 1 .. Len(m_callbacks) : m_callbacks'[j] = m_callbacks[j]
          /\ m_callbacks'[Len(m_callbacks) + 1] = nextToken
      BY <1>1, <2>1, AppendIs DEF AddCallback
    <3> QED  BY <3>1 DEF Registered
  <2>3. accumulated[nextToken] = {}
    BY <2>1 DEF Brought, Token
  <2>4. early' \subseteq 1 .. nextToken' - 1
    BY <2>1 DEF Prompted, Token
  <2> QED  BY <2>1, <2>2, <2>3, <2>4 DEF Prompted, told
<1>2. ASSUME NEW t \in Registered, Removed(t),
             UNCHANGED <<told, ran, posted, failed, nextToken, early>>
      PROVE  Prompted'
  <2>1. PICK p \in 1 .. Len(m_callbacks) : Goes(t, p)
    BY <1>2, RemovedGoes
  <2>2. \A u \in Registered' : u \in Registered
    BY <1>2, <2>1, RemovedInFront
  <2>3. accumulated' = accumulated
    BY <1>2 DEF told
  <2> QED  BY <1>2, <2>2, <2>3, PromptedStays
<1>3. CASE Commit \/ WakeUp \/ Fail
  <2>1. /\ m_callbacks' = m_callbacks /\ accumulated' = accumulated
        /\ early' = early /\ nextToken' = nextToken
    BY <1>3 DEF Commit, WakeUp, Fail, list, told
  <2>2. Registered' = Registered
    BY <2>1, SameRegistered
  <2>3. CASE Commit \/ WakeUp
    <3>1. ran' = ran /\ failed' = failed /\ posted' = posted
      BY <2>3 DEF Commit, WakeUp
    <3> QED  BY <2>1, <2>2, <3>1, PromptedStays
  <2>4. CASE Fail
    <3>1. ran' = ran /\ posted' = TRUE /\ (failed \/ ran = npos)
      BY <2>4 DEF Fail
    <3>2. ran = npos
      BY <3>1 DEF Prompted
    <3> QED  BY <2>1, <2>2, <3>1, <3>2 DEF Prompted
  <2> QED  BY <1>3, <2>3, <2>4
<1>4. CASE Run
  <2>1. /\ posted' = TRUE /\ ran' = changes /\ ~failed'
        /\ UNCHANGED <<list, nextToken, early>>
    BY <1>4 DEF Run
  <2>2. ran' # npos
    BY <2>1 DEF TypeOK, npos
  <2> QED  BY <2>1, <2>2 DEF Prompted, TypeOK
<1>5. CASE Notify \/ Advance
  <2>1. CASE ReadSize
    <3>1. failed /\ UNCHANGED <<list, told, ran, failed, nextToken, early>>
      BY <2>1 DEF ReadSize
    <3> QED  BY <3>1 DEF Prompted, list, told, Registered
  <2>2. ASSUME NEW next \in {"before", "after"}, Package(next)
        PROVE  Prompted'
    <3>1. /\ \A t \in Token : accumulated'[t] = IF t \in Registered THEN {} ELSE accumulated[t]
          /\ UNCHANGED <<m_callbacks, ran, failed, nextToken, early>>
      BY <2>2 DEF Package
    <3>2. Registered' = Registered /\ Registered \subseteq Token
      BY <3>1, SameRegistered DEF Registered, TypeOK
    <3>3. \A t \in Registered' : accumulated'[t] = {}
      BY <3>1, <3>2
    <3>4. ran' = npos => \A t \in Token : accumulated'[t] = {}
      BY <3>1 DEF Prompted
    <3> QED  BY <3>1, <3>3, <3>4 DEF Prompted
  <2> QED  BY <1>5, <2>1, <2>2 DEF Notify, Advance
<1>6. CASE Loop
  <2>1. accumulated' = accumulated
    BY <1>6 DEF Loop, told
  <2>2. /\ UNCHANGED <<m_callbacks, ran, failed, posted, early, nextToken>>
    BY <1>6 DEF Loop, work
  <2> QED  BY <2>1, <2>2, SameRegistered, PromptedStays
<1>7. CASE Return
  <2>1. CASE phase = "error" /\ calling \in Registered
    BY <1>2, <1>7, <2>1 DEF Return, work
  <2>2. CASE ~(phase = "error" /\ calling \in Registered)
    <3>1. /\ m_callbacks' = m_callbacks /\ accumulated' = accumulated
          /\ UNCHANGED <<ran, failed, posted, early, nextToken>>
      BY <1>7, <2>2 DEF Return, work, list, told
    <3> QED  BY <3>1, SameRegistered, PromptedStays
  <2> QED  BY <2>1, <2>2
<1>8. CASE Deliver \/ StoreCount
  <2>1. /\ m_callbacks' = m_callbacks /\ accumulated' = accumulated
        /\ UNCHANGED <<ran, failed, posted, early, nextToken>>
    BY <1>8 DEF Deliver, StoreCount, list, told, work
  <2> QED  BY <2>1, SameRegistered, PromptedStays
<1>9. CASE UNCHANGED vars
  <2>1. /\ m_callbacks' = m_callbacks /\ accumulated' = accumulated
        /\ UNCHANGED <<ran, failed, posted, early, nextToken>>
    BY <1>9 DEF vars, list, told, work
  <2> QED  BY <2>1, SameRegistered, PromptedStays
<1>10. ASSUME NEW t \in Token, RemoveCallback(t)
       PROVE  Prompted'
  BY <1>2, <1>10 DEF RemoveCallback, work
<1> QED
  BY <1>1, <1>3, <1>4, <1>5, <1>6, <1>7, <1>8, <1>9, <1>10 DEF Next, Sending

(* The loop does not end, nor pass a callback by, before it has called what *)
(* is in front of it.                                                       *)
LEMMA LoopReaches ==
    ASSUME ListInv, ListInv', Reached, Loop
    PROVE  Reached'
<1> USE LoopIs, ListTyped DEF ListInv
<1>1. /\ Registered' = Registered /\ initialDelivered \subseteq initialDelivered'
      /\ UNCHANGED <<m_callbacks, packaged, work, strayed, early>>
  <2>1. initialDelivered \subseteq initialDelivered'
    BY DEF Loop, told, Tell
  <2> QED  BY <2>1 DEF Registered
<1>2. SUFFICES ASSUME NEW t \in Uncalled', ~strayed, ~wake, ~posted
               PROVE  ComesTo(t)'
  BY <1>1 DEF Reached, work
<1>3. t \in Uncalled /\ ComesTo(t)
  BY <1>1, <1>2 DEF Reached, Uncalled
<1>4. CASE phase = "before"
  <2>1. phase' \in {"before", "between"}
    BY <1>4 DEF LoopEnds, LoopStrays, LoopCalls, Following
  <2> QED  BY <1>1, <1>3, <2>1 DEF ComesTo
<1>5. CASE phase \in {"after", "error"}
  <2>1. PICK i \in 1 .. Len(m_callbacks) : m_callbacks[i] = t /\ i > m_callback_index + 1
    BY <1>3, <1>5 DEF ComesTo, InFront, Uncalled, NoToken, Token
  <2>2. i - 1 \in Stops
    <3>1. CountFits
      BY <1>2, <1>5, CountIs DEF CountInv, Delivering
    <3>2. i <= m_callback_count
      BY <1>3, <2>1, <3>1 DEF CountFits, ComesTo
    <3>3. i - 1 \in Ahead
      BY <2>1, <3>1, <3>2 DEF Ahead, CountFits, TypeOK, npos
    <3>4. Sends(m_callbacks[i])
      BY <1>3, <1>5, <2>1 DEF Sends, Uncalled
    <3> QED  BY <2>1, <3>3, <3>4 DEF Stops
  <2>3. PICK j \in Stops : (\A k \in Stops : j <= k) /\ (LoopStrays(j) \/ LoopCalls(j))
    BY <2>2 DEF LoopEnds
  <2>4. LoopCalls(j)
    BY <1>1, <1>2, <2>3 DEF LoopStrays, CountInv, Counted
  <2>5. j <= i - 1 /\ j \in Nat
    BY <2>2, <2>3, StopsAre
  <2>6. m_callback_index' = j /\ phase' = phase /\ calling' = m_callbacks[j + 1]
    BY <2>4 DEF LoopCalls
  <2>7. CASE j = i - 1
    <3>1. calling' = t
      BY <2>1, <2>6, <2>7
    <3>2. t \notin initialDelivered'
      BY <1>2 DEF Uncalled
    <3>3. m_callbacks[j + 1] = t
      BY <2>6, <3>1
    <3>4. phase # "after"
      <4>1. phase = "after" => Tell(t)
        BY <2>4, <3>3 DEF LoopCalls
      <4> QED  BY <3>2, <4>1 DEF Tell
    <3>5. phase = "error"
      BY <1>5, <3>4
    <3> QED  BY <1>1, <1>3, <2>6, <3>1, <3>5 DEF ComesTo
  <2>8. CASE j < i - 1
    <3>1. i > m_callback_index' + 1
      BY <2>5, <2>6, <2>8
    <3>2. InFront(t)'
      BY <1>1, <2>1, <3>1 DEF InFront
    <3> QED  BY <1>1, <1>3, <1>5, <2>6, <3>2 DEF ComesTo
  <2> QED  BY <2>5, <2>7, <2>8
<1> QED  BY <1>4, <1>5

(* No step leaves a callback that has never been called behind.             *)
LEMMA StepReached ==
    ASSUME ListInv, ListInv', Prompted, Reached, [Next]_vars
    PROVE  Reached'
<1> USE ListTyped DEF ListInv
<1>1. CASE AddCallback
  <2>1. /\ nextToken \in Token
        /\ UNCHANGED <<told, stage, m_callback_index, posted, strayed>>
        /\ wake => wake'
        /\ phase = "idle" => wake'
        /\ early' = IF phase = "idle" THEN early \union {nextToken} ELSE early
    BY <1>1 DEF AddCallback, Indexed
  <2>2. /\ DOMAIN m_callbacks' = 1 .. Len(m_callbacks) + 1
        /\ \A j \in 1 .. Len(m_callbacks) : m_callbacks'[j] = m_callbacks[j]
        /\ m_callbacks'[Len(m_callbacks) + 1] = nextToken
    BY <1>1, <2>1, AppendIs DEF AddCallback
  <2>3. Registered' \subseteq Registered \union {nextToken} /\ \A u : InFront(u) => InFront(u)'
    BY <2>1, <2>2 DEF Registered, InFront
  <2>4. nextToken \notin early
    BY <2>1 DEF Prompted, Token
  <2>5. phase # "idle" => Uncalled' \subseteq Uncalled
    BY <2>1, <2>3, <2>4 DEF Uncalled, told
  <2>6. \A u : ComesTo(u) => ComesTo(u)'
    BY <2>1, <2>3 DEF ComesTo, stage
  <2> QED  BY <2>1, <2>5, <2>6 DEF Reached
<1>2. ASSUME NEW t \in Registered, Removed(t), strayed => strayed',
             UNCHANGED <<told, phase, packaged, work, early>>,
             calling' = calling \/ t = calling
      PROVE  Reached'
  <2>1. /\ Registered' \subseteq Registered \ {t}
        /\ \A u \in Registered' : InFront(u) => InFront(u)'
    BY <1>2, RemovedInFront
  <2>2. Uncalled' \subseteq Uncalled
    BY <1>2, <2>1 DEF Uncalled, told
  <2>3. \A u \in Uncalled' : ComesTo(u) => ComesTo(u)'
    BY <1>2, <2>1 DEF ComesTo, Uncalled
  <2> QED  BY <1>2, <2>2, <2>3 DEF Reached, work
<1>3. CASE Commit \/ WakeUp \/ Fail \/ Run
  BY <1>3 DEF Commit, WakeUp, Fail, Run, Reached
<1>4. CASE Notify \/ Advance
  <2>1. /\ phase' \in {"before", "after", "sizing"} /\ packaged' = Registered
        /\ UNCHANGED <<m_callbacks, m_callback_index>> /\ m_callback_index = npos
    BY <1>4 DEF Notify, Advance, Package, ReadSize, list, Indexed
  <2>2. Registered' = Registered /\ \A u \in Registered : InFront(u)'
    BY <2>1 DEF Registered, InFront, npos
  <2>3. \A u \in Uncalled' : ComesTo(u)'
    BY <2>1, <2>2 DEF ComesTo, Uncalled
  <2> QED  BY <2>3 DEF Reached
<1>5. CASE Loop
  BY <1>5, LoopReaches
<1>6. CASE Return
  <2>1. /\ calling # NoToken /\ calling' = NoToken
        /\ UNCHANGED <<told, phase, packaged, work, strayed, early>>
    BY <1>6 DEF Return
  <2>2. CASE phase = "error" /\ calling \in Registered
    BY <1>2, <1>6, <2>1, <2>2 DEF Return
  <2>3. CASE ~(phase = "error" /\ calling \in Registered)
    <3>1. UNCHANGED list
      BY <1>6, <2>3 DEF Return
    <3>2. Uncalled' = Uncalled /\ \A u : InFront(u) => InFront(u)'
      BY <2>1, <3>1 DEF Uncalled, InFront, Registered, list, told
    <3>3. \A u \in Uncalled : ComesTo(u) => ComesTo(u)'
      BY <2>1, <2>3, <3>2 DEF ComesTo, Uncalled
    <3> QED  BY <2>1, <3>2, <3>3 DEF Reached, work
  <2> QED  BY <2>2, <2>3
<1>7. CASE Deliver \/ StoreCount
  <2>1. /\ \/ phase = "between" /\ phase' = "after"
           \/ phase = "sizing" /\ phase' = "error"
        /\ UNCHANGED <<m_callbacks, m_callback_index, told, packaged, work, strayed, early>>
    BY <1>7 DEF Deliver, StoreCount, list
  <2>2. m_callback_index = npos
    BY <2>1 DEF Indexed
  <2>3. Uncalled' = Uncalled /\ \A u \in Registered : InFront(u)'
    BY <2>1, <2>2 DEF Uncalled, Registered, InFront, told, npos
  <2>4. \A u \in Uncalled : ComesTo(u) => ComesTo(u)'
    BY <2>1, <2>3 DEF ComesTo, Uncalled
  <2> QED  BY <2>1, <2>3, <2>4 DEF Reached, work
<1>8. CASE UNCHANGED vars
  BY <1>8 DEF vars, list, told, stage, work, Reached, Uncalled, ComesTo, InFront, Registered
<1>9. ASSUME NEW t \in Token, RemoveCallback(t)
      PROVE  Reached'
  BY <1>2, <1>9 DEF RemoveCallback, stage
<1> QED
  BY <1>1, <1>3, <1>4, <1>5, <1>6, <1>7, <1>8, <1>9 DEF Next, Sending

(* No callback is forgotten, whoever comes and goes during deliveries: what *)
(* waits for one has been posted, and one that was never called, and was    *)
(* added while nothing was sent, has a run or a delivery ahead that will    *)
(* come to it, unless a token was dropped during a delivery that it was no  *)
(* part of.                                                                 *)
THEOREM NoneForgotten == Spec => []NothingIsForgotten
<1>1. Init => Prompted /\ Reached
  <2> SUFFICES ASSUME Init PROVE Prompted /\ Reached
    OBVIOUS
  <2>1. Registered = {} /\ early = {} /\ ran = npos /\ \A t \in Token : accumulated[t] = {}
    BY InitTyped, ListTyped DEF Init, Registered
  <2> QED  BY <2>1 DEF Prompted, Reached, Uncalled
<1>2. Spec => [](Prompted /\ Reached)
  <2>1. ListInv /\ ListInv' /\ ToldInv /\ Prompted /\ Reached /\ [Next]_vars
            => (Prompted /\ Reached)'
    BY StepPrompted, StepReached DEF ListInv, ToldInv
  <2>2. Spec => []ToldInv
    BY InitTold, StepTold, ListCorrectness, PTL DEF Spec
  <2> QED  BY <1>1, <2>1, <2>2, ListCorrectness, PTL DEF Spec
<1>3. HaveCallbacksIsRight /\ Prompted /\ Reached => NothingIsForgotten
  BY DEF NothingIsForgotten, Prompted, Reached, Uncalled
<1> QED  BY <1>2, <1>3, FlagCorrectness, PTL
=============================================================================
