--------------------------- MODULE DeliveryProofs ---------------------------
(***************************************************************************)
(* Proofs that Coordinator.tla delivers: what callbacks and waiting        *)
(* threads need is always on its way, and Delivery.tla is implemented.     *)
(***************************************************************************)
EXTENDS CoordinatorProofs

(* While a Realm sleeps, one of its notifiers that has a callback is there, *)
(* unless tokens may be dropped on any thread.                              *)
Waiting(r) == stage[r] \in {"promoting", "refreshing"}
Held(r) ==
    r \in blocked =>
        Waiting(r) /\ (OtherThreads \/ \E n \in Mine(r) : nt[n].cb # "none")
Safe(r) == Held(r) /\ (Waiting(r) => Served(r))
WaitInv == \A r \in Realm : Safe(r)

-----------------------------------------------------------------------------
(* The order of versions, of a callback that is there.                      *)
LEMMA VersionsFollow ==
    ASSUME ChangesInv, NEW n \in alive
    PROVE  /\ n \in Notifier /\ Owner[n] \in Realm /\ nt[n] \in Notifiers
           /\ nt[n].ver \in Nat /\ nt[n].told \in Nat /\ latest \in Nat /\ helper \in Nat
           /\ nt[n].ver <= latest /\ n \in news \union main
           /\ nt[n].hasRun => n \in main /\ nt[n].ver <= helper
           /\ nt[n].cb = "told" => nt[n].hasRun /\ nt[n].told <= nt[n].ver
  BY VersionsAreNat, ConstantsAssumption
     DEF ChangesInv, IInv, TypeOK, Forward, Listed, Enlisted, Following, Fine, Known

(* A busy worker has every notifier that has run, and goes to a version     *)
(* that is not behind any of them.                                          *)
LEMMA BusyWith ==
    ASSUME ChangesInv, work.step \in Busy
    PROVE  /\ main = work.old \union work.fresh /\ work.target \in Nat /\ work.target <= latest
           /\ helper <= work.target
  BY VersionsAreNat DEF ChangesInv, IInv, Listed, Forward

-----------------------------------------------------------------------------
(* Nothing gets lost on its way                                             *)

(* A step that gives no callback more to learn leaves what is on its way.   *)
LEMMA StillComes ==
    ASSUME CommitsAreOnTheWay, alive' \subseteq alive, UNCHANGED <<latest, work>>,
           posted \subseteq posted', wake => wake', Signalled => Signalled' \/ wake',
           \A n \in alive' :
               Lacks(n)' => Lacks(n) /\ nt'[n].hasRun = nt[n].hasRun /\ nt'[n].ver = nt[n].ver
    PROVE  CommitsAreOnTheWay'
<1>1. ASSUME NEW n \in alive', Lacks(n)'
      PROVE  Comes(n)'
  <2>1. Comes(n)
    BY <1>1 DEF CommitsAreOnTheWay
  <2> QED  BY <1>1, <2>1 DEF Comes, RunComes, HandedOver
<1> QED  BY <1>1 DEF CommitsAreOnTheWay

(* Delivery of an older version gives no callback more to learn, and that   *)
(* of the latest one leaves none behind.                                    *)
LEMMA DeliveredLacks ==
    ASSUME ChangesInv, NEW n \in alive, latest' = latest, NEW v \in Version, NEW w \in BOOLEAN,
           v <= latest, nt[n].cb = "told" => nt[n].told <= v, nt'[n] = Delivered(nt[n], v, w)
    PROVE  /\ nt'[n].hasRun = nt[n].hasRun /\ nt'[n].ver = nt[n].ver
           /\ Lacks(n)' => Lacks(n)
           /\ v = latest => ~Lacks(n)'
<1>1. /\ nt[n] \in Notifiers /\ nt[n].told \in Nat /\ latest \in Nat /\ v \in Nat
      /\ nt[n].cb \in {"none", "added", "told"}
  BY VersionsFollow, VersionsAreNat DEF ChangesInv, IInv, TypeOK, Notifiers
<1>2. /\ Delivered(nt[n], v, w).cb = IF nt[n].cb = "none" THEN "none" ELSE "told"
      /\ nt[n].cb # "none" => Delivered(nt[n], v, w).told = v
      /\ SameRows(nt[n], Delivered(nt[n], v, w))
  BY <1>1, DeliveredTold, DeliveredFields
<1> QED  BY <1>1, <1>2 DEF Lacks, SameRows

LEMMA BroughtLacks ==
    ASSUME ChangesInv, NEW n \in alive, Brought(Owner[n], n), latest' = latest
    PROVE  /\ nt'[n].hasRun = nt[n].hasRun /\ nt'[n].ver = nt[n].ver
           /\ Lacks(n)' => Lacks(n)
<1>1. /\ nt[n] \in Notifiers /\ nt[n].ver \in Version /\ nt[n].ver <= latest
      /\ nt[n].cb = "told" => nt[n].told <= nt[n].ver
  BY VersionsFollow, VersionsAreNat DEF ChangesInv, IInv
<1>2. CASE nt'[n] = nt[n]
  BY <1>2 DEF Lacks
<1>3. CASE nt'[n] = Dropped(nt[n])
  <2>1. /\ Dropped(nt[n]).cb = nt[n].cb /\ Dropped(nt[n]).told = nt[n].told
        /\ SameRows(nt[n], Dropped(nt[n]))
    BY <1>1, SilentSteps, DroppedFields
  <2> QED  BY <1>3, <2>1 DEF Lacks, SameRows
<1>4. CASE \E w \in BOOLEAN : nt'[n] = Delivered(nt[n], nt[n].ver, w)
  BY <1>1, <1>4, DeliveredLacks
<1> QED  BY <1>2, <1>3, <1>4 DEF Brought

(* The run loop: what has been signalled for is delivered, unless there is  *)
(* nothing to tell, as in a write.                                          *)
LEMMA NotifyComes ==
    ASSUME ChangesInv, CommitsAreOnTheWay, NEW r \in Realm, Notify(r)
    PROVE  CommitsAreOnTheWay'
<1>1. UNCHANGED <<latest, work, alive, stage, wake>> /\ posted' = posted \ {r}
      /\ r \in posted /\ stage[r] \in {"reading", "writing"}
  BY DEF Notify, lists
<1>2. /\ \A n \in alive : Owner[n] = r => Brought(r, n)
      /\ \A n \in alive : Owner[n] # r => nt'[n] = nt[n]
  BY NotifyBrings DEF ChangesInv, Ordered, Fine
<1>3. ASSUME NEW n \in alive
      PROVE  /\ nt'[n].hasRun = nt[n].hasRun /\ nt'[n].ver = nt[n].ver
             /\ Lacks(n)' => Lacks(n)
  BY <1>1, <1>2, <1>3, BroughtLacks DEF Lacks
<1>4. ASSUME NEW n \in alive, Owner[n] = r, Lacks(n)', nt[n].hasRun, nt[n].ver = latest
      PROVE  FALSE
  <2>1. Lacks(n) /\ n \in Notifier /\ latest \in Nat
    BY <1>3, <1>4, VersionsFollow
  <2>2. stage[r] = "reading"
    BY <1>1, <1>4, <2>1, VersionsFollow DEF Lacks, ChangesInv, Informed
  <2>3. n \in HasRun(r) /\ PackageVersion(HasRun(r)) = latest
    <3>1. n \in HasRun(r)
      BY <1>4, VersionsFollow DEF HasRun, Mine
    <3> QED  BY <1>4, <3>1, PackageIs DEF ChangesInv
  <2>4. at[r] \in Nat /\ at[r] <= latest
    BY VersionsAreNat DEF ChangesInv, IInv, Forward
  <2>5. nt'[n] = Delivered(nt[n], latest, FALSE)
    <3>1. CASE at[r] = latest
      <4>1. Apply({m \in HasRun(r) : nt[m].ver = at[r]}, LAMBDA s : Delivered(s, at[r], FALSE))
        BY <2>2, <3>1 DEF Notify
      <4> QED  BY <1>4, <2>1, <2>3, <3>1, <4>1 DEF Apply
    <3>2. CASE at[r] # latest
      <4> DEFINE P == HasRun(r)
                 v == PackageVersion(P)
      <4>1. \/ P = {} \/ v < at[r]
            \/ Apply(P, LAMBDA s : Delivered(s, v, FALSE))
        BY <2>2, <3>2 DEF Notify
      <4>2. P # {} /\ ~(v < at[r]) /\ v = latest /\ n \in P
        BY <2>1, <2>3, <2>4
      <4> HIDE DEF P, v
      <4> QED  BY <2>1, <4>1, <4>2 DEF Apply
    <3> QED  BY <3>1, <3>2
  <2>6. latest \in Version /\ latest <= latest /\ (nt[n].cb = "told" => nt[n].told <= latest)
    <3>1. latest \in Version
      BY DEF ChangesInv, IInv, TypeOK
    <3> QED  BY <1>4, <2>1, <3>1, VersionsFollow
  <2> QED  BY <1>1, <1>4, <2>5, <2>6, DeliveredLacks
<1>5. ASSUME NEW n \in alive, Lacks(n)'
      PROVE  Comes(n)'
  <2>1. Comes(n)
    BY <1>3, <1>5 DEF CommitsAreOnTheWay
  <2> QED  BY <1>1, <1>3, <1>4, <1>5, <2>1 DEF Comes, Signalled, RunComes, HandedOver
<1> QED  BY <1>1, <1>5 DEF CommitsAreOnTheWay

(* A Realm that has waited tells what there is.                             *)
LEMMA WaitedComes ==
    ASSUME ChangesInv, CommitsAreOnTheWay, NEW r \in Realm, Waited(r)
    PROVE  CommitsAreOnTheWay'
<1>1. /\ UNCHANGED <<latest, work, alive, posted, wake>>
      /\ stage[r] \in {"promoting", "refreshing"}
      /\ \A q \in Realm \ {r} : stage'[q] = stage[q]
  BY DEF Waited, lists, ChangesInv, IInv, TypeOK
<1>2. /\ \A n \in alive : Owner[n] = r => Brought(r, n)
      /\ \A n \in alive : Owner[n] # r => nt'[n] = nt[n]
  BY WaitedBrings DEF ChangesInv, Ordered, Fine
<1>3. ASSUME NEW n \in alive
      PROVE  /\ nt'[n].hasRun = nt[n].hasRun /\ nt'[n].ver = nt[n].ver
             /\ Lacks(n)' => Lacks(n)
  BY <1>1, <1>2, <1>3, BroughtLacks DEF Lacks
<1>4. Signalled => Signalled'
  BY <1>1 DEF Signalled
<1> QED  BY <1>1, <1>3, <1>4, StillComes

(* What the user does to one notifier.                                      *)
LEMMA TouchComes ==
    ASSUME ChangesInv, CommitsAreOnTheWay, NEW n \in Notifier,
           \/ \E u \in Uses : Register(n, u)
           \/ AddCallback(n) \/ Use(n) \/ RemoveCallback(n) \/ Unregister(n)
    PROVE  CommitsAreOnTheWay'
<1>1. /\ alive \subseteq Notifier /\ nt[n] \in Notifiers
      /\ \A m \in Notifier \ {n} : nt'[m] = nt[m]
      /\ UNCHANGED <<latest, stage, work, posted>>
  BY DEF Register, AddCallback, Use, RemoveCallback, Unregister, file, threads,
         ChangesInv, IInv, TypeOK
<1>2. CASE AddCallback(n)
  <2>1. wake'
    BY <1>2 DEF AddCallback
  <2> QED  BY <2>1 DEF CommitsAreOnTheWay, Comes, RunComes
<1>3. CASE \E u \in Uses : Register(n, u)
  <2>1. nt'[n].cb = "none" /\ alive' = alive \union {n} /\ wake' = wake
    BY <1>3, RegisterIs DEF ChangesInv, Register
  <2>2. ASSUME NEW m \in alive', Lacks(m)'
        PROVE  Comes(m)'
    <3>1. m # n /\ m \in alive /\ nt'[m] = nt[m]
      BY <1>1, <2>1, <2>2 DEF Lacks
    <3> QED
      BY <1>1, <2>1, <2>2, <3>1 DEF CommitsAreOnTheWay, Lacks, Comes, Signalled, RunComes,
                                    HandedOver
  <2> QED  BY <2>2 DEF CommitsAreOnTheWay
<1>4. CASE Use(n) \/ RemoveCallback(n) \/ Unregister(n)
  <2>1. alive' \subseteq alive /\ wake' = wake
    BY <1>4 DEF Use, RemoveCallback, Unregister
  <2>2. nt'[n] \in {nt[n], Used(nt[n]), Removed(nt[n])}
    BY <1>4 DEF Use, RemoveCallback, Unregister, Used, Removed, ChangesInv, IInv, TypeOK
  <2>3. nt'[n] = nt[n] \/ nt'[n].cb = "none"
        \/ (nt'[n].cb = nt[n].cb /\ nt'[n].told = nt[n].told /\ SameRows(nt[n], nt'[n]))
    BY <1>1, <2>2, ChangedFields
  <2>4. \A m \in alive' :
          Lacks(m)' => Lacks(m) /\ nt'[m].hasRun = nt[m].hasRun /\ nt'[m].ver = nt[m].ver
    BY <1>1, <2>1, <2>3 DEF Lacks, SameRows
  <2>5. Signalled => Signalled'
    BY <1>1 DEF Signalled
  <2> QED  BY <1>1, <2>1, <2>4, <2>5, StillComes
<1> QED  BY <1>2, <1>3, <1>4

(* What a Realm does, but for going on to another version.                  *)
LEMMA RealmComes ==
    ASSUME ChangesInv, CommitsAreOnTheWay, NEW r \in Realm,
           \/ Promote(r) \/ Refresh(r) \/ WaitOn(r)
           \/ \E S \in SUBSET Mine(r) : Suppress(r, S)
           \/ CommitFails(r) \/ Commit(r) \/ Cancel(r) \/ Signal(r)
    PROVE  CommitsAreOnTheWay'
<1>1. stage \in [Realm -> Stage] /\ alive \subseteq Notifier
      /\ \A n \in Notifier : nt[n] \in Notifiers
  BY DEF ChangesInv, IInv, TypeOK
<1>2. CASE Commit(r)
  <2>1. Signalled'
    BY <1>1, <1>2 DEF Commit, Signalled
  <2> QED  BY <2>1 DEF CommitsAreOnTheWay, Comes
<1>3. CASE Signal(r)
  <2>1. wake'
    BY <1>3 DEF Signal
  <2> QED  BY <2>1 DEF CommitsAreOnTheWay, Comes, RunComes
<1>4. CASE \/ Promote(r) \/ Refresh(r) \/ WaitOn(r) \/ CommitFails(r) \/ Cancel(r)
           \/ \E S \in SUBSET Mine(r) : Suppress(r, S)
  <2>1. /\ UNCHANGED <<latest, work, posted, alive>> /\ (wake => wake')
        /\ stage[r] # "signalling"
           /\ \A q \in Realm \ {r} : stage'[q] = stage[q]
           \/ UNCHANGED stage
    BY <1>1, <1>4 DEF Promote, Refresh, Waits, WaitOn, CommitFails, Cancel, Suppress, file
  <2>2. \A n \in Notifier : nt'[n] \in {nt[n], Skipped(nt[n])}
    BY <1>4 DEF Promote, Refresh, Waits, WaitOn, CommitFails, Cancel, Suppress, Skipped
  <2>3. \A n \in Notifier :
          /\ nt'[n].hasRun = nt[n].hasRun /\ nt'[n].ver = nt[n].ver
          /\ nt'[n].cb = nt[n].cb /\ nt'[n].told = nt[n].told
    BY <1>1, <2>2, ChangedFields DEF SameRows
  <2>4. Signalled => Signalled'
    BY <2>1 DEF Signalled
  <2> QED  BY <1>1, <2>1, <2>3, <2>4, StillComes DEF Lacks
<1> QED  BY <1>2, <1>3, <1>4

-----------------------------------------------------------------------------
(* The worker                                                               *)

(* It begins: it takes all notifiers along, to the latest version.          *)
LEMMA StartTakes ==
    ASSUME ChangesInv, Start
    PROVE  /\ UNCHANGED <<latest, stage, goal, blocked, posted, alive, nt>>
           /\ work.step = "idle" /\ \A n \in alive : n \in news \union main
           /\ \/ alive = {} /\ work'.step = "posting"
              \/ /\ work'.step \in Busy /\ work'.target = latest
                 /\ alive \subseteq work'.old \union work'.fresh
                 /\ \A n \in alive : n \in news' \union main'
<1>1. alive \subseteq news \union main
  BY DEF ChangesInv, Enlisted
<1>2. CASE (news \intersect alive) \union (main \intersect alive) = {}
  <2>1. alive = {}
    BY <1>1, <1>2
  <2> QED  BY <1>2, <2>1 DEF Start, Idle, file, threads
<1>3. CASE (news \intersect alive) \union (main \intersect alive) # {}
  <2>1. /\ work'.step \in {"running", "skipping"} /\ work'.target = latest
        /\ work'.old = main \intersect alive /\ work'.fresh = news \intersect alive
        /\ main' = (main \intersect alive) \union (news \intersect alive)
    BY <1>3 DEF Start, CleanUp
  <2> QED  BY <1>1, <2>1 DEF Start, Busy, file, threads
<1> QED  BY <1>2, <1>3

(* It runs queries: nothing of this shows yet.                              *)
LEMMA RunKeepsBusy ==
    ASSUME ChangesInv, SkipRun \/ Run
    PROVE  /\ UNCHANGED <<latest, stage, goal, blocked, posted, alive, news, main, wake>>
           /\ work.step \in Busy /\ work'.step \in Busy
           /\ work'.old = work.old /\ work'.fresh = work.fresh /\ work'.target = work.target
           /\ \A n \in Notifier :
                /\ nt'[n].hasRun = nt[n].hasRun /\ nt'[n].ver = nt[n].ver
                /\ nt'[n].cb = nt[n].cb /\ nt'[n].told = nt[n].told
<1> DEFINE v == IF SkipRun THEN work.skipTo ELSE work.target
<1>1. /\ UNCHANGED <<latest, stage, goal, blocked, posted, alive, news, main, wake>>
      /\ work.step \in Busy /\ work'.step \in Busy
      /\ work'.old = work.old /\ work'.fresh = work.fresh /\ work'.target = work.target
      /\ \E S : RunAll(S, v)
  BY DEF SkipRun, Run, Busy, file, threads, ChangesInv, IInv, TypeOK, Works
<1>2. v \in Version
  BY PendingIs DEF SkipRun, Run, Busy, ChangesInv
<1> HIDE DEF v
<1>3. Kept
  BY <1>1, <1>2, RunKeeps DEF ChangesInv, IInv
<1>4. SameTold(Notifier)
  BY <1>1, <1>2, RunSilent DEF ChangesInv
<1> QED  BY <1>1, <1>3, <1>4 DEF Kept, SameTold

(* It hands over: who was at a version is at it or past it, and at the end  *)
(* all are where the worker went.                                           *)
LEMMA HandBrings ==
    ASSUME ChangesInv, SkipHand \/ Hand
    PROVE  /\ UNCHANGED <<latest, stage, goal, posted, alive, wake>>
           /\ work.step \in Busy
           /\ \A n \in alive :
                /\ nt'[n].cb = nt[n].cb /\ nt'[n].told = nt[n].told
                /\ n \in news \union main /\ n \in news' \union main'
                /\ nt[n].hasRun => nt'[n].hasRun /\ nt[n].ver <= nt'[n].ver
                /\ nt'[n].ver \in Nat
                /\ nt[n].hasRun => nt'[n].ver <= latest
           /\ \/ /\ blocked' = blocked
                 /\ work'.step \in Busy /\ work'.target = work.target
                 /\ work'.old = work.old /\ work'.fresh = work.fresh
              \/ /\ blocked' = {} /\ work'.step = "posting"
                 /\ \A n \in work.old \union work.fresh :
                      nt'[n].hasRun /\ nt'[n].ver = work.target
<1> DEFINE v == PendingAt
<1>1. /\ work.step \in {"skipped", "ran"} /\ HandAll(Pending, v)
      /\ v \in Version /\ v \in Nat /\ Pending \subseteq main /\ main \subseteq Notifier
      /\ helper = v
      /\ UNCHANGED <<latest, stage, alive>>
  BY HandedIs, VersionsTyped DEF ChangesInv, Following, file, IInv, TypeOK
<1>2. work.step \in Busy /\ UNCHANGED <<goal, posted, wake>>
  BY DEF SkipHand, Hand, Busy, threads
<1>3. v <= latest
  BY <1>1, <1>2, VersionsAreNat DEF ChangesInv, IInv, Forward
<1>4. \/ /\ blocked' = blocked
         /\ work'.step \in Busy /\ work'.target = work.target
         /\ work'.old = work.old /\ work'.fresh = work.fresh
      \/ /\ blocked' = {} /\ work'.step = "posting"
         /\ Pending = work.old \union work.fresh /\ v = work.target
  BY DEF SkipHand, Hand, Busy, threads, Idle, Pending, PendingAt, ChangesInv, IInv, TypeOK, Works
<1> HIDE DEF v
<1>5. /\ nt' \in [Notifier -> Notifiers]
      /\ \A n \in Pending : nt'[n].ver = v /\ nt'[n].hasRun
      /\ \A n \in Notifier \ Pending : nt'[n] = nt[n]
  BY <1>1, HandAllTyped DEF ChangesInv, IInv
<1>6. SameTold(Notifier)
  BY <1>1, HandSilent DEF ChangesInv
<1>7. ASSUME NEW n \in alive
      PROVE  /\ nt'[n].cb = nt[n].cb /\ nt'[n].told = nt[n].told
             /\ n \in news \union main /\ n \in news' \union main'
             /\ nt[n].hasRun => nt'[n].hasRun /\ nt[n].ver <= nt'[n].ver
             /\ nt'[n].ver \in Nat
             /\ nt[n].hasRun => nt'[n].ver <= latest
  <2>1. /\ n \in Notifier /\ nt[n].ver \in Nat /\ nt[n].ver <= latest /\ n \in news \union main
        /\ nt[n].hasRun => n \in main /\ nt[n].ver <= v
    BY <1>1, <1>7, VersionsFollow
  <2>2. n \in news' \union main'
    BY <2>1, <1>7 DEF SkipHand, Hand, lists, CleanUp
  <2> QED  BY <1>1, <1>3, <1>5, <1>6, <2>1, <2>2 DEF SameTold
<1> QED  BY <1>1, <1>2, <1>4, <1>5, <1>7

(* It brings what lacks, and has the run loops signalled.                   *)
LEMMA WorkerComes ==
    ASSUME ChangesInv, CommitsAreOnTheWay, Worker
    PROVE  CommitsAreOnTheWay'
<1>1. alive \subseteq Notifier
  BY DEF ChangesInv, IInv, TypeOK
<1>2. CASE Start
  BY <1>2, StartTakes, VersionsAreNat DEF CommitsAreOnTheWay, Comes, RunComes, ChangesInv, IInv
<1>3. CASE SkipRun \/ Run
  <2>1. \A n \in alive : (Lacks(n)' => Lacks(n)) /\ (Comes(n) => Comes(n)')
    BY <1>1, <1>3, RunKeepsBusy DEF Lacks, Comes, Signalled, RunComes, HandedOver, Busy
  <2> QED  BY <1>3, <2>1, RunKeepsBusy DEF CommitsAreOnTheWay
<1>4. CASE SkipHand \/ Hand
  <2>1. ASSUME NEW n \in alive, Lacks(n)'
        PROVE  Comes(n)'
    <3>1. Lacks(n) /\ Comes(n)
      BY <1>4, <2>1, HandBrings DEF Lacks, CommitsAreOnTheWay
    <3>2. CASE Signalled \/ wake
      BY <1>4, <3>2, HandBrings DEF Comes, Signalled, RunComes
    <3>3. CASE HandedOver(n)
      <4>1. nt'[n].hasRun /\ nt'[n].ver = latest
        BY <1>4, <2>1, <3>3, HandBrings, VersionsFollow DEF HandedOver
      <4> QED  BY <1>4, <3>3, <4>1, HandBrings DEF Comes, HandedOver, Busy
    <3>4. CASE n \in work.old \union work.fresh /\ latest <= work.target
      <4>1. work.target = latest
        BY <1>4, <3>4, BusyWith, HandBrings, VersionsFollow
      <4> QED  BY <1>4, <3>4, <4>1, HandBrings DEF Comes, RunComes, HandedOver
    <3> QED  BY <3>1, <3>2, <3>3, <3>4 DEF Comes, RunComes
  <2> QED  BY <1>4, <2>1, HandBrings DEF CommitsAreOnTheWay
<1>5. CASE Post
  <2>1. /\ UNCHANGED <<latest, stage, alive, nt, wake>> /\ posted' = Realm
        /\ work.step = "posting"
    BY <1>5 DEF Post, file
  <2>2. \A n \in alive : (Lacks(n)' => Lacks(n)) /\ (Comes(n) => Comes(n)')
    BY <1>1, <2>1, ConstantsAssumption
       DEF Lacks, Comes, Signalled, RunComes, HandedOver, Busy
  <2> QED  BY <2>1, <2>2 DEF CommitsAreOnTheWay
<1> QED  BY <1>2, <1>3, <1>4, <1>5 DEF Worker

(* Whatever happens, no callback is left behind.                            *)
LEMMA StepComes ==
    ASSUME ChangesInv, CommitsAreOnTheWay, [Next]_vars
    PROVE  CommitsAreOnTheWay'
<1>1. CASE \E n \in Notifier, u \in Uses : Register(n, u)
  BY <1>1, TouchComes
<1>2. CASE UserStep
  <2>1. CASE UNCHANGED vars
    BY <2>1 DEF vars, file, threads, CommitsAreOnTheWay, Lacks, Comes, Signalled, RunComes,
                HandedOver
  <2> QED  BY <1>2, <2>1, TouchComes, WaitedComes, NotifyComes, RealmComes DEF UserStep
<1>3. CASE Worker
  BY <1>3, WorkerComes
<1> QED  BY <1>1, <1>2, <1>3, StepsAre

(* Every commit is on its way to every callback: at rest, with nobody about *)
(* to do anything, all callbacks know the latest version (commit_write,     *)
(* notify_others, on_change, advance_to_ready, process_available_async).    *)
THEOREM CommitCorrectness == Spec => []CommitsAreOnTheWay
<1>1. Init => CommitsAreOnTheWay
  BY DEF Init, CommitsAreOnTheWay
<1> QED  BY <1>1, StepComes, ChangesInvariance, PTL DEF Spec

-----------------------------------------------------------------------------
(* Nobody waits for nothing                                                 *)

(* A step of others: the notifiers of a Realm that waits are as they were,  *)
(* or have lost their callbacks on another thread.                          *)
Alike(n) ==
    /\ n \in news' \union main' <=> n \in news \union main
    /\ nt'[n].hasRun = nt[n].hasRun /\ nt'[n].ver = nt[n].ver
Untouched(r) ==
    /\ \A n \in alive' : Owner[n] = r =>
         n \in alive /\ Alike(n) /\ (nt'[n].cb # "none" => nt[n].cb # "none")
    /\ OtherThreads \/ \A n \in alive : Owner[n] = r =>
         n \in alive' /\ Alike(n) /\ nt'[n].cb = nt[n].cb
LEMMA StaysSafe ==
    ASSUME NEW r \in Realm, Safe(r), stage'[r] = stage[r] \/ ~(Waiting(r) \/ Waiting(r)'),
           Waiting(r) => goal'[r] = goal[r] /\ Untouched(r),
           r \in blocked' => r \in blocked, UNCHANGED work, wake => wake'
    PROVE  Safe(r)'
<1>1. CASE ~Waiting(r)
  BY <1>1 DEF Safe, Held, Waiting
<1>2. CASE Waiting(r)
  <2>1. \A n \in Mine(r)' : n \in Mine(r) /\ (Awaited(n, goal[r])' => Awaited(n, goal[r]))
    BY <1>2 DEF Mine, Alike, Awaited, Untouched
  <2>2. Ready(r, goal[r]) => Ready(r, goal[r])'
    BY <2>1 DEF Ready, Awaited
  <2>3. \A n \in Mine(r) : RunComes(n, goal[r]) => RunComes(n, goal[r])'
    BY <1>2 DEF RunComes
  <2>4. Served(r)'
    BY <1>2, <2>1, <2>2, <2>3 DEF Served, Safe
  <2>5. Held(r)'
    BY <1>2 DEF Held, Safe, Waiting, Mine, Untouched, Alike
  <2> QED  BY <2>4, <2>5 DEF Safe
<1> QED  BY <1>1, <1>2

(* What the user does to a notifier: on the thread of its Realm, which does *)
(* not wait then, or on another.                                            *)
LEMMA TouchSafe ==
    ASSUME ChangesInv, WaitInv, NEW n \in Notifier,
           \/ \E u \in Uses : Register(n, u)
           \/ AddCallback(n) \/ Use(n) \/ RemoveCallback(n) \/ Unregister(n)
    PROVE  WaitInv'
<1>1. /\ alive \subseteq Notifier /\ nt[n] \in Notifiers /\ Owner[n] \in Realm
      /\ \A m \in Notifier \ {n} :
           nt'[m] = nt[m] /\ (m \in alive' <=> m \in alive)
           /\ (m \in news' \union main' <=> m \in news \union main)
      /\ alive' \subseteq Notifier
      /\ UNCHANGED <<stage, goal, blocked, work>> /\ (wake => wake')
  BY ConstantsAssumption DEF Register, AddCallback, Use, RemoveCallback, Unregister, file, threads,
         lists, ChangesInv, IInv, TypeOK
<1>2. ASSUME NEW r \in Realm, Waiting(r)
      PROVE  Untouched(r)
  <2>1. CASE Owner[n] # r
    BY <1>1, <2>1 DEF Untouched, Alike
  <2>2. CASE Owner[n] = r
    <3>1. Use(n) \/ (OtherThreads /\ (RemoveCallback(n) \/ Unregister(n)))
      BY <1>2, <2>2 DEF Register, AddCallback, RemoveCallback, Unregister, OnSomeThread, Waiting
    <3>2. /\ UNCHANGED <<news, main>> /\ alive' \subseteq alive
          /\ nt'[n] \in {nt[n], Used(nt[n]), Removed(nt[n])}
          /\ Use(n) => alive' = alive /\ nt'[n] = Used(nt[n])
      BY <3>1 DEF Use, RemoveCallback, Unregister, lists, Used, Removed, ChangesInv, IInv, TypeOK
    <3>3. nt'[n].hasRun = nt[n].hasRun /\ nt'[n].ver = nt[n].ver
          /\ (nt'[n].cb # "none" => nt[n].cb # "none")
          /\ (Use(n) => nt'[n].cb = nt[n].cb)
      BY <1>1, <3>2, ChangedFields DEF SameRows
    <3> QED  BY <1>1, <3>1, <3>2, <3>3 DEF Untouched, Alike
  <2> QED  BY <2>1, <2>2
<1> QED  BY <1>1, <1>2, StaysSafe DEF WaitInv

(* A Realm begins to wait, or waits on: who has to run for it will be run.  *)
LEMMA WaitSafe ==
    ASSUME ChangesInv, WaitInv, NEW q \in Realm, Promote(q) \/ Refresh(q) \/ WaitOn(q)
    PROVE  WaitInv'
<1>1. /\ UNCHANGED <<work, nt, alive, news, main>> /\ (wake => wake')
      /\ \A r \in Realm \ {q} : stage'[r] = stage[r] /\ goal'[r] = goal[r]
                                /\ (r \in blocked' => r \in blocked)
  BY DEF Promote, Refresh, Waits, WaitOn, lists, ChangesInv, IInv, TypeOK
<1>2. \A r \in Realm : Untouched(r)
  BY <1>1 DEF Untouched, Alike
<1>3. Safe(q)'
  <2>0. PICK v : v = goal'[q]
    OBVIOUS
  <2>1. Mine(q)' = Mine(q)
    BY <1>1 DEF Mine
  <2>2. /\ Ready(q, v)' <=> Ready(q, v)
        /\ \A n \in Mine(q) : Awaited(n, v)' <=> Awaited(n, v)
    BY <1>1, <2>1 DEF Ready, Awaited
  <2>3. ~Ready(q, v) <=> \E n \in Mine(q) : Awaited(n, v)
    BY DEF Ready, Awaited
  <2>4. CASE WaitOn(q)
    <3>1. Waiting(q) /\ Waiting(q)' /\ Served(q) /\ v = goal[q] /\ ~Ready(q, v) /\ wake' = wake
      BY <2>0, <2>4 DEF WaitOn, WaitInv, Safe, Waiting
    <3>2. \A n \in Mine(q) : Awaited(n, v) => RunComes(n, v)
      BY <3>1 DEF Served
    <3>3. wake \/ work.step \in Busy
      BY <2>3, <3>1, <3>2 DEF RunComes
    <3>4. Served(q)'
      BY <1>1, <2>0, <2>1, <2>2, <3>1, <3>2, <3>3 DEF Served, RunComes
    <3> QED  BY <1>1, <2>1, <2>3, <3>1, <3>4 DEF Safe, Held, Awaited
  <2>5. CASE (Promote(q) \/ Refresh(q)) /\ Ready(q, v)
    <3>1. v = latest /\ q \notin blocked /\ blocked' = blocked
      BY <2>0, <2>5 DEF Promote, Refresh, Waits, WaitInv, Safe, Held, Waiting, ChangesInv, IInv,
                        TypeOK
    <3>2. \A n \in Mine(q)' : ~Awaited(n, v)'
      BY <2>1, <2>2, <2>3, <2>5
    <3> QED  BY <2>0, <3>1, <3>2 DEF Safe, Held, Served
  <2>6. CASE (Promote(q) \/ Refresh(q)) /\ ~Ready(q, v)
    <3>1. v = latest /\ wake' /\ Waiting(q)'
      BY <2>0, <2>6 DEF Promote, Refresh, Waits, Waiting, ChangesInv, IInv, TypeOK
    <3> QED  BY <1>1, <2>1, <2>3, <2>6, <3>1 DEF Safe, Held, Served, RunComes, Awaited
  <2> QED  BY <1>1, <2>4, <2>5, <2>6
<1>4. \A r \in Realm \ {q} : Safe(r)'
  BY <1>1, <1>2, StaysSafe DEF WaitInv
<1> QED  BY <1>3, <1>4 DEF WaitInv

(* It goes on, or another Realm does something.                             *)
LEMMA RealmSafe ==
    ASSUME ChangesInv, WaitInv, NEW q \in Realm,
           \/ Waited(q) \/ Notify(q)
           \/ \E S \in SUBSET Mine(q) : Suppress(q, S)
           \/ CommitFails(q) \/ Commit(q) \/ Cancel(q) \/ Signal(q)
    PROVE  WaitInv'
<1>1. /\ UNCHANGED <<work, alive, news, main, blocked>> /\ (wake => wake')
      /\ \A r \in Realm \ {q} : stage'[r] = stage[r] /\ goal'[r] = goal[r]
      /\ ~Waiting(q)' /\ q \notin blocked
  BY DEF Waited, Notify, Suppress, CommitFails, Commit, Cancel, Signal, lists, file, Waiting,
         ChangesInv, IInv, TypeOK, WaitInv, Safe, Held
<1>2. ASSUME NEW n \in alive, Owner[n] # q
      PROVE  Alike(n) /\ nt'[n].cb = nt[n].cb
  <2>1. CASE Waited(q) \/ Notify(q)
    BY <1>1, <1>2, <2>1, WaitedBrings, NotifyBrings DEF Alike, ChangesInv, Ordered, Fine
  <2>2. CASE ~(Waited(q) \/ Notify(q))
    <3>1. nt'[n] \in {nt[n], Skipped(nt[n])} /\ nt[n] \in Notifiers
      BY <2>2 DEF Suppress, CommitFails, Commit, Cancel, Signal, Skipped, ChangesInv, IInv, TypeOK
    <3> QED  BY <1>1, <3>1, ChangedFields DEF Alike, SameRows
  <2> QED  BY <2>1, <2>2
<1>3. Safe(q)'
  BY <1>1 DEF Safe, Held
<1>4. \A r \in Realm \ {q} : Untouched(r)
  BY <1>1, <1>2 DEF Untouched
<1>5. \A r \in Realm \ {q} : Safe(r)'
  BY <1>1, <1>4, StaysSafe DEF WaitInv
<1> QED  BY <1>3, <1>5 DEF WaitInv

(* The worker runs who is waited for, and wakes who sleeps.                 *)
LEMMA WorkerSafe ==
    ASSUME ChangesInv, WaitInv, Worker
    PROVE  WaitInv'
<1>1. /\ \A r \in Realm : goal[r] \in Nat /\ goal[r] <= latest
      /\ UNCHANGED <<stage, goal>>
      /\ alive \subseteq Notifier
  BY VersionsAreNat
     DEF Worker, Start, SkipRun, SkipHand, Run, Hand, Post, threads, ChangesInv, IInv, Forward,
         TypeOK
<1>2. CASE Start
  <2>1. ASSUME NEW r \in Realm
        PROVE  Safe(r)'
    <3>1. CASE alive = {} /\ work'.step = "posting"
      <4>1. UNCHANGED <<blocked, alive, stage>> /\ Safe(r)
        BY <1>2, StartTakes DEF WaitInv
      <4>2. Mine(r) = {} /\ Mine(r)' = {}
        BY <3>1, <4>1 DEF Mine
      <4>3. Ready(r, goal[r])' /\ (r \in blocked' => OtherThreads /\ Waiting(r)')
        BY <4>1, <4>2 DEF Ready, Safe, Held, Waiting
      <4> QED  BY <1>1, <4>2, <4>3 DEF Safe, Held, Served
    <3>2. CASE /\ work'.step \in Busy /\ work'.target = latest
               /\ alive \subseteq work'.old \union work'.fresh
               /\ \A n \in alive : n \in news' \union main'
      <4>1. UNCHANGED <<blocked, alive, stage, nt>> /\ Safe(r)
            /\ \A n \in alive : n \in news \union main
        BY <1>2, StartTakes DEF WaitInv
      <4>2. Mine(r)' = Mine(r) /\ Mine(r) \subseteq alive
        BY <3>2, <4>1 DEF Mine
      <4> QED  BY <1>1, <3>2, <4>1, <4>2 DEF Safe, Held, Served, RunComes, Waiting
    <3> QED  BY <1>2, <3>1, <3>2, StartTakes
  <2> QED  BY <2>1 DEF WaitInv
<1>3. CASE SkipRun \/ Run
  <2>1. ASSUME NEW r \in Realm
        PROVE  Safe(r)'
    <3>1. Mine(r)' = Mine(r) /\ Mine(r) \subseteq Notifier
      BY <1>1, <1>3, RunKeepsBusy DEF Mine
    <3>2. \A n \in Mine(r) : Awaited(n, goal[r])' <=> Awaited(n, goal[r])
      BY <1>1, <1>3, <3>1, RunKeepsBusy DEF Awaited
    <3>3. \A n \in Mine(r) : RunComes(n, goal[r]) => RunComes(n, goal[r])'
      BY <1>1, <1>3, RunKeepsBusy DEF RunComes
    <3>4. /\ UNCHANGED blocked /\ work'.step \in Busy
          /\ \A n \in Mine(r) : nt'[n].cb = nt[n].cb
      BY <1>3, <3>1, RunKeepsBusy
    <3> QED
      BY <1>1, <3>1, <3>2, <3>3, <3>4 DEF WaitInv, Safe, Held, Served, Waiting
  <2> QED  BY <2>1 DEF WaitInv
<1>4. CASE SkipHand \/ Hand
  <2>1. ASSUME NEW r \in Realm
        PROVE  Safe(r)'
    <3>1. Mine(r)' = Mine(r) /\ Mine(r) \subseteq alive
      BY <1>4, HandBrings DEF Mine
    <3>2. ASSUME NEW n \in Mine(r), Awaited(n, goal[r])'
          PROVE  Awaited(n, goal[r])
      BY <1>1, <1>4, <3>1, <3>2, HandBrings, VersionsFollow DEF Awaited
    <3>3. ASSUME NEW n \in Mine(r), Waiting(r), Awaited(n, goal[r])'
          PROVE  RunComes(n, goal[r])'
      <4>1. RunComes(n, goal[r])
        BY <3>2, <3>3 DEF WaitInv, Safe, Served
      <4> QED
        BY <1>1, <1>4, <3>3, <4>1, HandBrings, BusyWith DEF RunComes, Awaited
    <3>4. /\ \A n \in Mine(r) : nt'[n].cb = nt[n].cb
          /\ blocked' = {} \/ (blocked' = blocked /\ work'.step \in Busy)
      BY <1>4, <3>1, HandBrings
    <3> QED
      BY <1>1, <3>1, <3>3, <3>4 DEF WaitInv, Safe, Held, Served, Waiting
  <2> QED  BY <2>1 DEF WaitInv
<1>5. CASE Post
  <2>1. /\ UNCHANGED <<blocked, alive, nt, wake, news, main>> /\ work.step \notin Busy
    BY <1>5 DEF Post, lists, Busy
  <2>2. ASSUME NEW r \in Realm
        PROVE  Safe(r)'
    <3>1. Mine(r)' = Mine(r)
      BY <2>1 DEF Mine
    <3>2. Ready(r, goal[r])' <=> Ready(r, goal[r])
      BY <1>1, <2>1, <3>1 DEF Ready
    <3> QED
      BY <1>1, <2>1, <3>1, <3>2 DEF WaitInv, Safe, Held, Served, Waiting, RunComes, Awaited
  <2> QED  BY <2>2 DEF WaitInv
<1> QED  BY <1>2, <1>3, <1>4, <1>5 DEF Worker

(* Whatever happens, those who wait are served.                             *)
LEMMA StepSafe ==
    ASSUME ChangesInv, WaitInv, [Next]_vars
    PROVE  WaitInv'
<1>1. CASE \E n \in Notifier, u \in Uses : Register(n, u)
  BY <1>1, TouchSafe
<1>2. CASE UserStep
  <2>1. CASE UNCHANGED vars
    <3>1. UNCHANGED <<stage, goal, blocked, work, wake, alive, nt, news, main>>
      BY <2>1 DEF vars, threads, lists
    <3>2. \A r \in Realm : Untouched(r)
      BY <3>1 DEF Untouched, Alike
    <3> QED  BY <3>1, <3>2, StaysSafe DEF WaitInv
  <2> QED  BY <1>2, <2>1, TouchSafe, WaitSafe, RealmSafe DEF UserStep
<1>3. CASE Worker
  BY <1>3, WorkerSafe
<1> QED  BY <1>1, <1>2, <1>3, StepsAre

(* No thread waits in package_and_wait for a run that nobody has asked for  *)
(* and that is not under way, or sleeps with no wake-up ahead: a Realm that *)
(* begins a write or refreshes is not left hanging by the order in which    *)
(* others commit, register and hand over.                                   *)
THEOREM WaitCorrectness == Spec => []WaitersAreServed
<1>1. Init => WaitInv
  BY DEF Init, WaitInv, Safe, Held, Waiting
<1>2. Spec => []WaitInv
  BY <1>1, StepSafe, ChangesInvariance, PTL DEF Spec
<1>3. WaitInv => WaitersAreServed
  BY DEF WaitInv, Safe, Waiting, WaitersAreServed
<1> QED  BY <1>2, <1>3, PTL

-----------------------------------------------------------------------------
(* What a Realm reads                                                       *)

(* A Realm waits for no version that it has left behind, and writes only    *)
(* what comes after the latest one.                                         *)
Reading ==
    \A r \in Realm :
        /\ stage[r] \in {"promoting", "refreshing"} => at[r] <= goal[r]
        /\ stage[r] \in {"writing", "committing"} => at[r] = latest

(* No Realm goes back to an older version.                                  *)
LEMMA ReadsOn ==
    ASSUME ChangesInv, Reading, NEW r \in Realm, Waited(r) \/ Notify(r)
    PROVE  /\ at' = [at EXCEPT ![r] = at'[r]] /\ at'[r] \in Version
           /\ at[r] <= at'[r] /\ at'[r] <= latest
           /\ stage'[r] = "writing" => at'[r] = latest
           /\ stage'[r] \in {"writing", "reading"}
<1>1. /\ at[r] \in Nat /\ goal[r] \in Nat /\ latest \in Nat /\ goal[r] <= latest /\ at[r] <= latest
      /\ stage \in [Realm -> Stage] /\ latest \in Version /\ at \in [Realm -> Version]
  BY VersionsAreNat DEF ChangesInv, IInv, Forward, TypeOK
<1> DEFINE P == HasRun(r)
           u == PackageVersion(P)
<1>2. P # {} => u \in Version /\ u \in Nat /\ u <= latest
  <2>1. P \subseteq Notifier
    BY DEF HasRun, Mine, ChangesInv, IInv, TypeOK
  <2> QED  BY <2>1, PackageVersionTyped, VersionsAreNat DEF ChangesInv, IInv
<1>3. CASE Waited(r)
  <2> DEFINE behind == P # {} /\ u < goal[r]
             v == IF P = {} \/ behind THEN latest ELSE u
  <2>1. /\ at' = [at EXCEPT ![r] = v]
        /\ stage' = [stage EXCEPT ![r] = IF @ = "promoting" THEN "writing" ELSE "reading"]
        /\ stage[r] \in {"promoting", "refreshing"}
    BY <1>3 DEF Waited
  <2>2. at[r] <= goal[r] /\ (stage[r] = "promoting" => goal[r] = latest)
    BY <2>1 DEF Reading, ChangesInv, Locked
  <2> HIDE DEF P, u
  <2>3. v \in Version /\ at[r] <= v /\ v <= latest /\ (stage[r] = "promoting" => v = latest)
    BY <1>1, <1>2, <2>2
  <2> HIDE DEF v
  <2> QED  BY <1>1, <2>1, <2>3
<1>4. CASE Notify(r)
  <2>1. \/ at' = at
        \/ at' = [at EXCEPT ![r] = latest] /\ stage[r] = "reading"
        \/ P # {} /\ ~(u < at[r]) /\ at' = [at EXCEPT ![r] = u] /\ stage[r] = "reading"
    BY <1>4 DEF Notify
  <2>2. stage' = stage /\ stage[r] \in {"reading", "writing"}
    BY <1>4 DEF Notify
  <2> HIDE DEF P, u
  <2> QED  BY <1>1, <1>2, <2>1, <2>2 DEF Reading
<1> QED  BY <1>3, <1>4

(* What a Realm reads is what it waits for, or writes after, at most.       *)
LEMMA StepReading ==
    ASSUME ChangesInv, Reading, [Next]_vars
    PROVE  Reading'
<1>1. /\ stage \in [Realm -> Stage] /\ goal \in [Realm -> 0 .. MaxVersion]
      /\ at \in [Realm -> Version]
      /\ \A r \in Realm : at[r] <= latest
  BY DEF ChangesInv, IInv, TypeOK, Forward
<1>2. CASE UNCHANGED <<stage, goal, at, latest>>
  BY <1>2 DEF Reading
<1>3. ASSUME NEW n \in Notifier,
             \/ \E u \in Uses : Register(n, u)
             \/ AddCallback(n) \/ Use(n) \/ RemoveCallback(n) \/ Unregister(n)
      PROVE  Reading'
  BY <1>2, <1>3 DEF Register, AddCallback, Use, RemoveCallback, Unregister, file, threads
<1>4. ASSUME NEW r \in Realm, Promote(r) \/ Refresh(r)
      PROVE  Reading'
  <2>1. /\ UNCHANGED <<at, latest>> /\ goal' = [goal EXCEPT ![r] = latest]
        /\ stage' = [stage EXCEPT ![r] = stage'[r]] /\ stage'[r] \in {"promoting", "refreshing"}
    BY <1>1, <1>4 DEF Promote, Refresh, Waits
  <2> QED  BY <1>1, <2>1 DEF Reading
<1>5. ASSUME NEW r \in Realm, Waited(r) \/ Notify(r)
      PROVE  Reading'
  <2>1. /\ \A q \in Realm \ {r} : stage'[q] = stage[q] /\ goal'[q] = goal[q]
        /\ latest' = latest
    BY <1>1, <1>5 DEF Waited, Notify
  <2> QED  BY <1>1, <1>5, <2>1, ReadsOn DEF Reading
<1>6. ASSUME NEW r \in Realm, NEW S, Suppress(r, S)
      PROVE  Reading'
  BY <1>1, <1>6 DEF Suppress, file, Reading
<1>7. ASSUME NEW r \in Realm, CommitFails(r) \/ Cancel(r) \/ Signal(r) \/ WaitOn(r)
      PROVE  Reading'
  BY <1>1, <1>7 DEF CommitFails, Cancel, Signal, WaitOn, file, Reading
<1>8. ASSUME NEW r \in Realm, Commit(r)
      PROVE  Reading'
  <2>1. /\ at' = [at EXCEPT ![r] = latest + 1] /\ goal' = goal
        /\ stage' = [stage EXCEPT ![r] = "signalling"] /\ stage[r] \in {"writing", "committing"}
    BY <1>8 DEF Commit
  <2>2. \A q \in Realm \ {r} : stage[q] \notin {"writing", "committing"}
    BY <2>1 DEF ChangesInv, Locked
  <2> QED  BY <1>1, <2>1, <2>2 DEF Reading
<1>9. CASE Worker
  BY <1>2, <1>9 DEF Worker, Start, SkipRun, SkipHand, Run, Hand, Post, file, threads
<1>10. CASE UNCHANGED vars
  BY <1>2, <1>10 DEF vars, file, threads
<1> QED  BY <1>3, <1>4, <1>5, <1>6, <1>7, <1>8, <1>9, <1>10 DEF Next, EndWrite

THEOREM ReadingInvariance == Spec => []Reading
<1>1. Init => Reading
  BY DEF Init, Reading
<1> QED  BY <1>1, StepReading, ChangesInvariance, PTL DEF Spec

-----------------------------------------------------------------------------
(* What is promised                                                         *)

(* A callback that has been called knows a version.                         *)
Knows == \A n \in alive : nt[n].cb = "told" => nt[n].told # None

LEMMA StepKnows ==
    ASSUME ChangesInv, Knows, [Next]_vars
    PROVE  Knows'
<1>1. \A n \in Notifier : nt[n] \in Notifiers /\ Owner[n] \in Realm
  BY ConstantsAssumption DEF ChangesInv, IInv, TypeOK
<1>2. CASE SameTold(Notifier) /\ alive' \subseteq alive
  BY <1>2 DEF SameTold, Knows, ChangesInv, IInv, TypeOK
<1>3. ASSUME NEW n \in Notifier,
             \/ \E u \in Uses : Register(n, u)
             \/ AddCallback(n) \/ Use(n) \/ RemoveCallback(n) \/ Unregister(n)
      PROVE  Knows'
  <2>1. /\ alive' \subseteq alive \union {n} /\ alive \subseteq Notifier
        /\ \A m \in Notifier \ {n} : nt'[m] = nt[m]
        /\ \/ \E u \in Uses : Register(n, u)
           \/ /\ nt'[n] \in {nt[n], Added(nt[n]), Used(nt[n]), Removed(nt[n])} /\ n \in alive
    BY <1>3 DEF Register, AddCallback, Use, RemoveCallback, Unregister, Added, Used, Removed,
                ChangesInv, IInv, TypeOK
  <2>2. nt'[n].cb # "told" \/ (n \in alive /\ nt'[n].cb = nt[n].cb /\ nt'[n].told = nt[n].told)
    BY <1>1, <2>1, ChangedFields, RegisterIs DEF ChangesInv
  <2> QED  BY <2>1, <2>2 DEF Knows
<1>4. ASSUME NEW r \in Realm, Waited(r) \/ Notify(r)
      PROVE  Knows'
  <2>1. /\ \A n \in alive : Owner[n] = r => Brought(r, n)
        /\ \A n \in alive : Owner[n] # r => nt'[n] = nt[n]
        /\ alive' = alive
    BY <1>4, WaitedBrings, NotifyBrings DEF Waited, Notify, ChangesInv, Ordered, Fine
  <2>2. ASSUME NEW n \in alive, Brought(r, n)
        PROVE  nt'[n].cb = "told" => nt'[n].told # None
    <3>1. nt[n] \in Notifiers /\ nt[n].ver \in Version
      BY VersionsFollow, VersionsAreNat DEF ChangesInv, IInv
    <3>2. nt[n].ver # None
      BY <3>1, VersionsTyped
    <3>3. \A w \in BOOLEAN :
            /\ Delivered(nt[n], nt[n].ver, w).cb = IF nt[n].cb = "none" THEN "none" ELSE "told"
            /\ nt[n].cb # "none" => Delivered(nt[n], nt[n].ver, w).told = nt[n].ver
      BY <3>1, DeliveredTold
    <3>4. Dropped(nt[n]).cb = nt[n].cb /\ Dropped(nt[n]).told = nt[n].told
      BY <3>1, SilentSteps
    <3> QED  BY <2>2, <3>2, <3>3, <3>4 DEF Brought, Knows
  <2> QED  BY <2>1, <2>2 DEF Knows
<1>5. ASSUME NEW r \in Realm,
             \/ Promote(r) \/ Refresh(r) \/ WaitOn(r)
             \/ \E S \in SUBSET Mine(r) : Suppress(r, S)
             \/ CommitFails(r) \/ Commit(r) \/ Cancel(r) \/ Signal(r)
      PROVE  Knows'
  <2>1. alive' = alive /\ \A n \in Notifier : nt'[n] \in {nt[n], Skipped(nt[n])}
    BY <1>5 DEF Promote, Refresh, Waits, WaitOn, CommitFails, Commit, Cancel, Signal, Suppress,
                Skipped
  <2> QED  BY <1>1, <1>2, <2>1, ChangedFields DEF SameTold
<1>6. CASE Worker
  BY <1>2, <1>6, WorkerSilent DEF ChangesInv
<1>7. CASE UNCHANGED vars
  BY <1>2, <1>7 DEF vars, SameTold
<1> QED  BY <1>3, <1>4, <1>5, <1>6, <1>7, StepsAre DEF UserStep

(* What a subscription is, before a step and after it.                      *)
Told(n) == n \in Undisturbed /\ nt[n].cb = "told"
LEMMA SubscriptionIs ==
    ASSUME NEW n \in Notifier
    PROVE  /\ ~Told(n) => Subscription(n) = Promise!Nothing
           /\ ~Told(n)' => Subscription(n)' = Promise!Nothing
           /\ Told(n) => Subscription(n) = [known |-> nt[n].told, arrived |-> nt[n].ver,
                                            waiting |-> nt[n].acc, silent |-> muted[n]]
           /\ Told(n)' => Subscription(n)' = [known |-> nt'[n].told, arrived |-> nt'[n].ver,
                                              waiting |-> nt'[n].acc, silent |-> muted'[n]]
           /\ Knows /\ Told(n) => Promise!Promised(n)
           /\ ~Told(n) => ~Promise!Promised(n)
<1>1. ~Told(n) => Subscription(n) = Promise!Nothing
  BY DEF Told, Subscription, Promise!Nothing, None, Promise!None
<1>2. ~Told(n)' => Subscription(n)' = Promise!Nothing
  BY DEF Told, Subscription, Promise!Nothing, None, Promise!None
<1>3. Told(n) => Subscription(n) = [known |-> nt[n].told, arrived |-> nt[n].ver,
                                    waiting |-> nt[n].acc, silent |-> muted[n]]
  BY DEF Told, Subscription
<1>4. Told(n)' => Subscription(n)' = [known |-> nt'[n].told, arrived |-> nt'[n].ver,
                                      waiting |-> nt'[n].acc, silent |-> muted'[n]]
  BY DEF Told, Subscription
<1>5. Knows /\ Told(n) => Promise!Promised(n)
  BY <1>3 DEF Knows, Told, Undisturbed, Promise!Promised, None, Promise!None
<1>6. ~Told(n) => ~Promise!Promised(n)
  BY <1>1 DEF Promise!Promised, Promise!Nothing
<1> QED  BY <1>1, <1>2, <1>3, <1>4, <1>5, <1>6

(* Steps that promise nothing new.                                          *)
LEMMA LeaveIs ==
    ASSUME UNCHANGED <<latest, at>>,
           \A n \in Notifier : Told(n)' =>
               /\ Told(n) /\ muted'[n] = muted[n]
               /\ nt'[n].told = nt[n].told /\ nt'[n].ver = nt[n].ver /\ nt'[n].acc = nt[n].acc
    PROVE  Promise!Leave
<1>1. ASSUME NEW n \in Notifier
      PROVE  Subscription(n)' \in {Subscription(n), Promise!Nothing}
  BY <1>1, SubscriptionIs
<1> QED  BY <1>1 DEF Promise!Leave

(* What the user does to a notifier promises nothing ...                    *)
LEMMA TouchPromises ==
    ASSUME ChangesInv, NEW n \in Notifier,
           \/ \E u \in Uses : Register(n, u)
           \/ AddCallback(n) \/ Use(n) \/ RemoveCallback(n) \/ Unregister(n)
    PROVE  Promise!Leave
<1>1. /\ nt[n] \in Notifiers /\ UNCHANGED <<latest, at>>
      /\ alive' \subseteq alive \union {n} /\ alive \subseteq Notifier
      /\ \A m \in Notifier \ {n} :
           /\ nt'[m] = nt[m] /\ muted'[m] = muted[m]
           /\ m \in passedOver' \union mixedUp' <=> m \in passedOver \union mixedUp
  BY DEF Register, AddCallback, Use, RemoveCallback, Unregister, file, history,
         ChangesInv, IInv, TypeOK
<1>2. CASE \E u \in Uses : Register(n, u)
  <2>1. ~Told(n)'
    BY <1>2, RegisterIs DEF ChangesInv, Told
  <2> QED  BY <1>1, <2>1, LeaveIs DEF Told, Undisturbed
<1>3. CASE AddCallback(n) \/ Use(n) \/ RemoveCallback(n) \/ Unregister(n)
  <2>1. /\ UNCHANGED <<passedOver, mixedUp>> /\ alive' \subseteq alive
        /\ \/ nt'[n] \in {Added(nt[n]), Removed(nt[n])}
           \/ nt'[n] \in {nt[n], Used(nt[n])} /\ muted' = muted
    BY <1>3 DEF AddCallback, Use, RemoveCallback, Unregister, Added, Used, Removed, history,
                ChangesInv, IInv, TypeOK
  <2>2. \/ nt'[n].cb # "told"
        \/ /\ nt'[n].cb = nt[n].cb /\ nt'[n].told = nt[n].told /\ nt'[n].ver = nt[n].ver
           /\ nt'[n].acc = nt[n].acc /\ muted' = muted
    BY <1>1, <2>1, ChangedFields DEF SameRows
  <2> QED  BY <1>1, <2>1, <2>2, LeaveIs DEF Told, Undisturbed
<1> QED  BY <1>2, <1>3

(* ... nor does what a Realm does without going to another version ...      *)
LEMMA RealmPromises ==
    ASSUME ChangesInv, NEW r \in Realm,
           \/ Promote(r) \/ Refresh(r) \/ WaitOn(r)
           \/ \E S \in SUBSET Mine(r) : Suppress(r, S)
           \/ CommitFails(r) \/ Cancel(r) \/ Signal(r)
    PROVE  Promise!Leave
<1>1. /\ UNCHANGED <<latest, at, alive, muted, passedOver>> /\ mixedUp \subseteq mixedUp'
      /\ \A n \in Notifier : nt[n] \in Notifiers /\ nt'[n] \in {nt[n], Skipped(nt[n])}
  BY DEF Promote, Refresh, Waits, WaitOn, CommitFails, Cancel, Signal, Suppress, Skipped, file,
         history, ChangesInv, IInv, TypeOK
<1>2. \A n \in Notifier :
        /\ nt'[n].cb = nt[n].cb /\ nt'[n].told = nt[n].told /\ nt'[n].ver = nt[n].ver
        /\ nt'[n].acc = nt[n].acc
  BY <1>1, ChangedFields DEF SameRows
<1> QED  BY <1>1, <1>2, LeaveIs DEF Told, Undisturbed

(* ... nor what the worker does before it hands over.                       *)
LEMMA RunPromises ==
    ASSUME ChangesInv, Start \/ SkipRun \/ Run \/ Post
    PROVE  Promise!Leave
<1>1. CASE Start \/ Post
  <2>1. UNCHANGED <<latest, at, alive, nt, muted, passedOver, mixedUp>>
    BY <1>1 DEF Start, Post, file, history
  <2> QED  BY <2>1, LeaveIs DEF Told, Undisturbed
<1>2. CASE SkipRun \/ Run
  <2> DEFINE v == IF SkipRun THEN work.skipTo ELSE work.target
  <2>1. /\ UNCHANGED <<latest, at, alive, muted, mixedUp>>
        /\ \E S : RunAll(S, v)
    BY <1>2 DEF SkipRun, Run, file
  <2>2. v \in Version
    BY <1>2, PendingIs DEF SkipRun, Run, Busy, ChangesInv
  <2> HIDE DEF v
  <2>3. passedOver \subseteq passedOver'
        /\ \A n \in Notifier : nt[n] \in Notifiers /\ nt'[n] \in {nt[n], Ran(nt[n], v)}
    BY <2>1 DEF RunAll, ChangesInv, IInv, TypeOK
  <2>4. \A n \in Notifier :
          /\ Ran(nt[n], v).acc = nt[n].acc /\ Ran(nt[n], v).ver = nt[n].ver
          /\ Ran(nt[n], v).cb = nt[n].cb /\ Ran(nt[n], v).told = nt[n].told
    BY <2>2, <2>3, RanFields, RanTyped, SilentSteps
  <2> QED  BY <2>1, <2>3, <2>4, LeaveIs DEF Told, Undisturbed
<1> QED  BY <1>1, <1>2

(* A commit follows the latest version, and the callbacks that it suppresses*)
(* are those of its own Realm.                                              *)
LEMMA CommitPromises ==
    ASSUME ChangesInv, Reading, Knows, NEW r \in Realm, Commit(r)
    PROVE  Promise!Commit(r)
<1>1. /\ latest' = latest + 1 /\ at' = [at EXCEPT ![r] = latest + 1]
      /\ UNCHANGED <<alive, nt, passedOver>> /\ mixedUp \subseteq mixedUp'
      /\ stage[r] \in {"writing", "committing"}
      /\ \A n \in Notifier : muted'[n] = IF n \in quiet THEN muted[n] \union {latest + 1}
                                                       ELSE muted[n]
  BY DEF Commit
<1>2. at[r] = latest
  BY <1>1 DEF Reading
<1>3. ASSUME NEW n \in Notifier
      PROVE  \/ Subscription(n)' \in {Subscription(n), Promise!Nothing}
             \/ /\ Promise!Promised(n) /\ Owner[n] = r
                /\ Subscription(n)' = Promise!Silenced(Subscription(n), latest + 1)
  <2>1. CASE ~Told(n)'
    BY <2>1, SubscriptionIs
  <2>2. CASE Told(n)' /\ n \notin quiet
    BY <1>1, <2>2, SubscriptionIs DEF Told, Undisturbed
  <2>3. CASE Told(n)' /\ n \in quiet
    <3>1. Told(n) /\ Owner[n] = r
      BY <1>1, <2>3, OneCommits DEF Told, Undisturbed, ChangesInv
    <3>2. /\ Promise!Promised(n)
          /\ Subscription(n) = [known |-> nt[n].told, arrived |-> nt[n].ver,
                                waiting |-> nt[n].acc, silent |-> muted[n]]
          /\ Subscription(n)' = [known |-> nt'[n].told, arrived |-> nt'[n].ver,
                                 waiting |-> nt'[n].acc, silent |-> muted'[n]]
      BY <2>3, <3>1, SubscriptionIs
    <3>3. nt'[n] = nt[n] /\ muted'[n] = muted[n] \union {latest + 1}
      BY <1>1, <2>3
    <3>4. Subscription(n)' = Promise!Silenced(Subscription(n), latest + 1)
      BY <3>2, <3>3 DEF Promise!Silenced
    <3> QED  BY <3>1, <3>2, <3>4
  <2> QED  BY <2>1, <2>2, <2>3
<1> QED  BY <1>1, <1>2, <1>3 DEF Promise!Commit

(* A hand-over brings a callback what happened from where the last one had  *)
(* got to, but for what it is not to be told.                               *)
LEMMA HandPromises ==
    ASSUME ChangesInv, ChangesInv', Knows, SkipHand \/ Hand
    PROVE  \E v \in 1 .. latest : Promise!Arrive(v)
<1> DEFINE v == PendingAt
<1>1. /\ work.step \in {"skipped", "ran"} /\ HandAll(Pending, v)
      /\ v \in Version /\ v \in Nat /\ Pending \subseteq main /\ main \subseteq Notifier
      /\ helper = v
      /\ UNCHANGED <<latest, at, alive, muted, passedOver>> /\ mixedUp \subseteq mixedUp'
  BY HandedIs, VersionsTyped DEF ChangesInv, Following, file, IInv, TypeOK, HandAll
<1>2. v \in 1 .. latest
  <2>1. v <= latest /\ latest \in Nat
    BY <1>1, VersionsAreNat DEF ChangesInv, IInv, Forward
  <2> QED  BY <1>1, <2>1 DEF Version
<1> HIDE DEF v
<1>3. \A n \in Pending : nt'[n].ver = v
  BY <1>1, HandAllTyped DEF ChangesInv, IInv
<1>4. SameTold(Notifier)
  BY <1>1, HandSilent DEF ChangesInv
<1>5. ASSUME NEW n \in Notifier, Told(n)'
      PROVE  /\ Promise!Promised(n) /\ Subscription(n).arrived <= v
             /\ Subscription(n)' = Promise!Brought(Subscription(n), v)
  <2>1. Told(n) /\ n \in alive
    BY <1>1, <1>4, <1>5 DEF Told, Undisturbed, SameTold
  <2>2. /\ nt[n].hasRun /\ n \in main /\ nt[n].told <= nt[n].ver /\ nt[n].ver <= v
        /\ nt[n].told \in Nat /\ nt[n].ver \in Nat
    BY <1>1, <2>1, VersionsFollow DEF Told
  <2>3. n \in Pending
    BY <1>1, <2>2 DEF ChangesInv, IInv, Listed, Busy, Pending
  <2>4. /\ nt[n].acc = (nt[n].told + 1 .. nt[n].ver) \ muted[n]
        /\ nt'[n].acc = (nt'[n].told + 1 .. nt'[n].ver) \ muted'[n]
    BY <1>5, <2>1 DEF ChangesInv, Fine, Continues, Told, Undisturbed
  <2>5. nt'[n].told = nt[n].told /\ nt'[n].ver = v /\ muted'[n] = muted[n]
    BY <1>1, <1>3, <1>4, <2>3 DEF SameTold
  <2>6. (nt[n].told + 1 .. v) = (nt[n].told + 1 .. nt[n].ver) \union (nt[n].ver + 1 .. v)
    BY <1>1, <2>2
  <2>7. nt'[n].acc = nt[n].acc \union ((nt[n].ver + 1 .. v) \ muted[n])
    BY <2>4, <2>5, <2>6
  <2> HIDE DEF Told
  <2> QED  BY <1>5, <2>1, <2>2, <2>5, <2>7, SubscriptionIs DEF Promise!Brought
<1>6. \A n \in Notifier : ~Told(n)' => Subscription(n)' = Promise!Nothing
  BY SubscriptionIs
<1>7. Promise!Arrive(v)
  BY <1>1, <1>5, <1>6 DEF Promise!Arrive
<1> QED  BY <1>2, <1>7

(* The callbacks of a Realm that goes on are called with what leads there,  *)
(* and those of one that does not only with what leads to where it is.      *)
LEMMA BroughtPromises ==
    ASSUME ChangesInv, Knows, NEW n \in alive, Brought(Owner[n], n),
           UNCHANGED <<alive, muted, passedOver, mixedUp>>
    PROVE  \/ Promise!Call(n, at'[Owner[n]])
           \/ Subscription(n)' = Subscription(n) /\ at'[Owner[n]] = at[Owner[n]]
<1>1. /\ n \in Notifier /\ nt[n] \in Notifiers /\ nt[n].ver \in Version /\ nt[n].ver \in Nat
      /\ nt[n].told \in Nat
      /\ nt[n].cb \in {"none", "added", "told"} /\ Marking(n)
  BY VersionsFollow, VersionsAreNat DEF ChangesInv, IInv, Fine, Notifiers
<1>2. n \in Undisturbed' <=> n \in Undisturbed
  BY DEF Undisturbed
<1>3. ASSUME ~Told(n), ~Told(n)'
      PROVE  Promise!Call(n, at'[Owner[n]])
  BY <1>1, <1>3, SubscriptionIs DEF Promise!Call
<1>4. CASE nt'[n] = nt[n] /\ (nt[n].cb = "told" => at'[Owner[n]] = at[Owner[n]])
  <2>1. CASE nt[n].cb # "told"
    BY <1>3, <1>4, <2>1 DEF Told
  <2>2. CASE nt[n].cb = "told"
    <3>1. Subscription(n)' = Subscription(n)
      BY <1>2, <1>4 DEF Subscription
    <3> QED  BY <1>4, <2>2, <3>1
  <2> QED  BY <2>1, <2>2
<1>5. ASSUME NEW w \in BOOLEAN, nt'[n] = Delivered(nt[n], nt[n].ver, w), at'[Owner[n]] = nt[n].ver
      PROVE  Promise!Call(n, at'[Owner[n]])
  <2>1. /\ nt'[n].cb = IF nt[n].cb = "none" THEN "none" ELSE "told"
        /\ nt[n].cb # "none" => nt'[n].told = nt[n].ver
        /\ nt'[n].ver = nt[n].ver /\ nt'[n].acc = {}
    BY <1>1, <1>5, DeliveredTold, DeliveredFields DEF SameRows
  <2>2. CASE n \notin Undisturbed \/ nt[n].cb = "none"
    BY <1>2, <1>3, <2>1, <2>2 DEF Told
  <2>3. CASE n \in Undisturbed /\ nt[n].cb = "added"
    <3>1. ~Told(n) /\ Told(n)' /\ muted'[n] = {}
      BY <1>1, <1>2, <2>1, <2>3 DEF Told, Marking
    <3> QED
      BY <1>1, <1>5, <2>1, <2>3, <3>1, SubscriptionIs DEF Promise!Call, Promise!First
  <2>4. CASE n \in Undisturbed /\ nt[n].cb = "told"
    <3>1. Told(n) /\ Told(n)'
      BY <1>2, <2>1, <2>4 DEF Told
    <3>2. /\ Subscription(n) = [known |-> nt[n].told, arrived |-> nt[n].ver,
                                waiting |-> nt[n].acc, silent |-> muted[n]]
          /\ Subscription(n)' = [known |-> nt'[n].told, arrived |-> nt'[n].ver,
                                 waiting |-> nt'[n].acc, silent |-> muted'[n]]
          /\ Promise!Promised(n)
      BY <1>1, <3>1, SubscriptionIs
    <3>3. Subscription(n)' = Promise!Called(Subscription(n), nt[n].ver)
      BY <2>1, <2>4, <3>1, <3>2 DEF Promise!Called
    <3> QED  BY <1>1, <1>5, <3>2, <3>3 DEF Promise!Call
  <2> QED  BY <1>1, <2>2, <2>3, <2>4
<1>6. CASE nt'[n] = Dropped(nt[n])
           /\ (nt[n].cb = "told" => nt[n].told = nt[n].ver /\ at'[Owner[n]] = at[Owner[n]])
  <2>1. /\ nt'[n].cb = nt[n].cb /\ nt'[n].told = nt[n].told
        /\ nt'[n].ver = nt[n].ver /\ nt'[n].acc = {}
    BY <1>1, <1>6, SilentSteps, DroppedFields DEF SameRows
  <2>2. CASE ~Told(n)
    BY <1>2, <1>3, <2>1, <2>2 DEF Told
  <2>3. CASE Told(n)
    <3>1. nt[n].acc = (nt[n].told + 1 .. nt[n].ver) \ muted[n] /\ nt[n].told = nt[n].ver
      BY <1>6, <2>3 DEF Told, Undisturbed, ChangesInv, Fine, Continues
    <3>2. nt[n].acc = {}
      BY <1>1, <3>1
    <3>3. Told(n)'
      BY <1>2, <2>1, <2>3 DEF Told
    <3>4. Subscription(n)' = Subscription(n)
      BY <1>1, <2>1, <2>3, <3>2, <3>3, SubscriptionIs
    <3> QED  BY <1>6, <2>3, <3>4 DEF Told
  <2> QED  BY <2>2, <2>3
<1> QED  BY <1>4, <1>5, <1>6 DEF Brought

(* Delivery is that of a Realm that goes on, or tells what has arrived.     *)
LEMMA GoOnPromises ==
    ASSUME ChangesInv, Reading, Knows, NEW r \in Realm, Waited(r) \/ Notify(r)
    PROVE  Promise!Tell(r) \/ \E v \in at[r] + 1 .. latest : Promise!Advance(r, v)
<1>1. /\ UNCHANGED <<latest, alive, muted, passedOver, mixedUp>>
      /\ \A n \in alive : Owner[n] = r => Brought(r, n)
      /\ \A n \in alive : Owner[n] # r => nt'[n] = nt[n]
  BY WaitedBrings, NotifyBrings DEF Waited, Notify, history, ChangesInv, Ordered, Fine
<1>2. /\ at' = [at EXCEPT ![r] = at'[r]] /\ at[r] \in Nat /\ at'[r] \in Nat /\ latest \in Nat
      /\ at[r] <= at'[r] /\ at'[r] <= latest
  <2>1. at'[r] \in Version /\ at[r] \in Nat /\ latest \in Nat
    BY ReadsOn, VersionsAreNat DEF ChangesInv, IInv
  <2> QED  BY <2>1, ReadsOn DEF Version
<1>3. ASSUME NEW n \in Notifier, Owner[n] # r
      PROVE  Subscription(n)' = Subscription(n)
  <2>1. Told(n)' <=> Told(n)
    BY <1>1, <1>3 DEF Told, Undisturbed
  <2>2. Told(n) => nt'[n] = nt[n] /\ muted'[n] = muted[n]
    BY <1>1, <1>3 DEF Told, Undisturbed
  <2> QED  BY <2>1, <2>2, SubscriptionIs
<1>4. ASSUME NEW n \in Notifier, Owner[n] = r
      PROVE  \/ Promise!Call(n, at'[r])
             \/ Subscription(n)' = Subscription(n) /\ at'[r] = at[r]
  <2>1. CASE n \in alive
    BY <1>1, <1>4, <2>1, BroughtPromises
  <2>2. CASE n \notin alive
    <3>1. ~Told(n) /\ ~Told(n)'
      BY <1>1, <2>2 DEF Told, Undisturbed
    <3> QED  BY <3>1, SubscriptionIs DEF Promise!Call
  <2> QED  BY <2>1, <2>2
<1>5. CASE at'[r] = at[r]
  <2>1. at' = at
    BY <1>2, <1>5 DEF ChangesInv, IInv, TypeOK
  <2>2. Promise!Tell(r)
    BY <1>1, <1>3, <1>4, <1>5, <2>1 DEF Promise!Tell
  <2> QED  BY <2>2
<1>6. CASE at'[r] # at[r]
  <2> PICK v : v = at'[r]
    OBVIOUS
  <2>1. v \in at[r] + 1 .. latest /\ at[r] < v /\ v <= latest
    BY <1>2, <1>6
  <2>2. at' = [at EXCEPT ![r] = v] /\ UNCHANGED latest
    BY <1>1, <1>2
  <2>3. \A n \in Notifier : IF Owner[n] = r THEN Promise!Call(n, v)
                                          ELSE Subscription(n)' = Subscription(n)
    BY <1>3, <1>4, <1>6
  <2>4. Promise!Advance(r, v)
    BY <2>1, <2>2, <2>3 DEF Promise!Advance
  <2> QED  BY <2>1, <2>4
<1> QED  BY <1>5, <1>6

(* Every step keeps the promise, or is none that it knows of.               *)
LEMMA StepPromises ==
    ASSUME ChangesInv, ChangesInv', Reading, Knows, [Next]_vars
    PROVE  [Promise!Next]_(Promise!vars)
<1>1. ASSUME NEW n \in Notifier,
             \/ \E u \in Uses : Register(n, u)
             \/ AddCallback(n) \/ Use(n) \/ RemoveCallback(n) \/ Unregister(n)
      PROVE  Promise!Leave
  BY <1>1, TouchPromises
<1>2. ASSUME NEW r \in Realm,
             \/ Promote(r) \/ Refresh(r) \/ WaitOn(r)
             \/ \E S \in SUBSET Mine(r) : Suppress(r, S)
             \/ CommitFails(r) \/ Cancel(r) \/ Signal(r)
      PROVE  Promise!Leave
  BY <1>2, RealmPromises
<1>3. ASSUME NEW r \in Realm, Waited(r) \/ Notify(r) \/ Commit(r)
      PROVE  Promise!Next
  BY <1>3, GoOnPromises, CommitPromises DEF Promise!Next
<1>4. CASE Worker
  BY <1>4, RunPromises, HandPromises DEF Worker, Promise!Next
<1>5. CASE UNCHANGED vars
  <2>1. Promise!Leave
    BY <1>5, LeaveIs DEF vars, file, history, Told, Undisturbed
  <2> QED  BY <2>1 DEF Promise!Next
<1> QED  BY <1>1, <1>2, <1>3, <1>4, <1>5, StepsAre DEF UserStep, Promise!Next

(* The coordinator, with its notifiers, its worker and its locks, keeps     *)
(* what Realm promises: no write is lost to another, no Realm goes back, a  *)
(* callback is called with exactly what happened since it was called last,  *)
(* at the version that its Realm reads, and for all callbacks of a Realm    *)
(* at once.  Writes are begun outside callbacks.                            *)
THEOREM DeliveryCorrectness == Spec => ImplementsDelivery
<1>1. Init => Promise!Init
  BY DEF Init, Promise!Init, Subscription, Undisturbed, Promise!Nothing, None, Promise!None
<1>2. Init => Knows
  BY DEF Init, Knows
<1>3. Spec => []Knows
  BY <1>2, StepKnows, ChangesInvariance, PTL DEF Spec
<1>4. ChangesInv /\ ChangesInv' /\ Reading /\ Knows /\ [Next]_vars => [Promise!Next]_(Promise!vars)
  BY StepPromises
<1> QED
  BY <1>1, <1>3, <1>4, ChangesInvariance, ReadingInvariance, PTL
     DEF Spec, ImplementsDelivery, Promise!Spec
=============================================================================
