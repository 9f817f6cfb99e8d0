------------------------- MODULE CoordinatorProofs -------------------------
(***************************************************************************)
(* Proofs about Coordinator.tla, for any number of Realms, Results and     *)
(* versions.                                                               *)
(***************************************************************************)
EXTENDS Coordinator, TLAPS

(* While the worker is busy it has every notifier with it that is not new,  *)
(* and none that is new has run.                                            *)
Listed ==
    /\ news \intersect main = {}
    /\ work.step \notin Busy => work.old = {} /\ work.fresh = {}
    /\ work.step \in Busy =>
         /\ main = work.old \union work.fresh /\ main # {}
         /\ work.old \intersect work.fresh = {}
         /\ work.target # None
    /\ work.step \in {"skipping", "skipped"} => work.skipTo # None
    /\ \A n \in news \union work.fresh : ~nt[n].hasRun

(* No version is past the latest one, a version to skip to is kept for      *)
(* notifiers that are there, and neither it nor a run is behind the worker. *)
Forward ==
    /\ helper <= latest
    /\ skipVersion # None => main # {} /\ helper <= skipVersion /\ skipVersion <= latest
    /\ work.step \in Busy =>
         /\ helper <= work.target /\ work.target <= latest
         /\ skipVersion # None => work.target <= skipVersion
    /\ work.step \in {"skipping", "skipped"} =>
         work.old # {} /\ helper <= work.skipTo /\ work.skipTo <= work.target
    /\ \A n \in Notifier : nt[n].ver <= latest
    /\ \A r \in Realm : at[r] <= latest /\ goal[r] <= latest

IInv == TypeOK /\ Listed /\ VersionsArePinned /\ OnePackageVersion /\ Forward

(* The notifiers stay typed, at their versions, and as run as they were.    *)
Kept ==
    /\ nt' \in [Notifier -> Notifiers]
    /\ \A n \in Notifier : nt'[n].ver = nt[n].ver /\ nt'[n].hasRun = nt[n].hasRun

(* Notifiers, whatever versions are. *)
Records(Version0, Changes, Ver) ==
    [cb: {"none", "added", "told"}, told: Version0, acc: Changes,
     skip: BOOLEAN, ver: Ver, hasRun: BOOLEAN, rowsAt: Version0,
     delta: Changes, tv: Version0, handover: Version0,
     wanted: BOOLEAN, used: {"query", "used", "unused"}]

(* Notifiers is the set of them.                                            *)
LEMMA NotifiersAreRecords == Notifiers = Records(0 .. MaxVersion, SUBSET Version, Version)
  BY DEF Notifiers, Records

(* What versions are, and the changes between two of them.                  *)
LEMMA VersionsTyped ==
    /\ None \in 0 .. MaxVersion /\ Version \subseteq 0 .. MaxVersion /\ None \notin Version
    /\ \A v \in Version : v \in Nat
    /\ \A r \in 0 .. MaxVersion, v \in 0 .. MaxVersion : r + 1 .. v \in SUBSET Version
  BY ConstantsAssumption DEF None, Version

(* A new notifier has not run, at the version that it is made at.           *)
LEMMA NewTyped ==
    ASSUME NEW v \in Version, NEW u \in {"query", "used"}
    PROVE  /\ New(v, u) \in Notifiers
           /\ New(v, u).ver = v /\ ~New(v, u).hasRun
  BY ConstantsAssumption DEF New, Notifiers, Version, None

(* Delivery leaves a notifier at its version.                               *)
LEMMA DeliveredTyped ==
    ASSUME NEW s \in Notifiers, NEW v \in Version, NEW w \in BOOLEAN
    PROVE  /\ Delivered(s, v, w) \in Notifiers
           /\ Delivered(s, v, w).ver = s.ver /\ Delivered(s, v, w).hasRun = s.hasRun
<1>1. ASSUME NEW Version0, NEW Changes, NEW Ver, s \in Records(Version0, Changes, Ver),
             None \in Version0, v \in Version0, {} \in Changes
      PROVE  /\ Delivered(s, v, w) \in Records(Version0, Changes, Ver)
             /\ Delivered(s, v, w).ver = s.ver /\ Delivered(s, v, w).hasRun = s.hasRun
  BY <1>1 DEF Delivered, Records
<1> QED  BY <1>1, VersionsTyped, NotifiersAreRecords

(* So does dropping what was packaged.                                      *)
LEMMA DroppedTyped ==
    ASSUME NEW s \in Notifiers
    PROVE  /\ Dropped(s) \in Notifiers
           /\ Dropped(s).ver = s.ver /\ Dropped(s).hasRun = s.hasRun
<1>1. ASSUME NEW Version0, NEW Changes, NEW Ver, s \in Records(Version0, Changes, Ver),
             None \in Version0, {} \in Changes
      PROVE  /\ Dropped(s) \in Records(Version0, Changes, Ver)
             /\ Dropped(s).ver = s.ver /\ Dropped(s).hasRun = s.hasRun
  BY <1>1 DEF Dropped, Records
<1> QED  BY <1>1, VersionsTyped, NotifiersAreRecords

(* So does running its query: the version follows with the hand-over.       *)
LEMMA RanTyped ==
    ASSUME NEW s \in Notifiers, NEW v \in Version
    PROVE  /\ Ran(s, v) \in Notifiers
           /\ Ran(s, v).ver = s.ver /\ Ran(s, v).hasRun = s.hasRun
<1>1. ASSUME NEW Version0, NEW Changes, NEW Ver, s \in Records(Version0, Changes, Ver),
             v \in Version0, {} \in Changes, s.rowsAt + 1 .. v \in Changes
      PROVE  /\ Ran(s, v) \in Records(Version0, Changes, Ver)
             /\ Ran(s, v).ver = s.ver /\ Ran(s, v).hasRun = s.hasRun
  <2> DEFINE d == s.rowsAt + 1 .. v
  <2>1. Ran(s, v) = [s EXCEPT !.tv = v, !.rowsAt = v, !.delta = IF s.hasRun THEN d ELSE {}]
    BY DEF Ran
  <2>2. d \in Changes
    BY <1>1
  <2> HIDE DEF d
  <2> QED  BY <1>1, <2>1, <2>2 DEF Records
<1>2. s.rowsAt \in 0 .. MaxVersion
  BY DEF Notifiers
<1> QED  BY <1>1, <1>2, VersionsTyped, NotifiersAreRecords

(* A notifier that is handed over has run, at the version of the worker.    *)
LEMMA HandedTyped ==
    ASSUME NEW s \in Notifiers, NEW v \in Version
    PROVE  /\ Handed(s, v) \in Notifiers
           /\ Handed(s, v).ver = v /\ Handed(s, v).hasRun
<1>1. ASSUME NEW Version0, NEW Changes, NEW Ver, s \in Records(Version0, Changes, Ver),
             None \in Version0, v \in Ver, {} \in Changes, s.acc \union s.delta \in Changes
      PROVE  /\ Handed(s, v) \in Records(Version0, Changes, Ver)
             /\ Handed(s, v).ver = v /\ Handed(s, v).hasRun
  <2> DEFINE a == s.acc \union s.delta
  <2>1. Handed(s, v) =
          [s EXCEPT !.ver = v, !.hasRun = TRUE, !.tv = None, !.delta = {}, !.skip = FALSE,
                    !.handover = IF s.tv = None THEN @ ELSE s.tv,
                    !.acc = IF s.cb = "none" \/ s.skip THEN @ ELSE a]
    BY DEF Handed
  <2>2. a \in Changes
    BY <1>1
  <2> HIDE DEF a
  <2> QED  BY <1>1, <2>1, <2>2 DEF Records
<1>2. s.acc \union s.delta \in SUBSET Version
  BY DEF Notifiers
<1> QED  BY <1>1, <1>2, VersionsTyped, NotifiersAreRecords

(* What the user and the tokens do to a notifier.                           *)
Added(s)   == [s EXCEPT !.cb = "added"]
Used(s)    == [s EXCEPT !.used = "used"]
Removed(s) == [s EXCEPT !.cb = "none", !.told = None, !.acc = {}, !.skip = FALSE]
Skipped(s) == [s EXCEPT !.skip = TRUE]

(* It leaves the notifier at its version.                                   *)
LEMMA ChangedTyped ==
    ASSUME NEW s \in Notifiers, NEW t \in {Added(s), Used(s), Removed(s), Skipped(s)}
    PROVE  t \in Notifiers /\ t.ver = s.ver /\ t.hasRun = s.hasRun
<1>1. ASSUME NEW Version0, NEW Changes, NEW Ver, s \in Records(Version0, Changes, Ver),
             None \in Version0, {} \in Changes
      PROVE  t \in Records(Version0, Changes, Ver) /\ t.ver = s.ver /\ t.hasRun = s.hasRun
  BY <1>1 DEF Added, Used, Removed, Skipped, Records
<1> QED  BY <1>1, VersionsTyped, NotifiersAreRecords

(* The version of a package is one of the file.                             *)
LEMMA PackageVersionTyped ==
    ASSUME TypeOK, NEW S, S \subseteq Notifier, S # {}
    PROVE  PackageVersion(S) \in Version /\ (Forward => PackageVersion(S) <= latest)
<1> DEFINE Vers == {nt[n].ver : n \in S}
<1>1. /\ Vers # {} /\ Vers \subseteq Version
      /\ Forward => \A v \in Vers : v <= latest
  BY DEF TypeOK, Notifiers, Forward
<1>2. PackageVersion(S) \in Vers
  BY <1>1 DEF PackageVersion
<1> QED  BY <1>1, <1>2

(* Delivery to some notifiers.                                              *)
LEMMA DeliveredKeeps ==
    ASSUME TypeOK, NEW S, NEW v \in Version, NEW w \in BOOLEAN,
           Apply(S, LAMBDA s : Delivered(s, v, w))
    PROVE  Kept
<1>1. \A n \in Notifier : nt'[n] = IF n \in S THEN Delivered(nt[n], v, w) ELSE nt[n]
  BY DEF Apply
<1>2. nt' = [n \in Notifier |-> IF n \in S THEN Delivered(nt[n], v, w) ELSE nt[n]]
  BY DEF Apply
<1>3. \A n \in Notifier : nt[n] \in Notifiers
  BY DEF TypeOK
<1>4. \A n \in Notifier :
        nt'[n] \in Notifiers /\ nt'[n].ver = nt[n].ver /\ nt'[n].hasRun = nt[n].hasRun
  BY <1>1, <1>3, DeliveredTyped
<1> QED  BY <1>2, <1>4 DEF Kept

(* Dropping what some notifiers packaged.                                   *)
LEMMA DroppedKeeps ==
    ASSUME TypeOK, NEW S, Apply(S, Dropped)
    PROVE  Kept
<1>1. \A n \in Notifier : nt'[n] = IF n \in S THEN Dropped(nt[n]) ELSE nt[n]
  BY DEF Apply
<1>2. nt' = [n \in Notifier |-> IF n \in S THEN Dropped(nt[n]) ELSE nt[n]]
  BY DEF Apply
<1>3. \A n \in Notifier : nt[n] \in Notifiers
  BY DEF TypeOK
<1>4. \A n \in Notifier :
        nt'[n] \in Notifiers /\ nt'[n].ver = nt[n].ver /\ nt'[n].hasRun = nt[n].hasRun
  BY <1>1, <1>3, DroppedTyped
<1> QED  BY <1>2, <1>4 DEF Kept

(* Running some notifiers.                                                  *)
LEMMA RunKeeps ==
    ASSUME TypeOK, NEW S, NEW v \in Version, RunAll(S, v)
    PROVE  Kept /\ passedOver' \subseteq Notifier
<1>1. \A n \in Notifier : nt'[n] = IF n \in S /\ NeedsRun(n, v) THEN Ran(nt[n], v) ELSE nt[n]
  BY DEF RunAll
<1>2. nt' = [n \in Notifier |-> IF n \in S /\ NeedsRun(n, v) THEN Ran(nt[n], v) ELSE nt[n]]
  BY DEF RunAll
<1>3. \A n \in Notifier : nt[n] \in Notifiers
  BY DEF TypeOK
<1>4. \A n \in Notifier :
        nt'[n] \in Notifiers /\ nt'[n].ver = nt[n].ver /\ nt'[n].hasRun = nt[n].hasRun
  BY <1>1, <1>3, RanTyped
<1> QED  BY <1>2, <1>4 DEF Kept, RunAll, TypeOK

(* Handing over some notifiers: they come to one version, and no other moves. *)
LEMMA HandAllTyped ==
    ASSUME TypeOK, NEW S, S \subseteq Notifier, NEW v \in Version, HandAll(S, v)
    PROVE  /\ nt' \in [Notifier -> Notifiers]
           /\ \A n \in S : nt'[n].ver = v /\ nt'[n].hasRun
           /\ \A n \in Notifier \ S : nt'[n] = nt[n]
           /\ mixedUp' \subseteq Notifier
<1>1. \A n \in Notifier : nt'[n] = IF n \in S THEN Handed(nt[n], v) ELSE nt[n]
  BY DEF HandAll, Apply
<1>2. nt' = [n \in Notifier |-> IF n \in S THEN Handed(nt[n], v) ELSE nt[n]]
  BY DEF HandAll, Apply
<1>3. \A n \in Notifier : nt[n] \in Notifiers
  BY DEF TypeOK
<1>4. \A n \in Notifier :
        /\ nt'[n] \in Notifiers
        /\ n \in S => nt'[n].ver = v /\ nt'[n].hasRun
  BY <1>1, <1>3, HandedTyped
<1> QED  BY <1>1, <1>2, <1>4 DEF HandAll, TypeOK

(* What neither moves a notifier nor runs one disturbs nothing.             *)
LEMMA Undisturbing ==
    ASSUME IInv, Kept, alive' \subseteq alive,
           UNCHANGED <<news, main, advancer, helper, work>>
    PROVE  Listed' /\ VersionsArePinned' /\ OnePackageVersion'
<1>1. news \subseteq Notifier /\ main \subseteq Notifier /\ work.fresh \subseteq Notifier
  BY DEF IInv, TypeOK, Works
<1>2. Listed'
  BY <1>1 DEF IInv, Listed, Kept
<1>3. VersionsArePinned'
  BY <1>1 DEF IInv, VersionsArePinned, Kept
<1>4. OnePackageVersion'
  BY <1>1 DEF IInv, OnePackageVersion, Kept
<1> QED  BY <1>2, <1>3, <1>4

(* Nor does it take any version past the latest one.                        *)
LEMMA StillForward ==
    ASSUME IInv, Kept, UNCHANGED <<latest, main, helper, skipVersion, work>>,
           \A r \in Realm : at'[r] <= latest /\ goal'[r] <= latest
    PROVE  Forward'
  BY DEF IInv, Forward, Kept

-----------------------------------------------------------------------------
(* A notifier is made: what it needs is pinned.                             *)
LEMMA RegisterStep ==
    ASSUME IInv, NEW n \in Notifier, NEW u \in Uses, Register(n, u)
    PROVE  IInv'
<1> DEFINE v == at[Owner[n]]
<1>1. v \in Version /\ u \in {"query", "used"}
  BY ConstantsAssumption DEF IInv, TypeOK
<1>2. /\ nt' = [nt EXCEPT ![n] = New(v, u)]
      /\ New(v, u) \in Notifiers /\ New(v, u).ver = v /\ ~New(v, u).hasRun
  BY <1>1, NewTyped DEF Register
<1>3. /\ advancer' \in Version
      /\ advancer' <= v /\ (news # {} => advancer' <= advancer)
  BY <1>1, VersionsTyped, ConstantsAssumption DEF Register, Pin, IInv, TypeOK, VersionsArePinned,
                                                  Version, None
<1> HIDE DEF v
<1>4. \A x \in Notifier : nt'[x] = IF x = n THEN New(v, u) ELSE nt[x]
  BY <1>2 DEF IInv, TypeOK
<1>5. TypeOK'
  BY <1>2, <1>3, VersionsTyped DEF Register, IInv, TypeOK, file, threads
<1>6. news \subseteq Notifier /\ main \subseteq Notifier /\ work.fresh \subseteq Notifier
  BY DEF IInv, TypeOK, Works
<1>7. Listed'
  BY <1>2, <1>4, <1>6 DEF Register, IInv, Listed
<1>8. VersionsArePinned'
  <2>1. \A x \in news : advancer <= nt[x].ver /\ nt[x].ver \in Nat
    BY <1>6, VersionsTyped DEF IInv, VersionsArePinned, TypeOK, Notifiers
  <2>2. \A x \in news' : advancer' <= nt'[x].ver
    BY <1>2, <1>3, <1>4, <1>6, <2>1, VersionsTyped, <1>1 DEF Register, IInv, TypeOK
  <2> QED
    BY <2>2, <1>3, VersionsTyped DEF Register, IInv, VersionsArePinned
<1>9. OnePackageVersion'
  BY <1>4, <1>6 DEF Register, IInv, OnePackageVersion
<1>10. Forward'
  <2>1. \A x \in Notifier : nt'[x].ver <= latest
    <3>1. v <= latest
      BY ConstantsAssumption DEF v, IInv, Forward
    <3> QED  BY <1>2, <1>4, <3>1 DEF IInv, Forward
  <2> QED
    BY <2>1 DEF Register, IInv, Forward, file, threads
<1> QED  BY <1>5, <1>7, <1>8, <1>9, <1>10 DEF IInv

(* A callback is added.                                                     *)
LEMMA AddCallbackStep ==
    ASSUME IInv, NEW n \in Notifier, AddCallback(n)
    PROVE  IInv'
<1>1. Kept
  <2>1. \A x \in Notifier : nt[x] \in Notifiers
    BY DEF IInv, TypeOK
  <2>2. nt' = [nt EXCEPT ![n] = Added(nt[n])]
    BY DEF AddCallback, Added
  <2>3. Added(nt[n]) \in Notifiers /\ Added(nt[n]).ver = nt[n].ver
        /\ Added(nt[n]).hasRun = nt[n].hasRun
    BY <2>1, ChangedTyped
  <2> QED  BY <2>2, <2>3 DEF Kept, IInv, TypeOK
<1>2. TypeOK'
  BY <1>1, VersionsTyped DEF AddCallback, Kept, IInv, TypeOK, file, threads, lists, history
<1>3. Listed' /\ VersionsArePinned' /\ OnePackageVersion'
  BY <1>1, Undisturbing DEF AddCallback, lists, threads, history
<1>4. Forward'
  BY <1>1, StillForward DEF AddCallback, file, threads, lists, IInv, Forward
<1> QED  BY <1>2, <1>3, <1>4 DEF IInv

(* The Results is used.                                                     *)
LEMMA UseStep ==
    ASSUME IInv, NEW n \in Notifier, Use(n)
    PROVE  IInv'
<1>1. Kept
  <2>1. \A x \in Notifier : nt[x] \in Notifiers
    BY DEF IInv, TypeOK
  <2>2. nt' = [nt EXCEPT ![n] = Used(nt[n])]
    BY DEF Use, Used
  <2>3. Used(nt[n]) \in Notifiers /\ Used(nt[n]).ver = nt[n].ver
        /\ Used(nt[n]).hasRun = nt[n].hasRun
    BY <2>1, ChangedTyped
  <2> QED  BY <2>2, <2>3 DEF Kept, IInv, TypeOK
<1>2. TypeOK'
  BY <1>1, VersionsTyped DEF Use, Kept, IInv, TypeOK, file, threads, lists, history
<1>3. Listed' /\ VersionsArePinned' /\ OnePackageVersion'
  BY <1>1, Undisturbing DEF Use, lists, threads, history
<1>4. Forward'
  BY <1>1, StillForward DEF Use, file, threads, lists, IInv, Forward
<1> QED  BY <1>2, <1>3, <1>4 DEF IInv

(* A token is dropped.                                                      *)
LEMMA RemoveCallbackStep ==
    ASSUME IInv, NEW n \in Notifier, RemoveCallback(n)
    PROVE  IInv'
<1>1. Kept
  <2>1. \A x \in Notifier : nt[x] \in Notifiers
    BY DEF IInv, TypeOK
  <2>2. nt' = [nt EXCEPT ![n] = Removed(nt[n])]
    BY DEF RemoveCallback, Removed
  <2>3. Removed(nt[n]) \in Notifiers /\ Removed(nt[n]).ver = nt[n].ver
        /\ Removed(nt[n]).hasRun = nt[n].hasRun
    BY <2>1, ChangedTyped
  <2> QED  BY <2>2, <2>3 DEF Kept, IInv, TypeOK
<1>2. TypeOK'
  BY <1>1, VersionsTyped DEF RemoveCallback, Kept, IInv, TypeOK, file, threads, lists, history
<1>3. Listed' /\ VersionsArePinned' /\ OnePackageVersion'
  BY <1>1, Undisturbing DEF RemoveCallback, lists, threads, history
<1>4. Forward'
  BY <1>1, StillForward DEF RemoveCallback, file, threads, lists, IInv, Forward
<1> QED  BY <1>2, <1>3, <1>4 DEF IInv

(* A Results goes away.                                                     *)
LEMMA UnregisterStep ==
    ASSUME IInv, NEW n \in Notifier, Unregister(n)
    PROVE  IInv'
<1>1. Kept
  BY DEF Unregister, IInv, TypeOK, Kept
<1>2. TypeOK'
  BY <1>1, VersionsTyped DEF Unregister, Kept, IInv, TypeOK, file, threads, lists, history
<1>3. Listed' /\ VersionsArePinned' /\ OnePackageVersion'
  BY <1>1, Undisturbing DEF Unregister, lists, threads, history
<1>4. Forward'
  BY <1>1, StillForward DEF Unregister, file, threads, lists, IInv, Forward
<1> QED  BY <1>2, <1>3, <1>4 DEF IInv

(* A write begins.                                                          *)
LEMMA PromoteStep ==
    ASSUME IInv, NEW r \in Realm, Promote(r)
    PROVE  IInv'
<1>1. Kept
  BY DEF Promote, IInv, TypeOK, Kept, Waits
<1>2. TypeOK'
  BY <1>1, VersionsTyped DEF Promote, Kept, IInv, TypeOK, file, threads, lists, history, Waits,
                             Stage, Version
<1>3. Listed' /\ VersionsArePinned' /\ OnePackageVersion'
  BY <1>1, Undisturbing DEF Promote, lists, threads, history, Waits, Stage, Version
<1>4. Forward'
  <2>1. \A x \in Realm : goal'[x] <= latest
    BY VersionsTyped DEF Promote, Waits, IInv, TypeOK, Forward
  <2> QED
    BY <1>1, <2>1, StillForward DEF Promote, Waits, lists, IInv, Forward
<1> QED  BY <1>2, <1>3, <1>4 DEF IInv

(* A refresh begins.                                                        *)
LEMMA RefreshStep ==
    ASSUME IInv, NEW r \in Realm, Refresh(r)
    PROVE  IInv'
<1>1. Kept
  BY DEF Refresh, IInv, TypeOK, Kept, Waits
<1>2. TypeOK'
  BY <1>1, VersionsTyped DEF Refresh, Kept, IInv, TypeOK, file, threads, lists, history, Waits,
                             Stage, Version
<1>3. Listed' /\ VersionsArePinned' /\ OnePackageVersion'
  BY <1>1, Undisturbing DEF Refresh, lists, threads, history, Waits, Stage, Version
<1>4. Forward'
  <2>1. \A x \in Realm : goal'[x] <= latest
    BY VersionsTyped DEF Refresh, Waits, IInv, TypeOK, Forward
  <2> QED
    BY <1>1, <2>1, StillForward DEF Refresh, Waits, lists, IInv, Forward
<1> QED  BY <1>2, <1>3, <1>4 DEF IInv

(* It waits on.                                                             *)
LEMMA WaitOnStep ==
    ASSUME IInv, NEW r \in Realm, WaitOn(r)
    PROVE  IInv'
<1>1. Kept
  BY DEF WaitOn, IInv, TypeOK, Kept
<1>2. TypeOK'
  BY <1>1, VersionsTyped DEF WaitOn, Kept, IInv, TypeOK, file, threads, lists, history, Stage
<1>3. Listed' /\ VersionsArePinned' /\ OnePackageVersion'
  BY <1>1, Undisturbing DEF WaitOn, lists, threads, history, Stage
<1>4. Forward'
  BY <1>1, StillForward DEF WaitOn, file, threads, lists, IInv, Forward
<1> QED  BY <1>2, <1>3, <1>4 DEF IInv

(* A commit fails.                                                          *)
LEMMA CommitFailsStep ==
    ASSUME IInv, NEW r \in Realm, CommitFails(r)
    PROVE  IInv'
<1>1. Kept
  BY DEF CommitFails, IInv, TypeOK, Kept
<1>2. TypeOK'
  BY <1>1, VersionsTyped DEF CommitFails, Kept, IInv, TypeOK, file, threads, lists, history, Stage
<1>3. Listed' /\ VersionsArePinned' /\ OnePackageVersion'
  BY <1>1, Undisturbing DEF CommitFails, lists, threads, history, Stage
<1>4. Forward'
  BY <1>1, StillForward DEF CommitFails, file, threads, lists, IInv, Forward
<1> QED  BY <1>2, <1>3, <1>4 DEF IInv

(* The worker is woken after a commit.                                      *)
LEMMA SignalStep ==
    ASSUME IInv, NEW r \in Realm, Signal(r)
    PROVE  IInv'
<1>1. Kept
  BY DEF Signal, IInv, TypeOK, Kept
<1>2. TypeOK'
  BY <1>1, VersionsTyped DEF Signal, Kept, IInv, TypeOK, file, threads, lists, history, Stage
<1>3. Listed' /\ VersionsArePinned' /\ OnePackageVersion'
  BY <1>1, Undisturbing DEF Signal, lists, threads, history, Stage
<1>4. Forward'
  BY <1>1, StillForward DEF Signal, file, threads, lists, IInv, Forward
<1> QED  BY <1>2, <1>3, <1>4 DEF IInv

(* A write is cancelled.                                                    *)
LEMMA CancelStep ==
    ASSUME IInv, NEW r \in Realm, Cancel(r)
    PROVE  IInv'
<1>1. Kept
  BY DEF Cancel, IInv, TypeOK, Kept
<1>2. TypeOK'
  BY <1>1, VersionsTyped DEF Cancel, Kept, IInv, TypeOK, file, threads, lists, history, Stage
<1>3. Listed' /\ VersionsArePinned' /\ OnePackageVersion'
  BY <1>1, Undisturbing DEF Cancel, lists, threads, history, Stage
<1>4. Forward'
  BY <1>1, StillForward DEF Cancel, file, threads, lists, IInv, Forward
<1> QED  BY <1>2, <1>3, <1>4 DEF IInv

(* Tokens are marked.                                                       *)
LEMMA SuppressStep ==
    ASSUME IInv, NEW r \in Realm, NEW S \in SUBSET Mine(r), Suppress(r, S)
    PROVE  IInv'
<1>1. Kept
  <2>1. \A x \in Notifier : nt[x] \in Notifiers
    BY DEF IInv, TypeOK
  <2>2. \A x \in Notifier : nt'[x] = IF x \in S THEN Skipped(nt[x]) ELSE nt[x]
    BY DEF Suppress, Skipped
  <2>3. \A x \in Notifier :
          nt'[x] \in Notifiers /\ nt'[x].ver = nt[x].ver /\ nt'[x].hasRun = nt[x].hasRun
    BY <2>1, <2>2, ChangedTyped
  <2> QED  BY <2>3 DEF Suppress, Kept
<1>2. TypeOK'
  BY <1>1, VersionsTyped DEF Suppress, Kept, IInv, TypeOK, file, threads, lists, history, Stage,
                             Mine
<1>3. Listed' /\ VersionsArePinned' /\ OnePackageVersion'
  BY <1>1, Undisturbing DEF Suppress, lists, threads, history, Stage, Mine
<1>4. Forward'
  BY <1>1, StillForward DEF Suppress, file, threads, lists, IInv, Forward
<1> QED  BY <1>2, <1>3, <1>4 DEF IInv

(* A commit makes a new latest version, which may be the one to skip to.    *)
LEMMA CommitStep ==
    ASSUME IInv, NEW r \in Realm, Commit(r)
    PROVE  IInv'
<1>1. Kept
  BY DEF Commit, IInv, TypeOK, Kept
<1>2. latest + 1 \in Version /\ SkipTo(r) \in 0 .. MaxVersion
  BY ConstantsAssumption DEF Commit, SkipTo, IInv, TypeOK, Version
<1>3. TypeOK'
  BY <1>2, VersionsTyped DEF Commit, IInv, TypeOK, Stage
<1>4. Listed' /\ VersionsArePinned' /\ OnePackageVersion'
  BY <1>1, Undisturbing DEF Commit
<1>5. Forward'
  <2>1. latest \in Nat /\ latest + 1 \in Nat /\ SkipTo(r) \in {skipVersion, latest + 1}
    BY VersionsTyped DEF IInv, TypeOK, SkipTo
  <2>2. SkipTo(r) = latest + 1 => main # {} \/ SkipTo(r) = skipVersion
    BY DEF SkipTo
  <2>3. \A n \in Notifier : nt'[n].ver <= latest'
    <3>1. \A n \in Notifier : nt[n].ver \in Nat /\ nt[n].ver <= latest /\ nt'[n] = nt[n]
      BY VersionsTyped DEF Commit, IInv, TypeOK, Forward, Notifiers
    <3> QED  BY <2>1, <3>1 DEF Commit
  <2>5. \A x \in Realm : at'[x] <= latest' /\ goal'[x] <= latest'
    <3>1. \A x \in Realm : at[x] \in Version /\ goal[x] \in 0 .. MaxVersion
      BY DEF IInv, TypeOK
    <3>2. \A x \in Realm :
            at[x] \in Nat /\ at[x] <= latest /\ goal[x] \in Nat /\ goal[x] <= latest
      <4>1. \A v \in 0 .. MaxVersion : v \in Nat
        OBVIOUS
      <4>2. \A v \in Version : v \in Nat
        BY VersionsTyped
      <4> QED  BY <3>1, <4>1, <4>2 DEF IInv, Forward
    <3>3. \A x \in Realm : at'[x] = IF x = r THEN latest + 1 ELSE at[x]
      BY DEF Commit, IInv, TypeOK
    <3> QED  BY <2>1, <3>2, <3>3 DEF Commit
  <2>4. /\ helper \in Nat /\ work.target \in Nat /\ skipVersion \in Nat
    BY ConstantsAssumption DEF IInv, TypeOK, Works
  <2> QED
    BY <2>1, <2>2, <2>3, <2>4, <2>5 DEF Commit, IInv, Forward
<1> QED  BY <1>3, <1>4, <1>5 DEF IInv

(* A Realm goes to the version of a package, or to the latest one.          *)
LEMMA WaitedStep ==
    ASSUME IInv, NEW r \in Realm, Waited(r)
    PROVE  IInv'
<1> DEFINE P      == HasRun(r)
           behind == P # {} /\ PackageVersion(P) < goal[r]
           v      == IF P = {} \/ behind THEN latest ELSE PackageVersion(P)
           w      == stage[r] = "promoting"
<1>1. P \subseteq Notifier
  BY DEF HasRun, Mine, IInv, TypeOK
<1>2. v \in Version /\ w \in BOOLEAN
  BY <1>1, PackageVersionTyped DEF IInv, TypeOK
<1>3. /\ at' = [at EXCEPT ![r] = v]
      /\ Apply(P, Dropped) \/ Apply(P, LAMBDA s : Delivered(s, v, w))
  BY DEF Waited
<1> HIDE DEF P, v, w
<1>4. Kept
  BY <1>2, <1>3, DeliveredKeeps, DroppedKeeps DEF IInv
<1>5. TypeOK'
  BY <1>2, <1>3, <1>4, VersionsTyped DEF Waited, Kept, IInv, TypeOK, lists, history, Stage
<1>6. Listed' /\ VersionsArePinned' /\ OnePackageVersion'
  BY <1>4, Undisturbing DEF Waited, lists
<1>7. Forward'
  <2>1. v <= latest
    BY <1>1, PackageVersionTyped, VersionsTyped DEF v, P, IInv, TypeOK
  <2>2. \A x \in Realm : at'[x] <= latest /\ goal'[x] <= latest
    BY <1>3, <2>1, VersionsTyped DEF Waited, IInv, TypeOK, Forward, None
  <2> QED
    BY <1>4, <2>2, StillForward DEF Waited, lists
<1> QED  BY <1>5, <1>6, <1>7 DEF IInv

(* The same in the run loop.                                                *)
LEMMA NotifyStep ==
    ASSUME IInv, NEW r \in Realm, Notify(r)
    PROVE  IInv'
<1> DEFINE P == HasRun(r)
           v == PackageVersion(P)
           Q == {n \in P : nt[n].ver = at[r]}
<1>1. P \subseteq Notifier
  BY DEF HasRun, Mine, IInv, TypeOK
<1>2. at[r] \in Version /\ latest \in Version /\ (P # {} => v \in Version)
  BY <1>1, PackageVersionTyped DEF IInv, TypeOK
<1>3. \/ UNCHANGED <<at, nt>>
      \/ Apply(Q, LAMBDA s : Delivered(s, at[r], FALSE)) /\ UNCHANGED at
      \/ at' = [at EXCEPT ![r] = latest] /\ UNCHANGED nt
      \/ Apply(P, Dropped) /\ UNCHANGED at
      \/ P # {} /\ at' = [at EXCEPT ![r] = v] /\ Apply(P, LAMBDA s : Delivered(s, v, FALSE))
  BY DEF Notify
<1> HIDE DEF P, v, Q
<1>4. Kept /\ at' \in [Realm -> Version]
  <2>1. CASE UNCHANGED nt
    BY <2>1, <1>2, <1>3 DEF Kept, IInv, TypeOK
  <2>2. CASE Apply(Q, LAMBDA s : Delivered(s, at[r], FALSE)) /\ UNCHANGED at
    BY <2>2, <1>2, DeliveredKeeps DEF IInv, TypeOK
  <2>3. CASE Apply(P, Dropped) /\ UNCHANGED at
    BY <2>3, DroppedKeeps DEF IInv, TypeOK
  <2>4. CASE P # {} /\ at' = [at EXCEPT ![r] = v] /\ Apply(P, LAMBDA s : Delivered(s, v, FALSE))
    BY <2>4, <1>2, DeliveredKeeps DEF IInv, TypeOK
  <2> QED  BY <1>3, <2>1, <2>2, <2>3, <2>4
<1>5. TypeOK'
  BY <1>4, VersionsTyped DEF Notify, Kept, IInv, TypeOK, lists, history
<1>6. Listed' /\ VersionsArePinned' /\ OnePackageVersion'
  BY <1>4, Undisturbing DEF Notify, lists
<1>7. Forward'
  <2>1. latest <= latest /\ (P # {} => v <= latest)
    BY <1>1, PackageVersionTyped, VersionsTyped DEF v, P, IInv, TypeOK
  <2>2. \A x \in Realm : at'[x] <= latest /\ goal'[x] <= latest
    BY <1>3, <2>1, VersionsTyped DEF Notify, IInv, TypeOK, Forward
  <2> QED
    BY <1>4, <2>2, StillForward DEF Notify, lists
<1> QED  BY <1>5, <1>6, <1>7 DEF IInv

(* The worker takes every notifier along, and lets go of the advancer.      *)
LEMMA StartStep ==
    ASSUME IInv, Start
    PROVE  IInv'
<1> DEFINE fresh == news \intersect alive
           old   == main \intersect alive
           skip  == SkipLeft(old)
<1>1. /\ fresh \subseteq Notifier /\ old \subseteq Notifier /\ skip \in 0 .. MaxVersion
      /\ latest \in Version /\ fresh \intersect old = {}
      /\ \A n \in fresh : ~nt[n].hasRun
      /\ helper \in 0 .. MaxVersion /\ (old # {} => helper # None)
  BY VersionsTyped DEF IInv, TypeOK, SkipLeft, Listed, VersionsArePinned
<1>2. /\ wake' = FALSE
      /\ UNCHANGED <<latest, writer, at, stage, goal, blocked, posted, alive, nt, quiet,
                     muted, passedOver, mixedUp>>
  BY DEF Start, file, threads, history
<1>3. CASE fresh \union old = {}
  <2>1. /\ news' = {} /\ main' = {} /\ advancer' = None /\ helper' = None /\ skipVersion' = skip
        /\ work' = [Idle EXCEPT !.step = "posting"]
    BY <1>3 DEF Start, CleanUp
  <2>2. /\ work' \in Works /\ work'.step = "posting" /\ work'.old = {} /\ work'.fresh = {}
    BY <2>1, VersionsTyped DEF Idle, Works
  <2> HIDE DEF fresh, old, skip
  <2>3. TypeOK'
    BY <1>1, <1>2, <2>1, <2>2, VersionsTyped DEF IInv, TypeOK
  <2>4. Listed' /\ VersionsArePinned' /\ OnePackageVersion'
    BY <2>1, <2>2 DEF Listed, VersionsArePinned, OnePackageVersion, Busy
  <2>5. Forward'
    <3>1. skip = None
      BY <1>3 DEF skip, old, SkipLeft, IInv, Forward
    <3>2. None <= latest
      BY VersionsTyped, <1>1 DEF None
    <3> QED  BY <1>2, <2>1, <2>2, <3>1, <3>2 DEF IInv, Forward, Busy
  <2> QED  BY <2>3, <2>4, <2>5 DEF IInv
<1>4. CASE fresh \union old # {}
  <2> DEFINE step == IF skip = None THEN "running" ELSE "skipping"
  <2>1. /\ news' = {} /\ main' = old \union fresh /\ advancer' = None
        /\ helper' = IF old = {} THEN latest ELSE helper
        /\ skipVersion' = None
        /\ work' = [step |-> step, fresh |-> fresh, old |-> old, target |-> latest,
                    skipTo |-> skip]
    BY <1>4 DEF Start, CleanUp
  <2> HIDE DEF fresh, old, skip
  <2>2. /\ work' \in Works /\ work'.step = step /\ work'.old = old /\ work'.fresh = fresh
        /\ work'.target = latest /\ work'.skipTo = skip
    BY <1>1, <2>1, VersionsTyped DEF Works
  <2>3. helper' \in 0 .. MaxVersion /\ helper' # None
    BY <1>1, <2>1, VersionsTyped
  <2>4. TypeOK'
    BY <1>1, <1>2, <2>1, <2>2, <2>3, VersionsTyped DEF IInv, TypeOK
  <2>5. Listed' /\ VersionsArePinned'
    BY <1>1, <1>2, <1>4, <2>1, <2>2, <2>3, VersionsTyped DEF Listed, VersionsArePinned, Busy
  <2>6. OnePackageVersion'
    <3>1. \A n \in main' : n \in main \/ ~nt'[n].hasRun
      BY <1>1, <1>2, <2>1 DEF old
    <3> QED  BY <3>1, <1>2 DEF IInv, OnePackageVersion
  <2>7. Forward'
    <3>1. skip # None => old # {} /\ helper <= skip /\ skip <= latest
      BY DEF skip, old, SkipLeft, IInv, Forward
    <3>2. helper' <= latest /\ latest <= latest /\ (skip # None => helper' <= skip)
      BY <1>1, <2>1, <3>1, VersionsTyped DEF IInv, Forward
    <3> QED
      BY <1>1, <1>2, <1>4, <2>1, <2>2, <3>1, <3>2 DEF IInv, Forward, Busy
  <2> QED  BY <2>4, <2>5, <2>6, <2>7 DEF IInv
<1> QED  BY <1>3, <1>4

(* The notifiers are run up to a version. *)
LEMMA RunStep ==
    ASSUME IInv, SkipRun \/ Run
    PROVE  IInv'
<1> DEFINE S == IF SkipRun THEN work.old ELSE work.old \union work.fresh
           v == IF SkipRun THEN work.skipTo ELSE work.target
<1>1. /\ RunAll(S, v) /\ helper' = v
      /\ work' = [work EXCEPT !.step = IF SkipRun THEN "skipped" ELSE "ran"]
      /\ work.step = (IF SkipRun THEN "skipping" ELSE "running")
  BY DEF SkipRun, Run
<1>2. /\ v \in Version
      /\ work' \in Works /\ work'.old = work.old /\ work'.fresh = work.fresh
      /\ work'.target = work.target /\ work'.skipTo = work.skipTo
      /\ work'.step = IF SkipRun THEN "skipped" ELSE "ran"
  <2> DEFINE step == IF SkipRun THEN "skipped" ELSE "ran"
  <2>1. work' = [work EXCEPT !.step = step] /\ step \in {"skipped", "ran"}
    BY <1>1
  <2> HIDE DEF step
  <2>2. /\ work' \in Works /\ work'.old = work.old /\ work'.fresh = work.fresh
        /\ work'.target = work.target /\ work'.skipTo = work.skipTo /\ work'.step = step
    BY <2>1 DEF IInv, TypeOK, Works
  <2>3. v \in 0 .. MaxVersion /\ v # None
    BY <1>1 DEF IInv, TypeOK, Works, Listed, Busy
  <2>4. v \in Version
    BY <2>3, ConstantsAssumption DEF Version, None
  <2> QED  BY <2>2, <2>4 DEF step
<1>3. Kept /\ passedOver' \subseteq Notifier
  BY <1>1, <1>2, RunKeeps DEF IInv
<1>4. UNCHANGED <<latest, writer, at, stage, goal, blocked, posted, news, main, advancer,
                  skipVersion, alive, wake, quiet, muted, mixedUp>>
  BY DEF SkipRun, Run, file, threads
<1> HIDE DEF S, v
<1>5. TypeOK'
  BY <1>1, <1>2, <1>3, <1>4, VersionsTyped DEF Kept, IInv, TypeOK
<1>6. news \subseteq Notifier /\ main \subseteq Notifier /\ work.fresh \subseteq Notifier
  BY DEF IInv, TypeOK, Works
<1>7. Listed'
  BY <1>1, <1>2, <1>3, <1>4, <1>6 DEF Kept, IInv, Listed, Busy
<1>8. VersionsArePinned'
  BY <1>1, <1>2, <1>3, <1>4, <1>6, VersionsTyped DEF Kept, IInv, Listed, VersionsArePinned, Busy
<1>9. OnePackageVersion'
  BY <1>3, <1>4, <1>6 DEF Kept, IInv, OnePackageVersion
<1>10. Forward'
  <2>1. /\ work.target \in Nat /\ work.skipTo \in Nat /\ skipVersion \in Nat
        /\ latest \in Nat /\ helper \in Nat /\ v \in Nat
    BY <1>2, VersionsTyped, ConstantsAssumption DEF IInv, TypeOK, Works
  <2>2. work.step \in Busy
    BY <1>1 DEF Busy
  <2>3. /\ v <= work.target /\ (skipVersion # None => v <= skipVersion)
        /\ work'.step \in {"skipping", "skipped"} => v = work.skipTo /\ work.step = "skipping"
    BY <1>1, <1>2, <2>1, <2>2 DEF v, IInv, Forward
  <2> QED
    BY <1>1, <1>2, <1>3, <1>4, <2>1, <2>2, <2>3 DEF Kept, IInv, Forward
<1> QED  BY <1>5, <1>7, <1>8, <1>9, <1>10 DEF IInv

(* Those that are not new are handed over at the version to skip to.        *)
LEMMA SkipHandStep ==
    ASSUME IInv, SkipHand
    PROVE  IInv'
<1> DEFINE v == work.skipTo
<1>1. /\ work.old \subseteq Notifier /\ v \in Version /\ HandAll(work.old, v)
      /\ main = work.old \union work.fresh /\ work.old \intersect work.fresh = {}
  BY VersionsTyped DEF SkipHand, IInv, TypeOK, Works, Listed, Busy, Version, None
<1>2. /\ work' \in Works /\ work'.step = "running"
      /\ work'.old = work.old /\ work'.fresh = work.fresh /\ work'.target = work.target
  BY DEF SkipHand, IInv, TypeOK, Works
<1>3. /\ nt' \in [Notifier -> Notifiers] /\ mixedUp' \subseteq Notifier
      /\ \A n \in work.old : nt'[n].ver = v /\ nt'[n].hasRun
      /\ \A n \in Notifier \ work.old : nt'[n] = nt[n]
  BY <1>1, HandAllTyped DEF IInv
<1>4. UNCHANGED <<latest, writer, at, stage, goal, blocked, posted, news, main, advancer, helper,
                  skipVersion, alive, wake, quiet, muted, passedOver>>
  BY DEF SkipHand, file, threads, lists
<1> HIDE DEF v
<1>5. TypeOK'
  BY <1>2, <1>3, <1>4 DEF IInv, TypeOK
<1>6. /\ news \subseteq Notifier /\ main \subseteq Notifier /\ work.fresh \subseteq Notifier
      /\ news \intersect work.old = {} /\ work.step = "skipped"
  BY <1>1 DEF IInv, TypeOK, Works, Listed, SkipHand
<1>7. Listed'
  BY <1>1, <1>2, <1>3, <1>4, <1>6 DEF IInv, Listed, Busy
<1>8. VersionsArePinned'
  BY <1>3, <1>4, <1>6 DEF IInv, VersionsArePinned
<1>9. OnePackageVersion'
  <2>1. \A n \in main : n \in work.old \/ ~nt'[n].hasRun
    BY <1>1, <1>3, <1>6 DEF IInv, Listed
  <2> QED  BY <2>1, <1>3, <1>4 DEF OnePackageVersion
<1>10. Forward'
  <2>1. v <= latest /\ work.step \in Busy
    <3>1. /\ work.target \in Nat /\ work.skipTo \in Nat /\ latest \in Nat
          /\ work.step = "skipped"
      BY VersionsTyped, ConstantsAssumption DEF SkipHand, IInv, TypeOK, Works
    <3> QED  BY <3>1 DEF v, IInv, Forward, Busy
  <2>2. \A n \in Notifier : nt'[n].ver <= latest
    BY <1>1, <1>3, <2>1 DEF IInv, Forward
  <2> QED
    BY <1>1, <1>2, <1>4, <2>1, <2>2, VersionsTyped DEF IInv, TypeOK, Forward, Busy
<1> QED  BY <1>5, <1>7, <1>8, <1>9, <1>10 DEF IInv

(* All are handed over at the version that was taken.                       *)
LEMMA HandStep ==
    ASSUME IInv, Hand
    PROVE  IInv'
<1> DEFINE v == work.target
           S == work.old \union work.fresh
<1>1. /\ S \subseteq Notifier /\ v \in Version /\ HandAll(S, v) /\ main = S
  BY VersionsTyped DEF Hand, IInv, TypeOK, Works, Listed, Busy, Version, None
<1>2. work' \in Works /\ work'.step = "posting" /\ work'.old = {} /\ work'.fresh = {}
  <2>1. work' = [Idle EXCEPT !.step = "posting"]
    BY DEF Hand
  <2> QED  BY <2>1, VersionsTyped DEF Idle, Works
<1>3. /\ nt' \in [Notifier -> Notifiers] /\ mixedUp' \subseteq Notifier
      /\ \A n \in S : nt'[n].ver = v /\ nt'[n].hasRun
      /\ \A n \in Notifier \ S : nt'[n] = nt[n]
  BY <1>1, HandAllTyped DEF IInv
<1>4. /\ UNCHANGED <<latest, writer, at, stage, goal, posted, alive, wake, quiet, muted,
                     passedOver>>
      /\ blocked' = {} /\ news' = news \intersect alive /\ main' = main \intersect alive
      /\ advancer' = IF news' = {} THEN None ELSE advancer
      /\ IF main' = {} THEN helper' = None /\ skipVersion' = None
                       ELSE UNCHANGED <<helper, skipVersion>>
  BY DEF Hand, CleanUp, file
<1> HIDE DEF v, S
<1>5. TypeOK'
  BY <1>2, <1>3, <1>4, VersionsTyped DEF IInv, TypeOK
<1>6. /\ news \subseteq Notifier /\ main \subseteq Notifier
      /\ news \intersect S = {}
  BY <1>1 DEF IInv, TypeOK, Listed
<1>7. Listed'
  BY <1>2, <1>3, <1>4, <1>6 DEF IInv, Listed, Busy
<1>8. VersionsArePinned'
  BY <1>3, <1>4, <1>6 DEF IInv, VersionsArePinned
<1>9. OnePackageVersion'
  BY <1>1, <1>3, <1>4 DEF OnePackageVersion
<1>10. Forward'
  <2>1. v <= latest /\ work.step \in Busy
    BY DEF v, Hand, IInv, TypeOK, Works, Forward, Busy, None
  <2>2. \A n \in Notifier : nt'[n].ver <= latest
    BY <1>1, <1>3, <2>1 DEF IInv, Forward
  <2> QED
    BY <1>1, <1>2, <1>4, <2>1, <2>2, VersionsTyped DEF IInv, TypeOK, Forward, Busy
<1> QED  BY <1>5, <1>7, <1>8, <1>9, <1>10 DEF IInv

(* The worker is idle again.                                                *)
LEMMA PostStep ==
    ASSUME IInv, Post
    PROVE  IInv'
<1>1. work' \in Works /\ work'.step = "idle" /\ work'.old = {} /\ work'.fresh = {}
  BY VersionsTyped DEF Post, Idle, Works
<1>2. TypeOK'
  BY <1>1 DEF Post, IInv, TypeOK, file, lists, history
<1>3. Listed' /\ VersionsArePinned' /\ OnePackageVersion'
  BY <1>1 DEF Post, lists, IInv, Listed, VersionsArePinned, OnePackageVersion, Busy
<1>4. Forward'
  BY <1>1 DEF Post, lists, file, IInv, Forward, Busy
<1> QED  BY <1>2, <1>3, <1>4 DEF IInv

-----------------------------------------------------------------------------
(* It holds at first ...                                                    *)
LEMMA InitInv == Init => IInv
<1> SUFFICES ASSUME Init PROVE IInv
  OBVIOUS
<1>1. 1 \in Version /\ None \in 0 .. MaxVersion
  BY VersionsTyped, ConstantsAssumption DEF Version
<1>2. New(1, "query") \in Notifiers
  BY <1>1, NewTyped
<1>3. Idle \in Works /\ Idle.step = "idle" /\ Idle.old = {} /\ Idle.fresh = {}
  BY <1>1 DEF Idle, Works
<1>4. TypeOK
  BY <1>1, <1>2, <1>3 DEF Init, TypeOK, Stage
<1>5. Listed /\ VersionsArePinned /\ OnePackageVersion
  BY <1>3 DEF Init, Listed, VersionsArePinned, OnePackageVersion, Busy
<1>6. Forward
  BY <1>1, <1>2, <1>3, NewTyped DEF Init, Forward, Busy, None
<1> QED  BY <1>4, <1>5, <1>6 DEF IInv

(* ... when nothing happens ...                                             *)
LEMMA StutterStep ==
    ASSUME IInv, UNCHANGED vars
    PROVE  IInv'
<1>1. Kept
  BY DEF vars, IInv, TypeOK, Kept
<1>2. TypeOK'
  BY DEF vars, file, threads, lists, history, IInv, TypeOK
<1>3. Listed' /\ VersionsArePinned' /\ OnePackageVersion'
  BY <1>1, Undisturbing DEF vars, lists
<1>4. Forward'
  BY <1>1, StillForward DEF vars, file, threads, lists, IInv, Forward
<1> QED  BY <1>2, <1>3, <1>4 DEF IInv

(* ... and through every step.                                              *)
LEMMA NextInv ==
    ASSUME IInv, [Next]_vars
    PROVE  IInv'
<1>1. CASE \E n \in Notifier : \E u \in Uses : Register(n, u)
  BY <1>1, RegisterStep
<1>2. CASE \E n \in Notifier : AddCallback(n) \/ Use(n) \/ RemoveCallback(n) \/ Unregister(n)
  BY <1>2, AddCallbackStep, UseStep, RemoveCallbackStep, UnregisterStep
<1>3. CASE \E r \in Realm : Promote(r) \/ Refresh(r) \/ WaitOn(r) \/ Waited(r) \/ Notify(r)
  BY <1>3, PromoteStep, RefreshStep, WaitOnStep, WaitedStep, NotifyStep
<1>4. CASE \E r \in Realm :
             \E S \in SUBSET {n \in Mine(r) : nt[n].cb # "none"} : S # {} /\ Suppress(r, S)
  <2>1. PICK r \in Realm : \E S \in SUBSET Mine(r) : Suppress(r, S)
    BY <1>4
  <2> QED  BY <2>1, SuppressStep
<1>5. CASE \E r \in Realm : CommitFails(r) \/ EndWrite(r) \/ Signal(r)
  BY <1>5, CommitFailsStep, CommitStep, CancelStep, SignalStep DEF EndWrite
<1>6. CASE Worker
  BY <1>6, StartStep, RunStep, SkipHandStep, HandStep, PostStep DEF Worker
<1>7. CASE UNCHANGED vars
  BY <1>7, StutterStep
<1> QED  BY <1>1, <1>2, <1>3, <1>4, <1>5, <1>6, <1>7 DEF Next

(* The inductive invariant holds throughout.                                *)
THEOREM Invariance == Spec => []IInv
  BY InitInv, NextInv, PTL DEF Spec

(* The state has its type, whatever the Realms, the users of their Results  *)
(* and the worker do in whichever order.                                    *)
THEOREM TypeCorrectness == Spec => []TypeOK
<1>1. IInv => TypeOK
  BY DEF IInv
<1> QED  BY <1>1, Invariance, PTL

(* The assertions of run_async_notifiers hold: there are notifiers to skip  *)
(* with and the version to skip to lies between where the worker is and where *)
(* it goes, so that it never has to go back.                                *)
THEOREM ForwardCorrectness == Spec => []RunsForward
<1>1. IInv => RunsForward
  BY DEF IInv, Forward, RunsForward, Busy
<1> QED  BY <1>1, Invariance, PTL

(* What a notifier was made at stays readable until the worker has taken it *)
(* over, and nothing is kept for notifiers that are gone.                   *)
THEOREM PinCorrectness == Spec => []VersionsArePinned
<1>1. IInv => VersionsArePinned
  BY DEF IInv
<1> QED  BY <1>1, Invariance, PTL

(* The version that package_and_wait takes from the last notifier of a Realm *)
(* is that of all of them: no callback is told of changes at another version *)
(* than the one its Realm is brought to.                                    *)
THEOREM PackageCorrectness == Spec => []OnePackageVersion
<1>1. IInv => OnePackageVersion
  BY DEF IInv
<1> QED  BY <1>1, Invariance, PTL

(* With that, versions are in order.                                        *)
THEOREM VersionsCorrectness == Spec => []VersionsInOrder
BY ForwardCorrectness, PinCorrectness, PackageCorrectness, PTL DEF VersionsInOrder

-----------------------------------------------------------------------------
(* What a callback knows                                                    *)

(* A Realm that writes, or waits to, has the lock, so that the version it   *)
(* waits for stays the latest one; every Results that is there has its      *)
(* notifier in a list; and what has been told to the callbacks of a writer  *)
(* is everything.                                                           *)
Locked ==
    /\ \A r \in Realm : stage[r] \in {"promoting", "writing", "committing"} => writer = r
    /\ \A r \in Realm : stage[r] = "promoting" => goal[r] = latest
Enlisted == alive \subseteq news \union main
Informed ==
    \A n \in alive :
        stage[Owner[n]] \in {"writing", "committing"} /\ nt[n].cb # "none" =>
            nt[n].cb = "told" /\ nt[n].told = at[Owner[n]] /\ at[Owner[n]] = latest

(* A step that leaves the callbacks and what they know alone.               *)
SameTold(S) == \A n \in S : nt'[n].cb = nt[n].cb /\ nt'[n].told = nt[n].told

(* Most steps do not change what a callback knows ...                       *)
LEMMA SilentSteps ==
    ASSUME NEW s \in Notifiers, NEW v \in Version,
           NEW t \in {Ran(s, v), Handed(s, v), Dropped(s), Used(s), Skipped(s)}
    PROVE  t.cb = s.cb /\ t.told = s.told
<1>1. ASSUME NEW Version0, NEW Changes, NEW Ver, s \in Records(Version0, Changes, Ver)
      PROVE  t.cb = s.cb /\ t.told = s.told
  BY <1>1 DEF Ran, Handed, Dropped, Used, Skipped, Records
<1> QED  BY <1>1, NotifiersAreRecords

(* ... and delivery tells it the version that the changes lead to.          *)
LEMMA DeliveredTold ==
    ASSUME NEW s \in Notifiers, NEW v \in Version, NEW w \in BOOLEAN
    PROVE  /\ Delivered(s, v, w).cb = IF s.cb = "none" THEN "none" ELSE "told"
           /\ s.cb # "none" => Delivered(s, v, w).told = v
<1>1. ASSUME NEW Version0, NEW Changes, NEW Ver, s \in Records(Version0, Changes, Ver)
      PROVE  /\ Delivered(s, v, w).cb = IF s.cb = "none" THEN "none" ELSE "told"
             /\ s.cb # "none" => Delivered(s, v, w).told = v
  BY <1>1 DEF Delivered, Records
<1> QED  BY <1>1, NotifiersAreRecords

(* The notifier of a Results that is there stays in one of the two lists.   *)
LEMMA StepEnlisted ==
    ASSUME IInv, Enlisted, [Next]_vars
    PROVE  Enlisted'
<1>1. ASSUME NEW n \in Notifier, NEW u \in Uses, Register(n, u)
      PROVE  Enlisted'
  BY <1>1 DEF Register, Enlisted
<1>2. ASSUME NEW n \in Notifier, AddCallback(n) \/ Use(n) \/ RemoveCallback(n) \/ Unregister(n)
      PROVE  Enlisted'
  BY <1>2 DEF AddCallback, Use, RemoveCallback, Unregister, lists, Enlisted
<1>3. ASSUME NEW r \in Realm,
             \/ Promote(r) \/ Refresh(r) \/ WaitOn(r) \/ Waited(r) \/ Notify(r)
             \/ \E S \in SUBSET {n \in Mine(r) : nt[n].cb # "none"} : Suppress(r, S)
             \/ CommitFails(r) \/ Commit(r) \/ Cancel(r) \/ Signal(r)
      PROVE  Enlisted'
  <2>1. UNCHANGED <<alive, news, main>>
    BY <1>3 DEF Promote, Refresh, Waits, WaitOn, Waited, Notify, Suppress, CommitFails, Commit,
                Cancel, Signal, lists
  <2> QED  BY <2>1 DEF Enlisted
<1>4. CASE Start
  BY <1>4 DEF Start, CleanUp, Enlisted
<1>5. CASE SkipRun \/ SkipHand \/ Run \/ Post
  BY <1>5 DEF SkipRun, SkipHand, Run, Post, lists, Enlisted
<1>6. CASE Hand
  BY <1>6 DEF Hand, CleanUp, Enlisted
<1>7. CASE UNCHANGED vars
  BY <1>7 DEF vars, lists, Enlisted
<1> QED  BY <1>1, <1>2, <1>3, <1>4, <1>5, <1>6, <1>7 DEF Next, Worker, EndWrite

(* The lock is taken before, and given back after, everything else.         *)
LEMMA StepLocked ==
    ASSUME IInv, Locked, [Next]_vars
    PROVE  Locked'
<1>1. CASE UNCHANGED <<stage, goal, latest, writer>>
  BY <1>1 DEF Locked
<1>2. /\ stage \in [Realm -> Stage] /\ goal \in [Realm -> 0 .. MaxVersion] /\ NoRealm \notin Realm
  BY ConstantsAssumption DEF IInv, TypeOK
<1>3. ASSUME NEW r \in Realm, Promote(r) \/ Refresh(r)
      PROVE  Locked'
  <2>1. /\ stage[r] = "reading" /\ latest' = latest /\ goal' = [goal EXCEPT ![r] = latest]
        /\ \/ writer = NoRealm /\ writer' = r /\ stage' = [stage EXCEPT ![r] = "promoting"]
           \/ writer' = writer /\ stage' = [stage EXCEPT ![r] = "refreshing"]
    BY <1>3 DEF Promote, Refresh, Waits
  <2> QED  BY <1>2, <2>1 DEF Locked
<1>4. ASSUME NEW r \in Realm, Waited(r)
      PROVE  Locked'
  <2>1. /\ stage[r] \in {"promoting", "refreshing"} /\ UNCHANGED <<latest, writer>>
        /\ stage' = [stage EXCEPT ![r] = IF @ = "promoting" THEN "writing" ELSE "reading"]
        /\ goal' = [goal EXCEPT ![r] = None]
    BY <1>4 DEF Waited
  <2> QED  BY <1>2, <2>1 DEF Locked
<1>5. ASSUME NEW r \in Realm, NEW S, Suppress(r, S)
      PROVE  Locked'
  BY <1>2, <1>5 DEF Suppress, file, Locked
<1>6. ASSUME NEW r \in Realm, CommitFails(r) \/ Signal(r)
      PROVE  Locked'
  BY <1>2, <1>6 DEF CommitFails, Signal, file, Locked
<1>7. ASSUME NEW r \in Realm, Commit(r) \/ Cancel(r)
      PROVE  Locked'
  <2>1. /\ stage[r] \in {"writing", "committing"} /\ writer' = NoRealm /\ goal' = goal
        /\ \E s \in {"reading", "signalling"} : stage' = [stage EXCEPT ![r] = s]
    BY <1>7 DEF Commit, Cancel
  <2>2. \A q \in Realm : q # r => stage[q] \notin {"promoting", "writing", "committing"}
    BY <2>1 DEF Locked
  <2> QED  BY <1>2, <2>1, <2>2 DEF Locked
<1>8. ASSUME NEW n \in Notifier,
             \/ \E u \in Uses : Register(n, u)
             \/ AddCallback(n) \/ Use(n) \/ RemoveCallback(n) \/ Unregister(n)
      PROVE  Locked'
  BY <1>1, <1>8 DEF Register, AddCallback, Use, RemoveCallback, Unregister, file, threads
<1>9. ASSUME NEW r \in Realm, WaitOn(r) \/ Notify(r)
      PROVE  Locked'
  BY <1>1, <1>9 DEF WaitOn, Notify, file
<1>10. CASE Worker
  BY <1>1, <1>10 DEF Worker, Start, SkipRun, SkipHand, Run, Hand, Post, file, threads
<1>11. CASE UNCHANGED vars
  BY <1>1, <1>11 DEF vars, file, threads
<1> QED
  BY <1>3, <1>4, <1>5, <1>6, <1>7, <1>8, <1>9, <1>10, <1>11 DEF Next, EndWrite

(* A Realm that has waited with the lock is at the latest version, and its  *)
(* callbacks know it.                                                       *)
LEMMA WaitedInforms ==
    ASSUME IInv, Locked, Enlisted, Informed, NEW r \in Realm, Waited(r)
    PROVE  Informed'
<1> DEFINE P      == HasRun(r)
           behind == P # {} /\ PackageVersion(P) < goal[r]
           v      == IF P = {} \/ behind THEN latest ELSE PackageVersion(P)
           w      == stage[r] = "promoting"
<1>1. /\ P \subseteq Notifier /\ P \subseteq main \intersect alive
      /\ \A n \in P : Owner[n] = r /\ nt[n].hasRun
  BY DEF HasRun, Mine, IInv, TypeOK, Listed
<1>2. v \in Version /\ w \in BOOLEAN /\ (P # {} => PackageVersion(P) \in Version)
  BY <1>1, PackageVersionTyped DEF IInv, TypeOK
<1>3. /\ at' = [at EXCEPT ![r] = v]
      /\ IF behind THEN Apply(P, Dropped) ELSE Apply(P, LAMBDA s : Delivered(s, v, w))
      /\ stage' = [stage EXCEPT ![r] = IF w THEN "writing" ELSE "reading"]
      /\ UNCHANGED <<latest, alive>> /\ Ready(r, goal[r])
      /\ stage[r] \in {"promoting", "refreshing"}
  BY DEF Waited
<1>4. \A n \in Notifier : nt[n] \in Notifiers
  BY DEF IInv, TypeOK
<1>5. \A n \in Notifier \ P : nt'[n] = nt[n]
  BY <1>3 DEF Apply
<1>6. \A n \in alive \intersect P : nt[n].ver = PackageVersion(P)
  <2>1. ASSUME NEW n \in P
        PROVE  nt[n].ver = PackageVersion(P)
    <3>1. PackageVersion(P) \in {nt[m].ver : m \in P}
      BY <2>1 DEF PackageVersion
    <3>2. PICK m \in P : PackageVersion(P) = nt[m].ver
      BY <3>1
    <3> QED  BY <1>1, <2>1, <3>2 DEF IInv, OnePackageVersion
  <2> QED  BY <2>1
<1>7. ASSUME NEW n \in alive, Owner[n] = r, nt[n].cb # "none"
      PROVE  n \in P /\ nt[n].ver >= goal[r]
  BY <1>3, <1>7 DEF Ready, HasRun, Mine, Enlisted
<1>8. P # {} => PackageVersion(P) <= latest
  BY <1>1, PackageVersionTyped DEF IInv
<1> HIDE DEF P
<1>9. ASSUME NEW n \in alive, Owner[n] = r, w, nt'[n].cb # "none"
      PROVE  nt'[n].cb = "told" /\ nt'[n].told = at'[Owner[n]] /\ at'[Owner[n]] = latest
  <2>1. n \in Notifier /\ at'[r] = v
    BY <1>3 DEF IInv, TypeOK
  <2>2. goal[r] = latest
    BY <1>9 DEF Locked
  <2>3. nt[n].cb # "none"
    <3>1. CASE n \in P /\ behind
      <4>1. nt'[n] = Dropped(nt[n])
        BY <1>3, <2>1, <3>1 DEF Apply
      <4> QED  BY <1>2, <1>4, <1>9, <2>1, <4>1, SilentSteps
    <3>2. CASE n \in P /\ ~behind
      <4>1. nt'[n] = Delivered(nt[n], v, w)
        BY <1>3, <2>1, <3>2 DEF Apply
      <4> HIDE DEF v, w
      <4>2. Delivered(nt[n], v, w).cb = IF nt[n].cb = "none" THEN "none" ELSE "told"
        BY <1>2, <1>4, <2>1, DeliveredTold
      <4> QED  BY <1>9, <4>1, <4>2
    <3>3. CASE n \notin P
      BY <1>5, <1>9, <2>1, <3>3
    <3> QED  BY <3>1, <3>2, <3>3
  <2>4. n \in P /\ PackageVersion(P) >= latest
    BY <1>6, <1>7, <1>9, <2>2, <2>3
  <2>5. PackageVersion(P) \in Nat /\ latest \in Nat
    BY <1>2, <2>4, VersionsTyped DEF IInv, TypeOK
  <2>6. ~behind /\ v = latest
    BY <1>8, <2>2, <2>4, <2>5
  <2>7. nt'[n] = Delivered(nt[n], v, w)
    BY <1>3, <2>1, <2>4, <2>6 DEF Apply
  <2> HIDE DEF v, w
  <2>8. Delivered(nt[n], v, w).cb = "told" /\ Delivered(nt[n], v, w).told = v
    BY <1>2, <1>4, <2>1, <2>3, DeliveredTold
  <2>9. at'[Owner[n]] = v
    BY <1>9, <2>1
  <2> QED  BY <2>6, <2>7, <2>8, <2>9
<1> HIDE DEF v
<1>10. ASSUME NEW n \in alive, Owner[n] # r
       PROVE  nt'[n] = nt[n] /\ at'[Owner[n]] = at[Owner[n]] /\ stage'[Owner[n]] = stage[Owner[n]]
  BY <1>1, <1>3, <1>5, <1>10, ConstantsAssumption DEF IInv, TypeOK
<1>11. stage'[r] = IF w THEN "writing" ELSE "reading"
  BY <1>3 DEF IInv, TypeOK
<1> QED  BY <1>3, <1>9, <1>10, <1>11 DEF Informed

(* In the run loop, a Realm is told of nothing while it writes.             *)
LEMMA NotifyInforms ==
    ASSUME IInv, Informed, NEW r \in Realm, Notify(r)
    PROVE  Informed'
<1>1. UNCHANGED <<latest, stage, alive>> /\ stage[r] \in {"reading", "writing"}
  BY DEF Notify
<1>2. CASE stage[r] = "writing"
  <2>1. UNCHANGED <<at, nt>>
    BY <1>2 DEF Notify
  <2> QED  BY <1>1, <2>1 DEF Informed
<1>3. CASE stage[r] = "reading"
  <2> DEFINE P == HasRun(r)
             v == PackageVersion(P)
             Q == {n \in P : nt[n].ver = at[r]}
  <2>1. \/ UNCHANGED <<at, nt>>
        \/ Apply(Q, LAMBDA s : Delivered(s, at[r], FALSE)) /\ UNCHANGED at
        \/ at' = [at EXCEPT ![r] = latest] /\ UNCHANGED nt
        \/ Apply(P, Dropped) /\ UNCHANGED at
        \/ at' = [at EXCEPT ![r] = v] /\ Apply(P, LAMBDA s : Delivered(s, v, FALSE))
    BY DEF Notify
  <2>2. \A n \in P : Owner[n] = r
    BY DEF HasRun, Mine
  <2> HIDE DEF P, v
  <2>3. \A n \in Notifier \ P : nt'[n] = nt[n]
    BY <2>1 DEF Apply
  <2>4. \A q \in Realm : q # r => at'[q] = at[q]
    BY <2>1 DEF IInv, TypeOK
  <2>5. ASSUME NEW n \in alive, stage[Owner[n]] \in {"writing", "committing"}
        PROVE  nt'[n] = nt[n] /\ at'[Owner[n]] = at[Owner[n]]
    BY <1>3, <2>2, <2>3, <2>4, <2>5, ConstantsAssumption DEF IInv, TypeOK
  <2> QED  BY <1>1, <2>5 DEF Informed
<1> QED  BY <1>1, <1>2, <1>3

(* What the worker does, no callback hears of.                              *)
LEMMA RunSilent ==
    ASSUME IInv, NEW S, NEW v \in Version, RunAll(S, v)
    PROVE  SameTold(Notifier)
<1>1. \A n \in Notifier : nt'[n] = IF n \in S /\ NeedsRun(n, v) THEN Ran(nt[n], v) ELSE nt[n]
  BY DEF RunAll
<1>2. \A n \in Notifier : nt[n] \in Notifiers
  BY DEF IInv, TypeOK
<1>3. ASSUME NEW n \in Notifier
      PROVE  nt'[n].cb = nt[n].cb /\ nt'[n].told = nt[n].told
  <2>1. Ran(nt[n], v).cb = nt[n].cb /\ Ran(nt[n], v).told = nt[n].told
    BY <1>2, SilentSteps
  <2> QED  BY <1>1, <2>1
<1> QED  BY <1>3 DEF SameTold

(* Nor of the hand-over ...                                                 *)
LEMMA HandSilent ==
    ASSUME IInv, NEW S, NEW v \in Version, HandAll(S, v)
    PROVE  SameTold(Notifier)
<1>1. \A n \in Notifier : nt'[n] = IF n \in S THEN Handed(nt[n], v) ELSE nt[n]
  BY DEF HandAll, Apply
<1>2. \A n \in Notifier : nt[n] \in Notifiers
  BY DEF IInv, TypeOK
<1>3. ASSUME NEW n \in Notifier
      PROVE  nt'[n].cb = nt[n].cb /\ nt'[n].told = nt[n].told
  <2>1. Handed(nt[n], v).cb = nt[n].cb /\ Handed(nt[n], v).told = nt[n].told
    BY <1>2, SilentSteps
  <2> QED  BY <1>1, <2>1
<1> QED  BY <1>3 DEF SameTold

(* ... nor of anything else that the worker does.                           *)
LEMMA WorkerSilent ==
    ASSUME IInv, Worker
    PROVE  SameTold(Notifier) /\ UNCHANGED <<file, stage, alive>>
<1>1. CASE Start
  <2>1. UNCHANGED <<file, stage, alive, nt>>
    BY <1>1 DEF Start, threads
  <2> QED  BY <2>1 DEF SameTold
<1>2. CASE Post
  <2>1. UNCHANGED <<file, stage, alive, nt>>
    BY <1>2 DEF Post
  <2> QED  BY <2>1 DEF SameTold
<1>3. CASE SkipRun \/ SkipHand \/ Run \/ Hand
  <2> DEFINE v == IF work.step \in {"skipping", "skipped"} THEN work.skipTo ELSE work.target
  <2>1. UNCHANGED <<file, stage, alive>>
    BY <1>3 DEF SkipRun, SkipHand, Run, Hand, threads
  <2>2. \E S : RunAll(S, v) \/ HandAll(S, v)
    BY <1>3 DEF SkipRun, SkipHand, Run, Hand
  <2>3. work.step \in Busy
    BY <1>3 DEF SkipRun, SkipHand, Run, Hand, Busy
  <2>4. v \in 0 .. MaxVersion /\ v # None
    BY <2>3 DEF IInv, TypeOK, Works, Listed
  <2>5. v \in Version
    BY <2>4, ConstantsAssumption DEF Version, None
  <2> HIDE DEF v
  <2> QED  BY <2>1, <2>2, <2>5, RunSilent, HandSilent
<1> QED  BY <1>1, <1>2, <1>3 DEF Worker

(* A writer knows everything until its write ends.                          *)
LEMMA StepInformed ==
    ASSUME IInv, Locked, Enlisted, Informed, [Next]_vars
    PROVE  Informed'
<1>1. /\ alive \subseteq Notifier /\ nt \in [Notifier -> Notifiers]
      /\ \A n \in Notifier : Owner[n] \in Realm
      /\ stage \in [Realm -> Stage] /\ at \in [Realm -> Version]
  BY ConstantsAssumption DEF IInv, TypeOK
<1>2. CASE SameTold(Notifier) /\ UNCHANGED <<file, stage>> /\ alive' \subseteq alive
  BY <1>1, <1>2 DEF file, SameTold, Informed
<1>3. ASSUME NEW n \in Notifier, NEW u \in Uses, Register(n, u)
      PROVE  Informed'
  <2>1. /\ alive' = alive \union {n} /\ stage[Owner[n]] = "reading" /\ UNCHANGED <<file, stage>>
        /\ \A m \in Notifier \ {n} : nt'[m] = nt[m]
    BY <1>1, <1>3 DEF Register, threads
  <2> QED  BY <1>1, <2>1 DEF file, Informed
<1>4. ASSUME NEW n \in Notifier, AddCallback(n)
      PROVE  Informed'
  <2>1. /\ stage[Owner[n]] = "reading" /\ UNCHANGED <<file, stage, alive>>
        /\ \A m \in Notifier \ {n} : nt'[m] = nt[m]
    BY <1>1, <1>4 DEF AddCallback, threads
  <2> QED  BY <1>1, <2>1 DEF file, Informed
<1>5. ASSUME NEW n \in Notifier, Use(n) \/ Unregister(n)
      PROVE  Informed'
  <2>1. UNCHANGED <<file, stage>> /\ alive' \subseteq alive
    BY <1>5 DEF Use, Unregister, threads
  <2>2. CASE Use(n)
    <3>1. nt' = [nt EXCEPT ![n] = Used(nt[n])]
      BY <2>2 DEF Use, Used
    <3>2. Used(nt[n]).cb = nt[n].cb /\ Used(nt[n]).told = nt[n].told
      BY <1>1, SilentSteps, VersionsTyped, ConstantsAssumption DEF Version
    <3>3. SameTold(Notifier)
      BY <1>1, <3>1, <3>2 DEF SameTold
    <3> QED  BY <1>2, <2>1, <3>3
  <2>3. CASE Unregister(n)
    BY <1>2, <2>1, <2>3 DEF Unregister, SameTold
  <2> QED  BY <1>5, <2>2, <2>3
<1>6. ASSUME NEW n \in Notifier, RemoveCallback(n)
      PROVE  Informed'
  <2>1. /\ UNCHANGED <<file, stage, alive>> /\ nt' = [nt EXCEPT ![n] = Removed(nt[n])]
    BY <1>6 DEF RemoveCallback, Removed, threads
  <2>2. Removed(nt[n]).cb = "none"
    <3>1. ASSUME NEW Version0, NEW Changes, NEW Ver, NEW s \in Records(Version0, Changes, Ver)
          PROVE  Removed(s).cb = "none"
      BY <3>1 DEF Records, Removed
    <3> QED  BY <1>1, <3>1, NotifiersAreRecords
  <2>3. nt'[n].cb = "none" /\ \A m \in Notifier \ {n} : nt'[m] = nt[m]
    BY <1>1, <2>1, <2>2
  <2> QED  BY <1>1, <2>1, <2>3 DEF file, Informed
<1>7. ASSUME NEW r \in Realm, Promote(r) \/ Refresh(r)
      PROVE  Informed'
  <2>1. /\ UNCHANGED <<latest, at, alive, nt>>
        /\ \E s \in {"promoting", "refreshing"} : stage' = [stage EXCEPT ![r] = s]
    BY <1>7 DEF Promote, Refresh, Waits
  <2> QED  BY <1>1, <2>1 DEF Informed
<1>8. ASSUME NEW r \in Realm, WaitOn(r)
      PROVE  Informed'
  BY <1>2, <1>8 DEF WaitOn, SameTold
<1>9. ASSUME NEW r \in Realm, NEW S \in SUBSET Mine(r), Suppress(r, S)
      PROVE  Informed'
  <2>1. \A n \in Notifier : Skipped(nt[n]).cb = nt[n].cb /\ Skipped(nt[n]).told = nt[n].told
    BY <1>1, SilentSteps, VersionsTyped, ConstantsAssumption DEF Version
  <2>2. SameTold(Notifier)
    BY <1>9, <2>1 DEF Suppress, SameTold, Skipped
  <2>3. /\ UNCHANGED <<file, alive>> /\ stage[r] = "writing"
        /\ stage' = [stage EXCEPT ![r] = "committing"]
    BY <1>9 DEF Suppress
  <2> QED  BY <1>1, <2>2, <2>3 DEF file, SameTold, Informed
<1>10. ASSUME NEW r \in Realm, CommitFails(r)
       PROVE  Informed'
  <2>1. /\ UNCHANGED <<file, alive, nt>> /\ stage[r] = "committing"
        /\ stage' = [stage EXCEPT ![r] = "writing"]
    BY <1>10 DEF CommitFails
  <2> QED  BY <1>1, <2>1 DEF file, Informed
<1>11. ASSUME NEW r \in Realm, Commit(r)
       PROVE  Informed'
  <2>1. /\ UNCHANGED <<alive, nt>> /\ stage[r] \in {"writing", "committing"}
        /\ stage' = [stage EXCEPT ![r] = "signalling"]
    BY <1>11 DEF Commit
  <2>2. \A q \in Realm : q # r => stage[q] \notin {"writing", "committing"}
    BY <2>1 DEF Locked
  <2> QED  BY <1>1, <2>1, <2>2 DEF Informed
<1>12. ASSUME NEW r \in Realm, Cancel(r) \/ Signal(r)
       PROVE  Informed'
  <2>1. /\ UNCHANGED <<latest, at, alive, nt>>
        /\ stage' = [stage EXCEPT ![r] = "reading"]
    BY <1>12 DEF Cancel, Signal, file
  <2> QED  BY <1>1, <2>1 DEF Informed
<1>13. CASE Worker
  BY <1>2, <1>13, WorkerSilent
<1>14. CASE UNCHANGED vars
  BY <1>2, <1>14 DEF vars, threads, SameTold
<1> QED
  BY <1>3, <1>4, <1>5, <1>6, <1>7, <1>8, <1>9, <1>10, <1>11, <1>12, <1>13, <1>14,
     WaitedInforms, NotifyInforms DEF Next, EndWrite

(* A Realm that has begun a write, outside its callbacks, has told them     *)
(* everything before: begin_transaction waits, with the lock, for the       *)
(* worker and delivers.                                                     *)
THEOREM WriterCorrectness == Spec => []WritersKnowAll
<1>1. Init => Locked /\ Enlisted /\ Informed
  BY DEF Init, Locked, Enlisted, Informed
<1>2. IInv /\ Locked /\ Enlisted /\ Informed /\ [Next]_vars => (Locked /\ Enlisted /\ Informed)'
  BY StepLocked, StepEnlisted, StepInformed
<1>3. Spec => [](Locked /\ Enlisted /\ Informed)
  BY <1>1, <1>2, Invariance, PTL DEF Spec
<1>4. Informed => WritersKnowAll
  BY DEF Informed, WritersKnowAll
<1> QED  BY <1>3, <1>4, PTL

-----------------------------------------------------------------------------
(* The rows that wait                                                       *)

(* The notifiers that have been run and not handed over, and up to where.   *)
Pending   == CASE work.step = "skipped" -> work.old
               [] work.step = "ran"     -> work.old \union work.fresh
               [] OTHER                 -> {}
PendingAt == IF work.step = "skipped" THEN work.skipTo ELSE work.target

(* Rows are of the version of their notifier; those of a run that is under  *)
(* way are of the version that it goes to, unless nothing has changed.      *)
Settled(s) ==
    /\ s.tv = None
    /\ s.hasRun => s.rowsAt = s.ver
    /\ ~s.hasRun => s.handover = None
    /\ s.handover # None => s.handover = s.ver
Moving(s, v) ==
    /\ s.rowsAt = v
    /\ s.tv = v \/ (s.tv = None /\ s.hasRun /\ s.ver = v)
    /\ ~s.hasRun => s.handover = None
    /\ s.handover # None => s.handover = s.ver
RowsInv ==
    \A n \in alive \ passedOver :
        IF n \in Pending THEN Moving(nt[n], PendingAt) ELSE Settled(nt[n])

(* The worker is not behind a notifier that has run, and is where it ran    *)
(* those that it has not handed over.                                       *)
Following ==
    /\ \A n \in main : nt[n].hasRun => nt[n].ver <= helper
    /\ work.step \in {"skipped", "ran"} => helper = PendingAt

(* What a callback knows is what its Realm reads, or what that read before  *)
(* it committed.                                                            *)
Known(n) ==
    nt[n].cb = "told" =>
        nt[n].hasRun /\ nt[n].told <= nt[n].ver /\ at[Owner[n]] - 1 <= nt[n].told
Ordered == \A n \in alive : Known(n)

(* Who is suppressed is being committed, and only then.                     *)
Quieted == \A n \in quiet : n \in Notifier /\ stage[Owner[n]] = "committing"

(* A callback that has not been called is not suppressed.                   *)
Marking(n) ==
    /\ \A w \in muted[n] : w <= latest
    /\ nt[n].cb # "told" => ~nt[n].skip
    /\ nt[n].cb = "added" => muted[n] = {}

(* A mark is for one commit: the next version of its notifier, to which the *)
(* worker will go first.                                                    *)
Due(n, w) ==
    /\ w = nt[n].ver + 1 /\ w \in muted[n] /\ \A x \in muted[n] : x <= w
    /\ \/ n \in main /\ skipVersion = w /\ (work.step \in Busy => work.target < w)
       \/ n \in work.old /\ work.step \in {"skipping", "skipped"} /\ work.skipTo = w

(* What waits for a callback is what happened since it was called.          *)
Continues(n) ==
    /\ nt[n].delta = IF n \in Pending /\ nt[n].hasRun THEN nt[n].ver + 1 .. PendingAt ELSE {}
    /\ nt[n].cb = "told" =>
         /\ nt[n].acc = (nt[n].told + 1 .. nt[n].ver) \ muted[n]
         /\ n \in quiet => nt[n].skip
         /\ ~nt[n].skip => \A w \in muted[n] : w <= nt[n].ver
         /\ nt[n].skip /\ n \notin quiet => \E w \in Version : Due(n, w)

(* All of it, of one notifier, and the invariant that it is part of.        *)
Fine(n) == Known(n) /\ Marking(n) /\ (n \notin passedOver \union mixedUp => Continues(n))
ChangesInv ==
    /\ IInv /\ Locked /\ Enlisted /\ Informed /\ RowsInv /\ Following /\ Quieted
    /\ \A n \in alive : Fine(n)

(* What the steps do to the fields of a notifier.                           *)
LEMMA RanFields ==
    ASSUME NEW s \in Notifiers, NEW v \in Version
    PROVE  /\ Ran(s, v).tv = v /\ Ran(s, v).rowsAt = v
           /\ Ran(s, v).delta = IF s.hasRun THEN s.rowsAt + 1 .. v ELSE {}
           /\ Ran(s, v).acc = s.acc /\ Ran(s, v).skip = s.skip
           /\ Ran(s, v).handover = s.handover
<1>1. ASSUME NEW Version0, NEW Changes, NEW Ver, s \in Records(Version0, Changes, Ver)
      PROVE  /\ Ran(s, v).tv = v /\ Ran(s, v).rowsAt = v
             /\ Ran(s, v).delta = IF s.hasRun THEN s.rowsAt + 1 .. v ELSE {}
             /\ Ran(s, v).acc = s.acc /\ Ran(s, v).skip = s.skip
             /\ Ran(s, v).handover = s.handover
  <2> DEFINE d == s.rowsAt + 1 .. v
  <2>1. Ran(s, v) = [s EXCEPT !.tv = v, !.rowsAt = v, !.delta = IF s.hasRun THEN d ELSE {}]
    BY DEF Ran
  <2> HIDE DEF d
  <2>2. /\ Ran(s, v).tv = v /\ Ran(s, v).rowsAt = v
        /\ Ran(s, v).delta = IF s.hasRun THEN d ELSE {}
        /\ Ran(s, v).acc = s.acc /\ Ran(s, v).skip = s.skip
        /\ Ran(s, v).handover = s.handover
    BY <1>1, <2>1 DEF Records
  <2> QED  BY <2>2 DEF d
<1> QED  BY <1>1, NotifiersAreRecords

(* What the hand-over does: changes are added to those that wait, unless    *)
(* the callback is suppressed, and new rows take the place of older ones.   *)
LEMMA HandedFields ==
    ASSUME NEW s \in Notifiers, NEW v \in Version
    PROVE  /\ Handed(s, v).tv = None /\ Handed(s, v).rowsAt = s.rowsAt
           /\ Handed(s, v).delta = {} /\ ~Handed(s, v).skip
           /\ Handed(s, v).handover = IF s.tv = None THEN s.handover ELSE s.tv
           /\ Handed(s, v).acc = IF s.cb = "none" \/ s.skip THEN s.acc ELSE s.acc \union s.delta
<1>1. ASSUME NEW Version0, NEW Changes, NEW Ver, s \in Records(Version0, Changes, Ver)
      PROVE  /\ Handed(s, v).tv = None /\ Handed(s, v).rowsAt = s.rowsAt
             /\ Handed(s, v).delta = {} /\ ~Handed(s, v).skip
             /\ Handed(s, v).handover = IF s.tv = None THEN s.handover ELSE s.tv
             /\ Handed(s, v).acc = IF s.cb = "none" \/ s.skip THEN s.acc ELSE s.acc \union s.delta
  <2> DEFINE a == s.acc \union s.delta
  <2>1. Handed(s, v) =
          [s EXCEPT !.ver = v, !.hasRun = TRUE, !.tv = None, !.delta = {}, !.skip = FALSE,
                    !.handover = IF s.tv = None THEN @ ELSE s.tv,
                    !.acc = IF s.cb = "none" \/ s.skip THEN @ ELSE a]
    BY DEF Handed
  <2> HIDE DEF a
  <2>2. /\ Handed(s, v).tv = None /\ Handed(s, v).rowsAt = s.rowsAt
        /\ Handed(s, v).delta = {} /\ ~Handed(s, v).skip
        /\ Handed(s, v).handover = IF s.tv = None THEN s.handover ELSE s.tv
        /\ Handed(s, v).acc = IF s.cb = "none" \/ s.skip THEN s.acc ELSE a
    BY <1>1, <2>1 DEF Records
  <2> QED  BY <2>2 DEF a
<1> QED  BY <1>1, NotifiersAreRecords

(* Steps that leave the rows and what was found in them alone.              *)
SameRows(s, t) ==
    /\ t.tv = s.tv /\ t.rowsAt = s.rowsAt /\ t.ver = s.ver /\ t.hasRun = s.hasRun
    /\ t.delta = s.delta /\ t.handover \in {s.handover, None}

(* Delivery leaves nothing waiting ...                                      *)
LEMMA DeliveredFields ==
    ASSUME NEW s \in Notifiers, NEW v \in Version, NEW w \in BOOLEAN
    PROVE  /\ SameRows(s, Delivered(s, v, w))
           /\ Delivered(s, v, w).acc = {} /\ Delivered(s, v, w).skip = s.skip
<1>1. ASSUME NEW Version0, NEW Changes, NEW Ver, s \in Records(Version0, Changes, Ver)
      PROVE  /\ SameRows(s, Delivered(s, v, w))
             /\ Delivered(s, v, w).acc = {} /\ Delivered(s, v, w).skip = s.skip
  BY <1>1 DEF SameRows, Delivered, Records
<1> QED  BY <1>1, NotifiersAreRecords

(* ... nor does dropping ...                                                *)
LEMMA DroppedFields ==
    ASSUME NEW s \in Notifiers
    PROVE  /\ SameRows(s, Dropped(s))
           /\ Dropped(s).acc = {} /\ Dropped(s).skip = s.skip
<1>1. ASSUME NEW Version0, NEW Changes, NEW Ver, s \in Records(Version0, Changes, Ver)
      PROVE  SameRows(s, Dropped(s)) /\ Dropped(s).acc = {} /\ Dropped(s).skip = s.skip
  BY <1>1 DEF SameRows, Dropped, Records
<1> QED  BY <1>1, NotifiersAreRecords

(* ... and what the user does is done to one field or two.                  *)
LEMMA ChangedFields ==
    ASSUME NEW s \in Notifiers
    PROVE  /\ SameRows(s, Added(s)) /\ Added(s).cb = "added" /\ Added(s).skip = s.skip
           /\ SameRows(s, Used(s)) /\ Used(s).acc = s.acc /\ Used(s).skip = s.skip
           /\ Used(s).cb = s.cb /\ Used(s).told = s.told
           /\ SameRows(s, Removed(s)) /\ Removed(s).cb = "none" /\ ~Removed(s).skip
           /\ SameRows(s, Skipped(s)) /\ Skipped(s).acc = s.acc /\ Skipped(s).skip
           /\ Skipped(s).cb = s.cb /\ Skipped(s).told = s.told
<1>1. ASSUME NEW Version0, NEW Changes, NEW Ver, s \in Records(Version0, Changes, Ver)
      PROVE  /\ SameRows(s, Added(s)) /\ Added(s).cb = "added" /\ Added(s).skip = s.skip
             /\ SameRows(s, Used(s)) /\ Used(s).acc = s.acc /\ Used(s).skip = s.skip
             /\ Used(s).cb = s.cb /\ Used(s).told = s.told
             /\ SameRows(s, Removed(s)) /\ Removed(s).cb = "none" /\ ~Removed(s).skip
             /\ SameRows(s, Skipped(s)) /\ Skipped(s).acc = s.acc /\ Skipped(s).skip
             /\ Skipped(s).cb = s.cb /\ Skipped(s).told = s.told
  BY <1>1 DEF SameRows, Added, Used, Removed, Skipped, Records
<1> QED  BY <1>1, NotifiersAreRecords

(* What the thread of a Realm does to a notifier of its own, when it is     *)
(* brought changes: the callback, if there is one, comes to know the        *)
(* version of the notifier, which is what the Realm reads then; or there is *)
(* nothing to tell.                                                         *)
Brought(r, n) ==
    \/ nt'[n] = nt[n] /\ (nt[n].cb = "told" => at'[r] = at[r])
    \/ /\ nt[n].hasRun /\ at'[r] = nt[n].ver
       /\ \E w \in BOOLEAN : nt'[n] = Delivered(nt[n], nt[n].ver, w)
    \/ /\ nt'[n] = Dropped(nt[n])
       /\ nt[n].cb = "told" => nt[n].told = nt[n].ver /\ at'[r] = at[r]

(* All versions are natural numbers.                                        *)
LEMMA VersionsAreNat ==
    ASSUME TypeOK
    PROVE  /\ \A n \in Notifier : nt[n].ver \in Nat /\ nt[n].told \in Nat /\ nt[n].rowsAt \in Nat
           /\ \A n \in Notifier : nt[n].ver \in Version
           /\ \A r \in Realm : at[r] \in Nat /\ goal[r] \in Nat
           /\ latest \in Nat /\ helper \in Nat /\ skipVersion \in Nat
           /\ work.target \in Nat /\ work.skipTo \in Nat
           /\ \A v \in Version : v \in Nat
<1>1. \A v \in 0 .. MaxVersion : v \in Nat
  OBVIOUS
<1>2. \A v \in Version : v \in Nat
  BY VersionsTyped
<1>3. \A n \in Notifier : nt[n] \in Notifiers
  BY DEF TypeOK
<1>4. \A s \in Notifiers : s.ver \in Version /\ s.told \in 0 .. MaxVersion
      /\ s.rowsAt \in 0 .. MaxVersion
  BY DEF Notifiers
<1>5. work.target \in 0 .. MaxVersion /\ work.skipTo \in 0 .. MaxVersion
  BY DEF TypeOK, Works
<1>6. /\ \A r \in Realm : at[r] \in Version /\ goal[r] \in 0 .. MaxVersion
      /\ latest \in Version /\ helper \in 0 .. MaxVersion /\ skipVersion \in 0 .. MaxVersion
  BY DEF TypeOK
<1> QED  BY <1>1, <1>2, <1>3, <1>4, <1>5, <1>6

(* A notifier with a called callback is among those that have run.          *)
LEMMA ToldHasRun ==
    ASSUME IInv, Enlisted, Ordered, NEW n \in alive, nt[n].cb = "told"
    PROVE  nt[n].hasRun /\ n \in main /\ n \in HasRun(Owner[n])
  BY DEF IInv, TypeOK, Listed, Enlisted, Ordered, Known, HasRun, Mine

(* The notifiers of a Realm that have run are all at the package's version. *)
LEMMA PackageIs ==
    ASSUME IInv, NEW r \in Realm, NEW n \in HasRun(r)
    PROVE  nt[n].ver = PackageVersion(HasRun(r)) /\ nt[n].hasRun
<1> DEFINE P == HasRun(r)
<1>1. P \subseteq main \intersect alive /\ \A m \in P : nt[m].hasRun
  BY DEF HasRun, Mine, IInv, TypeOK, Listed
<1>2. PackageVersion(P) \in {nt[m].ver : m \in P}
  BY DEF PackageVersion
<1>3. PICK m \in P : PackageVersion(P) = nt[m].ver
  BY <1>2
<1> QED  BY <1>1, <1>3 DEF IInv, OnePackageVersion

(* A Realm that has waited brings the changes to its own notifiers only; it *)
(* drops what was packaged for none that has a callback.                    *)
LEMMA WaitedBrings ==
    ASSUME IInv, Enlisted, Ordered, NEW r \in Realm, Waited(r)
    PROVE  /\ \A n \in alive : Owner[n] = r => Brought(r, n)
           /\ \A n \in alive : Owner[n] # r => nt'[n] = nt[n]
<1> DEFINE P      == HasRun(r)
           behind == P # {} /\ PackageVersion(P) < goal[r]
           v      == IF P = {} \/ behind THEN latest ELSE PackageVersion(P)
           w      == stage[r] = "promoting"
<1>1. /\ at' = [at EXCEPT ![r] = v]
      /\ IF behind THEN Apply(P, Dropped) ELSE Apply(P, LAMBDA s : Delivered(s, v, w))
      /\ Ready(r, goal[r])
  BY DEF Waited
<1>2. /\ alive \subseteq Notifier /\ at'[r] = v /\ w \in BOOLEAN
      /\ \A n \in Notifier \ P : nt'[n] = nt[n]
      /\ \A n \in P : Owner[n] = r
  BY <1>1 DEF Apply, IInv, TypeOK, HasRun, Mine
<1>3. goal[r] \in Nat /\ \A n \in Notifier : nt[n].ver \in Nat
  BY VersionsAreNat DEF IInv
<1>4. ASSUME NEW n \in alive, Owner[n] = r
      PROVE  Brought(r, n)
  <2>1. CASE n \notin P
    BY <1>2, <1>4, <2>1, ToldHasRun DEF Brought
  <2>2. CASE n \in P /\ ~behind
    <3>1. v = nt[n].ver /\ nt[n].hasRun
      BY <2>2, PackageIs
    <3>2. nt'[n] = Delivered(nt[n], v, w)
      BY <1>1, <1>2, <2>2 DEF Apply
    <3> QED  BY <1>2, <3>1, <3>2 DEF Brought
  <2>3. CASE n \in P /\ behind
    <3>1. nt'[n] = Dropped(nt[n])
      BY <1>1, <1>2, <2>3 DEF Apply
    <3>2. nt[n].ver = PackageVersion(P)
      BY <2>3, PackageIs
    <3>3. ~(nt[n].ver >= goal[r])
      BY <1>2, <1>3, <2>3, <3>2
    <3>4. nt[n].cb = "none"
      BY <1>1, <2>3, <3>3 DEF Ready, HasRun
    <3> QED  BY <3>1, <3>4 DEF Brought
  <2> QED  BY <2>1, <2>2, <2>3
<1>5. \A n \in alive : Owner[n] # r => nt'[n] = nt[n]
  BY <1>2
<1> QED  BY <1>4, <1>5

(* The run loop does, too; what it drops was of a version that the Realm has*)
(* left by its own commit, and the callbacks knew it.                       *)
LEMMA NotifyBrings ==
    ASSUME IInv, Enlisted, Ordered, NEW r \in Realm, Notify(r)
    PROVE  /\ \A n \in alive : Owner[n] = r => Brought(r, n)
           /\ \A n \in alive : Owner[n] # r => nt'[n] = nt[n]
<1> DEFINE P == HasRun(r)
           v == PackageVersion(P)
           Q == {n \in P : nt[n].ver = at[r]}
<1>1. \/ UNCHANGED <<at, nt>>
      \/ Apply(Q, LAMBDA s : Delivered(s, at[r], FALSE)) /\ UNCHANGED at
      \/ P = {} /\ at' = [at EXCEPT ![r] = latest] /\ UNCHANGED nt
      \/ v < at[r] /\ Apply(P, Dropped) /\ UNCHANGED at
      \/ P # {} /\ at' = [at EXCEPT ![r] = v] /\ Apply(P, LAMBDA s : Delivered(s, v, FALSE))
  BY DEF Notify
<1>2. alive \subseteq Notifier /\ \A n \in P : Owner[n] = r /\ nt[n].ver = v /\ nt[n].hasRun
  BY PackageIs DEF IInv, TypeOK, HasRun, Mine
<1>3. at \in [Realm -> Version]
  BY DEF IInv, TypeOK
<1>4. ASSUME NEW n \in alive, nt[n].cb = "told", Owner[n] = r
      PROVE  n \in P /\ nt[n].told <= nt[n].ver /\ at[r] - 1 <= nt[n].told
             /\ nt[n].told \in Nat /\ nt[n].ver \in Nat /\ at[r] \in Nat
  BY <1>2, <1>4, ToldHasRun, VersionsAreNat DEF Ordered, Known, IInv
<1> HIDE DEF P, v
<1>5. CASE UNCHANGED <<at, nt>>
  BY <1>5 DEF Brought
<1>6. CASE Apply(Q, LAMBDA s : Delivered(s, at[r], FALSE)) /\ UNCHANGED at
  <2>1. \A n \in Notifier \ Q : nt'[n] = nt[n]
    BY <1>6 DEF Apply
  <2>2. \A n \in alive \intersect Q : nt'[n] = Delivered(nt[n], nt[n].ver, FALSE)
        /\ at'[r] = nt[n].ver
    BY <1>2, <1>6 DEF Apply
  <2> QED  BY <1>2, <1>6, <2>1, <2>2 DEF Brought
<1>7. CASE P = {} /\ at' = [at EXCEPT ![r] = latest] /\ UNCHANGED nt
  BY <1>4, <1>7 DEF Brought
<1>8. CASE v < at[r] /\ Apply(P, Dropped) /\ UNCHANGED at
  <2>1. \A n \in Notifier : nt'[n] = IF n \in P THEN Dropped(nt[n]) ELSE nt[n]
    BY <1>8 DEF Apply
  <2>2. \A n \in alive : nt[n].cb = "told" /\ Owner[n] = r => nt[n].told = nt[n].ver
    BY <1>2, <1>4, <1>8
  <2> QED  BY <1>2, <1>8, <2>1, <2>2 DEF Brought
<1>9. CASE P # {} /\ at' = [at EXCEPT ![r] = v] /\ Apply(P, LAMBDA s : Delivered(s, v, FALSE))
  <2>1. \A n \in Notifier : nt'[n] = IF n \in P THEN Delivered(nt[n], v, FALSE) ELSE nt[n]
    BY <1>9 DEF Apply
  <2>2. at'[r] = v
    BY <1>3, <1>9
  <2> QED  BY <1>2, <1>4, <2>1, <2>2 DEF Brought
<1> QED  BY <1>1, <1>5, <1>6, <1>7, <1>8, <1>9

(* The steps of users and their Realms, but for the making of a notifier.   *)
UserStep ==
    \/ \E n \in Notifier : AddCallback(n) \/ Use(n) \/ RemoveCallback(n) \/ Unregister(n)
    \/ \E r \in Realm :
         \/ Promote(r) \/ Refresh(r) \/ WaitOn(r) \/ Waited(r) \/ Notify(r)
         \/ \E S \in SUBSET Mine(r) : Suppress(r, S)
         \/ CommitFails(r) \/ Commit(r) \/ Cancel(r) \/ Signal(r)
    \/ UNCHANGED vars

(* Every step is one of these.                                              *)
LEMMA StepsAre ==
    ASSUME [Next]_vars
    PROVE  \/ \E n \in Notifier, u \in Uses : Register(n, u)
           \/ UserStep
           \/ Worker
<1>1. CASE \E n \in Notifier : \/ \E u \in Uses : Register(n, u)
                               \/ AddCallback(n) \/ Use(n) \/ RemoveCallback(n) \/ Unregister(n)
  BY <1>1 DEF UserStep
<1>2. ASSUME NEW r \in Realm,
             \/ Promote(r) \/ Refresh(r) \/ WaitOn(r) \/ Waited(r) \/ Notify(r)
             \/ \E S \in SUBSET {n \in Mine(r) : nt[n].cb # "none"} : S # {} /\ Suppress(r, S)
             \/ CommitFails(r) \/ EndWrite(r) \/ Signal(r)
      PROVE  UserStep
  <2>1. CASE \E S \in SUBSET {n \in Mine(r) : nt[n].cb # "none"} : Suppress(r, S)
    <3>1. \E S \in SUBSET Mine(r) : Suppress(r, S)
      BY <2>1
    <3> QED  BY <3>1 DEF UserStep
  <2> QED  BY <1>2, <2>1 DEF UserStep, EndWrite
<1>3. CASE UNCHANGED vars
  BY <1>3 DEF UserStep
<1> QED  BY <1>1, <1>2, <1>3 DEF Next

(* They leave the rows of the notifiers, and the worker, alone.             *)
LEMMA UserStepsKeep ==
    ASSUME IInv, UserStep
    PROVE  /\ \A n \in Notifier : SameRows(nt[n], nt'[n])
           /\ alive' \subseteq alive
           /\ UNCHANGED <<news, main, helper, work, passedOver>>
<1>1. \A n \in Notifier : nt[n] \in Notifiers
  BY DEF IInv, TypeOK
<1>2. \A n \in Notifier : SameRows(nt[n], nt[n])
  BY DEF SameRows
<1>3. /\ alive' \subseteq alive
      /\ UNCHANGED <<news, main, helper, work, passedOver>>
  BY DEF UserStep, AddCallback, Use, RemoveCallback, Unregister, Promote, Refresh, Waits, WaitOn,
         Waited, Notify, Suppress, CommitFails, Commit, Cancel, Signal, vars, lists, history
<1>4. ASSUME NEW n \in Notifier, AddCallback(n) \/ Use(n) \/ RemoveCallback(n) \/ Unregister(n)
      PROVE  \A m \in Notifier : SameRows(nt[m], nt'[m])
  <2>1. /\ \A m \in Notifier \ {n} : nt'[m] = nt[m]
        /\ nt'[n] \in {nt[n], Added(nt[n]), Used(nt[n]), Removed(nt[n])}
    BY <1>4 DEF AddCallback, Use, RemoveCallback, Unregister, Added, Used, Removed, IInv, TypeOK
  <2> QED  BY <1>1, <1>2, <2>1, ChangedFields
<1>5. ASSUME NEW r \in Realm,
             \/ Promote(r) \/ Refresh(r) \/ WaitOn(r) \/ CommitFails(r) \/ Commit(r)
             \/ Cancel(r) \/ Signal(r) \/ UNCHANGED vars
      PROVE  \A m \in Notifier : SameRows(nt[m], nt'[m])
  <2>1. nt' = nt
    BY <1>5 DEF Promote, Refresh, Waits, WaitOn, CommitFails, Commit, Cancel, Signal, vars
  <2> QED  BY <1>2, <2>1
<1>6. ASSUME NEW r \in Realm, NEW S \in SUBSET Mine(r), Suppress(r, S)
      PROVE  \A m \in Notifier : SameRows(nt[m], nt'[m])
  <2>1. \A m \in Notifier : nt'[m] \in {nt[m], Skipped(nt[m])}
    BY <1>6 DEF Suppress, Skipped
  <2> QED  BY <1>1, <1>2, <2>1, ChangedFields
<1>7. ASSUME NEW r \in Realm, Waited(r) \/ Notify(r)
      PROVE  \A m \in Notifier : SameRows(nt[m], nt'[m])
  <2>1. \A m \in Notifier :
            \/ nt'[m] \in {nt[m], Dropped(nt[m])}
            \/ \E v \in Version, w \in BOOLEAN : nt'[m] = Delivered(nt[m], v, w)
    <3> DEFINE P == HasRun(r)
    <3>1. P \subseteq Notifier /\ (P # {} => PackageVersion(P) \in Version) /\ latest \in Version
          /\ at[r] \in Version
      BY PackageVersionTyped DEF IInv, TypeOK, HasRun, Mine
    <3>2. CASE Waited(r)
      <4> DEFINE behind == P # {} /\ PackageVersion(P) < goal[r]
                 v      == IF P = {} \/ behind THEN latest ELSE PackageVersion(P)
                 w      == stage[r] = "promoting"
      <4>1. IF behind THEN Apply(P, Dropped) ELSE Apply(P, LAMBDA s : Delivered(s, v, w))
        BY <3>2 DEF Waited
      <4>2. v \in Version /\ w \in BOOLEAN
        BY <3>1
      <4> HIDE DEF P, v, w, behind
      <4> QED  BY <4>1, <4>2 DEF Apply
    <3>3. CASE Notify(r)
      <4> DEFINE v == PackageVersion(P)
                 Q == {n \in P : nt[n].ver = at[r]}
      <4>1. \/ UNCHANGED nt
            \/ Apply(Q, LAMBDA s : Delivered(s, at[r], FALSE))
            \/ Apply(P, Dropped)
            \/ P # {} /\ Apply(P, LAMBDA s : Delivered(s, v, FALSE))
        BY <3>3 DEF Notify
      <4> HIDE DEF P, v, Q
      <4> QED  BY <3>1, <4>1 DEF Apply, v
    <3> QED  BY <1>7, <3>2, <3>3
  <2> QED  BY <1>1, <1>2, <2>1, DeliveredFields, DroppedFields
<1> QED  BY <1>2, <1>3, <1>4, <1>5, <1>6, <1>7 DEF UserStep, vars

(* What the worker has with it, while it has anything.                      *)
LEMMA PendingIs ==
    ASSUME IInv
    PROVE  /\ Pending \subseteq main
           /\ work.step \notin {"skipped", "ran"} => Pending = {}
           /\ work.step = "skipped" => Pending = work.old /\ PendingAt = work.skipTo
           /\ work.step = "ran" => Pending = work.old \union work.fresh /\ PendingAt = work.target
           /\ work.step \in Busy => main = work.old \union work.fresh /\ work.target \in Version
           /\ work.step \in {"skipping", "skipped"} => work.skipTo \in Version
<1>1. work.target \in 0 .. MaxVersion /\ work.skipTo \in 0 .. MaxVersion
  BY DEF IInv, TypeOK, Works
<1>2. \A v \in 0 .. MaxVersion : v # None => v \in Version
  BY ConstantsAssumption DEF Version, None
<1>3. /\ work.step \in Busy => main = work.old \union work.fresh /\ work.target # None
      /\ work.step \in {"skipping", "skipped"} => work.skipTo # None
      /\ work.step \in {"skipped", "ran"} => work.step \in Busy
  BY DEF IInv, Listed, Busy
<1> QED  BY <1>1, <1>2, <1>3 DEF Pending, PendingAt

(* A notifier is made, and the others are left alone.                       *)
LEMMA RegisterIs ==
    ASSUME IInv, NEW n \in Notifier, NEW u \in Uses, Register(n, u)
    PROVE  LET t == New(at[Owner[n]], u)
           IN  /\ nt'[n] = t /\ t.cb = "none" /\ t.acc = {} /\ ~t.skip /\ ~t.hasRun
               /\ t.delta = {} /\ t.tv = None /\ t.handover = None
               /\ \A m \in Notifier \ {n} : nt'[m] = nt[m]
               /\ n \notin alive \union news \union main /\ n \notin Pending
               /\ UNCHANGED <<main, helper, skipVersion, work, file, stage, quiet>>
               /\ alive' = alive \union {n}
               /\ passedOver' = passedOver \ {n} /\ mixedUp' = mixedUp \ {n}
               /\ muted' = [muted EXCEPT ![n] = {}]
<1>1. n \notin alive \union news \union main /\ n \notin Pending
  BY PendingIs DEF Register
<1>2. /\ nt'[n] = New(at[Owner[n]], u)
      /\ \A m \in Notifier \ {n} : nt'[m] = nt[m]
  BY DEF Register, IInv, TypeOK
<1> QED  BY <1>1, <1>2 DEF Register, New, threads

(* The invariant looks at nothing but the rows.                             *)
LEMMA SettledStays ==
    ASSUME NEW s, NEW t, SameRows(s, t), NEW v
    PROVE  (Settled(s) => Settled(t)) /\ (Moving(s, v) => Moving(t, v))
  BY DEF SameRows, Settled, Moving

(* The worker runs the notifiers that are not up to date.                   *)
LEMMA RunMoves ==
    ASSUME IInv, NEW S, NEW v \in Version, RunAll(S, v), NEW n \in Notifier, n \in alive,
           n \notin passedOver', Settled(nt[n])
    PROVE  IF n \in S THEN Moving(nt'[n], v) ELSE Settled(nt'[n])
<1>1. nt'[n] = IF n \in S /\ NeedsRun(n, v) THEN Ran(nt[n], v) ELSE nt[n]
  BY DEF RunAll
<1>2. nt[n] \in Notifiers
  BY DEF IInv, TypeOK
<1>3. CASE n \notin S
  BY <1>1, <1>3
<1>4. CASE n \in S
  <2>1. ~Unwanted(n)
    BY <1>4 DEF RunAll
  <2>2. CASE NeedsRun(n, v)
    <3>1. /\ Ran(nt[n], v).tv = v /\ Ran(nt[n], v).rowsAt = v
          /\ Ran(nt[n], v).handover = nt[n].handover
          /\ Ran(nt[n], v).ver = nt[n].ver /\ Ran(nt[n], v).hasRun = nt[n].hasRun
      BY <1>2, RanFields, RanTyped
    <3> QED  BY <1>1, <1>4, <2>2, <3>1 DEF Settled, Moving
  <2>3. CASE ~NeedsRun(n, v)
    <3>1. nt[n].hasRun /\ nt[n].rowsAt = v
      BY <2>1, <2>3 DEF NeedsRun
    <3> QED  BY <1>1, <1>4, <2>3, <3>1 DEF Settled, Moving
  <2> QED  BY <2>2, <2>3
<1> QED  BY <1>3, <1>4

(* What it hands over is settled again.                                     *)
LEMMA HandSettles ==
    ASSUME IInv, NEW S, NEW v \in Version, HandAll(S, v), NEW n \in Notifier,
           IF n \in S THEN Moving(nt[n], v) ELSE Settled(nt[n])
    PROVE  Settled(nt'[n])
<1>1. nt'[n] = IF n \in S THEN Handed(nt[n], v) ELSE nt[n]
  BY DEF HandAll, Apply
<1>2. nt[n] \in Notifiers /\ v # None
  BY VersionsTyped DEF IInv, TypeOK
<1>3. /\ Handed(nt[n], v).tv = None /\ Handed(nt[n], v).rowsAt = nt[n].rowsAt
      /\ Handed(nt[n], v).handover = IF nt[n].tv = None THEN nt[n].handover ELSE nt[n].tv
  BY <1>2, HandedFields
<1>4. Handed(nt[n], v).ver = v /\ Handed(nt[n], v).hasRun
  BY <1>2, HandedTyped
<1> QED  BY <1>1, <1>2, <1>3, <1>4 DEF Settled, Moving

(* The hand-over is of what has been run.                                   *)
LEMMA HandedIs ==
    ASSUME IInv, SkipHand \/ Hand
    PROVE  /\ work.step \in {"skipped", "ran"} /\ HandAll(Pending, PendingAt)
           /\ PendingAt \in Version /\ Pending \subseteq main
           /\ UNCHANGED <<file, stage, alive, quiet, muted, passedOver>>
           /\ Pending' = {} /\ work'.step \notin {"skipped", "ran", "skipping"}
           /\ main' \subseteq main /\ main \intersect alive \subseteq main'
           /\ main' # {} => helper' = helper /\ skipVersion' = skipVersion
           /\ work'.step \in Busy => work'.target = work.target
<1>1. CASE SkipHand
  <2>1. work'.step = "running" /\ work'.target = work.target /\ work.step = "skipped"
    BY <1>1 DEF SkipHand, IInv, TypeOK, Works
  <2> QED  BY <1>1, <2>1, PendingIs DEF SkipHand, Pending, PendingAt, threads, lists
<1>2. CASE Hand
  <2>1. work'.step = "posting" /\ work.step = "ran"
    BY <1>2 DEF Hand, Idle
  <2> QED  BY <1>2, <2>1, PendingIs DEF Hand, CleanUp, Pending, PendingAt, Busy
<1> QED  BY <1>1, <1>2

(* The rows are right after every step.                                     *)
LEMMA StepRows ==
    ASSUME IInv, RowsInv, [Next]_vars
    PROVE  RowsInv'
<1>1. alive \subseteq Notifier /\ alive' \subseteq Notifier
  BY NextInv DEF IInv, TypeOK
<1>2. ASSUME NEW n \in Notifier, NEW u \in Uses, Register(n, u)
      PROVE  RowsInv'
  <2>1. Pending' = Pending /\ PendingAt' = PendingAt
    BY <1>2, RegisterIs DEF Pending, PendingAt
  <2>2. Settled(nt'[n]) /\ n \notin Pending
    BY <1>2, RegisterIs DEF Settled
  <2>3. ASSUME NEW m \in alive' \ passedOver', m # n
        PROVE  m \in alive \ passedOver /\ nt'[m] = nt[m]
    BY <1>1, <1>2, <2>3, RegisterIs
  <2> QED  BY <2>1, <2>2, <2>3 DEF RowsInv
<1>3. CASE UserStep
  <2>1. Pending' = Pending /\ PendingAt' = PendingAt
    BY <1>3, UserStepsKeep DEF Pending, PendingAt
  <2>2. \A n \in alive' \ passedOver' : n \in alive \ passedOver /\ SameRows(nt[n], nt'[n])
    BY <1>1, <1>3, UserStepsKeep
  <2> QED  BY <2>1, <2>2, SettledStays DEF RowsInv
<1>4. CASE Start \/ Post
  <2>1. /\ UNCHANGED <<alive, nt, passedOver>>
        /\ work.step \in {"idle", "posting"}
        /\ work'.step \in {"idle", "posting", "running", "skipping"}
    BY <1>4 DEF Start, Post, Idle, history
  <2>2. Pending = {} /\ Pending' = {}
    BY <2>1 DEF Pending
  <2> QED  BY <2>1, <2>2 DEF RowsInv
<1>5. CASE SkipRun \/ Run
  <2> DEFINE S == IF SkipRun THEN work.old ELSE work.old \union work.fresh
             v == IF SkipRun THEN work.skipTo ELSE work.target
  <2>1. /\ work.step = (IF SkipRun THEN "skipping" ELSE "running")
        /\ RunAll(S, v) /\ alive' = alive
        /\ work' = [work EXCEPT !.step = IF SkipRun THEN "skipped" ELSE "ran"]
    BY <1>5 DEF SkipRun, Run
  <2>2. Pending = {} /\ v \in Version
    BY <2>1, PendingIs DEF Busy
  <2>3. Pending' = S /\ PendingAt' = v
    BY <2>1 DEF Pending, PendingAt, IInv, TypeOK, Works
  <2>4. \A n \in alive' \ passedOver' : n \in alive \ passedOver
    BY <2>1 DEF RunAll
  <2> HIDE DEF S, v
  <2>5. ASSUME NEW n \in alive' \ passedOver'
        PROVE  IF n \in S THEN Moving(nt'[n], v) ELSE Settled(nt'[n])
    BY <1>1, <2>1, <2>2, <2>4, <2>5, RunMoves DEF RowsInv
  <2> QED  BY <2>3, <2>5 DEF RowsInv
<1>6. CASE SkipHand \/ Hand
  <2>1. /\ HandAll(Pending, PendingAt) /\ PendingAt \in Version
        /\ UNCHANGED <<alive, passedOver>> /\ Pending' = {}
    BY <1>6, HandedIs
  <2>2. ASSUME NEW n \in alive' \ passedOver'
        PROVE  Settled(nt'[n])
    BY <1>1, <2>1, <2>2, HandSettles DEF RowsInv
  <2> QED  BY <2>1, <2>2 DEF RowsInv
<1> QED  BY StepsAre, <1>2, <1>3, <1>4, <1>5, <1>6 DEF Worker

(* The rows that wait for a Results are of the version that it will be at,  *)
(* when it is given them.                                                   *)
THEOREM RowsCorrectness == Spec => []RowsAreCurrent
<1>1. Init => RowsInv
  BY DEF Init, RowsInv
<1>2. Spec => []RowsInv
  BY <1>1, StepRows, Invariance, PTL DEF Spec
<1>3. RowsInv => RowsAreCurrent
  BY DEF RowsInv, Settled, Moving, RowsAreCurrent
<1> QED  BY <1>2, <1>3, PTL

-----------------------------------------------------------------------------
(* What waits for a callback                                                *)

(* The worker goes only forward, and takes with it what it runs.            *)
LEMMA StepFollowing ==
    ASSUME IInv, Following, [Next]_vars
    PROVE  Following'
<1>1. ASSUME NEW n \in Notifier, NEW u \in Uses, Register(n, u)
      PROVE  Following'
  <2>1. /\ UNCHANGED <<main, helper, work>> /\ \A m \in main : nt'[m] = nt[m]
    BY <1>1, RegisterIs DEF IInv, TypeOK
  <2> QED  BY <2>1 DEF Following, PendingAt
<1>2. CASE UserStep
  <2>1. /\ UNCHANGED <<main, helper, work>>
        /\ \A m \in main : nt'[m].hasRun = nt[m].hasRun /\ nt'[m].ver = nt[m].ver
    BY <1>2, UserStepsKeep DEF SameRows, IInv, TypeOK
  <2> QED  BY <2>1 DEF Following, PendingAt
<1>3. CASE Start
  <2>1. /\ nt' = nt /\ work'.step \notin {"skipped", "ran"}
        /\ \/ main' = {}
           \/ main' \subseteq main \union news
              /\ (main' \intersect main # {} => helper' = helper)
    BY <1>3 DEF Start, CleanUp, Idle
  <2> QED  BY <2>1 DEF Following, IInv, Listed
<1>4. CASE SkipRun \/ Run
  <2> DEFINE v == IF SkipRun THEN work.skipTo ELSE work.target
  <2>1. /\ \E S : RunAll(S, v)
        /\ main' = main /\ helper' = v /\ v \in Version
        /\ work' = [work EXCEPT !.step = IF SkipRun THEN "skipped" ELSE "ran"]
    BY <1>4, PendingIs DEF SkipRun, Run, Busy
  <2>2. Kept
    BY <2>1, RunKeeps DEF IInv
  <2>3. helper <= v
    BY <1>4 DEF SkipRun, Run, IInv, Forward, Busy
  <2>4. PendingAt' = v
    BY <1>4, <2>1 DEF PendingAt, IInv, TypeOK, Works, SkipRun, Run
  <2>5. \A n \in main : nt[n].ver \in Nat /\ helper \in Nat /\ v \in Nat
    BY <2>1, VersionsAreNat DEF IInv, TypeOK
  <2> HIDE DEF v
  <2>6. \A n \in main : nt'[n].hasRun => nt'[n].ver <= v
    BY <2>2, <2>3, <2>5 DEF Kept, Following, IInv, TypeOK
  <2> QED  BY <2>1, <2>4, <2>6 DEF Following
<1>5. CASE SkipHand \/ Hand
  <2>1. /\ work.step \in {"skipped", "ran"} /\ HandAll(Pending, PendingAt)
        /\ work'.step \notin {"skipped", "ran"} /\ main' \subseteq main
        /\ main' # {} => helper' = helper
    BY <1>5, HandedIs
  <2>2. helper = PendingAt /\ PendingAt \in Version /\ helper \in Nat
    <3>1. helper \in Nat
      BY VersionsAreNat DEF IInv
    <3> QED  BY <1>5, <2>1, <3>1, HandedIs DEF Following
  <2>3. Pending \subseteq Notifier /\ main \subseteq Notifier
    BY PendingIs DEF IInv, TypeOK
  <2>4. \A n \in main : IF n \in Pending THEN nt'[n].ver = PendingAt ELSE nt'[n] = nt[n]
    BY <2>1, <2>2, <2>3, HandAllTyped DEF IInv
  <2> QED  BY <2>1, <2>2, <2>4 DEF Following
<1>6. CASE Post
  <2>1. UNCHANGED <<main, helper, nt>> /\ work'.step = "idle"
    BY <1>6 DEF Post, lists, Idle
  <2> QED  BY <2>1 DEF Following
<1> QED  BY StepsAre, <1>1, <1>2, <1>3, <1>4, <1>5, <1>6 DEF Worker

(* The suppression ends with the commit, or with its failure.               *)
LEMMA StepQuieted ==
    ASSUME IInv, Locked, Quieted, [Next]_vars
    PROVE  Quieted'
<1>1. CASE UNCHANGED <<quiet, stage>>
  BY <1>1 DEF Quieted
<1>2. stage \in [Realm -> Stage] /\ \A n \in Notifier : Owner[n] \in Realm
  BY ConstantsAssumption DEF IInv, TypeOK
<1>3. ASSUME NEW r \in Realm,
             Promote(r) \/ Refresh(r) \/ Waited(r) \/ Cancel(r) \/ Signal(r)
      PROVE  Quieted'
  <2>1. /\ quiet' = quiet /\ stage[r] # "committing"
        /\ \A q \in Realm \ {r} : stage'[q] = stage[q]
    BY <1>2, <1>3 DEF Promote, Refresh, Waits, Waited, Cancel, Signal
  <2> QED  BY <1>2, <2>1 DEF Quieted
<1>4. ASSUME NEW r \in Realm, NEW S \in SUBSET Mine(r), Suppress(r, S)
      PROVE  Quieted'
  <2>1. /\ quiet' = S /\ stage'[r] = "committing"
        /\ \A n \in S : n \in Notifier /\ Owner[n] = r
    BY <1>2, <1>4 DEF Suppress, Mine, IInv, TypeOK
  <2> QED  BY <2>1 DEF Quieted
<1>5. ASSUME NEW r \in Realm, CommitFails(r) \/ Commit(r)
      PROVE  Quieted'
  BY <1>5 DEF CommitFails, Commit, Quieted
<1>6. ASSUME NEW n \in Notifier,
             \/ \E u \in Uses : Register(n, u)
             \/ AddCallback(n) \/ Use(n) \/ RemoveCallback(n) \/ Unregister(n)
      PROVE  Quieted'
  BY <1>1, <1>6 DEF Register, AddCallback, Use, RemoveCallback, Unregister, threads
<1>7. ASSUME NEW r \in Realm, WaitOn(r) \/ Notify(r)
      PROVE  Quieted'
  BY <1>1, <1>7 DEF WaitOn, Notify
<1>8. CASE Worker
  BY <1>1, <1>8 DEF Worker, Start, SkipRun, SkipHand, Run, Hand, Post, threads
<1>9. CASE UNCHANGED vars
  BY <1>1, <1>9 DEF vars, threads
<1> QED  BY <1>3, <1>4, <1>5, <1>6, <1>7, <1>8, <1>9 DEF Next, EndWrite

(* A notifier that nothing happens to.                                      *)
Still(n) ==
    /\ nt'[n].cb = nt[n].cb /\ nt'[n].told = nt[n].told /\ nt'[n].acc = nt[n].acc
    /\ nt'[n].skip = nt[n].skip /\ nt'[n].ver = nt[n].ver /\ nt'[n].hasRun = nt[n].hasRun
    /\ nt'[n].delta = nt[n].delta
    /\ nt[n].cb = "told" => at'[Owner[n]] = at[Owner[n]]
    /\ muted'[n] = muted[n] /\ (n \in quiet' <=> n \in quiet)
    /\ (n \notin passedOver' \union mixedUp' => n \notin passedOver \union mixedUp)
    /\ UNCHANGED <<latest, main, skipVersion, work>>

(* What nothing happens to stays as it should be.                           *)
LEMMA StaysFine ==
    ASSUME NEW n, Fine(n), Still(n)
    PROVE  Fine(n)'
<1>1. Known(n)'
  BY DEF Still, Fine, Known
<1>2. Marking(n)'
  BY DEF Still, Fine, Marking
<1>3. ASSUME Continues(n)
      PROVE  Continues(n)'
  <2>1. Pending' = Pending /\ PendingAt' = PendingAt
    BY DEF Still, Pending, PendingAt
  <2>2. \A w \in Version : Due(n, w) => Due(n, w)'
    BY DEF Still, Due
  <2> QED  BY <1>3, <2>1, <2>2 DEF Still, Continues
<1> QED  BY <1>1, <1>2, <1>3 DEF Still, Fine

(* A notifier with no callback, or with one that has not been called, that  *)
(* is not being run.                                                        *)
LEMMA UntoldFine ==
    ASSUME NEW n, nt'[n].cb # "told", ~nt'[n].skip,
           \A w \in muted'[n] : w <= latest', nt'[n].cb = "added" => muted'[n] = {},
           n \notin passedOver' \union mixedUp' =>
               nt'[n].delta = IF n \in Pending' /\ nt'[n].hasRun
                              THEN nt'[n].ver + 1 .. PendingAt' ELSE {}
    PROVE  Fine(n)'
  BY DEF Fine, Known, Marking, Continues

(* A notifier is made: nothing waits for it.                                *)
LEMMA RegisterFine ==
    ASSUME ChangesInv, NEW n \in Notifier, NEW u \in Uses, Register(n, u)
    PROVE  \A m \in alive' : Fine(m)'
<1> USE DEF ChangesInv
<1>1. ASSUME NEW m \in alive', m # n
      PROVE  Fine(m)'
  <2>1. m \in alive /\ m \in Notifier
    BY <1>1, RegisterIs DEF IInv, TypeOK
  <2>2. Still(m)
    BY <1>1, <2>1 DEF Register, Still, file, IInv, TypeOK
  <2> QED  BY <2>1, <2>2, StaysFine
<1>2. Fine(n)'
  <2>1. muted'[n] = {}
    BY DEF Register, IInv, TypeOK
  <2>2. n \notin Pending'
    BY RegisterIs DEF Pending
  <2>3. nt'[n].cb = "none" /\ ~nt'[n].skip /\ nt'[n].delta = {}
    BY RegisterIs
  <2> QED  BY <2>1, <2>2, <2>3, UntoldFine
<1> QED  BY <1>1, <1>2

(* What the user does to one notifier.                                      *)
LEMMA TouchFine ==
    ASSUME ChangesInv, NEW n \in Notifier,
           AddCallback(n) \/ Use(n) \/ RemoveCallback(n) \/ Unregister(n)
    PROVE  \A m \in alive' : Fine(m)'
<1> USE DEF ChangesInv
<1>1. /\ alive' \subseteq alive /\ alive \subseteq Notifier
      /\ UNCHANGED <<at, latest, quiet, main, skipVersion, work, passedOver, mixedUp>>
      /\ \A m \in Notifier \ {n} : nt'[m] = nt[m] /\ muted'[m] = muted[m]
      /\ \/ nt'[n] = Added(nt[n]) /\ muted'[n] = {} /\ nt[n].cb = "none"
         \/ nt'[n] \in {nt[n], Used(nt[n]), Removed(nt[n])} /\ muted'[n] = muted[n]
  BY DEF AddCallback, Use, RemoveCallback, Unregister, Added, Used, Removed, IInv, TypeOK,
         file, lists, history
<1>2. nt[n] \in Notifiers
  BY DEF IInv, TypeOK
<1>3. ASSUME NEW m \in alive',
             m # n \/ (nt'[n] \in {nt[n], Used(nt[n])} /\ muted'[n] = muted[n])
      PROVE  Fine(m)'
  <2>1. \/ nt'[m] = nt[m] /\ muted'[m] = muted[m]
        \/ m = n /\ nt'[n] = Used(nt[n]) /\ muted'[n] = muted[n]
    BY <1>1, <1>3
  <2>2. Still(m)
    BY <1>1, <1>2, <2>1, ChangedFields DEF Still, SameRows
  <2> QED  BY <1>1, <1>3, <2>2, StaysFine
<1>4. ASSUME n \in alive', nt'[n] \in {Added(nt[n]), Removed(nt[n])}
      PROVE  Fine(n)'
  <2>1. n \in alive /\ Fine(n)
    BY <1>1, <1>4
  <2>2. Pending' = Pending /\ PendingAt' = PendingAt
    BY <1>1 DEF Pending, PendingAt
  <2>3. /\ nt'[n].cb \in {"added", "none"} /\ ~nt'[n].skip /\ SameRows(nt[n], nt'[n])
        /\ nt'[n].cb = "added" => muted'[n] = {}
    BY <1>1, <1>2, <1>4, <2>1, ChangedFields DEF Fine, Marking
  <2>4. \A w \in muted'[n] : w <= latest'
    BY <1>1, <2>1 DEF Fine, Marking
  <2> QED
    BY <1>1, <2>1, <2>2, <2>3, <2>4, UntoldFine DEF Fine, Continues, SameRows
<1> QED  BY <1>1, <1>3, <1>4

(* Steps that no notifier takes part in.                                    *)
LEMMA AwayFine ==
    ASSUME ChangesInv,
           \/ \E r \in Realm : Promote(r) \/ Refresh(r) \/ WaitOn(r) \/ Cancel(r) \/ Signal(r)
           \/ UNCHANGED vars
    PROVE  \A m \in alive' : Fine(m)'
<1>1. UNCHANGED <<alive, nt, at, latest, muted, quiet, passedOver, mixedUp, main, skipVersion,
                  work>>
  BY DEF Promote, Refresh, Waits, WaitOn, Cancel, Signal, vars, file, lists, history
<1>2. \A m \in alive : Still(m)
  BY <1>1 DEF Still
<1> QED  BY <1>1, <1>2, StaysFine DEF ChangesInv

(* Changes are brought to a callback that is not suppressed: what waited    *)
(* for it is told, and nothing waits any more.                              *)
LEMMA BroughtFine ==
    ASSUME ChangesInv, NEW n \in alive, Brought(Owner[n], n), n \notin quiet,
           UNCHANGED <<latest, muted, quiet, passedOver, mixedUp, main, skipVersion, work>>
    PROVE  Fine(n)'
<1> USE DEF ChangesInv
<1>1. /\ nt[n] \in Notifiers /\ Fine(n) /\ n \in Notifier
      /\ nt[n].ver \in Nat /\ nt[n].told \in Nat /\ nt[n].ver \in Version
  BY VersionsAreNat DEF IInv, TypeOK
<1>2. CASE nt'[n] = nt[n] /\ (nt[n].cb = "told" => at'[Owner[n]] = at[Owner[n]])
  BY <1>2, StaysFine DEF Still
<1>3. Pending' = Pending /\ PendingAt' = PendingAt /\ \A w \in Version : Due(n, w) => w \in Version
  BY DEF Pending, PendingAt
<1>4. CASE /\ nt[n].hasRun /\ at'[Owner[n]] = nt[n].ver
           /\ \E w \in BOOLEAN : nt'[n] = Delivered(nt[n], nt[n].ver, w)
  <2>1. PICK w \in BOOLEAN : nt'[n] = Delivered(nt[n], nt[n].ver, w)
    BY <1>4
  <2>2. /\ SameRows(nt[n], nt'[n]) /\ nt'[n].acc = {} /\ nt'[n].skip = nt[n].skip
        /\ nt'[n].cb = (IF nt[n].cb = "none" THEN "none" ELSE "told")
        /\ nt[n].cb # "none" => nt'[n].told = nt[n].ver
    BY <1>1, <2>1, DeliveredFields, DeliveredTold
  <2>3. Known(n)'
    BY <1>1, <1>4, <2>2 DEF Known, SameRows
  <2>4. Marking(n)'
    BY <1>1, <2>2 DEF Fine, Marking
  <2>5. ASSUME Continues(n), nt'[n].cb = "told"
        PROVE  Continues(n)'
    <3>1. nt'[n].acc = (nt'[n].told + 1 .. nt'[n].ver) \ muted'[n]
      BY <1>1, <2>2, <2>5 DEF SameRows
    <3>2. \A v \in Version : Due(n, v) => Due(n, v)'
      BY <2>2 DEF Due, SameRows
    <3>3. nt[n].cb # "told" => muted[n] = {} /\ ~nt[n].skip
      BY <1>1, <2>2, <2>5 DEF Fine, Marking, Notifiers
    <3> QED  BY <1>3, <2>2, <2>5, <3>1, <3>2, <3>3 DEF Continues, SameRows
  <2>6. ASSUME Continues(n), nt'[n].cb # "told"
        PROVE  Continues(n)'
    BY <1>3, <2>2, <2>6 DEF Continues, SameRows
  <2> QED  BY <1>1, <2>3, <2>4, <2>5, <2>6 DEF Fine
<1>5. CASE /\ nt'[n] = Dropped(nt[n])
           /\ nt[n].cb = "told" => nt[n].told = nt[n].ver /\ at'[Owner[n]] = at[Owner[n]]
  <2>1. /\ SameRows(nt[n], nt'[n]) /\ nt'[n].acc = {} /\ nt'[n].skip = nt[n].skip
        /\ nt'[n].cb = nt[n].cb /\ nt'[n].told = nt[n].told
    BY <1>1, <1>5, DroppedFields, SilentSteps
  <2>2. Known(n)'
    BY <1>1, <1>5, <2>1 DEF Fine, Known, SameRows
  <2>3. Marking(n)'
    BY <1>1, <2>1 DEF Fine, Marking
  <2>4. ASSUME Continues(n)
        PROVE  Continues(n)'
    <3>1. nt[n].cb = "told" => nt'[n].acc = (nt'[n].told + 1 .. nt'[n].ver) \ muted'[n]
      BY <1>1, <1>5, <2>1 DEF SameRows
    <3>2. \A w \in Version : Due(n, w) => Due(n, w)'
      BY <2>1 DEF Due, SameRows
    <3> QED  BY <1>3, <2>1, <2>4, <3>1, <3>2 DEF Continues, SameRows
  <2> QED  BY <1>1, <2>2, <2>3, <2>4 DEF Fine
<1> QED  BY <1>2, <1>4, <1>5 DEF Brought

(* A Realm is brought changes: it is not in the middle of a commit.         *)
LEMMA BringFine ==
    ASSUME ChangesInv, NEW r \in Realm, Waited(r) \/ Notify(r)
    PROVE  \A m \in alive' : Fine(m)'
<1> USE DEF ChangesInv
<1>1. /\ UNCHANGED <<alive, latest, muted, quiet, passedOver, mixedUp, main, skipVersion, work>>
      /\ stage[r] # "committing" /\ \A q \in Realm \ {r} : at'[q] = at[q]
  BY DEF Waited, Notify, lists, history, IInv, TypeOK
<1>2. alive \subseteq Notifier /\ \A n \in Notifier : Owner[n] \in Realm
  BY ConstantsAssumption DEF IInv, TypeOK
<1>3. Ordered
  BY DEF Ordered, Fine
<1>4. /\ \A n \in alive : Owner[n] = r => Brought(r, n)
      /\ \A n \in alive : Owner[n] # r => nt'[n] = nt[n]
  BY <1>3, WaitedBrings, NotifyBrings
<1>5. ASSUME NEW n \in alive, Owner[n] = r
      PROVE  Fine(n)'
  <2>1. n \notin quiet
    BY <1>1, <1>5 DEF Quieted
  <2> QED  BY <1>1, <1>4, <1>5, <2>1, BroughtFine
<1>6. ASSUME NEW n \in alive, Owner[n] # r
      PROVE  Fine(n)'
  <2>1. Still(n)
    BY <1>1, <1>2, <1>4, <1>6 DEF Still
  <2> QED  BY <2>1, StaysFine
<1> QED  BY <1>1, <1>5, <1>6

(* Who is being committed holds the lock: one Realm only.                   *)
LEMMA OneCommits ==
    ASSUME Locked, Quieted, NEW r \in Realm, stage[r] \in {"writing", "committing"},
           NEW n \in quiet
    PROVE  Owner[n] = r /\ stage[r] = "committing"
  BY ConstantsAssumption DEF Locked, Quieted

(* Callbacks are suppressed in a write: they have been called.              *)
LEMMA SuppressFine ==
    ASSUME ChangesInv, NEW r \in Realm, NEW S \in SUBSET {n \in Mine(r) : nt[n].cb # "none"},
           Suppress(r, S)
    PROVE  \A m \in alive' : Fine(m)'
<1> USE DEF ChangesInv
<1>1. /\ UNCHANGED <<alive, at, latest, muted, passedOver, mixedUp, main, skipVersion, work>>
      /\ stage[r] = "writing" /\ alive \subseteq Notifier
      /\ quiet' \subseteq {n \in Mine(r) : nt[n].cb # "none"}
      /\ \A n \in Notifier : nt'[n] = IF n \in quiet' THEN Skipped(nt[n]) ELSE nt[n]
  BY DEF Suppress, Skipped, file, lists, history, IInv, TypeOK
<1>2. quiet = {}
  BY <1>1, OneCommits
<1>3. ASSUME NEW n \in alive, n \notin quiet'
      PROVE  Fine(n)'
  <2>1. Still(n)
    BY <1>1, <1>2, <1>3 DEF Still
  <2> QED  BY <2>1, StaysFine
<1>4. ASSUME NEW n \in alive, n \in quiet'
      PROVE  Fine(n)'
  <2>1. nt[n].cb = "told"
    BY <1>1, <1>4 DEF Mine, Informed
  <2>2. nt[n] \in Notifiers /\ nt'[n] = Skipped(nt[n])
    BY <1>1, <1>4 DEF IInv, TypeOK
  <2>3. /\ SameRows(nt[n], nt'[n]) /\ nt'[n].acc = nt[n].acc /\ nt'[n].skip
        /\ nt'[n].cb = nt[n].cb /\ nt'[n].told = nt[n].told
    BY <2>2, ChangedFields
  <2>4. Known(n)' /\ Marking(n)'
    BY <1>1, <2>1, <2>3 DEF Fine, Known, Marking, SameRows
  <2>5. Pending' = Pending /\ PendingAt' = PendingAt
    BY <1>1 DEF Pending, PendingAt
  <2>6. Continues(n) => Continues(n)'
    BY <1>1, <1>4, <2>1, <2>3, <2>5 DEF Continues, SameRows
  <2> QED  BY <1>1, <2>4, <2>6 DEF Fine
<1> QED  BY <1>1, <1>3, <1>4

(* The commit fails: the marks stay, on notifiers that are mixed up by it.  *)
LEMMA CommitFailsFine ==
    ASSUME ChangesInv, NEW r \in Realm, CommitFails(r)
    PROVE  \A m \in alive' : Fine(m)'
<1> USE DEF ChangesInv
<1>1. /\ UNCHANGED <<alive, nt, at, latest, muted, passedOver, main, skipVersion, work>>
      /\ quiet' = {} /\ mixedUp' = mixedUp \union quiet
  BY DEF CommitFails, file, lists
<1>2. ASSUME NEW n \in alive, n \notin quiet
      PROVE  Fine(n)'
  <2>1. Still(n)
    BY <1>1, <1>2 DEF Still
  <2> QED  BY <2>1, StaysFine
<1>3. ASSUME NEW n \in alive, n \in quiet
      PROVE  Fine(n)'
  BY <1>1, <1>3 DEF Fine, Known, Marking
<1> QED  BY <1>1, <1>2, <1>3

(* The suppressed callbacks know everything before the commit, and that     *)
(* becomes the one version that they are not told: the worker will go there *)
(* first.                                                                   *)
LEMMA CommitFine ==
    ASSUME ChangesInv, NEW r \in Realm, Commit(r)
    PROVE  \A m \in alive' : Fine(m)'
<1> USE DEF ChangesInv
<1>1. /\ UNCHANGED <<alive, nt, passedOver, main, work>> /\ alive \subseteq Notifier
      /\ latest' = latest + 1 /\ latest \in Nat /\ latest + 1 \in Version
      /\ stage[r] \in {"writing", "committing"}
      /\ \A q \in Realm : at'[q] = IF q = r THEN latest + 1 ELSE at[q]
      /\ quiet' = {} /\ skipVersion' = SkipTo(r)
      /\ mixedUp' = (IF SkipTo(r) # skipVersion
                     THEN mixedUp \union {n \in alive \ quiet : nt[n].skip}
                     ELSE mixedUp)
      /\ \A n \in Notifier :
           muted'[n] = IF n \in quiet THEN muted[n] \union {latest + 1} ELSE muted[n]
  BY ConstantsAssumption, VersionsTyped DEF Commit, IInv, TypeOK, Version
<1>2. Pending' = Pending /\ PendingAt' = PendingAt
  BY <1>1 DEF Pending, PendingAt
<1>3. ASSUME NEW n \in alive
      PROVE  Known(n)'
  <2>1. \/ Owner[n] # r /\ at'[Owner[n]] = at[Owner[n]]
        \/ Owner[n] = r /\ at'[r] = latest + 1
    BY <1>1, ConstantsAssumption
  <2>2. Owner[n] = r /\ nt[n].cb = "told" => nt[n].told = latest
    BY <1>1 DEF Informed
  <2> QED  BY <1>1, <1>3, <2>1, <2>2 DEF Fine, Known
<1>4. ASSUME NEW n \in alive
      PROVE  Marking(n)'
  <2>1. n \in quiet => nt[n].cb # "added"
    BY <1>1, <1>4, OneCommits DEF Informed
  <2>2. \A w \in muted[n] : w \in Nat /\ w <= latest
    BY <1>1, <1>4, VersionsTyped DEF IInv, TypeOK, Fine, Marking
  <2>3. \A w \in muted'[n] : w = latest + 1 \/ w \in muted[n]
    BY <1>1, <1>4
  <2>4. \A w \in muted'[n] : w <= latest + 1
    BY <1>1, <2>2, <2>3
  <2>5. nt[n].cb = "added" => muted'[n] = {}
    BY <1>1, <1>4, <2>1 DEF Fine, Marking
  <2> QED  BY <1>1, <1>4, <2>4, <2>5 DEF Fine, Marking
<1>5. ASSUME NEW n \in alive, Continues(n), n \notin mixedUp', n \notin quiet
      PROVE  Continues(n)'
  <2>1. muted'[n] = muted[n]
    BY <1>1, <1>5
  <2>2. nt[n].skip => skipVersion' = skipVersion
    BY <1>1, <1>5
  <2>3. \A w \in Version : Due(n, w) /\ nt[n].skip => Due(n, w)'
    BY <1>1, <2>1, <2>2 DEF Due
  <2> QED  BY <1>1, <1>2, <1>5, <2>1, <2>3 DEF Continues
<1>6. ASSUME NEW n \in alive, Continues(n), n \in quiet
      PROVE  Continues(n)'
  <2>1. CASE nt[n].cb = "told"
    <3>1. Owner[n] = r /\ nt[n].told = latest
      BY <1>1, <1>6, <2>1, OneCommits DEF Informed
    <3>2. nt[n].ver = latest
      <4>1. nt[n].told <= nt[n].ver /\ nt[n].ver <= latest /\ nt[n].ver \in Nat
        BY <1>1, <1>6, <2>1, VersionsAreNat DEF Fine, Known, IInv, Forward
      <4> QED  BY <1>1, <3>1, <4>1
    <3>3. nt[n].acc = {} /\ (nt[n].told + 1 .. nt[n].ver) = {}
      BY <1>1, <1>6, <2>1, <3>1, <3>2 DEF Continues
    <3>4. nt[n].skip
      BY <1>6, <2>1 DEF Continues
    <3>5. n \in main
      BY <2>1, ToldHasRun, <1>6 DEF Ordered, Fine
    <3>6. skipVersion' = latest + 1
      BY <1>1, <1>6, <3>1, <3>5 DEF SkipTo
    <3>7. PICK w \in Version : w = latest + 1
      BY <1>1
    <3>8. Due(n, w)'
      <4>1. work'.step \in Busy => work'.target < w
        BY <1>1, <3>7, VersionsAreNat DEF IInv, Forward
      <4>2. \A x \in muted[n] : x <= latest /\ x \in Nat
        BY <1>1, <1>6, VersionsTyped DEF Fine, Marking, IInv, TypeOK
      <4>3. muted'[n] = muted[n] \union {w}
        BY <1>1, <1>6, <3>7
      <4>4. \A x \in muted'[n] : x <= w
        BY <1>1, <3>7, <4>2, <4>3
      <4> QED  BY <1>1, <3>2, <3>5, <3>6, <3>7, <4>1, <4>3, <4>4 DEF Due
    <3>9. nt'[n] = nt[n] /\ n \notin quiet'
          /\ nt'[n].acc = (nt'[n].told + 1 .. nt'[n].ver) \ muted'[n]
      BY <1>1, <3>3
    <3> QED  BY <1>1, <1>2, <1>6, <3>4, <3>8, <3>9 DEF Continues
  <2>2. CASE nt[n].cb # "told"
    BY <1>1, <1>2, <1>6, <2>2 DEF Continues
  <2> QED  BY <2>1, <2>2
<1>7. \A n \in alive : n \notin passedOver' \union mixedUp' => n \notin passedOver \union mixedUp
  BY <1>1
<1> QED  BY <1>1, <1>3, <1>4, <1>5, <1>6, <1>7 DEF Fine

(* The worker begins: what is to be skipped to, is.                         *)
LEMMA StartFine ==
    ASSUME ChangesInv, Start
    PROVE  \A m \in alive' : Fine(m)'
<1> USE DEF ChangesInv
<1>1. /\ UNCHANGED <<alive, nt, at, latest, quiet, muted, passedOver, mixedUp>>
      /\ work.step = "idle"
      /\ work'.step \in {"posting", "running", "skipping"}
  BY DEF Start, Idle, file, threads, history
<1>2. Pending = {} /\ Pending' = {}
  BY <1>1 DEF Pending
<1>3. ASSUME NEW n \in alive, NEW w \in Version, Due(n, w)
      PROVE  Due(n, w)'
  <2>1. n \in main /\ skipVersion = w /\ w # None
    BY <1>1, <1>3, VersionsTyped DEF Due
  <2>2. n \in main \intersect alive /\ SkipLeft(main \intersect alive) = w
    BY <2>1 DEF SkipLeft
  <2>3. n \in work'.old /\ work'.step = "skipping" /\ work'.skipTo = w
    BY <2>1, <2>2 DEF Start
  <2> QED  BY <1>1, <1>3, <2>3 DEF Due
<1>4. ASSUME NEW n \in alive
      PROVE  Known(n)' /\ Marking(n)' /\ (Continues(n) => Continues(n)')
  BY <1>1, <1>2, <1>3, <1>4 DEF Fine, Known, Marking, Continues
<1> QED  BY <1>1, <1>4 DEF Fine

(* It runs the queries: what it finds is what has happened since it was     *)
(* there last.                                                              *)
LEMMA RunFine ==
    ASSUME ChangesInv, SkipRun \/ Run
    PROVE  \A m \in alive' : Fine(m)'
<1> USE DEF ChangesInv
<1> DEFINE S == IF SkipRun THEN work.old ELSE work.old \union work.fresh
           v == IF SkipRun THEN work.skipTo ELSE work.target
           step == IF SkipRun THEN "skipped" ELSE "ran"
<1>1. /\ work.step = (IF SkipRun THEN "skipping" ELSE "running")
      /\ RunAll(S, v) /\ work' = [work EXCEPT !.step = step]
      /\ UNCHANGED <<alive, at, latest, quiet, muted, mixedUp, main, skipVersion>>
  BY DEF SkipRun, Run, file
<1>2. Pending = {} /\ v \in Version /\ v \in Nat
  BY <1>1, PendingIs, VersionsTyped DEF Busy
<1>3. /\ Pending' = S /\ PendingAt' = v
      /\ work'.old = work.old /\ work'.skipTo = work.skipTo /\ work'.target = work.target
      /\ work'.step = step
  BY <1>1 DEF Pending, PendingAt, IInv, TypeOK, Works
<1>4. ASSUME NEW n \in alive, NEW w \in Version, Due(n, w), nt'[n].ver = nt[n].ver
      PROVE  Due(n, w)'
  BY <1>1, <1>3, <1>4 DEF Due, Busy
<1> HIDE DEF S, v, step
<1>5. ASSUME NEW n \in alive
      PROVE  /\ nt[n] \in Notifiers /\ nt[n].rowsAt \in Nat /\ nt[n].ver \in Nat
             /\ nt'[n].cb = nt[n].cb /\ nt'[n].told = nt[n].told /\ nt'[n].acc = nt[n].acc
             /\ nt'[n].skip = nt[n].skip /\ nt'[n].ver = nt[n].ver
             /\ nt'[n].hasRun = nt[n].hasRun
             /\ nt'[n] = IF n \in S /\ NeedsRun(n, v) THEN Ran(nt[n], v) ELSE nt[n]
  <2>1. n \in Notifier /\ nt[n] \in Notifiers
    BY DEF IInv, TypeOK
  <2>2. nt'[n] = IF n \in S /\ NeedsRun(n, v) THEN Ran(nt[n], v) ELSE nt[n]
    BY <1>1, <2>1 DEF RunAll
  <2>3. /\ Ran(nt[n], v).cb = nt[n].cb /\ Ran(nt[n], v).told = nt[n].told
        /\ Ran(nt[n], v).acc = nt[n].acc /\ Ran(nt[n], v).skip = nt[n].skip
    BY <1>2, <2>1, SilentSteps, RanFields
  <2>4. Ran(nt[n], v).ver = nt[n].ver /\ Ran(nt[n], v).hasRun = nt[n].hasRun
    BY <1>2, <2>1, RanTyped
  <2>5. nt[n].rowsAt \in Nat /\ nt[n].ver \in Nat
    BY <2>1, VersionsAreNat DEF IInv
  <2> QED  BY <2>1, <2>2, <2>3, <2>4, <2>5
<1>6. ASSUME NEW n \in alive, n \notin passedOver', n \notin mixedUp', Continues(n)
      PROVE  nt'[n].delta = IF n \in S /\ nt[n].hasRun THEN nt[n].ver + 1 .. v ELSE {}
  <2>1. /\ nt[n].delta = {} /\ n \notin passedOver /\ Settled(nt[n])
        /\ n \in S => ~Unwanted(n)
    BY <1>1, <1>2, <1>6 DEF Continues, RunAll, RowsInv
  <2>2. CASE n \in S /\ NeedsRun(n, v)
    <3>1. nt'[n].delta = IF nt[n].hasRun THEN nt[n].rowsAt + 1 .. v ELSE {}
      BY <1>2, <1>5, <2>2, RanFields
    <3> QED  BY <2>1, <2>2, <3>1 DEF Settled
  <2>3. CASE n \in S /\ ~NeedsRun(n, v)
    <3>1. nt'[n].delta = {} /\ nt[n].hasRun /\ nt[n].ver = v
      BY <1>5, <1>6, <2>1, <2>3 DEF NeedsRun, Settled
    <3> QED  BY <1>2, <2>3, <3>1
  <2>4. CASE n \notin S
    BY <1>5, <2>1, <2>4
  <2> QED  BY <2>2, <2>3, <2>4
<1>7. ASSUME NEW n \in alive, n \notin passedOver', n \notin mixedUp'
      PROVE  Continues(n)'
  <2>1. Continues(n)
    BY <1>1, <1>7 DEF RunAll, Fine
  <2>2. \A w \in Version : Due(n, w) => Due(n, w)'
    BY <1>4, <1>5
  <2> QED  BY <1>1, <1>3, <1>5, <1>6, <1>7, <2>1, <2>2 DEF Continues
<1>8. ASSUME NEW n \in alive
      PROVE  Known(n)' /\ Marking(n)'
  BY <1>1, <1>5 DEF Fine, Known, Marking
<1> QED  BY <1>1, <1>7, <1>8 DEF Fine

(* It hands over what it found: all of it, or, to a callback that is        *)
(* suppressed, all but the version that it has gone to for that.            *)
LEMMA HandFine ==
    ASSUME ChangesInv, SkipHand \/ Hand
    PROVE  \A m \in alive' : Fine(m)'
<1> USE DEF ChangesInv
<1> DEFINE v == PendingAt
<1>1. /\ work.step \in {"skipped", "ran"} /\ HandAll(Pending, v)
      /\ v \in Version /\ v \in Nat /\ Pending \subseteq main /\ helper = v /\ Pending' = {}
      /\ UNCHANGED <<alive, at, latest, quiet, muted, passedOver>>
  BY HandedIs, VersionsTyped DEF Following, file
<1> HIDE DEF v
<1>2. ASSUME NEW n \in alive
      PROVE  /\ n \in Notifier /\ nt[n] \in Notifiers
             /\ nt[n].ver \in Nat /\ nt[n].told \in Nat
             /\ nt'[n] = IF n \in Pending THEN Handed(nt[n], v) ELSE nt[n]
             /\ nt'[n].cb = nt[n].cb /\ nt'[n].told = nt[n].told
  <2>1. n \in Notifier /\ nt[n] \in Notifiers
    BY DEF IInv, TypeOK
  <2>2. nt'[n] = IF n \in Pending THEN Handed(nt[n], v) ELSE nt[n]
    BY <1>1, <2>1 DEF HandAll, Apply
  <2>3. nt'[n].cb = nt[n].cb /\ nt'[n].told = nt[n].told
    BY <1>1, <2>1, HandSilent DEF SameTold
  <2> QED  BY <2>1, <2>2, <2>3, VersionsAreNat DEF IInv
<1>3. ASSUME NEW n \in Pending, n \in alive
      PROVE  /\ nt'[n].ver = v /\ nt'[n].hasRun /\ nt'[n].delta = {} /\ ~nt'[n].skip
             /\ nt'[n].acc = IF nt[n].cb = "none" \/ nt[n].skip THEN nt[n].acc
                                                               ELSE nt[n].acc \union nt[n].delta
             /\ nt[n].hasRun => nt[n].ver <= v
  <2>1. nt'[n] = Handed(nt[n], v) /\ nt[n] \in Notifiers
    BY <1>2, <1>3
  <2>2. Handed(nt[n], v).ver = v /\ Handed(nt[n], v).hasRun
    BY <1>1, <2>1, HandedTyped
  <2>3. nt[n].hasRun => nt[n].ver <= v
    BY <1>1, <1>3 DEF Following
  <2>4. /\ Handed(nt[n], v).delta = {} /\ ~Handed(nt[n], v).skip
        /\ Handed(nt[n], v).acc = IF nt[n].cb = "none" \/ nt[n].skip
                                  THEN nt[n].acc ELSE nt[n].acc \union nt[n].delta
    BY <1>1, <2>1, HandedFields
  <2> QED  BY <2>1, <2>2, <2>3, <2>4
<1>4. ASSUME NEW n \in alive, nt[n].cb = "told"
      PROVE  n \in Pending /\ nt[n].hasRun /\ nt[n].told <= nt[n].ver
  <2>1. nt[n].hasRun /\ n \in main /\ nt[n].told <= nt[n].ver
    BY <1>4, ToldHasRun DEF Ordered, Fine, Known
  <2>2. n \in work.old /\ work.old \subseteq Pending
    BY <1>1, <2>1 DEF IInv, Listed, Busy, Pending
  <2> QED  BY <2>1, <2>2
<1>5. ASSUME NEW n \in alive
      PROVE  Known(n)' /\ Marking(n)'
  <2>1. Marking(n)'
    BY <1>1, <1>2, <1>3, <1>5 DEF Fine, Marking
  <2>2. ASSUME nt[n].cb = "told"
        PROVE  nt'[n].hasRun /\ nt'[n].told <= nt'[n].ver
    <3>1. nt[n].told <= nt[n].ver /\ nt[n].ver <= v /\ nt'[n].ver = v /\ nt'[n].hasRun
      BY <1>3, <1>4, <1>5, <2>2
    <3> QED  BY <1>1, <1>2, <1>5, <3>1
  <2>3. Known(n)'
    BY <1>1, <1>2, <1>5, <2>2 DEF Fine, Known
  <2> QED  BY <2>1, <2>3
<1>6. ASSUME NEW n \in alive, n \notin passedOver, n \notin mixedUp'
      PROVE  Continues(n)'
  <2>1. /\ Continues(n)
        /\ nt[n].cb = "told" => n \notin quiet
        /\ nt[n].skip /\ nt[n].cb = "told" => \A w \in muted[n] : ~(w > v)
    BY <1>1, <1>4, <1>6 DEF Fine, HandAll
  <2>2. nt'[n].delta = {}
    BY <1>1, <1>2, <1>3, <1>6, <2>1 DEF Continues
  <2>3. ASSUME nt[n].cb = "told", ~nt[n].skip
        PROVE  /\ nt'[n].acc = (nt'[n].told + 1 .. nt'[n].ver) \ muted'[n]
               /\ \A w \in muted'[n] : w <= nt'[n].ver
    <3>1. /\ n \in Pending /\ nt[n].hasRun /\ nt[n].told <= nt[n].ver /\ nt[n].ver <= v
          /\ nt'[n].ver = v /\ nt'[n].acc = nt[n].acc \union nt[n].delta
      BY <1>3, <1>4, <1>6, <2>3
    <3>2. /\ nt[n].acc = (nt[n].told + 1 .. nt[n].ver) \ muted[n]
          /\ nt[n].delta = nt[n].ver + 1 .. v
          /\ \A w \in muted[n] : w <= nt[n].ver /\ w \in Nat
      BY <1>2, <1>6, <2>1, <2>3, <3>1, VersionsTyped DEF Continues, v, IInv, TypeOK
    <3>3. (nt[n].told + 1 .. v) = (nt[n].told + 1 .. nt[n].ver) \union (nt[n].ver + 1 .. v)
      BY <1>1, <1>2, <1>6, <3>1
    <3>4. muted[n] \intersect (nt[n].ver + 1 .. v) = {}
      BY <1>1, <1>2, <1>6, <3>2
    <3>5. \A w \in muted[n] : w <= v
      BY <1>1, <1>2, <1>6, <3>1, <3>2
    <3> QED  BY <1>1, <1>2, <1>6, <3>1, <3>2, <3>3, <3>4, <3>5
  <2>4. ASSUME nt[n].cb = "told", nt[n].skip
        PROVE  /\ nt'[n].acc = (nt'[n].told + 1 .. nt'[n].ver) \ muted'[n]
               /\ \A w \in muted'[n] : w <= nt'[n].ver
    <3>1. /\ n \in Pending /\ nt[n].told <= nt[n].ver
          /\ nt'[n].ver = v /\ nt'[n].acc = nt[n].acc
      BY <1>3, <1>4, <1>6, <2>4
    <3>2. PICK w \in Version : Due(n, w)
      BY <2>1, <2>4 DEF Continues
    <3>3. w = nt[n].ver + 1 /\ w \in muted[n] /\ (\A x \in muted[n] : x <= w) /\ w <= v
      BY <1>1, <2>1, <2>4, <3>2, VersionsTyped DEF Due
    <3>4. v <= work.target /\ work.target \in Nat
      BY <1>1, VersionsAreNat DEF v, PendingAt, IInv, Forward
    <3>5. v = w
      <4>1. w \in Nat /\ ~(work.target < w)
        BY <1>1, <3>3, <3>4, VersionsTyped
      <4>2. work.step = "skipped" /\ work.skipTo = w
        BY <1>1, <3>2, <4>1 DEF Due, Busy
      <4> QED  BY <4>2 DEF v, PendingAt
    <3>6. (nt[n].told + 1 .. v) = (nt[n].told + 1 .. nt[n].ver) \union {v}
      BY <1>1, <1>2, <1>6, <3>1, <3>3, <3>5
    <3>7. nt[n].acc = (nt[n].told + 1 .. nt[n].ver) \ muted[n]
      BY <2>1, <2>4 DEF Continues
    <3> QED  BY <1>1, <1>2, <1>6, <3>1, <3>3, <3>5, <3>6, <3>7
  <2>5. nt[n].cb = "told" => ~nt'[n].skip /\ n \notin quiet'
    BY <1>1, <1>3, <1>4, <1>6, <2>1
  <2> QED  BY <1>1, <1>2, <1>6, <2>2, <2>3, <2>4, <2>5 DEF Continues
<1>7. \A n \in alive : n \notin mixedUp' => n \notin mixedUp
  BY <1>1 DEF HandAll
<1> QED  BY <1>1, <1>5, <1>6 DEF Fine

(* The worker is idle again; what is due stays due.                         *)
LEMMA PostFine ==
    ASSUME ChangesInv, Post
    PROVE  \A m \in alive' : Fine(m)'
<1> USE DEF ChangesInv
<1>1. /\ UNCHANGED <<alive, nt, at, latest, quiet, muted, passedOver, mixedUp, main, skipVersion>>
      /\ work.step = "posting" /\ work'.step = "idle"
  BY DEF Post, Idle, file, lists, history
<1>2. Pending = {} /\ Pending' = {}
  BY <1>1 DEF Pending
<1>3. \A n \in alive, w \in Version : Due(n, w) => Due(n, w)'
  BY <1>1 DEF Due, Busy
<1>4. ASSUME NEW n \in alive
      PROVE  Known(n)' /\ Marking(n)' /\ (Continues(n) => Continues(n)')
  BY <1>1, <1>2, <1>3, <1>4 DEF Fine, Known, Marking, Continues
<1> QED  BY <1>1, <1>4 DEF Fine

(* It holds through every step.                                             *)
LEMMA StepChanges ==
    ASSUME ChangesInv, [Next]_vars
    PROVE  ChangesInv'
<1>1. IInv' /\ Locked' /\ Enlisted' /\ Informed' /\ RowsInv' /\ Following' /\ Quieted'
  BY NextInv, StepLocked, StepEnlisted, StepInformed, StepRows, StepFollowing, StepQuieted
     DEF ChangesInv
<1>2. CASE \E n \in Notifier : \/ \E u \in Uses : Register(n, u)
                               \/ AddCallback(n) \/ Use(n) \/ RemoveCallback(n) \/ Unregister(n)
  BY <1>1, <1>2, RegisterFine, TouchFine DEF ChangesInv
<1>3. CASE \E r \in Realm : Waited(r) \/ Notify(r) \/ CommitFails(r) \/ Commit(r)
  BY <1>1, <1>3, BringFine, CommitFailsFine, CommitFine DEF ChangesInv
<1>4. CASE \E r \in Realm :
             \E S \in SUBSET {n \in Mine(r) : nt[n].cb # "none"} : S # {} /\ Suppress(r, S)
  BY <1>1, <1>4, SuppressFine DEF ChangesInv
<1>5. CASE \/ \E r \in Realm : Promote(r) \/ Refresh(r) \/ WaitOn(r) \/ Cancel(r) \/ Signal(r)
           \/ UNCHANGED vars
  BY <1>1, <1>5, AwayFine DEF ChangesInv
<1>6. CASE Worker
  BY <1>1, <1>6, StartFine, RunFine, HandFine, PostFine DEF Worker, ChangesInv
<1> QED  BY <1>2, <1>3, <1>4, <1>5, <1>6 DEF Next, EndWrite

(* The inductive invariant of callbacks holds throughout.                   *)
THEOREM ChangesInvariance == Spec => []ChangesInv
<1>1. Init => ChangesInv
  <2> SUFFICES ASSUME Init PROVE ChangesInv
    OBVIOUS
  <2>1. IInv
    BY InitInv
  <2>2. Locked /\ Enlisted /\ Informed /\ RowsInv /\ Quieted /\ alive = {}
    BY DEF Init, Locked, Enlisted, Informed, RowsInv, Quieted
  <2>3. Following
    BY DEF Init, Following, Idle
  <2> QED  BY <2>1, <2>2, <2>3 DEF ChangesInv
<1> QED  BY <1>1, StepChanges, PTL DEF Spec

(* Nothing is lost, told twice or told too early: what waits for a callback *)
(* that has been called is exactly what was committed between the version   *)
(* it knows and that of its notifier, but for what it was not to be told,   *)
(* whoever writes and whenever the worker runs (do_prepare_handover, skip   *)
(* version).                                                                *)
THEOREM ChangesCorrectness == Spec => []ChangesContinue
<1>1. ChangesInv => ChangesContinue
  BY DEF ChangesInv, Fine, Continues, ChangesContinue, Undisturbed
<1> QED  BY <1>1, ChangesInvariance, PTL

-----------------------------------------------------------------------------
(* When no write is suppressed                                              *)

(* No notifier is marked, and nothing is to be kept from a callback.        *)
Unmarked == \A n \in Notifier : ~nt[n].skip /\ muted[n] = {}
Outright == quiet = {} /\ mixedUp = {} /\ Unmarked

(* A hand-over gives each notifier in it what the worker has for it.        *)
LEMMA HandAllIs ==
    ASSUME NEW S, NEW v, HandAll(S, v), NEW n \in Notifier
    PROVE  nt'[n] = IF n \in S THEN Handed(nt[n], v) ELSE nt[n]
  BY DEF HandAll, Apply

(* Marks come from suppression alone.                                       *)
LEMMA StepOutright ==
    ASSUME ~SilentWrites, ChangesInv, Outright, [Next]_vars
    PROVE  Outright'
<1>1. IInv /\ TypeOK /\ \A n \in Notifier : nt[n] \in Notifiers
  BY DEF ChangesInv, IInv, TypeOK
<1>2. quiet = {} /\ mixedUp = {}
  BY DEF Outright
<1>3. \A n \in Notifier : ~nt[n].skip /\ muted[n] = {}
  BY DEF Outright, Unmarked
<1>4. ASSUME quiet' = {}, mixedUp' = {}, muted' = muted,
             \A n \in Notifier : nt'[n].skip = nt[n].skip
      PROVE  Outright'
  BY <1>3, <1>4 DEF Outright, Unmarked
<1>5. ASSUME NEW n \in Notifier, NEW u \in Uses, Register(n, u)
      PROVE  Outright'
  <2>1. /\ quiet' = {} /\ mixedUp' = {}
        /\ \A m \in Notifier : muted'[m] = {} /\ nt'[m].skip = FALSE
    BY <1>2, <1>1, <1>3, <1>5 DEF Register, New, TypeOK
  <2> QED  BY <2>1 DEF Outright, Unmarked
<1>6. ASSUME NEW n \in Notifier, AddCallback(n) \/ Use(n) \/ RemoveCallback(n) \/ Unregister(n)
      PROVE  Outright'
  <2>1. /\ quiet' = {} /\ mixedUp' = {}
        /\ \A m \in Notifier : muted'[m] = {}
    BY <1>2, <1>1, <1>3, <1>6
       DEF AddCallback, Use, RemoveCallback, Unregister, history, TypeOK
  <2>2. /\ \A m \in Notifier \ {n} : nt'[m] = nt[m]
        /\ nt'[n] \in {nt[n], Added(nt[n]), Used(nt[n]), Removed(nt[n])}
    BY <1>1, <1>6
       DEF AddCallback, Use, RemoveCallback, Unregister, Added, Used, Removed, TypeOK
  <2>3. ~nt'[n].skip
    BY <1>1, <1>3, <2>2, ChangedFields
  <2> QED  BY <1>3, <2>1, <2>2, <2>3 DEF Outright, Unmarked
<1>7. ASSUME NEW r \in Realm, Promote(r) \/ Refresh(r) \/ WaitOn(r) \/ Cancel(r) \/ Signal(r)
      PROVE  Outright'
  <2>1. quiet' = quiet /\ mixedUp' = mixedUp /\ muted' = muted /\ nt' = nt
    BY <1>7 DEF Promote, Refresh, Waits, WaitOn, Cancel, Signal, history
  <2> QED  BY <1>2, <1>4, <2>1
<1>8. ASSUME NEW r \in Realm, CommitFails(r)
      PROVE  Outright'
  <2>1. quiet' = {} /\ mixedUp' = {} /\ muted' = muted /\ nt' = nt
    BY <1>2, <1>8 DEF CommitFails
  <2> QED  BY <1>2, <1>4, <2>1
<1>9. ASSUME NEW r \in Realm, Commit(r)
      PROVE  Outright'
  <2>1. quiet' = {} /\ nt' = nt /\ \A m \in Notifier : muted'[m] = muted[m]
    BY <1>2, <1>9 DEF Commit
  <2>2. mixedUp' = {}
    <3>1. {n \in alive \ quiet : nt[n].skip} = {}
      BY <1>1, <1>3 DEF TypeOK
    <3> QED  BY <1>2, <1>9, <3>1 DEF Commit
  <2> QED  BY <1>3, <2>1, <2>2 DEF Outright, Unmarked
<1>10. ASSUME NEW r \in Realm, Waited(r) \/ Notify(r)
      PROVE  Outright'
  <2>1. quiet' = quiet /\ mixedUp' = mixedUp /\ muted' = muted
    BY <1>10 DEF Waited, Notify, history
  <2>2. \A n \in Notifier : nt'[n] = nt[n] \/ Brought(r, n)
    <3>1. \A n \in alive : nt'[n] = nt[n] \/ Brought(r, n)
      BY <1>1, <1>10, WaitedBrings, NotifyBrings DEF ChangesInv, Ordered, Fine, RowsInv
    <3>2. ASSUME NEW n \in Notifier \ alive
          PROVE  nt'[n] = nt[n]
      <4> DEFINE P == HasRun(r)
                 Q == {m \in P : nt[m].ver = at[r]}
      <4>1. n \notin P /\ n \notin Q
        BY DEF HasRun, Mine
      <4> HIDE DEF P, Q
      <4>2. CASE Waited(r)
        <5> DEFINE behind == P # {} /\ PackageVersion(P) < goal[r]
                   v      == IF P = {} \/ behind THEN latest ELSE PackageVersion(P)
                   w      == stage[r] = "promoting"
        <5>1. IF behind THEN Apply(P, Dropped) ELSE Apply(P, LAMBDA s : Delivered(s, v, w))
          BY <4>2 DEF Waited, P
        <5> HIDE DEF behind, v, w
        <5> QED  BY <4>1, <5>1 DEF Apply
      <4>3. CASE Notify(r)
        <5> DEFINE v == PackageVersion(P)
        <5>1. \/ nt' = nt
              \/ Apply(Q, LAMBDA s : Delivered(s, at[r], FALSE))
              \/ Apply(P, Dropped)
              \/ Apply(P, LAMBDA s : Delivered(s, v, FALSE))
          BY <4>3 DEF Notify, P, Q
        <5> HIDE DEF v
        <5> QED  BY <4>1, <5>1 DEF Apply
      <4> QED  BY <1>10, <4>2, <4>3
    <3> QED  BY <3>1, <3>2
  <2>3. ASSUME NEW n \in Notifier
        PROVE  nt'[n].skip = nt[n].skip
    BY <1>1, <2>2, DeliveredFields, DroppedFields, VersionsAreNat DEF Brought
  <2> QED  BY <1>2, <1>4, <2>1, <2>3
<1>11. ASSUME NEW S \in SUBSET Notifier, NEW v \in Version, RunAll(S, v),
              quiet' = quiet, mixedUp' = mixedUp, muted' = muted
       PROVE  Outright'
  <2>1. \A n \in Notifier : nt'[n] = nt[n] \/ nt'[n] = Ran(nt[n], v)
    BY <1>11 DEF RunAll
  <2>2. \A n \in Notifier : nt'[n].skip = nt[n].skip
    BY <1>1, <2>1, RanFields
  <2> QED  BY <1>2, <1>4, <1>11, <2>2
<1>12. ASSUME NEW S \in SUBSET Notifier, NEW v \in Version, HandAll(S, v),
              quiet' = quiet, muted' = muted
       PROVE  Outright'
  <2>1. ASSUME NEW n \in Notifier
        PROVE  nt'[n] = nt[n] \/ nt'[n] = Handed(nt[n], v)
    <3>1. nt'[n] = IF n \in S THEN Handed(nt[n], v) ELSE nt[n]
      BY <1>12, HandAllIs
    <3> QED  BY <3>1
  <2>2. ASSUME NEW n \in Notifier
        PROVE  ~nt'[n].skip
    <3>1. ~nt[n].skip /\ ~Handed(nt[n], v).skip
      BY <1>1, <1>3, HandedFields
    <3>2. nt'[n] \in {nt[n], Handed(nt[n], v)}
      BY <2>1
    <3> QED  BY <3>1, <3>2
  <2>3. mixedUp' = {}
    <3>1. {n \in S : nt[n].skip /\ \E w \in muted[n] : w > v} = {}
      BY <1>3
    <3> QED  BY <1>2, <1>12, <3>1 DEF HandAll
  <2> QED  BY <1>2, <1>3, <1>12, <2>2, <2>3 DEF Outright, Unmarked
<1>13. CASE Worker
  <2>1. CASE Start \/ Post
    <3>1. quiet' = quiet /\ mixedUp' = mixedUp /\ muted' = muted /\ nt' = nt
      BY <2>1 DEF Start, Post, history
    <3> QED  BY <1>2, <1>4, <3>1
  <2>2. CASE SkipRun \/ Run
    <3>1. quiet' = quiet /\ mixedUp' = mixedUp /\ muted' = muted
      BY <2>2 DEF SkipRun, Run
    <3>2. \E S \in SUBSET Notifier, v \in Version : RunAll(S, v)
      BY <1>1, <2>2, PendingIs DEF SkipRun, Run, Busy, TypeOK, Works
    <3> QED  BY <1>11, <3>1, <3>2
  <2>3. CASE SkipHand \/ Hand
    <3>1. quiet' = quiet /\ muted' = muted
      BY <2>3 DEF SkipHand, Hand
    <3>2. \E S \in SUBSET Notifier, v \in Version : HandAll(S, v)
      BY <1>1, <2>3, PendingIs DEF SkipHand, Hand, Busy, TypeOK, Works
    <3> QED  BY <1>12, <3>1, <3>2
  <2> QED  BY <1>13, <2>1, <2>2, <2>3 DEF Worker
<1>14. ASSUME NEW r \in Realm, NEW S, Suppress(r, S)
       PROVE  FALSE
  BY <1>14 DEF Suppress
<1>15. CASE UNCHANGED vars
  BY <1>2, <1>4, <1>15 DEF vars, history
<1> QED
  BY <1>5, <1>6, <1>7, <1>8, <1>9, <1>10, <1>13, <1>14, <1>15 DEF Next, EndWrite

(* Where nobody suppresses notifications, as in this application, what      *)
(* waits for a callback is each change between the version it knows and     *)
(* that of its notifier, in every notifier that no run has passed over.     *)
EveryChangeIsTold ==
    \A n \in alive \ passedOver :
        nt[n].cb = "told" => nt[n].acc = nt[n].told + 1 .. nt[n].ver

(* No commit is hidden from a callback that did not ask for it: suppression *)
(* is the only way for a change to be kept from it (commit_write,           *)
(* do_prepare_handover).                                                    *)
THEOREM UnsuppressedCorrectness ==
    ASSUME ~SilentWrites
    PROVE  Spec => []EveryChangeIsTold
<1>1. Init => Outright
  BY DEF Init, Outright, Unmarked, New
<1>2. ChangesInv /\ Outright /\ [Next]_vars => Outright'
  BY StepOutright
<1>3. ChangesInv /\ Outright => EveryChangeIsTold
  <2> SUFFICES ASSUME ChangesInv, Outright, NEW n \in alive \ passedOver, nt[n].cb = "told"
               PROVE  nt[n].acc = nt[n].told + 1 .. nt[n].ver
    BY DEF EveryChangeIsTold
  <2>1. n \in Notifier /\ muted[n] = {} /\ n \notin mixedUp
    BY DEF Outright, Unmarked, ChangesInv, IInv, TypeOK
  <2>2. nt[n].acc = (nt[n].told + 1 .. nt[n].ver) \ muted[n]
    BY <2>1 DEF ChangesInv, Fine, Continues
  <2> QED  BY <2>1, <2>2
<1> QED  BY <1>1, <1>2, <1>3, ChangesInvariance, PTL DEF Spec
=============================================================================
