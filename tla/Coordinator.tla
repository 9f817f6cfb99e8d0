----------------------------- MODULE Coordinator -----------------------------
(***************************************************************************)
(* How Realm brings changes to Results: the Realm instances of a process   *)
(* that are open on one file, each on a thread of its own, the notifiers   *)
(* of their Results, the notifier worker that reruns the queries, and the  *)
(* RealmCoordinator between them.                                          *)
(*                                                                         *)
(* One action is one section under m_notifier_mutex, or what one thread    *)
(* does between two of them.  Every commit changes what every Results      *)
(* holds, so that a collection is told apart by the version it is of, and  *)
(* a change of it is the version that made it.  A notifier has one         *)
(* callback at most (Callbacks.tla has the list of them).  A Realm without *)
(* notifiers stands for other processes, too.                              *)
(***************************************************************************)
EXTENDS Integers, FiniteSets

CONSTANTS
    Realm,         \* the Realm instances
    NoRealm,       \* none of them
    Notifier,      \* the Results whose notifiers come and go
    Owner,         \* of each notifier: the Realm of its Results
    MaxVersion,    \* bound: versions of the file
    Uses,          \* what a Results may be when its notifier is made: "query", "used"
    SilentWrites,  \* writes may suppress notifications
    OtherThreads   \* tokens may be dropped on threads of no Realm

ASSUME ConstantsAssumption ==
    /\ NoRealm \notin Realm
    /\ Owner \in [Notifier -> Realm]
    /\ MaxVersion \in Nat \ {0}
    /\ Uses \subseteq {"query", "used"}
    /\ SilentWrites \in BOOLEAN /\ OtherThreads \in BOOLEAN

Version == 1 .. MaxVersion
None    == 0  \* no version

VARIABLES
    latest,       \* the latest version of the file
    writer,       \* the Realm that has the write lock
    at,           \* of each Realm: the version it reads
    stage,        \* of each Realm: what its thread is doing
    goal,         \* of each Realm: the version that it waits for notifiers of
    blocked,      \* the Realms that wait on m_notifier_cv
    posted,       \* the Realms whose run loop has been signalled
    news, main,   \* m_new_notifiers, m_notifiers
    advancer,     \* the version that m_advancer_sg reads
    helper,       \* the version that m_notifier_sg reads
    skipVersion,  \* m_notifier_skip_version
    alive,        \* the notifiers whose m_realm is set: their Results is there
    nt,           \* the state of each notifier, see Notifiers
    wake,         \* the pipe to the worker has been written to
    work,         \* the worker: how far it is, and what it took along
    quiet,        \* the notifiers that the commit under way suppresses
    muted,        \* history: of each notifier, the versions it is not told
    passedOver,   \* history: notifiers that a run left alone as unwanted
    mixedUp       \* history: notifiers whose suppression met another's step

(* cb: whether there is a callback, and whether it has been called; told:   *)
(* the version it knows; acc: accumulated_changes; skip: skip_next; ver:    *)
(* m_sg_version; hasRun: m_has_run; rowsAt: the version that                *)
(* m_previous_rows is of; delta: m_changes; tv: the version of m_tv;        *)
(* handover: the version whose rows m_tv_handover has; wanted:              *)
(* m_wants_background_updates; used: m_has_used_table_view, or "query" as   *)
(* long as the Results has no table view.                                   *)
Notifiers ==
    [cb: {"none", "added", "told"}, told: 0 .. MaxVersion, acc: SUBSET Version,
     skip: BOOLEAN, ver: Version, hasRun: BOOLEAN, rowsAt: 0 .. MaxVersion,
     delta: SUBSET Version, tv: 0 .. MaxVersion, handover: 0 .. MaxVersion,
     wanted: BOOLEAN, used: {"query", "used", "unused"}]

(* Mutant of New: the rows of its Results count as a first run. *)
NewAsRun(v, u) ==
    [cb |-> "none", told |-> None, acc |-> {}, skip |-> FALSE, ver |-> v, hasRun |-> TRUE,
     rowsAt |-> v, delta |-> {}, tv |-> None, handover |-> None, wanted |-> TRUE, used |-> u]

New(v, u) ==
    [cb |-> "none", told |-> None, acc |-> {}, skip |-> FALSE, ver |-> v, hasRun |-> FALSE,
     rowsAt |-> None, delta |-> {}, tv |-> None, handover |-> None, wanted |-> TRUE, used |-> u]

file    == <<latest, writer, at>>
threads == <<stage, goal, blocked, posted>>
lists   == <<news, main, advancer, helper, skipVersion>>
history == <<muted, passedOver, mixedUp>>
vars    == <<file, threads, lists, alive, nt, wake, work, quiet, history>>

Idle == [step |-> "idle", fresh |-> {}, old |-> {}, target |-> None, skipTo |-> None]

Init ==
    /\ latest = 1 /\ writer = NoRealm /\ at = [r \in Realm |-> 1]
    /\ stage = [r \in Realm |-> "reading"] /\ goal = [r \in Realm |-> None]
    /\ blocked = {} /\ posted = {}
    /\ news = {} /\ main = {} /\ advancer = None /\ helper = None /\ skipVersion = None
    /\ alive = {} /\ nt = [n \in Notifier |-> New(1, "query")]
    /\ wake = FALSE /\ work = Idle /\ quiet = {}
    /\ muted = [n \in Notifier |-> {}] /\ passedOver = {} /\ mixedUp = {}

(* notifiers_for_realm *)
Mine(r) == {n \in news \union main : n \in alive /\ Owner[n] = r}

-----------------------------------------------------------------------------
(* Results and their callbacks, on the thread of their Realm *)

(* pin_version: the oldest version that a new notifier was made at is kept. *)
Pin(v) == IF news = {} \/ v < advancer THEN v ELSE advancer

(* A Results is evaluated (update_tableview), or is given its first         *)
(* callback while it is a query (prepare_async): its notifier is            *)
(* registered, for the next run.                                            *)
Register(n, u) ==
    /\ stage[Owner[n]] = "reading"
    /\ n \notin alive \union news \union main \union work.fresh \union work.old
    /\ alive' = alive \union {n}
    /\ nt' = [nt EXCEPT ![n] = New(at[Owner[n]], u)]
    /\ advancer' = Pin(at[Owner[n]])
    /\ news' = news \union {n}
    /\ muted' = [muted EXCEPT ![n] = {}]
    /\ passedOver' = passedOver \ {n} /\ mixedUp' = mixedUp \ {n}
    /\ UNCHANGED <<file, threads, main, helper, skipVersion, wake, work, quiet>>

(* Mutant of AddCallback: the worker is not woken. *)
AddCallbackAsleep(n) ==
    /\ n \in alive /\ stage[Owner[n]] = "reading" /\ nt[n].cb = "none"
    /\ nt' = [nt EXCEPT ![n].cb = "added"]
    /\ muted' = [muted EXCEPT ![n] = {}]
    /\ UNCHANGED <<file, threads, lists, alive, wake, work, quiet, passedOver, mixedUp>>

(* add_notification_callback, when the notifier is there already. *)
AddCallback(n) ==
    /\ n \in alive /\ stage[Owner[n]] = "reading" /\ nt[n].cb = "none"
    /\ nt' = [nt EXCEPT ![n].cb = "added"]
    /\ wake' = TRUE
    /\ muted' = [muted EXCEPT ![n] = {}]
    /\ UNCHANGED <<file, threads, lists, alive, work, quiet, passedOver, mixedUp>>

(* The user looks at the Results. *)
Use(n) ==
    /\ n \in alive /\ stage[Owner[n]] \in {"reading", "writing"} /\ nt[n].used # "used"
    /\ nt' = [nt EXCEPT ![n].used = "used"]
    /\ UNCHANGED <<file, threads, lists, alive, wake, work, quiet, history>>

(* The thread of the notifier's Realm, or any other. *)
OnSomeThread(n) == OtherThreads \/ stage[Owner[n]] \in {"reading", "writing"}

(* A token is dropped. *)
RemoveCallback(n) ==
    /\ OnSomeThread(n) /\ n \in alive /\ nt[n].cb # "none"
    /\ nt' = [nt EXCEPT ![n].cb = "none", ![n].told = None, ![n].acc = {}, ![n].skip = FALSE]
    /\ UNCHANGED <<file, threads, lists, alive, wake, work, quiet, history>>

(* The Results goes away.  A callback holds on to its Results. *)
Unregister(n) ==
    /\ OnSomeThread(n) /\ n \in alive /\ nt[n].cb = "none"
    /\ alive' = alive \ {n}
    /\ UNCHANGED <<file, threads, lists, nt, wake, work, quiet, history>>

-----------------------------------------------------------------------------
(* Delivery, on the thread of a Realm *)

(* Callbacks are called at version v; a new table view is given to the      *)
(* Results, but not during a write.  If the last one was not used, no more  *)
(* are made.                                                                *)
Delivered(s, v, writing) ==
    LET table == s.handover # None /\ ~writing
    IN  [s EXCEPT !.acc = {}, !.handover = None,
                  !.cb = IF @ = "none" THEN "none" ELSE "told",
                  !.told = IF s.cb = "none" THEN None ELSE v,
                  !.wanted = IF table /\ s.used # "query" THEN s.used = "used" ELSE @,
                  !.used = IF table THEN "unused" ELSE @]

(* What was packaged is thrown away. *)
Dropped(s) == [s EXCEPT !.acc = {}, !.handover = None]

Apply(S, F(_)) == nt' = [n \in Notifier |-> IF n \in S THEN F(nt[n]) ELSE nt[n]]

(* The version of a package is that of the last notifier in it. *)
PackageVersion(S) == CHOOSE v \in {nt[n].ver : n \in S} : TRUE

HasRun(r) == {n \in Mine(r) : nt[n].hasRun}

(* Mutant of Ready: what is there already is waited for. *)
ReadyPast(r, v) == \A n \in Mine(r) : nt[n].cb = "none" \/ (nt[n].hasRun /\ nt[n].ver > v)

(* Mutant of Ready: a notifier that has not run yet is not waited for. *)
ReadyIfRun(r, v) == \A n \in Mine(r) : nt[n].cb = "none" \/ ~nt[n].hasRun \/ nt[n].ver >= v

(* What package_and_wait waits for. *)
Ready(r, v) == \A n \in Mine(r) : nt[n].cb = "none" \/ (nt[n].hasRun /\ nt[n].ver >= v)

(* Mutant of Waits: the worker is not woken. *)
WaitsAsleep(r, kind) ==
    /\ stage[r] = "reading"
    /\ stage' = [stage EXCEPT ![r] = kind]
    /\ goal' = [goal EXCEPT ![r] = latest]
    /\ blocked' = IF Ready(r, latest) THEN blocked ELSE blocked \union {r}
    /\ UNCHANGED <<latest, at, posted, lists, alive, nt, wake, work, quiet, history>>

(* wait_for_notifiers: when the condition does not hold at once, the worker *)
(* is woken.                                                                *)
Waits(r, kind) ==
    /\ stage[r] = "reading"
    /\ stage' = [stage EXCEPT ![r] = kind]
    /\ goal' = [goal EXCEPT ![r] = latest]
    /\ IF Ready(r, latest)
       THEN UNCHANGED <<blocked, wake>>
       ELSE blocked' = blocked \union {r} /\ wake' = TRUE
    /\ UNCHANGED <<latest, at, posted, lists, alive, nt, work, quiet, history>>

(* Mutant of Promote: the write lock is not waited for. *)
PromoteUnlocked(r) == writer' = r /\ Waits(r, "promoting")

(* begin_transaction takes the write lock first.  Inside a callback it      *)
(* would neither wait nor notify (shared_realm.cpp:608-616): such writes    *)
(* are left out here, and from every property.                              *)
Promote(r) == writer = NoRealm /\ writer' = r /\ Waits(r, "promoting")

Refresh(r) == Waits(r, "refreshing") /\ UNCHANGED writer

(* It was notified, and looks at the condition again. *)
WaitOn(r) ==
    /\ stage[r] \in {"promoting", "refreshing"} /\ r \notin blocked /\ ~Ready(r, goal[r])
    /\ blocked' = blocked \union {r}
    /\ UNCHANGED <<file, stage, goal, posted, lists, alive, nt, wake, work, quiet, history>>

(* The wait is over: the notifiers are packaged, unless none of them had to *)
(* be waited for and they are behind; the Realm goes to the version of the  *)
(* package, or to the latest one, and the callbacks are called.             *)
Waited(r) ==
    /\ stage[r] \in {"promoting", "refreshing"} /\ r \notin blocked /\ Ready(r, goal[r])
    /\ LET P      == HasRun(r)
           behind == P # {} /\ PackageVersion(P) < goal[r]
           v      == IF P = {} \/ behind THEN latest ELSE PackageVersion(P)
       IN  /\ at' = [at EXCEPT ![r] = v]
           /\ IF behind
              THEN Apply(P, Dropped)
              ELSE Apply(P, LAMBDA s : Delivered(s, v, stage[r] = "promoting"))
    /\ stage' = [stage EXCEPT ![r] = IF @ = "promoting" THEN "writing" ELSE "reading"]
    /\ goal' = [goal EXCEPT ![r] = None]
    /\ UNCHANGED <<latest, writer, blocked, posted, lists, alive, wake, work, quiet, history>>

(* Realm::notify, in the run loop; in a write nothing is done. *)
Notify(r) ==
    /\ r \in posted /\ stage[r] \in {"reading", "writing"}
    /\ posted' = posted \ {r}
    /\ LET P == HasRun(r)
           v == PackageVersion(P)
       IN  CASE stage[r] = "writing" ->
                  UNCHANGED <<at, nt>>
             [] stage[r] = "reading" /\ at[r] = latest ->  \* process_available_async
                  /\ Apply({n \in P : nt[n].ver = at[r]}, LAMBDA s : Delivered(s, at[r], FALSE))
                  /\ UNCHANGED at
             [] OTHER ->                                   \* advance_to_ready
                  IF P = {}
                  THEN at' = [at EXCEPT ![r] = latest] /\ UNCHANGED nt
                  ELSE IF v < at[r]
                       THEN Apply(P, Dropped) /\ UNCHANGED at
                       ELSE /\ at' = [at EXCEPT ![r] = v]
                            /\ Apply(P, LAMBDA s : Delivered(s, v, FALSE))
    /\ UNCHANGED <<latest, writer, stage, goal, blocked, lists, alive, wake, work, quiet,
                   history>>

-----------------------------------------------------------------------------
(* Writes *)

(* commitWrite(withoutNotifying:): the tokens are marked, and the commit    *)
(* follows.                                                                 *)
Suppress(r, S) ==
    /\ SilentWrites /\ stage[r] = "writing"
    /\ stage' = [stage EXCEPT ![r] = "committing"]
    /\ quiet' = S
    /\ nt' = [n \in Notifier |-> IF n \in S THEN [nt[n] EXCEPT !.skip = TRUE] ELSE nt[n]]
    /\ UNCHANGED <<file, goal, blocked, posted, lists, alive, wake, work, history>>

(* The commit fails: the write goes on, and can be cancelled. *)
CommitFails(r) ==
    /\ stage[r] = "committing"
    /\ stage' = [stage EXCEPT ![r] = "writing"]
    /\ quiet' = {}
    /\ mixedUp' = mixedUp \union quiet
    /\ UNCHANGED <<file, goal, blocked, posted, lists, alive, nt, wake, work, muted, passedOver>>

(* The version up to which the worker runs first, by itself, so that what   *)
(* is suppressed is this write alone.                                       *)
SkipTo(r) == IF \E n \in main : n \in alive /\ Owner[n] = r THEN latest + 1 ELSE skipVersion

(* commit_write, under m_notifier_mutex. *)
Commit(r) ==
    /\ stage[r] \in {"writing", "committing"} /\ latest < MaxVersion
    /\ latest' = latest + 1
    /\ writer' = NoRealm
    /\ at' = [at EXCEPT ![r] = latest + 1]
    /\ stage' = [stage EXCEPT ![r] = "signalling"]
    /\ skipVersion' = SkipTo(r)
    /\ quiet' = {}
    /\ muted' = [n \in Notifier |-> IF n \in quiet THEN muted[n] \union {latest + 1}
                                                   ELSE muted[n]]
    /\ mixedUp' = IF SkipTo(r) # skipVersion
                  THEN mixedUp \union {n \in alive \ quiet : nt[n].skip}
                  ELSE mixedUp
    /\ UNCHANGED <<goal, blocked, posted, news, main, advancer, helper, alive, nt, wake, work,
                   passedOver>>

(* Mutant of Signal: nobody is signalled. *)
SignalNobody(r) ==
    /\ stage[r] = "signalling"
    /\ stage' = [stage EXCEPT ![r] = "reading"]
    /\ UNCHANGED <<file, goal, blocked, posted, lists, alive, nt, wake, work, quiet, history>>

(* notify_others, after the commit. *)
Signal(r) ==
    /\ stage[r] = "signalling"
    /\ stage' = [stage EXCEPT ![r] = "reading"]
    /\ wake' = TRUE
    /\ UNCHANGED <<file, goal, blocked, posted, lists, alive, nt, work, quiet, history>>

Cancel(r) ==
    /\ stage[r] = "writing"
    /\ stage' = [stage EXCEPT ![r] = "reading"]
    /\ writer' = NoRealm
    /\ UNCHANGED <<latest, at, goal, blocked, posted, lists, alive, nt, wake, work, quiet,
                   history>>

-----------------------------------------------------------------------------
(* The worker *)

(* clean_up_dead_notifiers: with the last notifier of a list goes what its  *)
(* SharedGroup reads.                                                       *)
CleanUp(newsLeft, mainLeft) ==
    /\ news' = newsLeft /\ main' = mainLeft
    /\ advancer' = IF newsLeft = {} THEN None ELSE advancer

(* The version to skip to, when only these notifiers are left. *)
SkipLeft(old) == IF main # {} /\ old = {} THEN None ELSE skipVersion

(* on_change begins: the new notifiers join the others, and the version to  *)
(* go to is taken, with the one to skip to.  With no notifiers there is     *)
(* nothing to do.                                                           *)
Start ==
    /\ work.step = "idle" /\ wake
    /\ wake' = FALSE
    /\ LET fresh == news \intersect alive
           old   == main \intersect alive
           skip  == SkipLeft(old)
       IN  IF fresh \union old = {}
           THEN /\ CleanUp({}, {})
                /\ helper' = None /\ skipVersion' = skip
                /\ work' = [Idle EXCEPT !.step = "posting"]
           ELSE /\ CleanUp({}, old \union fresh)
                /\ helper' = IF old = {} THEN latest ELSE helper
                /\ skipVersion' = None
                /\ work' = [step |-> IF skip = None THEN "running" ELSE "skipping",
                            fresh |-> fresh, old |-> old, target |-> latest, skipTo |-> skip]
    /\ UNCHANGED <<file, threads, alive, nt, quiet, history>>

Unwanted(n) == nt[n].cb = "none" /\ ~nt[n].wanted

(* need_to_run *)
NeedsRun(n, v) == n \in alive /\ ~Unwanted(n) /\ (nt[n].hasRun => nt[n].rowsAt # v)

(* Mutant of Ran: the first run reports changes, and a run those it began from. *)
RanFromNone(s, v) == [s EXCEPT !.tv = v, !.rowsAt = v, !.delta = s.rowsAt .. v]

(* Mutant of Ran: the rows of the last run are kept. *)
RanFromFirst(s, v) ==
    [s EXCEPT !.tv = v, !.rowsAt = IF s.hasRun THEN @ ELSE v,
              !.delta = IF s.hasRun THEN s.rowsAt + 1 .. v ELSE {}]

(* run: the query is run, and its rows compared with those of the last run. *)
Ran(s, v) ==
    [s EXCEPT !.tv = v, !.rowsAt = v,
              !.delta = IF s.hasRun THEN s.rowsAt + 1 .. v ELSE {}]

RunAll(S, v) ==
    /\ nt' = [n \in Notifier |-> IF n \in S /\ NeedsRun(n, v) THEN Ran(nt[n], v) ELSE nt[n]]
    /\ passedOver' = passedOver \union {n \in S \intersect alive : Unwanted(n)}

(* Mutant of Handed: the table view that waits is not replaced. *)
HandedOnce(s, v) ==
    [s EXCEPT !.ver = v, !.hasRun = TRUE, !.tv = None, !.delta = {}, !.skip = FALSE,
              !.handover = IF @ = None THEN s.tv ELSE @,
              !.acc = IF s.cb = "none" \/ s.skip THEN @ ELSE @ \union s.delta]

(* prepare_handover: the rows and the changes are there for the target      *)
(* thread, at the version that the worker has got to.                       *)
Handed(s, v) ==
    [s EXCEPT !.ver = v, !.hasRun = TRUE, !.tv = None, !.delta = {}, !.skip = FALSE,
              !.handover = IF s.tv = None THEN @ ELSE s.tv,
              !.acc = IF s.cb = "none" \/ s.skip THEN @ ELSE @ \union s.delta]

HandAll(S, v) ==
    /\ Apply(S, LAMBDA s : Handed(s, v))
    /\ mixedUp' = mixedUp \union (S \intersect quiet)
                       \union {n \in S : nt[n].skip /\ \E w \in muted[n] : w > v}

(* The run up to the version to skip to, of the notifiers that are not new. *)
SkipRun ==
    /\ work.step = "skipping"
    /\ helper' = work.skipTo
    /\ RunAll(work.old, work.skipTo)
    /\ work' = [work EXCEPT !.step = "skipped"]
    /\ UNCHANGED <<file, threads, news, main, advancer, skipVersion, alive, wake, quiet, muted,
                   mixedUp>>
SkipHand ==
    /\ work.step = "skipped"
    /\ HandAll(work.old, work.skipTo)
    /\ work' = [work EXCEPT !.step = "running"]
    /\ UNCHANGED <<file, threads, lists, alive, wake, quiet, muted, passedOver>>

(* The run up to the version that was taken, of all. *)
Run ==
    /\ work.step = "running"
    /\ helper' = work.target
    /\ RunAll(work.old \union work.fresh, work.target)
    /\ work' = [work EXCEPT !.step = "ran"]
    /\ UNCHANGED <<file, threads, news, main, advancer, skipVersion, alive, wake, quiet, muted,
                   mixedUp>>
Hand ==
    /\ work.step = "ran"
    /\ HandAll(work.old \union work.fresh, work.target)
    /\ CleanUp(news \intersect alive, main \intersect alive)
    /\ IF main' = {} THEN helper' = None /\ skipVersion' = None
                     ELSE UNCHANGED <<helper, skipVersion>>
    /\ blocked' = {}
    /\ work' = [Idle EXCEPT !.step = "posting"]
    /\ UNCHANGED <<file, stage, goal, posted, alive, wake, quiet, muted, passedOver>>

(* on_change ends: the run loop of every Realm is signalled. *)
Post ==
    /\ work.step = "posting"
    /\ posted' = Realm
    /\ work' = Idle
    /\ UNCHANGED <<file, stage, goal, blocked, lists, alive, nt, wake, quiet, history>>

-----------------------------------------------------------------------------
Worker == Start \/ SkipRun \/ SkipHand \/ Run \/ Hand \/ Post

EndWrite(r) == Commit(r) \/ Cancel(r)

Next ==
    \/ \E n \in Notifier :
         \/ \E u \in Uses : Register(n, u)
         \/ AddCallback(n) \/ Use(n) \/ RemoveCallback(n) \/ Unregister(n)
    \/ \E r \in Realm :
         \/ Promote(r) \/ Refresh(r) \/ WaitOn(r) \/ Waited(r) \/ Notify(r)
         \/ \E S \in SUBSET {n \in Mine(r) : nt[n].cb # "none"} : S # {} /\ Suppress(r, S)
         \/ CommitFails(r) \/ EndWrite(r) \/ Signal(r)
    \/ Worker

Spec == Init /\ [][Next]_vars

(* The threads run: the worker, the thread of each Realm, which comes back  *)
(* to its run loop, and ends a write that it has begun.                     *)
FairSpec ==
    /\ Spec
    /\ WF_vars(Worker)
    /\ \A r \in Realm :
         /\ WF_vars(WaitOn(r) \/ Waited(r)) /\ WF_vars(Signal(r))
         /\ SF_vars(Notify(r)) /\ WF_vars(EndWrite(r))

-----------------------------------------------------------------------------
Stage == {"reading", "promoting", "refreshing", "writing", "committing", "signalling"}
Busy  == {"skipping", "skipped", "running", "ran"}
Works == [step: {"idle", "skipping", "skipped", "running", "ran", "posting"},
          fresh: SUBSET Notifier, old: SUBSET Notifier, target: 0 .. MaxVersion,
          skipTo: 0 .. MaxVersion]

TypeOK ==
    /\ latest \in Version /\ writer \in Realm \union {NoRealm}
    /\ at \in [Realm -> Version]
    /\ stage \in [Realm -> Stage] /\ goal \in [Realm -> 0 .. MaxVersion]
    /\ blocked \subseteq Realm /\ posted \subseteq Realm
    /\ news \subseteq Notifier /\ main \subseteq Notifier /\ alive \subseteq Notifier
    /\ advancer \in 0 .. MaxVersion /\ helper \in 0 .. MaxVersion
    /\ skipVersion \in 0 .. MaxVersion
    /\ nt \in [Notifier -> Notifiers]
    /\ wake \in BOOLEAN /\ work \in Works /\ quiet \subseteq Notifier
    /\ muted \in [Notifier -> SUBSET Version]
    /\ passedOver \subseteq Notifier /\ mixedUp \subseteq Notifier

(* The two SharedGroups of the coordinator read a version exactly as long   *)
(* as they have notifiers, and the advancer none that is younger than a new *)
(* notifier, whose query could not be taken over otherwise                  *)
(* (realm_coordinator.hpp, pin_version, clean_up_dead_notifiers).           *)
VersionsArePinned ==
    /\ helper # None <=> main # {}
    /\ advancer # None <=> news # {}
    /\ \A n \in news : advancer <= nt[n].ver

(* The worker only goes forward: the version to skip to is not behind what  *)
(* it reads nor past where it goes, and there are notifiers to skip         *)
(* (run_async_notifiers asserts it).                                        *)
RunsForward ==
    /\ work.step \in {"skipping", "running"} => helper <= work.target
    /\ work.step \in {"skipping", "skipped"} =>
         work.old # {} /\ helper <= work.skipTo /\ work.skipTo <= work.target
    /\ \A r \in Realm : at[r] <= latest /\ goal[r] <= latest

(* All notifiers that have run are at one version, so that the version of   *)
(* the last one in a package is that of the package (package_and_wait).     *)
OnePackageVersion ==
    \A m, n \in main \intersect alive :
        nt[m].hasRun /\ nt[n].hasRun => nt[m].ver = nt[n].ver

(* The versions that Realms, notifiers, SharedGroups and worker are at keep  *)
(* in step, whatever comes and goes meanwhile: what is read stays pinned,   *)
(* the worker goes forward, and one package is of one version.              *)
VersionsInOrder == VersionsArePinned /\ RunsForward /\ OnePackageVersion

Undisturbed == alive \ (passedOver \union mixedUp)

(* What waits for a callback that has been called is exactly what has       *)
(* happened between the version it knows and the version of its notifier,   *)
(* but for the writes that suppressed it: nothing is lost, told twice or    *)
(* told too early, whoever writes and whenever the worker runs.  Except     *)
(* when the notifier was passed over, or a suppression met another step.    *)
ChangesContinue ==
    \A n \in Undisturbed :
        nt[n].cb = "told" => nt[n].acc = (nt[n].told + 1 .. nt[n].ver) \ muted[n]

(* The rows that wait for a Results are those of the version that it will   *)
(* be given them at.                                                        *)
RowsAreCurrent ==
    \A n \in alive \ passedOver : nt[n].handover # None => nt[n].handover = nt[n].ver

(* A Realm that has begun a write, outside its callbacks, has told them     *)
(* everything that came before (begin_transaction).                         *)
WritersKnowAll ==
    \A n \in alive :
        stage[Owner[n]] = "writing" /\ nt[n].cb # "none" =>
            nt[n].cb = "told" /\ nt[n].told = at[Owner[n]] /\ at[Owner[n]] = latest

(* A notifier will be run up to version v: the worker was woken, or has the *)
(* notifier with it on its way there.                                       *)
RunComes(n, v) ==
    \/ wake
    \/ work.step \in Busy /\ n \in work.old \union work.fresh /\ v <= work.target

(* What a Realm waits for comes: each of its notifiers that is behind is    *)
(* going to be run, as far as is needed, and if the Realm sleeps, a hand-   *)
(* over that wakes it is ahead, unless what it waited for went away on      *)
(* another thread.                                                          *)
Awaited(n, v) == nt[n].cb # "none" /\ ~(nt[n].hasRun /\ nt[n].ver >= v)
Served(r) ==
    /\ \A n \in Mine(r) : Awaited(n, goal[r]) => RunComes(n, goal[r])
    /\ r \in blocked => wake \/ work.step \in Busy \/ (OtherThreads /\ Ready(r, goal[r]))

(* No Realm waits for a run that nobody has asked for, nor sleeps through   *)
(* the hand-over that it waited for (package_and_wait, m_notifier_cv).      *)
WaitersAreServed == \A r \in Realm : stage[r] \in {"promoting", "refreshing"} => Served(r)

(* Somebody who has committed is about to wake the worker; what a run has   *)
(* brought is there, and the run loop is about to be signalled, or was.     *)
Signalled == \E r \in Realm : stage[r] = "signalling"
HandedOver(n) ==
    nt[n].hasRun /\ nt[n].ver = latest /\ (work.step = "posting" \/ Owner[n] \in posted)

(* A callback that does not know the latest version has it on the way: no   *)
(* order of commits, runs, deliveries and registrations leaves a callback   *)
(* behind with everybody at rest.                                           *)
Lacks(n) == nt[n].cb = "added" \/ (nt[n].cb = "told" /\ nt[n].told < latest)
Comes(n) == Signalled \/ RunComes(n, latest) \/ HandedOver(n)
CommitsAreOnTheWay == \A n \in alive : Lacks(n) => Comes(n)

(* A begin_transaction or refresh that waits for the worker goes on.        *)
WaitsEnd ==
    \A r \in Realm : stage[r] \in {"promoting", "refreshing"} ~> stage[r] \in {"writing", "reading"}

(* Every commit is told to every callback, unless it is removed.            *)
CommitsArrive ==
    \A n \in Notifier, v \in Version :
        latest >= v /\ nt[n].cb # "none" ~> nt[n].told >= v \/ nt[n].cb = "none"

-----------------------------------------------------------------------------
(* What a callback is promised: nothing before it is called, nor when its   *)
(* notifier was passed over or its suppression met another step.            *)
Subscription(n) ==
    IF n \in Undisturbed /\ nt[n].cb = "told"
    THEN [known |-> nt[n].told, arrived |-> nt[n].ver, waiting |-> nt[n].acc,
          silent |-> muted[n]]
    ELSE [known |-> None, arrived |-> None, waiting |-> {}, silent |-> {}]

Promise == INSTANCE Delivery WITH
             Observer <- Notifier,
             sub      <- [n \in Notifier |-> Subscription(n)]

(* Realms, notifiers and worker implement what is promised to readers and   *)
(* observers, where writes are begun outside callbacks.                     *)
ImplementsDelivery == Promise!Spec

-----------------------------------------------------------------------------
(* What the documentation of commitWrite says: the notification blocks      *)
(* skipped are skipped for the changes of this write ...                    *)
SuppressedAreSilent ==
    \A n \in alive \ passedOver : nt[n].cb = "told" => nt[n].acc \intersect muted[n] = {}

(* ... and for no other.                                                    *)
OthersAreTold ==
    \A n \in alive \ passedOver :
        nt[n].cb = "told" => (nt[n].told + 1 .. nt[n].ver) \ muted[n] \subseteq nt[n].acc

(* What the documentation of addNotificationBlock says: the block is told   *)
(* what each write transaction changed.                                     *)
ChangesContinueAlways ==
    \A n \in alive \ mixedUp :
        nt[n].cb = "told" => nt[n].acc = (nt[n].told + 1 .. nt[n].ver) \ muted[n]

(* What the comment in do_prepare_handover says: a table view that waits is *)
(* kept when the table has not changed.                                     *)
RowsAreCurrentAlways ==
    \A n \in alive : nt[n].handover # None => nt[n].handover = nt[n].ver

(* What the comment in set_table_view says: new table views are made again  *)
(* when the user uses the Results object again.                             *)
UseResumesUpdates ==
    \A n \in Notifier :
        n \in alive /\ nt[n].used = "used" ~> nt[n].wanted \/ n \notin alive
=============================================================================
