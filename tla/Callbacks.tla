------------------------------ MODULE Callbacks ------------------------------
(***************************************************************************)
(* The callbacks of one CollectionNotifier of Realm, which every evaluated *)
(* Results has: how changes are collected for them, packaged and handed    *)
(* out, while callbacks are added and removed.                             *)
(*                                                                         *)
(* Three kinds of threads meet: the target thread (the one of the Realm)   *)
(* packages and calls, the notifier worker brings changes, and any thread  *)
(* may drop a token.  One action is one section under m_callback_mutex; a  *)
(* callback runs with the mutex released.  Suppressed changes are in       *)
(* Coordinator.tla.                                                        *)
(***************************************************************************)
EXTENDS Integers, Sequences, SequencesExt

CONSTANTS
    MaxTokens,  \* bound: callbacks added in the life of the notifier
    MaxChanges  \* bound: changes of the collection

ASSUME BoundsAssumption == MaxTokens \in Nat /\ MaxChanges \in Nat

Token   == 1 .. MaxTokens
Change  == 1 .. MaxChanges
NoToken == 0
npos    == -1  \* size_t(-1); smaller values are what --m_callback_count makes of it

VARIABLES
    m_callbacks,       \* the tokens of the registered callbacks, in the
                       \*   order of the vector
    accumulated,       \* of each: the changes in accumulated_changes
    toDeliver,         \* of each: the changes in changes_to_deliver
    initialDelivered,  \* the callbacks that have been called at all
    m_callback_index, m_callback_count, m_have_callbacks,
    nextToken,         \* m_next_token
    phase,             \* how far the target thread is in a delivery
    calling,           \* the callback whose user code it runs
    size,              \* deliver_error: m_callbacks.size(), as it was read
    changes, ran,      \* changes of the collection; those the worker has
                       \*   brought, or npos before its first run
    wake, posted,      \* work for the worker; for the target thread
    failed,            \* m_async_error: the worker could not open its file
    outOfRange,        \* a callback past the end of the vector was read
    got, since,        \* history: the changes a callback was told, and
                       \*   those brought since it was added
    packaged,          \* history: the callbacks there at the last packaging
    early,             \*   and those added while nothing was being sent
    strayed            \* history: a token was dropped during a delivery
                       \*   that it was no part of, or when size was stale

list  == <<m_callbacks, m_callback_index, m_callback_count, m_have_callbacks>>
told  == <<accumulated, toDeliver, initialDelivered, got, since>>
stage == <<phase, calling, size, packaged>>
work  == <<changes, ran, wake, posted, failed>>
vars  == <<list, told, stage, work, nextToken, outOfRange, early, strayed>>

Init ==
    /\ m_callbacks = <<>> /\ nextToken = 1
    /\ m_callback_index = npos /\ m_callback_count = npos /\ m_have_callbacks = FALSE
    /\ accumulated = [t \in Token |-> {}] /\ toDeliver = [t \in Token |-> {}]
    /\ initialDelivered = {}
    /\ got = [t \in Token |-> {}] /\ since = [t \in Token |-> {}]
    /\ phase = "idle" /\ calling = NoToken /\ size = 0 /\ packaged = {}
    /\ changes = 0 /\ ran = npos /\ wake = FALSE /\ posted = FALSE /\ failed = FALSE
    /\ outOfRange = FALSE /\ early = {} /\ strayed = FALSE

Registered == {m_callbacks[i] : i \in DOMAIN m_callbacks}

-----------------------------------------------------------------------------
(* Adding and removing *)

(* Code of the application runs on the target thread. *)
UserCode == calling # NoToken \/ phase \in {"idle", "between"}

(* add_callback, on the target thread.  While callbacks are being called    *)
(* the worker is not woken.                                                 *)
AddCallback ==
    /\ ~outOfRange /\ UserCode /\ nextToken \in Token
    /\ m_callbacks' = Append(m_callbacks, nextToken)
    /\ nextToken' = nextToken + 1
    /\ IF m_callback_index = npos
       THEN wake' = TRUE /\ m_have_callbacks' = TRUE
       ELSE UNCHANGED <<wake, m_have_callbacks>>
    /\ early' = IF phase = "idle" THEN early \union {nextToken} ELSE early
    /\ UNCHANGED <<m_callback_index, m_callback_count, told, stage, changes, ran,
                   posted, failed, outOfRange, strayed>>

Position(t) == CHOOSE i \in DOMAIN m_callbacks : m_callbacks[i] = t

(* The position of a callback in the vector, which counts from 0. *)
Offset(t) == Position(t) - 1

Without(t) == RemoveAt(m_callbacks, Position(t))

(* Mutants of Removed: the index is counted down outside an iteration, too; *)
(* the iteration is not told; the flag is not cleared.                      *)
RemovedUnchecked(t) ==
    /\ m_callbacks' = Without(t)
    /\ m_callback_index' = m_callback_index - 1
    /\ m_callback_count' = m_callback_count - 1
    /\ m_have_callbacks' = (m_callbacks' # <<>>)
RemovedBehindIteration(t) ==
    /\ m_callbacks' = Without(t)
    /\ m_callback_count' = m_callback_count - 1
    /\ m_have_callbacks' = (m_callbacks' # <<>>)
    /\ UNCHANGED m_callback_index
RemovedFlagKept(t) ==
    /\ m_callbacks' = Without(t)
    /\ m_callback_index' = IF m_callback_index # npos /\ m_callback_index >= Offset(t)
                           THEN m_callback_index - 1 ELSE m_callback_index
    /\ m_callback_count' = m_callback_count - 1
    /\ UNCHANGED m_have_callbacks

(* remove_callback of a callback that is there. *)
Removed(t) ==
    /\ m_callbacks' = Without(t)
    /\ m_callback_index' = IF m_callback_index # npos /\ m_callback_index >= Offset(t)
                           THEN m_callback_index - 1 ELSE m_callback_index
    /\ m_callback_count' = m_callback_count - 1
    /\ m_have_callbacks' = (m_callbacks' # <<>>)

Strays(t) == phase # "idle" /\ (t \notin packaged \/ phase = "sizing")

(* A token is dropped, on any thread, in a callback or out of one. *)
RemoveCallback(t) ==
    /\ ~outOfRange /\ t \in Registered
    /\ Removed(t)
    /\ strayed' = (strayed \/ Strays(t))
    /\ UNCHANGED <<told, stage, work, nextToken, outOfRange, early>>

-----------------------------------------------------------------------------
(* The worker *)

(* The collection changes: a commit, in any thread or process. *)
Commit ==
    /\ ~outOfRange /\ changes < MaxChanges
    /\ changes' = changes + 1 /\ wake' = TRUE
    /\ UNCHANGED <<list, told, stage, ran, posted, failed, nextToken, outOfRange, early,
                   strayed>>

(* Another notifier wakes the worker. *)
WakeUp ==
    /\ ~outOfRange /\ ~wake /\ wake' = TRUE
    /\ UNCHANGED <<list, told, stage, changes, ran, posted, failed, nextToken, outOfRange,
                   early, strayed>>

(* The first run fails: it opens no file, and none ever will.  Later        *)
(* failures, such as that of pin_version when another notifier is           *)
(* registered (realm_coordinator.cpp:447), are left out.                    *)
Fail ==
    /\ ~outOfRange /\ wake /\ (failed \/ ran = npos)
    /\ failed' = TRUE /\ wake' = FALSE /\ posted' = TRUE
    /\ UNCHANGED <<list, told, stage, changes, ran, nextToken, outOfRange, early, strayed>>

(* What a run finds: nothing the first time, for the rows are all new then. *)
Fresh == IF ran = npos THEN {} ELSE ran + 1 .. changes

(* A run, and the add_changes of its prepare_handover. *)
Run ==
    /\ ~outOfRange /\ wake /\ ~failed
    /\ ran' = changes /\ wake' = FALSE /\ posted' = TRUE
    /\ accumulated' = [t \in Token |-> accumulated[t] \union
                                       (IF t \in Registered THEN Fresh ELSE {})]
    /\ since' = [t \in Token |-> since[t] \union
                                 (IF t \in Registered THEN Fresh ELSE {})]
    /\ UNCHANGED <<list, toDeliver, initialDelivered, got, stage, changes, failed,
                   nextToken, outOfRange, early, strayed>>

-----------------------------------------------------------------------------
(* The target thread *)

(* package_for_delivery. *)
Package(next) ==
    /\ ~outOfRange /\ phase = "idle" /\ ran # npos
    /\ toDeliver' = [t \in Token |-> IF t \in Registered THEN accumulated[t] ELSE toDeliver[t]]
    /\ accumulated' = [t \in Token |-> IF t \in Registered THEN {} ELSE accumulated[t]]
    /\ m_callback_count' = Len(m_callbacks)
    /\ packaged' = Registered
    /\ phase' = next
    /\ UNCHANGED <<m_callbacks, m_callback_index, m_have_callbacks, initialDelivered, got,
                   since, calling, size, changes, ran, wake, failed, nextToken, outOfRange,
                   early, strayed>>

(* deliver_error, when the worker has failed: it reads the size of the      *)
(* vector, and then stores it as the count, without the mutex.              *)
ReadSize ==
    /\ ~outOfRange /\ phase = "idle" /\ failed
    /\ phase' = "sizing" /\ size' = Len(m_callbacks)
    /\ packaged' = Registered
    /\ UNCHANGED <<list, told, calling, changes, ran, wake, failed, nextToken, outOfRange,
                   early, strayed>>
StoreCount ==
    /\ ~outOfRange /\ phase = "sizing"
    /\ phase' = "error" /\ m_callback_count' = size
    /\ UNCHANGED <<m_callbacks, m_callback_index, m_have_callbacks, told, calling, size,
                   packaged, work, nextToken, outOfRange, early, strayed>>

(* The target thread is notified: the Realm advances, or is at the version  *)
(* of the package already.                                                  *)
Notify ==
    /\ posted /\ posted' = FALSE
    /\ Package("before") \/ Package("after") \/ ReadSize

(* It advances of its own accord: refresh, or the begin of a write. *)
Advance == (Package("before") \/ ReadSize) /\ UNCHANGED posted

(* Mutant of Ahead: the loop goes to the end of the vector. *)
AheadToEnd == {i \in m_callback_index + 1 .. Len(m_callbacks) : i < Len(m_callbacks)}

(* The offsets that the loop of for_each_callback still goes through. *)
Ahead == {i \in m_callback_index + 1 .. Len(m_callbacks) :
              m_callback_count < 0 \/ i < m_callback_count}

(* Mutant of Sends: a callback is called for changes only. *)
SendsChanges(t) ==
    CASE phase = "before" -> toDeliver[t] # {}
      [] phase = "after"  -> toDeliver[t] # {}
      [] phase = "error"  -> TRUE

(* A callback has something to be told: changes, the first state, an error. *)
Sends(t) ==
    CASE phase = "before" -> toDeliver[t] # {}
      [] phase = "after"  -> t \notin initialDelivered \/ toDeliver[t] # {}
      [] phase = "error"  -> TRUE

(* The offsets at which it stops: those of callbacks that have something to *)
(* be told, and the one past the end, if the count allows it.               *)
Stops == {i \in Ahead : i = Len(m_callbacks) \/ Sends(m_callbacks[i + 1])}

Following == CASE phase = "before" -> "between" [] OTHER -> "idle"

(* Mutant of Tell: the changes are copied, and not moved out. *)
TellKeeps(t) ==
    /\ initialDelivered' = initialDelivered \union {t}
    /\ got' = [got EXCEPT ![t] = @ \union toDeliver[t]]
    /\ UNCHANGED toDeliver

Tell(t) ==
    /\ initialDelivered' = initialDelivered \union {t}
    /\ got' = [got EXCEPT ![t] = @ \union toDeliver[t]]
    /\ toDeliver' = [toDeliver EXCEPT ![t] = {}]

(* The loop goes on to the next callback that it calls, or to its end.  The *)
(* callbacks of the Objective-C binding do nothing before a change.         *)
Loop ==
    /\ ~outOfRange /\ calling = NoToken /\ phase \in {"before", "after", "error"}
    /\ IF Stops = {}
       THEN /\ m_callback_index' = npos
            /\ phase' = Following
            /\ UNCHANGED <<told, calling, outOfRange>>
       ELSE \E i \in Stops :
                /\ \A j \in Stops : i <= j
                /\ m_callback_index' = i
                /\ IF i = Len(m_callbacks)
                   THEN outOfRange' = TRUE /\ UNCHANGED <<told, calling>>
                   ELSE /\ calling' = m_callbacks[i + 1]
                        /\ IF phase = "after"
                           THEN Tell(m_callbacks[i + 1]) /\ UNCHANGED <<accumulated, since>>
                           ELSE UNCHANGED told
                        /\ UNCHANGED outOfRange
                /\ UNCHANGED phase
    /\ UNCHANGED <<m_callbacks, m_callback_count, m_have_callbacks, size, packaged, work,
                   nextToken, early, strayed>>

(* The callback returns; one that was told an error is removed, if it has   *)
(* not removed itself.                                                      *)
Return ==
    /\ ~outOfRange /\ calling # NoToken
    /\ calling' = NoToken
    /\ IF phase = "error" /\ calling \in Registered
       THEN Removed(calling)
       ELSE UNCHANGED list
    /\ UNCHANGED <<told, phase, size, packaged, work, nextToken, outOfRange, early, strayed>>

(* did_change has returned: the new state is there, the callbacks follow. *)
Deliver ==
    /\ ~outOfRange /\ phase = "between"
    /\ phase' = "after"
    /\ UNCHANGED <<list, told, calling, size, packaged, work, nextToken, outOfRange, early,
                   strayed>>

-----------------------------------------------------------------------------
Sending == Loop \/ Return \/ Deliver \/ StoreCount

Next ==
    \/ AddCallback \/ \E t \in Token : RemoveCallback(t)
    \/ Commit \/ WakeUp \/ Fail \/ Run
    \/ Notify \/ Advance
    \/ Sending

Spec == Init /\ [][Next]_vars

(* The worker serves its wake-ups, the run loop serves what is posted, and  *)
(* callbacks return.                                                        *)
FairSpec ==
    /\ Spec
    /\ WF_vars(Run \/ Fail)
    /\ SF_vars(Notify)
    /\ WF_vars(Sending)

-----------------------------------------------------------------------------
TypeOK ==
    /\ m_callbacks \in Seq(Token)
    /\ accumulated \in [Token -> SUBSET Change] /\ toDeliver \in [Token -> SUBSET Change]
    /\ initialDelivered \subseteq Token
    /\ m_callback_index \in Int /\ m_callback_index >= npos
    /\ m_callback_count \in Int
    /\ m_have_callbacks \in BOOLEAN /\ nextToken \in 1 .. MaxTokens + 1
    /\ phase \in {"idle", "before", "between", "after", "sizing", "error"}
    /\ calling \in Token \union {NoToken} /\ size \in Nat
    /\ changes \in 0 .. MaxChanges /\ ran \in npos .. changes
    /\ wake \in BOOLEAN /\ posted \in BOOLEAN /\ failed \in BOOLEAN
    /\ outOfRange \in BOOLEAN /\ strayed \in BOOLEAN
    /\ got \in [Token -> SUBSET Change] /\ since \in [Token -> SUBSET Change]
    /\ packaged \subseteq Token /\ early \subseteq Token

Delivering == phase \in {"before", "between", "after", "error"}

(* The flag that the worker reads without the mutex is right, although      *)
(* add_callback sets it only when no iteration is under way: when the last  *)
(* callback goes during an iteration, the index is npos again.              *)
HaveCallbacksIsRight == m_have_callbacks = (m_callbacks # <<>>)

(* While the notifications of a package are sent, the callbacks in front of *)
(* the count are those that were packaged and are still there, so that each *)
(* of them is reached and no other; whoever removes callbacks meanwhile,    *)
(* unless one is removed that was added after the packaging.                *)
CountIsOfPackaged ==
    Delivering /\ ~strayed =>
        /\ m_callback_index < m_callback_count \/ m_callback_index = npos
        /\ m_callback_count \in 0 .. Len(m_callbacks)
        /\ \A i \in DOMAIN m_callbacks : i <= m_callback_count <=> m_callbacks[i] \in packaged

(* No change is lost or told twice: what was brought since a callback was   *)
(* added is waiting, packaged or told, once; as long as no token was        *)
(* dropped during a delivery that it was no part of.                        *)
EachChangeOnce ==
    ~strayed =>
        \A t \in Registered :
            /\ accumulated[t] \union toDeliver[t] \union got[t] = since[t]
            /\ accumulated[t] \intersect toDeliver[t] = {}
            /\ (accumulated[t] \union toDeliver[t]) \intersect got[t] = {}
            /\ phase = "idle" => toDeliver[t] = {}

(* A callback that is added while notifications are sent is not called by   *)
(* the same delivery, with the same exception.                              *)
NewcomersWait ==
    [][calling' # calling /\ calling' # NoToken => calling' \in packaged \/ strayed]_vars

(* A delivery under way comes to the callback: it is packaged, and not      *)
(* behind the index yet.                                                    *)
InFront(t) == \E i \in DOMAIN m_callbacks : m_callbacks[i] = t /\ i > m_callback_index + 1
ComesTo(t) ==
    /\ t \in packaged
    /\ \/ phase \in {"before", "between", "sizing"}
       \/ phase \in {"after", "error"} /\ InFront(t)
       \/ phase = "error" /\ calling = t

(* Nobody is forgotten: changes that wait for a callback have been posted   *)
(* to the target thread, and for a callback that has never been called the  *)
(* worker was woken, or has posted, or a delivery is about to come to it,   *)
(* whoever goes meanwhile.  And the worker does not think that there are no *)
(* callbacks.  The second is about callbacks that were added while nothing  *)
(* was sent (early), and excepts what the strayed token leads to.           *)
NothingIsForgotten ==
    /\ HaveCallbacksIsRight
    /\ \A t \in Registered : accumulated[t] # {} => posted
    /\ ~strayed => \A t \in (Registered \intersect early) \ initialDelivered :
                       wake \/ posted \/ ComesTo(t)

(* A callback that is added while nothing is sent is called, unless it is   *)
(* removed before or the error has gone out to all, or a token was dropped  *)
(* during a delivery that it was no part of.  Of a callback that is added   *)
(* inside a callback this promises nothing: see EveryCallbackIsCalled.      *)
EarlyCallbacksAreCalled ==
    \A t \in Token :
        t \in early ~> t \in initialDelivered \/ t \notin Registered \/ strayed

-----------------------------------------------------------------------------
(* What the comment on m_callback_count says: it is the number of callbacks *)
(* that were there at the packaging and still are.                          *)
CountAsCommented ==
    phase \in {"before", "between", "after"} =>
        m_callback_count = Len(SelectSeq(m_callbacks, LAMBDA t : t \in packaged))

(* What for_each_callback asserts when it begins. *)
CountFitsVector ==
    phase \in {"before", "after", "error"} /\ m_callback_index = npos =>
        m_callback_count \in 0 .. Len(m_callbacks)

(* What the documentation of addNotificationBlock says: the block is called *)
(* with the initial results, whenever it is added.                          *)
EveryCallbackIsCalled ==
    \A t \in Token :
        t \in Registered ~> t \in initialDelivered \/ t \notin Registered \/ strayed
=============================================================================
