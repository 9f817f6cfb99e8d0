------------------------------ MODULE Delivery ------------------------------
(***************************************************************************)
(* What Realm promises to those who read a file and observe it, without    *)
(* notifiers, queries, packages, locks or a worker.  Versions of the file  *)
(* follow each other; each Realm reads one of them, and callbacks observe  *)
(* what it reads.  Coordinator.tla implements it.                          *)
(***************************************************************************)
EXTENDS Integers

CONSTANTS
    Realm,     \* those who read and write
    Observer,  \* the callbacks that there can be
    Owner      \* of each: the Realm whose reading it observes

VARIABLES
    latest,  \* the latest version of the file
    at,      \* of each Realm: the version it reads
    sub      \* of each callback: what it is promised

vars == <<latest, at, sub>>

(* known: the version that the callback knows; arrived: the one that the    *)
(* changes that wait for it lead to; waiting: these changes, each by the    *)
(* version that made it; silent: the versions that it is not to be told.    *)
(* A callback that has not been called is promised nothing.                 *)
None    == 0
Nothing == [known |-> None, arrived |-> None, waiting |-> {}, silent |-> {}]

Init ==
    /\ latest = 1 /\ at = [r \in Realm |-> 1]
    /\ sub = [n \in Observer |-> Nothing]

Promised(n) == sub[n].known # None

(* A Realm that reads the latest version makes the next one, so that no     *)
(* write is lost to another; it may ask that callbacks of its own are not   *)
(* told.                                                                    *)
Silenced(s, v) ==
    [known |-> s.known, arrived |-> s.arrived, waiting |-> s.waiting, silent |-> s.silent \union {v}]
Commit(r) ==
    /\ at[r] = latest
    /\ latest' = latest + 1
    /\ at' = [at EXCEPT ![r] = latest + 1]
    /\ \A n \in Observer :
         \/ sub'[n] \in {sub[n], Nothing}
         \/ Promised(n) /\ Owner[n] = r /\ sub'[n] = Silenced(sub[n], latest + 1)

(* Changes arrive for some callbacks: all from where those that they had    *)
(* before end up to the version v, but for the silent ones.                 *)
Brought(s, v) ==
    [known |-> s.known, arrived |-> v, silent |-> s.silent,
     waiting |-> s.waiting \union ((s.arrived + 1 .. v) \ s.silent)]
Arrive(v) ==
    /\ UNCHANGED <<latest, at>>
    /\ \A n \in Observer :
         \/ sub'[n] \in {sub[n], Nothing}
         \/ Promised(n) /\ sub[n].arrived <= v /\ sub'[n] = Brought(sub[n], v)

(* The callback is called, with what waits for it: it knows the version v,  *)
(* which its Realm reads.  The first time there is nothing to tell.         *)
First(v)     == [known |-> v, arrived |-> v, waiting |-> {}, silent |-> {}]
Called(s, v) == [known |-> v, arrived |-> s.arrived, waiting |-> {}, silent |-> s.silent]
Call(n, v) ==
    \/ ~Promised(n) /\ sub'[n] \in {Nothing, First(v)}
    \/ Promised(n) /\ sub[n].arrived = v /\ sub'[n] = Called(sub[n], v)

(* A Realm goes on to a later version, and every callback that was called   *)
(* before is called with what leads there.  It never goes back.             *)
Advance(r, v) ==
    /\ at[r] < v /\ v <= latest
    /\ at' = [at EXCEPT ![r] = v]
    /\ \A n \in Observer : IF Owner[n] = r THEN Call(n, v) ELSE sub'[n] = sub[n]
    /\ UNCHANGED latest

(* It tells what has arrived for the version that it reads.                 *)
Tell(r) ==
    /\ UNCHANGED <<latest, at>>
    /\ \A n \in Observer : sub'[n] = sub[n] \/ (Owner[n] = r /\ Call(n, at[r]))

(* Callbacks are removed, or nothing more can be promised to them.          *)
Leave ==
    /\ UNCHANGED <<latest, at>>
    /\ \A n \in Observer : sub'[n] \in {sub[n], Nothing}

Next ==
    \/ \E r \in Realm :
         \/ Commit(r) \/ Tell(r)
         \/ \E v \in at[r] + 1 .. latest : Advance(r, v)
    \/ \E v \in 1 .. latest : Arrive(v)
    \/ Leave

Spec == Init /\ [][Next]_vars
=============================================================================
