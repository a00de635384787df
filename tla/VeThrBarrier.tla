---------------------------- MODULE VeThrBarrier ----------------------------
(* The barrier of ve_thread_posix.c: a mutex, a count and two condition     *)
(* variables, "entry" (wait for the previous round to drain) and "reached"  *)
(* (wait for this round to fill).  The mutex is held from one wait to the   *)
(* next, so each action is what a thread does between taking the mutex and  *)
(* giving it up.  ve_mp_render.c creates every barrier for exactly the      *)
(* threads that use it.                                                     *)
EXTENDS Naturals, FiniteSets

CONSTANTS
    Party,          \* a slave's render threads and its message thread
    MaxRounds       \* bound: the calls each of them makes

ASSUME PartyAssumption ==
    /\ IsFiniteSet(Party) /\ Party # {}
    /\ MaxRounds \in Nat

VARIABLES
    count,          \* threads that have entered and not left
    exiting,        \* the round is full and is draining
    place,          \* where each thread is: "out" of the barrier, "call" (wants
                    \* the mutex to check exiting), asleep on "entry" or
                    \* "reached", or "woken" from reached
    passed          \* history: calls that have returned

barrierVars == <<count, exiting, place, passed>>

max == Cardinality(Party)       \* veThrBarrierCreate(nthrs + 1)

BarrierInit ==
    /\ count = 0
    /\ exiting = FALSE
    /\ place = [t \in Party |-> "out"]
    /\ passed = [t \in Party |-> 0]

\* Every thread asleep on a condition wakes.
Broadcast(where, from, to) ==
    [t \in Party |-> IF where[t] = from THEN to ELSE where[t]]

Call(t) ==
    /\ place[t] = "out" /\ passed[t] < MaxRounds
    /\ place' = [place EXCEPT ![t] = "call"]
    /\ UNCHANGED <<count, exiting, passed>>

WaitEntry(t) ==
    /\ place[t] = "call" /\ exiting
    /\ place' = [place EXCEPT ![t] = "entry"]
    /\ UNCHANGED <<count, exiting, passed>>

\* As in VeMPRender, a definition named after the one below it is a fault to
\* try the properties with.
Full_OneEarly == count + 2 >= max

\* This thread completes the round.
Full == count + 1 >= max

WaitReached(t) ==
    /\ place[t] = "call" /\ ~exiting /\ ~Full
    /\ count' = count + 1
    /\ place' = [place EXCEPT ![t] = "reached"]
    /\ UNCHANGED <<exiting, passed>>

\* Leaving with n threads still in the barrier; the last one reopens it.
Leave_Silent(t, n, where) ==
    /\ count' = n
    /\ exiting' = (n > 0)
    /\ place' = [where EXCEPT ![t] = "out"]
    /\ passed' = [passed EXCEPT ![t] = @ + 1]

Leave(t, n, where) ==
    /\ count' = n
    /\ exiting' = (n > 0)
    /\ place' = [IF n > 0 THEN where ELSE Broadcast(where, "entry", "call")
                EXCEPT ![t] = "out"]
    /\ passed' = [passed EXCEPT ![t] = @ + 1]

\* The last thread opens the barrier and leaves without waiting.
Fill(t) ==
    /\ place[t] = "call" /\ ~exiting /\ Full
    /\ Leave(t, count, Broadcast(place, "reached", "woken"))

Return(t) ==
    /\ place[t] = "woken" /\ exiting
    /\ Leave(t, count - 1, place)

SleepAgain(t) ==
    /\ place[t] = "woken" /\ ~exiting
    /\ place' = [place EXCEPT ![t] = "reached"]
    /\ UNCHANGED <<count, exiting, passed>>

\* pthread_cond_wait may return although nobody signalled.
SpuriousWakeup(t) ==
    /\ place[t] \in {"entry", "reached"}
    /\ place' = [place EXCEPT ![t] = IF @ = "entry" THEN "call" ELSE "woken"]
    /\ UNCHANGED <<count, exiting, passed>>

\* The threads may all stop calling.
Finished ==
    /\ \A t \in Party : place[t] = "out" /\ passed[t] = MaxRounds
    /\ UNCHANGED barrierVars

\* What a thread does on its own once it is in a call.
Step(t) == WaitEntry(t) \/ WaitReached(t) \/ Fill(t) \/ Return(t) \/ SleepAgain(t)

BarrierNext ==
    \/ \E t \in Party : Call(t) \/ Step(t) \/ SpuriousWakeup(t)
    \/ Finished

BarrierSpec == BarrierInit /\ [][BarrierNext]_barrierVars

\* A runnable thread gets the mutex in the end.  Calling the barrier and
\* waking for nothing are not owed.
BarrierFairSpec == BarrierSpec /\ \A t \in Party : WF_barrierVars(Step(t))

-----------------------------------------------------------------------------

BarrierTypeOK ==
    /\ count \in 0 .. max - 1
    /\ exiting \in BOOLEAN
    /\ place \in [Party -> {"out", "call", "entry", "reached", "woken"}]
    /\ passed \in [Party -> Nat]

\* No thread sleeps through its wake-up: asleep on entry the round is still
\* draining, asleep on reached it is still filling.
NoSleeperForgotten ==
    \A t \in Party : (place[t] = "entry" => exiting) /\ (place[t] = "reached" => ~exiting)

\* veThrBarrierEnter implements the barrier: nobody's n-th call returns before
\* everybody has made the n-th call, also when a quick thread is back for the
\* next round while slow ones have not left this one.
Rounds == INSTANCE BarrierRounds WITH inside <- {t \in Party : place[t] # "out"}
RoundsSpec == Rounds!Spec

\* Once every thread has made its n-th call, every n-th call returns.
EveryoneReturns ==
    \A t \in Party :
        (place[t] # "out" /\ \A u \in Party : Rounds!HasJoined(t, u)) ~> (place[t] = "out")
=============================================================================
