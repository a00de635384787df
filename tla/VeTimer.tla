------------------------------ MODULE VeTimer ------------------------------
(* Timer procedures: the heap of ve_timer.c, the threads that add to it and *)
(* the timer thread of ve_main.c that sleeps until the root of the heap is  *)
(* due and runs it.  timer_mutex is held from one wait to the next and is   *)
(* not held while a procedure runs.                                         *)
EXTENDS Integers, Sequences

CONSTANTS
    Delays,         \* the delays the application asks for
    BusyLimit,      \* timer_busylimit
    MaxTime,        \* bound: the clock stops here
    MaxAdds,        \* bound: calls of veAddTimerProc
    MaxPending      \* bound: timers in the heap at once

ASSUME TimerAssumption ==
    /\ Delays \subseteq Nat
    /\ BusyLimit \in Nat /\ MaxTime \in Nat
    /\ MaxAdds \in Nat /\ MaxPending \in Nat

VARIABLES
    busywait,       \* the option timer_busywait, set once
    now,            \* veClock
    timerHeap,      \* entries 1 .. theapPtr - 1; id numbers the calls of
                    \* veAddTimerProc (history)
    at,             \* where the timer thread is: "look" (at the loop of
                    \* veTimerWaitForEvents), "asleep", "poll" (busy wait),
                    \* "fire" (at the loop around veTimerProcEvent) or "proc"
    deadline,       \* when its timed wait ends; Never: no time-out
    nAdded,
    fired           \* history: the timers whose procedure has been called

vars == <<busywait, now, timerHeap, at, deadline, nAdded, fired>>

Never == MaxTime + 1

Init ==
    /\ busywait \in BOOLEAN
    /\ now = 0
    /\ timerHeap = <<>>
    /\ at = "look" /\ deadline = Never
    /\ nAdded = 0 /\ fired = {}

-----------------------------------------------------------------------------
(* The heap.                                                                *)

Earlier(h, i, j) == h[i].msecs < h[j].msecs
Swap(h, i, j) == [h EXCEPT ![i] = h[j], ![j] = h[i]]

\* The loop compares the last entry with its parent and does not climb.
upheap(h) ==
    LET i == Len(h)  p == i \div 2
    IN  IF i > 1 /\ Earlier(h, i, p) THEN Swap(h, i, p) ELSE h

insertHeap(h, e) == upheap(Append(h, e))

Least(h, l, r) == IF r <= Len(h) /\ Earlier(h, r, l) THEN r ELSE l

\* The root, on its way down, is swapped with the earlier child c of place i.
Sinks(h, i, c) == 2 * i <= Len(h) /\ c = Least(h, 2 * i, 2 * i + 1) /\ Earlier(h, c, 1)

\* The lengths a way down from the root may have.
Depths(h) == {n \in 1 .. Len(h) : 2 ^ (n - 1) <= Len(h)}

\* The places the root comes by, from the top to where it stays.
SinkPaths(h) ==
    {p \in UNION {[1 .. n -> 1 .. Len(h)] : n \in Depths(h)} :
        /\ p[1] = 1
        /\ \A j, k \in DOMAIN p : j < k => p[j] < p[k]
        /\ \A k \in 1 .. Len(p) - 1 : Sinks(h, p[k], p[k + 1])
        /\ \A c \in 1 .. Len(h) : ~Sinks(h, p[Len(p)], c)}

\* Where the entry that comes to place i was before the root sank along p.
Source(p, i) ==
    IF i = p[Len(p)] THEN 1
    ELSE IF \E k \in 1 .. Len(p) - 1 : p[k] = i
         THEN p[(CHOOSE k \in 1 .. Len(p) - 1 : p[k] = i) + 1]
         ELSE i

\* The heaps that downheap(1) may leave of h: there is one.
downheap(h) == {[i \in 1 .. Len(h) |-> h[Source(p, i)]] : p \in SinkPaths(h)}

LastToRoot(h) == SubSeq([h EXCEPT ![1] = h[Len(h)]], 1, Len(h) - 1)

\* Definitions like the next one, named after the definition below them, are
\* faults to try the properties with.
getNextTimer_Drops(h) == IF Len(h) <= 2 THEN {<<>>} ELSE downheap(LastToRoot(h))

\* The heap without its root: the last entry takes its place and sinks.
getNextTimer(h) == IF Len(h) = 1 THEN {<<>>} ELSE downheap(LastToRoot(h))

-----------------------------------------------------------------------------

peekNextTime == timerHeap[1].msecs
EventsPending == timerHeap # <<>> /\ now >= peekNextTime

Tick ==
    /\ now < MaxTime
    /\ now' = now + 1
    /\ UNCHANGED <<busywait, timerHeap, at, deadline, nAdded, fired>>

veAddTimerProc_Quiet(d) ==
    /\ nAdded < MaxAdds /\ Len(timerHeap) < MaxPending /\ now + d <= MaxTime
    /\ nAdded' = nAdded + 1
    /\ timerHeap' = insertHeap(timerHeap, [msecs |-> now + d, id |-> nAdded + 1])
    /\ UNCHANGED <<busywait, now, at, deadline, fired>>

\* Any thread, also from a timer procedure.
veAddTimerProc(d) ==
    /\ nAdded < MaxAdds /\ Len(timerHeap) < MaxPending /\ now + d <= MaxTime
    /\ nAdded' = nAdded + 1
    /\ timerHeap' = insertHeap(timerHeap, [msecs |-> now + d, id |-> nAdded + 1])
    /\ at' = IF at = "asleep" THEN "look" ELSE at
    /\ UNCHANGED <<busywait, now, deadline, fired>>

GoTo(place) == at' = place /\ UNCHANGED <<busywait, now, timerHeap, nAdded>>

Sleep(until) == GoTo("asleep") /\ deadline' = until /\ UNCHANGED fired

LookDue ==
    /\ at = "look" /\ EventsPending
    /\ GoTo("fire") /\ UNCHANGED <<deadline, fired>>

LookEmpty ==
    /\ at = "look" /\ timerHeap = <<>>
    /\ Sleep(Never)

SoonDue == busywait /\ peekNextTime - now < BusyLimit

\* veThrCondTimedWait takes a duration.
LookAhead ==
    /\ at = "look" /\ timerHeap # <<>> /\ ~EventsPending /\ ~SoonDue
    /\ Sleep(IF busywait THEN now + (peekNextTime - now) \div 2 ELSE peekNextTime)

LookSoon ==
    /\ at = "look" /\ timerHeap # <<>> /\ ~EventsPending /\ SoonDue
    /\ GoTo("poll") /\ UNCHANGED <<deadline, fired>>

PollDue ==
    /\ at = "poll" /\ EventsPending
    /\ GoTo("look") /\ UNCHANGED <<deadline, fired>>

\* The timed wait ends, or the thread wakes for nothing.
TimeOut ==
    /\ at = "asleep" /\ now >= deadline
    /\ GoTo("look") /\ UNCHANGED <<deadline, fired>>

SpuriousWakeup ==
    /\ at = "asleep"
    /\ GoTo("look") /\ UNCHANGED <<deadline, fired>>

veTimerProcEvent ==
    /\ at = "fire" /\ EventsPending
    /\ timerHeap' \in getNextTimer(timerHeap)
    /\ fired' = fired \cup {timerHeap[1].id}
    /\ at' = "proc"
    /\ UNCHANGED <<busywait, now, deadline, nAdded>>

ProcReturns ==
    /\ at = "proc"
    /\ GoTo("fire") /\ UNCHANGED <<deadline, fired>>

NoMoreDue ==
    /\ at = "fire" /\ ~EventsPending
    /\ GoTo("look") /\ UNCHANGED <<deadline, fired>>

TimerThread ==
    \/ LookDue \/ LookEmpty \/ LookAhead \/ LookSoon \/ PollDue \/ TimeOut
    \/ veTimerProcEvent \/ ProcReturns \/ NoMoreDue

Next ==
    \/ Tick \/ (\E d \in Delays : veAddTimerProc(d)) \/ TimerThread
    \/ SpuriousWakeup

Spec == Init /\ [][Next]_vars

\* Time passes and the timer thread runs.
FairSpec == Spec /\ WF_vars(Tick) /\ WF_vars(TimerThread)

-----------------------------------------------------------------------------
(* Properties.                                                              *)

Indices == 1 .. Len(timerHeap)

\* Whatever is swapped in the heap, each timer added is pending once or has
\* been fired, never both: none is dropped, doubled or fired again.
EachOnce ==
    /\ \A i, j \in Indices : timerHeap[i].id = timerHeap[j].id => i = j
    /\ \A n \in 1 .. nAdded : n \in fired <=> ~\E i \in Indices : timerHeap[i].id = n

Fires(i) == timerHeap[i].id \in fired' \ fired

\* The timer that fires is the earliest one pending: the heap hands them out in
\* the order of their times.
EarliestFirst ==
    [][\A i, j \in Indices : Fires(i) => timerHeap[i].msecs <= timerHeap[j].msecs]_vars

\* The timer thread never sleeps past the time of the root of the heap, also
\* when the root changes while it sleeps.
NoOversleep == at = "asleep" /\ timerHeap # <<>> => deadline <= peekNextTime

\* Every timer added is fired.
AllFire == \A n \in 1 .. MaxAdds : (nAdded >= n) ~> (n \in fired)
=============================================================================
