---------------------------- MODULE VeDelayGate ----------------------------
(* The delay gate, ve_thread.c.  Device drivers ask for their threads when  *)
(* the devices are made, but until the gate is opened such a thread is only *)
(* queued: veRun opens it when the slaves have been set up.  Whoever opens  *)
(* it keeps gate_mutex until the queue is empty.                            *)
EXTENDS Naturals, Sequences, SequencesExt

CONSTANT Delayed        \* the threads that are asked for with veThreadInitDelayed

VARIABLES
    gate_opened,
    thread_queue,
    releasing,          \* veThrReleaseDelayed holds gate_mutex
    asked,              \* history: the threads that have been asked for
    starting,           \* those for which the call has found the gate open and is
                        \* about to start them
    started             \* history: how often each thread was started

gateVars == <<gate_opened, thread_queue, releasing, asked, starting, started>>

GateInit ==
    /\ gate_opened = FALSE /\ thread_queue = <<>> /\ releasing = FALSE
    /\ asked = {} /\ starting = {}
    /\ started = [t \in Delayed |-> 0]

-----------------------------------------------------------------------------
veThreadInitDelayed_queues(t) ==
    /\ ~releasing /\ ~gate_opened
    /\ t \notin asked /\ asked' = asked \cup {t}
    /\ thread_queue' = <<t>> \o thread_queue
    /\ UNCHANGED <<gate_opened, releasing, starting, started>>

veThreadInitDelayed_starts(t) ==
    /\ ~releasing /\ gate_opened
    /\ t \notin asked /\ asked' = asked \cup {t}
    /\ starting' = starting \cup {t}
    /\ UNCHANGED <<gate_opened, thread_queue, releasing, started>>

\* The call has let go of the mutex.
veThreadInit(t) ==
    /\ t \in starting /\ starting' = starting \ {t}
    /\ started' = [started EXCEPT ![t] = @ + 1]
    /\ UNCHANGED <<gate_opened, thread_queue, releasing, asked>>

Opened_Later == gate_opened
Opened == TRUE

OpenGate ==
    /\ ~releasing /\ ~gate_opened
    /\ releasing' = TRUE /\ gate_opened' = Opened
    /\ UNCHANGED <<thread_queue, asked, starting, started>>

Rest_Kept == thread_queue
Rest == Tail(thread_queue)

FlushQueue ==
    /\ releasing /\ thread_queue # <<>>
    /\ started' = [started EXCEPT ![Head(thread_queue)] = @ + 1]
    /\ thread_queue' = Rest
    /\ UNCHANGED <<gate_opened, releasing, asked, starting>>

LeaveGate ==
    /\ releasing /\ thread_queue = <<>>
    /\ releasing' = FALSE
    /\ UNCHANGED <<gate_opened, thread_queue, asked, starting, started>>

GateNext ==
    \/ \E t \in Delayed : \/ veThreadInitDelayed_queues(t)
                          \/ veThreadInitDelayed_starts(t)
                          \/ veThreadInit(t)
    \/ OpenGate \/ FlushQueue \/ LeaveGate

GateSpec == GateInit /\ [][GateNext]_gateVars

-----------------------------------------------------------------------------
(* Properties.                                                              *)

GateTypeOK ==
    /\ gate_opened \in BOOLEAN /\ releasing \in BOOLEAN
    /\ thread_queue \in Seq(Delayed)
    /\ asked \subseteq Delayed /\ starting \subseteq Delayed
    /\ started \in [Delayed -> Nat]

\* A thread that was asked for is either waiting at the gate, or about to be
\* started, or has been started, whether it came before the gate was opened,
\* while the queue is being emptied or after: it is in one place only, and is
\* never started twice, or forgotten (ve_thread.c:39-75).
StartedOnce ==
    /\ IsInjective(thread_queue)
    /\ \A t \in Delayed :
        LET queued == t \in ToSet(thread_queue)
        IN  started[t] + (IF queued THEN 1 ELSE 0)
                       + (IF t \in starting THEN 1 ELSE 0)
              = (IF t \in asked THEN 1 ELSE 0)
=============================================================================
