------------------------------- MODULE VeRun -------------------------------
(* veRun on the master, ve_main.c: it connects the slaves that have windows *)
(* and starts their rendering (veMPRenderRun), connects those that play     *)
(* sound (veMPAudioRun), and then opens the delay gate.  The threads held   *)
(* there read devices; what they deliver is pushed to all slaves as         *)
(* datagrams, without any lock in common with veMPGetSlave.                 *)
EXTENDS VeMPConn, VeDelayGate

CONSTANTS
    Windows,        \* the windows of the environment: [slave, async]
    Channels,       \* the audio channels: their slaves
    Early           \* the delayed threads asked for before veRun is called

ASSUME RunAssumption ==
    /\ Windows \in Seq([slave : Slave, async : BOOLEAN])
    /\ Channels \in Seq(Slave)
    /\ Early \subseteq Delayed

VARIABLES
    pc,             \* where veRun is
    next,           \* the window or channel it has come to
    rendering       \* slaves[] of ve_mp_render.c

runVars == <<pc, next, rendering>>
vars == <<connVars, gateVars, runVars>>

Init ==
    /\ ConnInit /\ GateInit
    /\ pc = "devices" /\ next = 1 /\ rendering = {}

-----------------------------------------------------------------------------
(* veRun.                                                                   *)

Called == call.at \in {"done", "failed"}
Return == call' = NoCall
GetSlaveKeeps == <<inuse, conn, mfast, served, inited, slaveVars, up, flight,
                   mishap, broken>>

\* The devices are made before veRun is called.
Begin ==
    /\ pc = "devices" /\ Early \subseteq asked
    /\ pc' = "windows"
    /\ UNCHANGED <<connVars, gateVars, next, rendering>>

\* The next window's slave, which may be missing if the window is asynchronous,
\* or the next channel's, which always may.
Wanted == IF pc = "windows" THEN Windows ELSE [i \in DOMAIN Channels |->
                                    [slave |-> Channels[i], async |-> TRUE]]

GetSlave ==
    /\ pc \in {"windows", "channels"} /\ next <= Len(Wanted)
    /\ veMPGetSlave(Wanted[next].slave, Wanted[next].async)
    /\ UNCHANGED <<gateVars, runVars>>

\* The message WINDOW follows, which matters only to VeMPRender.
find_slave ==
    /\ pc = "windows" /\ Called
    /\ rendering' = IF At("done") THEN rendering \cup {call.slave} ELSE rendering
    /\ next' = next + 1 /\ Return
    /\ UNCHANGED <<gateVars, pc, down, GetSlaveKeeps>>

SendRun ==
    /\ pc = "windows" /\ next = Len(Windows) + 1
    /\ down' = [s \in Slave |-> IF s \in rendering THEN Append(down[s], "RUN") ELSE down[s]]
    /\ pc' = "rendering" /\ next' = 1
    /\ UNCHANGED <<gateVars, rendering, call, GetSlaveKeeps>>

slaves_are_init_Some == rendering = {} \/ rendering \cap inited # {}
slaves_are_init == rendering \subseteq inited

RenderRuns ==
    /\ pc = "rendering" /\ slaves_are_init
    /\ pc' = "channels"
    /\ UNCHANGED <<connVars, gateVars, next, rendering>>

SendChannel ==
    /\ pc = "channels" /\ Called
    /\ down' = IF At("done") THEN Sent(call.slave, "CHANNEL") ELSE down
    /\ next' = next + 1 /\ Return
    /\ UNCHANGED <<gateVars, pc, rendering, GetSlaveKeeps>>

MayRelease_Early == pc \in {"windows", "rendering", "channels"}
MayRelease == pc = "channels" /\ next = Len(Channels) + 1

Release ==
    /\ MayRelease /\ OpenGate
    /\ UNCHANGED <<connVars, runVars>>

Running ==
    /\ LeaveGate
    /\ pc' = "running"
    /\ UNCHANGED <<connVars, next, rendering>>

veRun ==
    \/ Begin \/ GetSlave \/ find_slave \/ SendRun \/ RenderRuns
    \/ SendChannel \/ Release \/ Running
    \/ FlushQueue /\ UNCHANGED <<connVars, runVars>>
    \/ GetSlaveStep /\ UNCHANGED <<gateVars, runVars>>

-----------------------------------------------------------------------------
(* The other threads.                                                       *)

\* A device is made by the configuration, or later by a running application.
veThreadInitDelayed(t) ==
    /\ t \in Early \/ pc # "devices"
    /\ veThreadInitDelayed_queues(t) \/ veThreadInitDelayed_starts(t)
    /\ UNCHANGED <<connVars, runVars>>

Starting(t) == veThreadInit(t) /\ UNCHANGED <<connVars, runVars>>

Deliver(t, s) ==
    /\ started[t] > 0
    /\ veMPIntPush(s)
    /\ UNCHANGED <<gateVars, runVars>>

MasterRecv(s) == slave_msg_thread(s) /\ UNCHANGED <<gateVars, runVars>>
SlaveRuns(s) == SlaveStep(s) /\ UNCHANGED <<gateVars, runVars>>
Loss(s, d) == Lose(s, d) /\ UNCHANGED <<gateVars, runVars>>

Next ==
    \/ veRun
    \/ \E t \in Delayed : veThreadInitDelayed(t) \/ Starting(t)
    \/ \E t \in Delayed, s \in Slave : Deliver(t, s)
    \/ \E s \in Slave : MasterRecv(s) \/ SlaveRuns(s)
    \/ \E s \in Slave, d \in {"key", "check", "state"} : Loss(s, d)

Spec == Init /\ [][Next]_vars

\* Threads and processes run.  Delivering events, making devices while the
\* program runs and losing datagrams are not owed.
FairSpec ==
    /\ Spec
    /\ WF_vars(veRun)
    /\ \A t \in Delayed : WF_vars(t \in Early /\ veThreadInitDelayed(t)) /\ WF_vars(Starting(t))
    /\ \A s \in Slave : WF_vars(MasterRecv(s)) /\ WF_vars(SlaveRuns(s))

-----------------------------------------------------------------------------
(* Properties.                                                              *)

\* Every delayed thread that was asked for is started, in the end, unless a
\* slave is missing for good: one that has to be there cannot be created, or the
\* hand-shake lost a datagram, which nobody sends again (ve_main.c:580-585).
AllStart ==
    \A t \in Delayed :
        t \in asked ~> started[t] > 0 \/ At("fatal") \/ mishap # {}
=============================================================================
