----------------------------- MODULE VeMPRender -----------------------------
(* The frame protocol of ve_mp_render.c.  A master (veMPRenderFrame) drives *)
(* slaves through RENDER n / SWAP n over VE_MP_FAST datagrams, which may be *)
(* lost, duplicated and reordered, and repeats what is not acknowledged     *)
(* every UPD_INTERVAL.  Start-up and shutdown use the VE_MP_RELIABLE        *)
(* stream.  In a slave the message thread leads the render threads through  *)
(* four barriers; a barrier is taken as one joint step here (VeThrBarrier   *)
(* shows that veThrBarrierEnter provides that).                             *)
EXTENDS Integers, Sequences

CONSTANTS
    Slave,      \* rows of the master's slaves[] table, one per render slave
    Async,      \* the rows whose async field is set
    Thread,     \* the render threads of a slave, each with its windows
    MpId,       \* MpId[s]: the row whose index equals slave s's MP id
    NoRow,      \* the value of MpId[s] when that index is past the table
    LongMax,    \* largest value of a C long
    Lossy,      \* the slaves whose datagrams may vanish from the network; the
                \* others' may still stay unreceived, or come in any order
    MaxFrame    \* bound: the model starts no frame after this one

Sync == Slave \ Async

ASSUME TopologyAssumption ==
    /\ Async \subseteq Slave
    /\ NoRow \notin Slave
    /\ MpId \in [Slave -> Slave \cup {NoRow}]
    /\ \A s, r \in Slave : MpId[s] = MpId[r] /\ MpId[s] # NoRow => s = r

ASSUME FrameAssumption ==
    /\ LongMax \in Nat /\ MaxFrame \in Nat
    /\ Lossy \subseteq Slave

VARIABLES
    pc,                     \* where the master's rendering thread is
    slave_ready_frame,      \* the state the master wants every slave in
    slave_ready_swapped,
    seen_active,            \* slaves[].active_frame and .swapped: the state
    seen_swapped,           \* of each slave as reported to the master
    inited, stopped,        \* the rows whose init, stopped flag is set
    exiting                 \* veExit: "no", "wait" for slaves, or "exited"

VARIABLES
    active_frame, swapped,  \* the state of each slave (VeRenderSlave)
    life,                   \* "new", "opened" (has windows), "running" (has
                            \* render threads) or "closed"
    at,                     \* where its message thread is
    handling,               \* the frame of the message it is handling
    thr,                    \* where its render threads are
    back, front             \* history: the frame a thread's windows hold in
                            \* the back buffer and on the screen

VARIABLES
    relTo, relFrom,         \* VE_MP_RELIABLE streams to and from each slave
    fastTo, fastFrom        \* VE_MP_FAST datagrams in flight

seenVars   == <<seen_active, seen_swapped, inited, stopped>>
masterVars == <<pc, slave_ready_frame, slave_ready_swapped, seenVars, exiting>>
slaveVars  == <<active_frame, swapped, life, at, handling>>
threadVars == <<thr, back, front>>
relVars    == <<relTo, relFrom>>
fastVars   == <<fastTo, fastFrom>>
vars       == <<masterVars, slaveVars, threadVars, relVars, fastVars>>

-----------------------------------------------------------------------------
(* Messages, and the order of the states they ask for.                      *)

Message(tag, f) == [tag |-> tag, frame |-> f]
Datagram == [tag : {"RENDER", "SWAP"}, frame : Nat]

WINDOW == Message("WINDOW", 0)
RUN    == Message("RUN", 0)
EXIT   == Message("EXIT", 0)

InitialActive == 65535      \* 0xffff, active_frame of a new record

\* Frame n swapped comes after frame n rendered, before frame n + 1.
State(s) == 2 * active_frame[s] + swapped[s]
Seen(k)  == 2 * seen_active[k] + seen_swapped[k]
Level(m) == 2 * m.frame + (IF m.tag = "SWAP" THEN 1 ELSE 0)
Target   == 2 * slave_ready_frame + slave_ready_swapped

-----------------------------------------------------------------------------
(* A fresh master has connected to its slaves (find_slave); every slave     *)
(* process has its static state.                                            *)
Init ==
    /\ pc = "start"
    /\ slave_ready_frame = 0
    /\ slave_ready_swapped = 1
    /\ seen_active = [k \in Slave |-> InitialActive]
    /\ seen_swapped = [k \in Slave |-> 1]
    /\ inited = {} /\ stopped = {}
    /\ exiting = "no"
    /\ active_frame = [s \in Slave |-> 0]
    /\ swapped = [s \in Slave |-> 0]
    /\ life = [s \in Slave |-> "new"]
    /\ at = [s \in Slave |-> "idle"]
    /\ handling = [s \in Slave |-> 0]
    /\ thr = [s \in Slave |-> [t \in Thread |-> "none"]]
    /\ back = [s \in Slave |-> [t \in Thread |-> 0]]
    /\ front = [s \in Slave |-> [t \in Thread |-> 0]]
    /\ relTo = [s \in Slave |-> <<>>]
    /\ relFrom = [s \in Slave |-> <<>>]
    /\ fastTo = [s \in Slave |-> {}]
    /\ fastFrom = [s \in Slave |-> {}]

-----------------------------------------------------------------------------
(* Master: start-up and frames.  Each action runs from one release of       *)
(* slaves_mutex to the next.                                                *)

\* Definitions like the next one, named after the definition below them, are
\* faults: the variant a slip in the code would give.  Nothing uses them; they
\* stand here to try whether the properties notice.
slave_is_ready_FrameOnly(k) == k \in Async \/ seen_active[k] = slave_ready_frame

slave_is_ready(k) ==
    \/ k \in Async
    \/ /\ seen_active[k] = slave_ready_frame
       /\ seen_swapped[k] = slave_ready_swapped

slaves_are_ready_Any == \E k \in Slave : slave_is_ready(k)

slaves_are_ready == \A k \in Slave : slave_is_ready(k)

\* slaves_send_msg on the fast channel: every row, by its mpid.
SendAll(m) == fastTo' = [s \in Slave |-> fastTo[s] \cup {m}]

PokeUnready_Never(m) == UNCHANGED fastTo

\* The re-send loop passes the row index where veMPSendMsg wants an MP id.
PokeUnready(m) ==
    fastTo' = [s \in Slave |->
                 IF MpId[s] \in Slave /\ ~slave_is_ready(MpId[s])
                 THEN fastTo[s] \cup {m} ELSE fastTo[s]]

veMPRenderRun ==
    /\ pc = "start"
    /\ pc' = "init"
    /\ relTo' = [s \in Slave |-> relTo[s] \o <<WINDOW, RUN>>]
    /\ UNCHANGED <<slave_ready_frame, slave_ready_swapped, seenVars, exiting,
                   slaveVars, threadVars, relFrom, fastVars>>

SlavesInit ==
    /\ pc = "init"
    /\ inited = Slave
    /\ pc' = "idle"
    /\ UNCHANGED <<slave_ready_frame, slave_ready_swapped, seenVars, exiting,
                   slaveVars, threadVars, relVars, fastVars>>

\* The next frame's number: the only caller passes -1.
NextFrame == IF slave_ready_frame < LongMax THEN slave_ready_frame + 1 ELSE 0

BeginFrame ==
    /\ pc = "idle" /\ exiting # "exited"
    /\ slave_ready_frame < MaxFrame
    /\ pc' = "render"
    /\ slave_ready_frame' = NextFrame
    /\ slave_ready_swapped' = 0
    /\ SendAll(Message("RENDER", NextFrame))
    /\ UNCHANGED <<seenVars, exiting, slaveVars, threadVars, relVars, fastFrom>>

PokeRender ==
    /\ pc = "render" /\ exiting # "exited"
    /\ ~slaves_are_ready
    /\ PokeUnready(Message("RENDER", slave_ready_frame))
    /\ UNCHANGED <<masterVars, slaveVars, threadVars, relVars, fastFrom>>

BeginSwap ==
    /\ pc = "render" /\ exiting # "exited"
    /\ slaves_are_ready
    /\ pc' = "swap"
    /\ slave_ready_swapped' = 1
    /\ SendAll(Message("SWAP", slave_ready_frame))
    /\ UNCHANGED <<slave_ready_frame, seenVars, exiting, slaveVars, threadVars,
                   relVars, fastFrom>>

PokeSwap ==
    /\ pc = "swap" /\ exiting # "exited"
    /\ ~slaves_are_ready
    /\ PokeUnready(Message("SWAP", slave_ready_frame))
    /\ UNCHANGED <<masterVars, slaveVars, threadVars, relVars, fastFrom>>

EndFrame ==
    /\ pc = "swap" /\ exiting # "exited"
    /\ slaves_are_ready
    /\ pc' = "idle"
    /\ UNCHANGED <<slave_ready_frame, slave_ready_swapped, seenVars, exiting,
                   slaveVars, threadVars, relVars, fastVars>>

\* Any thread of the master may call exit, also in the middle of a frame.
veMPRenderExit ==
    /\ pc \in {"idle", "render", "swap"}
    /\ exiting = "no"
    /\ exiting' = "wait"
    /\ relTo' = [s \in Slave |-> Append(relTo[s], EXIT)]
    /\ UNCHANGED <<pc, slave_ready_frame, slave_ready_swapped, seenVars,
                   slaveVars, threadVars, relFrom, fastVars>>

SlavesStopped ==
    /\ exiting = "wait"
    /\ stopped = Slave
    /\ exiting' = "exited"
    /\ UNCHANGED <<pc, slave_ready_frame, slave_ready_swapped, seenVars,
                   slaveVars, threadVars, relVars, fastVars>>

-----------------------------------------------------------------------------
(* Master: master_render_cback updates the row with the MP id it is given.  *)

NewerRender(k, p) == p.tag = "RENDER" /\ (p.frame > seen_active[k] \/ p.frame = 0)

NewerSwap(k, p) ==
    /\ p.tag = "SWAP"
    /\ \/ p.frame > seen_active[k] \/ p.frame = 0
       \/ p.frame = seen_active[k] /\ seen_swapped[k] = 0

Newer(k, p) == NewerRender(k, p) \/ NewerSwap(k, p)

master_render_cback(row, p) ==
    /\ exiting # "exited"
    /\ stopped' = IF p.tag = "EXIT" THEN stopped \cup ({row} \cap Slave) ELSE stopped
    /\ inited' = IF p.tag = "RUN" THEN inited \cup ({row} \cap Slave) ELSE inited
    /\ IF row \in Slave /\ Newer(row, p)
       THEN /\ seen_active' = [seen_active EXCEPT ![row] = p.frame]
            /\ seen_swapped' = [seen_swapped EXCEPT
                                  ![row] = IF p.tag = "SWAP" THEN 1 ELSE 0]
       ELSE UNCHANGED <<seen_active, seen_swapped>>
    /\ UNCHANGED <<pc, slave_ready_frame, slave_ready_swapped, exiting,
                   slaveVars, threadVars, relTo, fastVars>>

MasterRecvReliable(s) ==
    /\ relFrom[s] # <<>>
    /\ relFrom' = [relFrom EXCEPT ![s] = Tail(@)]
    /\ master_render_cback(MpId[s], Head(relFrom[s]))

\* The datagram stays in flight: it may arrive again, or be lost (Lose).
MasterRecvFast(s, p) ==
    /\ p \in fastFrom[s]
    /\ UNCHANGED relFrom
    /\ master_render_cback(MpId[s], p)

-----------------------------------------------------------------------------
(* Slave: slave_render_cback, run by the message thread when it is not      *)
(* inside a barrier.                                                        *)

HasThreads(s) == life[s] \in {"running", "closed"}

Listening(s) == at[s] = "idle" /\ life[s] # "closed"

HeadIs(s, m) ==
    /\ Listening(s)
    /\ relTo[s] # <<>> /\ Head(relTo[s]) = m
    /\ relTo' = [relTo EXCEPT ![s] = Tail(@)]

SlaveWindow(s) ==
    /\ HeadIs(s, WINDOW)
    /\ life' = [life EXCEPT ![s] = IF @ = "new" THEN "opened" ELSE @]
    /\ UNCHANGED <<masterVars, active_frame, swapped, at, handling, threadVars,
                   relFrom, fastVars>>

SlaveRun(s) ==
    /\ HeadIs(s, RUN)
    /\ life[s] # "new"
    /\ life' = [life EXCEPT ![s] = "running"]
    /\ swapped' = [swapped EXCEPT ![s] = 1]
    /\ thr' = [thr EXCEPT ![s] = [t \in Thread |-> "start"]]
    /\ at' = [at EXCEPT ![s] = "start"]
    /\ UNCHANGED <<masterVars, active_frame, handling, back, front, relFrom,
                   fastVars>>

SlaveExit_Silent(s) ==
    /\ HeadIs(s, EXIT)
    /\ life' = [life EXCEPT ![s] = "closed"]
    /\ UNCHANGED <<masterVars, active_frame, swapped, at, handling, threadVars,
                   relFrom, fastVars>>

SlaveExit(s) ==
    /\ HeadIs(s, EXIT)
    /\ life' = [life EXCEPT ![s] = "closed"]
    /\ relFrom' = [relFrom EXCEPT ![s] = Append(@, EXIT)]
    /\ UNCHANGED <<masterVars, active_frame, swapped, at, handling, threadVars,
                   fastVars>>

Reply(s, m) ==
    /\ fastFrom' = [fastFrom EXCEPT ![s] = @ \cup {m}]
    /\ UNCHANGED <<relVars, fastTo>>

LaterFrame(s, f) ==
    \/ f = 0 /\ active_frame[s] # 0
    \/ f > active_frame[s]

LaterSwap(s, f) ==
    \/ LaterFrame(s, f)
    \/ f = active_frame[s] /\ swapped[s] = 0

\* RENDER of a later frame: first finish a swap that was never asked for.
SlaveRender(s, m) ==
    /\ Listening(s) /\ m.tag = "RENDER"
    /\ LaterFrame(s, m.frame)
    /\ at' = [at EXCEPT ![s] = IF swapped[s] = 0 THEN "unswapped" ELSE "entry"]
    /\ handling' = [handling EXCEPT ![s] = m.frame]
    /\ UNCHANGED <<masterVars, active_frame, swapped, life, threadVars, relVars,
                   fastVars>>

SlaveRenderAgain(s, m) ==
    /\ Listening(s) /\ m.tag = "RENDER"
    /\ ~LaterFrame(s, m.frame)
    /\ Reply(s, m)
    /\ UNCHANGED <<masterVars, slaveVars, threadVars>>

\* SWAP of the frame just rendered: go to the swap barrier.
SlaveSwap(s, m) ==
    /\ Listening(s) /\ m.tag = "SWAP"
    /\ LaterSwap(s, m.frame) /\ swapped[s] = 0
    /\ at' = [at EXCEPT ![s] = "swap"]
    /\ handling' = [handling EXCEPT ![s] = m.frame]
    /\ UNCHANGED <<masterVars, active_frame, swapped, life, threadVars, relVars,
                   fastVars>>

\* SWAP of a frame never rendered here: note it, there is nothing to show.
SlaveSwapUnrendered(s, m) ==
    /\ Listening(s) /\ m.tag = "SWAP"
    /\ LaterSwap(s, m.frame) /\ swapped[s] = 1
    /\ active_frame' = [active_frame EXCEPT ![s] = m.frame]
    /\ Reply(s, m)
    /\ UNCHANGED <<masterVars, swapped, life, at, handling, threadVars>>

SlaveSwapAgain(s, m) ==
    /\ Listening(s) /\ m.tag = "SWAP"
    /\ ~LaterSwap(s, m.frame)
    /\ Reply(s, m)
    /\ UNCHANGED <<masterVars, slaveVars, threadVars>>

-----------------------------------------------------------------------------
(* Slave: the barriers.  The message thread and all render threads pass     *)
(* together; what the message thread does next without waiting is part of   *)
(* the step.                                                                *)

AllAt(s, b) == \A t \in Thread : thr[s][t] = b
Move(s, b)  == thr' = [thr EXCEPT ![s] = [t \in Thread |-> b]]

PassStart(s) ==
    /\ at[s] = "start" /\ AllAt(s, "start")
    /\ Move(s, "entry")
    /\ at' = [at EXCEPT ![s] = "idle"]
    /\ relFrom' = [relFrom EXCEPT ![s] = @ \o <<Message("SWAP", 0), RUN>>]
    /\ UNCHANGED <<masterVars, active_frame, swapped, life, handling, back, front,
                   relTo, fastVars>>

PassUnswapped(s) ==
    /\ at[s] = "unswapped" /\ AllAt(s, "swap")
    /\ Move(s, "flip")
    /\ at' = [at EXCEPT ![s] = "entry"]
    /\ UNCHANGED <<masterVars, active_frame, swapped, life, handling, back, front,
                   relVars, fastVars>>

PassEntry_NoWait(s) ==
    /\ at[s] = "entry" /\ AllAt(s, "entry")
    /\ Move(s, "draw")
    /\ at' = [at EXCEPT ![s] = "idle"]
    /\ UNCHANGED <<masterVars, active_frame, swapped, life, handling, back, front,
                   relVars, fastVars>>

PassEntry(s) ==
    /\ at[s] = "entry" /\ AllAt(s, "entry")
    /\ Move(s, "draw")
    /\ at' = [at EXCEPT ![s] = "exit"]
    /\ UNCHANGED <<masterVars, active_frame, swapped, life, handling, back, front,
                   relVars, fastVars>>

PassExit_KeepsSwapped(s) ==
    /\ at[s] = "exit" /\ AllAt(s, "exit")
    /\ Move(s, "swap")
    /\ at' = [at EXCEPT ![s] = "idle"]
    /\ active_frame' = [active_frame EXCEPT ![s] = handling[s]]
    /\ Reply(s, Message("RENDER", handling[s]))
    /\ UNCHANGED <<masterVars, swapped, life, handling, back, front>>

PassExit(s) ==
    /\ at[s] = "exit" /\ AllAt(s, "exit")
    /\ Move(s, "swap")
    /\ at' = [at EXCEPT ![s] = "idle"]
    /\ active_frame' = [active_frame EXCEPT ![s] = handling[s]]
    /\ swapped' = [swapped EXCEPT ![s] = 0]
    /\ Reply(s, Message("RENDER", handling[s]))
    /\ UNCHANGED <<masterVars, life, handling, back, front>>

PassSwap(s) ==
    /\ at[s] = "swap" /\ AllAt(s, "swap")
    /\ Move(s, "flip")
    /\ at' = [at EXCEPT ![s] = "idle"]
    /\ active_frame' = [active_frame EXCEPT ![s] = handling[s]]
    /\ swapped' = [swapped EXCEPT ![s] = 1]
    /\ Reply(s, Message("SWAP", handling[s]))
    /\ UNCHANGED <<masterVars, life, handling, back, front>>

(* Slave: render_thread between the barriers.                               *)

RenderWindows(s, t) ==
    /\ thr[s][t] = "draw"
    /\ thr' = [thr EXCEPT ![s][t] = "exit"]
    /\ back' = [back EXCEPT ![s][t] = handling[s]]
    /\ UNCHANGED <<masterVars, slaveVars, front, relVars, fastVars>>

SwapWindows(s, t) ==
    /\ thr[s][t] = "flip"
    /\ thr' = [thr EXCEPT ![s][t] = "entry"]
    /\ front' = [front EXCEPT ![s][t] = back[s][t]]
    /\ UNCHANGED <<masterVars, slaveVars, back, relVars, fastVars>>

-----------------------------------------------------------------------------
(* The network, and the whole system.                                       *)

LoseTo(s, m) ==
    /\ m \in fastTo[s]
    /\ fastTo' = [fastTo EXCEPT ![s] = @ \ {m}]
    /\ UNCHANGED <<masterVars, slaveVars, threadVars, relVars, fastFrom>>

LoseFrom(s, m) ==
    /\ m \in fastFrom[s]
    /\ fastFrom' = [fastFrom EXCEPT ![s] = @ \ {m}]
    /\ UNCHANGED <<masterVars, slaveVars, threadVars, relVars, fastTo>>

\* After exit(0) nothing happens in the master; the run may end there.
Terminated == exiting = "exited" /\ UNCHANGED vars

MasterNext ==
    \/ veMPRenderRun \/ SlavesInit
    \/ BeginFrame
    \/ PokeRender \/ BeginSwap \/ PokeSwap \/ EndFrame
    \/ veMPRenderExit \/ SlavesStopped
    \/ \E s \in Slave : MasterRecvReliable(s)
    \/ \E s \in Slave : \E p \in fastFrom[s] : MasterRecvFast(s, p)

SlaveRecvFast(s, m) ==
    \/ SlaveRender(s, m) \/ SlaveRenderAgain(s, m)
    \/ SlaveSwap(s, m) \/ SlaveSwapUnrendered(s, m) \/ SlaveSwapAgain(s, m)

SlaveNext(s) ==
    \/ SlaveWindow(s) \/ SlaveRun(s) \/ SlaveExit(s)
    \/ \E m \in fastTo[s] : SlaveRecvFast(s, m)
    \/ PassStart(s) \/ PassUnswapped(s) \/ PassEntry(s) \/ PassExit(s)
    \/ PassSwap(s)
    \/ \E t \in Thread : RenderWindows(s, t) \/ SwapWindows(s, t)

Loss ==
    \E s \in Lossy :
        \/ \E m \in fastTo[s] : LoseTo(s, m)
        \/ \E m \in fastFrom[s] : LoseFrom(s, m)

Next == MasterNext \/ (\E s \in Slave : SlaveNext(s)) \/ Loss \/ Terminated

Spec == Init /\ [][Next]_vars

(* Fairness.  Every thread is scheduled; the datagram the master repeats, and
   its answer, get through when sent again and again (veMPImplRecv takes turns
   between the two channels, so neither starves the other);
   veThrCondTimedWait ends after UPD_INTERVAL, so an unready slave is poked
   for ever.  Starting a frame, calling exit and losing a datagram are never
   owed.                                                                    *)
MasterFairness ==
    /\ WF_vars(veMPRenderRun \/ SlavesInit \/ BeginSwap \/ EndFrame)
    /\ WF_vars(SlavesStopped)
    /\ WF_vars(PokeRender \/ PokeSwap)

ReceiveWanted(s) == \E m \in fastTo[s] : Level(m) = Target /\ SlaveRecvFast(s, m)
AnswerWanted(s) == \E p \in fastFrom[s] : Level(p) = Target /\ MasterRecvFast(s, p)

ReceiveFairness ==
    \A s \in Slave :
        /\ WF_vars(MasterRecvReliable(s))
        /\ SF_vars(AnswerWanted(s))
        /\ SF_vars(ReceiveWanted(s))

SlaveFairness ==
    \A s \in Slave :
        /\ SF_vars(SlaveWindow(s) \/ SlaveRun(s) \/ SlaveExit(s))
        /\ WF_vars(PassStart(s) \/ PassUnswapped(s) \/ PassEntry(s)
                     \/ PassExit(s) \/ PassSwap(s))
        /\ \A t \in Thread : WF_vars(RenderWindows(s, t) \/ SwapWindows(s, t))

FairSpec == Spec /\ MasterFairness /\ ReceiveFairness /\ SlaveFairness

-----------------------------------------------------------------------------
(* Properties.                                                              *)

\* Every variable keeps its type.
TypeOK ==
    /\ pc \in {"start", "init", "idle", "render", "swap"}
    /\ slave_ready_frame \in Nat
    /\ slave_ready_swapped \in {0, 1}
    /\ seen_active \in [Slave -> Nat]
    /\ seen_swapped \in [Slave -> {0, 1}]
    /\ inited \subseteq Slave /\ stopped \subseteq Slave
    /\ exiting \in {"no", "wait", "exited"}
    /\ active_frame \in [Slave -> Nat]
    /\ swapped \in [Slave -> {0, 1}]
    /\ life \in [Slave -> {"new", "opened", "running", "closed"}]
    /\ at \in [Slave -> {"idle", "start", "unswapped", "entry", "exit", "swap"}]
    /\ handling \in [Slave -> Nat]
    /\ thr \in [Slave -> [Thread -> {"none", "start", "entry", "draw", "exit",
                                     "swap", "flip"}]]
    /\ back \in [Slave -> [Thread -> Nat]]
    /\ front \in [Slave -> [Thread -> Nat]]
    /\ relTo \in [Slave -> Seq({WINDOW, RUN, EXIT})]
    /\ relFrom \in [Slave -> Seq({Message("SWAP", 0), RUN, EXIT})]
    /\ fastTo \in [Slave -> SUBSET Datagram]
    /\ fastFrom \in [Slave -> SUBSET Datagram]

\* Frame lock: no window of a synchronous slave shows a frame before every
\* window of every synchronous slave has drawn it, whatever is lost or
\* delivered twice or late.
ShownOnlyWhenAllDrawn ==
    \A s, r \in Sync : \A t, u \in Thread : front[s][t] <= back[r][u]

\* The master sends SWAP only when every window of every synchronous slave has
\* drawn the frame it is about to show, and not some other frame.
DrawnBeforeSwap ==
    pc = "swap" =>
        \A s \in Sync : \A t \in Thread : back[s][t] = slave_ready_frame

\* When veMPRenderFrame returns, every synchronous slave has released its
\* threads to show that frame, and no late datagram takes a slave elsewhere
\* before the next frame begins.
FrameCompleteEverywhere ==
    pc = "idle" => \A s \in Sync : State(s) = Target

\* The master's row for a slave never runs ahead of what that slave has really
\* reached ("slave's current state as reported to master").
RecordsAreReported == \A s \in inited : Seen(s) <= State(s)

\* A slave's message thread stays blocked while its render threads draw, so no
\* state or location message is applied in the middle of a frame.
NoUpdateWhileDrawing ==
    \A s \in Slave : \A t \in Thread :
        thr[s][t] = "draw" => at[s] = "exit" /\ life[s] # "closed"

\* Message thread and render threads never wait for each other at different
\* barriers: at rest the render threads are heading for the barrier that the
\* next message will take the message thread to.
BarriersAgree ==
    \A s \in Slave : HasThreads(s) => \A t \in Thread :
        /\ at[s] = "start" => thr[s][t] = "start"
        /\ at[s] = "entry" \/ (at[s] = "idle" /\ swapped[s] = 1)
              => thr[s][t] \in {"entry", "flip"}
        /\ at[s] = "exit" => thr[s][t] \in {"draw", "exit"}
        /\ at[s] \in {"unswapped", "swap"} \/ (at[s] = "idle" /\ swapped[s] = 0)
              => thr[s][t] = "swap"

\* The screens of a synchronous slave show every frame, one after the other.
NoFrameSkipped ==
    [][\A s \in Sync : \A t \in Thread :
          front'[s][t] \in {front[s][t], front[s][t] + 1}]_vars

\* The synchronous slaves implement the frame lock.
LockStep ==
    INSTANCE FrameLockStep
        WITH Node <- Sync, pos <- [s \in Sync |-> State(s)]
LockStepSpec == LockStep!Spec

\* A frame that is begun is completed unless the program exits, for as long as
\* no message is lost for ever.
FrameCompletes == (pc \in {"render", "swap"}) ~> (pc = "idle" \/ exiting # "no")

\* Once exit is called the master gets every slave's answer and exits, also in
\* the middle of a frame.
ExitCompletes == (exiting = "wait") ~> (exiting = "exited")
=============================================================================
