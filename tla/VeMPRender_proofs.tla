------------------------- MODULE VeMPRender_proofs -------------------------
(* Proofs about VeMPRender: types, the barriers, and the frame lock.        *)
EXTENDS VeMPRender, TLAPS

-----------------------------------------------------------------------------
(* The inductive invariant.                                                 *)

(* Start-up: the reliable streams hold exactly what the stage of slave s    *)
(* says.                                                                    *)
NotUp(s) ==
    /\ s \notin inited
    /\ active_frame[s] = 0 /\ life[s] # "closed"
    /\ fastTo[s] = {} /\ fastFrom[s] = {}
    /\ pc \in {"start", "init"}

Connected(s) ==         \* has not been told to run
    /\ NotUp(s)
    /\ ~HasThreads(s) /\ swapped[s] = 0
    /\ relTo[s] \in {<<>>, <<WINDOW, RUN>>, <<RUN>>}
    /\ pc = "start" <=> relTo[s] = <<>>
    /\ relFrom[s] = <<>>

Starting(s) ==          \* waits for its render threads
    /\ NotUp(s)
    /\ HasThreads(s) /\ swapped[s] = 1 /\ at[s] = "start"
    /\ pc = "init" /\ relTo[s] = <<>> /\ relFrom[s] = <<>>

Reported(s) ==          \* its SWAP 0 and RUN are on the way
    /\ NotUp(s)
    /\ HasThreads(s) /\ swapped[s] = 1 /\ at[s] = "idle"
    /\ pc = "init" /\ relTo[s] = <<>>
    /\ \/ relFrom[s] = <<Message("SWAP", 0), RUN>>
       \/ /\ relFrom[s] = <<RUN>>
          /\ seen_active[s] = 0 /\ seen_swapped[s] = 1

Up(s) ==                \* known to the master as running
    /\ s \in inited
    /\ HasThreads(s) /\ at[s] # "start"
    /\ relTo[s] \in {<<>>, <<EXIT>>} /\ relFrom[s] \in {<<>>, <<EXIT>>}
    /\ relTo[s] = <<>> \/ relFrom[s] = <<>>
    /\ exiting = "no" => relTo[s] = <<>> /\ relFrom[s] = <<>>
    /\ pc # "start"

Stage(s) == Connected(s) \/ Starting(s) \/ Reported(s) \/ Up(s)

StartInv ==
    /\ \A s \in Slave : Stage(s)
    /\ pc \in {"start", "init"} =>
          slave_ready_frame = 0 /\ slave_ready_swapped = 1 /\ exiting = "no"
    /\ pc \notin {"start", "init"} => \A s \in Slave : Up(s)

(* The render threads of s are at, or on their way to, the barrier the      *)
(* message thread is at or will go to next.                                 *)
ThreadInv ==
    \A s \in Slave :
        /\ ~HasThreads(s) => at[s] = "idle" /\ \A t \in Thread : thr[s][t] = "none"
        /\ at[s] = "start" => swapped[s] = 1
        /\ at[s] # "idle" => life[s] # "closed"
        /\ at[s] \in {"unswapped", "swap"} => swapped[s] = 0

(* Nobody has come further than what it was asked for, and the master       *)
(* knows of nothing that did not happen.                                    *)
Ask(s) == CASE at[s] \in {"unswapped", "entry", "exit"} -> 2 * handling[s]
            [] at[s] = "swap" -> 2 * handling[s] + 1
            [] OTHER -> State(s)

LevelOf(s) ==
    /\ \A m \in fastTo[s] : m.frame >= 1 /\ Level(m) <= Target
    /\ \A p \in fastFrom[s] : p.frame >= 1 /\ Level(p) <= State(s)
    /\ State(s) <= Ask(s) /\ Ask(s) <= Target
    /\ at[s] \in {"unswapped", "entry", "exit"} => handling[s] > active_frame[s]
    /\ at[s] = "swap" => handling[s] >= 1
    /\ s \in inited => Seen(s) <= State(s)

PhaseInv ==
    /\ pc \in {"swap", "idle"} => slave_ready_swapped = 1
    /\ pc = "render" => slave_ready_swapped = 0
    /\ pc \in {"render", "swap"} => slave_ready_frame >= 1

(* A synchronous slave lags at most one state behind what is asked, so it   *)
(* never skips a frame.                                                     *)
LagOf(s) ==
    /\ Target <= State(s) + 1
    /\ pc = "idle" => State(s) = Target
    /\ HasThreads(s) => State(s) >= 1
    /\ at[s] # "unswapped"
    /\ at[s] \in {"entry", "exit"} => swapped[s] = 1

(* What the windows of a synchronous slave hold.                            *)
WindowsOf(s) ==
    \A t \in Thread :
        /\ back[s][t] = IF at[s] = "exit" /\ thr[s][t] = "exit"
                        THEN handling[s] ELSE active_frame[s]
        /\ front[s][t] = IF thr[s][t] \in {"swap", "flip"}
                         THEN active_frame[s] - 1 ELSE active_frame[s]

CoreInv == TypeOK /\ StartInv /\ ThreadInv /\ BarriersAgree

SyncInv ==
    /\ PhaseInv
    /\ \A s \in Slave : LevelOf(s)
    /\ \A s \in Sync : LagOf(s) /\ WindowsOf(s)

IInv == CoreInv /\ SyncInv

-----------------------------------------------------------------------------
(* Types.                                                                   *)

LEMMA MasterCallbackType ==
    ASSUME TypeOK, NEW row, NEW p, p.frame \in Nat, master_render_cback(row, p)
    PROVE  /\ seen_active' \in [Slave -> Nat]
           /\ seen_swapped' \in [Slave -> {0, 1}]
           /\ inited' \subseteq Slave /\ stopped' \subseteq Slave
BY DEF TypeOK, master_render_cback

LEMMA InitType == Init => TypeOK
BY DEF Init, TypeOK, InitialActive

LEMMA MasterType == TypeOK /\ MasterNext => TypeOK'
<1> SUFFICES ASSUME TypeOK, MasterNext PROVE TypeOK'
    OBVIOUS
<1> USE FrameAssumption DEF TypeOK, slaveVars, threadVars, relVars, fastVars, masterVars, seenVars
<1>1. CASE veMPRenderRun
    BY <1>1 DEF veMPRenderRun, WINDOW, RUN, EXIT, Message
<1>2. CASE SlavesInit
    BY <1>2 DEF SlavesInit
<1>3. CASE BeginFrame
    <2>1. NextFrame \in Nat
        BY DEF NextFrame
    <2> QED BY <1>3, <2>1 DEF BeginFrame, SendAll, Message, Datagram
<1>4. CASE PokeRender
    BY <1>4 DEF PokeRender, PokeUnready, Message, Datagram
<1>5. CASE BeginSwap
    BY <1>5 DEF BeginSwap, SendAll, Message, Datagram
<1>6. CASE PokeSwap
    BY <1>6 DEF PokeSwap, PokeUnready, Message, Datagram
<1>7. CASE EndFrame
    BY <1>7 DEF EndFrame
<1>8. CASE veMPRenderExit
    BY <1>8 DEF veMPRenderExit
<1>9. CASE SlavesStopped
    BY <1>9 DEF SlavesStopped
<1>10. ASSUME NEW s \in Slave, MasterRecvReliable(s)
       PROVE  TypeOK'
    <2>1. Head(relFrom[s]) \in {Message("SWAP", 0), RUN, EXIT}
        BY <1>10 DEF MasterRecvReliable
    <2>2. Head(relFrom[s]).frame \in Nat
        BY <2>1 DEF Message, RUN, EXIT
    <2>3. /\ seen_active' \in [Slave -> Nat]
         /\ seen_swapped' \in [Slave -> {0, 1}]
         /\ inited' \subseteq Slave /\ stopped' \subseteq Slave
        BY <1>10, <2>2, MasterCallbackType DEF MasterRecvReliable
    <2>4. relFrom' \in [Slave -> Seq({Message("SWAP", 0), RUN, EXIT})]
        BY <1>10 DEF MasterRecvReliable
    <2> QED BY <1>10, <2>3, <2>4 DEF MasterRecvReliable, master_render_cback
<1>11. ASSUME NEW s \in Slave, NEW p \in fastFrom[s], MasterRecvFast(s, p)
       PROVE  TypeOK'
    <2>1. p.frame \in Nat
        BY DEF Datagram
    <2>2. /\ seen_active' \in [Slave -> Nat]
         /\ seen_swapped' \in [Slave -> {0, 1}]
         /\ inited' \subseteq Slave /\ stopped' \subseteq Slave
        BY <1>11, <2>1, MasterCallbackType DEF MasterRecvFast
    <2> QED BY <1>11, <2>2 DEF MasterRecvFast, master_render_cback
<1> QED BY <1>1, <1>2, <1>3, <1>4, <1>5, <1>6, <1>7, <1>8, <1>9, <1>10, <1>11
        DEF MasterNext

LEMMA SlaveType ==
    ASSUME TypeOK, NEW s \in Slave, SlaveNext(s)
    PROVE  TypeOK'
<1> USE DEF TypeOK, slaveVars, threadVars, relVars, fastVars, masterVars, seenVars
<1>1. CASE SlaveWindow(s)
    BY <1>1 DEF SlaveWindow, HeadIs
<1>2. CASE SlaveRun(s)
    BY <1>2 DEF SlaveRun, HeadIs
<1>3. CASE SlaveExit(s)
    <2>1. relTo' \in [Slave -> Seq({WINDOW, RUN, EXIT})]
        BY <1>3 DEF SlaveExit, HeadIs
    <2>2. relFrom' \in [Slave -> Seq({Message("SWAP", 0), RUN, EXIT})]
        BY <1>3 DEF SlaveExit
    <2>3. life' \in [Slave -> {"new", "opened", "running", "closed"}]
        BY <1>3 DEF SlaveExit
    <2> QED BY <1>3, <2>1, <2>2, <2>3 DEF SlaveExit
<1>4. ASSUME NEW m \in fastTo[s], SlaveRecvFast(s, m)
      PROVE  TypeOK'
    <2> m \in Datagram
        OBVIOUS
    <2>1. CASE SlaveRender(s, m)
        BY <2>1 DEF SlaveRender, Datagram
    <2>2. CASE SlaveRenderAgain(s, m)
        BY <2>2 DEF SlaveRenderAgain, Reply
    <2>3. CASE SlaveSwap(s, m)
        BY <2>3 DEF SlaveSwap, Datagram
    <2>4. CASE SlaveSwapUnrendered(s, m)
        BY <2>4 DEF SlaveSwapUnrendered, Reply, Datagram
    <2>5. CASE SlaveSwapAgain(s, m)
        BY <2>5 DEF SlaveSwapAgain, Reply
    <2> QED BY <1>4, <2>1, <2>2, <2>3, <2>4, <2>5 DEF SlaveRecvFast
<1>5. CASE PassStart(s)
    <2>1. relFrom' \in [Slave -> Seq({Message("SWAP", 0), RUN, EXIT})]
        BY <1>5 DEF PassStart
    <2> QED BY <1>5, <2>1 DEF PassStart, Move
<1>6. CASE PassUnswapped(s)
    BY <1>6 DEF PassUnswapped, Move
<1>7. CASE PassEntry(s)
    BY <1>7 DEF PassEntry, Move
<1>8. CASE PassExit(s)
    BY <1>8 DEF PassExit, Move, Reply, Datagram, Message
<1>9. CASE PassSwap(s)
    BY <1>9 DEF PassSwap, Move, Reply, Datagram, Message
<1>10. ASSUME NEW t \in Thread, RenderWindows(s, t)
       PROVE  TypeOK'
    BY <1>10 DEF RenderWindows
<1>11. ASSUME NEW t \in Thread, SwapWindows(s, t)
       PROVE  TypeOK'
    BY <1>11 DEF SwapWindows
<1> QED BY <1>1, <1>2, <1>3, <1>4, <1>5, <1>6, <1>7, <1>8, <1>9, <1>10, <1>11
        DEF SlaveNext

LEMMA LossType == TypeOK /\ Loss => TypeOK'
<1> USE DEF TypeOK, slaveVars, threadVars, relVars, masterVars, seenVars
<1> SUFFICES ASSUME TypeOK, NEW s \in Slave, NEW m, LoseTo(s, m) \/ LoseFrom(s, m)
             PROVE  TypeOK'
    BY FrameAssumption DEF Loss
<1>1. CASE LoseTo(s, m)
    <2>1. fastTo' \in [Slave -> SUBSET Datagram]
        BY <1>1 DEF LoseTo
    <2> QED BY <1>1, <2>1 DEF LoseTo
<1>2. CASE LoseFrom(s, m)
    <2>1. fastFrom' \in [Slave -> SUBSET Datagram]
        BY <1>2 DEF LoseFrom
    <2> QED BY <1>2, <2>1 DEF LoseFrom
<1> QED BY <1>1, <1>2

LEMMA UnchangedType == TypeOK /\ UNCHANGED vars => TypeOK'
BY DEF TypeOK, vars, masterVars, seenVars, slaveVars, threadVars, relVars, fastVars

\* Type correctness, for every set of slaves and threads, every assignment of
\* MP ids and every bound on the frames.
THEOREM TypeCorrect == Spec => []TypeOK
<1>1. TypeOK /\ [Next]_vars => TypeOK'
    BY MasterType, SlaveType, LossType, UnchangedType DEF Next, Terminated
<1> QED BY InitType, <1>1, PTL DEF Spec

-----------------------------------------------------------------------------
(* Start-up.                                                                *)

\* The renderer's rows are numbered like the MP layer's slaves.
IdsMatch == \A s \in Slave : MpId[s] = s

\* What Stage(r) speaks of and a step of somebody else leaves alone.
Untouched(r) ==
    /\ active_frame'[r] = active_frame[r] /\ swapped'[r] = swapped[r]
    /\ life'[r] = life[r] /\ at'[r] = at[r]
    /\ seen_active'[r] = seen_active[r] /\ seen_swapped'[r] = seen_swapped[r]
    /\ r \in inited' <=> r \in inited
    /\ relTo'[r] = relTo[r] /\ relFrom'[r] = relFrom[r]
    /\ fastTo[r] = {} => fastTo'[r] = {}
    /\ fastFrom[r] = {} => fastFrom'[r] = {}

LEMMA StageKept ==
    ASSUME NEW r \in Slave, Stage(r), Untouched(r), UNCHANGED <<pc, exiting>>
    PROVE  Stage(r)'
BY DEF Stage, Untouched, NotUp, Connected, Starting, Reported, Up, HasThreads

LEMMA MessagesDiffer ==
    /\ WINDOW # RUN /\ RUN # EXIT /\ WINDOW # EXIT
    /\ WINDOW.tag = "WINDOW" /\ RUN.tag = "RUN" /\ EXIT.tag = "EXIT"
    /\ \A tag, f : Message(tag, f).tag = tag /\ Message(tag, f).frame = f
BY DEF WINDOW, RUN, EXIT, Message

LEMMA ShortSequences ==
    /\ \A a, b : /\ Head(<<a, b>>) = a /\ Tail(<<a, b>>) = <<b>>
               /\ <<>> \o <<a, b>> = <<a, b>> /\ <<a, b>> # <<>>
    /\ \A a : /\ Head(<<a>>) = a /\ Tail(<<a>>) = <<>>
            /\ Append(<<>>, a) = <<a>> /\ <<a>> # <<>>
OBVIOUS

LEMMA MasterStart ==
    ASSUME IdsMatch, TypeOK, StartInv, ThreadInv, MasterNext
    PROVE  StartInv'
<1> USE DEF masterVars, seenVars, slaveVars, threadVars, relVars, fastVars
<1>1. CASE veMPRenderRun
    <2>1. ASSUME NEW s \in Slave PROVE Connected(s)'
        <3>1. Connected(s)
            BY <1>1 DEF StartInv, Stage, veMPRenderRun, Starting, Reported, Up
        <3>2. relTo'[s] = <<WINDOW, RUN>>
            BY <1>1, <3>1, ShortSequences DEF Connected, veMPRenderRun
        <3> QED BY <1>1, <3>1, <3>2, ShortSequences
                DEF Connected, NotUp, veMPRenderRun, HasThreads
    <2> QED BY <1>1, <2>1 DEF StartInv, Stage, veMPRenderRun
<1>2. CASE SlavesInit
    <2>1. ASSUME NEW s \in Slave PROVE Up(s)'
        BY <1>2 DEF StartInv, Stage, SlavesInit, Up, Connected, Starting, Reported,
                    NotUp, HasThreads
    <2> QED BY <1>2, <2>1 DEF StartInv, Stage, SlavesInit
<1>3. CASE BeginFrame \/ PokeRender \/ BeginSwap \/ PokeSwap \/ EndFrame
    <2>1. ASSUME NEW s \in Slave PROVE Up(s)'
        <3>1. Up(s) /\ pc' \notin {"start", "init"}
            BY <1>3 DEF StartInv, BeginFrame, PokeRender, BeginSwap, PokeSwap, EndFrame
        <3> QED BY <1>3, <3>1 DEF Up, HasThreads, BeginFrame, PokeRender, BeginSwap,
                                  PokeSwap, EndFrame
    <2>2. pc' \notin {"start", "init"}
        BY <1>3 DEF BeginFrame, PokeRender, BeginSwap, PokeSwap, EndFrame
    <2> QED BY <2>1, <2>2 DEF StartInv, Stage
<1>4. CASE veMPRenderExit
    <2>1. ASSUME NEW s \in Slave PROVE Up(s)'
        <3>1. Up(s) /\ relTo'[s] = <<EXIT>>
            BY <1>4, ShortSequences DEF StartInv, Up, veMPRenderExit
        <3> QED BY <1>4, <3>1 DEF Up, HasThreads, veMPRenderExit
    <2> QED BY <1>4, <2>1 DEF StartInv, Stage, veMPRenderExit
<1>5. CASE SlavesStopped
    <2>1. ASSUME NEW s \in Slave PROVE Up(s)'
        BY <1>5 DEF StartInv, Up, HasThreads, SlavesStopped
    <2> QED BY <1>5, <2>1 DEF StartInv, Stage, SlavesStopped
<1>6. ASSUME NEW s \in Slave, MasterRecvReliable(s)
      PROVE  StartInv'
    <2> DEFINE p == Head(relFrom[s])
    <2>1. /\ master_render_cback(s, p) /\ relFrom[s] # <<>>
          /\ relFrom' = [relFrom EXCEPT ![s] = Tail(@)]
        BY <1>6 DEF MasterRecvReliable, IdsMatch
    <2>2. ASSUME NEW r \in Slave, r # s PROVE Untouched(r)
        BY <2>1, <2>2 DEF Untouched, master_render_cback, TypeOK
    <2>3. Stage(s)' /\ (Up(s) => Up(s)')
        <3>1. CASE Reported(s) /\ relFrom[s] = <<Message("SWAP", 0), RUN>>
            <4>1. p = Message("SWAP", 0) /\ relFrom'[s] = <<RUN>>
                BY <2>1, <3>1, ShortSequences DEF TypeOK
            <4>2. p.tag = "SWAP" /\ p.frame = 0
                BY <4>1, MessagesDiffer
            <4>3. seen_active'[s] = 0 /\ seen_swapped'[s] = 1 /\ inited' = inited
                BY <2>1, <4>2 DEF master_render_cback, Newer, NewerSwap, TypeOK
            <4> QED BY <2>1, <3>1, <4>1, <4>3
                    DEF Reported, NotUp, Stage, Up, HasThreads, master_render_cback
        <3>2. CASE Reported(s) /\ relFrom[s] = <<RUN>>
            <4>1. p = RUN /\ relFrom'[s] = <<>>
                BY <2>1, <3>2, ShortSequences DEF TypeOK
            <4>2. s \in inited'
                BY <2>1, <4>1, MessagesDiffer DEF master_render_cback
            <4> QED BY <2>1, <3>2, <4>1, <4>2
                    DEF Reported, NotUp, Stage, Up, HasThreads, master_render_cback
        <3>3. CASE Up(s)
            <4>1. relFrom[s] = <<EXIT>> /\ relFrom'[s] = <<>>
                BY <2>1, <3>3, ShortSequences DEF Up, TypeOK
            <4>2. s \in inited'
                BY <2>1, <3>3 DEF Up, master_render_cback
            <4> QED BY <2>1, <3>3, <4>1, <4>2, ShortSequences
                    DEF Stage, Up, HasThreads, master_render_cback
        <3>4. ~Connected(s) /\ ~Starting(s)
            BY <2>1 DEF Connected, Starting
        <3>5. CASE Reported(s)
            BY <3>1, <3>2, <3>5 DEF Reported
        <3> QED BY <3>3, <3>4, <3>5 DEF StartInv, Stage, Reported, NotUp, Up
    <2>4. \A r \in Slave : Stage(r)' /\ (Up(r) => Up(r)')
        BY <2>1, <2>2, <2>3, StageKept
        DEF StartInv, Untouched, Up, HasThreads, master_render_cback
    <2> QED BY <2>1, <2>4 DEF StartInv, master_render_cback
<1>7. ASSUME NEW s \in Slave, NEW p \in fastFrom[s], MasterRecvFast(s, p)
      PROVE  StartInv'
    <2>1. p.tag \in {"RENDER", "SWAP"} /\ Up(s) /\ master_render_cback(s, p)
        BY <1>7 DEF TypeOK, Datagram, MasterRecvFast, IdsMatch, StartInv, Stage,
                    Connected, Starting, Reported, NotUp
    <2>2. ASSUME NEW r \in Slave, r # s PROVE Untouched(r)
        BY <1>7, <2>1, <2>2 DEF Untouched, master_render_cback, MasterRecvFast, TypeOK
    <2>3. Up(s)'
        BY <1>7, <2>1 DEF Up, HasThreads, master_render_cback, MasterRecvFast
    <2>4. \A r \in Slave : Stage(r)' /\ (Up(r) => Up(r)')
        BY <1>7, <2>1, <2>2, <2>3, StageKept
        DEF StartInv, Stage, Untouched, Up, HasThreads, master_render_cback
    <2> QED BY <2>1, <2>4 DEF StartInv, master_render_cback
<1> QED BY <1>1, <1>2, <1>3, <1>4, <1>5, <1>6, <1>7 DEF MasterNext

LEMMA SlaveStart ==
    ASSUME TypeOK, StartInv, ThreadInv, NEW s \in Slave, SlaveNext(s)
    PROVE  StartInv'
<1> USE DEF masterVars, seenVars, slaveVars, threadVars, relVars, fastVars
<1>1. UNCHANGED masterVars
    BY DEF SlaveNext, SlaveWindow, SlaveRun, SlaveExit, SlaveRecvFast, SlaveRender,
           SlaveRenderAgain, SlaveSwap, SlaveSwapUnrendered, SlaveSwapAgain,
           PassStart, PassUnswapped, PassEntry, PassExit, PassSwap, RenderWindows,
           SwapWindows
<1>2. ASSUME NEW r \in Slave, r # s PROVE Untouched(r)
    BY <1>1, <1>2
    DEF Untouched, TypeOK, HeadIs, Reply, SlaveNext, SlaveWindow, SlaveRun, SlaveExit,
        SlaveRecvFast, SlaveRender, SlaveRenderAgain, SlaveSwap, SlaveSwapUnrendered,
        SlaveSwapAgain, PassStart, PassUnswapped, PassEntry, PassExit, PassSwap,
        RenderWindows, SwapWindows
<1>3. Stage(s)' /\ (Up(s) => Up(s)')
    <2>1. CASE SlaveWindow(s)
        <3>1. /\ relTo[s] # <<>> /\ Head(relTo[s]) = WINDOW
              /\ relTo'[s] = Tail(relTo[s])
            BY <2>1 DEF SlaveWindow, HeadIs, TypeOK
        <3>2. Connected(s) /\ relTo[s] = <<WINDOW, RUN>>
            BY <3>1, MessagesDiffer, ShortSequences
            DEF StartInv, Stage, Connected, Starting, Reported, Up
        <3>3. relTo'[s] = <<RUN>>
            BY <3>1, <3>2, ShortSequences
        <3> QED BY <1>1, <2>1, <3>2, <3>3, ShortSequences
                DEF Stage, Connected, NotUp, HasThreads, SlaveWindow, Up, TypeOK
    <2>2. CASE SlaveRun(s)
        <3>1. Connected(s) /\ relTo[s] = <<RUN>> /\ relTo'[s] = <<>>
            BY <2>2, MessagesDiffer, ShortSequences
            DEF StartInv, Stage, Connected, Starting, Reported, Up, SlaveRun,
                HeadIs, TypeOK
        <3> QED BY <1>1, <2>2, <3>1, ShortSequences
                DEF Stage, Connected, Starting, NotUp, HasThreads, SlaveRun, Up, TypeOK
    <2>3. CASE SlaveExit(s)
        <3>1. Up(s) /\ relTo[s] = <<EXIT>> /\ relTo'[s] = <<>>
            BY <2>3, MessagesDiffer, ShortSequences
            DEF StartInv, Stage, Connected, Starting, Reported, Up, SlaveExit,
                HeadIs, TypeOK
        <3>2. relFrom'[s] = <<EXIT>>
            BY <2>3, <3>1, ShortSequences DEF Up, SlaveExit, TypeOK
        <3> QED BY <1>1, <2>3, <3>1, <3>2, ShortSequences
                DEF Stage, Up, HasThreads, SlaveExit, TypeOK
    <2>4. ASSUME NEW m \in fastTo[s], SlaveRecvFast(s, m)
          PROVE  Up(s) /\ Up(s)'
        <3>1. Up(s)
            BY DEF StartInv, Stage, Connected, Starting, Reported, NotUp
        <3> QED BY <1>1, <2>4, <3>1
                DEF Up, HasThreads, TypeOK, SlaveRecvFast, SlaveRender, SlaveRenderAgain,
                    SlaveSwap, SlaveSwapUnrendered, SlaveSwapAgain, Reply
    <2>5. CASE PassStart(s)
        <3>1. Starting(s)
            BY <2>5 DEF StartInv, Stage, Connected, Reported, Up, ThreadInv, PassStart
        <3>2. relFrom'[s] = <<Message("SWAP", 0), RUN>>
            BY <2>5, <3>1, ShortSequences DEF Starting, PassStart, TypeOK
        <3> QED BY <1>1, <2>5, <3>1, <3>2
                DEF Stage, Starting, Reported, NotUp, HasThreads, PassStart, Up, TypeOK
    <2>6. CASE PassUnswapped(s) \/ PassEntry(s) \/ PassExit(s) \/ PassSwap(s)
        <3>1. Up(s)
            BY <2>6 DEF StartInv, Stage, Connected, Starting, Reported, ThreadInv,
                        PassUnswapped, PassEntry, PassExit, PassSwap
        <3> QED BY <1>1, <2>6, <3>1
                DEF Stage, Up, HasThreads, TypeOK, PassUnswapped, PassEntry, PassExit,
                    PassSwap, Reply
    <2>7. ASSUME NEW t \in Thread, RenderWindows(s, t) \/ SwapWindows(s, t)
          PROVE  Stage(s)' /\ (Up(s) => Up(s)')
        <3>1. Untouched(s)
            BY <1>1, <2>7 DEF Untouched, RenderWindows, SwapWindows
        <3> QED BY <1>1, <3>1, StageKept DEF StartInv, Untouched, Up, HasThreads
    <2> QED BY <2>1, <2>2, <2>3, <2>4, <2>5, <2>6, <2>7 DEF SlaveNext, Stage
<1>4. \A r \in Slave : Stage(r)' /\ (Up(r) => Up(r)')
    BY <1>1, <1>2, <1>3, StageKept DEF StartInv, Untouched, Up, HasThreads
<1> QED BY <1>1, <1>4 DEF StartInv

LEMMA OtherStart ==
    ASSUME TypeOK, StartInv, Loss \/ UNCHANGED vars
    PROVE  StartInv'
<1> USE DEF masterVars, seenVars, slaveVars, threadVars, relVars, fastVars
<1>1. ASSUME NEW r \in Slave PROVE Untouched(r)
    BY <1>1 DEF Untouched, Loss, LoseTo, LoseFrom, vars, TypeOK
<1>2. UNCHANGED masterVars
    BY DEF Loss, LoseTo, LoseFrom, vars
<1> QED BY <1>1, <1>2, StageKept DEF StartInv, Untouched, Up, HasThreads

-----------------------------------------------------------------------------
(* The barriers.                                                            *)

LEMMA MasterThreads ==
    ASSUME ThreadInv, BarriersAgree, UNCHANGED <<slaveVars, threadVars>>
    PROVE  ThreadInv' /\ BarriersAgree'
BY DEF ThreadInv, BarriersAgree, HasThreads, slaveVars, threadVars

LEMMA SlaveThreads ==
    ASSUME TypeOK, StartInv, ThreadInv, BarriersAgree, NEW s \in Slave, SlaveNext(s)
    PROVE  ThreadInv' /\ BarriersAgree'
<1> USE DEF masterVars, seenVars, slaveVars, threadVars, relVars, fastVars
<1>1. ASSUME NEW r \in Slave, r # s
      PROVE  /\ at'[r] = at[r] /\ thr'[r] = thr[r]
             /\ swapped'[r] = swapped[r] /\ life'[r] = life[r]
    BY <1>1
    DEF TypeOK, Move, SlaveNext, SlaveWindow, SlaveRun, SlaveExit, SlaveRecvFast,
        SlaveRender, SlaveRenderAgain, SlaveSwap, SlaveSwapUnrendered, SlaveSwapAgain,
        PassStart, PassUnswapped, PassEntry, PassExit, PassSwap, RenderWindows,
        SwapWindows
<1> DEFINE Thr(r)  == /\ ~HasThreads(r) =>
                            at[r] = "idle" /\ \A t \in Thread : thr[r][t] = "none"
                      /\ at[r] = "start" => swapped[r] = 1
                      /\ at[r] # "idle" => life[r] # "closed"
                      /\ at[r] \in {"unswapped", "swap"} => swapped[r] = 0
           Bar(r)  == HasThreads(r) => \A t \in Thread :
                        /\ at[r] = "start" => thr[r][t] = "start"
                        /\ at[r] = "entry" \/ (at[r] = "idle" /\ swapped[r] = 1)
                              => thr[r][t] \in {"entry", "flip"}
                        /\ at[r] = "exit" => thr[r][t] \in {"draw", "exit"}
                        /\ at[r] \in {"unswapped", "swap"}
                              \/ (at[r] = "idle" /\ swapped[r] = 0)
                              => thr[r][t] = "swap"
<1>2. Thr(s) /\ Bar(s)
    BY DEF ThreadInv, BarriersAgree
<1>3. Thr(s)' /\ Bar(s)'
    <2>1. CASE SlaveWindow(s)
        BY <1>2, <2>1 DEF SlaveWindow, HasThreads, HeadIs, Listening, TypeOK
    <2>2. CASE SlaveRun(s)
        BY <1>2, <2>2 DEF SlaveRun, HasThreads, HeadIs, Listening, TypeOK
    <2>3. CASE SlaveExit(s)
        <3>1. HasThreads(s)
            BY <2>3, MessagesDiffer, ShortSequences
            DEF StartInv, Stage, Connected, Starting, Reported, Up, SlaveExit, HeadIs
        <3> QED BY <1>2, <2>3, <3>1 DEF SlaveExit, HasThreads, HeadIs, Listening, TypeOK
    <2>4. ASSUME NEW m \in fastTo[s], SlaveRecvFast(s, m)
          PROVE  Thr(s)' /\ Bar(s)'
        <3>1. Up(s)
            BY DEF StartInv, Stage, Connected, Starting, Reported, NotUp
        <3>2. CASE SlaveRender(s, m)
            BY <1>2, <3>1, <3>2 DEF SlaveRender, Up, HasThreads, Listening, TypeOK
        <3>3. CASE SlaveSwap(s, m)
            BY <1>2, <3>1, <3>3 DEF SlaveSwap, Up, HasThreads, Listening, TypeOK
        <3>4. CASE SlaveRenderAgain(s, m) \/ SlaveSwapUnrendered(s, m) \/ SlaveSwapAgain(s, m)
            BY <1>2, <3>4 DEF SlaveRenderAgain, SlaveSwapUnrendered, SlaveSwapAgain,
                              HasThreads
        <3> QED BY <2>4, <3>2, <3>3, <3>4 DEF SlaveRecvFast
    <2>5. CASE PassStart(s)
        BY <1>2, <2>5 DEF PassStart, Move, HasThreads, TypeOK
    <2>6. CASE PassUnswapped(s)
        BY <1>2, <2>6 DEF PassUnswapped, Move, HasThreads, TypeOK
    <2>7. CASE PassEntry(s)
        BY <1>2, <2>7 DEF PassEntry, Move, HasThreads, TypeOK
    <2>8. CASE PassExit(s)
        BY <1>2, <2>8 DEF PassExit, Move, HasThreads, TypeOK
    <2>9. CASE PassSwap(s)
        BY <1>2, <2>9 DEF PassSwap, Move, HasThreads, TypeOK
    <2>10. ASSUME NEW t \in Thread, RenderWindows(s, t)
           PROVE  Thr(s)' /\ Bar(s)'
        BY <1>2, <2>10 DEF RenderWindows, HasThreads, TypeOK
    <2>11. ASSUME NEW t \in Thread, SwapWindows(s, t)
           PROVE  Thr(s)' /\ Bar(s)'
        BY <1>2, <2>11 DEF SwapWindows, HasThreads, TypeOK
    <2> QED BY <2>1, <2>2, <2>3, <2>4, <2>5, <2>6, <2>7, <2>8, <2>9, <2>10, <2>11
            DEF SlaveNext
<1>4. ASSUME NEW r \in Slave, r # s PROVE Thr(r)' /\ Bar(r)'
    BY <1>1, <1>4 DEF ThreadInv, BarriersAgree, HasThreads
<1> QED BY <1>3, <1>4 DEF ThreadInv, BarriersAgree

LEMMA CoreInit == Init => CoreInv
<1> SUFFICES ASSUME Init PROVE CoreInv
    OBVIOUS
<1>1. TypeOK
    BY InitType
<1>2. StartInv
    BY DEF Init, StartInv, Stage, Connected, NotUp, HasThreads
<1>3. ThreadInv /\ BarriersAgree
    BY DEF Init, ThreadInv, BarriersAgree, HasThreads
<1> QED BY <1>1, <1>2, <1>3 DEF CoreInv

LEMMA CoreStep == IdsMatch /\ CoreInv /\ [Next]_vars => CoreInv'
<1> SUFFICES ASSUME IdsMatch, CoreInv, [Next]_vars PROVE CoreInv'
    OBVIOUS
<1> USE DEF CoreInv
<1>1. TypeOK'
    BY MasterType, SlaveType, LossType, UnchangedType DEF Next, Terminated
<1>2. StartInv'
    BY MasterStart, SlaveStart, OtherStart DEF Next, Terminated
<1>3. ThreadInv' /\ BarriersAgree'
    <2>1. CASE MasterNext
        <3>1. UNCHANGED <<slaveVars, threadVars>>
            BY <2>1
            DEF MasterNext, veMPRenderRun, SlavesInit, BeginFrame, PokeRender, BeginSwap,
                PokeSwap, EndFrame, veMPRenderExit, SlavesStopped, MasterRecvReliable,
                MasterRecvFast, master_render_cback, slaveVars, threadVars
        <3> QED BY <3>1, MasterThreads
    <2>2. CASE \E s \in Slave : SlaveNext(s)
        BY <2>2, SlaveThreads
    <2>3. CASE Loss \/ UNCHANGED vars
        BY <2>3, MasterThreads DEF Loss, LoseTo, LoseFrom, vars
    <2> QED BY <2>1, <2>2, <2>3 DEF Next, Terminated
<1> QED BY <1>1, <1>2, <1>3

LEMMA DrawsBetweenEntryAndExit ==
    ASSUME CoreInv, NEW s \in Slave, NEW t \in Thread, thr[s][t] = "draw"
    PROVE  at[s] = "exit" /\ life[s] # "closed"
<1>1. HasThreads(s)
    BY DEF CoreInv, ThreadInv
<1>2. /\ at[s] \in {"idle", "start", "unswapped", "entry", "exit", "swap"}
      /\ swapped[s] \in {0, 1}
    BY DEF CoreInv, TypeOK
<1>3. at[s] = "exit"
    BY <1>1, <1>2 DEF CoreInv, BarriersAgree
<1> QED BY <1>3 DEF CoreInv, ThreadInv

\* The message thread and the render threads of a slave never wait for each
\* other at different barriers, and nothing is applied while the threads draw:
\* for every number of slaves, threads and frames, with any mix of synchronous
\* and asynchronous windows, whatever the network does, even across a reset of
\* the frame counter.
THEOREM BarriersCorrect ==
    ASSUME IdsMatch
    PROVE  Spec => [](BarriersAgree /\ NoUpdateWhileDrawing)
<1>1. CoreInv => BarriersAgree /\ NoUpdateWhileDrawing
    BY DrawsBetweenEntryAndExit DEF CoreInv, NoUpdateWhileDrawing
<1>2. CoreInv /\ [Next]_vars => CoreInv'
    BY CoreStep
<1> QED BY CoreInit, <1>1, <1>2, PTL DEF Spec

\* While a window of a slave is drawn nothing that it shows is changed.
THEOREM NothingChangesMeanwhile ==
    ASSUME IdsMatch
    PROVE  Spec => []NoUpdateWhileDrawing
BY BarriersCorrect, PTL

-----------------------------------------------------------------------------
(* The frame lock.                                                          *)

\* The bound on frames keeps the counter below the point where it is reset.
NoReset == MaxFrame <= LongMax

LEMMA TargetType == (TypeOK => Target \in Nat) /\ (TypeOK' => Target' \in Nat)
<1>1. \A f \in Nat, b \in {0, 1} : 2 * f + b \in Nat
    OBVIOUS
<1>2. /\ TypeOK => slave_ready_frame \in Nat /\ slave_ready_swapped \in {0, 1}
      /\ TypeOK' => slave_ready_frame' \in Nat /\ slave_ready_swapped' \in {0, 1}
    BY DEF TypeOK
<1> QED BY <1>1, <1>2 DEF Target

LEMMA StateType ==
    ASSUME TypeOK
    PROVE  /\ Target \in Nat
           /\ \A s \in Slave : State(s) \in Nat /\ Seen(s) \in Nat /\ Ask(s) \in Nat
           /\ \A s \in Slave : swapped[s] \in {0, 1} /\ active_frame[s] \in Nat
                               /\ handling[s] \in Nat
<1>1. ASSUME NEW s \in Slave
      PROVE  /\ swapped[s] \in {0, 1} /\ active_frame[s] \in Nat /\ handling[s] \in Nat
             /\ seen_swapped[s] \in {0, 1} /\ seen_active[s] \in Nat
    BY DEF TypeOK
<1>2. ASSUME NEW s \in Slave PROVE State(s) \in Nat /\ Seen(s) \in Nat
    BY <1>1, <1>2 DEF State, Seen
<1>3. ASSUME NEW s \in Slave PROVE Ask(s) \in Nat
    BY <1>1, <1>2, <1>3 DEF Ask
<1> QED BY <1>1, <1>2, <1>3, TargetType

LEMMA LevelType ==
    ASSUME NEW m \in Datagram
    PROVE  /\ m.frame \in Nat /\ Level(m) \in Nat
           /\ m.tag = "RENDER" => Level(m) = 2 * m.frame
           /\ m.tag = "SWAP" => Level(m) = 2 * m.frame + 1
           /\ m.tag \in {"RENDER", "SWAP"}
BY DEF Datagram, Level

LEMMA MessageLevel ==
    \A f \in Nat : /\ Level(Message("RENDER", f)) = 2 * f
                  /\ Level(Message("SWAP", f)) = 2 * f + 1
                  /\ Message("RENDER", f).frame = f /\ Message("SWAP", f).frame = f
BY DEF Level, Message

LEMMA SyncInit == Init => SyncInv
<1> SUFFICES ASSUME Init PROVE SyncInv
    OBVIOUS
<1>1. PhaseInv
    BY DEF Init, PhaseInv
<1>2. ASSUME NEW s \in Slave
      PROVE  /\ at[s] = "idle" /\ fastTo[s] = {} /\ fastFrom[s] = {}
             /\ active_frame[s] = 0 /\ swapped[s] = 0 /\ ~HasThreads(s)
    BY DEF Init, HasThreads
<1>3. ASSUME NEW s \in Slave PROVE LevelOf(s)
    BY <1>2, <1>3 DEF Init, LevelOf, State, Ask, Target
<1>4. ASSUME NEW s \in Slave PROVE LagOf(s) /\ WindowsOf(s)
    BY <1>2, <1>4 DEF Init, LagOf, WindowsOf, State, Target
<1> QED BY <1>1, <1>3, <1>4 DEF SyncInv, Sync

LEMMA WindowsKept ==
    ASSUME NEW s \in Slave, WindowsOf(s), at'[s] = at[s], thr'[s] = thr[s],
           handling'[s] = handling[s], active_frame'[s] = active_frame[s],
           back'[s] = back[s], front'[s] = front[s]
    PROVE  WindowsOf(s)'
BY DEF WindowsOf

\* When all are ready every synchronous slave is where the master wants it.
LEMMA ReadyMeansThere ==
    ASSUME IInv, slaves_are_ready, pc \in {"render", "swap"}, NEW s \in Sync
    PROVE  State(s) = Target
<1>1. s \in Slave /\ s \notin Async
    BY DEF Sync
<1>2. Seen(s) = Target
    BY <1>1 DEF slaves_are_ready, slave_is_ready, Seen, Target
<1>3. s \in inited
    BY <1>1 DEF IInv, CoreInv, StartInv, Up
<1>4. Seen(s) <= State(s) /\ State(s) <= Ask(s) /\ Ask(s) <= Target
    BY <1>1, <1>3 DEF IInv, SyncInv, LevelOf
<1> QED BY <1>1, <1>2, <1>4, StateType DEF IInv, CoreInv

\* What a step of the master has to respect.
LEMMA LevelKept ==
    ASSUME NEW s \in Slave, TypeOK, TypeOK', LevelOf(s), UNCHANGED slaveVars,
           Target <= Target',
           \A m \in fastTo'[s] : m \in fastTo[s] \/ (m.frame >= 1 /\ Level(m) <= Target'),
           fastFrom'[s] \subseteq fastFrom[s],
           s \in inited' => Seen(s)' <= State(s)
    PROVE  LevelOf(s)' /\ State(s)' = State(s)
<1>1. State(s)' = State(s) /\ Ask(s)' = Ask(s)
    BY DEF State, Ask, slaveVars
<1>2. /\ Target \in Nat /\ Ask(s) \in Nat /\ State(s) \in Nat
      /\ Target' \in Nat
      /\ \A m \in fastTo[s] : Level(m) \in Nat
    <2>1. Target' \in Nat
        BY TargetType
    <2>2. ASSUME NEW m \in fastTo[s] PROVE Level(m) \in Nat
        BY LevelType DEF TypeOK
    <2> QED BY <2>1, <2>2, StateType
<1>3. \A m \in fastTo'[s] : m.frame >= 1 /\ Level(m) <= Target'
    <2> SUFFICES ASSUME NEW m \in fastTo'[s], m \in fastTo[s]
                 PROVE  m.frame >= 1 /\ Level(m) <= Target'
        OBVIOUS
    <2> QED BY <1>2 DEF LevelOf
<1>4. \A p \in fastFrom'[s] : p.frame >= 1 /\ Level(p) <= State(s)'
    BY <1>1 DEF LevelOf
<1>5. Ask(s)' <= Target' /\ State(s)' <= Ask(s)'
    BY <1>1, <1>2 DEF LevelOf
<1> QED BY <1>1, <1>3, <1>4, <1>5 DEF LevelOf, slaveVars

LEMMA MasterSync ==
    ASSUME IdsMatch, NoReset, IInv, IInv => CoreInv', MasterNext
    PROVE  SyncInv'
<1> TypeOK /\ TypeOK'
    BY DEF IInv, CoreInv
<1>1. UNCHANGED <<slaveVars, threadVars>>
    BY DEF MasterNext, veMPRenderRun, SlavesInit, BeginFrame, PokeRender, BeginSwap,
           PokeSwap, EndFrame, veMPRenderExit, SlavesStopped, MasterRecvReliable,
           MasterRecvFast, master_render_cback, slaveVars, threadVars
<1>2. ASSUME NEW s \in Sync PROVE s \in Slave /\ WindowsOf(s)'
    BY <1>1, <1>2, WindowsKept DEF IInv, SyncInv, Sync, slaveVars, threadVars
<1> USE DEF masterVars, seenVars, relVars, fastVars
<1>3. CASE veMPRenderRun \/ veMPRenderExit \/ SlavesStopped
    <2>1. /\ UNCHANGED <<slave_ready_frame, slave_ready_swapped, seenVars, fastVars>>
          /\ pc' = pc \/ pc' = "init"
        BY <1>3 DEF veMPRenderRun, veMPRenderExit, SlavesStopped
    <2>2. Target' = Target
        BY <2>1 DEF Target
    <2>3. ASSUME NEW s \in Slave PROVE LevelOf(s)' /\ State(s)' = State(s)
        <3>1. LevelOf(s)
            BY DEF IInv, SyncInv
        <3>2. s \in inited' => Seen(s)' <= State(s)
            BY <2>1, <3>1 DEF LevelOf, Seen
        <3>3. /\ \A m \in fastTo'[s] :
                    m \in fastTo[s] \/ (m.frame >= 1 /\ Level(m) <= Target')
              /\ fastFrom'[s] \subseteq fastFrom[s]
            BY <2>1
        <3>4. Target <= Target'
            BY <2>2, StateType
        <3> QED BY <1>1, <3>1, <3>2, <3>3, <3>4, LevelKept
    <2>4. ASSUME NEW s \in Sync PROVE LagOf(s)'
        BY <1>1, <1>2, <2>1, <2>2, <2>3, <2>4
        DEF IInv, SyncInv, LagOf, HasThreads, slaveVars
    <2> QED BY <1>2, <2>1, <2>3, <2>4 DEF IInv, SyncInv, PhaseInv
<1>4. CASE SlavesInit
    <2>1. /\ UNCHANGED <<slave_ready_frame, slave_ready_swapped, seenVars, fastVars>>
          /\ pc' = "idle" /\ pc = "init" /\ inited = Slave
        BY <1>4 DEF SlavesInit
    <2>2. Target' = Target /\ Target = 1 /\ slave_ready_swapped = 1
        BY <2>1 DEF Target, IInv, CoreInv, StartInv
    <2>3. ASSUME NEW s \in Slave PROVE LevelOf(s)' /\ State(s)' = State(s)
        <3>1. LevelOf(s)
            BY DEF IInv, SyncInv
        <3>2. s \in inited' => Seen(s)' <= State(s)
            BY <2>1, <3>1 DEF LevelOf, Seen
        <3>3. /\ \A m \in fastTo'[s] :
                    m \in fastTo[s] \/ (m.frame >= 1 /\ Level(m) <= Target')
              /\ fastFrom'[s] \subseteq fastFrom[s]
            BY <2>1
        <3>4. Target <= Target'
            BY <2>2, StateType
        <3> QED BY <1>1, <3>1, <3>2, <3>3, <3>4, LevelKept
    <2>4. ASSUME NEW s \in Sync PROVE LagOf(s)'
        <3>1. HasThreads(s)
            BY <1>2, <2>1, <2>4 DEF IInv, CoreInv, StartInv, Stage, Connected,
                                    Starting, Reported, NotUp, Up
        <3>2. State(s) >= 1 /\ State(s) <= Target
            BY <1>2, <2>4, <3>1, StateType DEF IInv, SyncInv, LagOf, LevelOf
        <3>3. State(s) = Target
            BY <1>2, <2>2, <2>4, <3>2, StateType
        <3> QED BY <1>1, <1>2, <2>1, <2>2, <2>3, <2>4, <3>3
                DEF IInv, SyncInv, LagOf, HasThreads, slaveVars
    <2> QED BY <1>2, <2>1, <2>2, <2>3, <2>4 DEF IInv, SyncInv, PhaseInv
<1>5. CASE BeginFrame
    <2>1. /\ UNCHANGED <<seenVars, fastFrom>>
          /\ pc' = "render" /\ pc = "idle"
          /\ slave_ready_frame' = slave_ready_frame + 1 /\ slave_ready_swapped' = 0
          /\ \A s \in Slave :
                fastTo'[s] = fastTo[s] \cup {Message("RENDER", slave_ready_frame')}
        BY <1>5, FrameAssumption DEF BeginFrame, SendAll, NextFrame, NoReset, TypeOK
    <2>2. Target' = Target + 1 /\ slave_ready_frame' >= 1
        BY <2>1 DEF Target, IInv, SyncInv, PhaseInv, TypeOK
    <2>3. /\ Level(Message("RENDER", slave_ready_frame')) = Target'
          /\ Message("RENDER", slave_ready_frame').frame = slave_ready_frame'
        <3>1. slave_ready_frame' \in Nat
            BY DEF TypeOK
        <3>2. Target' = 2 * slave_ready_frame' + slave_ready_swapped'
            BY DEF Target
        <3>3. Target' = 2 * slave_ready_frame'
            BY <2>1, <3>1, <3>2
        <3> QED BY <3>1, <3>3, MessageLevel
    <2>4. ASSUME NEW s \in Slave PROVE LevelOf(s)' /\ State(s)' = State(s)
        <3>1. LevelOf(s)
            BY DEF IInv, SyncInv
        <3>2. s \in inited' => Seen(s)' <= State(s)
            BY <2>1, <3>1 DEF LevelOf, Seen
        <3>3. \A m \in fastTo'[s] :
                 m \in fastTo[s] \/ (m.frame >= 1 /\ Level(m) <= Target')
            BY <2>1, <2>2, <2>3, StateType
        <3>4. Target <= Target' /\ fastFrom'[s] \subseteq fastFrom[s]
            BY <2>1, <2>2, StateType
        <3> QED BY <1>1, <3>1, <3>2, <3>3, <3>4, LevelKept
    <2>5. ASSUME NEW s \in Sync PROVE LagOf(s)'
        BY <1>1, <1>2, <2>1, <2>2, <2>4, <2>5, StateType
        DEF IInv, SyncInv, LagOf, HasThreads, slaveVars
    <2> QED BY <1>2, <2>1, <2>2, <2>4, <2>5 DEF SyncInv, PhaseInv
<1>6. CASE PokeRender \/ PokeSwap
    <2> DEFINE tag == IF pc = "render" THEN "RENDER" ELSE "SWAP"
    <2>1. /\ UNCHANGED <<masterVars, fastFrom>> /\ pc \in {"render", "swap"}
          /\ \A s \in Slave : \A m \in fastTo'[s] :
                m \in fastTo[s] \/ m = Message(tag, slave_ready_frame)
        <3>1. CASE PokeRender
            BY <1>6, <3>1 DEF PokeRender, PokeUnready
        <3>2. CASE PokeSwap
            BY <1>6, <3>2 DEF PokeSwap, PokeUnready
        <3> QED BY <1>6, <3>1, <3>2
    <2>2. Target' = Target /\ slave_ready_frame >= 1
        BY <2>1 DEF Target, IInv, SyncInv, PhaseInv
    <2>3. /\ Level(Message(tag, slave_ready_frame)) = Target
          /\ Message(tag, slave_ready_frame).frame = slave_ready_frame
        <3>1. slave_ready_frame \in Nat
            BY DEF TypeOK
        <3>2. CASE pc = "render"
            <4>1. tag = "RENDER" /\ Target = 2 * slave_ready_frame
                BY <3>1, <3>2 DEF Target, IInv, SyncInv, PhaseInv
            <4> QED BY <3>1, <4>1, MessageLevel
        <3>3. CASE pc = "swap"
            <4>1. tag = "SWAP" /\ Target = 2 * slave_ready_frame + 1
                BY <3>1, <3>3 DEF Target, IInv, SyncInv, PhaseInv
            <4> QED BY <3>1, <4>1, MessageLevel
        <3> QED BY <2>1, <3>2, <3>3
    <2>4. ASSUME NEW s \in Slave PROVE LevelOf(s)' /\ State(s)' = State(s)
        <3>1. LevelOf(s)
            BY DEF IInv, SyncInv
        <3>2. s \in inited' => Seen(s)' <= State(s)
            BY <2>1, <3>1 DEF LevelOf, Seen
        <3>3. \A m \in fastTo'[s] :
                 m \in fastTo[s] \/ (m.frame >= 1 /\ Level(m) <= Target')
            BY <2>1, <2>2, <2>3, StateType
        <3>4. Target <= Target' /\ fastFrom'[s] \subseteq fastFrom[s]
            BY <2>1, <2>2, StateType
        <3> QED BY <1>1, <3>1, <3>2, <3>3, <3>4, LevelKept
    <2>5. ASSUME NEW s \in Sync PROVE LagOf(s)'
        BY <1>1, <1>2, <2>1, <2>2, <2>4, <2>5
        DEF IInv, SyncInv, LagOf, HasThreads, slaveVars
    <2> QED BY <1>2, <2>1, <2>4, <2>5 DEF IInv, SyncInv, PhaseInv
<1>7. CASE BeginSwap
    <2>1. /\ UNCHANGED <<slave_ready_frame, seenVars, fastFrom>>
          /\ pc' = "swap" /\ pc = "render" /\ slave_ready_swapped' = 1
          /\ slaves_are_ready
          /\ \A s \in Slave :
                fastTo'[s] = fastTo[s] \cup {Message("SWAP", slave_ready_frame)}
        BY <1>7 DEF BeginSwap, SendAll
    <2>2. Target' = Target + 1 /\ slave_ready_frame >= 1
        BY <2>1 DEF Target, IInv, SyncInv, PhaseInv, TypeOK
    <2>3. /\ Level(Message("SWAP", slave_ready_frame)) = Target'
          /\ Message("SWAP", slave_ready_frame).frame = slave_ready_frame
        <3>1. slave_ready_frame \in Nat
            BY DEF TypeOK
        <3> QED BY <2>1, <3>1, MessageLevel DEF Target
    <2>4. ASSUME NEW s \in Slave PROVE LevelOf(s)' /\ State(s)' = State(s)
        <3>1. LevelOf(s)
            BY DEF IInv, SyncInv
        <3>2. s \in inited' => Seen(s)' <= State(s)
            BY <2>1, <3>1 DEF LevelOf, Seen
        <3>3. \A m \in fastTo'[s] :
                 m \in fastTo[s] \/ (m.frame >= 1 /\ Level(m) <= Target')
            BY <2>1, <2>2, <2>3, StateType
        <3>4. Target <= Target' /\ fastFrom'[s] \subseteq fastFrom[s]
            BY <2>1, <2>2, StateType
        <3> QED BY <1>1, <3>1, <3>2, <3>3, <3>4, LevelKept
    <2>5. ASSUME NEW s \in Sync PROVE LagOf(s)'
        <3>1. State(s) = Target
            BY <2>1, ReadyMeansThere
        <3> QED BY <1>1, <1>2, <2>1, <2>2, <2>4, <2>5, <3>1, StateType
                DEF IInv, SyncInv, LagOf, HasThreads, slaveVars
    <2> QED BY <1>2, <2>1, <2>2, <2>4, <2>5 DEF SyncInv, PhaseInv
<1>8. CASE EndFrame
    <2>1. /\ UNCHANGED <<slave_ready_frame, slave_ready_swapped, seenVars, fastVars>>
          /\ pc' = "idle" /\ pc = "swap" /\ slaves_are_ready
        BY <1>8 DEF EndFrame
    <2>2. Target' = Target
        BY <2>1 DEF Target
    <2>3. ASSUME NEW s \in Slave PROVE LevelOf(s)' /\ State(s)' = State(s)
        <3>1. LevelOf(s)
            BY DEF IInv, SyncInv
        <3>2. s \in inited' => Seen(s)' <= State(s)
            BY <2>1, <3>1 DEF LevelOf, Seen
        <3>3. /\ \A m \in fastTo'[s] :
                    m \in fastTo[s] \/ (m.frame >= 1 /\ Level(m) <= Target')
              /\ fastFrom'[s] \subseteq fastFrom[s]
            BY <2>1
        <3>4. Target <= Target'
            BY <2>2, StateType
        <3> QED BY <1>1, <3>1, <3>2, <3>3, <3>4, LevelKept
    <2>4. ASSUME NEW s \in Sync PROVE LagOf(s)'
        <3>1. State(s) = Target
            BY <2>1, ReadyMeansThere
        <3> QED BY <1>1, <1>2, <2>1, <2>2, <2>3, <2>4, <3>1
                DEF IInv, SyncInv, LagOf, HasThreads, slaveVars
    <2> QED BY <1>2, <2>1, <2>3, <2>4 DEF IInv, SyncInv, PhaseInv
<1>9. ASSUME NEW s \in Slave,
             \/ MasterRecvReliable(s)
             \/ \E p \in fastFrom[s] : MasterRecvFast(s, p)
      PROVE  SyncInv'
    <2>1. /\ UNCHANGED <<pc, slave_ready_frame, slave_ready_swapped, fastVars>>
          /\ \E p : master_render_cback(s, p)
        BY <1>9 DEF MasterRecvReliable, MasterRecvFast, master_render_cback, IdsMatch
    <2>2. ASSUME NEW r \in Slave, r # s
          PROVE  (r \in inited' <=> r \in inited) /\ Seen(r)' = Seen(r)
        <3>1. PICK p : master_render_cback(s, p)
            BY <2>1
        <3>2. seen_active'[r] = seen_active[r] /\ seen_swapped'[r] = seen_swapped[r]
            BY <2>2, <3>1 DEF master_render_cback, TypeOK
        <3> QED BY <2>2, <3>1, <3>2 DEF master_render_cback, Seen
    <2>3. Target' = Target
        BY <2>1 DEF Target
    <2>4. s \in inited' => Seen(s)' <= State(s)
        <3>1. LevelOf(s) /\ State(s) \in Nat /\ Seen(s) \in Nat
            BY StateType DEF IInv, SyncInv
        <3>2. ASSUME NEW p \in fastFrom[s], master_render_cback(s, p)
              PROVE  s \in inited' => Seen(s)' <= State(s)
            <4>1. /\ p.tag \in {"RENDER", "SWAP"} /\ p.frame \in Nat
                  /\ p.tag = "RENDER" => Level(p) = 2 * p.frame
                  /\ p.tag = "SWAP" => Level(p) = 2 * p.frame + 1
                BY LevelType DEF TypeOK
            <4>2. inited' = inited
                BY <3>2, <4>1 DEF master_render_cback
            <4>3. Level(p) <= State(s)
                BY <3>1 DEF LevelOf
            <4>4. CASE Newer(s, p)
                <5>1. /\ seen_active'[s] = p.frame
                      /\ seen_swapped'[s] = IF p.tag = "SWAP" THEN 1 ELSE 0
                    BY <3>2, <4>4 DEF master_render_cback, TypeOK
                <5>2. Seen(s)' = 2 * p.frame + IF p.tag = "SWAP" THEN 1 ELSE 0
                    BY <5>1 DEF Seen
                <5>3. Seen(s)' = Level(p)
                    BY <4>1, <5>2
                <5> QED BY <4>3, <5>3
            <4>5. CASE ~Newer(s, p)
                <5>1. Seen(s)' = Seen(s)
                    BY <3>2, <4>5 DEF master_render_cback, Seen
                <5> QED BY <3>1, <4>2, <5>1 DEF LevelOf
            <4> QED BY <4>4, <4>5
        <3>3. CASE MasterRecvReliable(s)
            <4> DEFINE p == Head(relFrom[s])
            <4>1. master_render_cback(s, p) /\ relFrom[s] # <<>>
                BY <3>3 DEF MasterRecvReliable, IdsMatch
            <4>2. CASE Reported(s) /\ relFrom[s] = <<Message("SWAP", 0), RUN>>
                <5>1. p = Message("SWAP", 0) /\ s \notin inited
                    BY <4>2, ShortSequences DEF Reported, NotUp
                <5> QED BY <4>1, <5>1, MessagesDiffer DEF master_render_cback
            <4>3. CASE Reported(s) /\ relFrom[s] = <<RUN>>
                <5>1. p = RUN /\ Seen(s) = 1 /\ State(s) = 1
                    BY <4>3, ShortSequences DEF Reported, NotUp, Seen, State
                <5>2. UNCHANGED <<seen_active, seen_swapped>>
                    BY <4>1, <5>1, MessagesDiffer
                    DEF master_render_cback, Newer, NewerRender, NewerSwap
                <5>3. Seen(s)' = Seen(s)
                    BY <5>2 DEF Seen
                <5> QED BY <5>1, <5>3
            <4>4. CASE Up(s)
                <5>1. p = EXIT
                    BY <4>1, <4>4, ShortSequences DEF Up
                <5>2. UNCHANGED <<seen_active, seen_swapped>>
                    BY <4>1, <5>1, MessagesDiffer
                    DEF master_render_cback, Newer, NewerRender, NewerSwap
                <5>3. Seen(s)' = Seen(s) /\ s \in inited
                    BY <4>4, <5>2 DEF Seen, Up
                <5> QED BY <3>1, <5>3 DEF LevelOf
            <4>5. Reported(s) \/ Up(s)
                BY <4>1 DEF IInv, CoreInv, StartInv, Stage, Connected, Starting
            <4> QED BY <4>2, <4>3, <4>4, <4>5 DEF Reported
        <3> QED BY <1>9, <3>2, <3>3 DEF MasterRecvFast, IdsMatch
    <2>5. ASSUME NEW r \in Slave PROVE LevelOf(r)' /\ State(r)' = State(r)
        <3>1. LevelOf(r)
            BY DEF IInv, SyncInv
        <3>2. r \in inited' => Seen(r)' <= State(r)
            BY <2>2, <2>4, <3>1 DEF LevelOf
        <3>3. /\ \A m \in fastTo'[r] :
                    m \in fastTo[r] \/ (m.frame >= 1 /\ Level(m) <= Target')
              /\ fastFrom'[r] \subseteq fastFrom[r]
            BY <2>1
        <3>4. Target <= Target'
            BY <2>3, StateType
        <3> QED BY <1>1, <3>1, <3>2, <3>3, <3>4, LevelKept
    <2>6. ASSUME NEW r \in Sync PROVE LagOf(r)'
        BY <1>1, <1>2, <2>1, <2>3, <2>5, <2>6
        DEF IInv, SyncInv, LagOf, HasThreads, slaveVars
    <2> QED BY <1>2, <2>1, <2>5, <2>6 DEF IInv, SyncInv, PhaseInv
<1> QED BY <1>3, <1>4, <1>5, <1>6, <1>7, <1>8, <1>9 DEF MasterNext

\* What a step of slave s has to respect.
LEMMA OwnLevelKept ==
    ASSUME NEW s \in Slave, TypeOK, LevelOf(s), UNCHANGED masterVars,
           fastTo'[s] = fastTo[s],
           State(s)' \in Nat, State(s) <= State(s)',
           \A p \in fastFrom'[s] :
               p \in fastFrom[s] \/ (p.frame >= 1 /\ Level(p) <= State(s)'),
           State(s)' <= Ask(s)', Ask(s)' <= Target,
           at'[s] \in {"unswapped", "entry", "exit"} => handling'[s] > active_frame'[s],
           at'[s] = "swap" => handling'[s] >= 1
    PROVE  LevelOf(s)'
<1>1. Target' = Target /\ Seen(s)' = Seen(s) /\ inited' = inited
    BY DEF masterVars, seenVars, Target, Seen
<1>2. \A p \in fastFrom[s] : Level(p) \in Nat
    BY LevelType DEF TypeOK
<1>3. State(s) \in Nat /\ Seen(s) \in Nat
    BY StateType
<1>4. \A p \in fastFrom'[s] : p.frame >= 1 /\ Level(p) <= State(s)'
    <2> SUFFICES ASSUME NEW p \in fastFrom'[s], p \in fastFrom[s]
                 PROVE  p.frame >= 1 /\ Level(p) <= State(s)'
        OBVIOUS
    <2> QED BY <1>2, <1>3 DEF LevelOf
<1>5. s \in inited' => Seen(s)' <= State(s)'
    BY <1>1, <1>3 DEF LevelOf
<1> QED BY <1>1, <1>4, <1>5 DEF LevelOf

LEMMA SlaveSync ==
    ASSUME IInv, NEW s \in Slave, SlaveNext(s)
    PROVE  SyncInv'
<1> TypeOK /\ LevelOf(s)
    BY DEF IInv, CoreInv, SyncInv
<1> USE DEF slaveVars, threadVars, relVars, fastVars
<1>1. UNCHANGED <<masterVars, fastTo>>
    BY DEF SlaveNext, SlaveWindow, SlaveRun, SlaveExit, SlaveRecvFast, SlaveRender,
           SlaveRenderAgain, SlaveSwap, SlaveSwapUnrendered, SlaveSwapAgain, Reply,
           PassStart, PassUnswapped, PassEntry, PassExit, PassSwap, RenderWindows,
           SwapWindows
<1>2. Target' = Target /\ pc' = pc /\ PhaseInv'
    BY <1>1 DEF masterVars, Target, PhaseInv, IInv, SyncInv
<1>3. ASSUME NEW r \in Slave, r # s
      PROVE  LevelOf(r)' /\ (r \in Sync => LagOf(r)' /\ WindowsOf(r)')
    <2>1. /\ at'[r] = at[r] /\ thr'[r] = thr[r] /\ handling'[r] = handling[r]
          /\ active_frame'[r] = active_frame[r] /\ swapped'[r] = swapped[r]
          /\ life'[r] = life[r] /\ back'[r] = back[r] /\ front'[r] = front[r]
          /\ fastFrom'[r] = fastFrom[r]
        BY <1>3
        DEF TypeOK, Move, Reply, SlaveNext, SlaveWindow, SlaveRun, SlaveExit,
            SlaveRecvFast, SlaveRender, SlaveRenderAgain, SlaveSwap,
            SlaveSwapUnrendered, SlaveSwapAgain, PassStart, PassUnswapped, PassEntry,
            PassExit, PassSwap, RenderWindows, SwapWindows
    <2>2. State(r)' = State(r) /\ Ask(r)' = Ask(r) /\ (HasThreads(r)' <=> HasThreads(r))
        BY <2>1 DEF State, Ask, HasThreads
    <2>3. LevelOf(r) /\ (r \in Sync => LagOf(r) /\ WindowsOf(r))
        BY DEF IInv, SyncInv
    <2>4. Seen(r)' = Seen(r) /\ inited' = inited
        BY <1>1 DEF masterVars, seenVars, Seen
    <2>5. LevelOf(r)'
        BY <1>1, <1>2, <2>1, <2>2, <2>3, <2>4 DEF LevelOf
    <2>6. r \in Sync => LagOf(r)' /\ WindowsOf(r)'
        BY <1>2, <2>1, <2>2, <2>3, WindowsKept DEF LagOf
    <2> QED BY <2>5, <2>6
<1>4. /\ active_frame[s] \in Nat /\ handling[s] \in Nat /\ swapped[s] \in {0, 1}
      /\ Target \in Nat /\ State(s) \in Nat /\ Ask(s) \in Nat
      /\ State(s) = 2 * active_frame[s] + swapped[s]
      /\ State(s) <= Ask(s) /\ Ask(s) <= Target
    BY StateType DEF State, LevelOf
<1>5. s \in Sync => LagOf(s) /\ WindowsOf(s)
    BY DEF IInv, SyncInv
<1>6. /\ at[s] = "start" => swapped[s] = 1
      /\ at[s] \in {"unswapped", "swap"} => swapped[s] = 0
      /\ ~HasThreads(s) => at[s] = "idle" /\ \A t \in Thread : thr[s][t] = "none"
    BY DEF IInv, CoreInv, ThreadInv
<1> SUFFICES LevelOf(s)' /\ (s \in Sync => LagOf(s)' /\ WindowsOf(s)')
    BY <1>2, <1>3 DEF SyncInv, Sync
\* Steps that change neither the slave's state nor what it is asked for.
<1>7. ASSUME UNCHANGED <<active_frame, swapped, handling>>, Ask(s)' = Ask(s),
             fastFrom'[s] = fastFrom[s],
             at'[s] \in {"unswapped", "entry", "exit"} =>
                at[s] \in {"unswapped", "entry", "exit"},
             at'[s] = "swap" => at[s] = "swap"
      PROVE  LevelOf(s)' /\ State(s)' = State(s)
    <2>1. State(s)' = State(s)
        BY <1>7 DEF State
    <2>2. /\ at'[s] \in {"unswapped", "entry", "exit"} => handling'[s] > active_frame'[s]
          /\ at'[s] = "swap" => handling'[s] >= 1
        BY <1>7 DEF LevelOf
    <2> QED BY <1>1, <1>4, <1>7, <2>1, <2>2, OwnLevelKept
<1>8. CASE SlaveWindow(s) \/ SlaveExit(s)
    <2>1. /\ UNCHANGED <<active_frame, swapped, at, handling, thr, back, front, fastFrom>>
          /\ HasThreads(s)' <=> HasThreads(s)
        <3>1. CASE SlaveWindow(s)
            BY <3>1 DEF SlaveWindow, HasThreads, TypeOK
        <3>2. CASE SlaveExit(s)
            <4>1. HasThreads(s)
                BY <3>2, MessagesDiffer, ShortSequences
                DEF IInv, CoreInv, StartInv, Stage, Connected, Starting, Reported, Up,
                    SlaveExit, HeadIs
            <4> QED BY <3>2, <4>1 DEF SlaveExit, HasThreads, TypeOK
        <3> QED BY <1>8, <3>1, <3>2
    <2>2. Ask(s)' = Ask(s)
        BY <2>1 DEF Ask, State
    <2>3. LevelOf(s)' /\ State(s)' = State(s)
        BY <1>7, <2>1, <2>2
    <2>4. ASSUME s \in Sync PROVE LagOf(s)'
        BY <1>2, <1>5, <2>1, <2>3, <2>4 DEF LagOf
    <2>5. ASSUME s \in Sync PROVE WindowsOf(s)'
        BY <1>5, <2>1, <2>5, WindowsKept
    <2> QED BY <2>3, <2>4, <2>5
<1>9. CASE SlaveRun(s)
    <2>1. Connected(s) /\ HasThreads(s)' /\ Target = 1 /\ pc = "init"
        <3>1. Connected(s) /\ pc = "init"
            BY <1>9, MessagesDiffer, ShortSequences
            DEF IInv, CoreInv, StartInv, Stage, Connected, Starting, Reported, Up, NotUp,
                SlaveRun, HeadIs
        <3> QED BY <1>9, <3>1
                DEF IInv, CoreInv, StartInv, HasThreads, SlaveRun, Target, TypeOK
    <2>2. /\ active_frame'[s] = 0 /\ swapped'[s] = 1 /\ at'[s] = "start"
          /\ fastFrom'[s] = fastFrom[s] /\ active_frame[s] = 0 /\ swapped[s] = 0
          /\ back' = back /\ front' = front /\ handling' = handling
          /\ \A t \in Thread : thr'[s][t] = "start"
        BY <1>9, <2>1 DEF SlaveRun, Connected, NotUp, TypeOK
    <2>3. State(s)' = 1 /\ Ask(s)' = 1 /\ State(s) = 0
        BY <2>2 DEF State, Ask
    <2>4. LevelOf(s)'
        BY <1>1, <2>1, <2>2, <2>3, OwnLevelKept
    <2>5. ASSUME s \in Sync PROVE LagOf(s)'
        BY <1>2, <2>1, <2>2, <2>3 DEF LagOf
    <2>6. ASSUME s \in Sync PROVE WindowsOf(s)'
        <3>1. ASSUME NEW t \in Thread PROVE back[s][t] = 0 /\ front[s][t] = 0
            <4>1. at[s] = "idle" /\ thr[s][t] = "none"
                BY <1>6, <2>1 DEF Connected
            <4> QED BY <1>5, <2>2, <2>6, <4>1 DEF WindowsOf
        <3> QED BY <2>2, <3>1 DEF WindowsOf
    <2> QED BY <2>4, <2>5, <2>6
<1>10. ASSUME NEW m \in fastTo[s], SlaveRecvFast(s, m)
       PROVE  LevelOf(s)' /\ (s \in Sync => LagOf(s)' /\ WindowsOf(s)')
    <2>1. /\ m.frame \in Nat /\ m.frame >= 1
          /\ m.tag = "RENDER" => Level(m) = 2 * m.frame
          /\ m.tag = "SWAP" => Level(m) = 2 * m.frame + 1
          /\ Level(m) <= Target
        BY LevelType DEF TypeOK, LevelOf
    <2>2. /\ UNCHANGED <<life, thr, back, front>>
          /\ HasThreads(s)' <=> HasThreads(s)
          /\ at[s] = "idle" /\ HasThreads(s)
        <3>1. Up(s)
            BY DEF IInv, CoreInv, StartInv, Stage, Connected, Starting, Reported, NotUp
        <3> QED BY <1>10, <3>1
                DEF Up, HasThreads, Listening, SlaveRecvFast, SlaveRender,
                    SlaveRenderAgain, SlaveSwap, SlaveSwapUnrendered, SlaveSwapAgain
    <2>3. CASE SlaveRender(s, m)
        <3>1. /\ m.tag = "RENDER" /\ m.frame > active_frame[s]
              /\ at'[s] = IF swapped[s] = 0 THEN "unswapped" ELSE "entry"
              /\ handling'[s] = m.frame
              /\ UNCHANGED <<active_frame, swapped, fastFrom>>
            BY <2>1, <2>3 DEF SlaveRender, LaterFrame, TypeOK
        <3>2. State(s)' = State(s) /\ Ask(s)' = 2 * m.frame
            BY <3>1 DEF State, Ask
        <3>3. LevelOf(s)'
            BY <1>1, <1>4, <2>1, <3>1, <3>2, OwnLevelKept
        <3>4. ASSUME s \in Sync PROVE swapped[s] = 1
            BY <1>4, <1>5, <2>1, <3>1, <3>4 DEF LagOf
        <3>5. ASSUME s \in Sync PROVE LagOf(s)'
            BY <1>2, <1>5, <2>2, <3>1, <3>2, <3>4, <3>5 DEF LagOf
        <3>6. ASSUME s \in Sync PROVE WindowsOf(s)'
            BY <1>5, <2>2, <3>1, <3>4, <3>6 DEF WindowsOf
        <3> QED BY <3>3, <3>5, <3>6
    <2>4. CASE SlaveSwap(s, m)
        <3>1. /\ m.tag = "SWAP" /\ m.frame >= active_frame[s]
              /\ swapped[s] = 0 /\ at'[s] = "swap" /\ handling'[s] = m.frame
              /\ UNCHANGED <<active_frame, swapped, fastFrom>>
            BY <1>4, <2>1, <2>4 DEF SlaveSwap, LaterSwap, LaterFrame, TypeOK
        <3>2. State(s)' = State(s) /\ Ask(s)' = 2 * m.frame + 1
            BY <3>1 DEF State, Ask
        <3>3. LevelOf(s)'
            BY <1>1, <1>4, <2>1, <3>1, <3>2, OwnLevelKept
        <3>4. ASSUME s \in Sync PROVE LagOf(s)'
            BY <1>2, <1>5, <2>2, <3>1, <3>2, <3>4 DEF LagOf
        <3>5. ASSUME s \in Sync PROVE WindowsOf(s)'
            BY <1>5, <2>2, <3>1, <3>5 DEF WindowsOf
        <3> QED BY <3>3, <3>4, <3>5
    <2>5. CASE SlaveRenderAgain(s, m) \/ SlaveSwapAgain(s, m)
        <3>1. /\ UNCHANGED <<active_frame, swapped, at, handling>>
              /\ fastFrom'[s] = fastFrom[s] \cup {m}
            BY <2>5 DEF SlaveRenderAgain, SlaveSwapAgain, Reply, TypeOK
        <3>2. Level(m) <= State(s)
            BY <1>4, <2>1, <2>5
            DEF SlaveRenderAgain, SlaveSwapAgain, LaterSwap, LaterFrame
        <3>3. State(s)' = State(s) /\ Ask(s)' = Ask(s)
            BY <3>1 DEF State, Ask
        <3>4. LevelOf(s)'
            <4>1. at'[s] \notin {"unswapped", "entry", "exit", "swap"}
                BY <2>2, <3>1
            <4> QED BY <1>1, <1>4, <2>1, <3>1, <3>2, <3>3, <4>1, OwnLevelKept
        <3>5. ASSUME s \in Sync PROVE LagOf(s)'
            BY <1>2, <1>5, <2>2, <3>1, <3>3, <3>5 DEF LagOf
        <3>6. ASSUME s \in Sync PROVE WindowsOf(s)'
            BY <1>5, <2>2, <3>1, <3>6, WindowsKept
        <3> QED BY <3>4, <3>5, <3>6
    <2>6. CASE SlaveSwapUnrendered(s, m)
        <3>1. /\ m.tag = "SWAP" /\ m.frame > active_frame[s]
              /\ swapped[s] = 1 /\ active_frame'[s] = m.frame
              /\ UNCHANGED <<swapped, at, handling>>
              /\ fastFrom'[s] = fastFrom[s] \cup {m}
            BY <1>4, <2>1, <2>6
            DEF SlaveSwapUnrendered, LaterSwap, LaterFrame, Reply, TypeOK
        <3>2. State(s)' = 2 * m.frame + 1 /\ Ask(s)' = State(s)'
            BY <2>2, <3>1 DEF State, Ask
        <3>3. LevelOf(s)'
            <4>1. at'[s] \notin {"unswapped", "entry", "exit", "swap"}
                BY <2>2, <3>1
            <4> QED BY <1>1, <1>4, <2>1, <3>1, <3>2, <4>1, OwnLevelKept
        <3>4. s \notin Sync
            BY <1>4, <1>5, <2>1, <3>1 DEF LagOf
        <3> QED BY <3>3, <3>4
    <2> QED BY <1>10, <2>3, <2>4, <2>5, <2>6 DEF SlaveRecvFast
<1>11. ASSUME at[s] \in {"start", "unswapped", "entry", "exit", "swap"}
       PROVE  HasThreads(s)
    BY <1>6, <1>11
<1>12. CASE PassStart(s)
    <2>1. /\ at[s] = "start" /\ at'[s] = "idle" /\ HasThreads(s) /\ HasThreads(s)'
          /\ UNCHANGED <<active_frame, swapped, handling, back, front, fastFrom>>
          /\ \A t \in Thread : thr[s][t] = "start" /\ thr'[s][t] = "entry"
        BY <1>11, <1>12 DEF PassStart, AllAt, Move, HasThreads, TypeOK
    <2>2. Ask(s)' = Ask(s)
        BY <2>1 DEF Ask, State
    <2>3. LevelOf(s)' /\ State(s)' = State(s)
        BY <1>7, <2>1, <2>2
    <2>4. ASSUME s \in Sync PROVE LagOf(s)'
        BY <1>2, <1>5, <2>1, <2>3, <2>4 DEF LagOf
    <2>5. ASSUME s \in Sync PROVE WindowsOf(s)'
        BY <1>5, <2>1, <2>5 DEF WindowsOf
    <2> QED BY <2>3, <2>4, <2>5
<1>13. CASE PassUnswapped(s)
    <2>1. /\ at[s] = "unswapped" /\ at'[s] = "entry"
          /\ UNCHANGED <<active_frame, swapped, handling, fastFrom>>
        BY <1>13 DEF PassUnswapped, TypeOK
    <2>2. Ask(s)' = Ask(s)
        BY <2>1 DEF Ask
    <2>3. LevelOf(s)'
        BY <1>7, <2>1, <2>2
    <2>4. s \notin Sync
        BY <1>5, <2>1 DEF LagOf
    <2> QED BY <2>3, <2>4
<1>14. CASE PassEntry(s)
    <2>1. /\ at[s] = "entry" /\ at'[s] = "exit" /\ HasThreads(s) /\ HasThreads(s)'
          /\ UNCHANGED <<active_frame, swapped, handling, back, front, fastFrom>>
          /\ \A t \in Thread : thr[s][t] = "entry" /\ thr'[s][t] = "draw"
        BY <1>11, <1>14 DEF PassEntry, AllAt, Move, HasThreads, TypeOK
    <2>2. Ask(s)' = Ask(s)
        BY <2>1 DEF Ask
    <2>3. LevelOf(s)' /\ State(s)' = State(s)
        BY <1>7, <2>1, <2>2
    <2>4. ASSUME s \in Sync PROVE LagOf(s)'
        BY <1>2, <1>5, <2>1, <2>3, <2>4 DEF LagOf
    <2>5. ASSUME s \in Sync PROVE WindowsOf(s)'
        BY <1>5, <2>1, <2>5 DEF WindowsOf
    <2> QED BY <2>3, <2>4, <2>5
<1>15. CASE PassExit(s)
    <2>1. /\ at[s] = "exit" /\ at'[s] = "idle" /\ HasThreads(s) /\ HasThreads(s)'
          /\ active_frame'[s] = handling[s] /\ swapped'[s] = 0
          /\ UNCHANGED <<back, front>>
          /\ fastFrom'[s] = fastFrom[s] \cup {Message("RENDER", handling[s])}
          /\ \A t \in Thread : thr[s][t] = "exit" /\ thr'[s][t] = "swap"
        BY <1>11, <1>15 DEF PassExit, AllAt, Move, Reply, HasThreads, TypeOK
    <2>2. State(s)' = 2 * handling[s] /\ Ask(s)' = State(s)'
        <3>1. State(s)' = 2 * handling[s] + 0
            BY <2>1 DEF State
        <3>2. Ask(s)' = State(s)'
            BY <2>1 DEF Ask
        <3> QED BY <1>4, <3>1, <3>2
    <2>3. Ask(s) = 2 * handling[s] /\ handling[s] > active_frame[s]
        BY <2>1 DEF Ask, LevelOf
    <2>4. LevelOf(s)'
        <3> DEFINE m == Message("RENDER", handling[s])
        <3>1. m.frame >= 1 /\ Level(m) = State(s)'
            BY <1>4, <2>2, <2>3, MessageLevel
        <3>2. State(s)' \in Nat /\ State(s) <= State(s)'
            BY <1>4, <2>2, <2>3
        <3> QED BY <1>1, <1>4, <2>1, <2>2, <2>3, <3>1, <3>2, OwnLevelKept
    <2>5. ASSUME s \in Sync
          PROVE  /\ handling[s] = active_frame[s] + 1
                 /\ State(s)' = Target /\ State(s) < Target
        BY <1>4, <1>5, <2>1, <2>2, <2>3, <2>5 DEF LagOf
    <2>6. ASSUME s \in Sync PROVE LagOf(s)'
        BY <1>2, <1>4, <1>5, <2>1, <2>2, <2>5, <2>6 DEF LagOf
    <2>7. ASSUME s \in Sync PROVE WindowsOf(s)'
        BY <1>4, <1>5, <2>1, <2>5, <2>7 DEF WindowsOf
    <2> QED BY <2>4, <2>6, <2>7
<1>16. CASE PassSwap(s)
    <2>1. /\ at[s] = "swap" /\ at'[s] = "idle" /\ HasThreads(s) /\ HasThreads(s)'
          /\ active_frame'[s] = handling[s] /\ swapped[s] = 0 /\ swapped'[s] = 1
          /\ UNCHANGED <<back, front>>
          /\ fastFrom'[s] = fastFrom[s] \cup {Message("SWAP", handling[s])}
          /\ \A t \in Thread : thr[s][t] = "swap" /\ thr'[s][t] = "flip"
        BY <1>6, <1>11, <1>16 DEF PassSwap, AllAt, Move, Reply, HasThreads, TypeOK
    <2>2. State(s)' = 2 * handling[s] + 1 /\ Ask(s)' = State(s)'
        BY <2>1 DEF State, Ask
    <2>3. Ask(s) = 2 * handling[s] + 1 /\ handling[s] >= active_frame[s]
        <3>1. Ask(s) = 2 * handling[s] + 1
            BY <2>1 DEF Ask
        <3> QED BY <1>4, <2>1, <3>1
    <2>4. LevelOf(s)'
        <3> DEFINE m == Message("SWAP", handling[s])
        <3>1. m.frame >= 1 /\ Level(m) = State(s)'
            BY <1>4, <2>1, <2>2, MessageLevel DEF LevelOf
        <3>2. State(s)' \in Nat /\ State(s) <= State(s)'
            BY <1>4, <2>1, <2>2, <2>3
        <3> QED BY <1>1, <1>4, <2>1, <2>2, <2>3, <3>1, <3>2, OwnLevelKept
    <2>5. ASSUME s \in Sync
          PROVE  /\ handling[s] = active_frame[s]
                 /\ State(s)' = Target /\ State(s) < Target
        BY <1>4, <1>5, <2>1, <2>2, <2>3, <2>5 DEF LagOf
    <2>6. ASSUME s \in Sync PROVE LagOf(s)'
        BY <1>2, <1>4, <1>5, <2>1, <2>2, <2>5, <2>6 DEF LagOf
    <2>7. ASSUME s \in Sync PROVE WindowsOf(s)'
        BY <1>4, <1>5, <2>1, <2>5, <2>7 DEF WindowsOf
    <2> QED BY <2>4, <2>6, <2>7
<1>17. ASSUME NEW t \in Thread, RenderWindows(s, t) \/ SwapWindows(s, t)
       PROVE  LevelOf(s)' /\ (s \in Sync => LagOf(s)' /\ WindowsOf(s)')
    <2>1. /\ UNCHANGED <<active_frame, swapped, life, at, handling, fastFrom>>
          /\ HasThreads(s)' <=> HasThreads(s)
        BY <1>17 DEF RenderWindows, SwapWindows, HasThreads
    <2>2. Ask(s)' = Ask(s)
        BY <2>1 DEF Ask, State
    <2>3. LevelOf(s)' /\ State(s)' = State(s)
        BY <1>7, <2>1, <2>2
    <2>4. ASSUME s \in Sync PROVE LagOf(s)'
        BY <1>2, <1>5, <2>1, <2>3, <2>4 DEF LagOf
    <2>5. ASSUME s \in Sync, RenderWindows(s, t) PROVE WindowsOf(s)'
        <3>1. at[s] = "exit"
            BY <2>5, DrawsBetweenEntryAndExit DEF IInv, RenderWindows
        <3>2. ASSUME NEW u \in Thread, u # t
              PROVE  /\ back'[s][u] = back[s][u] /\ front'[s][u] = front[s][u]
                     /\ thr'[s][u] = thr[s][u]
            BY <2>5, <3>2 DEF RenderWindows, TypeOK
        <3>3. /\ back'[s][t] = handling[s] /\ front'[s][t] = front[s][t]
              /\ thr'[s][t] = "exit" /\ thr[s][t] = "draw"
            BY <2>5 DEF RenderWindows, TypeOK
        <3> QED BY <1>5, <2>1, <2>5, <3>1, <3>2, <3>3 DEF WindowsOf
    <2>6. ASSUME s \in Sync, SwapWindows(s, t) PROVE WindowsOf(s)'
        <3>1. ASSUME NEW u \in Thread, u # t
              PROVE  /\ back'[s][u] = back[s][u] /\ front'[s][u] = front[s][u]
                     /\ thr'[s][u] = thr[s][u]
            BY <2>6, <3>1 DEF SwapWindows, TypeOK
        <3>2. /\ back'[s][t] = back[s][t] /\ front'[s][t] = back[s][t]
              /\ thr'[s][t] = "entry" /\ thr[s][t] = "flip"
            BY <2>6 DEF SwapWindows, TypeOK
        <3> QED BY <1>5, <2>1, <2>6, <3>1, <3>2 DEF WindowsOf
    <2> QED BY <1>17, <2>3, <2>4, <2>5, <2>6
<1> QED BY <1>8, <1>9, <1>10, <1>12, <1>13, <1>14, <1>15, <1>16, <1>17 DEF SlaveNext

LEMMA OtherSync ==
    ASSUME IInv, TypeOK', Loss \/ UNCHANGED vars
    PROVE  SyncInv'
<1> TypeOK
    BY DEF IInv, CoreInv
<1>1. /\ UNCHANGED <<masterVars, slaveVars, threadVars>>
      /\ \A s \in Slave : fastTo'[s] \subseteq fastTo[s] /\ fastFrom'[s] \subseteq fastFrom[s]
    <2>1. CASE UNCHANGED vars
        BY <2>1 DEF vars, fastVars
    <2>2. ASSUME NEW s \in Slave, NEW m, LoseTo(s, m) \/ LoseFrom(s, m)
          PROVE  /\ UNCHANGED <<masterVars, slaveVars, threadVars>>
                 /\ \A r \in Slave : /\ fastTo'[r] \subseteq fastTo[r]
                                    /\ fastFrom'[r] \subseteq fastFrom[r]
        <3>1. CASE LoseTo(s, m)
            BY <3>1 DEF LoseTo, TypeOK
        <3>2. CASE LoseFrom(s, m)
            BY <3>2 DEF LoseFrom, TypeOK
        <3> QED BY <2>2, <3>1, <3>2
    <2> QED BY <2>1, <2>2, FrameAssumption DEF Loss
<1>2. Target' = Target /\ Target \in Nat
    BY <1>1, StateType DEF masterVars, Target
<1>3. ASSUME NEW s \in Slave PROVE LevelOf(s)' /\ State(s)' = State(s)
    <2>1. LevelOf(s)
        BY DEF IInv, SyncInv
    <2>2. s \in inited' => Seen(s)' <= State(s)
        BY <1>1, <2>1 DEF LevelOf, Seen, masterVars, seenVars
    <2> QED BY <1>1, <1>2, <2>1, <2>2, LevelKept
<1>4. ASSUME NEW s \in Sync PROVE LagOf(s)' /\ WindowsOf(s)'
    <2>1. s \in Slave /\ LagOf(s) /\ WindowsOf(s)
        BY DEF IInv, SyncInv, Sync
    <2>2. LagOf(s)'
        BY <1>1, <1>2, <1>3, <2>1 DEF LagOf, HasThreads, masterVars, slaveVars
    <2>3. WindowsOf(s)'
        BY <1>1, <2>1, WindowsKept DEF slaveVars, threadVars
    <2> QED BY <2>2, <2>3
<1>5. PhaseInv'
    BY <1>1 DEF masterVars, PhaseInv, IInv, SyncInv
<1> QED BY <1>3, <1>4, <1>5 DEF SyncInv

LEMMA SyncStep == IdsMatch /\ NoReset /\ IInv /\ [Next]_vars => IInv'
<1> SUFFICES ASSUME IdsMatch, NoReset, IInv, [Next]_vars PROVE IInv'
    OBVIOUS
<1>1. CoreInv'
    BY CoreStep DEF IInv
<1>2. SyncInv'
    BY <1>1, MasterSync, SlaveSync, OtherSync DEF Next, Terminated, CoreInv
<1> QED BY <1>1, <1>2 DEF IInv

-----------------------------------------------------------------------------
(* What the inductive invariant means.                                      *)

\* What a window's buffers can hold.
LEMMA Buffers ==
    ASSUME IInv, NEW s \in Sync, NEW t \in Thread
    PROVE  /\ back[s][t] >= active_frame[s] /\ front[s][t] <= active_frame[s]
           /\ swapped[s] = 0 /\ HasThreads(s) => front[s][t] = active_frame[s] - 1
           /\ ~HasThreads(s) => active_frame[s] = 0
           /\ 2 * active_frame[s] + swapped[s] <= Target
           /\ Target <= 2 * active_frame[s] + swapped[s] + 1
           /\ back[s][t] # active_frame[s] => 2 * back[s][t] <= Target
<1>1. s \in Slave /\ TypeOK /\ LevelOf(s) /\ LagOf(s) /\ WindowsOf(s)
    BY DEF IInv, CoreInv, SyncInv, Sync
<1>2. /\ active_frame[s] \in Nat /\ handling[s] \in Nat /\ swapped[s] \in {0, 1}
      /\ Target \in Nat /\ State(s) = 2 * active_frame[s] + swapped[s]
      /\ Ask(s) \in Nat /\ State(s) \in Nat
    BY <1>1, StateType DEF State
<1>3. State(s) <= Target /\ Target <= State(s) + 1
    BY <1>1, <1>2 DEF LevelOf, LagOf
<1>4. at[s] = "exit" => handling[s] > active_frame[s] /\ 2 * handling[s] <= Target
    BY <1>1, <1>2 DEF LevelOf, Ask
<1>5. ASSUME swapped[s] = 0, HasThreads(s) PROVE thr[s][t] \in {"swap", "flip"}
    <2>1. at[s] \in {"idle", "swap"}
        BY <1>1, <1>5 DEF IInv, CoreInv, ThreadInv, LagOf, TypeOK
    <2> QED BY <1>1, <1>5, <2>1 DEF IInv, CoreInv, BarriersAgree
<1>6. ~HasThreads(s) => active_frame[s] = 0
    BY <1>1 DEF IInv, CoreInv, StartInv, Stage, Connected, Starting, Reported, Up, NotUp
<1> QED BY <1>1, <1>2, <1>3, <1>4, <1>5, <1>6 DEF WindowsOf

LEMMA InvShown == IInv => ShownOnlyWhenAllDrawn
<1> SUFFICES ASSUME IInv, NEW s \in Sync, NEW r \in Sync, NEW t \in Thread, NEW u \in Thread
             PROVE  front[s][t] <= back[r][u]
    BY DEF ShownOnlyWhenAllDrawn
<1>1. /\ active_frame[s] \in Nat /\ swapped[s] \in {0, 1}
      /\ active_frame[r] \in Nat /\ swapped[r] \in {0, 1} /\ Target \in Nat
      /\ front[s][t] \in Nat /\ back[r][u] \in Nat
    BY StateType DEF IInv, CoreInv, TypeOK, Sync
<1>2. CASE active_frame[s] <= active_frame[r]
    BY <1>1, <1>2, Buffers
<1>3. CASE active_frame[s] > active_frame[r]
    <2>1. active_frame[s] = active_frame[r] + 1 /\ swapped[s] = 0
        BY <1>1, <1>3, Buffers
    <2>2. HasThreads(s)
        BY <1>1, <1>3, Buffers
    <2> QED BY <1>1, <2>1, <2>2, Buffers
<1> QED BY <1>1, <1>2, <1>3

LEMMA InvDrawn == IInv => DrawnBeforeSwap
<1> SUFFICES ASSUME IInv, pc = "swap", NEW s \in Sync, NEW t \in Thread
             PROVE  back[s][t] = slave_ready_frame
    BY DEF DrawnBeforeSwap
<1>1. /\ active_frame[s] \in Nat /\ swapped[s] \in {0, 1} /\ back[s][t] \in Nat
      /\ slave_ready_frame \in Nat /\ Target = 2 * slave_ready_frame + 1
    BY StateType DEF IInv, CoreInv, TypeOK, Sync, SyncInv, PhaseInv, Target
<1>2. active_frame[s] = slave_ready_frame
    BY <1>1, Buffers
<1> QED BY <1>1, <1>2, Buffers

LEMMA InvComplete == IInv => FrameCompleteEverywhere /\ RecordsAreReported
BY DEF IInv, CoreInv, TypeOK, SyncInv, LagOf, LevelOf, FrameCompleteEverywhere,
       RecordsAreReported

\* The frame lock of ve_mp_render.c, for any number of slaves, threads and
\* frames and any mix of synchronous and asynchronous windows, over a network
\* that loses, repeats and reorders datagrams: nothing is shown before all
\* have drawn it, SWAP follows the drawing of that very frame, a frame call
\* returns with all synchronous slaves in the state it asked for, and the
\* master believes nothing that has not happened.  Without the assumptions it
\* does not hold.
THEOREM FrameLock ==
    ASSUME IdsMatch, NoReset
    PROVE  Spec => [](/\ ShownOnlyWhenAllDrawn /\ DrawnBeforeSwap
                      /\ FrameCompleteEverywhere /\ RecordsAreReported)
<1>1. Init => IInv
    BY CoreInit, SyncInit DEF IInv
<1>2. IInv /\ [Next]_vars => IInv'
    BY SyncStep
<1> QED BY <1>1, <1>2, InvShown, InvDrawn, InvComplete, PTL DEF Spec

\* When a call of veMPRenderFrame returns, all synchronous slaves have done what
\* it asked for.
THEOREM CompleteEverywhere ==
    ASSUME IdsMatch, NoReset
    PROVE  Spec => []FrameCompleteEverywhere
BY FrameLock, PTL

\* A slave never goes back to an earlier state.
LEMMA NeverBack ==
    ASSUME IInv, NEW s \in Slave, SlaveNext(s)
    PROVE  State(s) <= State(s)' /\ \A r \in Slave \ {s} : State(r)' = State(r)
<1> TypeOK /\ LevelOf(s)
    BY DEF IInv, CoreInv, SyncInv
<1>1. /\ active_frame[s] \in Nat /\ handling[s] \in Nat /\ swapped[s] \in {0, 1}
      /\ State(s) \in Nat /\ State(s) = 2 * active_frame[s] + swapped[s]
      /\ State(s)' = 2 * active_frame'[s] + swapped'[s]
      /\ State(s) <= Ask(s)
    BY StateType DEF State, LevelOf
<1>2. CASE UNCHANGED <<active_frame, swapped>>
    BY <1>1, <1>2 DEF State
<1>3. ASSUME NEW f \in Nat, NEW b \in {0, 1},
             active_frame' = [active_frame EXCEPT ![s] = f],
             swapped' = [swapped EXCEPT ![s] = b],
             2 * active_frame[s] + swapped[s] <= 2 * f + b
      PROVE  State(s) <= State(s)' /\ \A r \in Slave \ {s} : State(r)' = State(r)
    <2>1. active_frame'[s] = f /\ swapped'[s] = b
        BY <1>3 DEF TypeOK
    <2>2. ASSUME NEW r \in Slave \ {s} PROVE State(r)' = State(r)
        <3>1. active_frame'[r] = active_frame[r] /\ swapped'[r] = swapped[r]
            BY <1>3 DEF TypeOK
        <3> QED BY <3>1 DEF State
    <2> QED BY <1>1, <1>3, <2>1, <2>2
<1>4. active_frame = [active_frame EXCEPT ![s] = active_frame[s]]
      /\ swapped = [swapped EXCEPT ![s] = swapped[s]]
    BY DEF TypeOK
<1>5. CASE SlaveRun(s)
    <2>1. swapped' = [swapped EXCEPT ![s] = 1] /\ active_frame' = active_frame
        BY <1>5 DEF SlaveRun
    <2>2. 2 * active_frame[s] + swapped[s] <= 2 * active_frame[s] + 1
        BY <1>1
    <2> QED BY <1>1, <1>3, <1>4, <2>1, <2>2
<1>6. ASSUME NEW m \in fastTo[s], SlaveSwapUnrendered(s, m)
      PROVE  State(s) <= State(s)' /\ \A r \in Slave \ {s} : State(r)' = State(r)
    <2>1. /\ m.frame \in Nat /\ m.frame >= 1
          /\ active_frame' = [active_frame EXCEPT ![s] = m.frame] /\ swapped' = swapped
          /\ swapped[s] = 1
        BY <1>6, LevelType DEF TypeOK, LevelOf, SlaveSwapUnrendered
    <2>2. 2 * active_frame[s] + swapped[s] <= 2 * m.frame + 1
        BY <1>1, <1>6, <2>1 DEF SlaveSwapUnrendered, LaterSwap, LaterFrame
    <2> QED BY <1>3, <1>4, <2>1, <2>2
<1>7. CASE PassExit(s)
    <2>1. /\ active_frame' = [active_frame EXCEPT ![s] = handling[s]]
          /\ swapped' = [swapped EXCEPT ![s] = 0]
          /\ handling[s] > active_frame[s]
        BY <1>7 DEF PassExit, LevelOf
    <2>2. 2 * active_frame[s] + swapped[s] <= 2 * handling[s] + 0
        BY <1>1, <2>1
    <2> QED BY <1>1, <1>3, <2>1, <2>2
<1>8. CASE PassSwap(s)
    <2>1. /\ active_frame' = [active_frame EXCEPT ![s] = handling[s]]
          /\ swapped' = [swapped EXCEPT ![s] = 1]
          /\ Ask(s) = 2 * handling[s] + 1
        BY <1>8 DEF PassSwap, Ask
    <2>2. 2 * active_frame[s] + swapped[s] <= 2 * handling[s] + 1
        BY <1>1, <2>1
    <2> QED BY <1>1, <1>3, <2>1, <2>2
<1> QED BY <1>2, <1>5, <1>6, <1>7, <1>8
        DEF SlaveNext, SlaveWindow, SlaveExit, SlaveRecvFast, SlaveRender,
            SlaveRenderAgain, SlaveSwap, SlaveSwapAgain, PassStart, PassUnswapped,
            PassEntry, RenderWindows, SwapWindows, slaveVars

\* Only SwapWindows changes a screen, and then to the frame after the one shown.
LEMMA ScreensAdvance ==
    ASSUME IInv, [Next]_vars, NEW s \in Sync, NEW t \in Thread
    PROVE  front'[s][t] \in {front[s][t], front[s][t] + 1}
<1>1. s \in Slave /\ TypeOK
    BY DEF Sync, IInv, CoreInv
<1>2. CASE front' = front
    BY <1>2
<1>3. ASSUME NEW r \in Slave, NEW u \in Thread, SwapWindows(r, u)
      PROVE  front'[s][t] \in {front[s][t], front[s][t] + 1}
    <2>1. CASE r = s /\ u = t
        <3>1. thr[s][t] = "flip" /\ front'[s][t] = back[s][t]
            BY <1>1, <1>3, <2>1 DEF SwapWindows, TypeOK
        <3>2. WindowsOf(s)
            BY DEF IInv, SyncInv
        <3>3. active_frame[s] \in Nat /\ front[s][t] = active_frame[s] - 1
            BY <1>1, <3>1, <3>2 DEF TypeOK, WindowsOf
        <3>4. back[s][t] = active_frame[s]
            BY <1>1, <3>1, <3>2 DEF WindowsOf
        <3> QED BY <3>1, <3>3, <3>4
    <2>2. CASE ~(r = s /\ u = t)
        BY <1>1, <1>3, <2>2 DEF SwapWindows, TypeOK
    <2> QED BY <2>1, <2>2
<1>4. MasterNext \/ Loss \/ UNCHANGED vars => front' = front
    BY DEF MasterNext, veMPRenderRun, SlavesInit, BeginFrame, PokeRender, BeginSwap,
           PokeSwap, EndFrame, veMPRenderExit, SlavesStopped, MasterRecvReliable,
           MasterRecvFast, master_render_cback, threadVars, Loss, LoseTo, LoseFrom, vars
<1>5. ASSUME NEW r \in Slave, SlaveNext(r),
             ~ \E u \in Thread : SwapWindows(r, u)
      PROVE  front' = front
    BY <1>5 DEF SlaveNext, SlaveWindow, SlaveRun, SlaveExit, SlaveRecvFast, SlaveRender,
                SlaveRenderAgain, SlaveSwap, SlaveSwapUnrendered, SlaveSwapAgain,
                PassStart, PassUnswapped, PassEntry, PassExit, PassSwap, RenderWindows,
                threadVars
<1> QED BY <1>2, <1>3, <1>4, <1>5 DEF Next, Terminated

\* The screens of a synchronous slave show every frame, one after the other.
THEOREM NothingSkipped ==
    ASSUME IdsMatch, NoReset
    PROVE  Spec => NoFrameSkipped
<1>1. Init => IInv
    BY CoreInit, SyncInit DEF IInv
<1>2. IInv /\ [Next]_vars => IInv'
    BY SyncStep
<1>3. IInv /\ [Next]_vars =>
        [\A s \in Sync : \A t \in Thread :
            front'[s][t] \in {front[s][t], front[s][t] + 1}]_vars
    BY ScreensAdvance
<1> QED BY <1>1, <1>2, <1>3, PTL DEF Spec, NoFrameSkipped

-----------------------------------------------------------------------------
(* Refinement of the abstract frame lock.                                   *)

LEMMA LockStepMove ==
    ASSUME IInv, IInv', [Next]_vars
    PROVE  [LockStep!Next]_([s \in Sync |-> State(s)])
<1>1. ASSUME NEW s \in Slave, SlaveNext(s)
      PROVE  [LockStep!Next]_([r \in Sync |-> State(r)])
    <2>1. State(s) <= State(s)' /\ \A r \in Slave \ {s} : State(r)' = State(r)
        BY <1>1, NeverBack
    <2>2. CASE s \notin Sync \/ State(s)' = State(s)
        <3>1. \A r \in Sync : State(r)' = State(r)
            BY <2>1, <2>2 DEF Sync
        <3> QED BY <3>1
    <2>3. CASE s \in Sync /\ State(s)' # State(s)
        <3>1. Target' = Target
            BY <1>1
            DEF SlaveNext, SlaveWindow, SlaveRun, SlaveExit, SlaveRecvFast, SlaveRender,
                SlaveRenderAgain, SlaveSwap, SlaveSwapUnrendered, SlaveSwapAgain,
                PassStart, PassUnswapped, PassEntry, PassExit, PassSwap, RenderWindows,
                SwapWindows, masterVars, Target
        <3>2. \A r \in Sync : /\ State(r) \in Nat /\ Target \in Nat
                              /\ Target <= State(r) + 1 /\ State(r) <= Target
            BY StateType DEF IInv, CoreInv, SyncInv, LevelOf, LagOf, Sync
        <3>3. State(s)' \in Nat /\ State(s)' <= Target
            <4>1. /\ active_frame'[s] \in Nat /\ handling'[s] \in Nat
                  /\ swapped'[s] \in {0, 1} /\ Target' \in Nat
                BY TargetType DEF IInv, CoreInv, TypeOK
            <4>2. State(s)' \in Nat
                BY <4>1 DEF State
            <4>3. Ask(s)' \in Nat
                BY <4>1, <4>2 DEF Ask
            <4>4. State(s)' <= Ask(s)' /\ Ask(s)' <= Target'
                BY DEF IInv, SyncInv, LevelOf
            <4> QED BY <3>1, <4>1, <4>2, <4>3, <4>4
        <3>4. State(s)' = State(s) + 1 /\ \A r \in Sync : State(s) <= State(r)
            BY <2>1, <2>3, <3>2, <3>3
        <3>5. LockStep!Advance(s)
            BY <2>1, <2>3, <3>4 DEF LockStep!Advance, Sync
        <3> QED BY <2>3, <3>5 DEF LockStep!Next
    <2> QED BY <2>2, <2>3
<1>2. CASE MasterNext \/ Loss \/ UNCHANGED vars
    <2>1. UNCHANGED <<active_frame, swapped>>
        BY <1>2
        DEF MasterNext, veMPRenderRun, SlavesInit, BeginFrame, PokeRender, BeginSwap,
            PokeSwap, EndFrame, veMPRenderExit, SlavesStopped, MasterRecvReliable,
            MasterRecvFast, master_render_cback, slaveVars, Loss, LoseTo, LoseFrom, vars
    <2>2. \A r \in Sync : State(r)' = State(r)
        BY <2>1 DEF State
    <2> QED BY <2>2
<1> QED BY <1>1, <1>2 DEF Next, Terminated

\* ve_mp_render.c implements the abstract frame lock: its synchronous slaves
\* walk through the states in step.
THEOREM Refinement ==
    ASSUME IdsMatch, NoReset
    PROVE  Spec => LockStepSpec
<1>1. Init => IInv
    BY CoreInit, SyncInit DEF IInv
<1>2. IInv /\ [Next]_vars => IInv'
    BY SyncStep
<1>3. Init => LockStep!Init
    BY DEF Init, LockStep!Init, State, Sync
<1>4. IInv /\ IInv' /\ [Next]_vars => [LockStep!Next]_([s \in Sync |-> State(s)])
    BY LockStepMove
<1> QED BY <1>1, <1>2, <1>3, <1>4, PTL DEF Spec, LockStepSpec, LockStep!Spec
-----------------------------------------------------------------------------
(* Why start-up, frames and exit end: what FrameCompletes and ExitCompletes *)
(* rest on, apart from fairness.                                            *)

\* The barrier at which the message thread of s is.
Barrier(s) == IF at[s] = "unswapped" THEN "swap" ELSE at[s]

\* Whenever the message thread of a slave waits at a barrier all have come to it, or
\* a render thread draws or swaps and will come.
SlavesGoOn ==
    \A s \in Slave : at[s] # "idle" =>
        (\E t \in Thread : thr[s][t] \in {"draw", "flip"}) \/ AllAt(s, Barrier(s))

\* No slave is stuck between the four barriers, for any number of threads.
THEOREM NoSlaveStuck ==
    ASSUME IdsMatch
    PROVE  Spec => []SlavesGoOn
<1>1. ASSUME CoreInv, NEW s \in Slave, at[s] # "idle", ~AllAt(s, Barrier(s))
      PROVE  \E t \in Thread : thr[s][t] \in {"draw", "flip"}
    <2>1. HasThreads(s) /\ at[s] \in {"start", "unswapped", "entry", "exit", "swap"}
        BY <1>1 DEF CoreInv, TypeOK, ThreadInv
    <2>2. PICK t \in Thread : thr[s][t] # Barrier(s)
        BY <1>1 DEF AllAt
    <2>3. thr[s][t] \in {"draw", "flip"}
        <3>1. BarriersAgree
            BY <1>1 DEF CoreInv
        <3>2. CASE at[s] \in {"start", "unswapped", "swap"}
            <4>1. thr[s][t] = Barrier(s)
                BY <2>1, <3>1, <3>2 DEF BarriersAgree, Barrier
            <4> QED BY <2>2, <4>1
        <3>3. CASE at[s] \in {"entry", "exit"}
            <4>1. thr[s][t] \in {Barrier(s), "draw", "flip"}
                BY <2>1, <3>1, <3>3 DEF BarriersAgree, Barrier
            <4> QED BY <2>2, <4>1
        <3> QED BY <2>1, <3>2, <3>3
    <2> QED BY <2>3
<1>2. CoreInv => SlavesGoOn
    BY <1>1 DEF SlavesGoOn
<1>3. CoreInv /\ [Next]_vars => CoreInv'
    BY CoreStep
<1> QED BY CoreInit, <1>2, <1>3, PTL DEF Spec

\* The answers that veMPRenderRun and veMPRenderExit wait for are on their way,
\* or the request is, at a slave that still reads it.
AnswerComes(s) ==
    /\ pc = "init" /\ s \notin inited =>
        \/ relTo[s] \in {<<WINDOW, RUN>>, <<RUN>>} /\ life[s] # "closed"
        \/ at[s] = "start"
        \/ relFrom[s] \in {<<Message("SWAP", 0), RUN>>, <<RUN>>}
    /\ exiting = "wait" /\ s \notin stopped =>
        \/ relTo[s] = <<EXIT>> /\ life[s] # "closed"
        \/ relFrom[s] = <<EXIT>>
AnswersCome == \A s \in Slave : AnswerComes(s)

\* EXIT is answered once, by a slave that reads nothing afterwards.
ExitInv ==
    \A s \in Slave :
        /\ life[s] = "closed" => exiting # "no" /\ relTo[s] = <<>>
        /\ exiting # "no" => s \in stopped \/ relTo[s] = <<EXIT>> \/ relFrom[s] = <<EXIT>>

LEMMA MasterExit ==
    ASSUME IdsMatch, CoreInv, ExitInv, MasterNext
    PROVE  ExitInv'
<1> USE DEF masterVars, seenVars, slaveVars, relVars
<1>1. CASE veMPRenderRun
    BY <1>1 DEF veMPRenderRun, CoreInv, StartInv, ExitInv
<1>2. CASE SlavesInit \/ BeginFrame \/ PokeRender \/ BeginSwap \/ PokeSwap \/ EndFrame
    <2>1. UNCHANGED <<life, exiting, stopped, relVars>>
        BY <1>2 DEF SlavesInit, BeginFrame, PokeRender, BeginSwap, PokeSwap, EndFrame
    <2> QED BY <2>1 DEF ExitInv
<1>3. CASE veMPRenderExit
    <2>1. ASSUME NEW s \in Slave PROVE relTo'[s] = <<EXIT>> /\ life'[s] # "closed"
        <3>1. Up(s) /\ exiting = "no"
            BY <1>3 DEF veMPRenderExit, CoreInv, StartInv
        <3>2. relTo[s] = <<>>
            BY <3>1 DEF Up
        <3> QED BY <1>3, <3>1, <3>2, ShortSequences DEF veMPRenderExit, ExitInv
    <2> QED BY <2>1 DEF ExitInv
<1>4. CASE SlavesStopped
    BY <1>4 DEF SlavesStopped, ExitInv
<1>5. ASSUME NEW s \in Slave, MasterRecvReliable(s) PROVE ExitInv'
    <2>1. /\ MpId[s] = s /\ relFrom[s] # <<>> /\ relFrom' = [relFrom EXCEPT ![s] = Tail(@)]
          /\ UNCHANGED <<life, exiting, relTo>> /\ stopped \subseteq stopped'
          /\ Head(relFrom[s]).tag = "EXIT" => s \in stopped'
        BY <1>5 DEF MasterRecvReliable, master_render_cback, IdsMatch
    <2>2. \A r \in Slave : r # s => relFrom'[r] = relFrom[r]
        BY <2>1 DEF CoreInv, TypeOK
    <2>3. exiting # "no" => s \in stopped'
        <3> SUFFICES ASSUME exiting # "no" PROVE s \in stopped'
            OBVIOUS
        <3>1. Up(s)
            BY DEF CoreInv, StartInv
        <3>2. relFrom[s] = <<EXIT>>
            BY <2>1, <3>1 DEF Up
        <3> QED BY <2>1, <3>2, ShortSequences, MessagesDiffer
    <2> QED BY <2>1, <2>2, <2>3 DEF ExitInv
<1>6. ASSUME NEW s \in Slave, NEW p \in fastFrom[s], MasterRecvFast(s, p) PROVE ExitInv'
    <2>1. UNCHANGED <<life, exiting, relTo, relFrom>> /\ stopped \subseteq stopped'
        BY <1>6 DEF MasterRecvFast, master_render_cback
    <2> QED BY <2>1 DEF ExitInv
<1> QED BY <1>1, <1>2, <1>3, <1>4, <1>5, <1>6 DEF MasterNext

LEMMA SlaveExits ==
    ASSUME CoreInv, ExitInv, NEW s \in Slave, SlaveNext(s)
    PROVE  ExitInv'
<1> USE DEF masterVars, seenVars, slaveVars, threadVars, relVars, fastVars
<1>1. ASSUME UNCHANGED <<life, exiting, stopped, relVars>> PROVE ExitInv'
    BY <1>1 DEF ExitInv
<1>2. CASE SlaveWindow(s) \/ SlaveRun(s)
    <2>1. /\ relTo[s] # <<>> /\ Head(relTo[s]) \in {WINDOW, RUN} /\ life'[s] # "closed"
          /\ UNCHANGED <<exiting, stopped, relFrom>>
          /\ \A r \in Slave : r # s => relTo'[r] = relTo[r] /\ life'[r] = life[r]
        BY <1>2 DEF SlaveWindow, SlaveRun, HeadIs, Listening, CoreInv, TypeOK
    <2>2. exiting = "no"
        <3> SUFFICES ASSUME exiting # "no" PROVE FALSE
            OBVIOUS
        <3>1. Up(s)
            BY DEF CoreInv, StartInv
        <3> QED BY <2>1, <3>1, ShortSequences, MessagesDiffer DEF Up
    <2> QED BY <2>1, <2>2 DEF ExitInv
<1>3. CASE SlaveExit(s)
    <2>1. /\ relTo[s] # <<>> /\ Head(relTo[s]) = EXIT /\ relTo'[s] = Tail(relTo[s])
          /\ relFrom'[s] = Append(relFrom[s], EXIT) /\ UNCHANGED <<exiting, stopped>>
          /\ \A r \in Slave : r # s =>
                relTo'[r] = relTo[r] /\ relFrom'[r] = relFrom[r] /\ life'[r] = life[r]
        BY <1>3 DEF SlaveExit, HeadIs, CoreInv, TypeOK
    <2>2. Up(s)
        BY <2>1, ShortSequences, MessagesDiffer
        DEF CoreInv, StartInv, Stage, Connected, Starting, Reported
    <2>3. relTo[s] = <<EXIT>> /\ relFrom[s] = <<>> /\ exiting # "no"
        BY <2>1, <2>2, ShortSequences DEF Up
    <2>4. relTo'[s] = <<>> /\ relFrom'[s] = <<EXIT>>
        BY <2>1, <2>3, ShortSequences
    <2> QED BY <2>1, <2>3, <2>4 DEF ExitInv
<1>4. ASSUME NEW m \in fastTo[s], SlaveRecvFast(s, m) PROVE ExitInv'
    BY <1>1, <1>4 DEF SlaveRecvFast, SlaveRender, SlaveRenderAgain, SlaveSwap,
                      SlaveSwapUnrendered, SlaveSwapAgain, Reply
<1>5. CASE PassStart(s)
    <2>1. exiting = "no" /\ UNCHANGED <<life, exiting, stopped, relTo>>
        BY <1>5 DEF PassStart, CoreInv, StartInv, Up
    <2> QED BY <2>1 DEF ExitInv
<1>6. CASE PassUnswapped(s) \/ PassEntry(s) \/ PassExit(s) \/ PassSwap(s)
    BY <1>1, <1>6 DEF PassUnswapped, PassEntry, PassExit, PassSwap, Reply
<1>7. ASSUME NEW t \in Thread, RenderWindows(s, t) \/ SwapWindows(s, t) PROVE ExitInv'
    BY <1>1, <1>7 DEF RenderWindows, SwapWindows
<1> QED BY <1>2, <1>3, <1>4, <1>5, <1>6, <1>7 DEF SlaveNext

LEMMA ExitStep == IdsMatch /\ CoreInv /\ ExitInv /\ [Next]_vars => ExitInv'
<1> SUFFICES ASSUME IdsMatch, CoreInv, ExitInv, [Next]_vars PROVE ExitInv'
    OBVIOUS
<1>1. CASE Loss \/ UNCHANGED vars
    <2>1. UNCHANGED <<life, exiting, stopped, relVars>>
        BY <1>1 DEF Loss, LoseTo, LoseFrom, vars, masterVars, seenVars, slaveVars
    <2> QED BY <2>1 DEF ExitInv, relVars
<1> QED BY <1>1, MasterExit, SlaveExits DEF Next, Terminated

\* Start-up and exit never wait for an answer that nobody will give: exit not
\* either when it comes in the middle of a frame.
THEOREM AnswersOnTheWay ==
    ASSUME IdsMatch
    PROVE  Spec => []AnswersCome
<1> DEFINE J == CoreInv /\ ExitInv
<1>1. Init => J
    BY CoreInit DEF Init, ExitInv
<1>2. J /\ [Next]_vars => J'
    BY CoreStep, ExitStep
<1>3. ASSUME J, NEW s \in Slave
      PROVE  AnswerComes(s)
    <2>1. pc = "init" /\ s \notin inited => Connected(s) \/ Starting(s) \/ Reported(s)
        BY <1>3 DEF CoreInv, StartInv, Stage, Up
    <2>2. Connected(s) /\ pc = "init" =>
            relTo[s] \in {<<WINDOW, RUN>>, <<RUN>>} /\ life[s] # "closed"
        BY DEF Connected, NotUp
    <2>3. Starting(s) => at[s] = "start"
        BY DEF Starting
    <2>4. Reported(s) => relFrom[s] \in {<<Message("SWAP", 0), RUN>>, <<RUN>>}
        BY DEF Reported
    <2>5. relTo[s] = <<EXIT>> => life[s] # "closed"
        BY <1>3, ShortSequences DEF ExitInv
    <2>6. ASSUME pc = "init", s \notin inited
          PROVE  \/ relTo[s] \in {<<WINDOW, RUN>>, <<RUN>>} /\ life[s] # "closed"
                 \/ at[s] = "start"
                 \/ relFrom[s] \in {<<Message("SWAP", 0), RUN>>, <<RUN>>}
        BY <2>1, <2>2, <2>3, <2>4, <2>6
    <2>7. ASSUME exiting = "wait", s \notin stopped
          PROVE  (relTo[s] = <<EXIT>> /\ life[s] # "closed") \/ relFrom[s] = <<EXIT>>
        BY <1>3, <2>5, <2>7 DEF ExitInv
    <2> QED BY <2>6, <2>7 DEF AnswerComes
<1> HIDE DEF J
<1>4. J => AnswersCome
    BY <1>3 DEF AnswersCome
<1> QED BY <1>1, <1>2, <1>4, PTL DEF Spec

\* The message that the master repeats to slaves that are not ready.
Wanted == Message(IF pc = "render" THEN "RENDER" ELSE "SWAP", slave_ready_frame)

\* A slave that is not ready is on its way to the state that is wanted; or is there
\* and answers once more; or takes the message to be later and goes there, and
\* no SWAP for one whose frame it has not drawn. And the answer counts.
PokeHelps(s) ==
    /\ Newer(s, Wanted)
    /\ at[s] # "idle" => Ask(s) = Target
    /\ at[s] = "idle" /\ pc = "render" =>
        IF State(s) = Target THEN ~LaterFrame(s, slave_ready_frame)
        ELSE LaterFrame(s, slave_ready_frame) /\ swapped[s] = 1
    /\ at[s] = "idle" /\ pc = "swap" =>
        IF State(s) = Target THEN ~LaterSwap(s, slave_ready_frame)
        ELSE /\ LaterSwap(s, slave_ready_frame)
             /\ swapped[s] = 0 /\ active_frame[s] = slave_ready_frame

NoPokeInVain ==
    pc \in {"render", "swap"} => \A s \in Sync : ~slave_is_ready(s) => PokeHelps(s)

\* Who has not reported the state that is wanted, behind or further, is at most one
\* state behind it, whatever was lost: one message and one answer are enough.
THEOREM PokesHelp ==
    ASSUME IdsMatch, NoReset
    PROVE  Spec => []NoPokeInVain
<1>1. Init => IInv
    BY CoreInit, SyncInit DEF IInv
<1>2. IInv /\ [Next]_vars => IInv'
    BY SyncStep
<1>3. ASSUME IInv, pc \in {"render", "swap"}, NEW s \in Sync, ~slave_is_ready(s)
      PROVE  PokeHelps(s)
    <2>1. /\ s \in Slave /\ s \in inited /\ LevelOf(s) /\ LagOf(s) /\ TypeOK
        BY <1>3 DEF Sync, IInv, CoreInv, SyncInv, StartInv, Up
    <2>2. /\ active_frame[s] \in Nat /\ handling[s] \in Nat /\ slave_ready_frame \in Nat
          /\ swapped[s] \in {0, 1} /\ seen_swapped[s] \in {0, 1} /\ seen_active[s] \in Nat
          /\ at[s] \in {"idle", "start", "unswapped", "entry", "exit", "swap"}
        BY <2>1 DEF TypeOK
    <2>3. /\ pc = "render" => slave_ready_swapped = 0
          /\ pc = "swap" => slave_ready_swapped = 1
          /\ slave_ready_frame >= 1 /\ at[s] # "start"
        BY <1>3, <2>1 DEF IInv, CoreInv, SyncInv, PhaseInv, StartInv, Up
    <2>4. /\ Target = 2 * slave_ready_frame + slave_ready_swapped
          /\ State(s) = 2 * active_frame[s] + swapped[s]
          /\ Seen(s) = 2 * seen_active[s] + seen_swapped[s]
        BY DEF Target, State, Seen
    <2>5. Seen(s) <= State(s) /\ State(s) <= Ask(s) /\ Ask(s) <= Target /\ Target <= State(s) + 1
        BY <2>1 DEF LevelOf, LagOf
    <2>6. ~(seen_active[s] = slave_ready_frame /\ seen_swapped[s] = slave_ready_swapped)
        BY <1>3 DEF slave_is_ready
    <2>7. Newer(s, Wanted)
        <3>1. CASE pc = "render"
            <4>1. seen_active[s] < slave_ready_frame
                BY <2>2, <2>3, <2>4, <2>5, <2>6, <3>1, StateType, <2>1
            <4> QED BY <2>2, <3>1, <4>1 DEF Newer, NewerRender, Wanted, Message
        <3>2. CASE pc = "swap"
            <4>1. \/ seen_active[s] < slave_ready_frame
                  \/ seen_active[s] = slave_ready_frame /\ seen_swapped[s] = 0
                BY <2>2, <2>3, <2>4, <2>5, <2>6, <3>2, StateType, <2>1
            <4> QED BY <2>2, <3>2, <4>1 DEF Newer, NewerSwap, Wanted, Message
        <3> QED BY <1>3, <3>1, <3>2
    <2>8. at[s] # "idle" => Ask(s) = Target
        <3>1. CASE at[s] \in {"entry", "exit"}
            <4>1. Ask(s) = 2 * handling[s] /\ handling[s] > active_frame[s]
                BY <2>1, <3>1 DEF Ask, LevelOf
            <4> QED BY <2>2, <2>4, <2>5, <4>1, StateType, <2>1
        <3>2. CASE at[s] = "swap"
            <4>1. Ask(s) = 2 * handling[s] + 1
                BY <3>2 DEF Ask
            <4>2. swapped[s] = 0
                BY <1>3, <2>1, <3>2 DEF IInv, CoreInv, ThreadInv
            <4>3. Target \in Nat /\ State(s) = 2 * active_frame[s]
                BY <2>1, <2>2, <2>4, <4>2, TargetType
            <4>4. 2 * active_frame[s] <= 2 * handling[s] + 1 /\ 2 * handling[s] + 1 <= Target
                BY <2>5, <4>1, <4>3
            <4>5. Target <= 2 * active_frame[s] + 1
                BY <2>5, <4>3
            <4>6. 2 * handling[s] + 1 = Target
                BY <2>2, <4>3, <4>4, <4>5
            <4> QED BY <4>1, <4>6
        <3>3. at[s] # "unswapped"
            BY <2>1 DEF LagOf
        <3> QED BY <2>2, <2>3, <3>1, <3>2, <3>3
    <2>9. CASE pc = "render"
        <3>1. /\ State(s) \in {Target, Target - 1} /\ Target = 2 * slave_ready_frame
            BY <2>2, <2>3, <2>4, <2>5, <2>9, StateType, <2>1
        <3>2. CASE State(s) = Target
            <4>1. active_frame[s] = slave_ready_frame
                BY <2>2, <2>4, <3>1, <3>2
            <4> QED BY <2>2, <2>3, <2>7, <2>8, <2>9, <3>2, <4>1 DEF PokeHelps, LaterFrame
        <3>3. CASE State(s) = Target - 1
            <4>1. active_frame[s] < slave_ready_frame /\ swapped[s] = 1 /\ State(s) # Target
                BY <2>2, <2>4, <3>1, <3>3
            <4> QED BY <2>2, <2>3, <2>7, <2>8, <2>9, <4>1 DEF PokeHelps, LaterFrame
        <3> QED BY <3>1, <3>2, <3>3
    <2>10. CASE pc = "swap"
        <3>1. IF State(s) = Target THEN active_frame[s] = slave_ready_frame /\ swapped[s] = 1
              ELSE active_frame[s] = slave_ready_frame /\ swapped[s] = 0
            BY <2>2, <2>3, <2>4, <2>5, <2>10, StateType, <2>1
        <3> QED BY <2>2, <2>3, <2>7, <2>8, <2>10, <3>1 DEF PokeHelps, LaterSwap, LaterFrame
    <2> QED BY <1>3, <2>9, <2>10
<1>4. IInv => NoPokeInVain
    BY <1>3 DEF NoPokeInVain
<1> QED BY <1>1, <1>2, <1>4, PTL DEF Spec
=============================================================================
