------------------------------ MODULE VeAudio ------------------------------
(* Playing sounds on remote channels: ve_audio.c.  The master numbers the   *)
(* instances of each channel and tells the slave that plays the channel     *)
(* about them; the slave's channel thread plays them and reports each one   *)
(* it has finished.  A slot of a channel's table is used again when both    *)
(* the application and the slave have finished with it and no thread waits  *)
(* for it.                                                                  *)
(* master.mutex, and a channel's mutex on the slave, are held from one wait *)
(* to the next, so each action is what one thread does under such a mutex.  *)
(* Messages to a slave go over its reliable stream, except M_UPDATE, a      *)
(* datagram that may be lost or overtake and be overtaken.                  *)
EXTENDS Integers, Sequences, FiniteSets

CONSTANTS
    Thread,         \* application threads
    Waiter,         \* those that may call veAudioWait
    Free,           \* nobody holds master.mutex
    NChannels,      \* the connected channels are 0 .. NChannels - 1
    Process,        \* slave processes
    ProcOf,         \* ProcOf[c]: the process that plays channel c
    Loops,          \* the values of params.loop the application uses
    NFrames,        \* length of every sound, in frames
    Moves,          \* realloc may move a table that grows
    MaxInst,        \* bound: calls of veAudioInst
    MaxUpdates      \* bound: calls of veAudioUpdate

Chid == 0 .. NChannels - 1
Slot == 0 .. MaxInst - 1        \* rows of a channel's table
Id   == 0 .. MaxInst - 1        \* instance identifiers, rows of instmap
NoInst == [chid |-> -1, itid |-> -1]

ASSUME AudioAssumption ==
    /\ Waiter \subseteq Thread /\ Free \notin Thread /\ IsFiniteSet(Thread)
    /\ NChannels \in Nat /\ ProcOf \in [Chid -> Process]
    /\ Loops \subseteq Int /\ NFrames \in Nat \ {0}
    /\ MaxInst \in Nat \ {0} /\ MaxUpdates \in Nat /\ Moves \in BOOLEAN

VARIABLES
    mutex,          \* master.mutex: Free, or the thread that keeps it
    connected,      \* the channels that veMPAudioRun has connected
    tab,            \* tab[c][k]: the master's table of channel c.  c0, c1 are
                    \* the clean flags; who numbers the instance (history) and
                    \* stopped says that veAudioStop was called (history)
    spc,            \* spc[c]: rows allocated for it
    instmap,        \* instmap[id]: channel and row of an instance id
    held,           \* the ids the application has and has not cleaned
    at, wait,       \* where a thread is: "out", asleep in veAudioWait, or
                    \* "woken", and the instance it waits for there
    nInst, nUpdates

VARIABLES
    alive,          \* the slave processes that have not given up
    nthrs,          \* nthrs[p]: channels p manages are below this
    playing,        \* the channels whose thread has been started
    slot            \* slot[c][k]: the slave's table of channel c

VARIABLES
    toSlave, toMaster,      \* the reliable streams of each process
    updates                 \* M_UPDATE datagrams on their way

masterVars == <<mutex, connected, tab, spc, instmap, held, at, wait, nInst, nUpdates>>
slaveVars  == <<alive, nthrs, playing, slot>>
netVars    == <<toSlave, toMaster, updates>>
vars       == <<masterVars, slaveVars, netVars>>

Unused   == [inuse |-> FALSE, id |-> -1, c0 |-> FALSE, c1 |-> FALSE, waiting |-> 0,
             who |-> 0, stopped |-> FALSE]
Silent   == [inuse |-> FALSE, next |-> 0, loop |-> 0, who |-> 0]
Nowhere  == [chid |-> -1, itid |-> -1, who |-> 0, stale |-> FALSE]

Message(tag, c, k, loop, n) == [tag |-> tag, chid |-> c, itid |-> k, loop |-> loop, who |-> n]

Init ==
    /\ mutex = Free /\ connected = 0
    /\ tab = [c \in Chid |-> [k \in Slot |-> Unused]]
    /\ spc = [c \in Chid |-> 0]
    /\ instmap = [i \in Id |-> NoInst]
    /\ held = {}
    /\ at = [t \in Thread |-> "out"]
    /\ wait = [t \in Thread |-> Nowhere]
    /\ nInst = 0 /\ nUpdates = 0
    /\ alive = Process
    /\ nthrs = [p \in Process |-> 0]
    /\ playing = {}
    /\ slot = [c \in Chid |-> [k \in Slot |-> Silent]]
    /\ toSlave = [p \in Process |-> <<>>]
    /\ toMaster = [p \in Process |-> <<>>]
    /\ updates = {}

-----------------------------------------------------------------------------
(* Master.                                                                  *)

\* A reliable message to the process that plays its channel.
Send(m) == toSlave' = [toSlave EXCEPT ![ProcOf[m.chid]] = Append(@, m)]

\* One turn of the loop that connects the channels.  master.mutex is held from
\* the first to the last; nobody has anything to do with the mutex before.
veMPAudioRun ==
    /\ connected < NChannels
    /\ connected' = connected + 1
    /\ Send(Message("CHANNEL", connected, 0, 0, 0))
    /\ UNCHANGED <<mutex, tab, spc, instmap, held, at, wait, nInst, nUpdates,
                   slaveVars, toMaster, updates>>

\* get_itable_id, get_inst_id: the first row that is not in use.
get_itable_id(c) == {k \in Slot : ~tab[c][k].inuse /\ \A j \in 0 .. k - 1 : tab[c][j].inuse}
get_inst_id == {i \in Id : instmap[i].chid < 0 /\ \A j \in 0 .. i - 1 : instmap[j].chid >= 0}

grow_itable(n, k) == IF n > k THEN n ELSE IF n = 0 THEN k + 1 ELSE 2 * n

\* A table that grows may move: whoever waits on the channel then keeps a
\* pointer into the old one.
MayMove(c, k) == IF Moves /\ spc[c] <= k THEN BOOLEAN ELSE {FALSE}
MoveTable(c, moved) ==
    wait' = [t \in Thread |->
               [wait[t] EXCEPT !.stale = @ \/ (moved /\ wait[t].chid = c)]]

veAudioInst(c, loop) ==
    /\ connected = NChannels /\ mutex = Free /\ nInst < MaxInst
    /\ \E k \in get_itable_id(c), i \in get_inst_id : \E moved \in MayMove(c, k) :
        /\ tab' = [tab EXCEPT ![c][k] =
                     [Unused EXCEPT !.inuse = TRUE, !.id = i, !.who = nInst + 1]]
        /\ spc' = [spc EXCEPT ![c] = grow_itable(@, k)]
        /\ instmap' = [instmap EXCEPT ![i] = [chid |-> c, itid |-> k]]
        /\ held' = held \cup {i}
        /\ MoveTable(c, moved)
        /\ Send(Message("NEW", c, k, loop, nInst + 1))
    /\ nInst' = nInst + 1
    /\ UNCHANGED <<mutex, connected, at, nUpdates, slaveVars, toMaster, updates>>

\* find_inst: the row an id stands for, and what is in it.
find_inst(i) == tab[instmap[i].chid][instmap[i].itid]

veAudioUpdate(i, loop) ==
    /\ mutex = Free /\ i \in held /\ find_inst(i).inuse
    /\ nUpdates < MaxUpdates
    /\ nUpdates' = nUpdates + 1
    /\ updates' = updates \cup {Message("UPDATE", instmap[i].chid, instmap[i].itid,
                                        loop, find_inst(i).who)}
    /\ UNCHANGED <<mutex, connected, tab, spc, instmap, held, at, wait, nInst,
                   slaveVars, toSlave, toMaster>>

\* As in VeMPRender, a definition named after the one below it is a fault to
\* try the properties with.
Reusable_Unfinished(r) == r.c0 /\ r.waiting = 0

Reusable_Waited(r) == r.c0 /\ r.c1

\* cleanup_check on row k of channel c after it has become r.
Reusable(r) == r.c0 /\ r.c1 /\ r.waiting = 0

cleanup_check_KeepsId(c, k, r) ==
    /\ tab' = [tab EXCEPT ![c][k] = IF Reusable(r) THEN Unused ELSE r]
    /\ UNCHANGED instmap

cleanup_check(c, k, r) ==
    /\ tab' = [tab EXCEPT ![c][k] = IF Reusable(r) THEN Unused ELSE r]
    /\ instmap' = IF Reusable(r) THEN [instmap EXCEPT ![r.id] = NoInst] ELSE instmap

\* The application cleans an instance: it gives up the id.
AppCleans(i) ==
    /\ held' = held \ {i}
    /\ cleanup_check(instmap[i].chid, instmap[i].itid, [find_inst(i) EXCEPT !.c0 = TRUE])

veAudioClean(i) ==
    /\ mutex = Free /\ i \in held /\ find_inst(i).inuse
    /\ AppCleans(i)
    /\ UNCHANGED <<mutex, connected, spc, at, wait, nInst, nUpdates, slaveVars, netVars>>

\* Bound: each instance is stopped once.
veAudioStop(i, clean) ==
    /\ mutex = Free /\ i \in held /\ find_inst(i).inuse
    /\ ~find_inst(i).stopped
    /\ LET c == instmap[i].chid  k == instmap[i].itid  r == [find_inst(i) EXCEPT !.stopped = TRUE]
       IN  /\ Send(Message("STOP", c, k, 0, r.who))
           /\ IF clean
              THEN /\ held' = held \ {i}
                   /\ cleanup_check(c, k, [r EXCEPT !.c0 = TRUE])
              ELSE /\ tab' = [tab EXCEPT ![c][k] = r]
                   /\ UNCHANGED <<held, instmap>>
    /\ UNCHANGED <<mutex, connected, spc, at, wait, nInst, nUpdates, slaveVars,
                   toMaster, updates>>

\* veAudioWait returns without giving master.mutex back, also when the
\* instance is done already.
WaitDone(t, i) ==
    /\ t \in Waiter /\ at[t] = "out"
    /\ mutex = Free /\ i \in held /\ find_inst(i).inuse /\ find_inst(i).c1
    /\ mutex' = t
    /\ UNCHANGED <<connected, tab, spc, instmap, held, at, wait, nInst, nUpdates,
                   slaveVars, netVars>>

WaitAsleep(t, i) ==
    /\ t \in Waiter /\ at[t] = "out"
    /\ mutex = Free /\ i \in held /\ find_inst(i).inuse /\ ~find_inst(i).c1
    /\ LET c == instmap[i].chid  k == instmap[i].itid
       IN  /\ tab' = [tab EXCEPT ![c][k] = [tab[c][k] EXCEPT !.waiting = @ + 1]]
           /\ wait' = [wait EXCEPT ![t] = [chid |-> c, itid |-> k, who |-> tab[c][k].who,
                                           stale |-> FALSE]]
    /\ at' = [at EXCEPT ![t] = "asleep"]
    /\ UNCHANGED <<mutex, connected, spc, instmap, held, nInst, nUpdates, slaveVars, netVars>>

\* pthread_cond_wait may return although nobody signalled.
SpuriousWakeup(t) ==
    /\ at[t] = "asleep"
    /\ at' = [at EXCEPT ![t] = "woken"]
    /\ UNCHANGED <<mutex, connected, tab, spc, instmap, held, wait, nInst, nUpdates,
                   slaveVars, netVars>>

SleepAgain(t) ==
    /\ at[t] = "woken" /\ mutex = Free
    /\ wait[t].stale \/ ~tab[wait[t].chid][wait[t].itid].c1
    /\ at' = [at EXCEPT ![t] = "asleep"]
    /\ UNCHANGED <<mutex, connected, tab, spc, instmap, held, wait, nInst, nUpdates,
                   slaveVars, netVars>>

Return(t) ==
    /\ at' = [at EXCEPT ![t] = "out"]
    /\ wait' = [wait EXCEPT ![t] = Nowhere]
    /\ mutex' = t
    /\ UNCHANGED <<connected, spc, held, nInst, nUpdates, slaveVars, netVars>>

WaitReturns(t) ==
    /\ at[t] = "woken" /\ mutex = Free
    /\ ~wait[t].stale
    /\ LET c == wait[t].chid  k == wait[t].itid
       IN  /\ tab[c][k].c1
           /\ cleanup_check(c, k, [tab[c][k] EXCEPT !.waiting = @ - 1])
    /\ Return(t)

\* A pointer into the old table reads whatever is there now.
WaitReturnsStale(t) ==
    /\ at[t] = "woken" /\ mutex = Free
    /\ wait[t].stale
    /\ Return(t)
    /\ UNCHANGED <<tab, instmap>>

master_audio_cback_Silent(p) ==
    /\ mutex = Free /\ toMaster[p] # <<>>
    /\ toMaster' = [toMaster EXCEPT ![p] = Tail(@)]
    /\ LET c == Head(toMaster[p]).chid  k == Head(toMaster[p]).itid
       IN  IF tab[c][k].inuse
           THEN cleanup_check(c, k, [tab[c][k] EXCEPT !.c1 = TRUE])
           ELSE UNCHANGED <<tab, instmap>>
    /\ UNCHANGED <<mutex, connected, spc, held, at, wait, nInst, nUpdates, slaveVars,
                   toSlave, updates>>

\* M_CLEAN from a slave: it has finished an instance.
master_audio_cback(p) ==
    /\ mutex = Free /\ toMaster[p] # <<>>
    /\ toMaster' = [toMaster EXCEPT ![p] = Tail(@)]
    /\ LET c == Head(toMaster[p]).chid  k == Head(toMaster[p]).itid
       IN  IF tab[c][k].inuse
           THEN /\ cleanup_check(c, k, [tab[c][k] EXCEPT !.c1 = TRUE])
                /\ at' = [t \in Thread |->
                            IF at[t] = "asleep" /\ wait[t].chid = c /\ wait[t].itid = k
                            THEN "woken" ELSE at[t]]
           ELSE UNCHANGED <<tab, instmap, at>>
    /\ UNCHANGED <<mutex, connected, spc, held, wait, nInst, nUpdates, slaveVars,
                   toSlave, updates>>

-----------------------------------------------------------------------------
(* Slave: slave_audio_cback.                                                *)

Receives(p, tag) ==
    /\ p \in alive
    /\ toSlave[p] # <<>> /\ Head(toSlave[p]).tag = tag
    /\ toSlave' = [toSlave EXCEPT ![p] = Tail(@)]
    /\ UNCHANGED <<masterVars, toMaster, updates>>

\* Every handler gives up on a channel at or above nthrs, and on one that has
\* no thread.
Known(p, c) == c < nthrs[p] /\ c \in playing

GiveUp(p) ==
    /\ alive' = alive \ {p}
    /\ UNCHANGED <<nthrs, playing, slot>>

nthrs_after_Strict(n, c) == IF c < n THEN c + 1 ELSE n

nthrs_after(n, c) == IF c <= n THEN c + 1 ELSE n

SlaveChannel(p) ==
    /\ Receives(p, "CHANNEL")
    /\ LET c == Head(toSlave[p]).chid
       IN  /\ playing' = playing \cup {c}
           /\ nthrs' = [nthrs EXCEPT ![p] = nthrs_after(@, c)]
    /\ UNCHANGED <<alive, slot>>

SlaveNew(p) ==
    /\ Receives(p, "NEW")
    /\ LET m == Head(toSlave[p])
       IN  IF Known(p, m.chid)
           THEN /\ slot' = [slot EXCEPT ![m.chid][m.itid] =
                              [inuse |-> TRUE, next |-> 0, loop |-> m.loop,
                               who |-> m.who]]
                /\ UNCHANGED <<alive, nthrs, playing>>
           ELSE GiveUp(p)

SlaveStop_Once(p) ==
    /\ Receives(p, "STOP")
    /\ LET m == Head(toSlave[p])
       IN  IF Known(p, m.chid)
           THEN /\ slot' = [slot EXCEPT ![m.chid][m.itid] =
                              IF @.inuse THEN [@ EXCEPT !.next = 0] ELSE @]
                /\ UNCHANGED <<alive, nthrs, playing>>
           ELSE GiveUp(p)

SlaveStop(p) ==
    /\ Receives(p, "STOP")
    /\ LET m == Head(toSlave[p])
       IN  IF Known(p, m.chid)
           THEN /\ slot' = [slot EXCEPT ![m.chid][m.itid] =
                              IF @.inuse THEN [@ EXCEPT !.next = -1] ELSE @]
                /\ UNCHANGED <<alive, nthrs, playing>>
           ELSE GiveUp(p)

SlaveUpdate(p, m) ==
    /\ p \in alive /\ m \in updates /\ ProcOf[m.chid] = p
    /\ updates' = updates \ {m}
    /\ IF Known(p, m.chid)
       THEN /\ slot' = [slot EXCEPT ![m.chid][m.itid] =
                          IF @.inuse THEN [@ EXCEPT !.loop = m.loop] ELSE @]
            /\ UNCHANGED <<alive, nthrs, playing>>
       ELSE GiveUp(p)
    /\ UNCHANGED <<masterVars, toSlave, toMaster>>

LoseUpdate(m) ==
    /\ m \in updates
    /\ updates' = updates \ {m}
    /\ UNCHANGED <<masterVars, slaveVars, toSlave, toMaster>>

(* Slave: one pass of channel_thread.                                       *)

AtEnd(r) == r.next < 0 \/ (r.next + 1 >= NFrames /\ r.loop = 0)

\* A row after one more frame, of a sound that goes on.
Advance(r) ==
    IF r.next + 1 < NFrames THEN [r EXCEPT !.next = @ + 1]
    ELSE [r EXCEPT !.next = 0, !.loop = IF @ > 0 THEN @ - 1 ELSE @]

Finished(c) == {k \in Slot : slot[c][k].inuse /\ AtEnd(slot[c][k])}

\* The numbers in S in increasing order.
Ascending(S) == {s \in [1 .. Cardinality(S) -> S] : \A i, j \in DOMAIN s : i < j => s[i] < s[j]}

Cleaned(c, rows) == [i \in DOMAIN rows |-> Message("CLEAN", c, rows[i], 0, slot[c][rows[i]].who)]

channel_thread_Forgets(c) ==
    /\ c \in playing /\ ProcOf[c] \in alive
    /\ slot' = [slot EXCEPT ![c] = [k \in Slot |->
                  IF k \in Finished(c) THEN Silent
                  ELSE IF slot[c][k].inuse THEN Advance(slot[c][k]) ELSE slot[c][k]]]
    /\ UNCHANGED <<masterVars, alive, nthrs, playing, netVars>>

channel_thread(c) ==
    /\ c \in playing /\ ProcOf[c] \in alive
    /\ slot' = [slot EXCEPT ![c] = [k \in Slot |->
                  IF k \in Finished(c) THEN Silent
                  ELSE IF slot[c][k].inuse THEN Advance(slot[c][k]) ELSE slot[c][k]]]
    /\ \E rows \in Ascending(Finished(c)) :
          toMaster' = [toMaster EXCEPT ![ProcOf[c]] = @ \o Cleaned(c, rows)]
    /\ UNCHANGED <<masterVars, alive, nthrs, playing, toSlave, updates>>

-----------------------------------------------------------------------------

WaitNext(t) ==
    \/ \E i \in Id : WaitDone(t, i) \/ WaitAsleep(t, i)
    \/ SpuriousWakeup(t) \/ SleepAgain(t) \/ WaitReturns(t) \/ WaitReturnsStale(t)

AppNext ==
    \/ \E c \in Chid, loop \in Loops : veAudioInst(c, loop)
    \/ \E i \in Id, loop \in Loops : veAudioUpdate(i, loop)
    \/ \E i \in Id : veAudioClean(i) \/ (\E clean \in BOOLEAN : veAudioStop(i, clean))
    \/ \E t \in Thread : WaitNext(t)

SlaveNext(p) == SlaveChannel(p) \/ SlaveNew(p) \/ SlaveStop(p)

Next ==
    \/ veMPAudioRun \/ AppNext
    \/ \E p \in Process : master_audio_cback(p) \/ SlaveNext(p)
    \/ \E p \in Process, m \in updates : SlaveUpdate(p, m)
    \/ \E m \in updates : LoseUpdate(m)
    \/ \E c \in Chid : channel_thread(c)

Spec == Init /\ [][Next]_vars

\* Message threads and channel threads go on; the application owes nothing but
\* that a thread that is woken takes the mutex when it can.
FairSpec ==
    /\ Spec
    /\ \A p \in Process : WF_vars(master_audio_cback(p)) /\ WF_vars(SlaveNext(p))
    /\ \A c \in Chid : WF_vars(channel_thread(c))
    /\ \A t \in Thread : SF_vars(SleepAgain(t) \/ WaitReturns(t) \/ WaitReturnsStale(t))

-----------------------------------------------------------------------------
(* Properties.                                                              *)

Messages ==
    [tag : {"CHANNEL", "NEW", "STOP", "UPDATE", "CLEAN"}, chid : Chid, itid : Slot,
     loop : Int, who : Nat]

TypeOK ==
    /\ mutex \in Thread \cup {Free} /\ connected \in 0 .. NChannels
    /\ tab \in [Chid -> [Slot -> [inuse : BOOLEAN, id : Id \cup {-1}, c0 : BOOLEAN,
                                  c1 : BOOLEAN, waiting : Nat, who : Nat,
                                  stopped : BOOLEAN]]]
    /\ spc \in [Chid -> Nat]
    /\ instmap \in [Id -> [chid : Chid \cup {-1}, itid : Slot \cup {-1}]]
    /\ held \subseteq Id
    /\ at \in [Thread -> {"out", "asleep", "woken"}]
    /\ wait \in [Thread -> [chid : Chid \cup {-1}, itid : Slot \cup {-1}, who : Nat,
                            stale : BOOLEAN]]
    /\ nInst \in 0 .. MaxInst /\ nUpdates \in 0 .. MaxUpdates
    /\ alive \subseteq Process /\ playing \subseteq Chid
    /\ nthrs \in [Process -> 0 .. NChannels]
    /\ slot \in [Chid -> [Slot -> [inuse : BOOLEAN, next : -1 .. NFrames - 1, loop : Int,
                                   who : Nat]]]
    /\ toSlave \in [Process -> Seq(Messages)] /\ toMaster \in [Process -> Seq(Messages)]
    /\ updates \subseteq Messages

\* A row in use on the slave plays the instance that the master has in that
\* row: no row is given out again, and M_NEW never lands on one that is still
\* played, before the slave has finished it and the master knows.
RowsAgree ==
    \A c \in Chid, k \in Slot :
        slot[c][k].inuse => tab[c][k].inuse /\ tab[c][k].who = slot[c][k].who
                            /\ ~tab[c][k].c1

\* An id the application holds stands for its own instance, not cleaned yet:
\* ids and the rows in use map to each other, and no id stays behind.
IdsAgree ==
    /\ \A i \in held : instmap[i] # NoInst /\ ~find_inst(i).c0
    /\ \A i \in Id : instmap[i] # NoInst => find_inst(i).inuse /\ find_inst(i).id = i
    /\ \A c \in Chid, k \in Slot :
          tab[c][k].inuse => instmap[tab[c][k].id] = [chid |-> c, itid |-> k]

\* "An instance is not reused until both clean flags are non-zero and waiting
\* is 0" (ve_audio.h:106-108): a waiting thread's instance is still there.
WaitedForKept ==
    \A t \in Thread : at[t] # "out" =>
        LET r == tab[wait[t].chid][wait[t].itid] IN r.inuse /\ r.who = wait[t].who

\* No thread sleeps on for an instance that has finished: it has been woken.
FinishedWakes ==
    \A t \in Thread : at[t] = "asleep" /\ ~wait[t].stale =>
        ~tab[wait[t].chid][wait[t].itid].c1

\* Channel ids are numbered for all processes together, and each process counts
\* its own from 0 (ve_audio.c:441-461).
Misnumbered(c) == \E d \in 0 .. c - 1 : ProcOf[d] # ProcOf[c]

\* M_CHANNEL has arrived, if it was sent.
Announced(c) ==
    \A i \in DOMAIN toSlave[ProcOf[c]] :
        LET m == toSlave[ProcOf[c]][i] IN ~(m.tag = "CHANNEL" /\ m.chid = c)

Takes(p) == toSlave[p] # <<>> /\ toSlave'[p] = Tail(toSlave[p])

\* A slave gives up ("invalid M_NEW message for non-existent channel id",
\* ve_audio.c:471-472) for two reasons only: a process before it has channels too,
\* which its own ids then leave a gap for, or M_UPDATE has overtaken M_CHANNEL.
\* With a gap it gives up as soon as it hears of an instance.
GivesUpFor ==
    /\ \A p \in alive \ alive' :
        \/ Takes(p) /\ Misnumbered(Head(toSlave[p]).chid)
        \/ \E m \in updates \ updates' :
              ProcOf[m.chid] = p /\ (Misnumbered(m.chid) \/ ~Announced(m.chid))
    /\ \A p \in alive :
        Takes(p) /\ Head(toSlave[p]).tag # "CHANNEL" /\ Misnumbered(Head(toSlave[p]).chid)
            => p \notin alive'

SlavesGiveUp == [][GivesUpFor]_vars

Is(c, k, n) == tab[c][k].inuse /\ tab[c][k].who = n

\* An instance that is stopped is done, or gone, in the end, also one that
\* loops for ever.
StopEnds ==
    \A c \in Chid, k \in Slot : \A n \in 1 .. MaxInst :
        (Is(c, k, n) /\ tab[c][k].stopped) ~> ~(Is(c, k, n) /\ ~tab[c][k].c1)

\* "it is possible to clean an instance before it finishes playing, and the
\* engine will automatically dispose of its resources as soon as it finishes"
\* (ve_audio.h:605-607).
AutoDispose ==
    \A c \in Chid, k \in Slot : \A n \in 1 .. MaxInst :
        (Is(c, k, n) /\ tab[c][k].c0 /\ slot[c][k].who = n /\ slot[c][k].loop >= 0)
            ~> ~Is(c, k, n)
=============================================================================
