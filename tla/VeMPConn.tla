----------------------------- MODULE VeMPConn -----------------------------
(* Connections between the master and its slaves, ve_mp.c and               *)
(* ve_mp_posix.c: the table of slaves, the hand-shake that gives a slave on *)
(* another machine its datagram socket, and the two pipes that a slave      *)
(* reads.  A slave stands here for what veMPGetSlave looks for: a pair of   *)
(* node and process.                                                        *)
EXTENDS Naturals, Sequences, FiniteSets

CONSTANTS
    Slave,
    Method,         \* the way each is created: a thread of the master, a local
                    \* process, or a process on another machine
    Unreachable,    \* slaves that may fail to be created
    NoSlave,
    MAX_SLAVES,
    MaxPipe,        \* bound: messages in a pipe (a full pipe blocks its writer)
    MaxFlight       \* bound: datagrams with state on their way to a slave

ASSUME ConnAssumption ==
    /\ Method \in [Slave -> {"thread", "local", "remote"}]
    /\ Unreachable \subseteq Slave /\ NoSlave \notin Slave
    /\ MAX_SLAVES \in Nat /\ MaxPipe \in Nat /\ MaxFlight \in Nat

VARIABLES
    inuse, conn,        \* rows of slaves[] in use, and those with a connection
    call,               \* the call of veMPGetSlave in progress
    mfast, sfast,       \* where the master and where the slave has a fast_fd
    served,             \* slaves whose slave_msg_thread runs
    inited,             \* slaves that have answered RUN
    down, up,           \* the reliable pipes to and from each slave
    flight,             \* datagrams on their way: "key" to the master, "check"
                        \* and "state" to the slave
    slave,              \* how far the slave is
    rel_last,           \* its last message came by the reliable pipe
    mishap,             \* history: slaves whose key or check was lost or overtaken
    broken              \* history: a push used a row without a connection

masterVars == <<inuse, conn, call, mfast, served, inited>>
slaveVars == <<slave, sfast, rel_last>>
connVars == <<masterVars, slaveVars, down, up, flight, mishap, broken>>

NoCall == [slave |-> NoSlave, allow_fail |-> FALSE, at |-> "idle"]

ConnInit ==
    /\ inuse = {} /\ conn = {} /\ call = NoCall
    /\ mfast = {} /\ sfast = {} /\ served = {} /\ inited = {}
    /\ down = [s \in Slave |-> <<>>] /\ up = [s \in Slave |-> <<>>]
    /\ flight = [s \in Slave |-> [key |-> 0, check |-> 0, state |-> 0]]
    /\ slave = [s \in Slave |-> "none"]
    /\ rel_last = [s \in Slave |-> FALSE]
    /\ mishap = {} /\ broken = FALSE

\* veMPImplSend, by the reliable pipe.
Sent(s, m) == [down EXCEPT ![s] = Append(@, m)]

-----------------------------------------------------------------------------
(* The master: veMPGetSlave, one caller at a time.                          *)

At(p) == call.at = p
Goto(p) == call' = [call EXCEPT !.at = p]
Fail == Goto(IF call.allow_fail THEN "failed" ELSE "fatal")

veMPGetSlave_finds(s, f) ==
    /\ At("idle") /\ s \in inuse
    /\ call' = [slave |-> s, allow_fail |-> f, at |-> "done"]
    /\ UNCHANGED <<inuse, conn, mfast, served, inited, slaveVars, down, up,
                   flight, mishap, broken>>

veMPGetSlave_full(s, f) ==
    /\ At("idle") /\ s \notin inuse /\ Cardinality(inuse) = MAX_SLAVES
    /\ call' = [slave |-> s, allow_fail |-> f, at |-> IF f THEN "failed" ELSE "fatal"]
    /\ UNCHANGED <<inuse, conn, mfast, served, inited, slaveVars, down, up,
                   flight, mishap, broken>>

veMPGetSlave_takes(s, f) ==
    /\ At("idle") /\ s \notin inuse /\ Cardinality(inuse) < MAX_SLAVES
    /\ inuse' = inuse \cup {s}
    /\ call' = [slave |-> s, allow_fail |-> f, at |-> "create"]
    /\ UNCHANGED <<conn, mfast, served, inited, slaveVars, down, up, flight,
                   mishap, broken>>

veMPGetSlave(s, f) ==
    \/ veMPGetSlave_finds(s, f)
    \/ veMPGetSlave_full(s, f)
    \/ veMPGetSlave_takes(s, f)

\* A thread of the master listens at once, a process waits for its INIT.
veMPImplCreate(s) ==
    /\ At("create") /\ call.slave = s
    /\ conn' = conn \cup {s}
    /\ slave' = [slave EXCEPT ![s] = IF Method[s] = "thread" THEN "listening"
                                                            ELSE "waiting"]
    /\ Goto(IF Method[s] = "thread" THEN "serve" ELSE "init")
    /\ UNCHANGED <<inuse, mfast, served, inited, sfast, rel_last, down, up,
                   flight, mishap, broken>>

veMPImplCreate_fails(s) ==
    /\ At("create") /\ call.slave = s /\ s \in Unreachable
    /\ inuse' = inuse \ {s}
    /\ Fail
    /\ UNCHANGED <<conn, mfast, served, inited, slaveVars, down, up, flight,
                   mishap, broken>>

SendInit(s) ==
    /\ At("init") /\ call.slave = s
    /\ down' = Sent(s, "INIT")
    /\ Goto(IF Method[s] = "remote" THEN "ask" ELSE "serve")
    /\ UNCHANGED <<inuse, conn, mfast, served, inited, slaveVars, up, flight,
                   mishap, broken>>

\* veMPImplPrepare, in its three waits.
AskAddress(s) ==
    /\ At("ask") /\ call.slave = s
    /\ down' = Sent(s, "BESTADDR")
    /\ Goto("answer")
    /\ UNCHANGED <<inuse, conn, mfast, served, inited, slaveVars, up, flight,
                   mishap, broken>>

AskConnect(s) ==
    /\ At("answer") /\ call.slave = s /\ up[s] # <<>>
    /\ up' = [up EXCEPT ![s] = Tail(@)]
    /\ down' = Sent(s, "CONNUDP")
    /\ Goto("key")
    /\ UNCHANGED <<inuse, conn, mfast, served, inited, slaveVars, flight,
                   mishap, broken>>

TakeKey(s) ==
    /\ At("key") /\ call.slave = s /\ flight[s].key > 0
    /\ flight' = [flight EXCEPT ![s].key = @ - 1, ![s].check = @ + 1]
    /\ mfast' = mfast \cup {s}
    /\ Goto("serve")
    /\ UNCHANGED <<inuse, conn, served, inited, slaveVars, down, up, mishap, broken>>

Serve(s) ==
    /\ At("serve") /\ call.slave = s
    /\ served' = served \cup {s}
    /\ Goto("done")
    /\ UNCHANGED <<inuse, conn, mfast, inited, slaveVars, down, up, flight,
                   mishap, broken>>

GetSlaveStep ==
    \E s \in Slave :
        \/ veMPImplCreate(s) \/ veMPImplCreate_fails(s) \/ SendInit(s)
        \/ AskAddress(s) \/ AskConnect(s) \/ TakeKey(s) \/ Serve(s)

-----------------------------------------------------------------------------
(* The master: one slave's share of a push of state to all, and answers.    *)

Push_fast(s) ==
    /\ s \in inuse \cap mfast /\ flight[s].state < MaxFlight
    /\ flight' = [flight EXCEPT ![s].state = @ + 1]
    /\ UNCHANGED <<masterVars, slaveVars, down, up, mishap, broken>>

\* Without a fast_fd, veMPImplSend takes the reliable pipe; without a connection
\* it has nothing to look at.
Push_falls_back(s) ==
    /\ s \in inuse \ mfast /\ Len(down[s]) < MaxPipe
    /\ down' = IF s \in conn THEN Sent(s, "STATE") ELSE down
    /\ broken' = (broken \/ s \notin conn)
    /\ UNCHANGED <<masterVars, slaveVars, up, flight, mishap>>

veMPIntPush(s) == Push_fast(s) \/ Push_falls_back(s)

slave_msg_thread(s) ==
    /\ s \in served /\ up[s] # <<>>
    /\ up' = [up EXCEPT ![s] = Tail(@)]
    /\ inited' = IF Head(up[s]) = "INITED" THEN inited \cup {s} ELSE inited
    /\ UNCHANGED <<inuse, conn, call, mfast, served, slaveVars, down, flight,
                   mishap, broken>>

-----------------------------------------------------------------------------
(* The slave.                                                               *)

\* veMPImplRecv: the pipe that was not read last goes first.
ReliableWaits(s) == down[s] # <<>>
FastWaits(s) == s \in sfast /\ flight[s].state > 0
ReliableNext_FastFirst(s) == ReliableWaits(s) /\ ~FastWaits(s)
ReliableNext(s) == ReliableWaits(s) /\ (FastWaits(s) => ~rel_last[s])
FastNext(s) == FastWaits(s) /\ ~ReliableNext(s)

TakeReliable(s) ==
    /\ ReliableNext(s)
    /\ down' = [down EXCEPT ![s] = Tail(@)]
    /\ rel_last' = [rel_last EXCEPT ![s] = TRUE]

\* The first message a process takes has to be INIT, or it gives up.
veMPSlaveInit(s) ==
    /\ slave[s] = "waiting" /\ TakeReliable(s)
    /\ slave' = [slave EXCEPT ![s] = IF Head(down[s]) = "INIT" THEN "starting" ELSE "dead"]
    /\ UNCHANGED <<masterVars, sfast, up, flight, mishap, broken>>

veMPInit(s) ==
    /\ slave[s] = "starting"
    /\ slave' = [slave EXCEPT ![s] = "listening"]
    /\ UNCHANGED <<masterVars, sfast, rel_last, down, up, flight, mishap, broken>>

\* msg_thread, with a message that changes nothing else here.
TakeOther(s) ==
    /\ slave[s] = "listening" /\ ReliableWaits(s)
    /\ Head(down[s]) \in {"STATE", "CHANNEL"} /\ TakeReliable(s)
    /\ UNCHANGED <<masterVars, slave, sfast, up, flight, mishap, broken>>

TakeRun(s) ==
    /\ slave[s] = "listening" /\ ReliableWaits(s)
    /\ Head(down[s]) = "RUN" /\ TakeReliable(s)
    /\ up' = [up EXCEPT ![s] = Append(@, "INITED")]
    /\ UNCHANGED <<masterVars, slave, sfast, flight, mishap, broken>>

Sysdep_BESTADDR(s) ==
    /\ slave[s] = "listening" /\ ReliableWaits(s)
    /\ Head(down[s]) = "BESTADDR" /\ TakeReliable(s)
    /\ up' = [up EXCEPT ![s] = Append(@, "ADDRESS")]
    /\ UNCHANGED <<masterVars, slave, sfast, flight, mishap, broken>>

Sysdep_CONNUDP(s) ==
    /\ slave[s] = "listening" /\ ReliableWaits(s)
    /\ Head(down[s]) = "CONNUDP" /\ TakeReliable(s)
    /\ flight' = [flight EXCEPT ![s].key = @ + 1]
    /\ slave' = [slave EXCEPT ![s] = "checking"]
    /\ UNCHANGED <<masterVars, sfast, up, mishap, broken>>

\* The slave reads one datagram and compares it with the check it expects.
Check_matches(s) ==
    /\ slave[s] = "checking" /\ flight[s].check > 0
    /\ flight' = [flight EXCEPT ![s].check = @ - 1]
    /\ slave' = [slave EXCEPT ![s] = "listening"]
    /\ sfast' = sfast \cup {s}
    /\ UNCHANGED <<masterVars, rel_last, down, up, mishap, broken>>

Check_differs(s) ==
    /\ slave[s] = "checking" /\ flight[s].state > 0
    /\ flight' = [flight EXCEPT ![s].state = @ - 1]
    /\ slave' = [slave EXCEPT ![s] = "listening"]
    /\ mishap' = mishap \cup {s}
    /\ UNCHANGED <<masterVars, sfast, rel_last, down, up, broken>>

TakeFast(s) ==
    /\ slave[s] = "listening" /\ FastNext(s)
    /\ flight' = [flight EXCEPT ![s].state = @ - 1]
    /\ rel_last' = [rel_last EXCEPT ![s] = FALSE]
    /\ UNCHANGED <<masterVars, slave, sfast, down, up, mishap, broken>>

\* The slave's only thread for messages.
SlaveStep(s) ==
    \/ veMPSlaveInit(s) \/ veMPInit(s)
    \/ TakeOther(s) \/ TakeRun(s) \/ Sysdep_BESTADDR(s) \/ Sysdep_CONNUDP(s)
    \/ Check_matches(s) \/ Check_differs(s) \/ TakeFast(s)

-----------------------------------------------------------------------------
Lose(s, d) ==
    /\ flight[s][d] > 0
    /\ flight' = [flight EXCEPT ![s][d] = @ - 1]
    /\ mishap' = IF d = "state" THEN mishap ELSE mishap \cup {s}
    /\ UNCHANGED <<masterVars, slaveVars, down, up, broken>>

-----------------------------------------------------------------------------
(* Properties.                                                              *)

ConnTypeOK ==
    /\ inuse \subseteq Slave /\ conn \subseteq inuse
    /\ call \in [slave : Slave \cup {NoSlave}, allow_fail : BOOLEAN,
                 at : {"idle", "create", "init", "ask", "answer", "key", "serve",
                       "done", "failed", "fatal"}]
    /\ mfast \subseteq conn /\ sfast \subseteq conn
    /\ served \subseteq conn /\ inited \subseteq served
    /\ down \in [Slave -> Seq({"INIT", "BESTADDR", "CONNUDP", "RUN", "CHANNEL", "STATE"})]
    /\ up \in [Slave -> Seq({"ADDRESS", "INITED"})]
    /\ flight \in [Slave -> [key : Nat, check : Nat, state : Nat]]
    /\ slave \in [Slave -> {"none", "waiting", "starting", "listening", "checking", "dead"}]
    /\ rel_last \in [Slave -> BOOLEAN]
    /\ mishap \subseteq Slave /\ broken \in BOOLEAN

\* The first message a slave gets is its INIT, without which it gives up, and
\* nobody sends to a slave whose row is in use before it has a connection
\* (ve_mp.c:282-289, 373-402 and 638-641): veMPGetSlave and veMPIntPush share no
\* lock, so it depends on the order in which veRun does things.
FirstIsInit == ~broken /\ \A s \in Slave : slave[s] # "dead"

\* Once a slave that renders has answered RUN both ends use the datagram
\* socket, or neither: whatever became of the key and the check, the master
\* does not send datagrams to a slave that does not listen to them
\* (ve_mp_posix.c:1004-1029 and 1125-1158).
EndsAgree == \A s \in inited : s \in mfast <=> s \in sfast

\* Messages do not wait for ever in the reliable pipe of a slave that reads
\* datagrams as well, however many come (ve_mp_posix.c:1183-1190).
ReliableServed ==
    \A s \in Slave : down[s] # <<>> /\ s \in sfast ~> down[s] = <<>>
=============================================================================
