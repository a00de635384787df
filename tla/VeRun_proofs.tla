---------------------------- MODULE VeRun_proofs ----------------------------
(* Proofs about VeRun: delayed threads are started once, a slave hears its  *)
(* INIT first, and both ends of a connection agree about datagrams.         *)
EXTENDS VeRun, SequenceTheorems, TLAPS

-----------------------------------------------------------------------------
(* The inductive invariant.                                                 *)

Has(q, m) == \E i \in 1 .. Len(q) : q[i] = m
Once(q, m) == \A i, j \in 1 .. Len(q) : q[i] = m /\ q[j] = m => i = j

RunTypeOK ==
    /\ pc \in {"devices", "windows", "rendering", "channels", "running"}
    /\ next \in Nat \ {0} /\ rendering \subseteq Slave

TypeInv == ConnTypeOK /\ GateTypeOK /\ RunTypeOK

\* Where the call of veMPGetSlave is: before the slave's thread on the master
\* runs, the slave is the caller's own.
CallInv ==
    /\ At("idle") => call = NoCall
    /\ ~At("idle") => call.slave \in Slave /\ pc \in {"windows", "channels"}
    /\ ~At("idle") => next <= Len(Wanted)
    /\ At("create") => call.slave \in inuse \ conn
    /\ \A s \in inuse \ conn : At("create") /\ call.slave = s
    /\ call.at \in {"init", "ask", "answer", "key", "serve"} => call.slave \in conn \ served
    /\ \A s \in conn \ served :
        call.slave = s /\ call.at \in {"init", "ask", "answer", "key", "serve"}
    /\ At("done") => call.slave \in served
    /\ rendering \subseteq served

\* Nothing is pushed before the gate is open, and then no call is in progress.
GateInv ==
    /\ \A t \in Delayed : started[t] > 0 => gate_opened
    /\ starting # {} \/ releasing => gate_opened
    /\ gate_opened => pc \in {"channels", "running"} /\ next > Len(Channels)
    /\ ~gate_opened => \A s \in Slave : flight[s].state = 0

\* Until a process has its INIT, INIT is the first in its pipe.
WaitInv ==
    /\ FirstIsInit
    /\ \A s \in Slave :
        /\ s \notin conn => slave[s] = "none" /\ down[s] = <<>>
        /\ At("init") /\ call.slave = s => slave[s] = "waiting" /\ down[s] = <<>>
        /\ slave[s] = "waiting" /\ ~(At("init") /\ call.slave = s) =>
            down[s] # <<>> /\ Head(down[s]) = "INIT"

\* The hand-shake is in one place at a time: the request in the pipe, the key or
\* the check on its way, the slave waiting for the check.
HandInv ==
    \A s \in Slave :
        /\ Has(down[s], "CONNUDP") =>
            /\ At("key") /\ call.slave = s /\ Once(down[s], "CONNUDP")
            /\ s \notin sfast /\ slave[s] # "checking" /\ flight[s].key = 0
        /\ flight[s].key > 0 =>
            flight[s].key = 1 /\ slave[s] = "checking" /\ s \notin mfast
        /\ flight[s].check > 0 \/ flight[s].state > 0 => s \in mfast
        /\ s \in sfast => s \in mfast /\ slave[s] # "checking"
        /\ s \in mfast => s \in served \/ (At("serve") /\ call.slave = s)
        /\ slave[s] = "checking" =>
            s \in served \/ (call.at \in {"key", "serve"} /\ call.slave = s)
        /\ ~gate_opened /\ s \in mfast /\ s \notin sfast => slave[s] = "checking"

\* RUN is sent once, and answered when the slave's hand-shake is over.
RunInv ==
    /\ \A s \in Slave :
        /\ Has(down[s], "RUN") =>
            /\ pc = "rendering" /\ s \in rendering /\ s \notin inited
            /\ ~Has(up[s], "INITED") /\ Once(down[s], "RUN")
        /\ Has(up[s], "INITED") \/ s \in inited =>
            /\ s \in rendering /\ pc \notin {"devices", "windows"}
            /\ slave[s] # "checking" /\ (s \in mfast <=> s \in sfast)
    /\ pc \in {"channels", "running"} => rendering \subseteq inited

IInv == TypeInv /\ CallInv /\ GateInv /\ WaitInv /\ HandInv /\ RunInv

-----------------------------------------------------------------------------
(* Sequences.                                                               *)

Down == {"INIT", "BESTADDR", "CONNUDP", "RUN", "CHANNEL", "STATE"}
Up == {"ADDRESS", "INITED"}

LEMMA AppendFacts ==
    ASSUME NEW S, NEW q \in Seq(S), NEW x \in S
    PROVE  /\ Append(q, x) \in Seq(S) /\ Append(q, x) # <<>>
           /\ q # <<>> => Head(Append(q, x)) = Head(q)
           /\ q = <<>> => Head(Append(q, x)) = x
           /\ \A m : Has(Append(q, x), m) <=> Has(q, m) \/ x = m
           /\ \A m : Once(q, m) /\ (x = m => ~Has(q, m)) => Once(Append(q, x), m)
<1>1. Append(q, x) \in Seq(S) /\ Append(q, x) # <<>> /\ Len(Append(q, x)) = Len(q) + 1
  BY AppendProperties
<1>2. /\ \A i \in 1 .. Len(q) : Append(q, x)[i] = q[i]
      /\ Append(q, x)[Len(q) + 1] = x
  OBVIOUS
<1>3. /\ q # <<>> => Head(Append(q, x)) = Head(q)
      /\ q = <<>> => Head(Append(q, x)) = x
  BY <1>1, <1>2
<1>4. \A m : Has(Append(q, x), m) <=> Has(q, m) \/ x = m
  BY <1>1, <1>2 DEF Has
<1>5. \A m : Once(q, m) /\ (x = m => ~Has(q, m)) => Once(Append(q, x), m)
  BY <1>1, <1>2 DEF Has, Once
<1> QED
  BY <1>1, <1>3, <1>4, <1>5

LEMMA TailFacts ==
    ASSUME NEW S, NEW q \in Seq(S), q # <<>>
    PROVE  /\ Tail(q) \in Seq(S) /\ Head(q) \in S
           /\ \A m : Has(Tail(q), m) => Has(q, m)
           /\ Has(q, Head(q))
           /\ \A m : Once(q, m) => Once(Tail(q), m)
           /\ \A m : Once(q, m) /\ Head(q) = m => ~Has(Tail(q), m)
<1>1. /\ Tail(q) \in Seq(S) /\ Len(Tail(q)) = Len(q) - 1 /\ Len(q) \in Nat \ {0}
      /\ Head(q) = q[1] /\ Head(q) \in S
  OBVIOUS
<1>2. \A i \in 1 .. Len(Tail(q)) : Tail(q)[i] = q[i + 1] /\ i + 1 \in 1 .. Len(q)
  OBVIOUS
<1>3. (\A m : Has(Tail(q), m) => Has(q, m)) /\ Has(q, Head(q))
  BY <1>1, <1>2 DEF Has
<1>4. \A m : Once(q, m) => Once(Tail(q), m)
  BY <1>1, <1>2 DEF Once
<1>5. \A m : Once(q, m) /\ Head(q) = m => ~Has(Tail(q), m)
  BY <1>1, <1>2 DEF Has, Once
<1> QED
  BY <1>1, <1>3, <1>4, <1>5

LEMMA NothingInEmpty == \A m : ~Has(<<>>, m)
BY DEF Has

-----------------------------------------------------------------------------
(* Every step preserves the invariant.                                      *)

Datagrams == [key : Nat, check : Nat, state : Nat]

LEMMA WantedLength ==
    ASSUME pc # "windows"
    PROVE  Len(Wanted) = Len(Channels)
BY RunAssumption DEF Wanted

\* When the gate is open no call is in progress.
LEMMA OpenMeansIdle ==
    ASSUME IInv, gate_opened
    PROVE  At("idle") /\ inuse \subseteq conn
<1>1. pc # "windows" /\ next > Len(Channels) /\ next \in Nat
  BY DEF IInv, TypeInv, GateInv, RunTypeOK
<1>2. Len(Channels) \in Nat
  BY RunAssumption
<1>3. At("idle")
  BY <1>1, <1>2, WantedLength DEF IInv, CallInv
<1> QED
  BY <1>3 DEF IInv, CallInv, At

LEMMA veMPImplCreate_Inv ==
    ASSUME IInv, NEW s \in Slave, veMPImplCreate(s), UNCHANGED <<gateVars, runVars>>
    PROVE  IInv'
<1> USE DEF IInv, TypeInv, vars, connVars, masterVars, slaveVars, gateVars, runVars, veMPImplCreate, At, Goto, Sent
<1>1. TypeInv'
  BY DEF ConnTypeOK, GateTypeOK, RunTypeOK, CallInv, WaitInv, Down, Up, Datagrams
<1>2. CallInv'
  BY DEF ConnTypeOK, CallInv, Wanted, NoCall, RunTypeOK
<1>3. GateInv'
  BY DEF ConnTypeOK, GateTypeOK, CallInv, GateInv
<1>4. WaitInv'
  BY DEF ConnTypeOK, CallInv, GateInv, WaitInv, FirstIsInit
<1>5. HandInv'
  BY NothingInEmpty DEF ConnTypeOK, CallInv, GateInv, WaitInv, HandInv
<1>6. RunInv'
  BY NothingInEmpty DEF ConnTypeOK, CallInv, GateInv, HandInv, RunInv
<1> QED
  BY <1>1, <1>2, <1>3, <1>4, <1>5, <1>6

LEMMA veMPImplCreate_fails_Inv ==
    ASSUME IInv, NEW s \in Slave, veMPImplCreate_fails(s), UNCHANGED <<gateVars, runVars>>
    PROVE  IInv'
<1> USE DEF IInv, TypeInv, vars, connVars, masterVars, slaveVars, gateVars, runVars, veMPImplCreate_fails, Fail, At, Goto, Sent
<1>1. TypeInv'
  <2>1. s \notin conn
    BY DEF CallInv
  <2>2. call' \in [slave : Slave \cup {NoSlave}, allow_fail : BOOLEAN, at : {"failed", "fatal"}]
    BY DEF ConnTypeOK
  <2> QED
    BY <2>1, <2>2 DEF ConnTypeOK, GateTypeOK, RunTypeOK
<1>2. CallInv'
  BY DEF ConnTypeOK, CallInv, Wanted, NoCall, RunTypeOK
<1>3. GateInv'
  BY DEF ConnTypeOK, GateTypeOK, CallInv, GateInv
<1>4. WaitInv'
  BY DEF ConnTypeOK, CallInv, GateInv, WaitInv, FirstIsInit
<1>5. HandInv'
  BY NothingInEmpty DEF ConnTypeOK, CallInv, GateInv, WaitInv, HandInv
<1>6. RunInv'
  BY NothingInEmpty DEF ConnTypeOK, CallInv, GateInv, HandInv, RunInv
<1> QED
  BY <1>1, <1>2, <1>3, <1>4, <1>5, <1>6

LEMMA SendInit_Inv ==
    ASSUME IInv, NEW s \in Slave, SendInit(s), UNCHANGED <<gateVars, runVars>>
    PROVE  IInv'
<1> USE DEF IInv, TypeInv, vars, connVars, masterVars, slaveVars, gateVars, runVars, SendInit, At, Goto, Sent
<1>1. down[s] \in Seq(Down) /\ "INIT" \in Down
  BY DEF ConnTypeOK, Down
<1>2. /\ Append(down[s], "INIT") \in Seq(Down) /\ Append(down[s], "INIT") # <<>>
      /\ down[s] # <<>> => Head(Append(down[s], "INIT")) = Head(down[s])
      /\ down[s] = <<>> => Head(Append(down[s], "INIT")) = "INIT"
      /\ \A m : Has(Append(down[s], "INIT"), m) <=> Has(down[s], m) \/ m = "INIT"
      /\ \A m : Once(down[s], m) /\ (m = "INIT" => ~Has(down[s], m)) => Once(Append(down[s], "INIT"), m)
  BY <1>1, AppendFacts
<1>3. /\ down' \in [Slave -> Seq(Down)] /\ down'[s] = Append(down[s], "INIT")
      /\ \A r \in Slave : r # s => down'[r] = down[r]
  BY <1>2 DEF ConnTypeOK, Down
<1>4. TypeInv'
  BY <1>3 DEF ConnTypeOK, GateTypeOK, RunTypeOK, Down, Up, Datagrams
<1>5. CallInv'
  BY <1>2, <1>3 DEF ConnTypeOK, CallInv, Wanted, NoCall, RunTypeOK
<1>6. GateInv'
  BY <1>2, <1>3 DEF ConnTypeOK, GateTypeOK, CallInv, GateInv
<1>7. WaitInv'
  BY <1>2, <1>3 DEF ConnTypeOK, CallInv, GateInv, WaitInv, FirstIsInit
<1>8. HandInv'
  BY <1>2, <1>3, NothingInEmpty DEF ConnTypeOK, CallInv, GateInv, WaitInv, HandInv
<1>9. RunInv'
  BY <1>2, <1>3, NothingInEmpty DEF ConnTypeOK, CallInv, GateInv, HandInv, RunInv
<1> QED
  BY <1>4, <1>5, <1>6, <1>7, <1>8, <1>9

LEMMA AskAddress_Inv ==
    ASSUME IInv, NEW s \in Slave, AskAddress(s), UNCHANGED <<gateVars, runVars>>
    PROVE  IInv'
<1> USE DEF IInv, TypeInv, vars, connVars, masterVars, slaveVars, gateVars, runVars, AskAddress, At, Goto, Sent
<1>1. down[s] \in Seq(Down) /\ "BESTADDR" \in Down
  BY DEF ConnTypeOK, Down
<1>2. /\ Append(down[s], "BESTADDR") \in Seq(Down) /\ Append(down[s], "BESTADDR") # <<>>
      /\ down[s] # <<>> => Head(Append(down[s], "BESTADDR")) = Head(down[s])
      /\ \A m : Has(Append(down[s], "BESTADDR"), m) <=> Has(down[s], m) \/ m = "BESTADDR"
      /\ \A m : Once(down[s], m) /\ (m = "BESTADDR" => ~Has(down[s], m)) => Once(Append(down[s], "BESTADDR"), m)
  BY <1>1, AppendFacts
<1>3. /\ down' \in [Slave -> Seq(Down)] /\ down'[s] = Append(down[s], "BESTADDR")
      /\ \A r \in Slave : r # s => down'[r] = down[r]
  BY <1>2 DEF ConnTypeOK, Down
<1>4. TypeInv'
  BY <1>3 DEF ConnTypeOK, GateTypeOK, RunTypeOK, Down, Up, Datagrams
<1>5. CallInv'
  BY <1>2, <1>3 DEF ConnTypeOK, CallInv, Wanted, NoCall, RunTypeOK
<1>6. GateInv'
  BY <1>2, <1>3 DEF ConnTypeOK, GateTypeOK, CallInv, GateInv
<1>7. WaitInv'
  BY <1>2, <1>3 DEF ConnTypeOK, CallInv, GateInv, WaitInv, FirstIsInit
<1>8. HandInv'
  BY <1>2, <1>3, NothingInEmpty DEF ConnTypeOK, CallInv, GateInv, WaitInv, HandInv
<1>9. RunInv'
  BY <1>2, <1>3, NothingInEmpty DEF ConnTypeOK, CallInv, GateInv, HandInv, RunInv
<1> QED
  BY <1>4, <1>5, <1>6, <1>7, <1>8, <1>9

LEMMA AskConnect_Inv ==
    ASSUME IInv, NEW s \in Slave, AskConnect(s), UNCHANGED <<gateVars, runVars>>
    PROVE  IInv'
<1> USE DEF IInv, TypeInv, vars, connVars, masterVars, slaveVars, gateVars, runVars, AskConnect, At, Goto, Sent
<1>1. down[s] \in Seq(Down) /\ "CONNUDP" \in Down
  BY DEF ConnTypeOK, Down
<1>2. /\ Append(down[s], "CONNUDP") \in Seq(Down) /\ Append(down[s], "CONNUDP") # <<>>
      /\ down[s] # <<>> => Head(Append(down[s], "CONNUDP")) = Head(down[s])
      /\ \A m : Has(Append(down[s], "CONNUDP"), m) <=> Has(down[s], m) \/ m = "CONNUDP"
      /\ \A m : Once(down[s], m) /\ (m = "CONNUDP" => ~Has(down[s], m)) => Once(Append(down[s], "CONNUDP"), m)
  BY <1>1, AppendFacts
<1>3. /\ down' \in [Slave -> Seq(Down)] /\ down'[s] = Append(down[s], "CONNUDP")
      /\ \A r \in Slave : r # s => down'[r] = down[r]
  BY <1>2 DEF ConnTypeOK, Down
<1>4. up[s] \in Seq(Up) /\ up[s] # <<>>
  BY DEF ConnTypeOK, Up
<1>5. /\ Tail(up[s]) \in Seq(Up) /\ Has(up[s], Head(up[s]))
      /\ \A m : Has(Tail(up[s]), m) => Has(up[s], m)
  BY <1>4, TailFacts
<1>6. /\ up' \in [Slave -> Seq(Up)] /\ up'[s] = Tail(up[s])
      /\ \A r \in Slave : r # s => up'[r] = up[r]
  BY <1>5 DEF ConnTypeOK, Up
<1>7. TypeInv'
  BY <1>3, <1>6 DEF ConnTypeOK, GateTypeOK, RunTypeOK, CallInv, WaitInv, Down, Up, Datagrams
<1>8. CallInv'
  BY <1>2, <1>3, <1>5, <1>6 DEF ConnTypeOK, CallInv, Wanted, NoCall, RunTypeOK
<1>9. GateInv'
  BY <1>2, <1>3, <1>5, <1>6 DEF ConnTypeOK, GateTypeOK, CallInv, GateInv
<1>10. WaitInv'
  BY <1>2, <1>3, <1>5, <1>6 DEF ConnTypeOK, CallInv, GateInv, WaitInv, FirstIsInit
<1>11. /\ s \notin served /\ s \notin mfast /\ s \notin sfast /\ slave[s] # "checking"
      /\ \A r \in Slave : ~Has(down[r], "CONNUDP")
      /\ s \notin rendering
  BY DEF CallInv, HandInv
<1>b. flight[s].key \in Nat /\ flight[s].key = 0
  BY <1>11 DEF ConnTypeOK, HandInv
<1>c. ~Has(down[s], "RUN") /\ ~Has(up[s], "INITED") /\ s \notin inited
  BY <1>11 DEF RunInv
<1>12. HandInv'
  <2>1. Has(down'[s], "CONNUDP") => Once(down'[s], "CONNUDP")
    BY <1>11, <1>5, <1>6 DEF Has, Once
  <2>2. \A r \in Slave : r # s => ~Has(down'[r], "CONNUDP")
    BY <1>11, <1>6
  <2> QED
    BY <1>11, <1>b, <2>1, <2>2 DEF ConnTypeOK, HandInv
<1>13. RunInv'
  <2>1. ~Has(down'[s], "RUN") /\ ~Has(up'[s], "INITED")
    BY <1>c, <1>2, <1>3, <1>5, <1>6
  <2> QED
    BY <1>c, <2>1, <1>3, <1>6 DEF RunInv
<1> QED
  BY <1>7, <1>8, <1>9, <1>10, <1>12, <1>13

LEMMA TakeKey_Inv ==
    ASSUME IInv, NEW s \in Slave, TakeKey(s), UNCHANGED <<gateVars, runVars>>
    PROVE  IInv'
<1> USE DEF IInv, TypeInv, vars, connVars, masterVars, slaveVars, gateVars, runVars, TakeKey, At, Goto, Sent
<1>1. flight \in [Slave -> Datagrams] /\ flight[s] \in Datagrams
  BY DEF ConnTypeOK, Datagrams
<1>2. [flight[s] EXCEPT !.key = @ - 1, !.check = @ + 1] \in Datagrams
  BY <1>1 DEF Datagrams
<1>3. flight' \in [Slave -> Datagrams]
  BY <1>2, <1>1 DEF Datagrams
<1>4. TypeInv'
  BY <1>3 DEF ConnTypeOK, GateTypeOK, RunTypeOK, CallInv, WaitInv, Down, Up, Datagrams
<1>5. CallInv'
  BY <1>2 DEF ConnTypeOK, CallInv, Wanted, NoCall, RunTypeOK
<1>6. GateInv'
  BY <1>2 DEF ConnTypeOK, GateTypeOK, CallInv, GateInv
<1>7. WaitInv'
  BY <1>2 DEF ConnTypeOK, CallInv, GateInv, WaitInv, FirstIsInit
<1>8. HandInv'
  BY <1>2, NothingInEmpty DEF ConnTypeOK, CallInv, GateInv, WaitInv, HandInv
<1>9. RunInv'
  BY <1>2, NothingInEmpty DEF ConnTypeOK, CallInv, GateInv, HandInv, RunInv
<1> QED
  BY <1>4, <1>5, <1>6, <1>7, <1>8, <1>9

LEMMA Serve_Inv ==
    ASSUME IInv, NEW s \in Slave, Serve(s), UNCHANGED <<gateVars, runVars>>
    PROVE  IInv'
<1> USE DEF IInv, TypeInv, vars, connVars, masterVars, slaveVars, gateVars, runVars, Serve, At, Goto, Sent
<1>1. TypeInv'
  BY DEF ConnTypeOK, GateTypeOK, RunTypeOK, CallInv, WaitInv, Down, Up, Datagrams
<1>2. CallInv'
  BY DEF ConnTypeOK, CallInv, Wanted, NoCall, RunTypeOK
<1>3. GateInv'
  BY DEF ConnTypeOK, GateTypeOK, CallInv, GateInv
<1>4. WaitInv'
  BY DEF ConnTypeOK, CallInv, GateInv, WaitInv, FirstIsInit
<1>5. HandInv'
  BY NothingInEmpty DEF ConnTypeOK, CallInv, GateInv, WaitInv, HandInv
<1>6. RunInv'
  BY NothingInEmpty DEF ConnTypeOK, CallInv, GateInv, HandInv, RunInv
<1> QED
  BY <1>1, <1>2, <1>3, <1>4, <1>5, <1>6

LEMMA Push_fast_Inv ==
    ASSUME IInv, NEW s \in Slave, NEW t \in Delayed, started[t] > 0, Push_fast(s), UNCHANGED <<gateVars, runVars>>
    PROVE  IInv'
<1> USE DEF IInv, TypeInv, vars, connVars, masterVars, slaveVars, gateVars, runVars, Push_fast, At, Goto, Sent
<1>1. flight \in [Slave -> Datagrams] /\ flight[s] \in Datagrams
  BY DEF ConnTypeOK, Datagrams
<1>2. [flight[s] EXCEPT !.state = @ + 1] \in Datagrams
  BY <1>1 DEF Datagrams
<1>3. flight' \in [Slave -> Datagrams]
  BY <1>2, <1>1 DEF Datagrams
<1>4. TypeInv'
  BY <1>3 DEF ConnTypeOK, GateTypeOK, RunTypeOK, Down, Up, Datagrams
<1>5. CallInv'
  BY <1>2 DEF ConnTypeOK, CallInv, Wanted, NoCall, RunTypeOK
<1>6. GateInv'
  BY <1>2 DEF ConnTypeOK, GateTypeOK, CallInv, GateInv
<1>7. WaitInv'
  BY <1>2 DEF ConnTypeOK, CallInv, GateInv, WaitInv, FirstIsInit
<1>8. HandInv'
  BY <1>2, NothingInEmpty DEF ConnTypeOK, CallInv, GateInv, WaitInv, HandInv
<1>9. RunInv'
  BY <1>2, NothingInEmpty DEF ConnTypeOK, CallInv, GateInv, HandInv, RunInv
<1> QED
  BY <1>4, <1>5, <1>6, <1>7, <1>8, <1>9

LEMMA Push_falls_back_Inv ==
    ASSUME IInv, NEW s \in Slave, NEW t \in Delayed, started[t] > 0, Push_falls_back(s), UNCHANGED <<gateVars, runVars>>
    PROVE  IInv'
<1> USE DEF IInv, TypeInv, vars, connVars, masterVars, slaveVars, gateVars, runVars, Push_falls_back, At, Goto, Sent
<1>1. down[s] \in Seq(Down) /\ "STATE" \in Down
  BY DEF ConnTypeOK, Down
<1>2. /\ Append(down[s], "STATE") \in Seq(Down) /\ Append(down[s], "STATE") # <<>>
      /\ down[s] # <<>> => Head(Append(down[s], "STATE")) = Head(down[s])
      /\ \A m : Has(Append(down[s], "STATE"), m) <=> Has(down[s], m) \/ m = "STATE"
      /\ \A m : Once(down[s], m) /\ (m = "STATE" => ~Has(down[s], m)) => Once(Append(down[s], "STATE"), m)
  BY <1>1, AppendFacts
<1>3. At("idle") /\ s \in conn /\ gate_opened
  BY OpenMeansIdle DEF GateInv
<1>4. /\ s \in conn
      /\ down' \in [Slave -> Seq(Down)] /\ down'[s] = Append(down[s], "STATE")
      /\ \A r \in Slave : r # s => down'[r] = down[r]
  BY <1>3, <1>2 DEF ConnTypeOK, Down
<1>5. TypeInv'
  BY <1>4 DEF ConnTypeOK, GateTypeOK, RunTypeOK, Down, Up, Datagrams
<1>6. CallInv'
  BY <1>2, <1>4 DEF ConnTypeOK, CallInv, Wanted, NoCall, RunTypeOK
<1>7. GateInv'
  BY <1>2, <1>4 DEF ConnTypeOK, GateTypeOK, CallInv, GateInv
<1>8. WaitInv'
  <2>1. ~broken'
    BY <1>3 DEF WaitInv, FirstIsInit
  <2>2. slave[s] = "waiting" => down'[s] # <<>> /\ Head(down'[s]) = "INIT"
    BY <1>3, <1>2, <1>4 DEF WaitInv
  <2> QED
    BY <1>3, <1>4, <2>1, <2>2 DEF WaitInv, FirstIsInit
<1>9. HandInv'
  BY <1>2, <1>4, NothingInEmpty DEF ConnTypeOK, CallInv, GateInv, WaitInv, HandInv
<1>10. RunInv'
  BY <1>2, <1>4, NothingInEmpty DEF ConnTypeOK, CallInv, GateInv, HandInv, RunInv
<1> QED
  BY <1>5, <1>6, <1>7, <1>8, <1>9, <1>10

LEMMA slave_msg_thread_Inv ==
    ASSUME IInv, NEW s \in Slave, slave_msg_thread(s), UNCHANGED <<gateVars, runVars>>
    PROVE  IInv'
<1> USE DEF IInv, TypeInv, vars, connVars, masterVars, slaveVars, gateVars, runVars, slave_msg_thread, At, Goto, Sent
<1>1. up[s] \in Seq(Up) /\ up[s] # <<>>
  BY DEF ConnTypeOK, Up
<1>2. /\ Tail(up[s]) \in Seq(Up) /\ Has(up[s], Head(up[s]))
      /\ \A m : Has(Tail(up[s]), m) => Has(up[s], m)
  BY <1>1, TailFacts
<1>3. /\ up' \in [Slave -> Seq(Up)] /\ up'[s] = Tail(up[s])
      /\ \A r \in Slave : r # s => up'[r] = up[r]
  BY <1>2 DEF ConnTypeOK, Up
<1>4. TypeInv'
  BY <1>3 DEF ConnTypeOK, GateTypeOK, RunTypeOK, Down, Up, Datagrams
<1>5. CallInv'
  BY <1>2, <1>3 DEF ConnTypeOK, CallInv, Wanted, NoCall, RunTypeOK
<1>6. GateInv'
  BY <1>2, <1>3 DEF ConnTypeOK, GateTypeOK, CallInv, GateInv
<1>7. WaitInv'
  BY <1>2, <1>3 DEF ConnTypeOK, CallInv, GateInv, WaitInv, FirstIsInit
<1>8. HandInv'
  BY <1>2, <1>3, NothingInEmpty DEF ConnTypeOK, CallInv, GateInv, WaitInv, HandInv
<1>9. RunInv'
  <2>1. \A r \in Slave : r \in inited' => r \in inited \/ Has(up[r], "INITED")
    BY <1>2
  <2>2. \A r \in Slave : Has(up'[r], "INITED") => Has(up[r], "INITED")
    BY <1>2, <1>3
  <2>3. inited \subseteq inited'
    OBVIOUS
  <2> QED
    BY <2>1, <2>2, <2>3 DEF RunInv
<1> QED
  BY <1>4, <1>5, <1>6, <1>7, <1>8, <1>9

LEMMA veMPSlaveInit_Inv ==
    ASSUME IInv, NEW s \in Slave, veMPSlaveInit(s), UNCHANGED <<gateVars, runVars>>
    PROVE  IInv'
<1> USE DEF IInv, TypeInv, vars, connVars, masterVars, slaveVars, gateVars, runVars, veMPSlaveInit, TakeReliable, ReliableNext, ReliableWaits, At, Goto, Sent
<1>1. down[s] \in Seq(Down) /\ down[s] # <<>>
  BY DEF ConnTypeOK, Down
<1>2. /\ Tail(down[s]) \in Seq(Down) /\ Has(down[s], Head(down[s]))
      /\ \A m : Has(Tail(down[s]), m) => Has(down[s], m)
      /\ \A m : Once(down[s], m) => Once(Tail(down[s]), m)
      /\ \A m : Once(down[s], m) /\ Head(down[s]) = m => ~Has(Tail(down[s]), m)
  BY <1>1, TailFacts
<1>3. /\ down' \in [Slave -> Seq(Down)] /\ down'[s] = Tail(down[s])
      /\ \A r \in Slave : r # s => down'[r] = down[r]
  BY <1>2 DEF ConnTypeOK, Down
<1>4. TypeInv'
  BY <1>3 DEF ConnTypeOK, GateTypeOK, RunTypeOK, Down, Up, Datagrams
<1>5. CallInv'
  BY <1>2, <1>3 DEF ConnTypeOK, CallInv, Wanted, NoCall, RunTypeOK
<1>6. GateInv'
  BY <1>2, <1>3 DEF ConnTypeOK, GateTypeOK, CallInv, GateInv
<1>7. Head(down[s]) = "INIT"
  BY <1>1 DEF WaitInv
<1>b. /\ slave' = [slave EXCEPT ![s] = "starting"] /\ slave'[s] = "starting"
      /\ \A r \in Slave : r # s => slave'[r] = slave[r]
  BY <1>7 DEF ConnTypeOK
<1>8. WaitInv'
  <2>1. s \in conn /\ ~(At("init") /\ call.slave = s)
    BY <1>1 DEF WaitInv
  <2> QED
    BY <1>b, <1>3, <2>1 DEF WaitInv, FirstIsInit
<1>9. HandInv'
  <2>1. \A r \in Slave : Has(down'[r], "CONNUDP") =>
          Has(down[r], "CONNUDP") /\ (Once(down[r], "CONNUDP") => Once(down'[r], "CONNUDP"))
    BY <1>2, <1>3
  <2>2. slave[s] # "checking"
    OBVIOUS
  <2> QED
    BY <1>b, <2>1, <2>2 DEF HandInv
<1>10. RunInv'
  <2>1. \A r \in Slave : Has(down'[r], "RUN") =>
          Has(down[r], "RUN") /\ (Once(down[r], "RUN") => Once(down'[r], "RUN"))
    BY <1>2, <1>3
  <2> QED
    BY <1>b, <2>1 DEF RunInv
<1> QED
  BY <1>4, <1>5, <1>6, <1>8, <1>9, <1>10

LEMMA veMPInit_Inv ==
    ASSUME IInv, NEW s \in Slave, veMPInit(s), UNCHANGED <<gateVars, runVars>>
    PROVE  IInv'
<1> USE DEF IInv, TypeInv, vars, connVars, masterVars, slaveVars, gateVars, runVars, veMPInit, At, Goto, Sent
<1>1. TypeInv'
  BY DEF ConnTypeOK, GateTypeOK, RunTypeOK, Down, Up, Datagrams
<1>2. CallInv'
  BY DEF ConnTypeOK, CallInv, Wanted, NoCall, RunTypeOK
<1>3. GateInv'
  BY DEF ConnTypeOK, GateTypeOK, CallInv, GateInv
<1>4. WaitInv'
  BY DEF ConnTypeOK, CallInv, GateInv, WaitInv, FirstIsInit
<1>5. HandInv'
  BY NothingInEmpty DEF ConnTypeOK, CallInv, GateInv, WaitInv, HandInv
<1>6. RunInv'
  BY NothingInEmpty DEF ConnTypeOK, CallInv, GateInv, HandInv, RunInv
<1> QED
  BY <1>1, <1>2, <1>3, <1>4, <1>5, <1>6

LEMMA TakeOther_Inv ==
    ASSUME IInv, NEW s \in Slave, TakeOther(s), UNCHANGED <<gateVars, runVars>>
    PROVE  IInv'
<1> USE DEF IInv, TypeInv, vars, connVars, masterVars, slaveVars, gateVars, runVars, TakeOther, TakeReliable, ReliableNext, ReliableWaits, At, Goto, Sent
<1>1. down[s] \in Seq(Down) /\ down[s] # <<>>
  BY DEF ConnTypeOK, Down
<1>2. /\ Tail(down[s]) \in Seq(Down) /\ Has(down[s], Head(down[s]))
      /\ \A m : Has(Tail(down[s]), m) => Has(down[s], m)
      /\ \A m : Once(down[s], m) => Once(Tail(down[s]), m)
      /\ \A m : Once(down[s], m) /\ Head(down[s]) = m => ~Has(Tail(down[s]), m)
  BY <1>1, TailFacts
<1>3. /\ down' \in [Slave -> Seq(Down)] /\ down'[s] = Tail(down[s])
      /\ \A r \in Slave : r # s => down'[r] = down[r]
  BY <1>2 DEF ConnTypeOK, Down
<1>4. TypeInv'
  BY <1>3 DEF ConnTypeOK, GateTypeOK, RunTypeOK, Down, Up, Datagrams
<1>5. CallInv'
  BY <1>2, <1>3 DEF ConnTypeOK, CallInv, Wanted, NoCall, RunTypeOK
<1>6. GateInv'
  BY <1>2, <1>3 DEF ConnTypeOK, GateTypeOK, CallInv, GateInv
<1>7. WaitInv'
  BY <1>2, <1>3 DEF ConnTypeOK, CallInv, GateInv, WaitInv, FirstIsInit
<1>8. HandInv'
  BY <1>2, <1>3, NothingInEmpty DEF ConnTypeOK, CallInv, GateInv, WaitInv, HandInv
<1>9. RunInv'
  BY <1>2, <1>3, NothingInEmpty DEF ConnTypeOK, CallInv, GateInv, HandInv, RunInv
<1> QED
  BY <1>4, <1>5, <1>6, <1>7, <1>8, <1>9

LEMMA TakeRun_Inv ==
    ASSUME IInv, NEW s \in Slave, TakeRun(s), UNCHANGED <<gateVars, runVars>>
    PROVE  IInv'
<1> USE DEF IInv, TypeInv, vars, connVars, masterVars, slaveVars, gateVars, runVars, TakeRun, TakeReliable, ReliableNext, ReliableWaits, At, Goto, Sent
<1>1. down[s] \in Seq(Down) /\ down[s] # <<>>
  BY DEF ConnTypeOK, Down
<1>2. /\ Tail(down[s]) \in Seq(Down) /\ Has(down[s], Head(down[s]))
      /\ \A m : Has(Tail(down[s]), m) => Has(down[s], m)
      /\ \A m : Once(down[s], m) => Once(Tail(down[s]), m)
      /\ \A m : Once(down[s], m) /\ Head(down[s]) = m => ~Has(Tail(down[s]), m)
  BY <1>1, TailFacts
<1>3. /\ down' \in [Slave -> Seq(Down)] /\ down'[s] = Tail(down[s])
      /\ \A r \in Slave : r # s => down'[r] = down[r]
  BY <1>2 DEF ConnTypeOK, Down
<1>4. up[s] \in Seq(Up) /\ "INITED" \in Up
  BY DEF ConnTypeOK, Up
<1>5. /\ Append(up[s], "INITED") \in Seq(Up) /\ Append(up[s], "INITED") # <<>>
      /\ \A m : Has(Append(up[s], "INITED"), m) <=> Has(up[s], m) \/ m = "INITED"
  BY <1>4, AppendFacts
<1>6. /\ up' \in [Slave -> Seq(Up)] /\ up'[s] = Append(up[s], "INITED")
      /\ \A r \in Slave : r # s => up'[r] = up[r]
  BY <1>5 DEF ConnTypeOK, Up
<1>7. TypeInv'
  BY <1>3, <1>6 DEF ConnTypeOK, GateTypeOK, RunTypeOK, Down, Up, Datagrams
<1>8. CallInv'
  BY <1>2, <1>3, <1>5, <1>6 DEF ConnTypeOK, CallInv, Wanted, NoCall, RunTypeOK
<1>9. GateInv'
  BY <1>2, <1>3, <1>5, <1>6 DEF ConnTypeOK, GateTypeOK, CallInv, GateInv
<1>10. WaitInv'
  <2>1. s \in conn /\ ~(At("init") /\ call.slave = s)
    BY <1>1 DEF WaitInv
  <2> QED
    BY <1>3, <2>1 DEF WaitInv, FirstIsInit
<1>11. \A r \in Slave, m \in Down :
        /\ Has(down'[r], m) => Has(down[r], m)
        /\ Once(down[r], m) => Once(down'[r], m)
        /\ r = s /\ Once(down[s], m) /\ Head(down[s]) = m => ~Has(down'[s], m)
  BY <1>2, <1>3
<1>12. "CONNUDP" \in Down /\ "RUN" \in Down
  BY DEF Down
<1>13. HandInv'
  BY <1>11, <1>12 DEF HandInv
<1>14. RunInv'
  <2>1. ~Has(down'[s], "RUN") /\ Has(down[s], "RUN")
    BY <1>2, <1>11, <1>12 DEF RunInv
  <2>2. slave[s] # "checking" /\ (s \in mfast <=> s \in sfast)
    BY <2>1 DEF RunInv, HandInv, GateInv
  <2>3. \A r \in Slave : r # s => up'[r] = up[r]
    BY <1>6
  <2> QED
    BY <1>11, <1>12, <2>1, <2>2, <2>3 DEF RunInv
<1> QED
  BY <1>7, <1>8, <1>9, <1>10, <1>13, <1>14

LEMMA Sysdep_BESTADDR_Inv ==
    ASSUME IInv, NEW s \in Slave, Sysdep_BESTADDR(s), UNCHANGED <<gateVars, runVars>>
    PROVE  IInv'
<1> USE DEF IInv, TypeInv, vars, connVars, masterVars, slaveVars, gateVars, runVars, Sysdep_BESTADDR, TakeReliable, ReliableNext, ReliableWaits, At, Goto, Sent
<1>1. down[s] \in Seq(Down) /\ down[s] # <<>>
  BY DEF ConnTypeOK, Down
<1>2. /\ Tail(down[s]) \in Seq(Down) /\ Has(down[s], Head(down[s]))
      /\ \A m : Has(Tail(down[s]), m) => Has(down[s], m)
      /\ \A m : Once(down[s], m) => Once(Tail(down[s]), m)
      /\ \A m : Once(down[s], m) /\ Head(down[s]) = m => ~Has(Tail(down[s]), m)
  BY <1>1, TailFacts
<1>3. /\ down' \in [Slave -> Seq(Down)] /\ down'[s] = Tail(down[s])
      /\ \A r \in Slave : r # s => down'[r] = down[r]
  BY <1>2 DEF ConnTypeOK, Down
<1>4. up[s] \in Seq(Up) /\ "ADDRESS" \in Up
  BY DEF ConnTypeOK, Up
<1>5. /\ Append(up[s], "ADDRESS") \in Seq(Up) /\ Append(up[s], "ADDRESS") # <<>>
      /\ \A m : Has(Append(up[s], "ADDRESS"), m) <=> Has(up[s], m) \/ m = "ADDRESS"
  BY <1>4, AppendFacts
<1>6. /\ up' \in [Slave -> Seq(Up)] /\ up'[s] = Append(up[s], "ADDRESS")
      /\ \A r \in Slave : r # s => up'[r] = up[r]
  BY <1>5 DEF ConnTypeOK, Up
<1>7. TypeInv'
  BY <1>3, <1>6 DEF ConnTypeOK, GateTypeOK, RunTypeOK, Down, Up, Datagrams
<1>8. CallInv'
  BY <1>2, <1>3, <1>5, <1>6 DEF ConnTypeOK, CallInv, Wanted, NoCall, RunTypeOK
<1>9. GateInv'
  BY <1>2, <1>3, <1>5, <1>6 DEF ConnTypeOK, GateTypeOK, CallInv, GateInv
<1>10. WaitInv'
  <2>1. s \in conn /\ ~(At("init") /\ call.slave = s)
    BY <1>1 DEF WaitInv
  <2> QED
    BY <1>3, <2>1 DEF WaitInv, FirstIsInit
<1>11. \A r \in Slave, m \in Down :
        /\ Has(down'[r], m) => Has(down[r], m)
        /\ Once(down[r], m) => Once(down'[r], m)
        /\ r = s /\ Once(down[s], m) /\ Head(down[s]) = m => ~Has(down'[s], m)
  BY <1>2, <1>3
<1>12. "CONNUDP" \in Down /\ "RUN" \in Down
  BY DEF Down
<1>13. HandInv'
  BY <1>11, <1>12 DEF HandInv
<1>14. RunInv'
  <2>1. \A r \in Slave : Has(up'[r], "INITED") => Has(up[r], "INITED")
    BY <1>5, <1>6
  <2> QED
    BY <1>11, <1>12, <2>1 DEF RunInv
<1> QED
  BY <1>7, <1>8, <1>9, <1>10, <1>13, <1>14

LEMMA Sysdep_CONNUDP_Inv ==
    ASSUME IInv, NEW s \in Slave, Sysdep_CONNUDP(s), UNCHANGED <<gateVars, runVars>>
    PROVE  IInv'
<1> USE DEF IInv, TypeInv, vars, connVars, masterVars, slaveVars, gateVars, runVars, Sysdep_CONNUDP, TakeReliable, ReliableNext, ReliableWaits, At, Goto, Sent
<1>1. down[s] \in Seq(Down) /\ down[s] # <<>>
  BY DEF ConnTypeOK, Down
<1>2. /\ Tail(down[s]) \in Seq(Down) /\ Has(down[s], Head(down[s]))
      /\ \A m : Has(Tail(down[s]), m) => Has(down[s], m)
      /\ \A m : Once(down[s], m) => Once(Tail(down[s]), m)
      /\ \A m : Once(down[s], m) /\ Head(down[s]) = m => ~Has(Tail(down[s]), m)
  BY <1>1, TailFacts
<1>3. /\ down' \in [Slave -> Seq(Down)] /\ down'[s] = Tail(down[s])
      /\ \A r \in Slave : r # s => down'[r] = down[r]
  BY <1>2 DEF ConnTypeOK, Down
<1>4. flight \in [Slave -> Datagrams] /\ flight[s] \in Datagrams
  BY DEF ConnTypeOK, Datagrams
<1>5. [flight[s] EXCEPT !.key = @ + 1] \in Datagrams
  <2>1. flight[s].key + 1 \in Nat
    BY <1>4 DEF Datagrams
  <2> QED
    BY <1>4, <2>1 DEF Datagrams
<1>6. flight' \in [Slave -> Datagrams]
  BY <1>5, <1>4 DEF Datagrams
<1>7. TypeInv'
  BY <1>3, <1>6 DEF ConnTypeOK, GateTypeOK, RunTypeOK, Down, Up, Datagrams
<1>8. CallInv'
  BY <1>2, <1>3, <1>5 DEF ConnTypeOK, CallInv, Wanted, NoCall, RunTypeOK
<1>9. GateInv'
  BY <1>2, <1>3, <1>5 DEF ConnTypeOK, GateTypeOK, CallInv, GateInv
<1>10. WaitInv'
  BY <1>2, <1>3, <1>5 DEF ConnTypeOK, CallInv, GateInv, WaitInv, FirstIsInit
<1>11. HandInv'
  BY <1>2, <1>3, <1>5, NothingInEmpty DEF ConnTypeOK, CallInv, GateInv, WaitInv, HandInv
<1>12. RunInv'
  BY <1>2, <1>3, <1>5, NothingInEmpty DEF ConnTypeOK, CallInv, GateInv, HandInv, RunInv
<1> QED
  BY <1>7, <1>8, <1>9, <1>10, <1>11, <1>12

LEMMA Check_matches_Inv ==
    ASSUME IInv, NEW s \in Slave, Check_matches(s), UNCHANGED <<gateVars, runVars>>
    PROVE  IInv'
<1> USE DEF IInv, TypeInv, vars, connVars, masterVars, slaveVars, gateVars, runVars, Check_matches, At, Goto, Sent
<1>1. flight \in [Slave -> Datagrams] /\ flight[s] \in Datagrams
  BY DEF ConnTypeOK, Datagrams
<1>2. [flight[s] EXCEPT !.check = @ - 1] \in Datagrams
  BY <1>1 DEF Datagrams
<1>3. flight' \in [Slave -> Datagrams]
  BY <1>2, <1>1 DEF Datagrams
<1>4. TypeInv'
  <2>1. s \in conn
    BY DEF WaitInv
  <2> QED
    <3>1. sfast' \subseteq conn' /\ slave' \in [Slave -> {"none", "waiting", "starting",
            "listening", "checking", "dead"}]
      BY <2>1 DEF ConnTypeOK
    <3> QED
      BY <1>3, <3>1 DEF ConnTypeOK, GateTypeOK, RunTypeOK, Datagrams
<1>5. CallInv'
  BY <1>2 DEF ConnTypeOK, CallInv, Wanted, NoCall, RunTypeOK
<1>6. GateInv'
  BY <1>2 DEF ConnTypeOK, GateTypeOK, CallInv, GateInv
<1>7. WaitInv'
  BY <1>2 DEF ConnTypeOK, CallInv, GateInv, WaitInv, FirstIsInit
<1>8. HandInv'
  BY <1>2, NothingInEmpty DEF ConnTypeOK, CallInv, GateInv, WaitInv, HandInv
<1>9. RunInv'
  BY <1>2, NothingInEmpty DEF ConnTypeOK, CallInv, GateInv, HandInv, RunInv
<1> QED
  BY <1>4, <1>5, <1>6, <1>7, <1>8, <1>9

LEMMA Check_differs_Inv ==
    ASSUME IInv, NEW s \in Slave, Check_differs(s), UNCHANGED <<gateVars, runVars>>
    PROVE  IInv'
<1> USE DEF IInv, TypeInv, vars, connVars, masterVars, slaveVars, gateVars, runVars, Check_differs, At, Goto, Sent
<1>1. flight \in [Slave -> Datagrams] /\ flight[s] \in Datagrams
  BY DEF ConnTypeOK, Datagrams
<1>2. [flight[s] EXCEPT !.state = @ - 1] \in Datagrams
  BY <1>1 DEF Datagrams
<1>3. flight' \in [Slave -> Datagrams]
  BY <1>2, <1>1 DEF Datagrams
<1>4. TypeInv'
  BY <1>3 DEF ConnTypeOK, GateTypeOK, RunTypeOK, Down, Up, Datagrams
<1>5. CallInv'
  BY <1>2 DEF ConnTypeOK, CallInv, Wanted, NoCall, RunTypeOK
<1>6. GateInv'
  BY <1>2 DEF ConnTypeOK, GateTypeOK, CallInv, GateInv
<1>7. WaitInv'
  BY <1>2 DEF ConnTypeOK, CallInv, GateInv, WaitInv, FirstIsInit
<1>8. HandInv'
  <2>1. gate_opened
    BY DEF GateInv
  <2>2. flight[s].key = 0 \/ flight[s].key > 0
    BY <1>1 DEF Datagrams
  <2> QED
    BY <1>1, <2>1, <2>2 DEF ConnTypeOK, HandInv
<1>9. RunInv'
  BY <1>2, NothingInEmpty DEF ConnTypeOK, CallInv, GateInv, HandInv, RunInv
<1> QED
  BY <1>4, <1>5, <1>6, <1>7, <1>8, <1>9

LEMMA TakeFast_Inv ==
    ASSUME IInv, NEW s \in Slave, TakeFast(s), UNCHANGED <<gateVars, runVars>>
    PROVE  IInv'
<1> USE DEF IInv, TypeInv, vars, connVars, masterVars, slaveVars, gateVars, runVars, TakeFast, FastNext, FastWaits, At, Goto, Sent
<1>1. flight \in [Slave -> Datagrams] /\ flight[s] \in Datagrams
  BY DEF ConnTypeOK, Datagrams
<1>2. [flight[s] EXCEPT !.state = @ - 1] \in Datagrams
  BY <1>1 DEF Datagrams
<1>3. flight' \in [Slave -> Datagrams]
  BY <1>2, <1>1 DEF Datagrams
<1>4. TypeInv'
  BY <1>3 DEF ConnTypeOK, GateTypeOK, RunTypeOK, Down, Up, Datagrams
<1>5. CallInv'
  BY <1>2 DEF ConnTypeOK, CallInv, Wanted, NoCall, RunTypeOK
<1>6. GateInv'
  BY <1>2 DEF ConnTypeOK, GateTypeOK, CallInv, GateInv
<1>7. WaitInv'
  BY <1>2 DEF ConnTypeOK, CallInv, GateInv, WaitInv, FirstIsInit
<1>8. HandInv'
  BY <1>2, NothingInEmpty DEF ConnTypeOK, CallInv, GateInv, WaitInv, HandInv
<1>9. RunInv'
  BY <1>2, NothingInEmpty DEF ConnTypeOK, CallInv, GateInv, HandInv, RunInv
<1> QED
  BY <1>4, <1>5, <1>6, <1>7, <1>8, <1>9

LEMMA Lose_Inv ==
    ASSUME IInv, NEW s \in Slave, NEW d \in {"key", "check", "state"}, Lose(s, d), UNCHANGED <<gateVars, runVars>>
    PROVE  IInv'
<1> USE DEF IInv, TypeInv, vars, connVars, masterVars, slaveVars, gateVars, runVars, Lose, At, Goto, Sent
<1>1. flight \in [Slave -> Datagrams] /\ flight[s] \in Datagrams
  BY DEF ConnTypeOK, Datagrams
<1>2. [flight[s] EXCEPT !.key = @ - 1] \in Datagrams <=> flight[s].key > 0
  BY <1>1 DEF Datagrams
<1>3. [flight[s] EXCEPT !.check = @ - 1] \in Datagrams <=> flight[s].check > 0
  BY <1>1 DEF Datagrams
<1>4. [flight[s] EXCEPT !.state = @ - 1] \in Datagrams <=> flight[s].state > 0
  BY <1>1 DEF Datagrams
<1>5. flight' \in [Slave -> Datagrams]
  <2>1. CASE d = "key"
    BY <2>1, <1>1, <1>2
  <2>2. CASE d = "check"
    BY <2>2, <1>1, <1>3
  <2>3. CASE d = "state"
    BY <2>3, <1>1, <1>4
  <2> QED
    BY <2>1, <2>2, <2>3
<1>6. TypeInv'
  BY <1>5 DEF ConnTypeOK, GateTypeOK, RunTypeOK, Down, Up, Datagrams
<1>7. CallInv'
  BY <1>4 DEF ConnTypeOK, CallInv, Wanted, NoCall, RunTypeOK
<1>8. GateInv'
  BY <1>4 DEF ConnTypeOK, GateTypeOK, CallInv, GateInv
<1>9. WaitInv'
  BY <1>4 DEF ConnTypeOK, CallInv, GateInv, WaitInv, FirstIsInit
<1>10. HandInv'
  BY <1>4, NothingInEmpty DEF ConnTypeOK, CallInv, GateInv, WaitInv, HandInv
<1>11. RunInv'
  BY <1>4, NothingInEmpty DEF ConnTypeOK, CallInv, GateInv, HandInv, RunInv
<1> QED
  BY <1>6, <1>7, <1>8, <1>9, <1>10, <1>11

LEMMA WantedType ==
    ASSUME pc \in {"windows", "channels"}, next \in Nat \ {0}, next <= Len(Wanted)
    PROVE  Wanted[next].slave \in Slave /\ Wanted[next].async \in BOOLEAN
<1>1. CASE pc = "windows"
  <2>1. Windows \in Seq([slave : Slave, async : BOOLEAN]) /\ next \in 1 .. Len(Windows)
    BY <1>1, RunAssumption DEF Wanted
  <2>2. Windows[next] \in [slave : Slave, async : BOOLEAN]
    BY <2>1, ElementOfSeq
  <2> QED
    BY <1>1, <2>2 DEF Wanted
<1>2. CASE pc = "channels"
  <2>a. Len(Wanted) = Len(Channels)
    BY <1>2, WantedLength
  <2>b. Channels \in Seq(Slave) /\ Len(Channels) \in Nat /\ DOMAIN Channels = 1 .. Len(Channels)
    BY RunAssumption
  <2>1. next \in 1 .. Len(Channels) /\ next \in DOMAIN Channels
    BY <2>a, <2>b
  <2>2. Channels[next] \in Slave
    BY <2>1, <2>b
  <2> QED
    BY <1>2, <2>1, <2>2 DEF Wanted
<1> QED
  BY <1>1, <1>2

LEMMA GetSlave_Inv ==
    ASSUME IInv, GetSlave
    PROVE  IInv'
<1> USE DEF IInv, TypeInv, vars, connVars, masterVars, slaveVars, gateVars, runVars, At
<1> DEFINE w == Wanted[next]
<1>1. w.slave \in Slave /\ w.async \in BOOLEAN
  BY WantedType DEF RunTypeOK, GetSlave
<1>2. PICK p \in {"done", "failed", "fatal", "create"} :
        call' = [slave |-> w.slave, allow_fail |-> w.async, at |-> p]
  BY DEF GetSlave, veMPGetSlave, veMPGetSlave_finds, veMPGetSlave_full, veMPGetSlave_takes
<1> HIDE DEF w
<1>3. call'.slave = w.slave /\ call'.at = p /\ call'.allow_fail = w.async
  BY <1>2
<1>4. /\ veMPGetSlave(w.slave, w.async) /\ UNCHANGED <<gateVars, runVars>>
      /\ pc \in {"windows", "channels"} /\ next <= Len(Wanted)
  BY DEF GetSlave, w
<1>5. /\ pc \in {"windows", "channels"} /\ next <= Len(Wanted) /\ At("idle")
      /\ \/ inuse' = inuse /\ p # "create"
         \/ inuse' = inuse \cup {w.slave} /\ p = "create" /\ w.slave \notin inuse
      /\ p = "done" => w.slave \in inuse
      /\ UNCHANGED <<conn, mfast, served, inited, slaveVars, down, up, flight,
                     mishap, broken, gateVars, runVars>>
  <2>1. CASE veMPGetSlave_finds(w.slave, w.async)
    BY <2>1, <1>4, <1>3 DEF veMPGetSlave_finds
  <2>2. CASE veMPGetSlave_full(w.slave, w.async)
    BY <2>2, <1>4, <1>3 DEF veMPGetSlave_full
  <2>3. CASE veMPGetSlave_takes(w.slave, w.async)
    BY <2>3, <1>4, <1>3 DEF veMPGetSlave_takes
  <2> QED
    BY <1>4, <2>1, <2>2, <2>3 DEF veMPGetSlave
<1>6. inuse \subseteq conn /\ conn \subseteq served /\ conn \subseteq inuse /\ ~gate_opened
  <2>1. Len(Channels) \in Nat /\ next \in Nat
    BY RunAssumption DEF RunTypeOK
  <2>2. gate_opened => pc # "windows" /\ next > Len(Channels)
    BY DEF GateInv
  <2>3. ~gate_opened
    BY <1>5, <2>1, <2>2, WantedLength
  <2> QED
    BY <1>5, <2>3 DEF CallInv, ConnTypeOK
<1>7. TypeInv'
  <2>1. call' \in [slave : Slave, allow_fail : BOOLEAN,
                   at : {"done", "failed", "fatal", "create"}]
    BY <1>1, <1>2
  <2> QED
    BY <1>1, <1>5, <2>1 DEF ConnTypeOK, GateTypeOK, RunTypeOK
<1>8. CallInv'
  BY <1>1, <1>3, <1>5, <1>6 DEF CallInv, Wanted
<1>9. GateInv'
  BY <1>5 DEF GateInv
<1>10. WaitInv'
  BY <1>3, <1>5 DEF WaitInv, FirstIsInit
<1>11. HandInv'
  BY <1>3, <1>5, <1>6 DEF HandInv
<1>12. RunInv'
  BY <1>5 DEF RunInv
<1> QED
  BY <1>7, <1>8, <1>9, <1>10, <1>11, <1>12

LEMMA find_slave_Inv ==
    ASSUME IInv, find_slave
    PROVE  IInv'
<1> USE DEF IInv, TypeInv, vars, connVars, masterVars, slaveVars, gateVars, runVars, At, find_slave, Called, Return, GetSlaveKeeps
<1>1. call' = NoCall /\ call'.at = "idle" /\ call'.allow_fail = FALSE /\ call'.slave = NoSlave
  BY DEF NoCall
<1>2. TypeInv'
  <2>1. call' \in [slave : Slave \cup {NoSlave}, allow_fail : BOOLEAN, at : {"idle"}]
    BY DEF NoCall
  <2>2. rendering' \subseteq Slave /\ next' \in Nat \ {0}
    BY DEF CallInv, ConnTypeOK, RunTypeOK
  <2> QED
    BY <2>1, <2>2 DEF ConnTypeOK, GateTypeOK, RunTypeOK
<1>3. CallInv'
  <2>1. inuse \subseteq conn
    BY DEF CallInv
  <2> QED
    BY <1>1, <2>1 DEF CallInv
<1>4. GateInv'
  BY DEF GateInv
<1>5. WaitInv'
  BY DEF WaitInv, FirstIsInit, NoCall
<1>6. HandInv'
  BY DEF HandInv, NoCall
<1>7. RunInv'
  BY DEF RunInv
<1> QED
  BY <1>2, <1>3, <1>4, <1>5, <1>6, <1>7

LEMMA SendRun_Inv ==
    ASSUME IInv, SendRun
    PROVE  IInv'
<1> USE DEF IInv, TypeInv, vars, connVars, masterVars, slaveVars, gateVars, runVars, At, SendRun, GetSlaveKeeps
<1>1. \A s \in Slave : ~Has(down[s], "RUN") /\ ~Has(up[s], "INITED") /\ s \notin inited
  BY DEF RunInv
<1>2. \A s \in Slave :
        /\ down[s] \in Seq(Down) /\ Append(down[s], "RUN") \in Seq(Down)
        /\ Append(down[s], "RUN") # <<>>
        /\ down[s] # <<>> => Head(Append(down[s], "RUN")) = Head(down[s])
        /\ \A m : Has(Append(down[s], "RUN"), m) <=> Has(down[s], m) \/ m = "RUN"
        /\ Once(Append(down[s], "RUN"), "RUN")
  <2> TAKE s \in Slave
  <2>1. down[s] \in Seq(Down) /\ "RUN" \in Down
    BY DEF ConnTypeOK, Down
  <2> QED
    <3>1. Once(down[s], "RUN") /\ ~Has(down[s], "RUN")
      BY <1>1 DEF Has, Once
    <3> QED
      BY <2>1, <3>1, AppendFacts
<1>3. /\ DOMAIN down' = Slave
      /\ \A s \in Slave : /\ s \in rendering => down'[s] = Append(down[s], "RUN")
                          /\ s \notin rendering => down'[s] = down[s]
  OBVIOUS
<1>4. At("idle") /\ pc = "windows" /\ pc' = "rendering" /\ ~gate_opened
  <2>1. next > Len(Wanted)
    BY RunAssumption DEF Wanted
  <2> QED
    BY <2>1, RunAssumption DEF CallInv, GateInv, RunTypeOK, Wanted
<1>5. TypeInv'
  BY <1>2, <1>3 DEF ConnTypeOK, GateTypeOK, RunTypeOK, Down
<1>6. CallInv'
  BY <1>4 DEF CallInv
<1>7. GateInv'
  BY <1>4 DEF GateInv
<1>8. WaitInv'
  <2>1. rendering \subseteq conn
    BY DEF CallInv, ConnTypeOK
  <2> QED
    BY <1>2, <1>3, <1>4, <2>1 DEF WaitInv, FirstIsInit
<1>9. HandInv'
  <2>1. \A s \in Slave : ~Has(down[s], "CONNUDP")
    BY <1>4 DEF HandInv
  <2>2. \A s \in Slave : ~Has(down'[s], "CONNUDP")
    BY <2>1, <1>2, <1>3
  <2> QED
    BY <2>2, <1>4 DEF HandInv
<1>10. RunInv'
  BY <1>1, <1>2, <1>3, <1>4 DEF RunInv
<1> QED
  BY <1>5, <1>6, <1>7, <1>8, <1>9, <1>10

LEMMA SendChannel_Inv ==
    ASSUME IInv, SendChannel
    PROVE  IInv'
<1> USE DEF IInv, TypeInv, vars, connVars, masterVars, slaveVars, gateVars, runVars, At, SendChannel, Called, Return, GetSlaveKeeps, Sent
<1> DEFINE s == call.slave
<1>1. /\ call' = NoCall /\ call'.at = "idle" /\ call'.slave = NoSlave
      /\ call' \in [slave : Slave \cup {NoSlave}, allow_fail : BOOLEAN, at : {"idle"}]
      /\ s \in Slave
  BY DEF NoCall, CallInv
<1>2. down[s] \in Seq(Down) /\ "CHANNEL" \in Down
  BY <1>1 DEF ConnTypeOK, Down
<1>3. /\ down[s] \in Seq(Down) /\ Append(down[s], "CHANNEL") \in Seq(Down)
      /\ Append(down[s], "CHANNEL") # <<>>
      /\ down[s] # <<>> => Head(Append(down[s], "CHANNEL")) = Head(down[s])
      /\ \A m : Has(Append(down[s], "CHANNEL"), m) <=> Has(down[s], m) \/ m = "CHANNEL"
      /\ \A m : Once(down[s], m) /\ m # "CHANNEL" => Once(Append(down[s], "CHANNEL"), m)
  BY <1>2, AppendFacts
<1>4. /\ down' \in [Slave -> Seq(Down)]
      /\ \A r \in Slave : r # s => down'[r] = down[r]
      /\ \/ down'[s] = down[s]
         \/ At("done") /\ down'[s] = Append(down[s], "CHANNEL")
  <2>1. down \in [Slave -> Seq(Down)]
    BY DEF ConnTypeOK, Down
  <2>2. CASE At("done")
    <3>1. down' = [down EXCEPT ![s] = Append(down[s], "CHANNEL")]
      BY <2>2
    <3>2. Append(down[s], "CHANNEL") \in Seq(Down)
      BY <1>3
    <3> QED
      BY <2>1, <2>2, <3>1, <3>2, <1>1
  <2>3. CASE ~At("done")
    <3>1. down' = down
      BY <2>3
    <3> QED
      BY <2>1, <3>1
  <2> QED
    BY <2>2, <2>3
<1>5. TypeInv'
  BY <1>1, <1>4 DEF ConnTypeOK, GateTypeOK, RunTypeOK, Down
<1>6. CallInv'
  <2>1. inuse \subseteq conn
    BY DEF CallInv
  <2> QED
    BY <1>1, <2>1 DEF CallInv
<1>7. GateInv'
  BY DEF GateInv, RunTypeOK
<1>8. WaitInv'
  <2>1. At("done") => s \in conn
    BY DEF CallInv, ConnTypeOK
  <2> QED
    BY <1>1, <1>3, <1>4, <2>1 DEF WaitInv, FirstIsInit
<1>9. HandInv'
  <2>1. \A r \in Slave : ~Has(down[r], "CONNUDP")
    BY DEF HandInv
  <2>2. \A r \in Slave : ~Has(down'[r], "CONNUDP")
    BY <2>1, <1>3, <1>4
  <2> QED
    BY <2>2, <1>1 DEF HandInv
<1>10. RunInv'
  <2>1. \A r \in Slave : Has(down'[r], "RUN") =>
          Has(down[r], "RUN") /\ (Once(down[r], "RUN") => Once(down'[r], "RUN"))
    BY <1>3, <1>4
  <2> QED
    BY <2>1 DEF RunInv
<1> QED
  BY <1>5, <1>6, <1>7, <1>8, <1>9, <1>10

LEMMA Begin_Inv ==
    ASSUME IInv, Begin
    PROVE  IInv'
<1> USE DEF IInv, TypeInv, vars, connVars, masterVars, slaveVars, gateVars, runVars, At, Begin
<1>1. TypeInv'
  BY DEF ConnTypeOK, GateTypeOK, RunTypeOK
<1>2. CallInv'
  BY DEF CallInv, Wanted
<1>3. GateInv'
  BY DEF GateInv, GateTypeOK, RunTypeOK
<1>4. WaitInv'
  BY DEF WaitInv, FirstIsInit
<1>5. HandInv'
  BY DEF HandInv
<1>6. RunInv'
  BY DEF RunInv
<1> QED
  BY <1>1, <1>2, <1>3, <1>4, <1>5, <1>6

LEMMA RenderRuns_Inv ==
    ASSUME IInv, RenderRuns
    PROVE  IInv'
<1> USE DEF IInv, TypeInv, vars, connVars, masterVars, slaveVars, gateVars, runVars, At, RenderRuns, slaves_are_init
<1>1. TypeInv'
  BY DEF ConnTypeOK, GateTypeOK, RunTypeOK
<1>2. CallInv'
  BY DEF CallInv, Wanted
<1>3. GateInv'
  BY DEF GateInv, GateTypeOK, RunTypeOK
<1>4. WaitInv'
  BY DEF WaitInv, FirstIsInit
<1>5. HandInv'
  BY DEF HandInv
<1>6. RunInv'
  BY DEF RunInv
<1> QED
  BY <1>1, <1>2, <1>3, <1>4, <1>5, <1>6

LEMMA Release_Inv ==
    ASSUME IInv, Release
    PROVE  IInv'
<1> USE DEF IInv, TypeInv, vars, connVars, masterVars, slaveVars, gateVars, runVars, At, Release, MayRelease, OpenGate, Opened
<1>1. TypeInv'
  BY DEF ConnTypeOK, GateTypeOK, RunTypeOK
<1>2. CallInv'
  BY DEF CallInv, Wanted
<1>3. GateInv'
  BY DEF GateInv, GateTypeOK, RunTypeOK
<1>4. WaitInv'
  BY DEF WaitInv, FirstIsInit
<1>5. HandInv'
  BY DEF HandInv
<1>6. RunInv'
  BY DEF RunInv
<1> QED
  BY <1>1, <1>2, <1>3, <1>4, <1>5, <1>6

LEMMA Running_Inv ==
    ASSUME IInv, Running
    PROVE  IInv'
<1> USE DEF IInv, TypeInv, vars, connVars, masterVars, slaveVars, gateVars, runVars, At, Running, LeaveGate
<1>1. At("idle") /\ gate_opened /\ next > Len(Channels)
  BY OpenMeansIdle DEF GateInv
<1>2. TypeInv'
  BY DEF ConnTypeOK, GateTypeOK, RunTypeOK
<1>3. CallInv'
  BY <1>1 DEF CallInv
<1>4. GateInv'
  BY <1>1 DEF GateInv
<1>5. WaitInv'
  BY DEF WaitInv, FirstIsInit
<1>6. HandInv'
  BY DEF HandInv
<1>7. RunInv'
  BY <1>1 DEF RunInv, GateInv
<1> QED
  BY <1>2, <1>3, <1>4, <1>5, <1>6, <1>7

LEMMA FlushQueue_Inv ==
    ASSUME IInv, FlushQueue, UNCHANGED <<connVars, runVars>>
    PROVE  IInv'
<1> USE DEF IInv, TypeInv, vars, connVars, masterVars, slaveVars, gateVars, runVars, At, FlushQueue, Rest
<1>1. TypeInv'
  <2>1. Head(thread_queue) \in Delayed /\ Tail(thread_queue) \in Seq(Delayed)
    BY DEF GateTypeOK
  <2>2. started' \in [Delayed -> Nat]
    BY <2>1 DEF GateTypeOK
  <2> QED
    BY <2>1, <2>2 DEF ConnTypeOK, GateTypeOK, RunTypeOK
<1>2. CallInv'
  BY DEF CallInv, Wanted
<1>3. GateInv'
  BY DEF GateInv, GateTypeOK, RunTypeOK
<1>4. WaitInv'
  BY DEF WaitInv, FirstIsInit
<1>5. HandInv'
  BY DEF HandInv
<1>6. RunInv'
  BY DEF RunInv
<1> QED
  BY <1>1, <1>2, <1>3, <1>4, <1>5, <1>6

LEMMA veThreadInitDelayed_Inv ==
    ASSUME IInv, NEW t \in Delayed, veThreadInitDelayed(t)
    PROVE  IInv'
<1> USE DEF IInv, TypeInv, vars, connVars, masterVars, slaveVars, gateVars, runVars, At, veThreadInitDelayed, veThreadInitDelayed_queues, veThreadInitDelayed_starts
<1>1. TypeInv'
  <2>1. <<t>> \in Seq(Delayed) /\ thread_queue \in Seq(Delayed)
    BY DEF GateTypeOK
  <2>2. <<t>> \o thread_queue \in Seq(Delayed)
    BY <2>1, ConcatProperties
  <2> QED
    <3>1. /\ thread_queue' \in Seq(Delayed)
          /\ asked' \subseteq Delayed /\ starting' \subseteq Delayed
      BY <2>1, <2>2 DEF GateTypeOK
    <3> QED
      BY <3>1 DEF ConnTypeOK, GateTypeOK, RunTypeOK
<1>2. CallInv'
  BY DEF CallInv, Wanted
<1>3. GateInv'
  BY DEF GateInv, GateTypeOK, RunTypeOK
<1>4. WaitInv'
  BY DEF WaitInv, FirstIsInit
<1>5. HandInv'
  BY DEF HandInv
<1>6. RunInv'
  BY DEF RunInv
<1> QED
  BY <1>1, <1>2, <1>3, <1>4, <1>5, <1>6

LEMMA Starting_Inv ==
    ASSUME IInv, NEW t \in Delayed, Starting(t)
    PROVE  IInv'
<1> USE DEF IInv, TypeInv, vars, connVars, masterVars, slaveVars, gateVars, runVars, At, Starting, veThreadInit
<1>1. TypeInv'
  BY DEF ConnTypeOK, GateTypeOK, RunTypeOK
<1>2. CallInv'
  BY DEF CallInv, Wanted
<1>3. GateInv'
  BY DEF GateInv, GateTypeOK, RunTypeOK
<1>4. WaitInv'
  BY DEF WaitInv, FirstIsInit
<1>5. HandInv'
  BY DEF HandInv
<1>6. RunInv'
  BY DEF RunInv
<1> QED
  BY <1>1, <1>2, <1>3, <1>4, <1>5, <1>6

-----------------------------------------------------------------------------
LEMMA GateTypeStart == GateInit => GateTypeOK
<1> SUFFICES ASSUME GateInit PROVE GateTypeOK
  OBVIOUS
<1>1. thread_queue \in Seq(Delayed)
  BY EmptySeq DEF GateInit
<1> QED
  BY <1>1 DEF GateInit, GateTypeOK

LEMMA InitInv == Init => IInv
<1> SUFFICES ASSUME Init PROVE IInv
  OBVIOUS
<1> USE DEF Init, ConnInit, GateInit
<1>1. TypeInv
  <2>1. call \in [slave : Slave \cup {NoSlave}, allow_fail : BOOLEAN, at : {"idle"}]
    BY DEF NoCall
  <2>2. [key |-> 0, check |-> 0, state |-> 0] \in Datagrams
    BY DEF Datagrams
  <2>3. flight \in [Slave -> Datagrams]
    BY <2>2
  <2>4. down \in [Slave -> Seq(Down)] /\ up \in [Slave -> Seq(Up)]
    BY EmptySeq
  <2>5. ConnTypeOK
    BY <2>1, <2>3, <2>4 DEF ConnTypeOK, Datagrams, Down, Up
  <2> QED
    BY <2>5, GateTypeStart DEF TypeInv, RunTypeOK
<1>2. CallInv /\ GateInv /\ WaitInv
  BY DEF CallInv, GateInv, WaitInv, FirstIsInit, At, NoCall
<1>3. HandInv /\ RunInv
  BY NothingInEmpty DEF HandInv, RunInv, At, NoCall
<1> QED
  BY <1>1, <1>2, <1>3 DEF IInv

LEMMA Stutter_Inv ==
    ASSUME IInv, UNCHANGED vars
    PROVE  IInv'
<1> USE DEF vars, connVars, masterVars, slaveVars, gateVars, runVars, At
<1>1. TypeInv' /\ CallInv'
  BY DEF IInv, TypeInv, ConnTypeOK, GateTypeOK, RunTypeOK, CallInv, Wanted
<1>2. GateInv' /\ WaitInv'
  BY DEF IInv, GateInv, WaitInv, FirstIsInit
<1>3. HandInv' /\ RunInv'
  BY DEF IInv, HandInv, RunInv
<1> QED
  BY <1>1, <1>2, <1>3 DEF IInv

LEMMA NextInv == IInv /\ [Next]_vars => IInv'
<1> SUFFICES ASSUME IInv, [Next]_vars PROVE IInv'
  OBVIOUS
<1>1. CASE veRun
  <2>1. CASE Begin
    BY <2>1, Begin_Inv
  <2>2. CASE GetSlave
    BY <2>2, GetSlave_Inv
  <2>3. CASE find_slave
    BY <2>3, find_slave_Inv
  <2>4. CASE SendRun
    BY <2>4, SendRun_Inv
  <2>5. CASE RenderRuns
    BY <2>5, RenderRuns_Inv
  <2>6. CASE SendChannel
    BY <2>6, SendChannel_Inv
  <2>7. CASE Release
    BY <2>7, Release_Inv
  <2>8. CASE Running
    BY <2>8, Running_Inv
  <2>9. CASE FlushQueue /\ UNCHANGED <<connVars, runVars>>
    BY <2>9, FlushQueue_Inv
  <2>10. CASE GetSlaveStep /\ UNCHANGED <<gateVars, runVars>>
    BY <2>10, veMPImplCreate_Inv, veMPImplCreate_fails_Inv, SendInit_Inv, AskAddress_Inv,
       AskConnect_Inv, TakeKey_Inv, Serve_Inv DEF GetSlaveStep
  <2> QED
    BY <1>1, <2>1, <2>2, <2>3, <2>4, <2>5, <2>6, <2>7, <2>8, <2>9, <2>10 DEF veRun
<1>2. CASE \E t \in Delayed : veThreadInitDelayed(t) \/ Starting(t)
  BY <1>2, veThreadInitDelayed_Inv, Starting_Inv
<1>3. CASE \E t \in Delayed, s \in Slave : Deliver(t, s)
  BY <1>3, Push_fast_Inv, Push_falls_back_Inv DEF Deliver, veMPIntPush
<1>4. CASE \E s \in Slave : MasterRecv(s) \/ SlaveRuns(s)
  <2> PICK s \in Slave : MasterRecv(s) \/ SlaveRuns(s)
    BY <1>4
  <2>1. CASE MasterRecv(s)
    BY <2>1, slave_msg_thread_Inv DEF MasterRecv
  <2>2. CASE SlaveRuns(s)
    BY <2>2, veMPSlaveInit_Inv, veMPInit_Inv, TakeOther_Inv, TakeRun_Inv,
       Sysdep_BESTADDR_Inv, Sysdep_CONNUDP_Inv, Check_matches_Inv, Check_differs_Inv,
       TakeFast_Inv DEF SlaveRuns, SlaveStep
  <2> QED
    BY <2>1, <2>2
<1>5. CASE \E s \in Slave, d \in {"key", "check", "state"} : Loss(s, d)
  BY <1>5, Lose_Inv DEF Loss
<1>6. CASE UNCHANGED vars
  BY <1>6, Stutter_Inv
<1> QED
  BY <1>1, <1>2, <1>3, <1>4, <1>5, <1>6 DEF Next

LEMMA Invariance == Spec => []IInv
BY InitInv, NextInv, PTL DEF Spec

-----------------------------------------------------------------------------
(* The theorems.                                                            *)

\* The variables of the connections and of the gate keep their types.
THEOREM TypeCorrect == Spec => [](ConnTypeOK /\ GateTypeOK)
<1>1. IInv => ConnTypeOK /\ GateTypeOK
  BY DEF IInv, TypeInv
<1> QED
  BY <1>1, Invariance, PTL

\* INIT comes first, and nothing is sent to a slave without a connection,
\* though veMPGetSlave and veMPIntPush have no lock in common: whatever the
\* windows, the channels and the devices.
THEOREM FirstCorrect == Spec => []FirstIsInit
<1>1. IInv => FirstIsInit
  BY DEF IInv, WaitInv
<1> QED
  BY <1>1, Invariance, PTL

\* A rendering slave and the master agree about the datagram socket once the
\* slave has answered RUN, whatever was lost during the hand-shake.
THEOREM AgreeCorrect == Spec => []EndsAgree
<1>1. IInv => EndsAgree
  BY DEF IInv, TypeInv, ConnTypeOK, RunInv, EndsAgree
<1> QED
  BY <1>1, Invariance, PTL

\* veRun and the devices use the gate by its operations only: what they do to
\* it is a behaviour of the gate's own specification.
THEOREM GateUsed == Spec => GateSpec
<1>1. Init => GateInit
  BY DEF Init
<1>2. [Next]_vars => [GateNext]_gateVars
  <2> SUFFICES ASSUME [Next]_vars PROVE [GateNext]_gateVars
    OBVIOUS
  <2> USE DEF GateNext
  <2>1. CASE veRun
    <3>1. CASE Release \/ Running \/ FlushQueue
      BY <3>1 DEF Release, Running
    <3>2. CASE Begin \/ GetSlave \/ find_slave \/ SendRun \/ RenderRuns \/ SendChannel
      BY <3>2 DEF Begin, GetSlave, find_slave, SendRun, RenderRuns, SendChannel
    <3> QED
      BY <2>1, <3>1, <3>2 DEF veRun
  <2>2. CASE \E t \in Delayed : veThreadInitDelayed(t) \/ Starting(t)
    BY <2>2 DEF veThreadInitDelayed, Starting
  <2>3. CASE \/ \E t \in Delayed, s \in Slave : Deliver(t, s)
             \/ \E s \in Slave : MasterRecv(s) \/ SlaveRuns(s)
             \/ \E s \in Slave, d \in {"key", "check", "state"} : Loss(s, d)
    BY <2>3 DEF Deliver, MasterRecv, SlaveRuns, Loss
  <2>4. CASE UNCHANGED vars
    BY <2>4 DEF vars
  <2> QED
    BY <2>1, <2>2, <2>3, <2>4 DEF Next
<1> QED
  BY <1>1, <1>2, PTL DEF Spec, GateSpec

-----------------------------------------------------------------------------
(* The gate.                                                                *)

LEMMA GateTypeStep == GateTypeOK /\ [GateNext]_gateVars => GateTypeOK'
<1> SUFFICES ASSUME GateTypeOK, [GateNext]_gateVars PROVE GateTypeOK'
  OBVIOUS
<1>1. ASSUME NEW t \in Delayed, veThreadInitDelayed_queues(t) PROVE GateTypeOK'
  <2>1. <<t>> \o thread_queue \in Seq(Delayed)
    BY ConcatProperties DEF GateTypeOK
  <2> QED
    BY <1>1, <2>1 DEF GateTypeOK, veThreadInitDelayed_queues
<1>2. ASSUME NEW t \in Delayed, veThreadInitDelayed_starts(t) PROVE GateTypeOK'
  BY <1>2 DEF GateTypeOK, veThreadInitDelayed_starts
<1>3. ASSUME NEW t \in Delayed, veThreadInit(t) PROVE GateTypeOK'
  BY <1>3 DEF GateTypeOK, veThreadInit
<1>4. CASE OpenGate \/ LeaveGate \/ UNCHANGED gateVars
  BY <1>4 DEF GateTypeOK, OpenGate, Opened, LeaveGate, gateVars
<1>5. CASE FlushQueue
  <2>1. Tail(thread_queue) \in Seq(Delayed) /\ Head(thread_queue) \in Delayed
    BY <1>5, HeadTailProperties DEF GateTypeOK, FlushQueue
  <2> QED
    BY <1>5, <2>1 DEF GateTypeOK, FlushQueue, Rest
<1> QED
  BY <1>1, <1>2, <1>3, <1>4, <1>5 DEF GateNext

Queued(t) == \E i \in 1 .. Len(thread_queue) : thread_queue[i] = t

\* A thread is in one place, which is where it was asked for.
InOnePlace(t) ==
    /\ t \notin asked => ~Queued(t) /\ t \notin starting /\ started[t] = 0
    /\ t \in asked =>
        \/ Queued(t) /\ t \notin starting /\ started[t] = 0
        \/ ~Queued(t) /\ t \in starting /\ started[t] = 0
        \/ ~Queued(t) /\ t \notin starting /\ started[t] = 1

Apart == \A i, j \in 1 .. Len(thread_queue) : thread_queue[i] = thread_queue[j] => i = j

OnceInv == Apart /\ \A t \in Delayed : InOnePlace(t)

LEMMA QueueStep ==
    ASSUME GateTypeOK, OnceInv, NEW t \in Delayed, veThreadInitDelayed_queues(t)
    PROVE  OnceInv'
<1>1. /\ Len(thread_queue') = Len(thread_queue) + 1 /\ Len(thread_queue) \in Nat
      /\ thread_queue'[1] = t
      /\ \A i \in 1 .. Len(thread_queue) : thread_queue'[i + 1] = thread_queue[i]
  BY ConcatProperties DEF GateTypeOK, veThreadInitDelayed_queues
<1>2. \A i \in 2 .. Len(thread_queue') :
        i - 1 \in 1 .. Len(thread_queue) /\ thread_queue'[i] = thread_queue[i - 1]
  BY <1>1
<1>3. \A u \in Delayed : Queued(u)' <=> Queued(u) \/ u = t
  <2>1. ASSUME NEW u \in Delayed, Queued(u)', u # t PROVE Queued(u)
    <3> PICK i \in 1 .. Len(thread_queue') : thread_queue'[i] = u
      BY <2>1 DEF Queued
    <3>1. i \in 2 .. Len(thread_queue')
      BY <1>1, <2>1
    <3> QED
      BY <1>2, <3>1 DEF Queued
  <2>2. ASSUME NEW u \in Delayed, Queued(u) PROVE Queued(u)'
    <3> PICK i \in 1 .. Len(thread_queue) : thread_queue[i] = u
      BY <2>2 DEF Queued
    <3>1. i + 1 \in 1 .. Len(thread_queue')
      BY <1>1
    <3> QED
      BY <1>1, <3>1 DEF Queued
  <2>3. Queued(t)'
    <3>1. 1 \in 1 .. Len(thread_queue')
      BY <1>1
    <3> QED
      BY <1>1, <3>1 DEF Queued
  <2> QED
    BY <2>1, <2>2, <2>3
<1>4. ~Queued(t)
  BY DEF OnceInv, InOnePlace, veThreadInitDelayed_queues
<1>5. Apart'
  <2>1. \A i \in 2 .. Len(thread_queue') : thread_queue'[i] # t
    BY <1>2, <1>4 DEF Queued
  <2>2. \A i, j \in 2 .. Len(thread_queue') :
          thread_queue'[i] = thread_queue'[j] => i = j
    <3>1. \A i, j \in 2 .. Len(thread_queue') :
            thread_queue'[i] = thread_queue'[j] => i - 1 = j - 1
      BY <1>2 DEF Apart, OnceInv
    <3> QED
      BY <3>1
  <2>3. ASSUME NEW i \in 1 .. Len(thread_queue'), NEW j \in 1 .. Len(thread_queue'),
               thread_queue'[i] = thread_queue'[j]
        PROVE  i = j
    <3>1. i = 1 \/ i \in 2 .. Len(thread_queue')
      BY <1>1
    <3>2. j = 1 \/ j \in 2 .. Len(thread_queue')
      BY <1>1
    <3> QED
      BY <1>1, <2>1, <2>2, <2>3, <3>1, <3>2
  <2> QED
    BY <2>3 DEF Apart
<1>6. \A u \in Delayed : InOnePlace(u)'
  BY <1>3, <1>4 DEF InOnePlace, OnceInv, GateTypeOK, veThreadInitDelayed_queues
<1> QED
  BY <1>5, <1>6 DEF OnceInv

LEMMA FlushStep ==
    ASSUME GateTypeOK, OnceInv, FlushQueue
    PROVE  OnceInv'
<1> PICK h : h = Head(thread_queue)
  OBVIOUS
<1>1. /\ Len(thread_queue) \in Nat \ {0} /\ Len(thread_queue') = Len(thread_queue) - 1
      /\ h = thread_queue[1] /\ h \in Delayed
      /\ \A i \in 1 .. Len(thread_queue') : thread_queue'[i] = thread_queue[i + 1]
  BY HeadTailProperties DEF GateTypeOK, FlushQueue, Rest
<1>2. Queued(h) /\ started'[h] = started[h] + 1
      /\ \A u \in Delayed : u # h => started'[u] = started[u]
  BY <1>1 DEF Queued, GateTypeOK, FlushQueue
<1>3. \A u \in Delayed : Queued(u)' <=> Queued(u) /\ u # h
  <2>1. \A i \in 1 .. Len(thread_queue') : i + 1 \in 1 .. Len(thread_queue) /\ i + 1 # 1
    BY <1>1
  <2>2. \A i \in 2 .. Len(thread_queue) :
          i - 1 \in 1 .. Len(thread_queue') /\ thread_queue'[i - 1] = thread_queue[i]
    BY <1>1
  <2>3. ~Queued(h)'
    <3>1. \A i \in 1 .. Len(thread_queue') : thread_queue'[i] # thread_queue[1]
      BY <1>1, <2>1 DEF Apart, OnceInv
    <3> QED
      BY <1>1, <3>1 DEF Queued
  <2>4. ASSUME NEW u \in Delayed, Queued(u)' PROVE Queued(u)
    <3> PICK i \in 1 .. Len(thread_queue') : thread_queue'[i] = u
      BY <2>4 DEF Queued
    <3> QED
      BY <1>1, <2>1 DEF Queued
  <2>5. ASSUME NEW u \in Delayed, Queued(u), u # h PROVE Queued(u)'
    <3> PICK i \in 1 .. Len(thread_queue) : thread_queue[i] = u
      BY <2>5 DEF Queued
    <3>1. i \in 2 .. Len(thread_queue)
      BY <1>1, <2>5
    <3> QED
      BY <2>2, <3>1 DEF Queued
  <2> QED
    BY <2>3, <2>4, <2>5
<1>4. Apart'
  <2>1. ASSUME NEW i \in 1 .. Len(thread_queue'), NEW j \in 1 .. Len(thread_queue'),
               thread_queue'[i] = thread_queue'[j]
        PROVE  i = j
    <3>1. i + 1 \in 1 .. Len(thread_queue) /\ j + 1 \in 1 .. Len(thread_queue)
      BY <1>1
    <3>2. i + 1 = j + 1
      BY <1>1, <2>1, <3>1 DEF Apart, OnceInv
    <3> QED
      BY <3>2
  <2> QED
    BY <2>1 DEF Apart
<1>5. \A u \in Delayed : InOnePlace(u)'
  <2>1. h \in asked /\ h \notin starting /\ started'[h] = 1 /\ ~Queued(h)'
    BY <1>1, <1>2, <1>3 DEF InOnePlace, OnceInv
  <2>2. asked' = asked /\ starting' = starting
    BY DEF FlushQueue
  <2>3. InOnePlace(h)'
    BY <2>1, <2>2 DEF InOnePlace
  <2>4. ASSUME NEW u \in Delayed, u # h PROVE InOnePlace(u)'
    <3>1. started'[u] = started[u] /\ (Queued(u)' <=> Queued(u))
      BY <2>4, <1>2, <1>3
    <3> QED
      BY <3>1, <2>2 DEF InOnePlace, OnceInv
  <2> QED
    BY <2>3, <2>4
<1> QED
  BY <1>4, <1>5 DEF OnceInv

LEMMA GateStep == GateTypeOK /\ OnceInv /\ [GateNext]_gateVars => OnceInv'
<1> SUFFICES ASSUME GateTypeOK, OnceInv, [GateNext]_gateVars PROVE OnceInv'
  OBVIOUS
<1>1. ASSUME NEW t \in Delayed, veThreadInitDelayed_queues(t) PROVE OnceInv'
  BY <1>1, QueueStep
<1>2. ASSUME NEW t \in Delayed, veThreadInitDelayed_starts(t) PROVE OnceInv'
  BY <1>2 DEF GateTypeOK, OnceInv, Apart, InOnePlace, Queued, veThreadInitDelayed_starts
<1>3. ASSUME NEW t \in Delayed, veThreadInit(t) PROVE OnceInv'
  BY <1>3 DEF GateTypeOK, OnceInv, Apart, InOnePlace, Queued, veThreadInit
<1>4. CASE OpenGate \/ LeaveGate \/ UNCHANGED gateVars
  BY <1>4 DEF OnceInv, Apart, InOnePlace, Queued, OpenGate, LeaveGate, gateVars
<1>5. CASE FlushQueue
  BY <1>5, FlushStep
<1> QED
  BY <1>1, <1>2, <1>3, <1>4, <1>5 DEF GateNext

LEMMA GateStart == GateInit => GateTypeOK /\ OnceInv
<1>1. GateInit => OnceInv
  BY DEF GateInit, OnceInv, Apart, InOnePlace, Queued
<1> QED
  BY <1>1, GateTypeStart

LEMMA OnceIsOnce == GateTypeOK /\ OnceInv => StartedOnce
<1> SUFFICES ASSUME GateTypeOK, OnceInv PROVE StartedOnce
  OBVIOUS
<1>1. /\ thread_queue \in Seq(Delayed) /\ DOMAIN thread_queue = 1 .. Len(thread_queue)
      /\ IsInjective(thread_queue)
  BY DEF GateTypeOK, OnceInv, Apart, IsInjective
<1>2. \A t \in Delayed : t \in ToSet(thread_queue) <=> Queued(t)
  BY <1>1 DEF ToSet, Queued
<1>3. \A t \in Delayed : started[t] \in Nat
  BY DEF GateTypeOK
<1> QED
  BY <1>1, <1>2, <1>3 DEF StartedOnce, OnceInv, InOnePlace

\* No delayed thread is started twice or forgotten, whoever asks for it and
\* when: by the gate alone, and so in every run of the program.
THEOREM GateCorrect == GateSpec => []StartedOnce
<1>1. GateInit => GateTypeOK /\ OnceInv
  BY GateStart
<1>2. GateTypeOK /\ OnceInv /\ [GateNext]_gateVars => (GateTypeOK /\ OnceInv)'
  BY GateTypeStep, GateStep
<1> QED
  BY <1>1, <1>2, OnceIsOnce, PTL DEF GateSpec

\* The same of veRun and its devices.
THEOREM StartedCorrect == Spec => []StartedOnce
BY GateUsed, GateCorrect, PTL
-----------------------------------------------------------------------------
(* What somebody waits for comes.                                           *)

\* The answers veMPGetSlave and veMPRenderRun wait for are on their way, or the
\* question is: of the address, the key of the hand-shake, the check, and RUN.
\* Key and check are datagrams that nobody sends again (ve_mp_posix.c:1004-1029,
\* 1125-1158), so that of them it is said while none has been lost or overtaken.
AnswerComes(s) ==
    /\ At("answer") /\ call.slave = s => Has(down[s], "BESTADDR") \/ up[s] # <<>>
    /\ s \notin mishap /\ At("key") /\ call.slave = s => Has(down[s], "CONNUDP") \/ flight[s].key > 0
    /\ s \notin mishap /\ slave[s] = "checking" => flight[s].key > 0 \/ flight[s].check > 0
    /\ s \in rendering \ inited /\ pc \notin {"devices", "windows"} =>
        Has(down[s], "RUN") \/ Has(up[s], "INITED")

AnswersCome == \A s \in Slave : AnswerComes(s)

\* No new wait begins at s.
NoNewWait(s) ==
    /\ \A p \in {"answer", "key"} : At(p)' /\ call'.slave = s => At(p) /\ call.slave = s
    /\ slave'[s] = "checking" => slave[s] = "checking"
    /\ s \in rendering' \ inited' /\ pc' \notin {"devices", "windows"} =>
        s \in rendering \ inited /\ pc \notin {"devices", "windows"}
    /\ s \in mishap => s \in mishap'

\* Nothing that somebody waits for is taken out of the pipes.
PipesKeep(s) ==
    /\ \A m \in {"BESTADDR", "CONNUDP", "RUN"} : Has(down[s], m) => Has(down'[s], m)
    /\ up[s] # <<>> => up'[s] # <<>>
    /\ Has(up[s], "INITED") => Has(up'[s], "INITED")

SameDatagrams(s) == flight'[s].key = flight[s].key /\ flight'[s].check = flight[s].check

LEMMA AnswerKept ==
    ASSUME NEW s \in Slave, AnswerComes(s), NoNewWait(s), PipesKeep(s), SameDatagrams(s)
    PROVE  AnswerComes(s)'
BY DEF AnswerComes, NoNewWait, PipesKeep, SameDatagrams, At

LEMMA TailKeeps ==
    ASSUME NEW S, NEW q \in Seq(S), q # <<>>, NEW m, Head(q) # m, Has(q, m)
    PROVE  Has(Tail(q), m)
<1> PICK i \in 1 .. Len(q) : q[i] = m
  BY DEF Has
<1>1. /\ Len(Tail(q)) = Len(q) - 1 /\ Head(q) = q[1] /\ Len(q) \in Nat
      /\ \A j \in 1 .. Len(Tail(q)) : Tail(q)[j] = q[j + 1]
  OBVIOUS
<1>2. i # 1 /\ i - 1 \in 1 .. Len(Tail(q)) /\ (i - 1) + 1 = i
  BY <1>1
<1>3. Tail(q)[i - 1] = m
  BY <1>1, <1>2
<1> QED
  BY <1>2, <1>3 DEF Has

\* Writing to a pipe takes nothing out of any.
LEMMA SendKeeps ==
    ASSUME ConnTypeOK, NEW s \in Slave, NEW x \in Down, down' = Sent(s, x), UNCHANGED up
    PROVE  (\A r \in Slave : PipesKeep(r)) /\ Has(down'[s], x)
<1>1. down[s] \in Seq(Down)
  BY DEF ConnTypeOK, Down
<1>2. \A m : Has(Append(down[s], x), m) <=> Has(down[s], m) \/ x = m
  BY <1>1, AppendFacts
<1>3. down'[s] = Append(down[s], x) /\ \A r \in Slave : r # s => down'[r] = down[r]
  BY DEF Sent, ConnTypeOK
<1> QED
  BY <1>2, <1>3 DEF PipesKeep

\* Reading from one leaves what is not the first.
LEMMA ReadKeeps ==
    ASSUME ConnTypeOK, NEW s \in Slave, TakeReliable(s)
    PROVE  \A r \in Slave : \A m : Has(down[r], m) /\ (r = s => m # Head(down[s])) => Has(down'[r], m)
<1>1. down[s] \in Seq(Down) /\ down[s] # <<>>
  BY DEF ConnTypeOK, Down, TakeReliable, ReliableNext, ReliableWaits
<1>2. down'[s] = Tail(down[s]) /\ \A r \in Slave : r # s => down'[r] = down[r]
  BY DEF TakeReliable, ConnTypeOK
<1> QED
  BY <1>1, <1>2, TailKeeps

-----------------------------------------------------------------------------
(* Steps of the master.                                                     *)

LEMMA GetSlaveStep_Answers ==
    ASSUME IInv, AnswersCome, NEW s \in Slave, UNCHANGED <<gateVars, runVars>>,
           \/ veMPImplCreate(s) \/ veMPImplCreate_fails(s) \/ SendInit(s)
           \/ AskAddress(s) \/ AskConnect(s) \/ TakeKey(s) \/ Serve(s)
    PROVE  AnswersCome'
<1> ConnTypeOK /\ CallInv /\ HandInv
  BY DEF IInv, TypeInv
<1> USE DEF AnswersCome, runVars
<1>1. CASE veMPImplCreate(s)
  <2>1. \A r \in Slave : NoNewWait(r)
    BY <1>1 DEF veMPImplCreate, NoNewWait, At, Goto, ConnTypeOK
  <2>2. \A r \in Slave : PipesKeep(r) /\ SameDatagrams(r)
    BY <1>1 DEF veMPImplCreate, PipesKeep, SameDatagrams
  <2> QED
    BY <2>1, <2>2, AnswerKept
<1>2. CASE veMPImplCreate_fails(s)
  <2>1. \A r \in Slave : NoNewWait(r)
    BY <1>2 DEF veMPImplCreate_fails, Fail, NoNewWait, At, Goto, ConnTypeOK, slaveVars
  <2>2. \A r \in Slave : PipesKeep(r) /\ SameDatagrams(r)
    BY <1>2 DEF veMPImplCreate_fails, PipesKeep, SameDatagrams
  <2> QED
    BY <2>1, <2>2, AnswerKept
<1>3. CASE SendInit(s)
  <2>1. \A r \in Slave : NoNewWait(r) /\ SameDatagrams(r)
    BY <1>3 DEF SendInit, NoNewWait, SameDatagrams, At, Goto, ConnTypeOK, slaveVars
  <2>2. \A r \in Slave : PipesKeep(r)
    BY <1>3, SendKeeps DEF SendInit, Down
  <2> QED
    BY <2>1, <2>2, AnswerKept
<1>4. CASE AskAddress(s)
  <2>1. (\A r \in Slave : PipesKeep(r)) /\ Has(down'[s], "BESTADDR")
    BY <1>4, SendKeeps DEF AskAddress, Down
  <2>2. \A r \in Slave : SameDatagrams(r) /\ (r # s => NoNewWait(r))
    BY <1>4 DEF AskAddress, NoNewWait, SameDatagrams, At, Goto, ConnTypeOK, slaveVars
  <2>3. AnswerComes(s)'
    BY <1>4, <2>1 DEF AskAddress, AnswerComes, PipesKeep, At, Goto, ConnTypeOK, slaveVars
  <2> QED
    BY <2>1, <2>2, <2>3, AnswerKept
<1>5. CASE AskConnect(s)
  <2>1. /\ down' = Sent(s, "CONNUDP") /\ up[s] # <<>> /\ up' = [up EXCEPT ![s] = Tail(@)]
        /\ At("answer") /\ call.slave = s /\ call' = [call EXCEPT !.at = "key"]
        /\ UNCHANGED <<mishap, inited, slave, flight, rendering, pc>>
    BY <1>5 DEF AskConnect, Goto, slaveVars
  <2>2. /\ down'[s] = Append(down[s], "CONNUDP") /\ Has(down'[s], "CONNUDP")
        /\ \A r \in Slave : r # s => down'[r] = down[r] /\ up'[r] = up[r]
    <3>1. down[s] \in Seq(Down) /\ "CONNUDP" \in Down
      BY DEF ConnTypeOK, Down
    <3> QED
      BY <2>1, <3>1, AppendFacts DEF Sent, ConnTypeOK
  <2>3. \A r \in Slave : r # s => NoNewWait(r) /\ SameDatagrams(r) /\ PipesKeep(r)
    BY <2>1, <2>2 DEF NoNewWait, SameDatagrams, PipesKeep, At, ConnTypeOK
  <2>4. s \notin rendering /\ slave[s] # "checking"
    BY <2>1 DEF CallInv, HandInv, At
  <2>5. AnswerComes(s)'
    BY <2>1, <2>2, <2>4 DEF AnswerComes, At, ConnTypeOK
  <2> QED
    BY <2>3, <2>5, AnswerKept
<1>6. CASE TakeKey(s)
  <2>1. /\ flight' = [flight EXCEPT ![s].key = @ - 1, ![s].check = @ + 1]
        /\ call' = [call EXCEPT !.at = "serve"]
        /\ UNCHANGED <<mishap, inited, slave, down, up, rendering, pc>>
    BY <1>6 DEF TakeKey, Goto, slaveVars
  <2>2. flight'[s].check > 0
    <3>1. flight[s] \in Datagrams /\ flight'[s].check = flight[s].check + 1
      BY <2>1 DEF ConnTypeOK, Datagrams
    <3> QED
      BY <3>1 DEF Datagrams
  <2>3. \A r \in Slave : NoNewWait(r) /\ PipesKeep(r) /\ (r # s => SameDatagrams(r))
    BY <2>1 DEF NoNewWait, SameDatagrams, PipesKeep, At, ConnTypeOK
  <2>4. AnswerComes(s)'
    BY <2>1, <2>2 DEF AnswerComes, At, ConnTypeOK
  <2> QED
    BY <2>3, <2>4, AnswerKept
<1>7. CASE Serve(s)
  <2>1. \A r \in Slave : NoNewWait(r) /\ PipesKeep(r) /\ SameDatagrams(r)
    BY <1>7 DEF Serve, NoNewWait, PipesKeep, SameDatagrams, At, Goto, ConnTypeOK, slaveVars
  <2> QED
    BY <2>1, AnswerKept
<1> QED
  BY <1>1, <1>2, <1>3, <1>4, <1>5, <1>6, <1>7

LEMMA veRun_Answers ==
    ASSUME IInv, AnswersCome, veRun
    PROVE  AnswersCome'
<1> ConnTypeOK /\ RunTypeOK /\ CallInv
  BY DEF IInv, TypeInv
<1> USE DEF AnswersCome
<1>1. CASE Begin \/ RenderRuns \/ Release \/ Running \/ (FlushQueue /\ UNCHANGED <<connVars, runVars>>)
  <2>1. /\ UNCHANGED connVars /\ rendering' = rendering
        /\ pc' \notin {"devices", "windows"} => pc \notin {"devices", "windows"}
    <3>1. CASE Begin
      BY <3>1 DEF Begin
    <3>2. CASE RenderRuns
      BY <3>2 DEF RenderRuns
    <3>3. CASE Release
      BY <3>3 DEF Release, runVars
    <3>4. CASE Running
      <4>1. pc \notin {"devices", "windows"}
        BY <3>4 DEF Running, LeaveGate, IInv, GateInv
      <4> QED
        BY <3>4, <4>1 DEF Running
    <3>5. CASE FlushQueue /\ UNCHANGED <<connVars, runVars>>
      BY <3>5 DEF runVars
    <3> QED
      BY <1>1, <3>1, <3>2, <3>3, <3>4, <3>5
  <2> QED
    BY <2>1 DEF AnswerComes, At, connVars, masterVars, slaveVars
<1>2. CASE GetSlave
  <2>1. /\ call'.at \notin {"answer", "key"} /\ UNCHANGED <<inited, slave, down, up, flight, mishap>>
        /\ UNCHANGED runVars
    BY <1>2 DEF GetSlave, veMPGetSlave, veMPGetSlave_finds, veMPGetSlave_full, veMPGetSlave_takes,
                slaveVars
  <2> QED
    BY <2>1 DEF AnswerComes, At, runVars
<1>3. CASE find_slave
  <2>1. call' = NoCall /\ UNCHANGED <<inited, slave, down, up, flight, mishap, pc>> /\ pc = "windows"
    BY <1>3 DEF find_slave, Return, GetSlaveKeeps, slaveVars
  <2> QED
    BY <2>1 DEF AnswerComes, At, NoCall
<1>4. CASE SendChannel
  <2>1. /\ call' = NoCall /\ UNCHANGED <<inited, slave, up, flight, mishap, pc, rendering>>
        /\ down' \in {down, Sent(call.slave, "CHANNEL")} /\ call.slave \in Slave
    BY <1>4 DEF SendChannel, Return, GetSlaveKeeps, slaveVars, Called, CallInv, At
  <2>2. \A r \in Slave : PipesKeep(r)
    <3>1. CASE down' = down
      BY <2>1, <3>1 DEF PipesKeep
    <3>2. CASE down' = Sent(call.slave, "CHANNEL")
      BY <2>1, <3>2, SendKeeps DEF Down
    <3> QED
      BY <2>1, <3>1, <3>2
  <2>3. \A r \in Slave : NoNewWait(r) /\ SameDatagrams(r)
    BY <2>1 DEF NoNewWait, SameDatagrams, At, NoCall
  <2> QED
    BY <2>2, <2>3, AnswerKept
<1>5. CASE SendRun
  <2>1. /\ UNCHANGED <<call, inited, slave, up, flight, mishap, rendering>>
        /\ down' = [r \in Slave |-> IF r \in rendering THEN Append(down[r], "RUN") ELSE down[r]]
    BY <1>5 DEF SendRun, GetSlaveKeeps, slaveVars
  <2>2. ASSUME NEW r \in Slave
        PROVE  /\ r \in rendering => Has(down'[r], "RUN")
               /\ \A m : Has(down[r], m) => Has(down'[r], m)
    <3>1. down[r] \in Seq(Down) /\ "RUN" \in Down
      BY DEF ConnTypeOK, Down
    <3> QED
      BY <2>1, <3>1, AppendFacts
  <2> QED
    BY <2>1, <2>2 DEF AnswerComes, At
<1>6. CASE GetSlaveStep /\ UNCHANGED <<gateVars, runVars>>
  BY <1>6, GetSlaveStep_Answers DEF GetSlaveStep
<1> QED
  BY <1>1, <1>2, <1>3, <1>4, <1>5, <1>6 DEF veRun

\* The thread of a slave on the master hands on what the slave says.
LEMMA slave_msg_thread_Answers ==
    ASSUME IInv, AnswersCome, NEW s \in Slave, MasterRecv(s)
    PROVE  AnswersCome'
<1> ConnTypeOK /\ CallInv
  BY DEF IInv, TypeInv
<1>1. /\ s \in served /\ up[s] # <<>> /\ up' = [up EXCEPT ![s] = Tail(@)]
      /\ inited' = IF Head(up[s]) = "INITED" THEN inited \cup {s} ELSE inited
      /\ UNCHANGED <<call, slave, down, flight, mishap, rendering, pc>>
  BY DEF MasterRecv, slave_msg_thread, slaveVars, runVars
<1>2. up[s] \in Seq(Up)
  BY DEF ConnTypeOK, Up
<1>3. Has(up[s], "INITED") /\ Head(up[s]) # "INITED" => Has(up'[s], "INITED")
  BY <1>1, <1>2, TailKeeps DEF ConnTypeOK
<1>4. ~(At("answer") /\ call.slave = s)
  BY <1>1 DEF CallInv, At
<1>5. \A r \in Slave : r # s => up'[r] = up[r]
  BY <1>1 DEF ConnTypeOK
<1> QED
  BY <1>1, <1>3, <1>4, <1>5 DEF AnswersCome, AnswerComes, At

-----------------------------------------------------------------------------
(* Steps of a slave, losses, and pushes.                                    *)

LEMMA SlaveStep_Answers ==
    ASSUME IInv, AnswersCome, NEW s \in Slave, SlaveRuns(s)
    PROVE  AnswersCome'
<1> ConnTypeOK /\ WaitInv /\ HandInv
  BY DEF IInv, TypeInv
<1> UNCHANGED <<rendering, pc>> /\ SlaveStep(s)
  BY DEF SlaveRuns, runVars
<1> USE DEF AnswersCome
<1>1. \A r \in Slave : flight[r] \in Datagrams
  BY DEF ConnTypeOK, Datagrams
\* Messages that ask for no answer, or none.
<1>2. ASSUME UNCHANGED <<call, inited, up, flight, mishap>>,
             \A r \in Slave : slave'[r] = "checking" => slave[r] = "checking",
             UNCHANGED down \/ (TakeReliable(s) /\ Head(down[s]) \notin {"BESTADDR", "CONNUDP", "RUN"})
      PROVE  AnswersCome'
  <2>1. \A r \in Slave : PipesKeep(r)
    BY <1>2, ReadKeeps DEF PipesKeep
  <2>2. \A r \in Slave : NoNewWait(r) /\ SameDatagrams(r)
    BY <1>2 DEF NoNewWait, SameDatagrams, At
  <2> QED
    BY <2>1, <2>2, AnswerKept
<1>3. CASE veMPSlaveInit(s)
  <2>1. Head(down[s]) = "INIT"
    BY <1>3 DEF veMPSlaveInit, WaitInv, TakeReliable, ReliableNext, ReliableWaits
  <2>2. \A r \in Slave : slave'[r] = "checking" => slave[r] = "checking"
    BY <1>3 DEF veMPSlaveInit, ConnTypeOK
  <2> QED
    BY <1>2, <1>3, <2>1, <2>2 DEF veMPSlaveInit, masterVars
<1>4. CASE veMPInit(s)
  <2>1. \A r \in Slave : slave'[r] = "checking" => slave[r] = "checking"
    BY <1>4 DEF veMPInit, ConnTypeOK
  <2> QED
    BY <1>2, <1>4, <2>1 DEF veMPInit, masterVars
<1>5. CASE TakeOther(s)
  BY <1>2, <1>5 DEF TakeOther, masterVars
<1>6. ASSUME NEW question \in {"BESTADDR", "RUN"}, NEW answer \in Up,
             question = "RUN" <=> answer = "INITED",
             Head(down[s]) = question, TakeReliable(s), up' = [up EXCEPT ![s] = Append(@, answer)],
             UNCHANGED <<call, inited, slave, flight, mishap>>
      PROVE  AnswersCome'
  <2>1. up[s] \in Seq(Up) /\ up'[s] = Append(up[s], answer) /\ \A r \in Slave : r # s => up'[r] = up[r]
    BY <1>6 DEF ConnTypeOK, Up
  <2>2. up'[s] # <<>> /\ Has(up'[s], answer) /\ (Has(up[s], "INITED") => Has(up'[s], "INITED"))
    BY <2>1, AppendFacts
  <2>3. \A r \in Slave : \A m : Has(down[r], m) /\ (r = s => m # question) => Has(down'[r], m)
    BY <1>6, ReadKeeps
  <2> QED
    BY <1>6, <2>1, <2>2, <2>3 DEF AnswerComes, At
<1>7. CASE TakeRun(s)
  BY <1>6, <1>7 DEF TakeRun, masterVars, Up
<1>8. CASE Sysdep_BESTADDR(s)
  BY <1>6, <1>8 DEF Sysdep_BESTADDR, masterVars, Up
<1>9. CASE Sysdep_CONNUDP(s)
  <2>1. /\ Head(down[s]) = "CONNUDP" /\ TakeReliable(s)
        /\ flight' = [flight EXCEPT ![s].key = @ + 1] /\ slave' = [slave EXCEPT ![s] = "checking"]
        /\ UNCHANGED <<call, inited, up, mishap>>
    BY <1>9 DEF Sysdep_CONNUDP, masterVars
  <2>2. /\ flight'[s].key > 0
        /\ \A r \in Slave : r # s => SameDatagrams(r) /\ slave'[r] = slave[r]
    <3>1. flight'[s].key = flight[s].key + 1 /\ flight[s] \in Datagrams
      BY <1>1, <2>1 DEF ConnTypeOK, Datagrams
    <3> QED
      BY <2>1, <3>1 DEF SameDatagrams, ConnTypeOK, Datagrams
  <2>3. \A r \in Slave : \A m : Has(down[r], m) /\ (r = s => m # "CONNUDP") => Has(down'[r], m)
    BY <2>1, ReadKeeps
  <2>4. AnswerComes(s)'
    BY <2>1, <2>2, <2>3 DEF AnswerComes, At
  <2>5. \A r \in Slave : r # s => NoNewWait(r) /\ PipesKeep(r)
    BY <2>1, <2>2, <2>3 DEF NoNewWait, PipesKeep, At
  <2> QED
    BY <2>2, <2>4, <2>5, AnswerKept
<1>10. CASE Check_matches(s) \/ Check_differs(s)
  <2>1. /\ slave' = [slave EXCEPT ![s] = "listening"] /\ UNCHANGED <<call, inited, down, up>>
        /\ mishap \subseteq mishap'
        /\ \/ flight' = [flight EXCEPT ![s].check = @ - 1] \/ flight' = [flight EXCEPT ![s].state = @ - 1]
    BY <1>10 DEF Check_matches, Check_differs, masterVars
  <2>2. /\ flight'[s].key = flight[s].key
        /\ \A r \in Slave : r # s => SameDatagrams(r)
    BY <1>1, <2>1 DEF SameDatagrams, ConnTypeOK, Datagrams
  <2>3. AnswerComes(s)'
    BY <2>1, <2>2 DEF AnswerComes, At, ConnTypeOK
  <2>4. \A r \in Slave : r # s => NoNewWait(r) /\ PipesKeep(r)
    BY <2>1 DEF NoNewWait, PipesKeep, At, ConnTypeOK
  <2> QED
    BY <2>2, <2>3, <2>4, AnswerKept
<1>11. CASE TakeFast(s)
  <2>1. /\ UNCHANGED <<call, inited, slave, down, up, mishap>>
        /\ flight' = [flight EXCEPT ![s].state = @ - 1]
    BY <1>11 DEF TakeFast, masterVars
  <2>2. \A r \in Slave : SameDatagrams(r) /\ NoNewWait(r) /\ PipesKeep(r)
    BY <1>1, <2>1 DEF SameDatagrams, ConnTypeOK, Datagrams, NoNewWait, PipesKeep, At
  <2> QED
    BY <2>2, AnswerKept
<1> QED
  BY <1>3, <1>4, <1>5, <1>7, <1>8, <1>9, <1>10, <1>11 DEF SlaveStep

LEMMA Network_Answers ==
    ASSUME IInv, AnswersCome, NEW s \in Slave,
           \/ \E t \in Delayed : Deliver(t, s)
           \/ \E d \in {"key", "check", "state"} : Loss(s, d)
    PROVE  AnswersCome'
<1> ConnTypeOK /\ WaitInv
  BY DEF IInv, TypeInv
<1> UNCHANGED <<rendering, pc>>
  BY DEF Deliver, Loss, runVars
<1> USE DEF AnswersCome
<1>1. \A r \in Slave : flight[r] \in Datagrams
  BY DEF ConnTypeOK, Datagrams
<1>2. CASE Push_fast(s)
  <2>1. /\ UNCHANGED <<call, inited, slave, down, up, mishap>>
        /\ flight' = [flight EXCEPT ![s].state = @ + 1]
    BY <1>2 DEF Push_fast, masterVars, slaveVars
  <2>2. \A r \in Slave : SameDatagrams(r) /\ NoNewWait(r) /\ PipesKeep(r)
    BY <1>1, <2>1 DEF SameDatagrams, ConnTypeOK, Datagrams, NoNewWait, PipesKeep, At
  <2> QED
    BY <2>2, AnswerKept
<1>3. CASE Push_falls_back(s)
  <2>1. UNCHANGED <<call, inited, slave, up, mishap, flight>> /\ down' \in {down, Sent(s, "STATE")}
    BY <1>3 DEF Push_falls_back, masterVars, slaveVars
  <2>2. \A r \in Slave : SameDatagrams(r) /\ NoNewWait(r)
    BY <2>1 DEF SameDatagrams, NoNewWait, At
  <2>3. \A r \in Slave : PipesKeep(r)
    <3>1. CASE down' = down
      BY <2>1, <3>1 DEF PipesKeep
    <3>2. CASE down' = Sent(s, "STATE")
      BY <2>1, <3>2, SendKeeps DEF Down
    <3> QED
      BY <2>1, <3>1, <3>2
  <2> QED
    BY <2>2, <2>3, AnswerKept
<1>4. ASSUME NEW d \in {"key", "check", "state"}, Lose(s, d)
      PROVE  AnswersCome'
  <2>1. /\ UNCHANGED <<call, inited, slave, down, up>>
        /\ flight' = [flight EXCEPT ![s][d] = @ - 1]
        /\ mishap' = IF d = "state" THEN mishap ELSE mishap \cup {s}
    BY <1>4 DEF Lose, masterVars, slaveVars
  <2>2. \A r \in Slave : (r # s \/ d = "state" => SameDatagrams(r)) /\ NoNewWait(r) /\ PipesKeep(r)
    BY <1>1, <2>1 DEF SameDatagrams, ConnTypeOK, Datagrams, NoNewWait, PipesKeep, At
  <2>3. d # "state" => AnswerComes(s)'
    BY <2>1 DEF AnswerComes, At
  <2> QED
    BY <2>2, <2>3, AnswerKept
<1> QED
  BY <1>2, <1>3, <1>4 DEF Deliver, Loss, veMPIntPush

LEMMA AnswersNext ==
    ASSUME IInv, AnswersCome, [Next]_vars
    PROVE  AnswersCome'
<1>1. CASE (\E t \in Delayed : veThreadInitDelayed(t) \/ Starting(t)) \/ UNCHANGED vars
  <2>1. UNCHANGED <<connVars, runVars>>
    BY <1>1 DEF veThreadInitDelayed, Starting, vars
  <2> QED
    BY <2>1 DEF AnswersCome, AnswerComes, At, connVars, masterVars, slaveVars, runVars
<1> QED
  BY <1>1, veRun_Answers, slave_msg_thread_Answers, SlaveStep_Answers, Network_Answers DEF Next

\* What AllStart rests on: veRun waits for nothing that is not on its way, unless
\* a datagram of a hand-shake was lost or overtaken. RUN is answered in any case.
THEOREM AnswersOnTheWay == Spec => []AnswersCome
<1>1. Init => AnswersCome
  BY DEF Init, ConnInit, AnswersCome, AnswerComes, At, NoCall
<1> QED
  BY <1>1, Invariance, AnswersNext, PTL DEF Spec

\* Once the gate is open and left, nobody waits behind it.
NobodyWaits ==
    gate_opened /\ ~releasing =>
        \A t \in Delayed : t \in asked => t \in starting \/ started[t] = 1

THEOREM GateLeavesNobody == GateSpec => []NobodyWaits
<1> DEFINE J == GateTypeOK /\ OnceInv /\ (gate_opened /\ ~releasing => thread_queue = <<>>)
<1>1. GateInit => J
  BY GateStart DEF GateInit
<1>2. ASSUME J, [GateNext]_gateVars
      PROVE  J'
  <2>1. (GateTypeOK /\ OnceInv)'
    BY <1>2, GateTypeStep, GateStep
  <2>2. (gate_opened /\ ~releasing => thread_queue = <<>>)'
    BY <1>2 DEF GateNext, veThreadInitDelayed_queues, veThreadInitDelayed_starts, veThreadInit,
                OpenGate, FlushQueue, LeaveGate, gateVars
  <2> QED
    BY <2>1, <2>2
<1>3. J => NobodyWaits
  <2> SUFFICES ASSUME J, gate_opened, ~releasing
               PROVE  \A t \in Delayed : t \in asked => t \in starting \/ started[t] = 1
    BY DEF NobodyWaits
  <2>1. \A t \in Delayed : ~Queued(t)
    BY DEF Queued
  <2> QED
    BY <2>1 DEF OnceInv, InOnePlace
<1> HIDE DEF J
<1> QED
  BY <1>1, <1>2, <1>3, PTL DEF GateSpec
=============================================================================
