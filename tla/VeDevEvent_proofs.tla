------------------------- MODULE VeDevEvent_proofs -------------------------
(* Proofs about VeDevEvent: the events of devices are taken in their order, *)
(* and no event is lost or destroyed twice.                                 *)
EXTENDS VeDevEvent, FiniteSetTheorems, TLAPS

-----------------------------------------------------------------------------
(* The inductive invariant.                                                 *)

Queued(e) == \E i \in DOMAIN equeue : equeue[i].event = e
FromDevice(e) == ev[e].from = "device"

\* There is a number for every event that a thread has begun to make.
RoomInv == made + Cardinality(Coming) <= MaxEvents

\* Whoever holds einsert_mutex is somewhere in its work, nobody else is, and
\* queue and work know only events that have been made.
WorkInv ==
    /\ einsert = NoThread <=> work.at = "none"
    /\ work.e = NoEvent <=> work.at \in {"none", "queue"}
    /\ work.e # NoEvent => work.e <= made
    /\ \A i \in DOMAIN equeue : equeue[i].event <= made

\* While events are not blocked, there are some of a device in the queue only
\* as long as the call that lifted the block takes them out.
Held == event_disp = "noblock" /\ (\E i \in DOMAIN equeue : FromDevice(equeue[i].event))
            => einsert # NoThread /\ call[einsert] = "unblock"

OrderInv ==
    /\ \A i, j \in DOMAIN equeue :
        i < j /\ FromDevice(equeue[i].event) /\ FromDevice(equeue[j].event)
            => equeue[i].event < equeue[j].event
    /\ Held
    /\ InOrder

IInv == TypeOK /\ RoomInv /\ WorkInv /\ OrderInv

\* No event is in the queue twice, an event has one of three fates, and those
\* that are still to be made have not been destroyed.
KeptInv ==
    /\ \A i, j \in DOMAIN equeue : equeue[i].event = equeue[j].event => i = j
    /\ \A e \in Events : e > made => freed[e] = 0
    /\ \A e \in Events : e <= made =>
        \/ freed[e] = 0 /\ work.e = e /\ ~Queued(e)
        \/ freed[e] = 0 /\ work.e # e /\ Queued(e)
        \/ freed[e] = 1 /\ work.e # e /\ ~Queued(e)

\* No controllers, and no filter that discards one valuator of a vector: both
\* destroy an event twice.
NoDoubleFree ==
    /\ Controlled = {}
    /\ \A f \in DOMAIN Table : Table[f].index => "DISCARD" \notin Table[f].results

-----------------------------------------------------------------------------
(* Queue, work and the threads that are about to make an event.             *)

Disps == {"CONTINUE", "DELIVER"}
Entries == [event : Events, disp : Disps]
Places == {"none", "queue", "filter", "deliver", "callback", "called", "done"}
Works == [at : Places, e : Events \cup {NoEvent}, f : Nat, c : Nat]

\* A push adds one entry, at one of the ends.
LEMMA PushAdds ==
    ASSUME NEW q \in Seq(Entries), NEW e \in Events, NEW where, NEW disp \in Disps
    PROVE  LET p == Push(q, e, where, disp)
           IN  /\ p \in Seq(Entries) /\ Len(p) = Len(q) + 1
               /\ \/ p[1].event = e /\ \A i \in 1 .. Len(q) : p[i + 1] = q[i]
                  \/ p[Len(q) + 1].event = e /\ \A i \in 1 .. Len(q) : p[i] = q[i]
               /\ where = "tail" =>
                    p[Len(q) + 1].event = e /\ \A i \in 1 .. Len(q) : p[i] = q[i]
<1> DEFINE one(d) == [event |-> e, disp |-> d]
<1>1. one(disp) \in Entries /\ one("CONTINUE") \in Entries
  BY DEF Entries, Disps
<1>2. CASE q = <<>>
  BY <1>1, <1>2 DEF Push
<1>3. CASE q # <<>> /\ where = "head"
  <2>1. Push(q, e, where, disp) = <<one(disp)>> \o q
    BY <1>3 DEF Push
  <2> QED
    BY <1>1, <1>3, <2>1
<1>4. CASE q # <<>> /\ where # "head"
  <2>1. Push(q, e, where, disp) = Append(q, one(disp))
    BY <1>4 DEF Push
  <2> QED
    BY <1>1, <1>4, <2>1
<1> QED
  BY <1>2, <1>3, <1>4

LEMMA PopTakesFirst ==
    ASSUME NEW q \in Seq(Entries), q # <<>>
    PROVE  /\ Tail(q) \in Seq(Entries) /\ Head(q) = q[1] /\ q[1] \in Entries
           /\ Len(Tail(q)) = Len(q) - 1 /\ Len(q) > 0
           /\ \A i \in 1 .. Len(q) - 1 : Tail(q)[i] = q[i + 1]
OBVIOUS

\* What a filter returns leaves the holder with the event it has.
LEMMA ObeyKeeps ==
    ASSUME TypeOK, work.at = "filter", NEW status \in Status, Obey(status)
    PROVE  work' \in Works /\ work'.e = work.e /\ work'.at \in {"filter", "deliver", "done"}
<1> work \in Works
  BY DEF TypeOK, Works, Places
<1>1. CASE status = "CONTINUE"
  BY <1>1 DEF Obey, Works, Places
<1>2. CASE status = "RESTART"
  BY <1>2 DEF Obey, Works, Places
<1>3. CASE status = "DELIVER"
  BY <1>3 DEF Obey, GoOn, Works, Places
<1>4. CASE status \in {"DISCARD", "ERROR"}
  BY <1>4 DEF Obey, GoOn, Works, Places
<1> QED
  BY <1>1, <1>2, <1>3, <1>4 DEF Status

LEMMA Typed ==
    ASSUME TypeOK
    PROVE  /\ equeue \in Seq(Entries) /\ work \in Works
           /\ made \in Nat /\ MaxEvents \in Nat /\ made <= MaxEvents
           /\ NoEvent \notin Events
           /\ DOMAIN equeue = 1 .. Len(equeue) /\ Len(equeue) \in Nat
           /\ \A i \in DOMAIN equeue : equeue[i].event \in Events /\ equeue[i].event \in Nat
           /\ freed \in [Events -> Nat]
<1>1. equeue \in Seq(Entries) /\ work \in Works /\ freed \in [Events -> Nat]
  BY DEF TypeOK, Entries, Disps, Works, Places
<1>2. made \in Nat /\ MaxEvents \in Nat /\ made <= MaxEvents /\ NoEvent \notin Events
  BY EventAssumption DEF TypeOK, Events
<1>3. DOMAIN equeue = 1 .. Len(equeue) /\ Len(equeue) \in Nat
  BY <1>1
<1>4. ASSUME NEW i \in DOMAIN equeue
      PROVE  equeue[i].event \in Events /\ equeue[i].event \in Nat
  <2>1. equeue[i] \in Entries
    BY <1>1, <1>3
  <2> QED
    BY <1>2, <2>1 DEF Entries, Events
<1> QED
  BY <1>1, <1>2, <1>3, <1>4

\* A push of the event just made.
LEMMA PushKnown ==
    ASSUME TypeOK, WorkInv, made < MaxEvents, NEW where, NEW disp \in Disps,
           equeue' = Push(equeue, made + 1, where, disp)
    PROVE  /\ equeue' \in Seq(Entries) /\ Len(equeue') = Len(equeue) + 1
           /\ DOMAIN equeue' = 1 .. Len(equeue) + 1
           /\ \A i \in DOMAIN equeue' : equeue'[i].event <= made + 1
           /\ \/ equeue'[1].event = made + 1 /\ \A i \in DOMAIN equeue : equeue'[i + 1] = equeue[i]
              \/ /\ equeue'[Len(equeue) + 1].event = made + 1
                 /\ \A i \in DOMAIN equeue : equeue'[i] = equeue[i]
           /\ where = "tail" =>
                /\ equeue'[Len(equeue) + 1].event = made + 1
                /\ \A i \in DOMAIN equeue : equeue'[i] = equeue[i]
<1> DEFINE n == Len(equeue)
<1>1. /\ equeue \in Seq(Entries) /\ n \in Nat /\ DOMAIN equeue = 1 .. n
      /\ made \in Nat /\ made + 1 \in Events
  BY Typed DEF Events
<1>2. /\ equeue' \in Seq(Entries) /\ Len(equeue') = n + 1
      /\ \/ equeue'[1].event = made + 1 /\ \A i \in 1 .. n : equeue'[i + 1] = equeue[i]
         \/ equeue'[n + 1].event = made + 1 /\ \A i \in 1 .. n : equeue'[i] = equeue[i]
      /\ where = "tail" =>
            equeue'[n + 1].event = made + 1 /\ \A i \in 1 .. n : equeue'[i] = equeue[i]
  BY <1>1, PushAdds
<1>3. DOMAIN equeue' = 1 .. n + 1
  BY <1>2
<1>4. \A i \in 1 .. n : equeue[i].event <= made /\ equeue[i].event \in Nat
  BY <1>1, Typed DEF WorkInv
<1>5. ASSUME NEW i \in 1 .. n + 1 PROVE equeue'[i].event <= made + 1
  <2>1. CASE equeue'[1].event = made + 1 /\ \A j \in 1 .. n : equeue'[j + 1] = equeue[j]
    <3>1. i = 1 \/ (i - 1 \in 1 .. n /\ equeue'[(i - 1) + 1] = equeue[i - 1])
      BY <1>1, <2>1
    <3> QED
      BY <1>1, <1>4, <2>1, <3>1
  <2>2. CASE equeue'[n + 1].event = made + 1 /\ \A j \in 1 .. n : equeue'[j] = equeue[j]
    BY <1>1, <1>4, <2>2
  <2> QED
    BY <1>2, <2>1, <2>2
<1> QED
  BY <1>1, <1>2, <1>3, <1>5

LEMMA FewThreads ==
    /\ IsFiniteSet(Thread) /\ IsFiniteSet(Coming) /\ IsFiniteSet(Coming')
    /\ Cardinality(Coming) \in Nat /\ Cardinality(Coming') \in Nat
<1>1. IsFiniteSet(Thread)
  BY EventAssumption, FS_AddElement DEF Thread
<1>2. IsFiniteSet(Coming) /\ IsFiniteSet(Coming')
  BY <1>1, FS_Subset DEF Coming
<1> QED
  BY <1>1, <1>2, FS_CardinalityType

\* What keeps RoomInv: nobody new is coming and nothing is made,
LEMMA NobodyComes ==
    ASSUME RoomInv, TypeOK, Coming' \subseteq Coming, made' = made
    PROVE  RoomInv'
<1>1. Cardinality(Coming') <= Cardinality(Coming)
  BY FewThreads, FS_Subset
<1> QED
  BY <1>1, FewThreads, Typed DEF RoomInv

\* or a thread that was coming has made its event,
LEMMA OneCame ==
    ASSUME RoomInv, TypeOK, NEW t \in Coming, Coming' \subseteq Coming \ {t},
           made' = made + 1
    PROVE  RoomInv' /\ made < MaxEvents
<1>1. IsFiniteSet(Coming \ {t}) /\ Cardinality(Coming \ {t}) = Cardinality(Coming) - 1
  BY FewThreads, FS_RemoveElement
<1>2. Cardinality(Coming') <= Cardinality(Coming) - 1
  BY <1>1, FS_Subset
<1> QED
  BY <1>2, FewThreads, Typed DEF RoomInv

\* or there was room.
LEMMA RoomForOne ==
    ASSUME Room, TypeOK, Coming' \subseteq Coming, made' = made + 1
    PROVE  RoomInv' /\ made < MaxEvents
<1>1. Cardinality(Coming') <= Cardinality(Coming)
  BY FewThreads, FS_Subset
<1> QED
  BY <1>1, FewThreads, Typed DEF RoomInv, Room

LEMMA RoomForOneToCome ==
    ASSUME Room, TypeOK, NEW t, Coming' \subseteq Coming \cup {t}, made' = made
    PROVE  RoomInv'
<1>1. IsFiniteSet(Coming \cup {t}) /\ Cardinality(Coming \cup {t}) <= Cardinality(Coming) + 1
  <2>1. IsFiniteSet(Coming) /\ Cardinality(Coming) \in Nat
    BY FewThreads
  <2>2. IsFiniteSet(Coming \cup {t})
    BY <2>1, FS_AddElement
  <2>3. Cardinality(Coming \cup {t})
            = IF t \in Coming THEN Cardinality(Coming) ELSE Cardinality(Coming) + 1
    BY <2>1, FS_AddElement
  <2> QED
    BY <2>1, <2>2, <2>3
<1>2. Cardinality(Coming') <= Cardinality(Coming) + 1
  BY <1>1, FewThreads, FS_Subset, FS_CardinalityType
<1> QED
  BY <1>2, FewThreads, Typed DEF RoomInv, Room

-----------------------------------------------------------------------------
(* Types and numbers.                                                       *)

LEMMA NewType ==
    ASSUME TypeOK, made < MaxEvents, NEW name \in Name \cup {AnyName}, NEW vec \in BOOLEAN,
           NEW from \in {"device", "app", "filter"}, New(name, vec, from)
    PROVE  /\ made + 1 \in Events /\ made' = made + 1 /\ made' \in 0 .. MaxEvents
           /\ ev' \in [Events -> [name : Name \cup {AnyName}, vec : BOOLEAN,
                                  from : {"none", "device", "app", "filter"}]]
           /\ ev'[made + 1].from = from
           /\ \A e \in Events : e <= made => ev'[e] = ev[e]
BY Typed DEF TypeOK, New, Events

LEMMA BeginType ==
    ASSUME NEW t, NEW at \in Places, NEW e \in Events \cup {NoEvent}, Begin(t, at, e)
    PROVE  einsert' = t /\ work' \in Works /\ work'.at = at /\ work'.e = e
BY DEF Begin, Resting, Works, Places

LEMMA ReturnType ==
    ASSUME TypeOK, NEW t, Return(t)
    PROVE  /\ call' \in [Thread -> AppCalls \cup {"none", "insert"}]
           /\ \A u \in Thread : call'[u] = IF u = t THEN "none" ELSE call[u]
BY DEF TypeOK, Return

LEMMA InvInit == Init => IInv /\ KeptInv
<1> SUFFICES ASSUME Init PROVE IInv /\ KeptInv
  OBVIOUS
<1> USE DEF Init
<1>1. Coming = {}
  BY DEF Coming
<1>2. TypeOK
  BY EventAssumption DEF TypeOK, Resting, Events
<1>3. RoomInv
  BY <1>1, EventAssumption, FS_EmptySet DEF RoomInv
<1>4. WorkInv
  BY DEF WorkInv, Resting
<1>5. OrderInv
  BY DEF OrderInv, Held, InOrder, Resting
<1>6. KeptInv
  BY EventAssumption DEF KeptInv, Events
<1> QED
  BY <1>2, <1>3, <1>4, <1>5, <1>6 DEF IInv

-----------------------------------------------------------------------------
(* Steps: types, numbers, and what the holder of the mutex has in its hands. *)

BaseInv == TypeOK /\ RoomInv /\ WorkInv

LEMMA CallStep == BaseInv /\ Calls => BaseInv'
<1> SUFFICES ASSUME BaseInv, Calls PROVE BaseInv'
  OBVIOUS
<1>1. PICK t \in Thread, op \in AppCalls \cup {"insert"} :
        Call(t, op) /\ (op \in {"insert", "process"} => Room)
  <2>1. CASE \E t \in Device : Room /\ Call(t, "insert")
    BY <2>1 DEF Thread
  <2>2. CASE \E op \in AppCalls : (op = "process" => Room) /\ Call(App, op)
    BY <2>2, EventAssumption DEF Thread
  <2> QED
    BY <2>1, <2>2 DEF Calls
<1>2. TypeOK'
  BY <1>1 DEF BaseInv, TypeOK, Call
<1>3. RoomInv'
  <2>1. CASE op \in {"insert", "process"}
    <3>1. Coming' \subseteq Coming \cup {t} /\ made' = made /\ Room
      BY <1>1, <2>1 DEF Coming, Call, BaseInv, TypeOK
    <3> QED
      BY <3>1, RoomForOneToCome DEF BaseInv
  <2>2. CASE op \notin {"insert", "process"}
    <3>1. Coming' \subseteq Coming /\ made' = made
      BY <1>1, <2>2 DEF Coming, Call, BaseInv, TypeOK
    <3> QED
      BY <3>1, NobodyComes DEF BaseInv
  <2> QED
    BY <2>1, <2>2
<1>4. WorkInv'
  BY <1>1 DEF BaseInv, WorkInv, Call
<1> QED
  BY <1>2, <1>3, <1>4 DEF BaseInv

LEMMA BeginStep ==
    ASSUME BaseInv, NEW t \in Thread, InsertRuns(t) \/ veDeviceProcessEvent(t)
    PROVE  BaseInv' /\ made < MaxEvents
<1>1. /\ t \in Coming /\ einsert = NoThread /\ t # NoThread
      /\ UNCHANGED <<event_disp, equeue, cback, call, freed>>
      /\ Begin(t, "filter", made + 1)
  BY EventAssumption DEF InsertRuns, veDeviceProcessEvent, Ready, Coming, Thread
<1>2. PICK name \in Name, vec \in Kinds, from \in {"device", "app"} : New(name, vec, from)
  BY DEF InsertRuns, veDeviceProcessEvent
<1>3. Coming' \subseteq Coming \ {t} /\ made' = made + 1
  BY <1>1, <1>2, EventAssumption DEF Coming, Thread, Begin, New
<1>4. RoomInv' /\ made < MaxEvents
  BY <1>1, <1>3, OneCame DEF BaseInv
<1>5. /\ made + 1 \in Events /\ made' \in 0 .. MaxEvents
      /\ ev' \in [Events -> [name : Name \cup {AnyName}, vec : BOOLEAN,
                             from : {"none", "device", "app", "filter"}]]
  BY <1>2, <1>4, NewType, EventAssumption DEF BaseInv
<1>6. einsert' = t /\ work' \in Works /\ work'.at = "filter" /\ work'.e = made + 1
  BY <1>1, <1>5, BeginType DEF Places
<1>7. TypeOK'
  BY <1>1, <1>5, <1>6 DEF BaseInv, TypeOK, Works, Places
<1>8. WorkInv'
  BY <1>1, <1>3, <1>5, <1>6, Typed DEF BaseInv, WorkInv
<1> QED
  BY <1>4, <1>7, <1>8 DEF BaseInv

LEMMA LeaveStep ==
    ASSUME BaseInv, NEW t \in Thread, InsertDiscards(t) \/ InsertQueues(t)
    PROVE  BaseInv' /\ made < MaxEvents
<1>1. /\ t \in Coming /\ einsert = NoThread
      /\ Return(t) /\ UNCHANGED <<event_disp, einsert, cback, work>>
  BY EventAssumption DEF InsertDiscards, InsertQueues, Ready, Coming, Thread
<1>2. PICK name \in Name, vec \in Kinds : New(name, vec, "device")
  BY DEF InsertDiscards, InsertQueues
<1>3. Coming' \subseteq Coming \ {t} /\ made' = made + 1
  BY <1>1, <1>2, ReturnType DEF Coming, New, BaseInv
<1>4. RoomInv' /\ made < MaxEvents
  BY <1>1, <1>3, OneCame DEF BaseInv
<1>5. /\ made + 1 \in Events /\ made' \in 0 .. MaxEvents
      /\ ev' \in [Events -> [name : Name \cup {AnyName}, vec : BOOLEAN,
                             from : {"none", "device", "app", "filter"}]]
  BY <1>2, <1>4, NewType, EventAssumption DEF BaseInv
<1>6. freed' \in [Events -> Nat]
  <2>1. CASE freed' = freed
    BY <2>1, Typed DEF BaseInv
  <2>2. CASE Destroy(made + 1, 1)
    <3>1. freed \in [Events -> Nat]
      BY Typed DEF BaseInv
    <3> QED
      BY <1>5, <2>2, <3>1 DEF Destroy
  <2> QED
    BY <2>1, <2>2 DEF InsertDiscards, InsertQueues
<1>7. equeue' \in Seq(Entries) /\ \A i \in DOMAIN equeue' : equeue'[i].event <= made + 1
  <2>1. CASE equeue' = equeue
    BY <2>1, Typed DEF BaseInv, WorkInv
  <2>2. CASE equeue' = Push(equeue, made + 1, "tail", "CONTINUE")
    BY <2>2, <1>4, PushKnown DEF BaseInv, Disps
  <2> QED
    BY <2>1, <2>2 DEF InsertDiscards, InsertQueues
<1>8. TypeOK'
  BY <1>1, <1>5, <1>6, <1>7, ReturnType DEF BaseInv, TypeOK, Entries, Disps
<1>9. WorkInv'
  BY <1>1, <1>3, <1>7, Typed DEF BaseInv, WorkInv
<1> QED
  BY <1>4, <1>8, <1>9 DEF BaseInv

\* Events are blocked, or a call begins to run the queue.
LEMMA RunStep ==
    ASSUME BaseInv, NEW t \in Thread, NEW disp \in {"queue", "discard"},
           veDeviceBlockEvents(t, disp) \/ veDeviceUnblockEvents(t) \/ veDeviceProcessQueue(t)
    PROVE  BaseInv'
<1>1. t # NoThread /\ made' = made /\ call[t] \notin {"insert", "process"}
  BY EventAssumption DEF Thread, veDeviceBlockEvents, veDeviceUnblockEvents,
    veDeviceProcessQueue, Ready
<1>2. CASE veDeviceBlockEvents(t, disp)
  <2>1. Return(t) /\ UNCHANGED <<equeue, einsert, cback, work, made, ev, freed>>
    BY <1>2 DEF veDeviceBlockEvents
  <2>2. TypeOK'
    BY <1>2, <2>1, ReturnType DEF BaseInv, TypeOK, veDeviceBlockEvents
  <2>3. Coming' \subseteq Coming
    BY <2>1, ReturnType DEF BaseInv, Coming
  <2>4. WorkInv'
    BY <2>1 DEF BaseInv, WorkInv
  <2> QED
    BY <1>1, <2>2, <2>3, <2>4, NobodyComes DEF BaseInv
<1>3. CASE veDeviceUnblockEvents(t) \/ veDeviceProcessQueue(t)
  <2>1. /\ Begin(t, "queue", NoEvent) /\ einsert = NoThread
        /\ UNCHANGED <<equeue, cback, call, made, ev, freed>>
        /\ event_disp' \in {event_disp, "noblock"}
    BY <1>3 DEF veDeviceUnblockEvents, veDeviceProcessQueue, Ready
  <2>2. einsert' = t /\ work' \in Works /\ work'.at = "queue" /\ work'.e = NoEvent
    BY <2>1, BeginType DEF Places
  <2>3. TypeOK'
    BY <2>1, <2>2 DEF BaseInv, TypeOK, Works, Places
  <2>4. Coming' \subseteq Coming
    BY <2>1, <2>2, EventAssumption DEF BaseInv, Coming, Thread
  <2>5. WorkInv'
    BY <1>1, <2>1, <2>2 DEF BaseInv, WorkInv
  <2> QED
    BY <1>1, <2>3, <2>4, <2>5, NobodyComes DEF BaseInv
<1> QED
  BY <1>2, <1>3

LEMMA EnterStep == BaseInv /\ (\E t \in Thread : Enter(t)) => BaseInv'
BY BeginStep, LeaveStep, RunStep DEF Enter

\* A new event is pushed, by the application or by a filter.
LEMMA PushStep ==
    ASSUME BaseInv, Room, UNCHANGED <<event_disp, einsert, cback, call>>,
           NEW where, NEW disp \in Disps, made' = made + 1,
           equeue' = Push(equeue, made + 1, where, disp) \/ equeue' = equeue,
           ev' \in [Events -> [name : Name \cup {AnyName}, vec : BOOLEAN,
                               from : {"none", "device", "app", "filter"}]],
           freed' \in [Events -> Nat], work' \in Works, work'.e = work.e,
           work'.at = work.at \/ {work.at, work'.at} \cap {"none", "queue"} = {}
    PROVE  BaseInv' /\ made < MaxEvents
<1>1. Coming' \subseteq Coming
  BY DEF Coming
<1>2. RoomInv' /\ made < MaxEvents
  BY <1>1, RoomForOne DEF BaseInv
<1>3. equeue' \in Seq(Entries) /\ \A i \in DOMAIN equeue' : equeue'[i].event <= made + 1
  <2>1. CASE equeue' = equeue
    BY <2>1, Typed DEF BaseInv, WorkInv
  <2>2. CASE equeue' = Push(equeue, made + 1, where, disp)
    BY <2>2, <1>2, PushKnown DEF BaseInv
  <2> QED
    BY <2>1, <2>2
<1>4. made' \in 0 .. MaxEvents
  BY <1>2, Typed DEF BaseInv
<1>5. TypeOK'
  BY <1>3, <1>4 DEF BaseInv, TypeOK, Entries, Disps, Works, Places
<1>6. WorkInv'
  <2>1. work.e # NoEvent => work.e <= made + 1
    BY Typed DEF BaseInv, WorkInv, Works, Events
  <2> QED
    BY <1>3, <2>1 DEF BaseInv, WorkInv
<1> QED
  BY <1>2, <1>5, <1>6 DEF BaseInv

LEMMA AppPushStep ==
    ASSUME BaseInv, NEW where, NEW disp \in Disps, veDevicePushEvent(where, disp)
    PROVE  BaseInv' /\ made < MaxEvents
<1>1. /\ Room /\ UNCHANGED <<event_disp, einsert, cback, call, work, freed>>
      /\ equeue' = Push(equeue, made + 1, where, disp)
  BY DEF veDevicePushEvent
<1>2. PICK name \in Name : New(name, FALSE, "app")
  BY DEF veDevicePushEvent
<1>3. made < MaxEvents
  BY <1>1, FewThreads, Typed DEF BaseInv, Room
<1>4. /\ made' = made + 1
      /\ ev' \in [Events -> [name : Name \cup {AnyName}, vec : BOOLEAN,
                             from : {"none", "device", "app", "filter"}]]
  BY <1>2, <1>3, NewType DEF BaseInv
<1> QED
  BY <1>1, <1>4, PushStep, Typed DEF BaseInv

EventRecords == [name : Name \cup {AnyName}, vec : BOOLEAN,
                 from : {"none", "device", "app", "filter"}]

LEMMA AtEvent ==
    ASSUME BaseInv, work.at \notin {"none", "queue"}
    PROVE  /\ work.e \in Events /\ work.e <= made /\ work.e # made + 1
           /\ ev \in [Events -> EventRecords] /\ ev[work.e] \in EventRecords
<1>1. work.e \in Events /\ work.e <= made
  BY Typed DEF BaseInv, WorkInv, Works
<1>2. ev \in [Events -> EventRecords]
  BY DEF BaseInv, TypeOK, EventRecords
<1> QED
  BY <1>1, <1>2, Typed DEF BaseInv, Events

\* The holder of the mutex goes on with its event.
LEMMA MoveStep ==
    ASSUME BaseInv, UNCHANGED <<event_disp, equeue, einsert, call, made>>,
           work.at \notin {"none", "queue"}, work' \in Works,
           work'.at \notin {"none", "queue"}, work'.e = work.e,
           cback' \in Thread \cup {Timer, NoThread},
           ev' \in [Events -> EventRecords], freed' \in [Events -> Nat]
    PROVE  BaseInv'
<1>1. TypeOK'
  BY DEF BaseInv, TypeOK, EventRecords, Works, Places
<1>2. Coming' \subseteq Coming
  BY DEF Coming
<1>3. WorkInv'
  BY DEF BaseInv, WorkInv
<1> QED
  BY <1>1, <1>2, <1>3, NobodyComes DEF BaseInv

\* A step of the delivery of an event that leaves events and queue alone.
Moving ==
    \/ SkipFilter \/ FilteredOut \/ ControllersPass
    \/ SkipCallback \/ CallbacksDone \/ CallbackBegins
    \/ \E abort \in BOOLEAN : CallbackReturns(abort)

LEMMA MovingKeeps ==
    ASSUME BaseInv, Moving
    PROVE  /\ UNCHANGED <<event_disp, equeue, einsert, call, made, ev, freed>>
           /\ work.at \notin {"none", "queue"} /\ work' \in Works
           /\ work'.at \notin {"none", "queue"} /\ work'.e = work.e
           /\ cback' \in Thread \cup {Timer, NoThread}
<1>1. work \in Works /\ einsert \in Thread \cup {NoThread} /\ cback \in Thread \cup {Timer, NoThread}
  BY Typed DEF BaseInv, TypeOK
<1>2. CASE SkipFilter \/ FilteredOut \/ ControllersPass
  BY <1>1, <1>2 DEF SkipFilter, FilteredOut, ControllersPass, GoOn, Works, Places
<1>3. CASE SkipCallback \/ CallbacksDone \/ CallbackBegins
  BY <1>1, <1>3 DEF SkipCallback, CallbacksDone, CallbackBegins, GoOn, Works, Places
<1>4. ASSUME NEW abort \in BOOLEAN, CallbackReturns(abort)
      PROVE  /\ UNCHANGED <<event_disp, equeue, einsert, call, made, ev, freed>>
             /\ work.at \notin {"none", "queue"} /\ work' \in Works
             /\ work'.at \notin {"none", "queue"} /\ work'.e = work.e
             /\ cback' = NoThread
  <2>1. /\ UNCHANGED <<event_disp, equeue, einsert, call, made, ev, freed>>
        /\ work.at = "called" /\ cback' = NoThread
        /\ \/ work' = [work EXCEPT !.at = "callback", !.c = @ + 1]
           \/ work' = [work EXCEPT !.at = "done"]
    BY <1>4 DEF CallbackReturns, GoOn
  <2>2. CASE work' = [work EXCEPT !.at = "callback", !.c = @ + 1]
    <3>1. work' = [at |-> "callback", e |-> work.e, f |-> work.f, c |-> work.c + 1]
      BY <1>1, <2>2 DEF Works
    <3> QED
      BY <1>1, <2>1, <3>1 DEF Works, Places
  <2>3. CASE work' = [work EXCEPT !.at = "done"]
    BY <1>1, <2>1, <2>3 DEF Works, Places
  <2> QED
    BY <2>1, <2>2, <2>3
<1> QED
  BY <1>2, <1>3, <1>4 DEF Moving

LEMMA MovingStep == BaseInv /\ Moving => BaseInv'
<1> SUFFICES ASSUME BaseInv, Moving PROVE BaseInv'
  OBVIOUS
<1>1. ev \in [Events -> EventRecords] /\ freed \in [Events -> Nat]
  BY DEF BaseInv, TypeOK, EventRecords
<1> QED
  BY <1>1, MovingKeeps, MoveStep

LEMMA FilterStep ==
    ASSUME BaseInv, NEW status \in Status, NEW name \in Name, Filter(status, name)
    PROVE  BaseInv'
<1>1. work.at = "filter" /\ Obey(status) /\ ev' = [ev EXCEPT ![work.e].name = name]
      /\ UNCHANGED <<event_disp, equeue, einsert, cback, call, made, freed>>
  BY DEF Filter
<1>2. ev' \in [Events -> EventRecords]
  BY <1>1, AtEvent DEF EventRecords
<1>3. work' \in Works /\ work'.e = work.e /\ work'.at \in {"filter", "deliver", "done"}
  BY <1>1, ObeyKeeps DEF BaseInv
<1>4. freed' \in [Events -> Nat] /\ cback' \in Thread \cup {Timer, NoThread}
  BY <1>1 DEF BaseInv, TypeOK
<1> QED
  BY <1>1, <1>2, <1>3, <1>4, MoveStep

LEMMA FilterPushesStep ==
    ASSUME BaseInv, NEW status \in Status, NEW where, FilterPushes(status, where)
    PROVE  BaseInv' /\ made < MaxEvents /\ work' \in Works /\ work'.e = work.e
<1>1. /\ work.at = "filter" /\ Room /\ Obey(status)
      /\ New(ev[work.e].name, ev[work.e].vec, "filter")
      /\ equeue' = Push(equeue, made + 1, where, "CONTINUE")
      /\ UNCHANGED <<event_disp, einsert, cback, call, freed>>
  BY DEF FilterPushes
<1>2. made < MaxEvents
  BY <1>1, FewThreads, Typed DEF BaseInv, Room
<1>3. /\ made' = made + 1
      /\ ev' \in [Events -> [name : Name \cup {AnyName}, vec : BOOLEAN,
                             from : {"none", "device", "app", "filter"}]]
  BY <1>1, <1>2, AtEvent, NewType DEF BaseInv, EventRecords
<1>4. work' \in Works /\ work'.e = work.e /\ work'.at \in {"filter", "deliver", "done"}
  BY <1>1, ObeyKeeps DEF BaseInv
<1>5. freed' \in [Events -> Nat] /\ "CONTINUE" \in Disps
  BY <1>1, Typed DEF BaseInv, Disps
<1> QED
  BY <1>1, <1>2, <1>3, <1>4, <1>5, PushStep

LEMMA ValuatorStep ==
    ASSUME BaseInv, NEW status \in Status, NEW name \in Name, FilterValuator(status, name)
    PROVE  /\ BaseInv' /\ made < MaxEvents /\ work' \in Works /\ work'.e = work.e
           /\ made + 1 \in Events
           /\ ev'[made + 1].from = "filter"
           /\ \A e \in Events : e <= made => ev'[e].from = ev[e].from
<1>1. /\ work.at = "filter" /\ Room /\ Obey(SubStatus(status, name))
      /\ made' = made + 1
      /\ ev' = [ev EXCEPT
                ![made + 1] = [name |-> ev[work.e].name, vec |-> FALSE, from |-> "filter"],
                ![work.e].name = name]
      /\ equeue' = IF SubPushed(status, name)
                   THEN Push(equeue, made + 1, "head", SubDisp(status)) ELSE equeue
      /\ Destroy(made + 1, SubFrees(status, name))
      /\ UNCHANGED <<event_disp, einsert, cback, call>>
  BY DEF FilterValuator
<1>2. made < MaxEvents /\ made + 1 \in Events
  BY <1>1, FewThreads, Typed DEF BaseInv, Room, Events
<1>3. /\ ev' \in [Events -> EventRecords]
      /\ ev'[made + 1].from = "filter"
      /\ \A e \in Events : e <= made => ev'[e].from = ev[e].from
  <2> DEFINE new == [name |-> ev[work.e].name, vec |-> FALSE, from |-> "filter"]
             with == [ev EXCEPT ![made + 1] = new]
  <2>1. /\ work.e \in Events /\ work.e # made + 1 /\ ev \in [Events -> EventRecords]
        /\ ev[work.e] \in EventRecords
    BY <1>1, AtEvent
  <2>2. new \in EventRecords
    BY <2>1 DEF EventRecords
  <2>3. with \in [Events -> EventRecords] /\ with[made + 1] = new
        /\ \A e \in Events : e # made + 1 => with[e] = ev[e]
    BY <1>2, <2>1, <2>2
  <2>4. ev' = [with EXCEPT ![work.e].name = name]
    BY <1>1
  <2>5. ev' = [with EXCEPT ![work.e] = [with[work.e] EXCEPT !.name = name]]
    BY <2>4
  <2> HIDE DEF with
  <2>6. ev' \in [Events -> EventRecords]
        /\ \A e \in Events : ev'[e].from = with[e].from
    BY <2>1, <2>3, <2>5 DEF EventRecords
  <2>7. \A e \in Events : e <= made => e # made + 1
    BY Typed DEF BaseInv, Events
  <2> QED
    BY <1>2, <2>3, <2>6, <2>7
<1>4. work' \in Works /\ work'.e = work.e /\ work'.at \in {"filter", "deliver", "done"}
  <2>1. SubStatus(status, name) \in Status
    BY DEF SubStatus, Status
  <2> QED
    BY <1>1, <2>1, ObeyKeeps DEF BaseInv
<1>5. freed' \in [Events -> Nat]
  <2>1. SubFrees(status, name) \in Nat
    BY DEF SubFrees
  <2> QED
    BY <1>1, <1>2, <2>1, Typed DEF BaseInv, Destroy
<1>6. SubDisp(status) \in Disps
  BY DEF SubDisp, Disps
<1> QED
  BY <1>1, <1>2, <1>3, <1>4, <1>5, <1>6, PushStep DEF EventRecords

LEMMA PopStep == BaseInv /\ NextEvent => BaseInv'
<1> SUFFICES ASSUME BaseInv, NextEvent PROVE BaseInv'
  OBVIOUS
<1>1. /\ work.at = "queue" /\ equeue # <<>> /\ equeue' = Tail(equeue)
      /\ work' = [Resting EXCEPT !.e = Head(equeue).event,
                    !.at = IF Head(equeue).disp = "DELIVER" THEN "deliver" ELSE "filter"]
      /\ UNCHANGED <<event_disp, einsert, cback, call, made, ev, freed>>
  BY DEF NextEvent
<1>2. /\ Tail(equeue) \in Seq(Entries) /\ Head(equeue) = equeue[1]
      /\ Len(Tail(equeue)) = Len(equeue) - 1 /\ Len(equeue) > 0
      /\ \A i \in 1 .. Len(equeue) - 1 : Tail(equeue)[i] = equeue[i + 1]
  BY <1>1, PopTakesFirst, Typed DEF BaseInv
<1>3. equeue[1].event \in Events /\ equeue[1].event <= made
  BY <1>2, Typed DEF BaseInv, WorkInv
<1>4. /\ work' \in Works /\ work'.e = equeue[1].event
      /\ work'.at \in {"deliver", "filter"}
  BY <1>1, <1>2, <1>3 DEF Resting, Works, Places
<1>5. TypeOK'
  BY <1>1, <1>2, <1>4 DEF BaseInv, TypeOK, Entries, Disps, Works, Places
<1>6. \A i \in DOMAIN equeue' : equeue'[i].event <= made
  BY <1>1, <1>2, Typed DEF BaseInv, WorkInv
<1>7. WorkInv'
  BY <1>1, <1>3, <1>4, <1>6, Typed DEF BaseInv, WorkInv
<1>8. Coming' \subseteq Coming
  BY <1>1 DEF Coming
<1> QED
  BY <1>1, <1>5, <1>7, <1>8, NobodyComes DEF BaseInv

\* The holder gives the mutex back, or goes back to the queue.
LEMMA DoneStep ==
    ASSUME BaseInv, UNCHANGED <<event_disp, equeue, cback, made, ev>>,
           work.at # "none", freed' \in [Events -> Nat],
           \/ Unlock
           \/ work' = [Resting EXCEPT !.at = "queue"] /\ UNCHANGED <<einsert, call>>
    PROVE  BaseInv' /\ work'.e = NoEvent
<1>1. einsert \in Thread /\ einsert # NoThread
  BY EventAssumption DEF BaseInv, TypeOK, WorkInv
<1>2. CASE Unlock
  <2>1. /\ einsert' = NoThread /\ work'.at = "none" /\ work'.e = NoEvent /\ work' \in Works
        /\ Return(einsert)
    BY <1>2 DEF Unlock, Resting, Works, Places
  <2>2. TypeOK'
    BY <1>1, <2>1, ReturnType DEF BaseInv, TypeOK, Works, Places
  <2>3. Coming' \subseteq Coming
    BY <1>1, <2>1, ReturnType DEF BaseInv, Coming
  <2>4. WorkInv'
    BY <2>1 DEF BaseInv, WorkInv
  <2> QED
    BY <2>1, <2>2, <2>3, <2>4, NobodyComes DEF BaseInv
<1>3. CASE work' = [Resting EXCEPT !.at = "queue"] /\ UNCHANGED <<einsert, call>>
  <2>1. work'.at = "queue" /\ work'.e = NoEvent /\ work' \in Works
    BY <1>3 DEF Resting, Works, Places
  <2>2. TypeOK'
    BY <1>3, <2>1 DEF BaseInv, TypeOK, Works, Places
  <2>3. Coming' \subseteq Coming
    BY <1>3 DEF Coming
  <2>4. WorkInv'
    BY <1>1, <1>3, <2>1 DEF BaseInv, WorkInv
  <2> QED
    BY <2>1, <2>2, <2>3, <2>4, NobodyComes DEF BaseInv
<1> QED
  BY <1>2, <1>3

LEMMA QueueEmptyStep == BaseInv /\ QueueEmpty => BaseInv'
BY DoneStep, Typed DEF QueueEmpty, BaseInv

LEMMA ProcessedStep == BaseInv /\ Processed => BaseInv' /\ work'.e = NoEvent
<1> SUFFICES ASSUME BaseInv, Processed PROVE BaseInv' /\ work'.e = NoEvent
  OBVIOUS
<1>1. /\ work.at = "done" /\ UNCHANGED <<event_disp, equeue, cback, made, ev>>
      /\ \/ Unlock
         \/ work' = [Resting EXCEPT !.at = "queue"] /\ UNCHANGED <<einsert, call>>
  BY DEF Processed
<1>2. freed' \in [Events -> Nat]
  BY AtEvent, Typed DEF Processed, Destroy, BaseInv
<1> QED
  BY <1>1, <1>2, DoneStep

LEMMA ControllerStep == BaseInv /\ ControllerTakes => BaseInv' /\ work'.e = work.e
<1> SUFFICES ASSUME BaseInv, ControllerTakes PROVE BaseInv' /\ work'.e = work.e
  OBVIOUS
<1>1. /\ work.at = "deliver" /\ UNCHANGED <<event_disp, equeue, einsert, cback, call, made, ev>>
      /\ work' = [work EXCEPT !.at = "done"]
  BY DEF ControllerTakes, GoOn
<1>2. freed' \in [Events -> Nat]
  BY AtEvent, Typed DEF ControllerTakes, Destroy, BaseInv
<1>3. work' \in Works /\ work'.e = work.e /\ work'.at = "done"
  BY <1>1, Typed DEF BaseInv, Works, Places
<1>4. ev' \in [Events -> EventRecords] /\ cback' \in Thread \cup {Timer, NoThread}
  BY <1>1 DEF BaseInv, TypeOK, EventRecords
<1> QED
  BY <1>1, <1>2, <1>3, <1>4, MoveStep

LEMMA QuietStep == BaseInv /\ (OtherCallback \/ UNCHANGED vars) => BaseInv'
<1> SUFFICES ASSUME BaseInv, OtherCallback \/ UNCHANGED vars PROVE BaseInv'
  OBVIOUS
<1>1. /\ UNCHANGED <<event_disp, equeue, einsert, call, work, made, ev, freed>>
      /\ cback' \in {cback, Timer, NoThread}
  BY DEF OtherCallback, vars
<1>2. TypeOK' /\ WorkInv'
  BY <1>1 DEF BaseInv, TypeOK, WorkInv
<1>3. Coming' \subseteq Coming
  BY <1>1 DEF Coming
<1> QED
  BY <1>1, <1>2, <1>3, NobodyComes DEF BaseInv

LEMMA BaseStep == BaseInv /\ [Next]_vars => BaseInv'
BY CallStep, EnterStep, AppPushStep, MovingStep, FilterStep, FilterPushesStep, ValuatorStep,
   PopStep, QueueEmptyStep, ProcessedStep, ControllerStep, QuietStep
   DEF Next, Work, Filtering, Moving, Disps

-----------------------------------------------------------------------------
(* The order of events.                                                     *)

\* Events stay where they are from.
Origins == \A e \in Events : e <= made => ev'[e].from = ev[e].from

LEMMA QueuedOrigins ==
    ASSUME BaseInv, Origins, NEW i \in DOMAIN equeue
    PROVE  ev'[equeue[i].event].from = ev[equeue[i].event].from
BY Typed DEF BaseInv, WorkInv, Origins

LEMMA SameQueueOrder ==
    ASSUME BaseInv, OrderInv, Origins, equeue' = equeue, work'.e \in {work.e, NoEvent},
           Held'
    PROVE  OrderInv'
<1>1. work.e # NoEvent => ev'[work.e].from = ev[work.e].from
  BY Typed DEF BaseInv, WorkInv, Works, Origins
<1>2. \A i, j \in DOMAIN equeue :
        i < j /\ FromDevice(equeue[i].event)' /\ FromDevice(equeue[j].event)'
            => equeue[i].event < equeue[j].event
  BY QueuedOrigins DEF OrderInv, Held, FromDevice
<1>3. InOrder'
  BY <1>1, QueuedOrigins DEF OrderInv, Held, InOrder
<1> QED
  BY <1>2, <1>3 DEF OrderInv, Held, FromDevice

\* A push that is not from a device.
LEMMA PushOrder ==
    ASSUME BaseInv, OrderInv, Origins, made < MaxEvents, NEW where, NEW disp \in Disps,
           equeue' = Push(equeue, made + 1, where, disp),
           ev'[made + 1].from # "device", work'.e = work.e,
           UNCHANGED <<event_disp, einsert, call>>
    PROVE  OrderInv'
<1> DEFINE n == Len(equeue)
<1>1. /\ n \in Nat /\ DOMAIN equeue = 1 .. n /\ DOMAIN equeue' = 1 .. n + 1
      /\ \/ equeue'[1].event = made + 1 /\ \A i \in DOMAIN equeue : equeue'[i + 1] = equeue[i]
         \/ equeue'[n + 1].event = made + 1 /\ \A i \in DOMAIN equeue : equeue'[i] = equeue[i]
  BY PushKnown, Typed DEF BaseInv
<1>2. PICK shift \in {0, 1} : \A i \in 1 .. n + 1 :
        ev'[equeue'[i].event].from = "device"
            => i - shift \in 1 .. n /\ equeue'[i] = equeue[i - shift]
  <2>1. CASE equeue'[1].event = made + 1 /\ \A i \in DOMAIN equeue : equeue'[i + 1] = equeue[i]
    <3>1. ASSUME NEW i \in 1 .. n + 1, ev'[equeue'[i].event].from = "device"
          PROVE  i - 1 \in 1 .. n /\ equeue'[i] = equeue[i - 1]
      <4>1. i # 1
        BY <2>1, <3>1
      <4>2. i - 1 \in 1 .. n /\ (i - 1) + 1 = i
        BY <1>1, <4>1
      <4> QED
        BY <1>1, <2>1, <4>2
    <3> QED
      BY <3>1
  <2>2. CASE equeue'[n + 1].event = made + 1 /\ \A i \in DOMAIN equeue : equeue'[i] = equeue[i]
    <3>1. ASSUME NEW i \in 1 .. n + 1, ev'[equeue'[i].event].from = "device"
          PROVE  i - 0 \in 1 .. n /\ equeue'[i] = equeue[i - 0]
      <4>1. i # n + 1
        BY <2>2, <3>1
      <4>2. i - 0 \in 1 .. n /\ i - 0 = i
        BY <1>1, <4>1
      <4> QED
        BY <1>1, <2>2, <4>2
    <3> QED
      BY <3>1
  <2> QED
    BY <1>1, <2>1, <2>2
<1>3. ASSUME NEW i \in 1 .. n + 1, ev'[equeue'[i].event].from = "device"
      PROVE  FromDevice(equeue[i - shift].event)
  BY <1>1, <1>2, <1>3, QueuedOrigins DEF FromDevice
<1>4. ASSUME NEW i \in 1 .. n + 1, NEW j \in 1 .. n + 1, i < j,
             ev'[equeue'[i].event].from = "device", ev'[equeue'[j].event].from = "device"
      PROVE  equeue'[i].event < equeue'[j].event
  <2>1. /\ i - shift \in DOMAIN equeue /\ equeue'[i] = equeue[i - shift]
        /\ j - shift \in DOMAIN equeue /\ equeue'[j] = equeue[j - shift]
        /\ i - shift < j - shift
    BY <1>1, <1>2, <1>4
  <2>2. FromDevice(equeue[i - shift].event) /\ FromDevice(equeue[j - shift].event)
    BY <1>3, <1>4
  <2> QED
    BY <2>1, <2>2 DEF OrderInv, Held
<1>5. ASSUME NEW i \in 1 .. n + 1, ev'[equeue'[i].event].from = "device",
             work'.e # NoEvent, ev'[work'.e].from = "device"
      PROVE  work'.e < equeue'[i].event
  <2>1. ev[work.e].from = "device"
    BY <1>5, Typed DEF BaseInv, WorkInv, Works, Origins
  <2>2. i - shift \in DOMAIN equeue /\ equeue'[i] = equeue[i - shift]
    BY <1>1, <1>2, <1>5
  <2>3. FromDevice(equeue[i - shift].event)
    BY <1>3, <1>5
  <2> QED
    BY <1>5, <2>1, <2>2, <2>3 DEF OrderInv, Held, InOrder, FromDevice
<1>6. ASSUME NEW i \in 1 .. n + 1, ev'[equeue'[i].event].from = "device",
             event_disp' = "noblock"
      PROVE  einsert' # NoThread /\ call'[einsert'] = "unblock"
  <2>1. i - shift \in DOMAIN equeue
    BY <1>1, <1>2, <1>6
  <2>2. FromDevice(equeue[i - shift].event)
    BY <1>3, <1>6
  <2> QED
    BY <1>6, <2>1, <2>2 DEF OrderInv, Held
<1> QED
  BY <1>1, <1>4, <1>5, <1>6 DEF OrderInv, Held, InOrder, FromDevice

\* A new event of a device is blocked: it is the last one, and nothing is
\* being processed.
LEMMA InsertQueuesOrder ==
    ASSUME BaseInv, OrderInv, NEW t \in Thread, InsertQueues(t)
    PROVE  OrderInv'
<1> DEFINE n == Len(equeue)
<1>1. /\ einsert = NoThread /\ event_disp' = "queue" /\ work' = work
      /\ equeue' = Push(equeue, made + 1, "tail", "CONTINUE")
  BY DEF InsertQueues, Ready
<1>2. made < MaxEvents
  BY LeaveStep
<1>3. PICK name \in Name, vec \in Kinds : New(name, vec, "device")
  BY DEF InsertQueues
<1>4. Origins
  BY <1>2, <1>3, NewType, EventAssumption DEF Origins, BaseInv
<1>5. /\ n \in Nat /\ DOMAIN equeue = 1 .. n /\ DOMAIN equeue' = 1 .. n + 1
      /\ equeue'[n + 1].event = made + 1 /\ \A i \in DOMAIN equeue : equeue'[i] = equeue[i]
  BY <1>1, <1>2, PushKnown, Typed DEF BaseInv, Disps
<1>6. work'.e = NoEvent
  BY <1>1 DEF BaseInv, WorkInv
<1>7. ASSUME NEW i \in 1 .. n + 1, NEW j \in 1 .. n + 1, i < j,
             ev'[equeue'[i].event].from = "device", ev'[equeue'[j].event].from = "device"
      PROVE  equeue'[i].event < equeue'[j].event
  <2>1. i \in DOMAIN equeue /\ equeue'[i] = equeue[i]
    BY <1>5, <1>7
  <2>2. CASE j = n + 1
    BY <1>5, <2>1, <2>2, Typed DEF BaseInv, WorkInv
  <2>3. CASE j # n + 1
    <3>1. j \in DOMAIN equeue /\ equeue'[j] = equeue[j]
      BY <1>5, <2>3
    <3>2. FromDevice(equeue[i].event) /\ FromDevice(equeue[j].event)
      BY <1>4, <1>7, <2>1, <3>1, QueuedOrigins DEF FromDevice
    <3> QED
      BY <1>7, <2>1, <3>1, <3>2 DEF OrderInv, Held
  <2> QED
    BY <2>2, <2>3
<1> QED
  BY <1>1, <1>5, <1>6, <1>7 DEF OrderInv, Held, InOrder, FromDevice

\* A call begins to process a new event: of a device, then nothing is blocked,
\* or of the application.
LEMMA BeginOrder ==
    ASSUME BaseInv, OrderInv, NEW t \in Thread, InsertRuns(t) \/ veDeviceProcessEvent(t)
    PROVE  OrderInv'
<1>1. /\ einsert = NoThread /\ UNCHANGED <<event_disp, equeue, call>>
      /\ Begin(t, "filter", made + 1)
  BY DEF InsertRuns, veDeviceProcessEvent, Ready
<1>2. made < MaxEvents /\ made + 1 \in Events
  BY BeginStep, Typed DEF BaseInv, Events
<1>3. work'.e = made + 1
  BY <1>1 DEF Begin, Resting
<1>4. Origins
  BY <1>2, NewType, EventAssumption DEF InsertRuns, veDeviceProcessEvent, Origins, BaseInv
<1>5. CASE \E i \in DOMAIN equeue : FromDevice(equeue[i].event)
  <2>1. event_disp # "noblock"
    BY <1>1, <1>5 DEF OrderInv, Held
  <2>2. veDeviceProcessEvent(t)
    BY <2>1 DEF InsertRuns
  <2>3. ev'[made + 1].from = "app"
    BY <1>2, <2>2, NewType, EventAssumption DEF veDeviceProcessEvent, BaseInv
  <2>4. InOrder'
    BY <1>3, <2>3 DEF InOrder
  <2>5. \A i, j \in DOMAIN equeue :
          i < j /\ FromDevice(equeue[i].event)' /\ FromDevice(equeue[j].event)'
              => equeue[i].event < equeue[j].event
    BY <1>1, <1>4, QueuedOrigins DEF OrderInv, Held, FromDevice
  <2> QED
    BY <1>1, <2>1, <2>4, <2>5 DEF OrderInv, Held, FromDevice
<1>6. CASE ~\E i \in DOMAIN equeue : FromDevice(equeue[i].event)
  <2>1. \A i \in DOMAIN equeue' : ev'[equeue'[i].event].from # "device"
    BY <1>1, <1>4, <1>6, QueuedOrigins DEF FromDevice
  <2> QED
    BY <2>1 DEF OrderInv, Held, InOrder, FromDevice
<1> QED
  BY <1>5, <1>6

LEMMA PopOrder == BaseInv /\ OrderInv /\ NextEvent => OrderInv'
<1> SUFFICES ASSUME BaseInv, OrderInv, NextEvent PROVE OrderInv'
  OBVIOUS
<1> DEFINE n == Len(equeue) - 1
<1>1. /\ equeue # <<>> /\ equeue' = Tail(equeue)
      /\ UNCHANGED <<event_disp, einsert, call, ev>>
      /\ work'.e = Head(equeue).event
  BY DEF NextEvent, Resting
<1>2. /\ equeue' \in Seq(Entries) /\ Head(equeue) = equeue[1]
      /\ Len(equeue') = n /\ n \in Nat
      /\ \A i \in 1 .. n : equeue'[i] = equeue[i + 1]
  BY <1>1, PopTakesFirst, Typed DEF BaseInv
<1>3. DOMAIN equeue = 1 .. n + 1 /\ DOMAIN equeue' = 1 .. n
  BY <1>2, Typed DEF BaseInv
<1>4. \A i, j \in 1 .. n + 1 :
        i < j /\ FromDevice(equeue[i].event) /\ FromDevice(equeue[j].event)
            => equeue[i].event < equeue[j].event
  BY <1>3 DEF OrderInv, Held
<1>5. \A i, j \in 1 .. n :
        i < j /\ FromDevice(equeue'[i].event) /\ FromDevice(equeue'[j].event)
            => equeue'[i].event < equeue'[j].event
  <2>1. \A i \in 1 .. n : i + 1 \in 1 .. n + 1
    BY <1>2
  <2> QED
    BY <1>2, <1>4, <2>1
<1>6. \A i \in 1 .. n :
        FromDevice(equeue[1].event) /\ FromDevice(equeue'[i].event)
            => equeue[1].event < equeue'[i].event
  BY <1>2, <1>4
<1>7. Held'
  <2>1. \A i \in 1 .. n : i + 1 \in DOMAIN equeue
    BY <1>2, <1>3
  <2> QED
    BY <1>1, <1>2, <1>3, <2>1 DEF OrderInv, Held, FromDevice
<1> QED
  BY <1>1, <1>2, <1>3, <1>5, <1>6, <1>7 DEF OrderInv, InOrder, Held, FromDevice

LEMMA OrderStep == BaseInv /\ OrderInv /\ [Next]_vars => OrderInv'
<1> SUFFICES ASSUME BaseInv, OrderInv, [Next]_vars PROVE OrderInv'
  OBVIOUS
<1> USE DEF Origins, Held
<1>1. ASSUME UNCHANGED <<event_disp, equeue, einsert, ev, made>>,
             work'.e \in {work.e, NoEvent}, einsert # NoThread => call'[einsert] = call[einsert]
      PROVE  OrderInv'
  <2>1. Held'
    BY <1>1 DEF OrderInv, Held, FromDevice
  <2> QED
    BY <1>1, <2>1, SameQueueOrder
<1>2. ASSUME NEW t \in Thread, Enter(t) PROVE OrderInv'
  <2>1. CASE InsertRuns(t) \/ veDeviceProcessEvent(t)
    BY <2>1, BeginOrder
  <2>2. CASE InsertDiscards(t)
    <3>1. PICK name \in Name, vec \in Kinds : New(name, vec, "device")
      BY <2>2 DEF InsertDiscards
    <3>2. Origins
      BY <2>2, <3>1, LeaveStep, NewType, EventAssumption DEF BaseInv
    <3> QED
      BY <2>2, <3>2, SameQueueOrder DEF InsertDiscards
  <2>3. CASE InsertQueues(t)
    BY <2>3, InsertQueuesOrder
  <2>4. ASSUME NEW disp \in {"queue", "discard"}, veDeviceBlockEvents(t, disp)
        PROVE  OrderInv'
    BY <2>4, SameQueueOrder DEF veDeviceBlockEvents
  <2>5. CASE veDeviceUnblockEvents(t)
    <3>1. einsert' = t /\ t # NoThread /\ call'[t] = "unblock" /\ work'.e = NoEvent
      BY <2>5, EventAssumption DEF veDeviceUnblockEvents, Ready, Begin, Resting, Thread
    <3> QED
      BY <2>5, <3>1, SameQueueOrder DEF veDeviceUnblockEvents
  <2>6. CASE veDeviceProcessQueue(t)
    <3>1. /\ einsert = NoThread /\ work'.e = NoEvent
          /\ UNCHANGED <<event_disp, equeue, call, ev, made>>
      BY <2>6 DEF veDeviceProcessQueue, Ready, Begin, Resting
    <3>2. Held'
      BY <3>1 DEF OrderInv, Held, FromDevice
    <3> QED
      BY <3>1, <3>2, SameQueueOrder
  <2> QED
    BY <1>2, <2>1, <2>2, <2>3, <2>4, <2>5, <2>6 DEF Enter
<1>3. CASE Calls
  <2>1. PICK t, op : Call(t, op)
    BY <1>3 DEF Calls
  <2>2. call[t] = "none" /\ call' = [call EXCEPT ![t] = op]
        /\ UNCHANGED <<event_disp, equeue, einsert, work, ev, made>>
    BY <2>1 DEF Call
  <2>3. Held'
    BY <2>2 DEF BaseInv, TypeOK, OrderInv, Held, FromDevice
  <2> QED
    BY <2>2, <2>3, SameQueueOrder
<1>4. ASSUME NEW where, NEW disp \in Disps, veDevicePushEvent(where, disp) PROVE OrderInv'
  <2>1. PICK name \in Name : New(name, FALSE, "app")
    BY <1>4 DEF veDevicePushEvent
  <2>2. made < MaxEvents /\ ev'[made + 1].from = "app" /\ Origins
    BY <1>4, <2>1, AppPushStep, NewType DEF BaseInv
  <2> QED
    BY <1>4, <2>2, PushOrder DEF veDevicePushEvent
<1>5. CASE Moving \/ ControllerTakes
  BY <1>1, <1>5, MovingKeeps, ControllerStep DEF ControllerTakes
<1>6. ASSUME NEW status \in Status, NEW name \in Name, Filter(status, name) PROVE OrderInv'
  <2>1. /\ UNCHANGED <<event_disp, equeue, einsert, call, made>> /\ work'.e = work.e
        /\ ev' = [ev EXCEPT ![work.e].name = name]
    BY <1>6, ObeyKeeps DEF Filter, BaseInv
  <2>2. \A e \in Events : ev'[e].from = ev[e].from
    BY <1>6, <2>1, AtEvent DEF Filter, EventRecords
  <2>3. Held'
    BY <2>1, <2>2, Typed DEF OrderInv, Held, FromDevice, BaseInv
  <2> QED
    BY <2>1, <2>2, <2>3, SameQueueOrder
<1>7. ASSUME NEW status \in Status, NEW where, FilterPushes(status, where) PROVE OrderInv'
  <2>1. /\ made < MaxEvents /\ work'.e = work.e
        /\ ev[work.e] \in EventRecords
        /\ New(ev[work.e].name, ev[work.e].vec, "filter")
    BY <1>7, FilterPushesStep, AtEvent DEF FilterPushes
  <2>2. ev'[made + 1].from = "filter" /\ Origins
    BY <2>1, NewType DEF BaseInv, EventRecords
  <2> QED
    BY <1>7, <2>1, <2>2, PushOrder DEF FilterPushes, Disps
<1>8. ASSUME NEW status \in Status, NEW name \in Name, FilterValuator(status, name)
      PROVE  OrderInv'
  <2>1. /\ made < MaxEvents /\ work'.e = work.e /\ ev'[made + 1].from = "filter" /\ Origins
        /\ UNCHANGED <<event_disp, einsert, call>>
    BY <1>8, ValuatorStep DEF FilterValuator
  <2>2. CASE SubPushed(status, name)
    <3>1. equeue' = Push(equeue, made + 1, "head", SubDisp(status)) /\ SubDisp(status) \in Disps
      BY <1>8, <2>2 DEF FilterValuator, SubDisp, Disps
    <3> QED
      BY <2>1, <3>1, PushOrder
  <2>3. CASE ~SubPushed(status, name)
    <3>1. equeue' = equeue
      BY <1>8, <2>3 DEF FilterValuator
    <3>2. Held'
      BY <2>1, <3>1, QueuedOrigins DEF OrderInv, Held, FromDevice
    <3> QED
      BY <2>1, <3>1, <3>2, SameQueueOrder
  <2> QED
    BY <2>2, <2>3
<1>9. CASE NextEvent
  BY <1>9, PopOrder
<1>10. CASE QueueEmpty
  <2>1. equeue' = <<>>
    BY <1>10 DEF QueueEmpty
  <2> QED
    BY <2>1 DEF OrderInv, Held, InOrder
<1>11. CASE Processed
  <2>1. work'.e = NoEvent /\ UNCHANGED <<event_disp, equeue, ev, made>>
    BY <1>11, ProcessedStep DEF Processed
  <2>2. Held'
    BY <1>11, <2>1 DEF Processed, OrderInv, Held, FromDevice
  <2> QED
    BY <2>1, <2>2, SameQueueOrder
<1>12. CASE OtherCallback \/ UNCHANGED vars
  BY <1>1, <1>12 DEF OtherCallback, vars
<1> QED
  BY <1>2, <1>3, <1>4, <1>5, <1>6, <1>7, <1>8, <1>9, <1>10, <1>11, <1>12
     DEF Next, Work, Filtering, Moving, Disps

-----------------------------------------------------------------------------
(* No event is lost, and none is destroyed twice.                           *)

\* Steps that leave the queue and the event in work alone.
LEMMA SameKept ==
    ASSUME KeptInv, UNCHANGED <<equeue, made, freed>>, work'.e = work.e
    PROVE  KeptInv'
BY DEF KeptInv, Queued

\* A new event comes into work, into the queue, or is destroyed at once.
LEMMA MadeKept ==
    ASSUME BaseInv, KeptInv, NEW new \in Events, new = made + 1, made' = new,
           equeue' \in Seq(Entries),
           \A i, j \in DOMAIN equeue' : equeue'[i].event = equeue'[j].event => i = j,
           \A e \in Events : e <= made => freed'[e] = freed[e] /\ (Queued(e)' <=> Queued(e)),
           \A e \in Events : e > new => freed'[e] = freed[e],
           work'.e \in {work.e, new}, work'.e = work.e \/ work.e = NoEvent,
           \/ freed'[new] = 0 /\ work'.e = new /\ ~Queued(new)'
           \/ freed'[new] = 0 /\ work'.e # new /\ Queued(new)'
           \/ freed'[new] = 1 /\ work'.e # new /\ ~Queued(new)'
    PROVE  KeptInv'
<1>1. made \in Nat /\ MaxEvents \in Nat /\ Events \subseteq Nat /\ NoEvent \notin Events
  BY Typed DEF BaseInv, Events
<1>2. \A e \in Events : e > made' => freed'[e] = 0
  BY <1>1 DEF KeptInv
<1>3. ASSUME NEW e \in Events, e <= made'
      PROVE  \/ freed'[e] = 0 /\ work'.e = e /\ ~Queued(e)'
             \/ freed'[e] = 0 /\ work'.e # e /\ Queued(e)'
             \/ freed'[e] = 1 /\ work'.e # e /\ ~Queued(e)'
  <2>1. CASE e = new
    BY <2>1
  <2>2. CASE e # new
    <3>1. e <= made
      BY <1>1, <1>3, <2>2
    <3>2. work'.e = e <=> work.e = e
      BY <1>1, <2>2
    <3> QED
      BY <3>1, <3>2 DEF KeptInv
  <2> QED
    BY <2>1, <2>2
<1> QED
  BY <1>2, <1>3 DEF KeptInv

\* What a push does to the queue, seen by the events.
LEMMA PushKept ==
    ASSUME BaseInv, KeptInv, NEW new \in Events, new = made + 1, NEW where,
           NEW disp \in Disps, equeue' = Push(equeue, new, where, disp)
    PROVE  /\ equeue' \in Seq(Entries)
           /\ \A i, j \in DOMAIN equeue' : equeue'[i].event = equeue'[j].event => i = j
           /\ \A e \in Events : e <= made => (Queued(e)' <=> Queued(e))
           /\ Queued(new)'
<1> DEFINE n == Len(equeue)
<1>1. /\ n \in Nat /\ DOMAIN equeue = 1 .. n /\ DOMAIN equeue' = 1 .. n + 1
      /\ equeue' \in Seq(Entries)
      /\ \/ equeue'[1].event = new /\ \A i \in DOMAIN equeue : equeue'[i + 1] = equeue[i]
         \/ equeue'[n + 1].event = new /\ \A i \in DOMAIN equeue : equeue'[i] = equeue[i]
  BY PushKnown, Typed DEF BaseInv, Events
<1>2. PICK shift \in {0, 1} :
        /\ \A i \in 1 .. n : i + shift \in 1 .. n + 1 /\ equeue'[i + shift] = equeue[i]
        /\ \A i \in 1 .. n + 1 : i - shift \in 1 .. n \/ equeue'[i].event = new
        /\ \A i, j \in 1 .. n + 1 : i - shift \notin 1 .. n /\ j - shift \notin 1 .. n => i = j
  <2>1. CASE equeue'[1].event = new /\ \A i \in DOMAIN equeue : equeue'[i + 1] = equeue[i]
    <3>1. \A i \in 1 .. n : i + 1 \in 1 .. n + 1 /\ equeue'[i + 1] = equeue[i]
      BY <1>1, <2>1
    <3>2. \A i \in 1 .. n + 1 : i - 1 \in 1 .. n \/ i = 1
      BY <1>1
    <3> QED
      BY <2>1, <3>1, <3>2
  <2>2. CASE equeue'[n + 1].event = new /\ \A i \in DOMAIN equeue : equeue'[i] = equeue[i]
    <3>1. \A i \in 1 .. n : i + 0 = i /\ i \in 1 .. n + 1 /\ equeue'[i] = equeue[i]
      BY <1>1, <2>2
    <3>2. \A i \in 1 .. n + 1 : i - 0 = i /\ (i \in 1 .. n \/ i = n + 1)
      BY <1>1
    <3> QED
      BY <2>2, <3>1, <3>2
  <2> QED
    BY <1>1, <2>1, <2>2
<1>3. \A i \in 1 .. n : equeue[i].event \in Nat /\ equeue[i].event <= made
  BY <1>1, Typed DEF BaseInv, WorkInv
<1>4. \A i \in 1 .. n + 1 : i - shift \in 1 .. n => equeue'[i] = equeue[i - shift]
  <2>1. \A i \in 1 .. n + 1 : i - shift \in 1 .. n => (i - shift) + shift = i
    BY <1>1
  <2> QED
    BY <1>2, <2>1
<1>5. ASSUME NEW i \in 1 .. n + 1, NEW j \in 1 .. n + 1, equeue'[i].event = equeue'[j].event
      PROVE  i = j
  <2>1. CASE i - shift \in 1 .. n /\ j - shift \in 1 .. n
    <3>1. /\ i - shift \in DOMAIN equeue /\ j - shift \in DOMAIN equeue
          /\ equeue[i - shift].event = equeue[j - shift].event
      BY <1>1, <1>4, <1>5, <2>1
    <3>2. i - shift = j - shift
      BY <3>1 DEF KeptInv
    <3> QED
      BY <1>1, <3>2
  <2>2. CASE i - shift \notin 1 .. n /\ j - shift \notin 1 .. n
    BY <1>2, <2>2
  <2>3. \A k \in 1 .. n + 1 : k - shift \in 1 .. n => equeue'[k].event # new
    BY <1>3, <1>4, Typed DEF BaseInv
  <2> QED
    BY <1>2, <1>5, <2>1, <2>2, <2>3
<1>6. ASSUME NEW e \in Events, e <= made
      PROVE  Queued(e)' <=> Queued(e)
  <2>1. ASSUME NEW i \in 1 .. n, equeue[i].event = e PROVE \E j \in 1 .. n + 1 : equeue'[j].event = e
    BY <1>2, <2>1
  <2>2. ASSUME NEW j \in 1 .. n + 1, equeue'[j].event = e PROVE \E i \in 1 .. n : equeue[i].event = e
    <3>1. e # new
      BY <1>6, Typed DEF BaseInv, Events
    <3> QED
      BY <1>2, <1>4, <2>2, <3>1
  <2> QED
    BY <1>1, <2>1, <2>2 DEF Queued
<1>7. Queued(new)'
  <2>1. CASE equeue'[1].event = new
    BY <1>1, <2>1 DEF Queued
  <2>2. CASE equeue'[n + 1].event = new
    BY <1>1, <2>2 DEF Queued
  <2> QED
    BY <1>1, <2>1, <2>2
<1> QED
  BY <1>1, <1>5, <1>6, <1>7

\* An event that is still to be made is nowhere yet.
LEMMA NotYet ==
    ASSUME BaseInv, KeptInv, NEW new \in Events, new = made + 1
    PROVE  /\ ~Queued(new) /\ freed[new] = 0 /\ work.e # new
           /\ freed \in [Events -> Nat] /\ equeue \in Seq(Entries)
           /\ \A e \in Events : e <= made \/ e > new => e # new
           /\ \A i, j \in DOMAIN equeue : equeue[i].event = equeue[j].event => i = j
<1>1. made \in Nat /\ Events \subseteq Nat /\ NoEvent \notin Events
      /\ freed \in [Events -> Nat] /\ equeue \in Seq(Entries)
  BY Typed DEF BaseInv, Events
<1>2. ~Queued(new) /\ work.e # new
  BY <1>1, Typed DEF BaseInv, WorkInv, Queued
<1>3. freed[new] = 0 /\ \A e \in Events : e <= made \/ e > new => e # new
  BY <1>1 DEF KeptInv
<1> QED
  BY <1>1, <1>2, <1>3 DEF KeptInv

LEMMA EnterKept ==
    ASSUME BaseInv, KeptInv, NEW t \in Thread, Enter(t)
    PROVE  KeptInv'
<1>1. einsert = NoThread /\ work.e = NoEvent
  BY DEF Enter, InsertRuns, InsertDiscards, InsertQueues, veDeviceBlockEvents,
    veDeviceUnblockEvents, veDeviceProcessQueue, veDeviceProcessEvent, Ready, BaseInv, WorkInv
<1>2. ASSUME made < MaxEvents PROVE \E new \in Events : new = made + 1
  BY <1>2, Typed DEF BaseInv, Events
<1>3. CASE InsertRuns(t) \/ veDeviceProcessEvent(t)
  <2>1. PICK new \in Events : new = made + 1
    BY <1>2, <1>3, BeginStep
  <2>2. /\ made' = new /\ UNCHANGED <<equeue, freed>> /\ work'.e = new
    BY <1>3, <2>1 DEF InsertRuns, veDeviceProcessEvent, New, Begin, Resting
  <2>3. \A e \in Events : Queued(e)' <=> Queued(e)
    BY <2>2 DEF Queued
  <2>4. equeue' \in Seq(Entries)
        /\ \A i, j \in DOMAIN equeue' : equeue'[i].event = equeue'[j].event => i = j
    BY <2>1, <2>2, NotYet
  <2> QED
    BY <1>1, <2>1, <2>2, <2>3, <2>4, MadeKept, NotYet
<1>4. CASE InsertDiscards(t)
  <2>1. PICK new \in Events : new = made + 1
    BY <1>2, <1>4, LeaveStep
  <2>2. /\ made' = new /\ UNCHANGED <<equeue, work>> /\ freed' = [freed EXCEPT ![new] = @ + 1]
    BY <1>4, <2>1 DEF InsertDiscards, New, Destroy
  <2>3. \A e \in Events : Queued(e)' <=> Queued(e)
    BY <2>2 DEF Queued
  <2>4. equeue' \in Seq(Entries)
        /\ \A i, j \in DOMAIN equeue' : equeue'[i].event = equeue'[j].event => i = j
    BY <2>1, <2>2, NotYet
  <2>5. freed'[new] = 1 /\ \A e \in Events : e # new => freed'[e] = freed[e]
    BY <2>1, <2>2, NotYet
  <2> QED
    BY <1>1, <2>1, <2>2, <2>3, <2>4, <2>5, MadeKept, NotYet
<1>5. CASE InsertQueues(t)
  <2>1. PICK new \in Events : new = made + 1
    BY <1>2, <1>5, LeaveStep
  <2>2. /\ made' = new /\ UNCHANGED <<freed, work>>
        /\ equeue' = Push(equeue, new, "tail", "CONTINUE")
    BY <1>5, <2>1 DEF InsertQueues, New
  <2>3. /\ equeue' \in Seq(Entries)
        /\ \A i, j \in DOMAIN equeue' : equeue'[i].event = equeue'[j].event => i = j
        /\ \A e \in Events : e <= made => (Queued(e)' <=> Queued(e))
        /\ Queued(new)'
    BY <2>1, <2>2, PushKept DEF Disps
  <2> QED
    BY <2>1, <2>2, <2>3, NotYet, MadeKept
<1>6. ASSUME NEW disp \in {"queue", "discard"},
             veDeviceBlockEvents(t, disp) \/ veDeviceUnblockEvents(t) \/ veDeviceProcessQueue(t)
      PROVE  KeptInv'
  <2>1. UNCHANGED <<equeue, made, freed>> /\ work'.e \in {work.e, NoEvent}
    BY <1>6 DEF veDeviceBlockEvents, veDeviceUnblockEvents, veDeviceProcessQueue, Begin, Resting
  <2> QED
    BY <1>1, <2>1, SameKept
<1> QED
  BY <1>3, <1>4, <1>5, <1>6 DEF Enter

\* The first event in the queue comes into work.
LEMMA PopKept == BaseInv /\ KeptInv /\ NextEvent => KeptInv'
<1> SUFFICES ASSUME BaseInv, KeptInv, NextEvent PROVE KeptInv'
  OBVIOUS
<1> DEFINE n == Len(equeue) - 1
<1>1. /\ equeue # <<>> /\ equeue' = Tail(equeue) /\ UNCHANGED <<made, freed>>
      /\ work'.e = Head(equeue).event /\ work.e = NoEvent
  BY DEF NextEvent, Resting, BaseInv, WorkInv
<1>2. /\ DOMAIN equeue = 1 .. n + 1 /\ DOMAIN equeue' = 1 .. n /\ n \in Nat
      /\ Head(equeue) = equeue[1]
      /\ \A i \in 1 .. n : i + 1 \in 1 .. n + 1 /\ equeue'[i] = equeue[i + 1]
  BY <1>1, PopTakesFirst, Typed DEF BaseInv
<1>3. PICK first \in Events : first = equeue[1].event /\ first # NoEvent /\ work'.e = first
  BY <1>1, <1>2, Typed DEF BaseInv
<1>4. ASSUME NEW i \in 1 .. n, NEW j \in 1 .. n, equeue'[i].event = equeue'[j].event
      PROVE  i = j
  <2>1. /\ i + 1 \in DOMAIN equeue /\ j + 1 \in DOMAIN equeue
        /\ equeue[i + 1].event = equeue[j + 1].event
    BY <1>2, <1>4
  <2>2. i + 1 = j + 1
    BY <2>1 DEF KeptInv
  <2> QED
    BY <1>2, <2>2
<1>5. ASSUME NEW e \in Events, e # first PROVE Queued(e)' <=> Queued(e)
  <2>1. ASSUME NEW i \in 1 .. n + 1, equeue[i].event = e PROVE Queued(e)'
    <3>1. i - 1 \in 1 .. n /\ (i - 1) + 1 = i
      BY <1>2, <1>3, <1>5, <2>1
    <3> QED
      BY <1>2, <2>1, <3>1 DEF Queued
  <2>2. ASSUME NEW i \in 1 .. n, equeue'[i].event = e PROVE Queued(e)
    BY <1>2, <2>2 DEF Queued
  <2> QED
    BY <1>2, <2>1, <2>2 DEF Queued
<1>6. ~Queued(first)' /\ Queued(first)
  <2>1. 1 \in DOMAIN equeue
    BY <1>2
  <2>2. ASSUME NEW i \in 1 .. n, equeue'[i].event = first PROVE FALSE
    <3>1. i + 1 \in DOMAIN equeue /\ equeue[i + 1].event = equeue[1].event
      BY <1>2, <1>3, <2>2
    <3>2. i + 1 = 1
      BY <2>1, <3>1 DEF KeptInv
    <3> QED
      BY <1>2, <3>2
  <2> QED
    BY <1>2, <1>3, <2>1, <2>2 DEF Queued
<1>7. ASSUME NEW e \in Events, e <= made
      PROVE  \/ freed'[e] = 0 /\ work'.e = e /\ ~Queued(e)'
             \/ freed'[e] = 0 /\ work'.e # e /\ Queued(e)'
             \/ freed'[e] = 1 /\ work'.e # e /\ ~Queued(e)'
  <2>1. work.e # e
    BY <1>1, Typed DEF BaseInv
  <2> QED
    BY <1>1, <1>3, <1>5, <1>6, <1>7, <2>1 DEF KeptInv
<1> QED
  BY <1>1, <1>2, <1>4, <1>7 DEF KeptInv

LEMMA FilterPushesKept ==
    ASSUME BaseInv, KeptInv, NEW status \in Status, NEW where, FilterPushes(status, where)
    PROVE  KeptInv'
<1>1. made < MaxEvents /\ work'.e = work.e
  BY FilterPushesStep
<1>2. PICK new \in Events : new = made + 1
  BY <1>1, Typed DEF BaseInv, Events
<1>3. made' = new /\ freed' = freed /\ equeue' = Push(equeue, new, where, "CONTINUE")
  BY <1>2 DEF FilterPushes, New
<1>4. /\ equeue' \in Seq(Entries)
      /\ \A i, j \in DOMAIN equeue' : equeue'[i].event = equeue'[j].event => i = j
      /\ \A e \in Events : e <= made => (Queued(e)' <=> Queued(e))
      /\ Queued(new)'
  BY <1>2, <1>3, PushKept DEF Disps
<1> QED
  BY <1>1, <1>2, <1>3, <1>4, NotYet, MadeKept

LEMMA AppPushKept ==
    ASSUME BaseInv, KeptInv, NEW where, NEW disp \in Disps, veDevicePushEvent(where, disp)
    PROVE  KeptInv'
<1>1. made < MaxEvents
  BY AppPushStep
<1>2. PICK new \in Events : new = made + 1
  BY <1>1, Typed DEF BaseInv, Events
<1>3. made' = new /\ UNCHANGED <<freed, work>> /\ equeue' = Push(equeue, new, where, disp)
  BY <1>2 DEF veDevicePushEvent, New
<1>4. /\ equeue' \in Seq(Entries)
      /\ \A i, j \in DOMAIN equeue' : equeue'[i].event = equeue'[j].event => i = j
      /\ \A e \in Events : e <= made => (Queued(e)' <=> Queued(e))
      /\ Queued(new)'
  BY <1>2, <1>3, PushKept
<1> QED
  BY <1>2, <1>3, <1>4, NotYet, MadeKept

\* The event made for one valuator is either pushed or destroyed, unless the
\* filter discards it.
LEMMA ValuatorKept ==
    ASSUME NoDoubleFree, BaseInv, KeptInv, NEW status \in Status, NEW name \in Name,
           FilterValuator(status, name)
    PROVE  KeptInv'
<1>1. made < MaxEvents /\ work'.e = work.e
  BY ValuatorStep
<1>2. PICK new \in Events : new = made + 1
  BY <1>1, Typed DEF BaseInv, Events
<1>3. status # "DISCARD"
  BY DEF FilterValuator, MatchesFilter, OneValuator, Returns, NoDoubleFree
<1>4. SubFrees(status, name) = IF SubPushed(status, name) THEN 0 ELSE 1
  BY <1>3 DEF SubFrees
<1>5. /\ made' = new
      /\ freed' = [freed EXCEPT ![new] = @ + SubFrees(status, name)]
      /\ equeue' = IF SubPushed(status, name)
                   THEN Push(equeue, new, "head", SubDisp(status)) ELSE equeue
  BY <1>2 DEF FilterValuator, Destroy
<1>6. CASE SubPushed(status, name)
  <2>1. SubDisp(status) \in Disps
    BY DEF SubDisp, Disps
  <2>2. /\ equeue' \in Seq(Entries)
        /\ \A i, j \in DOMAIN equeue' : equeue'[i].event = equeue'[j].event => i = j
        /\ \A e \in Events : e <= made => (Queued(e)' <=> Queued(e))
        /\ Queued(new)'
    BY <1>2, <1>5, <1>6, <2>1, PushKept
  <2>3. \A e \in Events : freed'[e] = freed[e]
    BY <1>2, <1>4, <1>5, <1>6, NotYet
  <2> QED
    BY <1>1, <1>2, <1>5, <2>2, <2>3, NotYet, MadeKept
<1>7. CASE ~SubPushed(status, name)
  <2>1. \A e \in Events : Queued(e)' <=> Queued(e)
    BY <1>5, <1>7 DEF Queued
  <2>2. equeue' \in Seq(Entries)
        /\ \A i, j \in DOMAIN equeue' : equeue'[i].event = equeue'[j].event => i = j
    BY <1>2, <1>5, <1>7, NotYet
  <2>3. freed'[new] = 1 /\ \A e \in Events : e # new => freed'[e] = freed[e]
    BY <1>2, <1>4, <1>5, <1>7, NotYet
  <2> QED
    BY <1>1, <1>2, <1>5, <2>1, <2>2, <2>3, NotYet, MadeKept
<1> QED
  BY <1>6, <1>7

\* The event in work is destroyed when the holder is done with it.
LEMMA ProcessedKept == BaseInv /\ KeptInv /\ Processed => KeptInv'
<1> SUFFICES ASSUME BaseInv, KeptInv, Processed PROVE KeptInv'
  OBVIOUS
<1>1. /\ work.e \in Events /\ work.e <= made /\ NoEvent \notin Events
      /\ freed \in [Events -> Nat]
  BY AtEvent, Typed DEF Processed, BaseInv
<1>2. /\ UNCHANGED <<equeue, made>> /\ work'.e = NoEvent
      /\ freed' = [freed EXCEPT ![work.e] = @ + 1]
  BY ProcessedStep DEF Processed, Destroy
<1>3. \A e \in Events : Queued(e)' <=> Queued(e)
  BY <1>2 DEF Queued
<1>4. freed'[work.e] = 1 /\ ~Queued(work.e) /\ \A e \in Events : e # work.e => freed'[e] = freed[e]
  BY <1>1, <1>2 DEF KeptInv
<1>5. ASSUME NEW e \in Events, e > made PROVE e # work.e
  BY <1>1, <1>5, Typed DEF BaseInv, Events
<1>6. ASSUME NEW e \in Events, e <= made
      PROVE  \/ freed'[e] = 0 /\ work'.e = e /\ ~Queued(e)'
             \/ freed'[e] = 0 /\ work'.e # e /\ Queued(e)'
             \/ freed'[e] = 1 /\ work'.e # e /\ ~Queued(e)'
  <2>1. CASE e = work.e
    BY <1>1, <1>2, <1>3, <1>4, <2>1
  <2>2. CASE e # work.e
    BY <1>1, <1>2, <1>3, <1>4, <1>6, <2>2 DEF KeptInv
  <2> QED
    BY <2>1, <2>2
<1> QED
  BY <1>2, <1>4, <1>5, <1>6 DEF KeptInv

LEMMA KeptStep == NoDoubleFree /\ BaseInv /\ KeptInv /\ [Next]_vars => KeptInv'
<1> SUFFICES ASSUME NoDoubleFree, BaseInv, KeptInv, [Next]_vars PROVE KeptInv'
  OBVIOUS
<1>1. CASE Calls
  BY <1>1, SameKept DEF Calls, Call
<1>2. CASE Moving
  BY <1>2, MovingKeeps, SameKept
<1>3. ASSUME NEW status \in Status, NEW name \in Name, Filter(status, name) PROVE KeptInv'
  BY <1>3, ObeyKeeps, SameKept DEF Filter, BaseInv
<1>4. CASE QueueEmpty
  BY <1>4, SameKept DEF QueueEmpty, Unlock, Resting, BaseInv, WorkInv
<1>5. CASE ControllerTakes
  BY <1>5 DEF ControllerTakes, NoDoubleFree
<1>6. CASE OtherCallback \/ UNCHANGED vars
  BY <1>6, SameKept DEF OtherCallback, vars
<1> QED
  BY <1>1, <1>2, <1>3, <1>4, <1>5, <1>6, EnterKept, AppPushKept, FilterPushesKept,
     ValuatorKept, ProcessedKept, PopKept
     DEF Next, Work, Filtering, Moving, Disps

-----------------------------------------------------------------------------
(* The theorems.                                                            *)

LEMMA Invariance == Spec => []IInv
<1>1. IInv /\ [Next]_vars => IInv'
  BY BaseStep, OrderStep DEF IInv, BaseInv
<1> QED
  BY <1>1, InvInit, PTL DEF Spec

\* Every variable of the event code keeps its type.
THEOREM TypeCorrect == Spec => []TypeOK
<1>1. IInv => TypeOK
  BY DEF IInv
<1> QED
  BY <1>1, Invariance, PTL

\* Events of devices are processed in the order in which they arrived, however
\* many drivers insert them while the application blocks, unblocks and pushes.
THEOREM OrderCorrect == Spec => []InOrder
<1>1. IInv => InOrder
  BY DEF IInv, OrderInv, Held
<1> QED
  BY <1>1, Invariance, PTL

\* Without controllers, and with no filter that discards one valuator of a
\* vector, each event is queued once, in work, or destroyed once.
THEOREM KeptCorrect ==
    ASSUME NoDoubleFree
    PROVE  Spec => []EventsKept
<1>1. IInv /\ KeptInv => EventsKept
  <2> SUFFICES ASSUME IInv, KeptInv, NEW e \in 1 .. made
               PROVE  \/ freed[e] = 0 /\ work.e = e /\ InQueue(e) = {}
                      \/ freed[e] = 0 /\ work.e # e /\ \E i \in InQueue(e) : InQueue(e) = {i}
                      \/ freed[e] = 1 /\ work.e # e /\ InQueue(e) = {}
    BY DEF EventsKept
  <2>1. e \in Events /\ e <= made
    BY Typed DEF IInv, Events
  <2>2. InQueue(e) = {} <=> ~Queued(e)
    BY DEF InQueue, Queued
  <2>3. Queued(e) => \E i \in InQueue(e) : InQueue(e) = {i}
    BY DEF InQueue, Queued, KeptInv
  <2> QED
    BY <2>1, <2>2, <2>3 DEF KeptInv
<1>2. IInv /\ KeptInv /\ [Next]_vars => KeptInv'
  BY KeptStep DEF IInv, BaseInv
<1> QED
  BY <1>1, <1>2, InvInit, Invariance, PTL DEF Spec
-----------------------------------------------------------------------------
(* Why calls return and events get done: what CallsReturn and EventsDone    *)
(* rest on, apart from fairness.                                            *)

\* While events are not blocked, those of devices are in the queue only as long as
\* the call that has lifted the block takes them out: a driver that has just
\* queued one cannot have missed the unblocking (ve_dev_event.c:382-395, 421-428).
THEOREM NothingStranded == Spec => []Held
<1>1. IInv => Held
  BY DEF IInv, OrderInv
<1> QED
  BY <1>1, Invariance, PTL

\* Who has the callback lock, and who has einsert_mutex.
LocksInv ==
    /\ work.at = "called" => cback = einsert
    /\ \A t \in Thread : cback = t => einsert = t /\ work.at = "called"
    /\ einsert # NoThread => call[einsert] \in {"insert", "unblock", "run", "process"}

\* The two locks are taken in one order: whoever holds einsert_mutex is in a call
\* that gives it back and waits for the callback lock at most, and that is then
\* free, or with a thread that wants no other lock.
LocksOrdered ==
    /\ einsert # NoThread => call[einsert] \in {"insert", "unblock", "run", "process"}
    /\ work.at = "callback" => cback \in {NoThread, Timer}
    /\ \A t \in Thread : cback = t => einsert = t /\ work.at = "called"

LEMMA EnterLocks ==
    ASSUME BaseInv, LocksInv, NEW t \in Thread, Enter(t)
    PROVE  LocksInv'
<1>1. /\ einsert = NoThread /\ t # NoThread /\ cback' = cback /\ cback \notin Thread
      /\ work.at = "none" /\ call \in [Thread -> AppCalls \cup {"none", "insert"}]
  <2>1. einsert = NoThread /\ cback' = cback
    BY DEF Enter, InsertRuns, InsertDiscards, InsertQueues, veDeviceBlockEvents,
           veDeviceUnblockEvents, veDeviceProcessQueue, veDeviceProcessEvent, Ready
  <2>2. NoThread \notin Thread
    BY EventAssumption DEF Thread
  <2> QED
    BY <2>1, <2>2 DEF LocksInv, BaseInv, WorkInv, TypeOK
<1>2. CASE \/ InsertDiscards(t) \/ InsertQueues(t)
           \/ \E disp \in {"queue", "discard"} : veDeviceBlockEvents(t, disp)
  <2>1. einsert' = einsert /\ work' = work
    BY <1>2 DEF InsertDiscards, InsertQueues, veDeviceBlockEvents
  <2> QED
    BY <1>1, <2>1 DEF LocksInv
<1>3. CASE InsertRuns(t) \/ veDeviceUnblockEvents(t) \/ veDeviceProcessQueue(t) \/ veDeviceProcessEvent(t)
  <2>1. /\ einsert' = t /\ call' = call /\ work'.at \in {"filter", "queue"}
        /\ call[t] \in {"insert", "unblock", "run", "process"}
    BY <1>3 DEF InsertRuns, veDeviceUnblockEvents, veDeviceProcessQueue,
                veDeviceProcessEvent, Begin, Resting, Ready
  <2> QED
    BY <1>1, <2>1 DEF LocksInv
<1> QED
  BY <1>2, <1>3 DEF Enter

LEMMA WorkLocks ==
    ASSUME BaseInv, LocksInv, Work
    PROVE  LocksInv'
<1>1. /\ einsert \in Thread \cup {NoThread} /\ einsert # NoThread <=> work.at # "none"
      /\ work \in Works /\ NoThread \notin Thread
  BY EventAssumption, Typed DEF BaseInv, TypeOK, WorkInv, Thread
\* Nothing but the place changes, and the callback lock is not touched.
<1>2. ASSUME UNCHANGED <<einsert, cback, call>>, work.at # "called", work'.at # "called"
      PROVE  LocksInv'
  BY <1>2 DEF LocksInv
<1>3. CASE NextEvent
  BY <1>2, <1>3 DEF NextEvent, Resting
<1>4. ASSUME Unlock, cback' = cback, work.at # "called"
      PROVE  LocksInv'
  BY <1>4 DEF Unlock, Resting, LocksInv
<1>5. CASE QueueEmpty
  BY <1>4, <1>5 DEF QueueEmpty
<1>6. CASE Processed
  <2>1. CASE Unlock
    BY <1>4, <1>6, <2>1 DEF Processed
  <2>2. CASE work' = [Resting EXCEPT !.at = "queue"] /\ UNCHANGED <<einsert, call>>
    BY <1>2, <1>6, <2>2 DEF Processed, Resting
  <2> QED
    BY <1>6, <2>1, <2>2 DEF Processed
<1>7. CASE Filtering
  <2>1. work.at = "filter" /\ UNCHANGED <<einsert, cback, call>>
    BY <1>7 DEF Filtering, SkipFilter, FilteredOut, Filter, FilterValuator, FilterPushes
  <2>2. work'.at \in {"filter", "deliver", "done"}
    <3>1. CASE SkipFilter \/ FilteredOut
      BY <1>1, <3>1 DEF SkipFilter, FilteredOut, GoOn, Works
    <3>2. ASSUME NEW status \in Status, Obey(status)
          PROVE  work'.at \in {"filter", "deliver", "done"}
      BY <2>1, <3>2, ObeyKeeps DEF BaseInv
    <3>3. \A status \in Status, name \in Name : SubStatus(status, name) \in Status
      BY DEF SubStatus, Status
    <3> QED
      BY <1>7, <3>1, <3>2, <3>3 DEF Filtering, Filter, FilterValuator, FilterPushes
  <2> QED
    BY <1>2, <2>1, <2>2
<1>8. CASE ControllerTakes \/ ControllersPass \/ SkipCallback \/ CallbacksDone
  <2>1. /\ UNCHANGED <<einsert, cback, call>> /\ work.at \in {"deliver", "callback"}
        /\ work'.at \in {"callback", "done"}
    BY <1>1, <1>8 DEF ControllerTakes, ControllersPass, SkipCallback, CallbacksDone, GoOn, Works
  <2> QED
    BY <1>2, <2>1
<1>9. CASE CallbackBegins
  <2>1. /\ cback' = einsert /\ UNCHANGED <<einsert, call>> /\ work.at = "callback"
        /\ work'.at = "called"
    BY <1>1, <1>9 DEF CallbackBegins, GoOn, Works
  <2> QED
    BY <1>1, <2>1 DEF LocksInv
<1>10. ASSUME NEW abort \in BOOLEAN, CallbackReturns(abort)
       PROVE  LocksInv'
  <2>1. cback' = NoThread /\ UNCHANGED <<einsert, call>>
    BY <1>10 DEF CallbackReturns
  <2>2. work'.at \in {"callback", "done"}
    BY <1>1, <1>10 DEF CallbackReturns, GoOn, Works
  <2> QED
    BY <1>1, <2>1, <2>2 DEF LocksInv
<1> QED
  BY <1>3, <1>5, <1>6, <1>7, <1>8, <1>9, <1>10 DEF Work

LEMMA LocksStep == BaseInv /\ LocksInv /\ [Next]_vars => LocksInv'
<1> SUFFICES ASSUME BaseInv, LocksInv, [Next]_vars PROVE LocksInv'
  OBVIOUS
<1>1. CASE Calls
  <2>1. ASSUME NEW t \in Thread, NEW op, Call(t, op)
        PROVE  LocksInv'
    <3>1. /\ call[t] = "none" /\ UNCHANGED <<einsert, cback, work>>
          /\ \A u \in Thread : u # t => call'[u] = call[u]
      BY <2>1 DEF Call, BaseInv, TypeOK
    <3>2. einsert \in Thread \cup {NoThread}
      BY DEF BaseInv, TypeOK
    <3> QED
      BY <3>1, <3>2 DEF LocksInv
  <2> QED
    BY <1>1, <2>1 DEF Calls, Thread
<1>2. ASSUME NEW where, NEW disp, veDevicePushEvent(where, disp)
      PROVE  LocksInv'
  BY <1>2 DEF veDevicePushEvent, LocksInv
<1>3. CASE OtherCallback
  <2>1. /\ UNCHANGED <<einsert, call, work>> /\ cback' \in {Timer, NoThread}
        /\ cback \in {Timer, NoThread} /\ Timer \notin Thread /\ NoThread \notin Thread
    BY <1>3, EventAssumption DEF OtherCallback, Thread
  <2>2. work.at # "called"
    <3>1. einsert \in Thread \cup {NoThread} /\ (einsert = NoThread <=> work.at = "none")
      BY DEF BaseInv, TypeOK, WorkInv
    <3> QED
      BY <2>1, <3>1 DEF LocksInv
  <2> QED
    BY <2>1, <2>2 DEF LocksInv
<1>4. CASE UNCHANGED vars
  BY <1>4 DEF vars, LocksInv
<1> QED
  BY <1>1, <1>2, <1>3, <1>4, EnterLocks, WorkLocks DEF Next

\* No call waits in a circle, with any number of drivers, filters and callbacks,
\* as long as nobody calls in here from a callback.
THEOREM NoCircularWait == Spec => []LocksOrdered
<1>1. Init => LocksInv
  BY EventAssumption DEF Init, LocksInv, Resting, Thread
<1>2. IInv /\ LocksInv => LocksOrdered
  <2> SUFFICES ASSUME IInv, LocksInv, work.at = "callback"
               PROVE  cback \in {NoThread, Timer}
    BY DEF LocksOrdered, LocksInv
  <2> QED
    BY DEF LocksInv, IInv, TypeOK
<1>3. IInv /\ LocksInv /\ [Next]_vars => LocksInv'
  BY LocksStep DEF IInv, BaseInv
<1> QED
  BY <1>1, <1>2, <1>3, InvInit, Invariance, PTL DEF Spec
=============================================================================
