----------------------------- MODULE VeDevEvent -----------------------------
(* Device events: ve_dev_event.c, ve_dev_filter.c and the controllers of    *)
(* ve_dev_ctrl.c.  Driver threads insert events, the application blocks and *)
(* unblocks them, pushes events of its own or runs the queue.  Whoever      *)
(* holds einsert_mutex takes one event after the other through the filters, *)
(* the controllers and the callbacks.  equeue_mutex is held for one action. *)
(* Nobody calls in here from a callback or with the callbacks locked:       *)
(* einsert_mutex is not recursive and is taken before the callback lock.    *)
EXTENDS Integers, Sequences, FiniteSets

CONSTANTS
    Device,         \* the threads of the device drivers
    App, Timer,     \* a thread of the application, a thread of the library
                    \* that runs callbacks of another kind
    NoThread,
    AppCalls,       \* what App calls: of "queue", "discard" (the argument of
                    \* veDeviceBlockEvents), "unblock", "run" and "process"
    Name, AnyName,      \* device names, and the wild card of specifications
    Kinds,          \* of {TRUE, FALSE}: are inserted events vectors?
    Callbacks,      \* the callback list: specifications [name, index], where
                    \* index says that one valuator of a vector is meant
    Table,          \* the filter table: specifications with the results that
                    \* the filter may return
    Controlled,     \* the devices that have a controller
    NoEvent,
    MaxEvents       \* bound: events made

Status == {"ERROR", "CONTINUE", "RESTART", "DISCARD", "DELIVER"}
Specs == [name : Name \cup {AnyName}, index : BOOLEAN]
Filters == [name : Name \cup {AnyName}, index : BOOLEAN, results : SUBSET Status]

ASSUME EventAssumption ==
    /\ Kinds \subseteq BOOLEAN
    /\ AppCalls \subseteq {"queue", "discard", "unblock", "run", "process"}
    /\ Table \in Seq(Filters) /\ Callbacks \in Seq(Specs)
    /\ Controlled \subseteq Name /\ IsFiniteSet(Device)
    /\ MaxEvents \in Nat /\ NoEvent \notin 1 .. MaxEvents
    /\ App \notin Device /\ Timer \notin Device \cup {App}
    /\ NoThread \notin Device \cup {App, Timer}

VARIABLES
    event_disp,     \* "noblock", "discard" or "queue"
    equeue,         \* [event, disp], the head first
    einsert,        \* the holder of einsert_mutex
    cback,          \* the holder of the callback lock
    call,           \* what each thread has called, "none" when it is outside
    work,           \* how far the holder of einsert_mutex has come: at, the
                    \* event e, the filter f, the callback c
    made,           \* events are numbered as they are made
    ev,             \* name and kind (vec) of each event, and where it came
                    \* from (history)
    freed           \* history: how often each event has been destroyed

vars == <<event_disp, equeue, einsert, cback, call, work, made, ev, freed>>

Thread == Device \cup {App}
Events == 1 .. MaxEvents
Resting == [at |-> "none", e |-> NoEvent, f |-> 1, c |-> 1]

Init ==
    /\ event_disp = "noblock" /\ equeue = <<>>
    /\ einsert = NoThread /\ cback = NoThread
    /\ call = [t \in Thread |-> "none"]
    /\ work = Resting
    /\ made = 0
    /\ ev = [e \in Events |-> [name |-> AnyName, vec |-> FALSE, from |-> "none"]]
    /\ freed = [e \in Events |-> 0]

-----------------------------------------------------------------------------
(* The queue.                                                               *)

\* Definitions like the next one, named after the definition below them, are
\* faults to try the properties with.
Push_Front(q, e, where, disp) == <<[event |-> e, disp |-> disp]>> \o q

\* veDevicePushEvent: the first entry of the queue is a second allocation,
\* without the disposition.
Push(q, e, where, disp) ==
    IF q = <<>> THEN <<[event |-> e, disp |-> "CONTINUE"]>>
    ELSE IF where = "head" THEN <<[event |-> e, disp |-> disp]>> \o q
    ELSE Append(q, [event |-> e, disp |-> disp])

\* The threads that are going to make an event, and room for one more.
Coming == {t \in Thread : call[t] \in {"insert", "process"} /\ einsert # t}
Room == made + Cardinality(Coming) < MaxEvents

New(name, vec, from) ==
    /\ made' = made + 1
    /\ ev' = [ev EXCEPT ![made + 1] = [name |-> name, vec |-> vec, from |-> from]]

Destroy(e, times) == freed' = [freed EXCEPT ![e] = @ + times]

-----------------------------------------------------------------------------
(* The calls.                                                               *)

Call(t, op) ==
    /\ call[t] = "none"
    /\ call' = [call EXCEPT ![t] = op]
    /\ UNCHANGED <<event_disp, equeue, einsert, cback, work, made, ev, freed>>

Calls ==
    \/ \E t \in Device : Room /\ Call(t, "insert")
    \/ \E op \in AppCalls : (op = "process" => Room) /\ Call(App, op)

Ready(t, op) == call[t] = op /\ einsert = NoThread
Return(t) == call' = [call EXCEPT ![t] = "none"]

Begin(t, at, e) ==
    /\ einsert' = t
    /\ work' = [Resting EXCEPT !.at = at, !.e = e]

\* veDeviceInsertEvent
InsertRuns(t) ==
    /\ Ready(t, "insert") /\ event_disp = "noblock"
    /\ \E name \in Name, vec \in Kinds : New(name, vec, "device")
    /\ Begin(t, "filter", made + 1)
    /\ UNCHANGED <<event_disp, equeue, cback, call, freed>>

InsertDiscards(t) ==
    /\ Ready(t, "insert") /\ event_disp = "discard"
    /\ \E name \in Name, vec \in Kinds : New(name, vec, "device")
    /\ Destroy(made + 1, 1)
    /\ Return(t)
    /\ UNCHANGED <<event_disp, equeue, einsert, cback, work>>

InsertQueues(t) ==
    /\ Ready(t, "insert") /\ event_disp = "queue"
    /\ \E name \in Name, vec \in Kinds : New(name, vec, "device")
    /\ equeue' = Push(equeue, made + 1, "tail", "CONTINUE")
    /\ Return(t)
    /\ UNCHANGED <<event_disp, einsert, cback, work, freed>>

veDeviceBlockEvents(t, disp) ==
    /\ Ready(t, disp)
    /\ event_disp' = disp
    /\ Return(t)
    /\ UNCHANGED <<equeue, einsert, cback, work, made, ev, freed>>

veDeviceUnblockEvents_Lazy(t) ==
    /\ Ready(t, "unblock")
    /\ event_disp' = "noblock"
    /\ Return(t)
    /\ UNCHANGED <<equeue, einsert, cback, work, made, ev, freed>>

veDeviceUnblockEvents(t) ==
    /\ Ready(t, "unblock")
    /\ event_disp' = "noblock"
    /\ Begin(t, "queue", NoEvent)
    /\ UNCHANGED <<equeue, cback, call, made, ev, freed>>

veDeviceProcessQueue(t) ==
    /\ Ready(t, "run")
    /\ Begin(t, "queue", NoEvent)
    /\ UNCHANGED <<event_disp, equeue, cback, call, made, ev, freed>>

\* The event is the caller's, who destroys it afterwards.
veDeviceProcessEvent(t) ==
    /\ Ready(t, "process")
    /\ \E name \in Name, vec \in Kinds : New(name, vec, "app")
    /\ Begin(t, "filter", made + 1)
    /\ UNCHANGED <<event_disp, equeue, cback, call, freed>>

\* No einsert_mutex here.
veDevicePushEvent(where, disp) ==
    /\ call[App] = "none" /\ Room
    /\ \E name \in Name : New(name, FALSE, "app")
    /\ equeue' = Push(equeue, made + 1, where, disp)
    /\ UNCHANGED <<event_disp, einsert, cback, call, work, freed>>

-----------------------------------------------------------------------------
(* veDeviceProcessQueueNolock.                                              *)

NextEvent ==
    /\ work.at = "queue" /\ equeue # <<>>
    /\ work' = [Resting EXCEPT !.e = Head(equeue).event,
                    !.at = IF Head(equeue).disp = "DELIVER" THEN "deliver" ELSE "filter"]
    /\ equeue' = Tail(equeue)
    /\ UNCHANGED <<event_disp, einsert, cback, call, made, ev, freed>>

Unlock == einsert' = NoThread /\ work' = Resting /\ Return(einsert)

QueueEmpty ==
    /\ work.at = "queue" /\ equeue = <<>>
    /\ Unlock
    /\ UNCHANGED <<event_disp, equeue, cback, made, ev, freed>>

GoOn(at) == work' = [work EXCEPT !.at = at]

Processed ==
    /\ work.at = "done"
    /\ Destroy(work.e, 1)
    /\ IF call[einsert] = "process" THEN Unlock
       ELSE work' = [Resting EXCEPT !.at = "queue"] /\ UNCHANGED <<einsert, call>>
    /\ UNCHANGED <<event_disp, equeue, cback, made, ev>>

-----------------------------------------------------------------------------
(* veDeviceFilterProcess.                                                   *)

Matches(e, spec) == spec.name \in {AnyName, ev[e].name}

FiltersDone == work.f > Len(Table)

MatchesFilter == work.f \in DOMAIN Table /\ Matches(work.e, Table[work.f])
Returns(status) == status \in Table[work.f].results

SkipFilter ==
    /\ work.at = "filter" /\ ~FiltersDone /\ ~MatchesFilter
    /\ work' = [work EXCEPT !.f = @ + 1]
    /\ UNCHANGED <<event_disp, equeue, einsert, cback, call, made, ev, freed>>

FilteredOut ==
    /\ work.at = "filter" /\ FiltersDone
    /\ GoOn("deliver")
    /\ UNCHANGED <<event_disp, equeue, einsert, cback, call, made, ev, freed>>

Obey(status) ==
    CASE status = "CONTINUE" -> work' = [work EXCEPT !.f = @ + 1]
      [] status = "RESTART" -> work' = [work EXCEPT !.f = 1]
      [] status = "DELIVER" -> GoOn("deliver")
      [] status \in {"DISCARD", "ERROR"} -> GoOn("done")

OneValuator == ev[work.e].vec /\ Table[work.f].index

\* The filter may rename the event.
Filter(status, name) ==
    /\ work.at = "filter" /\ MatchesFilter /\ ~OneValuator /\ Returns(status)
    /\ ev' = [ev EXCEPT ![work.e].name = name]
    /\ Obey(status)
    /\ UNCHANGED <<event_disp, equeue, einsert, cback, call, made, freed>>

\* "$e push" in a filter's script: a copy of the event, then as above.
FilterPushes(status, where) ==
    /\ work.at = "filter" /\ MatchesFilter /\ ~OneValuator /\ Returns(status) /\ Room
    /\ New(ev[work.e].name, ev[work.e].vec, "filter")
    /\ equeue' = Push(equeue, made + 1, where, "CONTINUE")
    /\ Obey(status)
    /\ UNCHANGED <<event_disp, einsert, cback, call, freed>>

\* A filter for one valuator of a vector: an event ve is made for it, but the
\* filter is given the vector's.  mapped: the two differ in their names.
\* DISCARD runs on into the case of DELIVER.
Mapped(name) == name # ev[work.e].name
SubPushed(status, name) ==
    status = "RESTART" \/ (Mapped(name) /\ status # "ERROR")
SubDisp(status) == IF status \in {"DISCARD", "DELIVER"} THEN "DELIVER" ELSE "CONTINUE"
SubFrees_Forgets(status, name) == IF status = "CONTINUE" /\ ~Mapped(name) THEN 1 ELSE 0
SubFrees(status, name) ==
    IF status = "DISCARD" THEN IF Mapped(name) THEN 1 ELSE 2
    ELSE IF SubPushed(status, name) THEN 0 ELSE 1
SubStatus(status, name) ==
    IF status = "RESTART" \/ (Mapped(name) /\ status # "ERROR") THEN "CONTINUE" ELSE status

FilterValuator(status, name) ==
    /\ work.at = "filter" /\ MatchesFilter /\ OneValuator /\ Returns(status) /\ Room
    /\ made' = made + 1
    /\ ev' = [ev EXCEPT
                ![made + 1] = [name |-> ev[work.e].name, vec |-> FALSE, from |-> "filter"],
                ![work.e].name = name]
    /\ equeue' = IF SubPushed(status, name)
                 THEN Push(equeue, made + 1, "head", SubDisp(status)) ELSE equeue
    /\ Destroy(made + 1, SubFrees(status, name))
    /\ Obey(SubStatus(status, name))
    /\ UNCHANGED <<event_disp, einsert, cback, call>>

-----------------------------------------------------------------------------
(* veDeviceHandleCallback.                                                  *)

\* veDeviceCtrlEvent
ControllerTakes ==
    /\ work.at = "deliver" /\ ev[work.e].name \in Controlled
    /\ Destroy(work.e, 1)
    /\ GoOn("done")
    /\ UNCHANGED <<event_disp, equeue, einsert, cback, call, made, ev>>

ControllersPass ==
    /\ work.at = "deliver"
    /\ GoOn("callback")
    /\ UNCHANGED <<event_disp, equeue, einsert, cback, call, made, ev, freed>>

MatchesCallback == work.c \in DOMAIN Callbacks /\ Matches(work.e, Callbacks[work.c])

SkipCallback ==
    /\ work.at = "callback" /\ work.c <= Len(Callbacks) /\ ~MatchesCallback
    /\ work' = [work EXCEPT !.c = @ + 1]
    /\ UNCHANGED <<event_disp, equeue, einsert, cback, call, made, ev, freed>>

CallbacksDone ==
    /\ work.at = "callback" /\ work.c > Len(Callbacks)
    /\ GoOn("done")
    /\ UNCHANGED <<event_disp, equeue, einsert, cback, call, made, ev, freed>>

CallbackBegins ==
    /\ work.at = "callback" /\ MatchesCallback /\ cback = NoThread
    /\ cback' = einsert
    /\ GoOn("called")
    /\ UNCHANGED <<event_disp, equeue, einsert, call, made, ev, freed>>

CallbackReturns_Locked(abort) ==
    /\ work.at = "called"
    /\ GoOn("done")
    /\ UNCHANGED <<event_disp, equeue, einsert, cback, call, made, ev, freed>>

\* Goes on only after one valuator of a vector, if the callback returned 0.
CallbackReturns(abort) ==
    /\ work.at = "called"
    /\ cback' = NoThread
    /\ IF ev[work.e].vec /\ Callbacks[work.c].index /\ ~abort
       THEN work' = [work EXCEPT !.at = "callback", !.c = @ + 1]
       ELSE GoOn("done")
    /\ UNCHANGED <<event_disp, equeue, einsert, call, made, ev, freed>>

\* A callback of another kind, of the timer thread for one.
OtherCallback ==
    /\ \/ cback = NoThread /\ cback' = Timer
       \/ cback = Timer /\ cback' = NoThread
    /\ UNCHANGED <<event_disp, equeue, einsert, call, work, made, ev, freed>>

-----------------------------------------------------------------------------

Enter(t) ==
    \/ InsertRuns(t) \/ InsertDiscards(t) \/ InsertQueues(t)
    \/ (\E disp \in {"queue", "discard"} : veDeviceBlockEvents(t, disp))
    \/ veDeviceUnblockEvents(t) \/ veDeviceProcessQueue(t) \/ veDeviceProcessEvent(t)

Filtering ==
    \/ SkipFilter \/ FilteredOut
    \/ \E status \in Status, name \in Name : Filter(status, name) \/ FilterValuator(status, name)
    \/ \E status \in Status, where \in {"head", "tail"} : FilterPushes(status, where)

Work ==
    \/ NextEvent \/ QueueEmpty \/ Processed
    \/ Filtering
    \/ ControllerTakes \/ ControllersPass
    \/ SkipCallback \/ CallbacksDone \/ CallbackBegins
    \/ \E abort \in BOOLEAN : CallbackReturns(abort)

Next ==
    \/ Calls \/ (\E t \in Thread : Enter(t))
    \/ (\E where \in {"head", "tail"}, disp \in {"CONTINUE", "DELIVER"} :
            veDevicePushEvent(where, disp))
    \/ Work \/ OtherCallback

Spec == Init /\ [][Next]_vars

\* The holder of the mutex goes on, callbacks return, a thread that waits for
\* a mutex gets it, and an application that blocks events unblocks them.
FairSpec ==
    /\ Spec
    /\ SF_vars(Work) /\ WF_vars(cback = Timer /\ OtherCallback)
    /\ \A t \in Thread : SF_vars(Enter(t))
    /\ SF_vars(event_disp # "noblock" /\ Call(App, "unblock"))

-----------------------------------------------------------------------------
(* Properties.                                                              *)

TypeOK ==
    /\ event_disp \in {"noblock", "discard", "queue"}
    /\ equeue \in Seq([event : Events, disp : {"CONTINUE", "DELIVER"}])
    /\ einsert \in Thread \cup {NoThread} /\ cback \in Thread \cup {Timer, NoThread}
    /\ call \in [Thread -> AppCalls \cup {"none", "insert"}]
    /\ work \in [at : {"none", "queue", "filter", "deliver", "callback", "called", "done"},
                 e : Events \cup {NoEvent}, f : Nat, c : Nat]
    /\ made \in 0 .. MaxEvents
    /\ ev \in [Events -> [name : Name \cup {AnyName}, vec : BOOLEAN,
                          from : {"none", "device", "app", "filter"}]]
    /\ freed \in [Events -> Nat]

InQueue(e) == {i \in DOMAIN equeue : equeue[i].event = e}

\* "The library will take care of freeing resources related to the event at a
\* later point" (ve_device.h:1573-1574): each event made is in the queue once,
\* is being processed, or has been destroyed once; none is lost, and none is
\* destroyed while it is still to be used.
EventsKept ==
    \A e \in 1 .. made :
        \/ freed[e] = 0 /\ work.e = e /\ InQueue(e) = {}
        \/ freed[e] = 0 /\ work.e # e /\ \E i \in InQueue(e) : InQueue(e) = {i}
        \/ freed[e] = 1 /\ work.e # e /\ InQueue(e) = {}

\* "All events are processed in the order that they arrive" (ve_device.h:1556-1557):
\* whatever was blocked and pushed meanwhile, no event of a device is processed
\* while an older one is in the queue.
InOrder ==
    \A i \in DOMAIN equeue :
        work.e # NoEvent /\ ev[work.e].from = "device" /\ ev[equeue[i].event].from = "device"
            => work.e < equeue[i].event

\* Every event of a device is processed or discarded in the end, if it was
\* blocked then once the block is lifted.
EventsDone == \A e \in Events : made >= e /\ ev[e].from = "device" ~> freed[e] > 0

\* A call returns: nobody waits for a mutex for ever.
CallsReturn == \A t \in Thread : call[t] # "none" ~> call[t] = "none"
=============================================================================
