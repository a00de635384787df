--------------------------------- MODULE Nid ---------------------------------
(* Numeric input devices over a connection: libnid's client (nid.c), the    *)
(* server nid_server.c with its joysticks, and what the driver venid.c and  *)
(* the tool nid_snoop.c do with them.  The server is one process that runs  *)
(* one handler at a time; the connection is a stream in each direction.     *)
(* The hand-shake that opens it, and requests that have to do with neither  *)
(* elements nor events, are left out; this server refuses to send events    *)
(* another way (SET_EVENT_SINK), so that they share the connection.         *)
EXTENDS Integers, Sequences, SequencesExt

CONSTANTS
    Device,         \* numbered from 1
    NElems,         \* how many elements each device has
    Programs,       \* the sequences of calls that a client may make at first
    None,
    MaxChanges      \* bound: how often devices change

VARIABLES
    todo,               \* the client: calls it still has to make,
    waiting,            \* the request whose answer it waits for,
    next_request,
    compressed,         \* whether it reads events with DUMP_EVENTS,
    view,               \* the state of each element, as far as it knows,
    got,                \* the events it has handed on,
    answer,             \* and the last answer to QUERY_ELEMENTS
    toServer, toClient, \* the connection
    compress, sent_events_avail, report, state, events,     \* the server
    reported            \* history: the events that it was to report

client == <<todo, waiting, next_request, compressed, view, got, answer>>
server == <<compress, sent_events_avail, report, state, events>>
vars == <<client, toServer, toClient, server, reported>>

\* elemid counts a device's elements from 1
Element == UNION {{d} \X (1 .. NElems[d]) : d \in Device}

RequestTypes ==
    {"ENUM_DEVICES", "ENUM_ELEMENTS", "QUERY_ELEMENTS", "LISTEN_ELEMENTS", "IGNORE_ELEMENTS",
     "COMPRESS_EVENTS", "UNCOMPRESS_EVENTS", "DUMP_EVENTS"}

ASSUME NidAssumption ==
    /\ NElems \in [Device -> Nat \ {0}] /\ MaxChanges \in Nat
    /\ None \notin [request : Nat, type : RequestTypes, body : Seq(Element)]

\* A state of an element: its number is larger the later it is.
Status(e, n) == [elem |-> e, n |-> n]
Junk == Status(None, 0)         \* memory that nobody has set

Packet(req, type, body) == [request |-> req, type |-> type, body |-> body]
Call(type, body) == [type |-> type, body |-> body]

ElementsOf(d) == [j \in 1 .. NElems[d] |-> <<d, j>>]

\* A fault: to query after having asked for events.
ListenThenQuery(d) ==
    << Call("ENUM_ELEMENTS", <<>>),
       Call("LISTEN_ELEMENTS", ElementsOf(d)), Call("QUERY_ELEMENTS", ElementsOf(d)) >>

QueryThenListen(d) ==
    << Call("ENUM_ELEMENTS", <<>>),
       Call("QUERY_ELEMENTS", ElementsOf(d)), Call("LISTEN_ELEMENTS", ElementsOf(d)) >>

\* The driver takes one device, with or without the option "compress".
new_nid_driver(d, option) ==
    (IF option THEN <<Call("COMPRESS_EVENTS", <<>>)>> ELSE <<>>)
        \o <<Call("ENUM_DEVICES", <<>>)>> \o QueryThenListen(d)

\* The tool takes two, one after the other.
nid_snoop(d1, d2) ==
    <<Call("ENUM_DEVICES", <<>>)>> \o QueryThenListen(d1) \o QueryThenListen(d2)

Init ==
    /\ todo \in Programs /\ waiting = None /\ next_request = 1 /\ compressed = FALSE
    /\ view = [e \in Element |-> 0] /\ got = <<>> /\ answer = [asked |-> <<>>, states |-> <<>>]
    /\ toServer = <<>> /\ toClient = <<>>
    /\ compress = FALSE /\ sent_events_avail = FALSE
    /\ report = [d \in Device |-> FALSE] /\ state = [e \in Element |-> 0]
    /\ events = <<>> /\ reported = <<>>

-----------------------------------------------------------------------------
(* The client.                                                              *)

\* Sends a request; its answer is whatever comes with its number.
exchange(call) ==
    /\ waiting = None
    /\ toServer' = Append(toServer, Packet(next_request, call.type, call.body))
    /\ waiting' = Packet(next_request, call.type, call.body)
    /\ next_request' = next_request + 1
    /\ UNCHANGED <<compressed, view, got, answer, toClient, server, reported>>

Start == todo # <<>> /\ exchange(Head(todo)) /\ todo' = Tail(todo)

\* What is known after these states have been read in order.
Latest(v, states) ==
    [e \in Element |->
        LET at == {i \in DOMAIN states : states[i].elem = e}
        IN  IF at = {} THEN v[e] ELSE states[Max(at)].n]

Reads(p) == toClient # <<>> /\ p = Head(toClient) /\ toClient' = Tail(toClient)

Pushes(sl) == got' = got \o sl /\ view' = Latest(view, sl)

\* While it waits for an answer, the client passes over all other packets.
nidReceivePacket_Skips(p) ==
    /\ waiting # None /\ Reads(p) /\ p.request # waiting.request
    /\ UNCHANGED <<client, toServer, server, reported>>

nidReceivePacket_Answer(p) ==
    /\ waiting # None /\ Reads(p) /\ p.request = waiting.request
    /\ waiting' = None
    /\ compressed' = (compressed \/ (waiting.type = "COMPRESS_EVENTS" /\ p.type = "ACK"))
    /\ IF waiting.type = "DUMP_EVENTS" /\ p.type = "ELEMENT_EVENTS" THEN Pushes(p.body)
       ELSE /\ UNCHANGED got
            /\ view' = IF waiting.type = "QUERY_ELEMENTS" THEN Latest(view, p.body) ELSE view
    /\ answer' = IF waiting.type = "QUERY_ELEMENTS"
                 THEN [asked |-> waiting.body, states |-> p.body] ELSE answer
    /\ UNCHANGED <<todo, next_request, toServer, server, reported>>

Listening == todo = <<>> /\ waiting = None

\* nidNextEvents, in the loop of nid_uncompressed_thread or of nid_snoop.
nidNextEvents(p) ==
    /\ Listening /\ ~compressed /\ Reads(p)
    /\ IF p.request = 0 /\ p.type = "ELEMENT_EVENTS" THEN Pushes(p.body) ELSE UNCHANGED <<got, view>>
    /\ UNCHANGED <<todo, waiting, next_request, compressed, answer, toServer, server, reported>>

\* nid_compressed_thread: any packet, and nidDumpEvents if it is the notice.
nid_compressed_thread(p) ==
    /\ Listening /\ compressed /\ Reads(p)
    /\ IF p.type = "EVENTS_AVAIL"
       THEN /\ toServer' = Append(toServer, Packet(next_request, "DUMP_EVENTS", <<>>))
            /\ waiting' = Packet(next_request, "DUMP_EVENTS", <<>>)
            /\ next_request' = next_request + 1
       ELSE UNCHANGED <<toServer, waiting, next_request>>
    /\ UNCHANGED <<todo, compressed, view, got, answer, server, reported>>

ClientStep ==
    \/ Start
    \/ \E p \in Range(toClient) :
        \/ nidReceivePacket_Skips(p) \/ nidReceivePacket_Answer(p)
        \/ nidNextEvents(p) \/ nid_compressed_thread(p)

-----------------------------------------------------------------------------
(* The server.                                                              *)

\* The client has not been told yet that there are events.
Notice(s) == compress /\ ~sent_events_avail

nidServer_addEvent(s) ==
    /\ toClient' = IF Notice(s) THEN Append(toClient, Packet(0, "EVENTS_AVAIL", <<>>)) ELSE toClient
    /\ sent_events_avail' = (sent_events_avail \/ Notice(s))
    /\ events' = Append(events, s)
    /\ reported' = Append(reported, s)

\* js_handler: an element of a joystick changes, or the kernel tells how it is
\* at first, which is not reported.
js_handler(e, is_init) ==
    /\ LET n == Max(Range(state)) + 1
       IN  /\ n <= MaxChanges /\ state' = [state EXCEPT ![e] = n]
           /\ IF ~is_init /\ report[e[1]] THEN nidServer_addEvent(Status(e, n))
              ELSE UNCHANGED <<toClient, sent_events_avail, events, reported>>
    /\ UNCHANGED <<client, toServer, compress, report>>

\* A fault: the notice is not forgotten when the events have gone.
Flushed_Noticed(req) ==
    IF events = <<>> THEN UNCHANGED <<toClient, sent_events_avail, events>>
    ELSE /\ toClient' = Append(toClient, Packet(req, "ELEMENT_EVENTS", events))
         /\ events' = <<>> /\ UNCHANGED sent_events_avail

\* A fault: the events stay.
Flushed_Twice(req) ==
    IF events = <<>> THEN UNCHANGED <<toClient, sent_events_avail, events>>
    ELSE /\ toClient' = Append(toClient, Packet(req, "ELEMENT_EVENTS", events))
         /\ sent_events_avail' = FALSE
         /\ events' = IF Len(events) > 1 THEN <<Last(events)>> ELSE <<>>

\* nidServer_flushEvents: nothing at all is sent if there are no events.
Flushed(req) ==
    IF events = <<>> THEN UNCHANGED <<toClient, sent_events_avail, events>>
    ELSE /\ toClient' = Append(toClient, Packet(req, "ELEMENT_EVENTS", events))
         /\ events' = <<>> /\ sent_events_avail' = FALSE

\* A fault: also with a client that asks for its events.
main_Update_Always ==
    /\ events # <<>> /\ Flushed(0)
    /\ UNCHANGED <<client, toServer, compress, report, state, reported>>

\* The loop in main, when the time for an update has come.
main_Update ==
    /\ ~compress /\ events # <<>> /\ Flushed(0)
    /\ UNCHANGED <<client, toServer, compress, report, state, reported>>

Hits(asked) == {i \in DOMAIN asked : asked[i] \in Element}

\* A fault: the element's identifier is taken for its index.
Place_Id(e) == e[2] + 1

\* Where in an answer the state of an element goes: where the device has it.
Place(e) == e[2]

Answer(asked) ==
    [k \in 1 .. Cardinality(Hits(asked)) |->
        LET at == {i \in Hits(asked) : Place(asked[i]) = k}
        IN  IF at = {} THEN Junk ELSE LET e == asked[Max(at)] IN Status(e, state[e])]

Replies(p, type, body) == toClient' = Append(toClient, Packet(p.request, type, body))

\* One request.  What LISTEN_ELEMENTS or IGNORE_ELEMENTS asks for one element
\* of a joystick is done to all of it (linux_server_report).
proc_pkt ==
    /\ toServer # <<>> /\ toServer' = Tail(toServer)
    /\ LET p == Head(toServer)
       IN  \/ /\ p.type \in {"ENUM_DEVICES", "ENUM_ELEMENTS"} /\ Replies(p, "LIST", <<>>)
              /\ UNCHANGED <<compress, sent_events_avail, report, events>>
           \/ /\ p.type = "QUERY_ELEMENTS" /\ Replies(p, "ELEMENT_STATES", Answer(p.body))
              /\ UNCHANGED <<compress, sent_events_avail, report, events>>
           \/ /\ p.type \in {"LISTEN_ELEMENTS", "IGNORE_ELEMENTS"}
              /\ report' = [d \in Device |->
                    IF \E i \in DOMAIN p.body : p.body[i][1] = d THEN p.type = "LISTEN_ELEMENTS"
                    ELSE report[d]]
              /\ Replies(p, "ACK", <<>>) /\ UNCHANGED <<compress, sent_events_avail, events>>
           \/ /\ p.type \in {"COMPRESS_EVENTS", "UNCOMPRESS_EVENTS"}
              /\ compress' = (p.type = "COMPRESS_EVENTS")
              /\ sent_events_avail' = (sent_events_avail /\ p.type # "COMPRESS_EVENTS")
              /\ Replies(p, "ACK", <<>>) /\ UNCHANGED <<report, events>>
           \/ /\ p.type = "DUMP_EVENTS"
              /\ IF compress THEN Flushed(p.request)
                 ELSE Replies(p, "NAK", <<>>) /\ UNCHANGED <<sent_events_avail, events>>
              /\ UNCHANGED <<compress, report>>
    /\ UNCHANGED <<client, state, reported>>

Next == ClientStep \/ proc_pkt \/ main_Update \/ \E e \in Element, is_init \in BOOLEAN : js_handler(e, is_init)

Spec == Init /\ [][Next]_vars

\* The client's loop and the server's go on; devices need not change.
FairSpec == Spec /\ WF_vars(ClientStep) /\ WF_vars(proc_pkt) /\ WF_vars(main_Update)

-----------------------------------------------------------------------------
(* Properties.                                                              *)

\* The events that go with a packet.
Carried(p) == IF p.type = "ELEMENT_EVENTS" THEN p.body ELSE <<>>

\* Each event that the server was to report (nid_server_linux.c:62-63, 77-78)
\* has been handed on by the client, is on its way, or is in the server's
\* buffer, once and in order, as their numbers tell: none goes with a packet
\* that an exchange passes over ("this is not necessarily good",
\* nid.c:189-191).
NothingSkipped ==
    LET parts == <<got>> \o [i \in DOMAIN toClient |-> Carried(toClient[i])] \o <<events>>
    IN  /\ Range(reported) = UNION {Range(parts[i]) : i \in DOMAIN parts}
        /\ \A i, j \in DOMAIN parts : \A a \in DOMAIN parts[i], b \in DOMAIN parts[j] :
              (i < j \/ (i = j /\ a < b)) => parts[i][a].n < parts[j][b].n

\* An answer to QUERY_ELEMENTS has the states of the elements that were asked
\* for ("Retrieves the state of the specified set of elements.  The elements
\* can be from different devices or the same device", nid.h:651-652).
AnswersWhatIsAsked ==
    /\ Len(answer.states) = Len(answer.asked)
    /\ \A i \in DOMAIN answer.states : answer.states[i].elem = answer.asked[i]

\* What the client knows of an element never goes back to an older state, and
\* each event that it hands on is newer than that: no event waits in the
\* server's buffer and comes after an answer that had it, or a later one.
ViewGoesForward ==
    [][/\ \A e \in Element : view'[e] >= view[e]
       /\ \A i \in DOMAIN got' : i > Len(got) => got'[i].n > view[got'[i].elem]]_vars

\* nidDumpEvents returns ("The set of states returned, or NULL if there is an
\* error, or no states are available", nid.h:874-875).
DumpReturns == (waiting # None /\ waiting.type = "DUMP_EVENTS") ~> (waiting = None)

\* Each event that the server was to report is handed on in the end, with
\* DUMP_EVENTS as well as without.
AllArrive == \A n \in 1 .. MaxChanges : (Len(reported) >= n) ~> (Len(got) >= n)
=============================================================================
