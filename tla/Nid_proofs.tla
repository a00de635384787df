------------------------------ MODULE Nid_proofs ------------------------------
(* Proofs about Nid: what is asked for is answered, for any program that    *)
(* asks for whole devices; and with the driver's program no event is lost,  *)
(* repeated or out of order, what the client knows never goes back, and     *)
(* every event that waits has a notice or a request on its way.             *)
EXTENDS Nid, FiniteSetTheorems, SequenceTheorems, WellFoundedInduction, TLAPS

-----------------------------------------------------------------------------
(* What is assumed of the programs.                                         *)

\* Calls that ask for all the elements of a device, in the device's order.
Calls == {c \in [type : RequestTypes, body : Seq(Element)] :
            c.type = "QUERY_ELEMENTS" => \E d \in Device : c.body = ElementsOf(d)}

\* The driver's calls, the first of which it leaves out without "compress".
DriverCalls(d) == <<Call("COMPRESS_EVENTS", <<>>), Call("ENUM_DEVICES", <<>>)>> \o QueryThenListen(d)

\* The last k of them.
Remaining(d, k) == [i \in 1 .. k |-> DriverCalls(d)[5 - k + i]]

WholeDevices == Programs \in SUBSET Seq(Calls)
DriverOnly == Programs \subseteq {new_nid_driver(d, option) : d \in Device, option \in BOOLEAN}

-----------------------------------------------------------------------------
(* The invariant for any program.                                           *)

Statuses == [elem : Element, n : 0 .. MaxChanges]

Requests == [request : Nat \ {0}, type : RequestTypes, body : Seq(Element)]

Packets == [request : Nat, body : Seq(Statuses),
            type : {"LIST", "ACK", "NAK", "ELEMENT_STATES", "ELEMENT_EVENTS", "EVENTS_AVAIL"}]

TypeOK ==
    /\ todo \in Seq(Calls) /\ waiting \in {None} \cup Requests /\ next_request \in Nat \ {0}
    /\ compressed \in BOOLEAN /\ view \in [Element -> Nat]
    /\ got \in Seq(Statuses) /\ answer \in [asked : Seq(Element), states : Seq(Statuses)]
    /\ toServer \in Seq(Requests) /\ toClient \in Seq(Packets)
    /\ compress \in BOOLEAN /\ sent_events_avail \in BOOLEAN
    /\ report \in [Device -> BOOLEAN] /\ state \in [Element -> 0 .. MaxChanges]
    /\ events \in Seq(Statuses) /\ reported \in Seq(Statuses)

\* These are the states of the elements that were asked for.
Answers(asked, states) ==
    /\ Len(states) = Len(asked)
    /\ \A i \in DOMAIN states : states[i].elem = asked[i]

\* One request at a time, whose number nothing else has.
Unanswered == waiting # None /\ toServer = <<waiting>>
ExchangeInv ==
    /\ toServer = <<>> \/ Unanswered
    /\ waiting # None =>
        /\ waiting.request < next_request
        /\ waiting.type = "QUERY_ELEMENTS" => \E d \in Device : waiting.body = ElementsOf(d)
    /\ \A i \in DOMAIN toClient :
        /\ toClient[i].request < next_request
        /\ waiting # None /\ toClient[i].request = waiting.request =>
            /\ toServer = <<>>
            /\ waiting.type = "QUERY_ELEMENTS" => Answers(waiting.body, toClient[i].body)

\* Nobody knows more than the server.
Known(sl) == \A a \in DOMAIN sl : sl[a].n <= state[sl[a].elem]
KnownInv ==
    /\ \A e \in Element : view[e] <= state[e]
    /\ Known(got) /\ Known(events) /\ \A i \in DOMAIN toClient : Known(toClient[i].body)

GInv == TypeOK /\ ExchangeInv /\ AnswersWhatIsAsked /\ KnownInv

-----------------------------------------------------------------------------
(* The invariant for the driver.                                            *)

\* How far the driver is.
StageInv ==
    /\ \E d \in Device : \E k \in 0 .. 5 : todo = Remaining(d, k)
    /\ waiting # None =>
        \/ Len(todo) = 4 /\ waiting.type = "COMPRESS_EVENTS"
        \/ Len(todo) \in {2, 3} /\ waiting.type \in {"ENUM_DEVICES", "ENUM_ELEMENTS"}
        \/ Len(todo) = 1 /\ waiting.type = "QUERY_ELEMENTS"
        \/ Len(todo) = 0 /\ waiting.type = "LISTEN_ELEMENTS"
        \/ Len(todo) = 0 /\ waiting.type = "DUMP_EVENTS" /\ compressed

\* The answer comes first, and before a request is served nothing comes.
Answered == waiting # None /\ toServer = <<>>
FirstInv ==
    /\ Unanswered => toClient = <<>>
    /\ Answered => toClient # <<>>
    /\ \A i \in DOMAIN toClient :
        IF Answered /\ i = 1
        THEN /\ toClient[i].request = waiting.request /\ toClient[i].type # "EVENTS_AVAIL"
             /\ waiting.type = "COMPRESS_EVENTS" => toClient[i].type = "ACK"
             /\ toClient[i].type = "ELEMENT_EVENTS" <=> waiting.type = "DUMP_EVENTS"
        ELSE /\ toClient[i].request = 0
             /\ toClient[i].type = IF compress THEN "EVENTS_AVAIL" ELSE "ELEMENT_EVENTS"

\* Before LISTEN_ELEMENTS has been served nothing is reported.
Silent == Len(todo) > 0 \/ (Unanswered /\ waiting.type = "LISTEN_ELEMENTS")
SilentInv ==
    /\ Silent => /\ report = [d \in Device |-> FALSE]
                 /\ reported = <<>> /\ got = <<>> /\ events = <<>>
                 /\ \A i \in DOMAIN toClient : Answered /\ i = 1
    /\ (Len(todo) > 1 \/ (Len(todo) = 1 /\ waiting # None)) => view = [e \in Element |-> 0]

\* Both ends agree on who sends events when.
CompressInv == compress <=> compressed \/ (Answered /\ waiting.type = "COMPRESS_EVENTS")

\* Of the notice: it is on its way, or has been read and the request for the
\* events is on its way, whenever there are events.
NoticeSent == toClient # <<>> /\ toClient[Len(toClient)].type = "EVENTS_AVAIL"
Dumps == Unanswered /\ waiting.type = "DUMP_EVENTS"
NoticeInv ==
    /\ sent_events_avail <=> (compress /\ events # <<>>)
    /\ sent_events_avail <=> (NoticeSent \/ Dumps)
    /\ \A i \in DOMAIN toClient : toClient[i].type = "EVENTS_AVAIL" => i = Len(toClient)

\* The events in the order of their numbers, and after what the client knows.
Ascending(s) == \A a, b \in DOMAIN s : a < b => s[a].n < s[b].n
Precedes(s, t) == \A a \in DOMAIN s, b \in DOMAIN t : s[a].n < t[b].n
Newer(s) == \A a \in DOMAIN s : \A e \in Element : view[e] < s[a].n
InTransit(i) == Carried(toClient[i])
OrderInv ==
    /\ Range(reported) = Range(got) \cup Range(events)
                            \cup UNION {Range(InTransit(i)) : i \in DOMAIN toClient}
    /\ Ascending(got) /\ Ascending(events) /\ Precedes(got, events) /\ Newer(events)
    /\ \A i \in DOMAIN toClient :
        /\ Ascending(InTransit(i)) /\ Newer(InTransit(i))
        /\ Precedes(got, InTransit(i)) /\ Precedes(InTransit(i), events)
    /\ \A i, j \in DOMAIN toClient : i < j => Precedes(InTransit(i), InTransit(j))

DriverInv == StageInv /\ FirstInv /\ SilentInv /\ CompressInv /\ NoticeInv /\ OrderInv
IInv == GInv /\ DriverInv

-----------------------------------------------------------------------------
(* Facts about the operators.                                               *)

\* A set of numbers with a bound has a largest element: the shortest interval
\* from 0 that holds the set ends with it.
LEMMA MaxOfBounded ==
    ASSUME NEW S \in SUBSET Nat, S # {}, NEW b \in Nat, \A x \in S : x <= b
    PROVE  Max(S) \in S /\ \A x \in S : x <= Max(S)
<1> DEFINE Holding == {I \in SUBSET (0 .. b) : \E k \in Nat : I = 0 .. k /\ S \subseteq I}
           R == StrictSubsetOrdering(0 .. b)
<1>1. IsFiniteSet(0 .. b)
  BY FS_Interval
<1>2. IsWellFoundedOn(R, SUBSET (0 .. b))
  BY <1>1, FS_StrictSubsetOrderingWellFounded, FS_FiniteSubsetsOfFinite
<1>3. (0 .. b) \in Holding
  OBVIOUS
<1>4. Holding \subseteq SUBSET (0 .. b) /\ Holding # {}
  BY <1>3
<1>5. PICK I \in Holding : \A J \in Holding : <<J, I>> \notin R
  <2> HIDE DEF Holding, R
  <2> QED
    BY <1>2, <1>4, WFMin
<1>6. PICK k \in Nat : I = 0 .. k /\ S \subseteq I
  BY <1>5
<1>7. \A x \in S : x <= k
  BY <1>6
<1>8. k \in S
  <2>1. SUFFICES ASSUME k \notin S PROVE FALSE
    OBVIOUS
  <2>2. \A x \in S : x \in Nat /\ x <= k - 1
    BY <1>7, <2>1
  <2>3. k - 1 \in Nat
    <3>1. PICK x \in S : TRUE
      OBVIOUS
    <3> QED
      BY <2>2, <3>1
  <2>4. (0 .. k - 1) \in Holding
    BY <1>5, <1>6, <2>2, <2>3
  <2>5. <<0 .. k - 1, I>> \in R
    <3>1. 0 .. k - 1 \subseteq I /\ k \in I /\ k \notin 0 .. k - 1
      BY <1>6
    <3> QED
      BY <1>5, <2>4, <3>1 DEF StrictSubsetOrdering
  <2> QED
    BY <1>5, <2>4, <2>5
<1>9. \E x \in S : \A y \in S : x >= y
  BY <1>7, <1>8
<1> QED
  BY <1>9 DEF Max

\* The newest of the states of an element, or what was known before.
LEMMA LatestIsOneOf ==
    ASSUME NEW v \in [Element -> Nat], NEW sl \in Seq(Statuses)
    PROVE  /\ Latest(v, sl) \in [Element -> Nat]
           /\ \A e \in Element :
                \/ Latest(v, sl)[e] = v[e] /\ \A i \in DOMAIN sl : sl[i].elem # e
                \/ \E i \in DOMAIN sl : sl[i].elem = e /\ Latest(v, sl)[e] = sl[i].n
<1> SUFFICES ASSUME NEW e \in Element
             PROVE  /\ Latest(v, sl)[e] \in Nat
                    /\ \/ Latest(v, sl)[e] = v[e] /\ \A i \in DOMAIN sl : sl[i].elem # e
                       \/ \E i \in DOMAIN sl : sl[i].elem = e /\ Latest(v, sl)[e] = sl[i].n
  BY DEF Latest
<1> DEFINE at == {i \in DOMAIN sl : sl[i].elem = e}
<1>1. Latest(v, sl)[e] = IF at = {} THEN v[e] ELSE sl[Max(at)].n
  BY DEF Latest
<1>2. CASE at = {}
  BY <1>1, <1>2
<1>3. CASE at # {}
  <2>1. Len(sl) \in Nat /\ DOMAIN sl = 1 .. Len(sl) /\ \A i \in 1 .. Len(sl) : sl[i] \in Statuses
    BY LenProperties, ElementOfSeq
  <2>2. at \in SUBSET Nat /\ \A i \in at : i <= Len(sl)
    BY <2>1
  <2>3. Max(at) \in at
    <3> HIDE DEF at
    <3> QED
      BY <1>3, <2>1, <2>2, MaxOfBounded
  <2>4. Max(at) \in DOMAIN sl /\ sl[Max(at)].elem = e /\ sl[Max(at)].n \in Nat
    BY <2>1, <2>3, NidAssumption DEF Statuses
  <2> QED
    BY <1>1, <1>3, <2>4
<1> QED
  BY <1>2, <1>3

\* The elements of a device.
LEMMA DeviceElements ==
    ASSUME NEW d \in Device
    PROVE  /\ NElems[d] \in Nat \ {0}
           /\ ElementsOf(d) \in Seq(Element) /\ Len(ElementsOf(d)) = NElems[d]
           /\ DOMAIN ElementsOf(d) = 1 .. NElems[d]
           /\ \A j \in 1 .. NElems[d] : ElementsOf(d)[j] = <<d, j>> /\ <<d, j>> \in Element
<1>1. NElems[d] \in Nat \ {0}
  BY NidAssumption
<1>2. \A j \in 1 .. NElems[d] : <<d, j>> \in Element
  BY <1>1 DEF Element
<1>3. ElementsOf(d) \in [1 .. NElems[d] -> Element]
  BY <1>2 DEF ElementsOf
<1>4. ElementsOf(d) \in Seq(Element)
  BY <1>1, <1>3, SeqDef
<1> QED
  BY <1>1, <1>2, <1>3, <1>4, LenProperties DEF ElementsOf

\* What is answered about a whole device.
LEMMA AnswerForDevice ==
    ASSUME NEW d \in Device, state \in [Element -> 0 .. MaxChanges]
    PROVE  /\ Answer(ElementsOf(d)) \in Seq(Statuses)
           /\ Answers(ElementsOf(d), Answer(ElementsOf(d)))
           /\ \A s \in Range(Answer(ElementsOf(d))) : s.n = state[s.elem]
<1> DEFINE asked == ElementsOf(d)  N == NElems[d]
           at(k) == {i \in Hits(asked) : Place(asked[i]) = k}
<1>1. /\ N \in Nat \ {0} /\ Len(asked) = N /\ DOMAIN asked = 1 .. N
      /\ \A j \in 1 .. N : asked[j] = <<d, j>> /\ <<d, j>> \in Element
  BY DeviceElements
<1>2. Hits(asked) = 1 .. N
  BY <1>1 DEF Hits
<1>3. Cardinality(Hits(asked)) = N
  BY <1>1, <1>2, FS_Interval
<1>4. ASSUME NEW k \in 1 .. N
      PROVE  at(k) = {k}
  <2>1. ASSUME NEW i \in Hits(asked)
        PROVE  Place(asked[i]) = i
    <3>1. asked[i] = <<d, i>>
      BY <1>1, <1>2
    <3> HIDE DEF asked
    <3> QED
      BY <3>1 DEF Place
  <2> QED
    BY <1>2, <2>1
<1>5. ASSUME NEW k \in Nat
      PROVE  Max({k}) = k
  BY DEF Max
<1>6. Answer(asked) = [k \in 1 .. N |-> Status(<<d, k>>, state[<<d, k>>])]
  <2>1. Answer(asked) = [k \in 1 .. N |->
            IF at(k) = {} THEN Junk ELSE Status(asked[Max(at(k))], state[asked[Max(at(k))]])]
    BY <1>3 DEF Answer
  <2>2. ASSUME NEW k \in 1 .. N
        PROVE  (IF at(k) = {} THEN Junk ELSE Status(asked[Max(at(k))], state[asked[Max(at(k))]]))
                    = Status(<<d, k>>, state[<<d, k>>])
    <3>1. at(k) # {} /\ Max(at(k)) = k
      BY <1>4, <1>5
    <3> HIDE DEF at
    <3> QED
      BY <1>1, <3>1
  <2> HIDE DEF at
  <2> QED
    BY <2>1, <2>2
<1>7. Answer(asked) \in [1 .. N -> Statuses]
  BY <1>1, <1>6 DEF Statuses, Status
<1>8. Answer(asked) \in Seq(Statuses)
  BY <1>1, <1>7, SeqDef
<1>9. Len(Answer(asked)) = N
  BY <1>1, <1>6, <1>8, LenProperties
<1>10. \A k \in 1 .. N : Answer(asked)[k].elem = <<d, k>> /\ Answer(asked)[k].n = state[<<d, k>>]
  BY <1>6 DEF Status
<1>11. Answers(asked, Answer(asked))
  BY <1>1, <1>7, <1>9, <1>10 DEF Answers
<1>12. \A s \in Range(Answer(asked)) : s.n = state[s.elem]
  BY <1>7, <1>10 DEF Range
<1> QED
  BY <1>8, <1>11, <1>12

\* The client takes the first packet.
LEMMA ReadsFirst ==
    ASSUME TypeOK, NEW p, Reads(p)
    PROVE  /\ Len(toClient) \in Nat \ {0} /\ DOMAIN toClient = 1 .. Len(toClient)
           /\ p = toClient[1] /\ p \in Packets
           /\ \A i \in DOMAIN toClient : toClient[i] \in Packets
           /\ toClient' \in Seq(Packets) /\ Len(toClient') = Len(toClient) - 1
           /\ DOMAIN toClient' = 1 .. Len(toClient) - 1
           /\ \A i \in DOMAIN toClient' : toClient'[i] = toClient[i + 1] /\ i + 1 \in DOMAIN toClient
<1>1. toClient \in Seq(Packets) /\ toClient # <<>>
  BY DEF TypeOK, Reads
<1>2. /\ Len(toClient) \in Nat \ {0} /\ DOMAIN toClient = 1 .. Len(toClient)
      /\ \A i \in DOMAIN toClient : toClient[i] \in Packets
  BY <1>1, LenProperties, EmptySeq, ElementOfSeq
<1>3. p = toClient[1]
  BY <1>1 DEF Reads
<1>4. /\ toClient' \in Seq(Packets) /\ Len(toClient') = Len(toClient) - 1
      /\ \A i \in 1 .. Len(toClient') : toClient'[i] = toClient[i + 1]
  BY <1>1, HeadTailProperties DEF Reads
<1>5. DOMAIN toClient' = 1 .. Len(toClient')
  BY <1>4, LenProperties
<1> QED
  BY <1>2, <1>3, <1>4, <1>5

\* The server adds one at the end.
LEMMA SendsLast ==
    ASSUME TypeOK, NEW p \in Packets, toClient' = Append(toClient, p)
    PROVE  /\ Len(toClient) \in Nat /\ DOMAIN toClient = 1 .. Len(toClient)
           /\ \A i \in DOMAIN toClient : toClient[i] \in Packets
           /\ toClient' \in Seq(Packets) /\ Len(toClient') = Len(toClient) + 1
           /\ DOMAIN toClient' = 1 .. Len(toClient) + 1
           /\ \A i \in DOMAIN toClient : toClient'[i] = toClient[i]
           /\ toClient'[Len(toClient) + 1] = p
<1>1. toClient \in Seq(Packets)
  BY DEF TypeOK
<1>2. /\ Len(toClient) \in Nat /\ DOMAIN toClient = 1 .. Len(toClient)
      /\ \A i \in DOMAIN toClient : toClient[i] \in Packets
  BY <1>1, LenProperties, ElementOfSeq
<1>3. /\ toClient' \in Seq(Packets) /\ Len(toClient') = Len(toClient) + 1
      /\ \A i \in 1 .. Len(toClient) : toClient'[i] = toClient[i]
      /\ toClient'[Len(toClient) + 1] = p
  BY <1>1, AppendProperties
<1>4. DOMAIN toClient' = 1 .. Len(toClient')
  BY <1>3, LenProperties
<1> QED
  BY <1>2, <1>3, <1>4

\* What is joined to a sequence of states comes after it.
LEMMA Joined ==
    ASSUME NEW s \in Seq(Statuses), NEW t \in Seq(Statuses)
    PROVE  /\ s \o t \in Seq(Statuses)
           /\ Len(s) \in Nat /\ DOMAIN s = 1 .. Len(s) /\ \A i \in DOMAIN s : s[i] \in Statuses
           /\ Len(t) \in Nat /\ DOMAIN t = 1 .. Len(t) /\ \A i \in DOMAIN t : t[i] \in Statuses
           /\ Len(s \o t) = Len(s) + Len(t) /\ DOMAIN (s \o t) = 1 .. Len(s) + Len(t)
           /\ \A i \in DOMAIN s : (s \o t)[i] = s[i]
           /\ \A i \in DOMAIN (s \o t) \ DOMAIN s : (s \o t)[i] = t[i - Len(s)] /\ i - Len(s) \in DOMAIN t
           /\ Range(s \o t) = Range(s) \cup Range(t)
<1>1. /\ Len(s) \in Nat /\ DOMAIN s = 1 .. Len(s) /\ \A i \in DOMAIN s : s[i] \in Statuses
      /\ Len(t) \in Nat /\ DOMAIN t = 1 .. Len(t) /\ \A i \in DOMAIN t : t[i] \in Statuses
  BY LenProperties, ElementOfSeq
<1>2. /\ s \o t \in Seq(Statuses) /\ Len(s \o t) = Len(s) + Len(t)
      /\ \A i \in 1 .. Len(s) + Len(t) : (s \o t)[i] = IF i <= Len(s) THEN s[i] ELSE t[i - Len(s)]
  BY ConcatProperties
<1>3. DOMAIN (s \o t) = 1 .. Len(s) + Len(t)
  BY <1>2, LenProperties
<1>4. Range(s \o t) = Range(s) \cup Range(t)
  BY RangeConcatenation
<1> QED
  BY <1>1, <1>2, <1>3, <1>4

-----------------------------------------------------------------------------
(* Any program of calls for whole devices: the first invariant is inductive. *)

LEMMA GInit ==
    ASSUME WholeDevices, Init
    PROVE  GInv
<1>1. /\ todo \in Seq(Calls) /\ <<>> \in Seq(Statuses) /\ <<>> \in Seq(Element)
      /\ <<>> \in Seq(Requests) /\ <<>> \in Seq(Packets)
  BY EmptySeq DEF WholeDevices, Init
<1>2. 0 \in 0 .. MaxChanges /\ 0 \in Nat /\ 1 \in Nat \ {0}
  BY NidAssumption
<1>3. TypeOK
  BY <1>1, <1>2 DEF Init, TypeOK
<1>4. ExchangeInv /\ AnswersWhatIsAsked /\ KnownInv
  BY <1>2 DEF Init, ExchangeInv, AnswersWhatIsAsked, KnownInv, Known
<1> QED
  BY <1>3, <1>4 DEF GInv

\* A packet is not None.
LEMMA PacketIsSome == None \notin Requests
<1>1. \A r \in Requests : r \in [request : Nat, type : RequestTypes, body : Seq(Element)]
  BY DEF Requests
<1> QED
  BY <1>1, NidAssumption

\* The client sends a request, and may have read a packet for that.
LEMMA GSends ==
    ASSUME GInv, NEW call \in Calls, waiting = None, todo' \in Seq(Calls),
           waiting' = Packet(next_request, call.type, call.body),
           toServer' = Append(toServer, waiting'), next_request' = next_request + 1,
           toClient' \in Seq(Packets),
           \A i \in DOMAIN toClient' : \E j \in DOMAIN toClient : toClient'[i] = toClient[j],
           UNCHANGED <<compressed, view, got, answer, server, reported>>
    PROVE  GInv'
<1> TypeOK /\ ExchangeInv /\ AnswersWhatIsAsked /\ KnownInv
  BY DEF GInv
<1>1. waiting' \in Requests /\ waiting' # None
  <2>1. call.type \in RequestTypes /\ call.body \in Seq(Element)
    BY DEF Calls
  <2> QED
    BY <2>1, PacketIsSome DEF TypeOK, Packet, Requests
<1>2. toServer' = <<waiting'>>
  <2>1. toServer = <<>>
    BY DEF ExchangeInv, Unanswered
  <2> QED
    BY <2>1
<1>3. TypeOK'
  BY <1>1, <1>2 DEF TypeOK, server
<1>4. \A i \in DOMAIN toClient' : toClient'[i].request < next_request
  BY DEF ExchangeInv
<1>5. \A i \in DOMAIN toClient' : toClient'[i].request \in Nat
  <2>1. \A i \in DOMAIN toClient' : toClient'[i] \in Packets
    BY LenProperties, ElementOfSeq
  <2> QED
    BY <2>1 DEF Packets
<1>6. ExchangeInv'
  <2>1. waiting'.request = next_request /\ waiting'.type = call.type /\ waiting'.body = call.body
    BY DEF Packet
  <2>2. call.type = "QUERY_ELEMENTS" => \E d \in Device : call.body = ElementsOf(d)
    BY DEF Calls
  <2>3. /\ waiting'.request < next_request'
        /\ waiting'.type = "QUERY_ELEMENTS" => \E d \in Device : waiting'.body = ElementsOf(d)
    BY <2>1, <2>2 DEF TypeOK
  <2>4. ASSUME NEW i \in DOMAIN toClient'
        PROVE  toClient'[i].request < next_request' /\ toClient'[i].request # waiting'.request
    BY <1>4, <1>5, <2>1 DEF TypeOK
  <2> QED
    BY <1>1, <1>2, <2>3, <2>4 DEF ExchangeInv, Unanswered
<1>7. AnswersWhatIsAsked'
  BY DEF AnswersWhatIsAsked
<1>8. KnownInv'
  BY DEF KnownInv, Known, server
<1> QED
  BY <1>3, <1>6, <1>7, <1>8 DEF GInv

LEMMA GStart ==
    ASSUME GInv, Start
    PROVE  GInv'
<1>1. Head(todo) \in Calls /\ todo' \in Seq(Calls)
  BY HeadTailProperties DEF GInv, TypeOK, Start
<1>2. /\ toClient' \in Seq(Packets)
      /\ \A i \in DOMAIN toClient' : \E j \in DOMAIN toClient : toClient'[i] = toClient[j]
  BY DEF GInv, TypeOK, Start, exchange
<1> QED
  BY <1>1, <1>2, GSends DEF Start, exchange

\* Packets that are left are those that were there.
LEMMA ReadsLeaves ==
    ASSUME TypeOK, NEW p, Reads(p)
    PROVE  /\ toClient' \in Seq(Packets)
           /\ \A i \in DOMAIN toClient' : \E j \in DOMAIN toClient : toClient'[i] = toClient[j]
<1> QED
  BY ReadsFirst

\* The client reads a packet that changes nothing else.
LEMMA GPasses ==
    ASSUME GInv, NEW p, Reads(p), UNCHANGED <<client, toServer, server, reported>>
    PROVE  GInv'
<1> TypeOK /\ ExchangeInv /\ AnswersWhatIsAsked /\ KnownInv
  BY DEF GInv
<1>1. /\ toClient' \in Seq(Packets)
      /\ \A i \in DOMAIN toClient' : \E j \in DOMAIN toClient : toClient'[i] = toClient[j]
  BY ReadsLeaves
<1>2. TypeOK'
  BY <1>1 DEF TypeOK, client, server
<1>3. ExchangeInv'
  BY <1>1 DEF ExchangeInv, Unanswered, client
<1>4. AnswersWhatIsAsked' /\ KnownInv'
  BY <1>1 DEF AnswersWhatIsAsked, KnownInv, Known, client, server
<1> QED
  BY <1>2, <1>3, <1>4 DEF GInv

\* Reading states that the server had.
LEMMA KnownLatest ==
    ASSUME TypeOK, KnownInv, NEW sl \in Seq(Statuses), Known(sl)
    PROVE  /\ Latest(view, sl) \in [Element -> Nat]
           /\ \A e \in Element : Latest(view, sl)[e] <= state[e]
           /\ got \o sl \in Seq(Statuses) /\ Known(got \o sl)
<1>1. view \in [Element -> Nat] /\ got \in Seq(Statuses) /\ state \in [Element -> 0 .. MaxChanges]
  BY DEF TypeOK
<1>2. ASSUME NEW e \in Element
      PROVE  Latest(view, sl)[e] <= state[e]
  BY <1>1, LatestIsOneOf DEF KnownInv, Known
<1>3. Known(got \o sl)
  <2>1. Known(got)
    BY DEF KnownInv
  <2>2. ASSUME NEW a \in DOMAIN (got \o sl)
        PROVE  (got \o sl)[a].n <= state[(got \o sl)[a].elem]
    <3>1. CASE a \in DOMAIN got
      BY <1>1, <2>1, <3>1, Joined DEF Known
    <3>2. CASE a \notin DOMAIN got
      BY <1>1, <3>2, Joined DEF Known
    <3> QED
      BY <3>1, <3>2
  <2> QED
    BY <2>2 DEF Known
<1> QED
  BY <1>1, <1>2, <1>3, LatestIsOneOf, Joined

LEMMA GAnswer ==
    ASSUME GInv, NEW p, nidReceivePacket_Answer(p)
    PROVE  GInv'
<1> TypeOK /\ ExchangeInv /\ AnswersWhatIsAsked /\ KnownInv
  BY DEF GInv
<1>1. /\ Reads(p) /\ waiting # None /\ waiting' = None /\ p.request = waiting.request
      /\ UNCHANGED <<todo, next_request, toServer, server, reported>>
  BY DEF nidReceivePacket_Answer
<1>2. waiting \in Requests
  BY <1>1 DEF TypeOK
<1>3. /\ toClient' \in Seq(Packets)
      /\ \A i \in DOMAIN toClient' : \E j \in DOMAIN toClient : toClient'[i] = toClient[j]
  BY <1>1, ReadsLeaves
<1>4. 1 \in DOMAIN toClient /\ p = toClient[1] /\ p \in Packets
  BY <1>1, ReadsFirst
<1>5. p.body \in Seq(Statuses) /\ Known(p.body)
  BY <1>4 DEF Packets, KnownInv
<1>6. /\ view' \in {view, Latest(view, p.body)}
      /\ got' \in {got, got \o p.body}
  BY DEF nidReceivePacket_Answer, Pushes
<1>7. /\ view' \in [Element -> Nat] /\ got' \in Seq(Statuses)
      /\ \A e \in Element : view'[e] <= state[e]
      /\ Known(got')
  BY <1>5, <1>6, KnownLatest DEF TypeOK, KnownInv
<1>8. toServer = <<>>
  BY <1>1, <1>4 DEF ExchangeInv
<1>9. /\ answer' \in [asked : Seq(Element), states : Seq(Statuses)]
      /\ AnswersWhatIsAsked'
  <2>1. CASE waiting.type = "QUERY_ELEMENTS"
    <3>1. answer' = [asked |-> waiting.body, states |-> p.body]
      BY <2>1 DEF nidReceivePacket_Answer
    <3>2. Answers(waiting.body, p.body)
      BY <1>1, <1>4, <2>1 DEF ExchangeInv
    <3> QED
      BY <1>2, <1>5, <3>1, <3>2 DEF Requests, AnswersWhatIsAsked, Answers
  <2>2. CASE waiting.type # "QUERY_ELEMENTS"
    BY <2>2 DEF nidReceivePacket_Answer, TypeOK, AnswersWhatIsAsked
  <2> QED
    BY <2>1, <2>2
<1>10. TypeOK'
  <2>1. compressed' \in BOOLEAN
    BY DEF nidReceivePacket_Answer, TypeOK
  <2> QED
    BY <1>1, <1>3, <1>7, <1>9, <2>1 DEF TypeOK, server
<1>11. ExchangeInv'
  BY <1>1, <1>3, <1>8 DEF ExchangeInv, Unanswered
<1>12. KnownInv'
  BY <1>1, <1>3, <1>7 DEF KnownInv, Known, server
<1> QED
  BY <1>9, <1>10, <1>11, <1>12 DEF GInv

LEMMA GNextEvents ==
    ASSUME GInv, NEW p, nidNextEvents(p)
    PROVE  GInv'
<1> TypeOK /\ ExchangeInv /\ AnswersWhatIsAsked /\ KnownInv
  BY DEF GInv
<1>1. /\ Reads(p)
      /\ UNCHANGED <<todo, waiting, next_request, compressed, answer, toServer, server, reported>>
  BY DEF nidNextEvents
<1>2. /\ toClient' \in Seq(Packets)
      /\ \A i \in DOMAIN toClient' : \E j \in DOMAIN toClient : toClient'[i] = toClient[j]
  BY <1>1, ReadsLeaves
<1>3. 1 \in DOMAIN toClient /\ p = toClient[1] /\ p \in Packets
  BY <1>1, ReadsFirst
<1>4. p.body \in Seq(Statuses) /\ Known(p.body)
  BY <1>3 DEF Packets, KnownInv
<1>5. /\ view' \in {view, Latest(view, p.body)}
      /\ got' \in {got, got \o p.body}
  BY DEF nidNextEvents, Pushes
<1>6. /\ view' \in [Element -> Nat] /\ got' \in Seq(Statuses)
      /\ \A e \in Element : view'[e] <= state[e]
      /\ Known(got')
  BY <1>4, <1>5, KnownLatest DEF TypeOK, KnownInv
<1>7. TypeOK'
  BY <1>1, <1>2, <1>6 DEF TypeOK, server
<1>8. ExchangeInv'
  BY <1>1, <1>2 DEF ExchangeInv, Unanswered
<1>9. AnswersWhatIsAsked' /\ KnownInv'
  BY <1>1, <1>2, <1>6 DEF AnswersWhatIsAsked, KnownInv, Known, server
<1> QED
  BY <1>7, <1>8, <1>9 DEF GInv

LEMMA GCompressedThread ==
    ASSUME GInv, NEW p, nid_compressed_thread(p)
    PROVE  GInv'
<1>1. Reads(p) /\ UNCHANGED <<todo, compressed, view, got, answer, server, reported>> /\ TypeOK
  BY DEF nid_compressed_thread, GInv
<1>2. CASE p.type = "EVENTS_AVAIL"
  <2> DEFINE call == Call("DUMP_EVENTS", <<>>)
  <2>1. call \in Calls /\ call.type = "DUMP_EVENTS" /\ call.body = <<>>
    BY EmptySeq DEF Calls, Call, RequestTypes
  <2>2. /\ waiting = None /\ todo' \in Seq(Calls)
        /\ waiting' = Packet(next_request, "DUMP_EVENTS", <<>>)
        /\ toServer' = Append(toServer, waiting') /\ next_request' = next_request + 1
    BY <1>1, <1>2 DEF nid_compressed_thread, Listening, TypeOK
  <2> HIDE DEF call
  <2>3. waiting' = Packet(next_request, call.type, call.body)
    BY <2>1, <2>2
  <2>4. /\ toClient' \in Seq(Packets)
        /\ \A i \in DOMAIN toClient' : \E j \in DOMAIN toClient : toClient'[i] = toClient[j]
    BY <1>1, ReadsLeaves
  <2> QED
    BY <1>1, <2>1, <2>2, <2>3, <2>4, GSends
<1>3. CASE p.type # "EVENTS_AVAIL"
  BY <1>1, <1>3, GPasses DEF nid_compressed_thread, client
<1> QED
  BY <1>2, <1>3

\* What the server does: it may add a packet, serve a request, change states.
LEMMA GServes ==
    ASSUME GInv, NEW r \in Packets, toClient' \in {toClient, Append(toClient, r)},
           r.request < next_request, Known(r.body),
           waiting # None /\ r.request = waiting.request =>
                /\ toServer' = <<>>
                /\ waiting.type = "QUERY_ELEMENTS" => Answers(waiting.body, r.body),
           toServer' \in {toServer, <<>>}, UNCHANGED client,
           compress' \in BOOLEAN, sent_events_avail' \in BOOLEAN, report' \in [Device -> BOOLEAN],
           state' \in [Element -> 0 .. MaxChanges], \A e \in Element : state[e] <= state'[e],
           events' \in Seq(Statuses), reported' \in Seq(Statuses),
           \A a \in DOMAIN events' : events'[a].n <= state'[events'[a].elem]
    PROVE  GInv'
<1> TypeOK /\ ExchangeInv /\ AnswersWhatIsAsked /\ KnownInv
  BY DEF GInv
<1>1. /\ toClient' \in Seq(Packets)
      /\ \A i \in DOMAIN toClient' : (\E j \in DOMAIN toClient : toClient'[i] = toClient[j]) \/ toClient'[i] = r
  <2>1. CASE toClient' = toClient
    BY <2>1 DEF TypeOK
  <2>2. CASE toClient' = Append(toClient, r)
    <3>1. /\ Len(toClient) \in Nat /\ DOMAIN toClient = 1 .. Len(toClient)
          /\ toClient' \in Seq(Packets) /\ DOMAIN toClient' = 1 .. Len(toClient) + 1
          /\ \A i \in DOMAIN toClient : toClient'[i] = toClient[i]
          /\ toClient'[Len(toClient) + 1] = r
      BY <2>2, SendsLast
    <3> QED
      BY <3>1
  <2> QED
    BY <2>1, <2>2
<1>2. toServer' \in Seq(Requests)
  <2>1. <<>> \in Seq(Requests)
    BY EmptySeq
  <2> QED
    BY <2>1 DEF TypeOK
<1>3. TypeOK'
  BY <1>1, <1>2 DEF TypeOK, client
<1>4. ExchangeInv'
  <2>1. UNCHANGED <<waiting, next_request>>
    BY DEF client
  <2>2. toServer' = <<>> \/ Unanswered'
    BY <2>1 DEF ExchangeInv, Unanswered
  <2>3. ASSUME NEW i \in DOMAIN toClient'
        PROVE  /\ toClient'[i].request < next_request
               /\ waiting # None /\ toClient'[i].request = waiting.request =>
                    /\ toServer' = <<>>
                    /\ waiting.type = "QUERY_ELEMENTS" => Answers(waiting.body, toClient'[i].body)
    BY <1>1 DEF ExchangeInv
  <2> QED
    BY <2>1, <2>2, <2>3 DEF ExchangeInv
<1>5. AnswersWhatIsAsked'
  BY DEF AnswersWhatIsAsked, client
<1>6. KnownInv'
  <2>1. ASSUME NEW sl \in Seq(Statuses), Known(sl)
        PROVE  \A a \in DOMAIN sl : sl[a].n <= state'[sl[a].elem]
    <3>1. \A a \in DOMAIN sl : sl[a] \in Statuses
      BY LenProperties, ElementOfSeq
    <3>2. \A a \in DOMAIN sl : sl[a].elem \in Element /\ sl[a].n \in Nat
      BY <3>1, NidAssumption DEF Statuses
    <3>3. \A e \in Element : state[e] \in Nat /\ state'[e] \in Nat
      BY NidAssumption DEF TypeOK
    <3> QED
      BY <2>1, <3>2, <3>3 DEF Known
  <2>2. \A e \in Element : view'[e] <= state'[e]
    <3>1. \A e \in Element : view[e] \in Nat /\ state[e] \in Nat /\ state'[e] \in Nat /\ view[e] <= state[e]
      BY NidAssumption DEF TypeOK, KnownInv
    <3> QED
      BY <3>1 DEF client
  <2>3. Known(got)'
    BY <2>1 DEF TypeOK, KnownInv, Known, client
  <2>4. ASSUME NEW i \in DOMAIN toClient'
        PROVE  \A a \in DOMAIN toClient'[i].body : toClient'[i].body[a].n <= state'[toClient'[i].body[a].elem]
    <3>1. toClient'[i].body \in Seq(Statuses)
      <4>1. toClient'[i] \in Packets
        BY <1>1, LenProperties, ElementOfSeq
      <4> QED
        BY <4>1 DEF Packets
    <3>2. Known(toClient'[i].body)
      BY <1>1 DEF KnownInv
    <3> QED
      BY <2>1, <3>1, <3>2
  <2>5. Known(events)'
    BY DEF Known
  <2> QED
    BY <2>2, <2>3, <2>4, <2>5 DEF KnownInv, Known
<1> QED
  BY <1>3, <1>4, <1>5, <1>6 DEF GInv

\* A change has a number that nothing had before.
LEMMA NewNumber ==
    ASSUME TypeOK, NEW e \in Element, NEW is_init, js_handler(e, is_init)
    PROVE  \E n \in 0 .. MaxChanges :
            /\ state' = [state EXCEPT ![e] = n] /\ \A x \in Element : state[x] < n
            /\ \/ ~is_init /\ report[e[1]] /\ nidServer_addEvent(Status(e, n))
               \/ UNCHANGED <<toClient, sent_events_avail, events, reported>>
<1> DEFINE S == Range(state)  n == Max(S) + 1
<1>1. state \in [Element -> 0 .. MaxChanges] /\ MaxChanges \in Nat
  BY NidAssumption DEF TypeOK
<1>2. S \in SUBSET Nat /\ S # {} /\ \A x \in S : x <= MaxChanges
  BY <1>1 DEF Range
<1>3. Max(S) \in S /\ \A x \in S : x <= Max(S)
  <2> HIDE DEF S
  <2> QED
    BY <1>1, <1>2, MaxOfBounded
<1>4. \A x \in Element : state[x] \in S
  BY <1>1 DEF Range
<1>5. /\ n <= MaxChanges /\ state' = [state EXCEPT ![e] = n]
      /\ \/ ~is_init /\ report[e[1]] /\ nidServer_addEvent(Status(e, n))
         \/ UNCHANGED <<toClient, sent_events_avail, events, reported>>
  BY DEF js_handler
<1>6. n \in 0 .. MaxChanges /\ \A x \in Element : state[x] < n
  <2>1. Max(S) \in Nat /\ \A x \in Element : state[x] \in Nat /\ state[x] <= Max(S)
    <3> HIDE DEF S
    <3> QED
      BY <1>2, <1>3, <1>4
  <2> HIDE DEF S
  <2> QED
    BY <1>1, <1>5, <2>1
<1> HIDE DEF n
<1> QED
  BY <1>5, <1>6

LEMMA GChange ==
    ASSUME GInv, NEW e \in Element, NEW is_init, js_handler(e, is_init)
    PROVE  GInv'
<1> TypeOK /\ ExchangeInv /\ AnswersWhatIsAsked /\ KnownInv
  BY DEF GInv
<1>1. PICK n \in 0 .. MaxChanges :
            /\ state' = [state EXCEPT ![e] = n] /\ \A x \in Element : state[x] < n
            /\ \/ ~is_init /\ report[e[1]] /\ nidServer_addEvent(Status(e, n))
               \/ UNCHANGED <<toClient, sent_events_avail, events, reported>>
  BY NewNumber
<1> DEFINE s == Status(e, n)  r == Packet(0, "EVENTS_AVAIL", <<>>)
<1>2. s \in Statuses /\ s.elem = e /\ s.n = n
  BY DEF Status, Statuses
<1>3. r \in Packets /\ r.request = 0 /\ r.body = <<>> /\ Known(r.body)
  BY EmptySeq DEF Packet, Packets, Known
<1>4. /\ UNCHANGED <<client, toServer, compress, report>>
      /\ state' \in [Element -> 0 .. MaxChanges]
      /\ \A x \in Element : state[x] <= state'[x]
      /\ state'[e] = n
  BY <1>1, NidAssumption DEF js_handler, TypeOK
<1>5. 0 < next_request /\ (waiting # None => waiting.request # 0)
  BY DEF TypeOK, Requests
<1>6. /\ toClient' \in {toClient, Append(toClient, r)} /\ sent_events_avail' \in BOOLEAN
  BY <1>1 DEF nidServer_addEvent, TypeOK
<1>7. \/ events' = events /\ reported' = reported
      \/ events' = Append(events, s) /\ reported' = Append(reported, s)
  BY <1>1 DEF nidServer_addEvent
<1> HIDE DEF s, r
<1>8. events' \in Seq(Statuses) /\ reported' \in Seq(Statuses)
  <2>1. events \in Seq(Statuses) /\ reported \in Seq(Statuses)
    BY DEF TypeOK
  <2>2. Append(events, s) \in Seq(Statuses) /\ Append(reported, s) \in Seq(Statuses)
    BY <1>2, <2>1, AppendProperties
  <2> QED
    BY <1>7, <2>1, <2>2
<1>9. ASSUME NEW a \in DOMAIN events'
      PROVE  events'[a].n <= state'[events'[a].elem]
  <2>1. events \in Seq(Statuses) /\ Len(events) \in Nat /\ DOMAIN events = 1 .. Len(events)
    BY LenProperties DEF TypeOK
  <2>2. \A b \in DOMAIN events : /\ events[b].n \in Nat /\ events[b].elem \in Element
                                  /\ events[b].n <= state[events[b].elem]
    <3>1. \A b \in DOMAIN events : events[b] \in Statuses
      BY <2>1, ElementOfSeq
    <3> QED
      BY <3>1, NidAssumption DEF Statuses, KnownInv, Known
  <2>3. \A x \in Element : state[x] \in Nat /\ state'[x] \in Nat
    BY <1>4, NidAssumption DEF TypeOK
  <2>4. \A b \in DOMAIN events : events[b].n <= state'[events[b].elem]
    BY <1>4, <2>2, <2>3
  <2>5. CASE events' = events
    BY <2>4, <2>5
  <2>6. CASE events' = Append(events, s)
    <3>1. /\ DOMAIN events' = 1 .. Len(events) + 1
          /\ \A b \in 1 .. Len(events) : events'[b] = events[b]
          /\ events'[Len(events) + 1] = s
      BY <1>2, <1>8, <2>1, <2>6, AppendProperties, LenProperties
    <3>2. n <= n
      BY NidAssumption
    <3> QED
      BY <1>2, <1>4, <2>1, <2>4, <3>1, <3>2
  <2> QED
    BY <1>7, <2>5, <2>6
<1> QED
  BY <1>3, <1>4, <1>5, <1>6, <1>8, <1>9, GServes DEF TypeOK

\* A flush sends the events, if there are any.
LEMMA FlushSends ==
    ASSUME TypeOK, NEW req \in Nat, Flushed(req)
    PROVE  /\ Packet(req, "ELEMENT_EVENTS", events) \in Packets
           /\ toClient' \in {toClient, Append(toClient, Packet(req, "ELEMENT_EVENTS", events))}
           /\ events' = <<>> /\ sent_events_avail' \in BOOLEAN
<1>1. Packet(req, "ELEMENT_EVENTS", events) \in Packets
  BY DEF TypeOK, Packet, Packets
<1> QED
  BY <1>1 DEF Flushed, TypeOK

LEMMA GUpdate ==
    ASSUME GInv, main_Update
    PROVE  GInv'
<1> TypeOK /\ ExchangeInv /\ AnswersWhatIsAsked /\ KnownInv
  BY DEF GInv
<1> DEFINE r == Packet(0, "ELEMENT_EVENTS", events)
<1>1. Flushed(0) /\ UNCHANGED <<client, toServer, compress, report, state, reported>>
  BY DEF main_Update
<1>2. /\ r \in Packets /\ r.request = 0 /\ r.body = events
      /\ toClient' \in {toClient, Append(toClient, r)}
      /\ events' = <<>> /\ sent_events_avail' \in BOOLEAN
  BY <1>1, FlushSends DEF Packet
<1>3. 0 < next_request /\ (waiting # None => waiting.request # 0)
  BY DEF TypeOK, Requests
<1>4. \A e \in Element : state[e] <= state'[e]
  BY <1>1, NidAssumption DEF TypeOK
<1>5. Known(r.body)
  BY <1>2 DEF KnownInv
<1>6. events' \in Seq(Statuses) /\ DOMAIN events' = {}
  BY <1>2, EmptySeq
<1> HIDE DEF r
<1> QED
  BY <1>1, <1>2, <1>3, <1>4, <1>5, <1>6, GServes DEF TypeOK

\* The request that the server serves is the one that the client waits for.
LEMMA ServesWaiting ==
    ASSUME ExchangeInv, toServer # <<>>
    PROVE  /\ waiting # None /\ toServer = <<waiting>>
           /\ Head(toServer) = waiting /\ Tail(toServer) = <<>>
<1>1. waiting # None /\ toServer = <<waiting>>
  BY DEF ExchangeInv, Unanswered
<1> QED
  BY <1>1

LEMMA GProc ==
    ASSUME GInv, proc_pkt
    PROVE  GInv'
<1> TypeOK /\ ExchangeInv /\ AnswersWhatIsAsked /\ KnownInv
  BY DEF GInv
<1>1. /\ toServer' = <<>> /\ UNCHANGED <<client, state, reported>>
      /\ waiting # None /\ Head(toServer) = waiting
  BY ServesWaiting DEF proc_pkt
<1>2. /\ waiting \in Requests /\ waiting.request \in Nat /\ waiting.request < next_request
      /\ waiting.type = "QUERY_ELEMENTS" => \E d \in Device : waiting.body = ElementsOf(d)
  BY <1>1 DEF TypeOK, Requests, ExchangeInv
<1>3. \A e \in Element : state[e] <= state'[e]
  BY <1>1, NidAssumption DEF TypeOK
<1>4. <<>> \in Seq(Statuses) /\ Known(<<>>)
  BY EmptySeq DEF Known
<1>5. \A type \in {"LIST", "ACK", "NAK"} : Packet(waiting.request, type, <<>>) \in Packets
  BY <1>2, <1>4 DEF Packet, Packets
<1>6. /\ compress' \in BOOLEAN /\ sent_events_avail' \in BOOLEAN /\ report' \in [Device -> BOOLEAN]
      /\ events' \in {events, <<>>}
  <2>1. ASSUME Flushed(waiting.request)
        PROVE  sent_events_avail' \in BOOLEAN /\ events' = <<>>
    BY <1>2, <2>1, FlushSends
  <2> QED
    BY <1>1, <2>1 DEF proc_pkt, TypeOK
<1>7. /\ events' \in Seq(Statuses)
      /\ \A a \in DOMAIN events' : events'[a].n <= state'[events'[a].elem]
  BY <1>1, <1>4, <1>6 DEF TypeOK, KnownInv, Known
<1>8. \E r \in Packets :
        /\ toClient' \in {toClient, Append(toClient, r)} /\ r.request = waiting.request
        /\ Known(r.body)
        /\ waiting.type = "QUERY_ELEMENTS" => Answers(waiting.body, r.body)
  <2>1. CASE waiting.type = "QUERY_ELEMENTS"
    <3>1. PICK d \in Device : waiting.body = ElementsOf(d)
      BY <1>2, <2>1
    <3> DEFINE sl == Answer(waiting.body)  r == Packet(waiting.request, "ELEMENT_STATES", sl)
    <3>2. sl \in Seq(Statuses) /\ Answers(waiting.body, sl) /\ \A s \in Range(sl) : s.n = state[s.elem]
      BY <3>1, AnswerForDevice DEF TypeOK
    <3>3. toClient' = Append(toClient, r)
      BY <1>1, <2>1 DEF proc_pkt, Replies
    <3> HIDE DEF sl
    <3>4. Known(sl)
      <4>1. \A a \in DOMAIN sl : sl[a] \in Statuses
        BY <3>2, LenProperties, ElementOfSeq
      <4>2. \A a \in DOMAIN sl : sl[a].n \in Nat /\ sl[a].n = state[sl[a].elem]
        BY <3>2, <4>1, NidAssumption DEF Range, Statuses
      <4> QED
        BY <4>2 DEF Known
    <3>5. r \in Packets /\ r.request = waiting.request /\ r.body = sl
      BY <1>2, <3>2 DEF Packet, Packets
    <3> HIDE DEF r
    <3> QED
      BY <3>2, <3>3, <3>4, <3>5
  <2>2. CASE waiting.type = "DUMP_EVENTS" /\ compress
    <3> DEFINE r == Packet(waiting.request, "ELEMENT_EVENTS", events)
    <3>1. Flushed(waiting.request)
      BY <1>1, <2>2 DEF proc_pkt
    <3>2. r \in Packets /\ toClient' \in {toClient, Append(toClient, r)}
      BY <1>2, <3>1, FlushSends
    <3>3. r.request = waiting.request /\ r.body = events
      BY DEF Packet
    <3> HIDE DEF r
    <3> QED
      BY <2>2, <3>2, <3>3 DEF KnownInv
  <2>3. CASE waiting.type # "QUERY_ELEMENTS" /\ ~(waiting.type = "DUMP_EVENTS" /\ compress)
    <3>1. PICK type \in {"LIST", "ACK", "NAK"} :
                toClient' = Append(toClient, Packet(waiting.request, type, <<>>))
      BY <1>1, <2>3 DEF proc_pkt, Replies
    <3> DEFINE r == Packet(waiting.request, type, <<>>)
    <3>2. r \in Packets /\ r.request = waiting.request /\ r.body = <<>>
      BY <1>5 DEF Packet
    <3>3. toClient' = Append(toClient, r)
      BY <3>1
    <3> HIDE DEF r
    <3> QED
      BY <1>4, <2>3, <3>2, <3>3
  <2> QED
    BY <2>1, <2>2, <2>3
<1>9. PICK r \in Packets :
        /\ toClient' \in {toClient, Append(toClient, r)} /\ r.request = waiting.request
        /\ Known(r.body)
        /\ waiting.type = "QUERY_ELEMENTS" => Answers(waiting.body, r.body)
  BY <1>8
<1> QED
  BY <1>1, <1>2, <1>3, <1>6, <1>7, <1>9, GServes DEF TypeOK

LEMMA GNext ==
    ASSUME GInv, [Next]_vars
    PROVE  GInv'
<1>1. CASE UNCHANGED vars
  BY <1>1 DEF vars, client, server, GInv, TypeOK, ExchangeInv, Unanswered, AnswersWhatIsAsked, KnownInv,
              Known
<1>2. CASE ClientStep
  BY <1>2, GStart, GPasses, GAnswer, GNextEvents, GCompressedThread DEF ClientStep, nidReceivePacket_Skips
<1>3. CASE proc_pkt \/ main_Update \/ \E e \in Element, is_init \in BOOLEAN : js_handler(e, is_init)
  BY <1>3, GProc, GUpdate, GChange
<1> QED
  BY <1>1, <1>2, <1>3 DEF Next

\* Every variable keeps its type, whatever the program asks of whole devices,
\* and of however many devices: the client never takes an answer to another
\* request for its own, which would be of another type.
THEOREM TypeCorrect ==
    ASSUME WholeDevices
    PROVE  Spec => []TypeOK
<1>1. GInv => TypeOK
  BY DEF GInv
<1> QED
  BY <1>1, GInit, GNext, PTL DEF Spec

\* Who asks for whole devices gets the states of the elements that it has asked
\* for, in that order (the driver and nid_snoop both do).
THEOREM AnswersCorrect ==
    ASSUME WholeDevices
    PROVE  Spec => []AnswersWhatIsAsked
<1>1. GInv => AnswersWhatIsAsked
  BY DEF GInv
<1> QED
  BY <1>1, GInit, GNext, PTL DEF Spec

-----------------------------------------------------------------------------
(* The driver's program.                                                    *)

LEMMA DriverCallsAre ==
    ASSUME NEW d \in Device
    PROVE  /\ DriverCalls(d) \in Seq(Calls) /\ Len(DriverCalls(d)) = 5
           /\ DriverCalls(d)[1] = Call("COMPRESS_EVENTS", <<>>)
           /\ DriverCalls(d)[2] = Call("ENUM_DEVICES", <<>>)
           /\ DriverCalls(d)[3] = Call("ENUM_ELEMENTS", <<>>)
           /\ DriverCalls(d)[4] = Call("QUERY_ELEMENTS", ElementsOf(d))
           /\ DriverCalls(d)[5] = Call("LISTEN_ELEMENTS", ElementsOf(d))
<1> DEFINE c1 == Call("COMPRESS_EVENTS", <<>>)  c2 == Call("ENUM_DEVICES", <<>>)
           c3 == Call("ENUM_ELEMENTS", <<>>)
           c4 == Call("QUERY_ELEMENTS", ElementsOf(d))  c5 == Call("LISTEN_ELEMENTS", ElementsOf(d))
<1>1. <<>> \in Seq(Element) /\ ElementsOf(d) \in Seq(Element)
  BY EmptySeq, DeviceElements
<1>2. c1 \in Calls /\ c2 \in Calls /\ c3 \in Calls /\ c4 \in Calls /\ c5 \in Calls
  BY <1>1 DEF Call, Calls, RequestTypes
<1>3. DriverCalls(d) = <<c1, c2>> \o <<c3, c4, c5>>
  BY DEF DriverCalls, QueryThenListen
<1> HIDE DEF c1, c2, c3, c4, c5
<1>4. <<c1, c2>> \in Seq(Calls) /\ <<c3, c4, c5>> \in Seq(Calls)
  BY <1>2
<1>5. /\ DriverCalls(d) \in Seq(Calls) /\ Len(DriverCalls(d)) = 5
      /\ \A i \in 1 .. 5 : DriverCalls(d)[i] = IF i <= 2 THEN <<c1, c2>>[i] ELSE <<c3, c4, c5>>[i - 2]
  BY <1>3, <1>4, ConcatProperties
<1> QED
  BY <1>5 DEF c1, c2, c3, c4, c5

LEMMA RemainingIs ==
    ASSUME NEW d \in Device, NEW k \in 0 .. 5
    PROVE  /\ Remaining(d, k) \in Seq(Calls) /\ Len(Remaining(d, k)) = k
           /\ \A i \in 1 .. k : Remaining(d, k)[i] = DriverCalls(d)[5 - k + i]
<1>1. \A i \in 1 .. 5 : DriverCalls(d)[i] \in Calls
  BY DriverCallsAre, ElementOfSeq
<1>2. Remaining(d, k) \in [1 .. k -> Calls]
  BY <1>1 DEF Remaining
<1>3. Remaining(d, k) \in Seq(Calls)
  BY <1>2, SeqDef
<1> QED
  BY <1>2, <1>3, LenProperties DEF Remaining

\* After a call the others remain.
LEMMA RemainingTail ==
    ASSUME NEW d \in Device, NEW k \in 1 .. 5
    PROVE  /\ Head(Remaining(d, k)) = DriverCalls(d)[6 - k]
           /\ Tail(Remaining(d, k)) = Remaining(d, k - 1)
<1>1. /\ Remaining(d, k) \in Seq(Calls) /\ Len(Remaining(d, k)) = k
      /\ \A i \in 1 .. k : Remaining(d, k)[i] = DriverCalls(d)[5 - k + i]
      /\ Remaining(d, k - 1) \in Seq(Calls) /\ Len(Remaining(d, k - 1)) = k - 1
      /\ \A i \in 1 .. k - 1 : Remaining(d, k - 1)[i] = DriverCalls(d)[5 - (k - 1) + i]
  <2>1. k \in 0 .. 5 /\ k - 1 \in 0 .. 5
    OBVIOUS
  <2> QED
    BY <2>1, RemainingIs
<1>2. Remaining(d, k) # <<>>
  BY <1>1, EmptySeq
<1>3. /\ Tail(Remaining(d, k)) \in Seq(Calls) /\ Len(Tail(Remaining(d, k))) = k - 1
      /\ \A i \in 1 .. k - 1 : Tail(Remaining(d, k))[i] = Remaining(d, k)[i + 1]
  BY <1>1, <1>2, HeadTailProperties
<1>4. Tail(Remaining(d, k)) = Remaining(d, k - 1)
  <2>1. ASSUME NEW i \in 1 .. k - 1
        PROVE  Tail(Remaining(d, k))[i] = Remaining(d, k - 1)[i]
    <3>1. 5 - k + (i + 1) = 5 - (k - 1) + i /\ i + 1 \in 1 .. k
      OBVIOUS
    <3> QED
      BY <1>1, <1>3, <3>1
  <2> QED
    BY <1>1, <1>3, <2>1, SeqEqual
<1>5. Head(Remaining(d, k)) = Remaining(d, k)[1]
  OBVIOUS
<1> QED
  BY <1>1, <1>4, <1>5

LEMMA DriverProgram ==
    ASSUME NEW d \in Device, NEW option \in BOOLEAN
    PROVE  \E k \in {4, 5} : new_nid_driver(d, option) = Remaining(d, k)
<1> DEFINE c1 == Call("COMPRESS_EVENTS", <<>>)  c2 == Call("ENUM_DEVICES", <<>>)
           c3 == Call("ENUM_ELEMENTS", <<>>)
           c4 == Call("QUERY_ELEMENTS", ElementsOf(d))  c5 == Call("LISTEN_ELEMENTS", ElementsOf(d))
<1>1. /\ DriverCalls(d)[1] = c1 /\ DriverCalls(d)[2] = c2 /\ DriverCalls(d)[3] = c3
      /\ DriverCalls(d)[4] = c4 /\ DriverCalls(d)[5] = c5
      /\ \A i \in 1 .. 5 : DriverCalls(d)[i] \in Calls
  BY DriverCallsAre, ElementOfSeq
<1>2. QueryThenListen(d) = <<c3, c4, c5>>
  BY DEF QueryThenListen
<1>3. c1 \in Calls /\ c2 \in Calls /\ c3 \in Calls /\ c4 \in Calls /\ c5 \in Calls
  <2> HIDE DEF c1, c2, c3, c4, c5
  <2> QED
    BY <1>1
<1>4. /\ new_nid_driver(d, TRUE) = <<c1>> \o <<c2>> \o <<c3, c4, c5>>
      /\ new_nid_driver(d, FALSE) = <<>> \o <<c2>> \o <<c3, c4, c5>>
  BY <1>2 DEF new_nid_driver
<1> HIDE DEF c1, c2, c3, c4, c5
<1>5. /\ <<c1>> \o <<c2>> = <<c1, c2>> /\ <<>> \o <<c2>> = <<c2>>
      /\ <<c1, c2>> \in Seq(Calls) /\ <<c2>> \in Seq(Calls) /\ <<c3, c4, c5>> \in Seq(Calls)
  <2>1. <<c2>> \in Seq(Calls)
    BY <1>3
  <2>2. <<c1, c2>> \in Seq(Calls)
    BY <1>3
  <2>3. <<c3, c4, c5>> \in Seq(Calls)
    BY <1>3
  <2>4. <<>> \o <<c2>> = <<c2>>
    BY <2>1, ConcatEmptySeq
  <2>5. <<c1>> \o <<c2>> = <<c1, c2>>
    <3>1. <<c1>> \in Seq(Calls)
      BY <1>3
    <3>2. /\ <<c1>> \o <<c2>> \in Seq(Calls) /\ Len(<<c1>> \o <<c2>>) = 2
          /\ (<<c1>> \o <<c2>>)[1] = c1 /\ (<<c1>> \o <<c2>>)[2] = c2
      BY <2>1, <3>1, ConcatProperties
    <3>3. Len(<<c1, c2>>) = 2 /\ <<c1, c2>>[1] = c1 /\ <<c1, c2>>[2] = c2
      OBVIOUS
    <3>4. \A i \in 1 .. 2 : (<<c1>> \o <<c2>>)[i] = <<c1, c2>>[i]
      BY <3>2, <3>3
    <3> QED
      BY <2>2, <3>2, <3>3, <3>4, SeqEqual
  <2> QED
    BY <2>1, <2>2, <2>3, <2>4, <2>5
<1>6. new_nid_driver(d, TRUE) = Remaining(d, 5)
  <2>1. /\ <<c1, c2>> \o <<c3, c4, c5>> \in Seq(Calls)
        /\ Len(<<c1, c2>> \o <<c3, c4, c5>>) = 5
        /\ \A i \in 1 .. 5 : (<<c1, c2>> \o <<c3, c4, c5>>)[i]
                                = IF i <= 2 THEN <<c1, c2>>[i] ELSE <<c3, c4, c5>>[i - 2]
    BY <1>5, ConcatProperties
  <2>2. /\ Remaining(d, 5) \in Seq(Calls) /\ Len(Remaining(d, 5)) = 5
        /\ \A i \in 1 .. 5 : Remaining(d, 5)[i] = DriverCalls(d)[i]
    BY RemainingIs
  <2>3. \A i \in 1 .. 5 : (<<c1, c2>> \o <<c3, c4, c5>>)[i] = Remaining(d, 5)[i]
    BY <1>1, <2>1, <2>2
  <2>4. <<c1, c2>> \o <<c3, c4, c5>> = Remaining(d, 5)
    BY <2>1, <2>2, <2>3, SeqEqual
  <2> QED
    BY <1>4, <1>5, <2>4
<1>7. new_nid_driver(d, FALSE) = Remaining(d, 4)
  <2>1. /\ <<c2>> \o <<c3, c4, c5>> \in Seq(Calls)
        /\ Len(<<c2>> \o <<c3, c4, c5>>) = 4
        /\ \A i \in 1 .. 4 : (<<c2>> \o <<c3, c4, c5>>)[i]
                                = IF i <= 1 THEN <<c2>>[i] ELSE <<c3, c4, c5>>[i - 1]
    BY <1>5, ConcatProperties
  <2>2. /\ Remaining(d, 4) \in Seq(Calls) /\ Len(Remaining(d, 4)) = 4
        /\ \A i \in 1 .. 4 : Remaining(d, 4)[i] = DriverCalls(d)[1 + i]
    BY RemainingIs
  <2>3. \A i \in 1 .. 4 : (<<c2>> \o <<c3, c4, c5>>)[i] = Remaining(d, 4)[i]
    BY <1>1, <2>1, <2>2
  <2>4. <<c2>> \o <<c3, c4, c5>> = Remaining(d, 4)
    BY <2>1, <2>2, <2>3, SeqEqual
  <2> QED
    BY <1>4, <1>5, <2>4
<1> QED
  BY <1>6, <1>7

\* The driver asks for a whole device.
LEMMA DriverAsksWhole ==
    ASSUME DriverOnly
    PROVE  WholeDevices /\ \A program \in Programs : \E d \in Device, k \in {4, 5} : program = Remaining(d, k)
<1>1. \A program \in Programs : \E d \in Device, k \in {4, 5} : program = Remaining(d, k)
  BY DriverProgram DEF DriverOnly
<1>2. ASSUME NEW program \in Programs
      PROVE  program \in Seq(Calls)
  <2>1. PICK d \in Device, k \in {4, 5} : program = Remaining(d, k)
    BY <1>1
  <2>2. k \in 0 .. 5
    BY <2>1
  <2> QED
    BY <2>1, <2>2, RemainingIs
<1> QED
  BY <1>1, <1>2 DEF WholeDevices

-----------------------------------------------------------------------------
(* The order of the events.                                                 *)

\* What is on its way are states.
LEMMA CarriedStates ==
    ASSUME NEW p \in Packets
    PROVE  Carried(p) \in Seq(Statuses)
BY EmptySeq DEF Carried, Packets

LEMMA SequencesOfStates ==
    ASSUME TypeOK
    PROVE  /\ got \in Seq(Statuses) /\ events \in Seq(Statuses)
           /\ \A i \in DOMAIN toClient : InTransit(i) \in Seq(Statuses)
<1>1. \A i \in DOMAIN toClient : toClient[i] \in Packets
  BY LenProperties, ElementOfSeq DEF TypeOK
<1> QED
  BY <1>1, CarriedStates DEF TypeOK, InTransit

LEMMA StatesHaveNumbers ==
    ASSUME NEW s \in Seq(Statuses)
    PROVE  /\ Len(s) \in Nat /\ DOMAIN s = 1 .. Len(s)
           /\ \A a \in DOMAIN s : s[a].n \in Nat /\ s[a].elem \in Element
<1>1. Len(s) \in Nat /\ DOMAIN s = 1 .. Len(s) /\ \A a \in DOMAIN s : s[a] \in Statuses
  BY LenProperties, ElementOfSeq
<1> QED
  BY <1>1, NidAssumption DEF Statuses

\* Sequences in order stay in order when they are joined.
LEMMA JoinOrdered ==
    ASSUME NEW s \in Seq(Statuses), NEW t \in Seq(Statuses), Ascending(s), Ascending(t), Precedes(s, t)
    PROVE  /\ Ascending(s \o t)
           /\ \A u \in Seq(Statuses) : Precedes(s, u) /\ Precedes(t, u) => Precedes(s \o t, u)
<1> DEFINE j == s \o t
<1>1. /\ Len(s) \in Nat /\ DOMAIN s = 1 .. Len(s) /\ Len(t) \in Nat /\ DOMAIN t = 1 .. Len(t)
      /\ DOMAIN j = 1 .. Len(s) + Len(t)
      /\ \A i \in DOMAIN s : j[i] = s[i]
      /\ \A i \in DOMAIN j \ DOMAIN s : j[i] = t[i - Len(s)] /\ i - Len(s) \in DOMAIN t
  BY Joined
<1> HIDE DEF j
<1>2. ASSUME NEW a \in DOMAIN j, NEW b \in DOMAIN j, a < b
      PROVE  j[a].n < j[b].n
  <2>1. CASE b \in DOMAIN s
    <3>1. a \in DOMAIN s
      BY <1>1, <1>2, <2>1
    <3> QED
      BY <1>1, <1>2, <2>1, <3>1 DEF Ascending
  <2>2. CASE a \in DOMAIN s /\ b \notin DOMAIN s
    BY <1>1, <2>2 DEF Precedes
  <2>3. CASE a \notin DOMAIN s
    <3>1. b \notin DOMAIN s /\ a - Len(s) < b - Len(s)
      BY <1>1, <1>2, <2>3
    <3> QED
      BY <1>1, <2>3, <3>1 DEF Ascending
  <2> QED
    BY <2>1, <2>2, <2>3
<1>3. ASSUME NEW u \in Seq(Statuses), Precedes(s, u), Precedes(t, u)
      PROVE  Precedes(j, u)
  BY <1>1, <1>3 DEF Precedes
<1> QED
  BY <1>2, <1>3 DEF Ascending, j

\* What comes after the states that are read is newer than they are.
LEMMA NewerKept ==
    ASSUME TypeOK, NEW c \in Seq(Statuses), view' = Latest(view, c),
           NEW s \in Seq(Statuses), Newer(s), Precedes(c, s)
    PROVE  \A a \in DOMAIN s : \A e \in Element : view'[e] < s[a].n
<1> SUFFICES ASSUME NEW a \in DOMAIN s, NEW e \in Element
             PROVE  view'[e] < s[a].n
  OBVIOUS
<1>1. \/ view'[e] = view[e]
      \/ \E i \in DOMAIN c : view'[e] = c[i].n
  <2>1. view \in [Element -> Nat]
    BY DEF TypeOK
  <2> QED
    BY <2>1, LatestIsOneOf
<1> QED
  BY <1>1 DEF Newer, Precedes

\* A packet with events is read, and they are handed on.
LEMMA OrderReads ==
    ASSUME TypeOK, OrderInv, NEW p, Reads(p), got' = got \o Carried(p), view' = Latest(view, Carried(p)),
           UNCHANGED <<events, reported>>
    PROVE  OrderInv'
<1>1. /\ 1 \in DOMAIN toClient /\ p \in Packets /\ InTransit(1) = Carried(p)
      /\ Len(toClient) \in Nat \ {0} /\ DOMAIN toClient = 1 .. Len(toClient)
      /\ DOMAIN toClient' = 1 .. Len(toClient) - 1
      /\ \A i \in DOMAIN toClient' : toClient'[i] = toClient[i + 1] /\ i + 1 \in DOMAIN toClient
  BY ReadsFirst DEF InTransit
<1>2. /\ got \in Seq(Statuses) /\ events \in Seq(Statuses) /\ Carried(p) \in Seq(Statuses)
      /\ \A i \in DOMAIN toClient : InTransit(i) \in Seq(Statuses)
  BY <1>1, SequencesOfStates
<1>3. \A i \in DOMAIN toClient' : InTransit(i)' = InTransit(i + 1) /\ i + 1 \in DOMAIN toClient /\ 1 < i + 1
  BY <1>1 DEF InTransit
<1>4. Range(got') = Range(got) \cup Range(Carried(p))
  BY <1>2, Joined
<1>5. UNION {Range(InTransit(i)) : i \in DOMAIN toClient}
        = Range(Carried(p)) \cup UNION {Range(InTransit(i)') : i \in DOMAIN toClient'}
  <2>1. ASSUME NEW j \in DOMAIN toClient, j # 1
        PROVE  j - 1 \in DOMAIN toClient' /\ InTransit(j) = InTransit(j - 1)'
    <3>1. j - 1 \in DOMAIN toClient' /\ (j - 1) + 1 = j
      BY <1>1, <2>1
    <3> QED
      BY <1>3, <3>1
  <2> QED
    BY <1>1, <1>3, <2>1
<1>6. Range(reported)' = Range(got') \cup Range(events') \cup UNION {Range(InTransit(i)') : i \in DOMAIN toClient'}
  <2>1. Range(reported) = Range(got) \cup Range(events) \cup UNION {Range(InTransit(i)) : i \in DOMAIN toClient}
    BY DEF OrderInv
  <2> QED
    BY <1>4, <1>5, <2>1
<1>7. /\ Ascending(got) /\ Ascending(Carried(p)) /\ Precedes(got, Carried(p))
      /\ Ascending(events) /\ Newer(events) /\ Precedes(got, events) /\ Precedes(Carried(p), events)
  BY <1>1 DEF OrderInv
<1>8. Ascending(got') /\ Precedes(got', events')
  BY <1>2, <1>7, JoinOrdered
<1>9. \A a \in DOMAIN events : \A e \in Element : view'[e] < events[a].n
  BY <1>2, <1>7, NewerKept
<1>10. ASSUME NEW i \in DOMAIN toClient'
       PROVE  /\ Ascending(InTransit(i)') /\ Precedes(got', InTransit(i)') /\ Precedes(InTransit(i)', events')
              /\ \A a \in DOMAIN InTransit(i)' : \A e \in Element : view'[e] < InTransit(i)'[a].n
  <2> DEFINE s == InTransit(i + 1)
  <2>1. s = InTransit(i)' /\ i + 1 \in DOMAIN toClient /\ 1 < i + 1
    BY <1>3
  <2>2. /\ Ascending(s) /\ Newer(s) /\ Precedes(got, s) /\ Precedes(s, events)
        /\ Precedes(Carried(p), s) /\ s \in Seq(Statuses)
    BY <1>1, <1>2, <2>1 DEF OrderInv
  <2> HIDE DEF s
  <2>3. Precedes(got', s)
    BY <1>2, <1>7, <2>2, JoinOrdered
  <2>4. \A a \in DOMAIN s : \A e \in Element : view'[e] < s[a].n
    BY <1>2, <2>2, NewerKept
  <2> QED
    BY <2>1, <2>2, <2>3, <2>4
<1>11. ASSUME NEW i \in DOMAIN toClient', NEW j \in DOMAIN toClient', i < j
       PROVE  Precedes(InTransit(i)', InTransit(j)')
  <2>1. i + 1 < j + 1
    BY <1>1, <1>11
  <2> QED
    BY <1>3, <2>1 DEF OrderInv
<1> QED
  BY <1>6, <1>7, <1>8, <1>9, <1>10, <1>11 DEF OrderInv, Newer, Ascending, Precedes

\* A packet without events is read.
LEMMA OrderPasses ==
    ASSUME TypeOK, OrderInv, NEW p, Reads(p), Carried(p) = <<>>, UNCHANGED <<got, view, events, reported>>
    PROVE  OrderInv'
<1>1. got \in Seq(Statuses) /\ view \in [Element -> Nat] /\ <<>> \in Seq(Statuses)
  BY EmptySeq DEF TypeOK
<1>2. got' = got \o Carried(p)
  BY <1>1, ConcatEmptySeq
<1>3. Latest(view, <<>>) \in [Element -> Nat] /\ \A e \in Element : Latest(view, <<>>)[e] = view[e]
  BY DEF Latest, TypeOK
<1>4. view' = Latest(view, Carried(p))
  BY <1>1, <1>3
<1> QED
  BY <1>2, <1>4, OrderReads

\* The server sends a packet without events, or none; it may note an event.
LEMMA OrderServes ==
    ASSUME TypeOK, OrderInv, NEW r \in Packets, Carried(r) = <<>>,
           toClient' \in {toClient, Append(toClient, r)}, UNCHANGED <<got, view>>,
           NEW R, Range(reported') = Range(reported) \cup R, Range(events') = Range(events) \cup R,
           Ascending(events'), Newer(events'), Precedes(got, events'),
           \A i \in DOMAIN toClient : Precedes(InTransit(i), events')
    PROVE  OrderInv'
<1>1. /\ \A i \in DOMAIN toClient : i \in DOMAIN toClient' /\ InTransit(i)' = InTransit(i)
      /\ \A i \in DOMAIN toClient' : (i \in DOMAIN toClient /\ InTransit(i)' = InTransit(i)) \/ InTransit(i)' = <<>>
  <2>1. CASE toClient' = toClient
    BY <2>1 DEF InTransit
  <2>2. CASE toClient' = Append(toClient, r)
    <3>1. /\ Len(toClient) \in Nat /\ DOMAIN toClient = 1 .. Len(toClient)
          /\ DOMAIN toClient' = 1 .. Len(toClient) + 1
          /\ \A i \in DOMAIN toClient : toClient'[i] = toClient[i]
          /\ toClient'[Len(toClient) + 1] = r
      BY <2>2, SendsLast
    <3> QED
      BY <3>1 DEF InTransit
  <2> QED
    BY <2>1, <2>2
<1>2. UNION {Range(InTransit(i)') : i \in DOMAIN toClient'} = UNION {Range(InTransit(i)) : i \in DOMAIN toClient}
  <2>1. Range(<<>>) = {}
    BY DEF Range
  <2> QED
    BY <1>1, <2>1
<1>3. Range(reported') = Range(got') \cup Range(events') \cup UNION {Range(InTransit(i)') : i \in DOMAIN toClient'}
  <2>1. Range(reported) = Range(got) \cup Range(events) \cup UNION {Range(InTransit(i)) : i \in DOMAIN toClient}
    BY DEF OrderInv
  <2> QED
    BY <1>2, <2>1
<1>4. \A i \in DOMAIN toClient' :
        /\ Ascending(InTransit(i)') /\ Newer(InTransit(i)')
        /\ Precedes(got, InTransit(i)') /\ Precedes(InTransit(i)', events')
  <2>1. \A s : Ascending(<<>>) /\ Newer(<<>>) /\ Precedes(s, <<>>) /\ Precedes(<<>>, s)
    BY DEF Ascending, Newer, Precedes
  <2> QED
    BY <1>1, <2>1 DEF OrderInv
<1>5. ASSUME NEW i \in DOMAIN toClient', NEW j \in DOMAIN toClient', i < j
      PROVE  Precedes(InTransit(i)', InTransit(j)')
  <2>1. \A s : Precedes(s, <<>>) /\ Precedes(<<>>, s)
    BY DEF Precedes
  <2> QED
    BY <1>1, <1>5, <2>1 DEF OrderInv
<1>6. Ascending(got)
  BY DEF OrderInv
<1> QED
  BY <1>3, <1>4, <1>5, <1>6 DEF OrderInv, Newer, Ascending, Precedes

\* All the events are sent.
LEMMA OrderFlushes ==
    ASSUME TypeOK, OrderInv, NEW r \in Packets, Carried(r) = events, toClient' = Append(toClient, r),
           events' = <<>>, UNCHANGED <<got, view, reported>>
    PROVE  OrderInv'
<1>1. /\ Len(toClient) \in Nat /\ DOMAIN toClient = 1 .. Len(toClient)
      /\ DOMAIN toClient' = 1 .. Len(toClient) + 1
      /\ \A i \in DOMAIN toClient : toClient'[i] = toClient[i]
      /\ toClient'[Len(toClient) + 1] = r
  BY SendsLast
<1> PICK new \in Nat : new = Len(toClient) + 1
  BY <1>1
<1>2. /\ \A i \in DOMAIN toClient : i \in DOMAIN toClient' /\ InTransit(i)' = InTransit(i)
      /\ new \in DOMAIN toClient' /\ InTransit(new)' = events
      /\ \A i \in DOMAIN toClient' : (i \in DOMAIN toClient /\ i < new) \/ i = new
  BY <1>1 DEF InTransit
<1>3. UNION {Range(InTransit(i)') : i \in DOMAIN toClient'}
        = Range(events) \cup UNION {Range(InTransit(i)) : i \in DOMAIN toClient}
  BY <1>2
<1>4. Range(reported') = Range(got') \cup Range(events') \cup UNION {Range(InTransit(i)') : i \in DOMAIN toClient'}
  <2>1. Range(reported) = Range(got) \cup Range(events) \cup UNION {Range(InTransit(i)) : i \in DOMAIN toClient}
    BY DEF OrderInv
  <2>2. Range(events') = {}
    BY DEF Range
  <2> QED
    BY <1>3, <2>1, <2>2
<1>5. \A i \in DOMAIN toClient' :
        Ascending(InTransit(i)') /\ Newer(InTransit(i)') /\ Precedes(got, InTransit(i)')
  BY <1>2 DEF OrderInv
<1>6. ASSUME NEW i \in DOMAIN toClient', NEW j \in DOMAIN toClient', i < j
      PROVE  Precedes(InTransit(i)', InTransit(j)')
  <2>1. i \in DOMAIN toClient
    BY <1>1, <1>6
  <2>2. CASE j \in DOMAIN toClient
    BY <1>2, <1>6, <2>1, <2>2 DEF OrderInv
  <2>3. CASE j = new
    BY <1>2, <2>1, <2>3 DEF OrderInv
  <2> QED
    BY <1>2, <2>2, <2>3
<1>7. Ascending(got) /\ \A s : Ascending(<<>>) /\ Newer(<<>>) /\ Precedes(s, <<>>)
  BY DEF OrderInv, Ascending, Newer, Precedes
<1> QED
  BY <1>4, <1>5, <1>6, <1>7 DEF OrderInv, Newer, Ascending, Precedes

\* A state with a new number comes after all that was known.
LEMMA EventAdded ==
    ASSUME GInv, OrderInv, NEW s \in Statuses, \A x \in Element : state[x] < s.n
    PROVE  /\ Range(Append(reported, s)) = Range(reported) \cup {s}
           /\ Range(Append(events, s)) = Range(events) \cup {s}
           /\ Ascending(Append(events, s)) /\ Newer(Append(events, s)) /\ Precedes(got, Append(events, s))
           /\ \A i \in DOMAIN toClient : Precedes(InTransit(i), Append(events, s))
<1> DEFINE ev == Append(events, s)
<1> TypeOK /\ KnownInv
  BY DEF GInv
<1>1. \A q \in Seq(Statuses) : /\ Len(q) \in Nat /\ DOMAIN q = 1 .. Len(q) /\ DOMAIN Append(q, s) = 1 .. Len(q) + 1
                               /\ \A a \in DOMAIN q : Append(q, s)[a] = q[a]
                               /\ Append(q, s)[Len(q) + 1] = s
  BY AppendProperties, LenProperties
<1>2. \A q \in Seq(Statuses) : Range(Append(q, s)) = Range(q) \cup {s}
  <2>1. SUFFICES ASSUME NEW q \in Seq(Statuses) PROVE Range(Append(q, s)) = Range(q) \cup {s}
    OBVIOUS
  <2>2. /\ \A a \in DOMAIN q : a \in DOMAIN Append(q, s) /\ Append(q, s)[a] = q[a]
        /\ Len(q) + 1 \in DOMAIN Append(q, s) /\ Append(q, s)[Len(q) + 1] = s
        /\ \A a \in DOMAIN Append(q, s) : a \in DOMAIN q \/ a = Len(q) + 1
    BY <1>1
  <2> QED
    BY <2>2 DEF Range
<1>3. events \in Seq(Statuses) /\ reported \in Seq(Statuses) /\ got \in Seq(Statuses)
  BY DEF TypeOK
<1>4. /\ Len(events) \in Nat /\ DOMAIN events = 1 .. Len(events) /\ DOMAIN ev = 1 .. Len(events) + 1
      /\ \A a \in DOMAIN events : ev[a] = events[a]
      /\ ev[Len(events) + 1] = s
  BY <1>1, <1>3
<1>5. ASSUME NEW q \in Seq(Statuses), Known(q)
      PROVE  \A a \in DOMAIN q : q[a].n < s.n
  <2>1. \A a \in DOMAIN q : q[a].n \in Nat /\ q[a].elem \in Element
    BY StatesHaveNumbers
  <2>2. s.n \in Nat /\ \A x \in Element : state[x] \in Nat
    BY NidAssumption DEF TypeOK, Statuses
  <2> QED
    BY <1>5, <2>1, <2>2 DEF Known
<1>6. /\ \A a \in DOMAIN events : events[a].n < s.n
      /\ \A a \in DOMAIN got : got[a].n < s.n
  BY <1>3, <1>5 DEF KnownInv
<1>7. ASSUME NEW i \in DOMAIN toClient
      PROVE  \A a \in DOMAIN InTransit(i) : InTransit(i)[a].n < s.n
  <2>1. toClient[i] \in Packets
    BY LenProperties, ElementOfSeq DEF TypeOK
  <2>2. \A a \in DOMAIN toClient[i].body : toClient[i].body[a].n < s.n
    BY <1>5, <2>1 DEF KnownInv, Packets
  <2> QED
    BY <2>2 DEF InTransit, Carried
<1>8. \A e \in Element : view[e] < s.n
  <2>1. s.n \in Nat /\ \A x \in Element : state[x] \in Nat /\ view[x] \in Nat /\ view[x] <= state[x]
    BY NidAssumption DEF TypeOK, Statuses, KnownInv
  <2> QED
    BY <2>1
<1> HIDE DEF ev
<1>9. \A a \in DOMAIN ev : (a \in DOMAIN events /\ ev[a] = events[a]) \/ (a = Len(events) + 1 /\ ev[a] = s)
  BY <1>4
<1>10. Ascending(ev)
  <2>1. ASSUME NEW a \in DOMAIN ev, NEW b \in DOMAIN ev, a < b
        PROVE  ev[a].n < ev[b].n
    <3>1. a \in DOMAIN events
      BY <1>4, <2>1
    <3>2. CASE b \in DOMAIN events
      BY <1>4, <2>1, <3>1, <3>2 DEF OrderInv, Ascending
    <3>3. CASE b \notin DOMAIN events
      BY <1>4, <1>6, <1>9, <3>1, <3>3
    <3> QED
      BY <3>2, <3>3
  <2> QED
    BY <2>1 DEF Ascending
<1>11. Newer(ev) /\ Precedes(got, ev) /\ \A i \in DOMAIN toClient : Precedes(InTransit(i), ev)
  <2>1. /\ Newer(events) /\ Precedes(got, events)
        /\ \A i \in DOMAIN toClient : Precedes(InTransit(i), events)
    BY DEF OrderInv
  <2>2. Newer(ev)
    BY <1>8, <1>9, <2>1 DEF Newer
  <2>3. Precedes(got, ev)
    BY <1>6, <1>9, <2>1 DEF Precedes
  <2>4. \A i \in DOMAIN toClient : Precedes(InTransit(i), ev)
    BY <1>7, <1>9, <2>1 DEF Precedes
  <2> QED
    BY <2>2, <2>3, <2>4
<1> QED
  BY <1>2, <1>3, <1>10, <1>11 DEF ev

-----------------------------------------------------------------------------
(* The driver: its invariant is inductive.                                  *)

LEMMA DInit ==
    ASSUME DriverOnly, Init
    PROVE  IInv
<1>1. GInv
  BY DriverAsksWhole, GInit
<1>2. PICK d \in Device, k \in {4, 5} : todo = Remaining(d, k)
  BY DriverAsksWhole DEF Init
<1>3. Len(todo) > 0
  <2>1. k \in 0 .. 5
    BY <1>2
  <2>2. Len(todo) = k
    BY <1>2, <2>1, RemainingIs
  <2> QED
    BY <2>2
<1>4. StageInv
  BY <1>2 DEF Init, StageInv
<1>5. FirstInv /\ SilentInv /\ CompressInv /\ NoticeInv
  BY DEF Init, FirstInv, SilentInv, CompressInv, NoticeInv, Unanswered, Answered, NoticeSent, Dumps
<1>6. OrderInv
  BY DEF Init, OrderInv, Ascending, Precedes, Newer, Range
<1> QED
  BY <1>1, <1>4, <1>5, <1>6 DEF IInv, DriverInv

\* What the driver's invariant is about.
driverVars == <<todo, waiting, compressed, view, got, toServer, toClient, compress, sent_events_avail, report,
                events, reported>>

LEMMA DSame ==
    ASSUME DriverInv, UNCHANGED driverVars
    PROVE  DriverInv'
BY DEF driverVars, DriverInv, StageInv, FirstInv, SilentInv, CompressInv, NoticeInv, OrderInv, Unanswered,
       Answered, Silent, NoticeSent, Dumps, Ascending, Precedes, Newer, InTransit

\* The driver waits for nothing that it passes other packets over for.
LEMMA NothingPassedOver ==
    ASSUME GInv, DriverInv, NEW p
    PROVE  ~nidReceivePacket_Skips(p)
<1> SUFFICES ASSUME nidReceivePacket_Skips(p) PROVE FALSE
  OBVIOUS
<1>1. waiting # None /\ Reads(p) /\ p.request # waiting.request
  BY DEF nidReceivePacket_Skips
<1>2. 1 \in DOMAIN toClient /\ p = toClient[1] /\ toClient # <<>>
  BY <1>1, ReadsFirst DEF GInv, Reads
<1>3. Answered
  BY <1>1, <1>2 DEF GInv, ExchangeInv, DriverInv, FirstInv, Answered
<1> QED
  BY <1>1, <1>2, <1>3 DEF DriverInv, FirstInv

\* The driver makes its next call.
LEMMA DStart ==
    ASSUME GInv, DriverInv, Start
    PROVE  DriverInv'
<1>1. /\ todo # <<>> /\ waiting = None /\ todo' = Tail(todo)
      /\ waiting' = Packet(next_request, Head(todo).type, Head(todo).body)
      /\ toServer' = Append(toServer, waiting')
      /\ UNCHANGED <<compressed, view, got, answer, toClient, server, reported>>
  BY DEF Start, exchange
<1>2. PICK d \in Device, k \in 0 .. 5 : todo = Remaining(d, k)
  BY DEF DriverInv, StageInv
<1>3. k \in 1 .. 5 /\ Len(todo) = k
  <2>1. Len(todo) = k
    BY <1>2, RemainingIs
  <2>2. todo \in Seq(Calls) /\ Len(todo) # 0
    BY <1>1, EmptySeq DEF GInv, TypeOK
  <2> QED
    BY <2>1, <2>2
<1>4. Head(todo) = DriverCalls(d)[6 - k] /\ todo' = Remaining(d, k - 1)
  BY <1>1, <1>2, <1>3, RemainingTail
<1>5. Len(todo') = k - 1 /\ k - 1 \in 0 .. 5
  <2>1. k - 1 \in 0 .. 5
    BY <1>3
  <2> QED
    BY <1>4, <2>1, RemainingIs
<1>6. waiting'.type = Head(todo).type
  BY <1>1 DEF Packet
<1>7. /\ k = 5 => waiting'.type = "COMPRESS_EVENTS"
      /\ k = 4 => waiting'.type = "ENUM_DEVICES"
      /\ k = 3 => waiting'.type = "ENUM_ELEMENTS"
      /\ k = 2 => waiting'.type = "QUERY_ELEMENTS"
      /\ k = 1 => waiting'.type = "LISTEN_ELEMENTS"
  <2>1. /\ DriverCalls(d)[1].type = "COMPRESS_EVENTS" /\ DriverCalls(d)[2].type = "ENUM_DEVICES"
        /\ DriverCalls(d)[3].type = "ENUM_ELEMENTS" /\ DriverCalls(d)[4].type = "QUERY_ELEMENTS"
        /\ DriverCalls(d)[5].type = "LISTEN_ELEMENTS"
    <3>1. \A type, body : Call(type, body).type = type
      BY DEF Call
    <3> QED
      BY <3>1, DriverCallsAre
  <2>2. 6 - 5 = 1 /\ 6 - 4 = 2 /\ 6 - 3 = 3 /\ 6 - 2 = 4 /\ 6 - 1 = 5
    OBVIOUS
  <2> QED
    BY <1>4, <1>6, <2>1, <2>2
<1>8. waiting' # None /\ toServer' = <<waiting'>>
  <2>1. GInv'
    BY GStart
  <2>2. toServer = <<>>
    BY <1>1 DEF GInv, ExchangeInv, Unanswered
  <2>3. toServer' = <<waiting'>>
    BY <1>1, <2>2
  <2> QED
    BY <2>1, <2>3 DEF GInv, ExchangeInv, Unanswered
<1>9. Unanswered' /\ ~Answered'
  BY <1>8 DEF Unanswered, Answered
<1>10. /\ report = [x \in Device |-> FALSE] /\ reported = <<>> /\ got = <<>> /\ events = <<>>
       /\ toClient = <<>>
  <2>1. Silent /\ ~Answered
    BY <1>1, <1>3 DEF Silent, Answered
  <2>2. /\ report = [x \in Device |-> FALSE] /\ reported = <<>> /\ got = <<>> /\ events = <<>>
        /\ DOMAIN toClient = {}
    BY <2>1 DEF DriverInv, SilentInv
  <2>3. toClient \in Seq(Packets) /\ (toClient # <<>> => Len(toClient) \in Nat \ {0})
    BY EmptySeq DEF GInv, TypeOK
  <2>4. DOMAIN toClient = 1 .. Len(toClient)
    BY <2>3, LenProperties
  <2> QED
    BY <2>2, <2>3, <2>4
<1>11. StageInv'
  <2>1. \E x \in Device : \E l \in 0 .. 5 : todo' = Remaining(x, l)
    BY <1>4, <1>5
  <2>2. \/ Len(todo') = 4 /\ waiting'.type = "COMPRESS_EVENTS"
        \/ Len(todo') \in {2, 3} /\ waiting'.type \in {"ENUM_DEVICES", "ENUM_ELEMENTS"}
        \/ Len(todo') = 1 /\ waiting'.type = "QUERY_ELEMENTS"
        \/ Len(todo') = 0 /\ waiting'.type = "LISTEN_ELEMENTS"
    <3>1. k = 5 \/ k = 4 \/ k = 3 \/ k = 2 \/ k = 1
      BY <1>3
    <3> QED
      BY <1>5, <1>7, <3>1
  <2> QED
    BY <2>1, <2>2 DEF StageInv, Remaining
<1>12. FirstInv' /\ CompressInv'
  BY <1>1, <1>9, <1>10 DEF DriverInv, FirstInv, CompressInv, Answered, server
<1>13. SilentInv'
  <2>1. /\ report' = [x \in Device |-> FALSE] /\ reported' = <<>> /\ got' = <<>> /\ events' = <<>>
        /\ DOMAIN toClient' = {}
    BY <1>1, <1>10 DEF server
  <2>2. Len(todo) > 1 => view = [e \in Element |-> 0]
    BY DEF DriverInv, SilentInv
  <2>3. Len(todo') >= 1 => view' = [e \in Element |-> 0]
    BY <1>1, <1>3, <1>5, <2>2
  <2>4. Len(todo') > 1 \/ Len(todo') = 1 => Len(todo') >= 1
    BY <1>5
  <2> QED
    BY <2>1, <2>3, <2>4 DEF SilentInv
<1>14. NoticeInv'
  <2>1. waiting'.type # "DUMP_EVENTS"
    BY <1>3, <1>7
  <2>2. ~Dumps' /\ ~NoticeSent' /\ ~sent_events_avail
    BY <1>1, <1>10, <2>1 DEF Dumps, NoticeSent, DriverInv, NoticeInv
  <2> QED
    BY <1>1, <1>10, <2>2 DEF NoticeInv, server
<1>15. OrderInv'
  BY <1>1 DEF DriverInv, OrderInv, Ascending, Precedes, Newer, InTransit, server
<1> QED
  BY <1>11, <1>12, <1>13, <1>14, <1>15 DEF DriverInv

\* The client takes the answer.
LEMMA DAnswer ==
    ASSUME GInv, DriverInv, NEW p, nidReceivePacket_Answer(p)
    PROVE  DriverInv'
<1> TypeOK /\ StageInv /\ FirstInv /\ SilentInv /\ CompressInv /\ NoticeInv /\ OrderInv
  BY DEF GInv, DriverInv
<1>1. /\ Reads(p) /\ waiting # None /\ waiting' = None /\ p.request = waiting.request
      /\ UNCHANGED <<todo, toServer, compress, sent_events_avail, report, events, reported>>
      /\ compressed' = (compressed \/ (waiting.type = "COMPRESS_EVENTS" /\ p.type = "ACK"))
  BY DEF nidReceivePacket_Answer, server
<1>2. /\ 1 \in DOMAIN toClient /\ p = toClient[1]
      /\ Len(toClient) \in Nat \ {0} /\ DOMAIN toClient = 1 .. Len(toClient)
      /\ Len(toClient') = Len(toClient) - 1 /\ DOMAIN toClient' = 1 .. Len(toClient) - 1
      /\ \A i \in DOMAIN toClient' : toClient'[i] = toClient[i + 1] /\ i + 1 \in DOMAIN toClient
      /\ toClient' \in Seq(Packets)
  BY <1>1, ReadsFirst
<1>3. Answered /\ ~Dumps /\ ~Answered' /\ ~Unanswered'
  <2>1. toServer = <<>>
    BY <1>1, <1>2 DEF GInv, ExchangeInv
  <2> QED
    BY <1>1, <2>1 DEF Answered, Unanswered, Dumps
<1>4. /\ p.type # "EVENTS_AVAIL" /\ (waiting.type = "COMPRESS_EVENTS" => p.type = "ACK")
      /\ p.type = "ELEMENT_EVENTS" <=> waiting.type = "DUMP_EVENTS"
  BY <1>2, <1>3 DEF FirstInv
<1>5. /\ waiting.type = "DUMP_EVENTS" => Len(todo) = 0
      /\ waiting.type = "QUERY_ELEMENTS" => Len(todo) = 1
      /\ waiting.type # "DUMP_EVENTS" => got' = got
      /\ waiting.type \notin {"DUMP_EVENTS", "QUERY_ELEMENTS"} => view' = view
  <2>1. /\ waiting.type = "DUMP_EVENTS" => Len(todo) = 0
        /\ waiting.type = "QUERY_ELEMENTS" => Len(todo) = 1
    BY <1>1 DEF StageInv
  <2> QED
    BY <2>1 DEF nidReceivePacket_Answer
<1>6. StageInv'
  BY <1>1 DEF StageInv
<1>7. FirstInv'
  <2>1. ASSUME NEW i \in DOMAIN toClient'
        PROVE  /\ toClient'[i].request = 0
               /\ toClient'[i].type = IF compress THEN "EVENTS_AVAIL" ELSE "ELEMENT_EVENTS"
    <3>1. i + 1 # 1
      BY <1>2
    <3> QED
      BY <1>2, <3>1 DEF FirstInv
  <2> QED
    BY <1>1, <1>3, <2>1 DEF FirstInv
<1>8. SilentInv'
  <2>1. Silent' => Silent /\ Len(todo) > 0
    BY <1>1, <1>3 DEF Silent
  <2>2. ASSUME Silent, Len(todo) > 0
        PROVE  /\ report' = [d \in Device |-> FALSE] /\ reported' = <<>> /\ got' = <<>> /\ events' = <<>>
               /\ DOMAIN toClient' = {}
    <3>1. \A i \in DOMAIN toClient : i = 1
      BY <2>2 DEF SilentInv
    <3>2. DOMAIN toClient' = {}
      BY <1>2, <3>1
    <3> QED
      BY <1>1, <1>5, <2>2, <3>2 DEF SilentInv
  <2>3. Len(todo) > 1 => view' = [e \in Element |-> 0]
    <3>1. Len(todo) > 1 => view = [e \in Element |-> 0]
      BY DEF SilentInv
    <3>2. Len(todo) > 1 => Len(todo) # 0 /\ Len(todo) # 1
      <4>1. Len(todo) \in Nat
        BY LenProperties DEF TypeOK
      <4>2. \A m \in Nat : m > 1 => m # 0 /\ m # 1
        OBVIOUS
      <4> QED
        BY <4>1, <4>2, Zenon
    <3>3. Len(todo) > 1 => view' = view
      BY <1>5, <3>2
    <3> QED
      BY <3>1, <3>3
  <2> QED
    BY <1>1, <2>1, <2>2, <2>3 DEF SilentInv
<1>9. CompressInv'
  <2>1. compressed' = (compressed \/ waiting.type = "COMPRESS_EVENTS")
    BY <1>1, <1>4
  <2> QED
    BY <1>1, <1>3, <2>1 DEF CompressInv
<1>10. NoticeInv'
  <2>1. NoticeSent' <=> NoticeSent
    <3>1. CASE Len(toClient) = 1
      <4>1. ~NoticeSent
        BY <1>2, <1>4, <3>1 DEF NoticeSent
      <4>2. toClient' = <<>>
        BY <1>2, <3>1, EmptySeq
      <4> QED
        BY <4>1, <4>2 DEF NoticeSent
    <3>2. CASE Len(toClient) # 1
      <4>1. Len(toClient') \in DOMAIN toClient' /\ Len(toClient') + 1 = Len(toClient)
        BY <1>2, <3>2
      <4>2. toClient' # <<>> /\ toClient # <<>>
        BY <1>2, <4>1
      <4> QED
        BY <1>2, <4>1, <4>2 DEF NoticeSent
    <3> QED
      BY <3>1, <3>2
  <2>2. ASSUME NEW i \in DOMAIN toClient', toClient'[i].type = "EVENTS_AVAIL"
        PROVE  i = Len(toClient')
    <3>1. i + 1 = Len(toClient)
      BY <1>2, <2>2 DEF NoticeInv
    <3> QED
      BY <1>2, <3>1
  <2>3. ~Dumps'
    BY <1>3 DEF Dumps
  <2> QED
    BY <1>1, <1>3, <2>1, <2>2, <2>3 DEF NoticeInv
<1>11. OrderInv'
  <2>1. CASE waiting.type = "DUMP_EVENTS"
    <3>1. Pushes(p.body) /\ Carried(p) = p.body
      BY <1>4, <2>1 DEF nidReceivePacket_Answer, Carried
    <3>2. got' = got \o Carried(p) /\ view' = Latest(view, Carried(p))
      BY <3>1 DEF Pushes
    <3>3. UNCHANGED <<events, reported>>
      BY <1>1
    <3> QED
      BY <1>1, <3>2, <3>3, OrderReads
  <2>2. CASE waiting.type = "QUERY_ELEMENTS"
    <3>1. Silent /\ Len(todo) > 0
      BY <1>5, <2>2 DEF Silent
    <3>2. got' = <<>> /\ events' = <<>> /\ reported' = <<>> /\ \A i \in DOMAIN toClient : i = 1
      BY <1>1, <1>5, <2>2, <3>1 DEF SilentInv
    <3>3. DOMAIN toClient' = {}
      BY <1>2, <3>2
    <3> QED
      BY <3>2, <3>3 DEF OrderInv, Ascending, Precedes, Newer, Range
  <2>3. CASE waiting.type \notin {"DUMP_EVENTS", "QUERY_ELEMENTS"}
    <3>1. Carried(p) = <<>>
      BY <1>4, <2>3 DEF Carried
    <3> QED
      BY <1>1, <1>5, <2>3, <3>1, OrderPasses
  <2> QED
    BY <2>1, <2>2, <2>3
<1> QED
  BY <1>6, <1>7, <1>8, <1>9, <1>10, <1>11 DEF DriverInv

\* When nothing is asked for, the client takes what comes.
LEMMA DNextEvents ==
    ASSUME GInv, DriverInv, NEW p, nidNextEvents(p)
    PROVE  DriverInv' /\ p.type = "ELEMENT_EVENTS" /\ Pushes(p.body)
<1> TypeOK /\ StageInv /\ FirstInv /\ SilentInv /\ CompressInv /\ NoticeInv /\ OrderInv
  BY DEF GInv, DriverInv
<1>1. /\ todo = <<>> /\ waiting = None /\ ~compressed /\ Reads(p)
      /\ UNCHANGED <<todo, waiting, compressed, toServer, compress, sent_events_avail, report, events, reported>>
  BY DEF nidNextEvents, Listening, server
<1>2. /\ 1 \in DOMAIN toClient /\ p = toClient[1]
      /\ Len(toClient) \in Nat \ {0} /\ DOMAIN toClient = 1 .. Len(toClient)
      /\ Len(toClient') = Len(toClient) - 1 /\ DOMAIN toClient' = 1 .. Len(toClient) - 1
      /\ \A i \in DOMAIN toClient' : toClient'[i] = toClient[i + 1] /\ i + 1 \in DOMAIN toClient
      /\ toClient' \in Seq(Packets)
  BY <1>1, ReadsFirst
<1>3. ~Answered /\ ~Unanswered /\ ~Answered' /\ ~Unanswered' /\ ~Dumps'
  BY <1>1 DEF Answered, Unanswered, Dumps
<1>4. ~compress
  BY <1>1, <1>3 DEF CompressInv
<1>5. \A i \in DOMAIN toClient : toClient[i].request = 0 /\ toClient[i].type = "ELEMENT_EVENTS"
  BY <1>3, <1>4 DEF FirstInv
<1>6. \A i \in DOMAIN toClient' : toClient'[i].request = 0 /\ toClient'[i].type = "ELEMENT_EVENTS"
  BY <1>2, <1>5
<1>7. Pushes(p.body) /\ p.type = "ELEMENT_EVENTS"
  BY <1>2, <1>5 DEF nidNextEvents
<1>8. StageInv' /\ CompressInv'
  BY <1>1, <1>3 DEF StageInv, CompressInv
<1>9. FirstInv'
  BY <1>1, <1>3, <1>4, <1>6 DEF FirstInv
<1>10. SilentInv'
  <2>1. Len(todo') = 0
    BY <1>1
  <2> QED
    BY <1>3, <2>1 DEF SilentInv, Silent
<1>11. NoticeInv'
  <2>1. toClient' # <<>> => Len(toClient') \in DOMAIN toClient'
    <3>1. toClient' # <<>> => Len(toClient') # 0
      BY <1>2, EmptySeq
    <3> QED
      BY <1>2, <3>1
  <2>2. ~NoticeSent'
    BY <1>6, <2>1 DEF NoticeSent
  <2>3. ~sent_events_avail
    BY <1>4 DEF NoticeInv
  <2> QED
    BY <1>1, <1>3, <1>4, <1>6, <2>2, <2>3 DEF NoticeInv
<1>12. OrderInv'
  <2>1. Carried(p) = p.body
    BY <1>7 DEF Carried
  <2> QED
    BY <1>1, <1>7, <2>1, OrderReads DEF Pushes
<1> QED
  BY <1>7, <1>8, <1>9, <1>10, <1>11, <1>12 DEF DriverInv

\* The client that asks for its events takes the notice, and asks.
LEMMA DCompressedThread ==
    ASSUME GInv, DriverInv, NEW p, nid_compressed_thread(p)
    PROVE  DriverInv'
<1> TypeOK /\ StageInv /\ FirstInv /\ SilentInv /\ CompressInv /\ NoticeInv /\ OrderInv
  BY DEF GInv, DriverInv
<1>1. /\ todo = <<>> /\ waiting = None /\ compressed /\ Reads(p)
      /\ UNCHANGED <<todo, compressed, view, got, compress, sent_events_avail, report, events, reported>>
  BY DEF nid_compressed_thread, Listening, server
<1>2. /\ 1 \in DOMAIN toClient /\ p = toClient[1]
      /\ Len(toClient) \in Nat \ {0} /\ DOMAIN toClient = 1 .. Len(toClient)
      /\ Len(toClient') = Len(toClient) - 1 /\ toClient' \in Seq(Packets)
  BY <1>1, ReadsFirst
<1>3. ~Answered /\ compress
  BY <1>1 DEF Answered, CompressInv
<1>4. p.type = "EVENTS_AVAIL" /\ Len(toClient) = 1
  <2>1. p.type = "EVENTS_AVAIL"
    BY <1>2, <1>3 DEF FirstInv
  <2> QED
    BY <1>2, <2>1 DEF NoticeInv
<1>5. toClient' = <<>> /\ NoticeSent
  <2>1. toClient' = <<>>
    BY <1>2, <1>4, EmptySeq
  <2>2. toClient # <<>>
    BY <1>1 DEF Reads
  <2> QED
    BY <1>2, <1>4, <2>1, <2>2 DEF NoticeSent
<1>6. waiting'.type = "DUMP_EVENTS" /\ Unanswered' /\ ~Answered' /\ Dumps'
  <2>1. /\ waiting' = Packet(next_request, "DUMP_EVENTS", <<>>)
        /\ toServer' = Append(toServer, Packet(next_request, "DUMP_EVENTS", <<>>))
    BY <1>4 DEF nid_compressed_thread
  <2>2. waiting'.type = "DUMP_EVENTS"
    BY <2>1 DEF Packet
  <2>3. toServer = <<>>
    BY <1>1 DEF GInv, ExchangeInv, Unanswered
  <2>4. toServer' = <<waiting'>>
    BY <2>1, <2>3
  <2>5. Unanswered'
    <3>1. GInv'
      BY GCompressedThread
    <3> QED
      BY <2>4, <3>1 DEF GInv, ExchangeInv, Unanswered
  <2> QED
    BY <2>2, <2>4, <2>5 DEF Unanswered, Answered, Dumps
<1>7. StageInv'
  <2>1. Len(todo') = 0
    BY <1>1
  <2> QED
    BY <1>1, <1>6, <2>1 DEF StageInv
<1>8. FirstInv'
  BY <1>5, <1>6 DEF FirstInv
<1>9. SilentInv'
  <2>1. Len(todo') = 0
    BY <1>1
  <2> QED
    BY <1>6, <2>1 DEF SilentInv, Silent
<1>10. CompressInv'
  BY <1>1, <1>3, <1>6 DEF CompressInv
<1>11. NoticeInv'
  BY <1>1, <1>5, <1>6 DEF NoticeInv
<1>12. OrderInv'
  <2>1. Carried(p) = <<>>
    BY <1>4 DEF Carried
  <2> QED
    BY <1>1, <2>1, OrderPasses
<1> QED
  BY <1>7, <1>8, <1>9, <1>10, <1>11, <1>12 DEF DriverInv
\* A packet is added behind the answer, if one is on its way.
LEMMA FirstKept ==
    ASSUME TypeOK, FirstInv, ~Unanswered, NEW r \in Packets, r.request = 0,
           r.type = IF compress THEN "EVENTS_AVAIL" ELSE "ELEMENT_EVENTS",
           toClient' = Append(toClient, r), UNCHANGED <<waiting, toServer, compress>>
    PROVE  FirstInv'
<1>1. /\ Len(toClient) \in Nat /\ DOMAIN toClient = 1 .. Len(toClient)
      /\ DOMAIN toClient' = 1 .. Len(toClient) + 1
      /\ \A i \in DOMAIN toClient : toClient'[i] = toClient[i]
      /\ toClient'[Len(toClient) + 1] = r /\ Len(toClient') = Len(toClient) + 1
  BY SendsLast
<1>2. toClient' # <<>>
  BY <1>1
<1>3. ~Unanswered' /\ (Answered' <=> Answered)
  BY DEF Unanswered, Answered
<1>4. ASSUME NEW i \in DOMAIN toClient'
      PROVE  IF Answered /\ i = 1
             THEN /\ toClient'[i].request = waiting.request /\ toClient'[i].type # "EVENTS_AVAIL"
                  /\ waiting.type = "COMPRESS_EVENTS" => toClient'[i].type = "ACK"
                  /\ toClient'[i].type = "ELEMENT_EVENTS" <=> waiting.type = "DUMP_EVENTS"
             ELSE /\ toClient'[i].request = 0
                  /\ toClient'[i].type = IF compress THEN "EVENTS_AVAIL" ELSE "ELEMENT_EVENTS"
  <2>1. CASE i \in DOMAIN toClient
    BY <1>1, <2>1 DEF FirstInv
  <2>2. CASE i \notin DOMAIN toClient
    <3>1. toClient'[i] = r /\ i = Len(toClient) + 1
      BY <1>1, <2>2
    <3>2. Answered => i # 1
      <4>1. Answered => Len(toClient) # 0
        <5>1. toClient \in Seq(Packets) /\ (Answered => toClient # <<>>)
          BY DEF TypeOK, FirstInv
        <5> QED
          BY <5>1, EmptySeq
      <4> QED
        BY <1>1, <3>1, <4>1
    <3> QED
      BY <3>1, <3>2
  <2> QED
    BY <2>1, <2>2
<1> QED
  BY <1>2, <1>3, <1>4 DEF FirstInv

\* An event is reported, or the driver has not asked for it.
LEMMA DChange ==
    ASSUME GInv, DriverInv, NEW e \in Element, NEW is_init, js_handler(e, is_init)
    PROVE  DriverInv'
<1> TypeOK /\ StageInv /\ FirstInv /\ SilentInv /\ CompressInv /\ NoticeInv /\ OrderInv
  BY DEF GInv, DriverInv
<1>1. PICK n \in 0 .. MaxChanges :
            /\ state' = [state EXCEPT ![e] = n] /\ \A x \in Element : state[x] < n
            /\ \/ ~is_init /\ report[e[1]] /\ nidServer_addEvent(Status(e, n))
               \/ UNCHANGED <<toClient, sent_events_avail, events, reported>>
  BY NewNumber DEF GInv
<1>2. UNCHANGED <<todo, waiting, compressed, view, got, toServer, compress, report>>
  BY DEF js_handler, client
<1>3. CASE UNCHANGED <<toClient, sent_events_avail, events, reported>>
  <2>1. UNCHANGED driverVars
    BY <1>2, <1>3 DEF driverVars
  <2> QED
    BY <2>1, DSame
<1>4. CASE report[e[1]] /\ nidServer_addEvent(Status(e, n))
  <2> PICK s \in Statuses : s = Status(e, n) /\ s.n = n
    <3>1. Status(e, n) \in Statuses /\ Status(e, n).n = n
      BY DEF Status, Statuses
    <3> QED
      BY <3>1
  <2> PICK r \in Packets : r = Packet(0, "EVENTS_AVAIL", <<>>) /\ r.request = 0 /\ r.type = "EVENTS_AVAIL"
    <3> DEFINE q == Packet(0, "EVENTS_AVAIL", <<>>)
    <3>1. q \in Packets /\ q.request = 0 /\ q.type = "EVENTS_AVAIL"
      BY EmptySeq DEF Packet, Packets
    <3> HIDE DEF q
    <3>2. \E r \in Packets : r = q /\ r.request = 0 /\ r.type = "EVENTS_AVAIL"
      BY <3>1
    <3> QED
      BY <3>2 DEF q
  <2>1. /\ toClient' = IF Notice(s) THEN Append(toClient, r) ELSE toClient
        /\ sent_events_avail' = (sent_events_avail \/ Notice(s))
        /\ events' = Append(events, s) /\ reported' = Append(reported, s)
    BY <1>4 DEF nidServer_addEvent, Notice
  <2>2. ~Silent /\ Len(todo) = 0
    <3>1. report[e[1]] /\ e[1] \in Device
      BY <1>4 DEF Element
    <3>2. report # [d \in Device |-> FALSE]
      BY <3>1
    <3>3. ~Silent
      BY <3>2 DEF SilentInv
    <3>4. Len(todo) \in Nat
      BY LenProperties DEF TypeOK
    <3> QED
      BY <3>3, <3>4 DEF Silent
  <2>3. ~Silent' /\ SilentInv'
    <3>1. ~Silent'
      BY <1>2, <2>2 DEF Silent, Unanswered
    <3>2. Len(todo') = 0
      BY <1>2, <2>2
    <3> QED
      BY <3>1, <3>2 DEF SilentInv
  <2>4. StageInv' /\ CompressInv'
    BY <1>2 DEF StageInv, CompressInv, Answered
  <2>5. events' # <<>>
    <3>1. Len(events') # 0
      BY <2>1, AppendProperties, LenProperties DEF TypeOK
    <3> QED
      BY <3>1
  <2>6. OrderInv'
    <3>1. /\ Range(reported') = Range(reported) \cup {s} /\ Range(events') = Range(events) \cup {s}
          /\ Ascending(events') /\ Newer(events') /\ Precedes(got, events')
          /\ \A i \in DOMAIN toClient : Precedes(InTransit(i), events')
      BY <1>1, <2>1, EventAdded
    <3>2. Carried(r) = <<>> /\ toClient' \in {toClient, Append(toClient, r)}
      BY <2>1 DEF Carried
    <3>3. UNCHANGED <<got, view>>
      BY <1>2
    <3> QED
      BY <3>1, <3>2, <3>3, OrderServes
  <2>7. CASE Notice(s)
    <3>1. compress /\ ~sent_events_avail /\ toClient' = Append(toClient, r) /\ sent_events_avail' = TRUE
      BY <2>1, <2>7 DEF Notice
    <3>2. ~NoticeSent /\ ~Dumps
      BY <3>1 DEF NoticeInv
    <3>3. ~Unanswered
      BY <2>2, <3>2 DEF StageInv, Unanswered, Dumps, Silent
    <3>4. FirstInv'
      BY <1>2, <3>1, <3>3, FirstKept
    <3>5. /\ Len(toClient) \in Nat /\ DOMAIN toClient = 1 .. Len(toClient)
          /\ DOMAIN toClient' = 1 .. Len(toClient) + 1
          /\ \A i \in DOMAIN toClient : toClient'[i] = toClient[i]
          /\ toClient'[Len(toClient) + 1] = r /\ Len(toClient') = Len(toClient) + 1
      BY <3>1, SendsLast
    <3>6. NoticeSent'
      BY <3>5 DEF NoticeSent
    <3>7. ASSUME NEW i \in DOMAIN toClient', toClient'[i].type = "EVENTS_AVAIL"
          PROVE  i = Len(toClient')
      <4>1. i \notin DOMAIN toClient
        <5> SUFFICES ASSUME i \in DOMAIN toClient PROVE FALSE
          OBVIOUS
        <5>1. toClient[i].type = "EVENTS_AVAIL" /\ i = Len(toClient)
          BY <3>5, <3>7 DEF NoticeInv
        <5>2. toClient # <<>>
          OBVIOUS
        <5> QED
          BY <3>2, <5>1, <5>2 DEF NoticeSent
      <4> QED
        BY <3>5, <4>1
    <3>8. NoticeInv'
      BY <1>2, <2>5, <3>1, <3>6, <3>7 DEF NoticeInv
    <3> QED
      BY <2>3, <2>4, <2>6, <3>4, <3>8 DEF DriverInv
  <2>8. CASE ~Notice(s)
    <3>1. toClient' = toClient /\ sent_events_avail' = sent_events_avail /\ (compress => sent_events_avail)
      BY <2>1, <2>8 DEF Notice, TypeOK
    <3>2. FirstInv'
      BY <1>2, <3>1 DEF FirstInv, Answered, Unanswered
    <3>3. NoticeInv'
      BY <1>2, <2>5, <3>1 DEF NoticeInv, NoticeSent, Dumps, Unanswered
    <3> QED
      BY <2>3, <2>4, <2>6, <3>2, <3>3 DEF DriverInv
  <2> QED
    BY <2>7, <2>8
<1> QED
  BY <1>1, <1>3, <1>4

\* The server's loop sends the events to a client that does not ask for them.
LEMMA DUpdate ==
    ASSUME GInv, DriverInv, main_Update
    PROVE  DriverInv'
<1> TypeOK /\ StageInv /\ FirstInv /\ SilentInv /\ CompressInv /\ NoticeInv /\ OrderInv
  BY DEF GInv, DriverInv
<1> PICK r \in Packets : /\ r = Packet(0, "ELEMENT_EVENTS", events)
                         /\ r.request = 0 /\ r.type = "ELEMENT_EVENTS" /\ r.body = events
  <2> DEFINE q == Packet(0, "ELEMENT_EVENTS", events)
  <2>1. q \in Packets /\ q.request = 0 /\ q.type = "ELEMENT_EVENTS" /\ q.body = events
    BY DEF Packet, Packets, TypeOK
  <2> HIDE DEF q
  <2>2. \E r \in Packets : r = q /\ r.request = 0 /\ r.type = "ELEMENT_EVENTS" /\ r.body = events
    BY <2>1
  <2> QED
    BY <2>2 DEF q
<1>1. /\ ~compress /\ events # <<>>
      /\ toClient' = Append(toClient, r) /\ events' = <<>> /\ sent_events_avail' = FALSE
      /\ UNCHANGED <<todo, waiting, compressed, view, got, toServer, compress, report, reported>>
  BY DEF main_Update, Flushed, client
<1>2. ~Silent /\ Len(todo) = 0
  <2>1. ~Silent
    BY <1>1 DEF SilentInv
  <2>2. Len(todo) \in Nat
    BY LenProperties DEF TypeOK
  <2> QED
    BY <2>1, <2>2 DEF Silent
<1>3. ~Unanswered /\ ~Dumps /\ ~NoticeSent
  <2>1. ~sent_events_avail /\ ~compressed
    BY <1>1 DEF NoticeInv, CompressInv
  <2>2. ~Dumps /\ ~NoticeSent
    BY <2>1 DEF NoticeInv
  <2> QED
    BY <1>2, <2>1, <2>2 DEF StageInv, Unanswered, Silent
<1>4. StageInv' /\ CompressInv'
  BY <1>1 DEF StageInv, CompressInv, Answered
<1>5. FirstInv'
  BY <1>1, <1>3, FirstKept
<1>6. SilentInv'
  <2>1. ~Silent'
    BY <1>1, <1>2 DEF Silent, Unanswered
  <2>2. Len(todo') = 0
    BY <1>1, <1>2
  <2> QED
    BY <2>1, <2>2 DEF SilentInv
<1>7. NoticeInv'
  <2>1. /\ Len(toClient) \in Nat /\ DOMAIN toClient = 1 .. Len(toClient)
        /\ DOMAIN toClient' = 1 .. Len(toClient) + 1
        /\ \A i \in DOMAIN toClient : toClient'[i] = toClient[i]
        /\ toClient'[Len(toClient) + 1] = r /\ Len(toClient') = Len(toClient) + 1
    BY <1>1, SendsLast
  <2>2. ~NoticeSent' /\ ~Dumps'
    BY <1>1, <1>3, <2>1 DEF NoticeSent, Dumps, Unanswered
  <2>3. ASSUME NEW i \in DOMAIN toClient', toClient'[i].type = "EVENTS_AVAIL"
        PROVE  FALSE
    <3>1. i \in DOMAIN toClient /\ toClient[i].type = "EVENTS_AVAIL"
      BY <2>1, <2>3
    <3>2. i = Len(toClient) /\ toClient # <<>>
      BY <3>1 DEF NoticeInv
    <3> QED
      BY <1>3, <3>1, <3>2 DEF NoticeSent
  <2> QED
    BY <1>1, <2>2, <2>3 DEF NoticeInv
<1>8. OrderInv'
  <2>1. Carried(r) = events
    BY DEF Carried
  <2>2. UNCHANGED <<got, view, reported>>
    BY <1>1
  <2> QED
    BY <1>1, <2>1, <2>2, OrderFlushes
<1> QED
  BY <1>4, <1>5, <1>6, <1>7, <1>8 DEF DriverInv
\* What the server does to the request that the driver waits for.
LEMMA Serves ==
    ASSUME GInv, DriverInv, proc_pkt
    PROVE  /\ Unanswered /\ toServer' = <<>>
           /\ UNCHANGED <<todo, waiting, compressed, view, got, reported>>
           /\ events' = <<>> /\ sent_events_avail' = FALSE
           /\ compress' = (compress \/ waiting.type = "COMPRESS_EVENTS")
           /\ waiting.type # "LISTEN_ELEMENTS" => report' = report
           /\ \E r \in Packets :
                /\ toClient' = Append(toClient, r) /\ r.request = waiting.request
                /\ r.type # "EVENTS_AVAIL"
                /\ waiting.type = "COMPRESS_EVENTS" => r.type = "ACK"
                /\ r.type = "ELEMENT_EVENTS" <=> waiting.type = "DUMP_EVENTS"
                /\ Carried(r) = events
<1> TypeOK /\ ExchangeInv /\ StageInv /\ SilentInv /\ CompressInv /\ NoticeInv
  BY DEF GInv, DriverInv
<1>1. /\ toServer' = <<>> /\ UNCHANGED <<todo, waiting, compressed, view, got, reported>>
      /\ waiting # None /\ Head(toServer) = waiting /\ toServer = <<waiting>>
  BY ServesWaiting DEF proc_pkt, client
<1>2. /\ Unanswered /\ ~Answered /\ waiting.request \in Nat
  BY <1>1 DEF Unanswered, Answered, TypeOK, Requests
<1>3. \/ waiting.type \in {"ENUM_DEVICES", "ENUM_ELEMENTS"} /\ Len(todo) > 0
      \/ waiting.type = "COMPRESS_EVENTS" /\ Len(todo) > 0
      \/ waiting.type = "QUERY_ELEMENTS" /\ Len(todo) > 0
      \/ waiting.type = "LISTEN_ELEMENTS"
      \/ waiting.type = "DUMP_EVENTS" /\ compressed
  <2>1. \/ waiting.type \in {"ENUM_DEVICES", "ENUM_ELEMENTS"} /\ Len(todo) \in {2, 3}
        \/ waiting.type = "COMPRESS_EVENTS" /\ Len(todo) = 4
        \/ waiting.type = "QUERY_ELEMENTS" /\ Len(todo) = 1
        \/ waiting.type = "LISTEN_ELEMENTS"
        \/ waiting.type = "DUMP_EVENTS" /\ compressed
    BY <1>1 DEF StageInv
  <2>2. \A m \in {1, 2, 3, 4} : m > 0
    OBVIOUS
  <2> QED
    BY <2>1, <2>2
<1>4. waiting.type # "DUMP_EVENTS" => events = <<>> /\ sent_events_avail = FALSE
  <2>1. waiting.type # "DUMP_EVENTS" => Silent
    BY <1>2, <1>3 DEF Silent
  <2> QED
    BY <2>1 DEF SilentInv, NoticeInv, TypeOK
<1>5. \A type \in {"LIST", "ACK", "NAK", "ELEMENT_STATES", "ELEMENT_EVENTS", "EVENTS_AVAIL"},
         body \in Seq(Statuses) :
        LET r == Packet(waiting.request, type, body)
        IN  r \in Packets /\ r.request = waiting.request /\ r.type = type /\ r.body = body
  BY <1>2 DEF Packet, Packets
<1>6. CASE waiting.type = "DUMP_EVENTS"
  <2> PICK r \in Packets : /\ r = Packet(waiting.request, "ELEMENT_EVENTS", events)
                           /\ r.request = waiting.request /\ r.type = "ELEMENT_EVENTS" /\ r.body = events
    BY <1>5 DEF TypeOK
  <2>1. compress /\ events # <<>>
    BY <1>2, <1>3, <1>6 DEF CompressInv, NoticeInv, Dumps
  <2>2. Flushed(waiting.request) /\ compress' = compress /\ report' = report
    BY <1>1, <1>6, <2>1 DEF proc_pkt
  <2>3. toClient' = Append(toClient, r) /\ events' = <<>> /\ sent_events_avail' = FALSE
    BY <2>1, <2>2 DEF Flushed
  <2>4. Carried(r) = events
    BY DEF Carried
  <2> QED
    BY <1>1, <1>2, <1>6, <2>1, <2>2, <2>3, <2>4
<1>7. CASE waiting.type # "DUMP_EVENTS"
  <2>1. /\ events' = <<>> /\ sent_events_avail' = FALSE
        /\ compress' = (compress \/ waiting.type = "COMPRESS_EVENTS")
        /\ waiting.type # "LISTEN_ELEMENTS" => report' = report
    BY <1>1, <1>3, <1>4, <1>7 DEF proc_pkt, TypeOK
  <2>2. \E type \in {"LIST", "ACK", "ELEMENT_STATES"}, body \in Seq(Statuses) :
            /\ toClient' = Append(toClient, Packet(waiting.request, type, body))
            /\ waiting.type = "COMPRESS_EVENTS" => type = "ACK"
    <3>1. <<>> \in Seq(Statuses)
      BY EmptySeq
    <3>2. CASE waiting.type = "QUERY_ELEMENTS"
      <4>1. PICK d \in Device : waiting.body = ElementsOf(d)
        BY <1>1, <3>2 DEF ExchangeInv
      <4>2. Answer(waiting.body) \in Seq(Statuses)
        BY <4>1, AnswerForDevice DEF TypeOK
      <4>3. toClient' = Append(toClient, Packet(waiting.request, "ELEMENT_STATES", Answer(waiting.body)))
        BY <1>1, <3>2 DEF proc_pkt, Replies
      <4> QED
        BY <3>2, <4>2, <4>3
    <3>3. CASE waiting.type # "QUERY_ELEMENTS"
      <4>1. \E type \in {"LIST", "ACK"} :
                /\ toClient' = Append(toClient, Packet(waiting.request, type, <<>>))
                /\ waiting.type = "COMPRESS_EVENTS" => type = "ACK"
        BY <1>1, <1>3, <1>7, <3>3 DEF proc_pkt, Replies
      <4> QED
        BY <3>1, <4>1
    <3> QED
      BY <3>2, <3>3
  <2>3. PICK type \in {"LIST", "ACK", "ELEMENT_STATES"}, body \in Seq(Statuses) :
            /\ toClient' = Append(toClient, Packet(waiting.request, type, body))
            /\ waiting.type = "COMPRESS_EVENTS" => type = "ACK"
    BY <2>2
  <2> PICK r \in Packets : /\ r = Packet(waiting.request, type, body)
                           /\ r.request = waiting.request /\ r.type = type
    BY <1>5
  <2>4. r.type # "EVENTS_AVAIL" /\ r.type # "ELEMENT_EVENTS" /\ Carried(r) = events
    BY <1>4, <1>7 DEF Carried
  <2> QED
    BY <1>1, <1>2, <1>7, <2>1, <2>3, <2>4
<1> QED
  BY <1>6, <1>7

LEMMA DProc ==
    ASSUME GInv, DriverInv, proc_pkt
    PROVE  DriverInv'
<1> TypeOK /\ StageInv /\ FirstInv /\ SilentInv /\ CompressInv /\ OrderInv
  BY DEF GInv, DriverInv
<1>1. /\ Unanswered /\ toServer' = <<>>
      /\ UNCHANGED <<todo, waiting, compressed, view, got, reported>>
      /\ events' = <<>> /\ sent_events_avail' = FALSE
      /\ compress' = (compress \/ waiting.type = "COMPRESS_EVENTS")
      /\ waiting.type # "LISTEN_ELEMENTS" => report' = report
  BY Serves
<1>2. PICK r \in Packets :
        /\ toClient' = Append(toClient, r) /\ r.request = waiting.request
        /\ r.type # "EVENTS_AVAIL"
        /\ waiting.type = "COMPRESS_EVENTS" => r.type = "ACK"
        /\ r.type = "ELEMENT_EVENTS" <=> waiting.type = "DUMP_EVENTS"
        /\ Carried(r) = events
  BY Serves
<1>3. /\ toClient = <<>> /\ waiting' # None /\ waiting' = waiting
      /\ ~Answered /\ Answered' /\ ~Unanswered' /\ ~Dumps'
  <2>1. toClient = <<>> /\ waiting # None /\ toServer # <<>>
    BY <1>1 DEF FirstInv, Unanswered
  <2> QED
    BY <1>1, <2>1 DEF Unanswered, Answered, Dumps
<1>4. /\ toClient' # <<>> /\ DOMAIN toClient' = {1} /\ Len(toClient') = 1 /\ toClient'[1] = r
  BY <1>2, <1>3
<1>5. StageInv'
  BY <1>1 DEF StageInv
<1>6. FirstInv'
  BY <1>2, <1>3, <1>4 DEF FirstInv
<1>7. SilentInv'
  <2>1. Silent' => Silent /\ Len(todo) > 0
    BY <1>1, <1>3 DEF Silent
  <2>2. Len(todo) > 0 => waiting.type # "LISTEN_ELEMENTS"
    <3>1. waiting.type = "LISTEN_ELEMENTS" => Len(todo) = 0
      BY <1>3 DEF StageInv
    <3> QED
      BY <3>1
  <2>3. Silent' => /\ report' = [d \in Device |-> FALSE]
                   /\ reported' = <<>> /\ got' = <<>> /\ events' = <<>>
    BY <1>1, <2>1, <2>2 DEF SilentInv
  <2>4. Len(todo') > 1 \/ (Len(todo') = 1 /\ waiting' # None) => view' = [e \in Element |-> 0]
    BY <1>1 DEF SilentInv
  <2> QED
    BY <1>3, <1>4, <2>3, <2>4 DEF SilentInv
<1>8. CompressInv'
  BY <1>1, <1>3 DEF CompressInv
<1>9. NoticeInv'
  <2>1. ~NoticeSent'
    BY <1>2, <1>4 DEF NoticeSent
  <2> QED
    BY <1>1, <1>2, <1>3, <1>4, <2>1 DEF NoticeInv
<1>10. OrderInv'
  <2>1. UNCHANGED <<got, view, reported>>
    BY <1>1
  <2> QED
    BY <1>1, <1>2, <2>1, OrderFlushes
<1> QED
  BY <1>5, <1>6, <1>7, <1>8, <1>9, <1>10 DEF DriverInv

LEMMA DNext ==
    ASSUME IInv, [Next]_vars
    PROVE  IInv'
<1>1. GInv /\ DriverInv /\ GInv'
  BY GNext DEF IInv
<1>2. CASE UNCHANGED vars
  <2>1. UNCHANGED driverVars
    BY <1>2 DEF vars, client, server, driverVars
  <2> QED
    BY <1>1, <2>1, DSame DEF IInv
<1>3. CASE ClientStep
  BY <1>1, <1>3, DStart, NothingPassedOver, DAnswer, DNextEvents, DCompressedThread DEF ClientStep, IInv
<1>4. CASE proc_pkt \/ main_Update \/ \E e \in Element, is_init \in BOOLEAN : js_handler(e, is_init)
  BY <1>1, <1>4, DProc, DUpdate, DChange DEF IInv
<1> QED
  BY <1>2, <1>3, <1>4 DEF Next

LEMMA DriverInvariant ==
    ASSUME DriverOnly
    PROVE  Spec => []IInv
BY DInit, DNext, PTL DEF Spec

-----------------------------------------------------------------------------
(* What follows for the driver.                                             *)

\* All that is reported has been handed on, is on its way or waits, once and in
\* order: with the driver the words of nid.c:189-191 ("this is not necessarily
\* good") are about nothing.
THEOREM SkippedCorrect ==
    ASSUME DriverOnly
    PROVE  Spec => []NothingSkipped
<1>1. ASSUME IInv
      PROVE  NothingSkipped
  <2> DEFINE mid == [i \in DOMAIN toClient |-> Carried(toClient[i])]
             parts == <<got>> \o mid \o <<events>>
             last == Len(toClient) + 2
  <2>1. TypeOK /\ OrderInv
    BY <1>1 DEF IInv, GInv, DriverInv
  <2>2. /\ got \in Seq(Statuses) /\ events \in Seq(Statuses)
        /\ \A i \in DOMAIN toClient : mid[i] = InTransit(i) /\ InTransit(i) \in Seq(Statuses)
        /\ Len(toClient) \in Nat /\ DOMAIN toClient = 1 .. Len(toClient)
    BY <2>1, SequencesOfStates, LenProperties DEF TypeOK, InTransit
  <2>3. mid \in Seq(Seq(Statuses)) /\ Len(mid) = Len(toClient)
    <3>1. mid \in [1 .. Len(toClient) -> Seq(Statuses)]
      BY <2>2
    <3>2. mid \in Seq(Seq(Statuses))
      BY <2>2, <3>1, SeqDef
    <3> QED
      BY <2>2, <3>1, <3>2, LenProperties
  <2> HIDE DEF mid
  <2>4. /\ <<got>> \o mid \in Seq(Seq(Statuses)) /\ Len(<<got>> \o mid) = Len(toClient) + 1
        /\ (<<got>> \o mid)[1] = got
        /\ \A i \in DOMAIN toClient : (<<got>> \o mid)[i + 1] = mid[i]
    <3>1. <<got>> \in Seq(Seq(Statuses)) /\ Len(<<got>>) = 1 /\ <<got>>[1] = got
      BY <2>2
    <3>2. /\ <<got>> \o mid \in Seq(Seq(Statuses)) /\ Len(<<got>> \o mid) = Len(toClient) + 1
          /\ \A i \in 1 .. Len(toClient) + 1 :
                (<<got>> \o mid)[i] = IF i <= 1 THEN <<got>>[i] ELSE mid[i - 1]
      BY <2>2, <2>3, <3>1, ConcatProperties
    <3>3. 1 \in 1 .. Len(toClient) + 1
      BY <2>2
    <3>4. ASSUME NEW i \in DOMAIN toClient
          PROVE  i + 1 \in 1 .. Len(toClient) + 1 /\ ~(i + 1 <= 1) /\ (i + 1) - 1 = i
      BY <2>2
    <3> QED
      BY <3>1, <3>2, <3>3, <3>4
  <2>5. /\ DOMAIN parts = 1 .. last /\ parts[1] = got /\ parts[last] = events
        /\ \A i \in DOMAIN toClient : parts[i + 1] = InTransit(i)
    <3> DEFINE front == <<got>> \o mid
    <3>1. <<events>> \in Seq(Seq(Statuses)) /\ Len(<<events>>) = 1 /\ <<events>>[1] = events
      BY <2>2
    <3> HIDE DEF front
    <3>2. /\ front \in Seq(Seq(Statuses)) /\ Len(front) = Len(toClient) + 1 /\ front[1] = got
          /\ \A i \in DOMAIN toClient : front[i + 1] = mid[i]
      BY <2>4 DEF front
    <3>3. /\ front \o <<events>> \in Seq(Seq(Statuses)) /\ Len(front \o <<events>>) = last
          /\ \A i \in 1 .. last :
                (front \o <<events>>)[i] = IF i <= Len(toClient) + 1 THEN front[i]
                                           ELSE <<events>>[i - (Len(toClient) + 1)]
      BY <2>2, <3>1, <3>2, ConcatProperties
    <3>4. DOMAIN (front \o <<events>>) = 1 .. last
      BY <3>3, LenProperties
    <3>5. /\ 1 \in 1 .. last /\ 1 <= Len(toClient) + 1
          /\ last \in 1 .. last /\ ~(last <= Len(toClient) + 1) /\ last - (Len(toClient) + 1) = 1
          /\ \A i \in DOMAIN toClient : i + 1 \in 1 .. last /\ i + 1 <= Len(toClient) + 1
      BY <2>2
    <3>6. /\ (front \o <<events>>)[1] = got /\ (front \o <<events>>)[last] = events
          /\ \A i \in DOMAIN toClient : (front \o <<events>>)[i + 1] = InTransit(i)
      BY <2>2, <3>1, <3>2, <3>3, <3>5
    <3> QED
      BY <3>4, <3>6 DEF front
  <2> HIDE DEF parts
  <2>6. \A i \in DOMAIN parts : \/ i = 1 \/ i = last
                                \/ i - 1 \in DOMAIN toClient /\ parts[i] = InTransit(i - 1)
    <3>1. ASSUME NEW i \in 1 .. last, i # 1, i # last
          PROVE  i - 1 \in 1 .. Len(toClient) /\ (i - 1) + 1 = i
      BY <2>2, <3>1
    <3> QED
      BY <2>2, <2>5, <3>1
  <2>7. 1 \in DOMAIN parts /\ last \in DOMAIN parts /\ \A i \in DOMAIN toClient : i + 1 \in DOMAIN parts
    BY <2>2, <2>5
  <2>8. Range(reported) = UNION {Range(parts[i]) : i \in DOMAIN parts}
    <3>1. Range(reported) = Range(got) \cup Range(events)
                                       \cup UNION {Range(InTransit(i)) : i \in DOMAIN toClient}
      BY <2>1 DEF OrderInv
    <3>2. UNION {Range(parts[i]) : i \in DOMAIN parts}
            = Range(got) \cup Range(events) \cup UNION {Range(InTransit(i)) : i \in DOMAIN toClient}
      BY <2>5, <2>6, <2>7
    <3> QED
      BY <3>1, <3>2
  <2>9. \A i \in DOMAIN parts : Ascending(parts[i])
    BY <2>1, <2>5, <2>6 DEF OrderInv
  <2>10. ASSUME NEW i \in DOMAIN parts, NEW j \in DOMAIN parts, i < j
         PROVE  Precedes(parts[i], parts[j])
    <3>1. i # last /\ j # 1
      BY <2>2, <2>5, <2>10
    <3>2. CASE i = 1 /\ j = last
      BY <2>1, <2>5, <3>2 DEF OrderInv
    <3>3. CASE i = 1 /\ j # last
      BY <2>1, <2>5, <2>6, <3>1, <3>3 DEF OrderInv
    <3>4. CASE i # 1 /\ j = last
      BY <2>1, <2>5, <2>6, <3>1, <3>4 DEF OrderInv
    <3>5. CASE i # 1 /\ j # last
      <4>1. i - 1 < j - 1
        BY <2>2, <2>5, <2>10
      <4> QED
        BY <2>1, <2>6, <3>1, <3>5, <4>1 DEF OrderInv
    <3> QED
      BY <3>2, <3>3, <3>4, <3>5
  <2> QED
    BY <2>8, <2>9, <2>10 DEF NothingSkipped, Ascending, Precedes, parts, mid
<1> QED
  BY <1>1, DriverInvariant, PTL
\* What is read is newer than what was known.
LEMMA ReadsNewer ==
    ASSUME TypeOK, NEW sl \in Seq(Statuses), Newer(sl), Pushes(sl)
    PROVE  /\ \A e \in Element : view'[e] >= view[e]
           /\ \A i \in DOMAIN got' : i > Len(got) => got'[i].n > view[got'[i].elem]
<1>1. /\ got \in Seq(Statuses) /\ view \in [Element -> Nat]
      /\ got' = got \o sl /\ view' = Latest(view, sl)
  BY DEF TypeOK, Pushes
<1>2. ASSUME NEW e \in Element
      PROVE  view'[e] >= view[e]
  <2>1. view'[e] = view[e] \/ \E i \in DOMAIN sl : view'[e] = sl[i].n
    BY <1>1, LatestIsOneOf
  <2>2. \A i \in DOMAIN sl : view[e] < sl[i].n /\ sl[i].n \in Nat
    BY StatesHaveNumbers DEF Newer
  <2>3. view[e] \in Nat
    BY <1>1
  <2> QED
    BY <2>1, <2>2, <2>3
<1>3. ASSUME NEW i \in DOMAIN got', i > Len(got)
      PROVE  got'[i].n > view[got'[i].elem]
  <2>1. /\ Len(got) \in Nat /\ DOMAIN got = 1 .. Len(got)
        /\ i \in DOMAIN got' \ DOMAIN got => got'[i] = sl[i - Len(got)] /\ i - Len(got) \in DOMAIN sl
    BY <1>1, Joined
  <2>2. i \notin DOMAIN got
    BY <1>3, <2>1
  <2>3. PICK a \in DOMAIN sl : got'[i] = sl[a]
    BY <2>1, <2>2
  <2>4. sl[a].elem \in Element /\ sl[a].n \in Nat
    BY StatesHaveNumbers
  <2>5. view[sl[a].elem] < sl[a].n /\ view[sl[a].elem] \in Nat
    BY <1>1, <2>4 DEF Newer
  <2> QED
    BY <2>3, <2>4, <2>5
<1> QED
  BY <1>2, <1>3

\* What the driver knows of an element never goes back, and each event that it
\* hands on is newer than that: it asks for the states before the events
\* (venid.c:183-192), and no event waits behind an answer that had it.
THEOREM ForwardCorrect ==
    ASSUME DriverOnly
    PROVE  Spec => ViewGoesForward
<1> DEFINE Forward == /\ \A e \in Element : view'[e] >= view[e]
                      /\ \A i \in DOMAIN got' : i > Len(got) => got'[i].n > view[got'[i].elem]
<1>1. ASSUME TypeOK, UNCHANGED <<view, got>>
      PROVE  Forward
  <2>1. \A e \in Element : view[e] \in Nat
    BY <1>1 DEF TypeOK
  <2>2. Len(got) \in Nat /\ DOMAIN got = 1 .. Len(got)
    BY <1>1, LenProperties DEF TypeOK
  <2>3. \A i \in DOMAIN got : ~(i > Len(got))
    BY <2>2
  <2> QED
    BY <1>1, <2>1, <2>3
<1>2. ASSUME IInv, [Next]_vars
      PROVE  Forward
  <2> GInv /\ DriverInv /\ TypeOK /\ OrderInv
    BY <1>2 DEF IInv, GInv, DriverInv
  <2> HIDE DEF Forward
  <2>1. ASSUME NEW p, nidReceivePacket_Answer(p)
        PROVE  Forward
    <3>1. Reads(p) /\ waiting # None /\ p.request = waiting.request
      BY <2>1 DEF nidReceivePacket_Answer
    <3>2. 1 \in DOMAIN toClient /\ p = toClient[1] /\ p \in Packets
      BY <3>1, ReadsFirst
    <3>3. p.body \in Seq(Statuses)
      BY <3>2 DEF Packets
    <3>4. CASE waiting.type = "DUMP_EVENTS" /\ p.type = "ELEMENT_EVENTS"
      <4>1. Pushes(p.body)
        BY <2>1, <3>4 DEF nidReceivePacket_Answer
      <4>2. Newer(p.body)
        BY <3>2, <3>4 DEF OrderInv, InTransit, Carried
      <4> QED
        BY <3>3, <4>1, <4>2, ReadsNewer DEF Forward
    <3>5. CASE waiting.type = "QUERY_ELEMENTS"
      <4>1. got' = got /\ view' = Latest(view, p.body)
        BY <2>1, <3>5 DEF nidReceivePacket_Answer
      <4>2. view = [e \in Element |-> 0]
        BY <3>1, <3>5 DEF DriverInv, StageInv, SilentInv
      <4>3. view' \in [Element -> Nat] /\ got \in Seq(Statuses)
        BY <3>3, <4>1, LatestIsOneOf DEF TypeOK
      <4>4. \A e \in Element : view'[e] >= view[e]
        BY <4>2, <4>3
      <4>5. \A i \in DOMAIN got' : ~(i > Len(got))
        BY <4>1, <4>3, LenProperties
      <4> QED
        BY <4>4, <4>5 DEF Forward
    <3>6. CASE ~(waiting.type = "DUMP_EVENTS" /\ p.type = "ELEMENT_EVENTS") /\ waiting.type # "QUERY_ELEMENTS"
      BY <1>1, <2>1, <3>6 DEF nidReceivePacket_Answer
    <3> QED
      BY <3>4, <3>5, <3>6
  <2>2. ASSUME NEW p, nidNextEvents(p)
        PROVE  Forward
    <3>1. Reads(p) /\ p.type = "ELEMENT_EVENTS" /\ Pushes(p.body)
      BY <2>2, DNextEvents DEF nidNextEvents
    <3>2. 1 \in DOMAIN toClient /\ p = toClient[1] /\ p \in Packets
      BY <3>1, ReadsFirst
    <3>3. p.body \in Seq(Statuses) /\ Newer(p.body)
      BY <3>1, <3>2 DEF Packets, OrderInv, InTransit, Carried
    <3> QED
      BY <3>1, <3>3, ReadsNewer DEF Forward
  <2>3. CASE Start \/ \E p : nid_compressed_thread(p)
    BY <1>1, <2>3 DEF Start, exchange, nid_compressed_thread
  <2>4. CASE proc_pkt \/ main_Update \/ (\E e \in Element, is_init \in BOOLEAN : js_handler(e, is_init))
                \/ UNCHANGED vars
    BY <1>1, <2>4 DEF proc_pkt, main_Update, js_handler, client, vars
  <2> QED
    BY <1>2, <2>1, <2>2, <2>3, <2>4, NothingPassedOver DEF Next, ClientStep
<1>3. IInv /\ [Next]_vars => [Forward]_vars
  BY <1>2
<1> QED
  BY <1>3, DriverInvariant, PTL DEF Spec, ViewGoesForward

\* Events that wait for DUMP_EVENTS never wait for nothing: the notice is on its
\* way as the last packet, or the request is; and who has asked for events gets
\* an answer, which comes first: there are events to send (nid_server.c does not
\* answer otherwise), and the request is not one that the server refuses.
EventsAskedFor ==
    /\ compress /\ events # <<>> => NoticeSent \/ Dumps
    /\ waiting # None /\ waiting.type = "DUMP_EVENTS" =>
        \/ toServer = <<waiting>> /\ compress /\ events # <<>>
        \/ toClient # <<>> /\ toClient[1].request = waiting.request /\ toClient[1].type = "ELEMENT_EVENTS"

\* What DumpReturns and AllArrive rest on: no events without a notice or a
\* request on its way, no request for events without events.
THEOREM AskedForCorrect ==
    ASSUME DriverOnly
    PROVE  Spec => []EventsAskedFor
<1>1. ASSUME IInv
      PROVE  EventsAskedFor
  <2> TypeOK /\ ExchangeInv /\ FirstInv /\ NoticeInv
    BY <1>1 DEF IInv, GInv, DriverInv
  <2>1. compress /\ events # <<>> => NoticeSent \/ Dumps
    BY DEF NoticeInv
  <2>2. ASSUME waiting # None, waiting.type = "DUMP_EVENTS"
        PROVE  \/ toServer = <<waiting>> /\ compress /\ events # <<>>
               \/ /\ toClient # <<>> /\ toClient[1].request = waiting.request
                  /\ toClient[1].type = "ELEMENT_EVENTS"
    <3>1. CASE Unanswered
      BY <2>2, <3>1 DEF Dumps, NoticeInv, Unanswered
    <3>2. CASE toServer = <<>>
      <4>1. Answered /\ toClient # <<>>
        BY <2>2, <3>2 DEF Answered, FirstInv
      <4>2. 1 \in DOMAIN toClient
        <5>1. toClient \in Seq(Packets)
          BY DEF TypeOK
        <5>2. Len(toClient) \in Nat \ {0} /\ DOMAIN toClient = 1 .. Len(toClient)
          BY <4>1, <5>1, EmptySeq, LenProperties
        <5> QED
          BY <5>2
      <4> QED
        BY <2>2, <4>1, <4>2 DEF FirstInv
    <3> QED
      BY <3>1, <3>2 DEF ExchangeInv
  <2> QED
    BY <2>1, <2>2 DEF EventsAskedFor
<1> QED
  BY <1>1, DriverInvariant, PTL

\* With the driver an exchange never passes over a packet (nid.c:189-191).
THEOREM PassesOverNothing ==
    ASSUME DriverOnly
    PROVE  Spec => [][\A p \in Range(toClient) : ~nidReceivePacket_Skips(p)]_vars
<1>1. IInv => \A p \in Range(toClient) : ~nidReceivePacket_Skips(p)
  BY NothingPassedOver DEF IInv
<1> QED
  BY <1>1, DriverInvariant, PTL DEF Spec
=============================================================================
