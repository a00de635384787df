------------------------------- MODULE VeTxm -------------------------------
(* The texture manager, txm.c, with its OpenGL renderer in glx.c.  A        *)
(* texture has a slot in a table; its id for the application is the slot's  *)
(* index plus one.  Each graphics context knows which textures it has       *)
(* loaded, and under which of OpenGL's names.  There is no lock: render     *)
(* threads bind textures, each in its own context, and the application      *)
(* changes the table between the frames.                                    *)
EXTENDS Integers, Sequences, FiniteSets

CONSTANTS
    Context,        \* graphics contexts, one for each render thread
    Image,          \* what is in the data of textures
    Unloadable,     \* the images that ogl_load refuses
    Adds,           \* <<image, unique>>: textures that the application adds, and
                    \* whether it does so with TXM_UNIQUE
    Options,        \* values that the application sets options to; 0 if none is
    NoTexture,
    Sharing,        \* the values of the manager's flag TXM_MF_SHARED_IDS
    MaxTextures,    \* bound: slots
    MaxCalls,       \* bound: calls of the application between frames
    MaxReserved,    \* bound: names the application reserves for itself
    MaxNames,       \* bound: names that OpenGL, or the manager, gives out
    MaxRaces        \* bound: pairs of slots that are named at once

ASSUME TxmAssumption ==
    /\ 0 \notin Context
    /\ Unloadable \subseteq Image /\ NoTexture \notin Image
    /\ Adds \subseteq Image \X BOOLEAN
    /\ Sharing \subseteq BOOLEAN
    /\ MaxTextures \in Nat /\ MaxCalls \in Nat
    /\ MaxReserved \in Nat /\ MaxNames \in Nat /\ MaxRaces \in Nat

VARIABLES
    shared,         \* the manager's flag
    ntextures, textures,
    ids, loaded,    \* TXContext: OpenGL's name for each slot (0 for none), and
                    \* whether the texture is marked as loaded
    used,           \* names given out: by get_unique_sharedid (at 0), and by
                    \* glGenTextures in each context
    taken,          \* those that the application has reserved
    content,        \* OpenGL: what has been loaded under each name, and
    glbound,        \* the name that is bound
    job,            \* what the context's thread is doing: the slots it still
                    \* has to load, the one to bind, and the name that it has
                    \* counted for itself
    raced,          \* history: what was given names at the same time, with shared
                    \* ids: {i, j} if two threads named slots i and j at once
    changed,        \* history: slots that the application changed, and for
                    \* which no reload has been asked since
    calls           \* history: how many calls the application made

table == <<shared, ntextures, textures, changed, calls>>
naming == <<used, taken, raced>>
context == <<ids, loaded, content, glbound>>
vars == <<table, naming, context, job>>

Slot == 0 .. MaxTextures - 1
NoSlot == -1
Name == 1 .. MaxNames

Empty == [image |-> NoTexture, unique |-> FALSE, opt |-> 0]
Filled(i) == textures[i].image # NoTexture

\* What ogl_load makes of a texture: its data, in the way its options ask for.
Picture(i) == [image |-> textures[i].image, opt |-> textures[i].opt]
Blank == [image |-> NoTexture, opt |-> 0]

Idle == [at |-> "idle", todo |-> <<>>, bind |-> NoSlot, mine |-> 0]

Init ==
    /\ shared \in Sharing
    /\ ntextures = 0 /\ textures = [i \in Slot |-> Empty]
    /\ ids = [c \in Context |-> [i \in Slot |-> 0]]
    /\ loaded = [c \in Context |-> [i \in Slot |-> FALSE]]
    /\ used = [s \in Context \cup {0} |-> 0] /\ taken = [s \in Context \cup {0} |-> {}]
    /\ content = [c \in Context |-> [n \in Name |-> Blank]]
    /\ glbound = [c \in Context |-> 0]
    /\ job = [c \in Context |-> Idle] /\ raced = {}
    /\ changed = {} /\ calls = 0

-----------------------------------------------------------------------------
(* The application, while no thread is drawing.                             *)

BetweenFrames == \A c \in Context : job[c] = Idle
Calls == BetweenFrames /\ calls < MaxCalls /\ calls' = calls + 1

\* A texture like this one, if neither asks to be kept apart.
Duplicates(image, unique) ==
    {i \in 0 .. ntextures - 1 : ~unique /\ ~textures[i].unique /\ textures[i].image = image}

\* The last of the empty slots, or one more.
EmptySlots == {i \in 0 .. ntextures - 1 : ~Filled(i)}
FreeSlot(k) ==
    IF EmptySlots = {} THEN k = ntextures
    ELSE k \in EmptySlots /\ \A i \in EmptySlots : i <= k

txmAddTexture(image, unique) ==
    /\ Calls
    /\ Duplicates(image, unique) = {}       \* or the duplicate's id is the answer
    /\ \E k \in Slot :
        /\ FreeSlot(k)
        /\ textures' = [textures EXCEPT ![k] = [image |-> image, unique |-> unique, opt |-> 0]]
        /\ ntextures' = IF k = ntextures THEN ntextures + 1 ELSE ntextures
    /\ UNCHANGED <<shared, changed, naming, context, job>>

\* Definitions like the next one, named after the definition below them, are
\* faults to try the properties with.
Unloaded_Current(i) ==
    LET current == CHOOSE c \in Context : TRUE IN [loaded EXCEPT ![current][i] = FALSE]

\* In all the contexts.
Unloaded(i) == [c \in Context |-> [loaded[c] EXCEPT ![i] = FALSE]]

txmReloadTexture(id) ==
    /\ Calls
    /\ id - 1 \in 0 .. ntextures - 1
    /\ loaded' = Unloaded(id - 1)
    /\ changed' = changed \ {id - 1}
    /\ UNCHANGED <<shared, ntextures, textures, ids, content, glbound, naming, job>>

\* The slot's index goes to txmReloadTexture, which takes it for an id: it is
\* the texture before this one that is reloaded.
txmDelTexture(id) ==
    LET i == id - 1
    IN  /\ Calls
        /\ i \in 0 .. ntextures - 1
        /\ loaded' = IF i > 0 THEN Unloaded(i - 1) ELSE loaded
        /\ textures' = [textures EXCEPT ![i] = Empty]
        /\ changed' = (changed \ {i - 1}) \cup {i}
        /\ UNCHANGED <<shared, ntextures, ids, content, glbound, naming, job>>

txmSetOptionV(id, opt) ==
    LET i == id - 1
    IN  /\ Calls
        /\ i \in 0 .. ntextures - 1 /\ Filled(i)
        /\ textures' = [textures EXCEPT ![i].opt = opt]
        /\ changed' = changed \cup {i}
        /\ UNCHANGED <<shared, ntextures, naming, context, job>>

-----------------------------------------------------------------------------
(* Names.                                                                   *)

Namer(c) == IF shared THEN 0 ELSE c
Fresh(c) == used[Namer(c)] + 1

\* The application reserves a name in a context, for use outside the manager.
txmReserveId(c) ==
    /\ Calls
    /\ Cardinality({s \in DOMAIN taken : taken[s] # {}}) < MaxReserved /\ Fresh(c) \in Name
    /\ used' = [used EXCEPT ![Namer(c)] = Fresh(c)]
    /\ taken' = [taken EXCEPT ![Namer(c)] = @ \cup {Fresh(c)}]
    /\ UNCHANGED <<shared, ntextures, textures, changed, raced, context, job>>

-----------------------------------------------------------------------------
(* Render threads.                                                          *)

Begin(c, slots, slot) ==
    /\ job[c] = Idle
    /\ job' = [job EXCEPT ![c] = [Idle EXCEPT !.at = "look", !.todo = slots, !.bind = slot]]
    /\ UNCHANGED <<table, naming, context>>

txmPreloadContext(c) ==
    ntextures > 0 /\ Begin(c, [k \in 1 .. ntextures |-> k - 1], NoSlot)

txmBindTexture(c, id) ==
    /\ id - 1 \in 0 .. ntextures - 1 /\ Filled(id - 1)
    /\ Begin(c, <<id - 1>>, id - 1)

Doing(c, place) == job[c].at = place /\ job[c].todo # <<>>
Now(c) == Head(job[c].todo)
Go(c, place) == job' = [job EXCEPT ![c].at = place]
Done(c) == job' = [job EXCEPT ![c].at = "look", ![c].todo = Tail(@)]

load_texture_skips(c) ==
    /\ Doing(c, "look")
    /\ ~Filled(Now(c)) \/ loaded[c][Now(c)]
    /\ Done(c)
    /\ UNCHANGED <<table, naming, context>>

MustLoad(c) == Doing(c, "look") /\ Filled(Now(c)) /\ ~loaded[c][Now(c)]

Named_Own(c, i) == IF ids[c][i] > 0 THEN {c} ELSE {}

\* The contexts whose name for the slot will do: this one, or another one with
\* shared ids.
Named(c, i) ==
    IF ids[c][i] > 0 THEN {c}
    ELSE {d \in Context : shared /\ ids[d][i] > 0}

\* The code takes the first context; they agree.
assign_rid_known(c) ==
    /\ MustLoad(c)
    /\ \E d \in Named(c, Now(c)) : ids' = [ids EXCEPT ![c][Now(c)] = ids[d][Now(c)]]
    /\ Go(c, "load")
    /\ UNCHANGED <<table, naming, loaded, content, glbound>>

\* A thread that has found no name and has not entered one yet.
Naming(c) == job[c].at \in {"reserve", "count", "assign"}
AtOnce(c) == {d \in Context \ {c} : shared /\ Naming(d)}

assign_rid_reserves(c) ==
    /\ MustLoad(c) /\ Named(c, Now(c)) = {}
    /\ raced' = raced \cup {{Now(c), Now(d)} : d \in AtOnce(c)}
    /\ Cardinality(raced') <= MaxRaces
    /\ Go(c, "reserve")
    /\ UNCHANGED <<table, used, taken, context>>

\* OpenGL gives out a name, in the thread's own context.
ogl_reserve(c) ==
    /\ Doing(c, "reserve") /\ ~shared /\ Fresh(c) \in Name
    /\ used' = [used EXCEPT ![c] = Fresh(c)]
    /\ ids' = [ids EXCEPT ![c][Now(c)] = Fresh(c)]
    /\ Go(c, "load")
    /\ UNCHANGED <<table, taken, raced, loaded, content, glbound>>

\* With shared ids all threads count names without a lock: cnt is read, written
\* and, as the compiler likes, read again.
count_reads(c) ==
    /\ Doing(c, "reserve") /\ shared /\ Fresh(c) \in Name
    /\ job' = [job EXCEPT ![c].at = "count", ![c].mine = Fresh(c)]
    /\ UNCHANGED <<table, naming, context>>

count_writes(c) ==
    /\ Doing(c, "count")
    /\ used' = [used EXCEPT ![0] = job[c].mine]
    /\ Go(c, "assign")
    /\ UNCHANGED <<table, taken, raced, context>>

assign_rid_new(c) ==
    /\ Doing(c, "assign")
    /\ \E n \in {job[c].mine, used[0]} : ids' = [ids EXCEPT ![c][Now(c)] = n]
    /\ job' = [job EXCEPT ![c].at = "load", ![c].mine = 0]
    /\ UNCHANGED <<table, naming, loaded, content, glbound>>

\* The name is bound, and what is loaded is loaded under the bound name.
ogl_load(c) ==
    /\ Doing(c, "load") /\ textures[Now(c)].image \notin Unloadable
    /\ glbound' = [glbound EXCEPT ![c] = ids[c][Now(c)]]
    /\ content' = [content EXCEPT ![c][ids[c][Now(c)]] = Picture(Now(c))]
    /\ loaded' = [loaded EXCEPT ![c][Now(c)] = TRUE]
    /\ Done(c)
    /\ UNCHANGED <<table, naming, ids>>

ogl_load_refuses(c) ==
    /\ Doing(c, "load") /\ textures[Now(c)].image \in Unloadable
    /\ job' = [job EXCEPT ![c] = Idle]
    /\ UNCHANGED <<table, naming, context>>

ogl_bind_Id(c) ==
    /\ job[c].at = "look" /\ job[c].todo = <<>>
    /\ glbound' = IF job[c].bind = NoSlot THEN glbound
                  ELSE [glbound EXCEPT ![c] = job[c].bind + 1]
    /\ job' = [job EXCEPT ![c] = Idle]
    /\ UNCHANGED <<table, naming, ids, loaded, content>>

\* All that had to be loaded has been.
ogl_bind(c) ==
    /\ job[c].at = "look" /\ job[c].todo = <<>>
    /\ glbound' = IF job[c].bind = NoSlot THEN glbound
                  ELSE [glbound EXCEPT ![c] = ids[c][job[c].bind]]
    /\ job' = [job EXCEPT ![c] = Idle]
    /\ UNCHANGED <<table, naming, ids, loaded, content>>

-----------------------------------------------------------------------------

Application ==
    \/ \E a \in Adds : txmAddTexture(a[1], a[2])
    \/ \E id \in 1 .. MaxTextures :
        \/ txmDelTexture(id) \/ txmReloadTexture(id)
        \/ \E opt \in Options : txmSetOptionV(id, opt)

RenderThread(c) ==
    \/ txmReserveId(c)
    \/ txmPreloadContext(c)
    \/ \E id \in 1 .. MaxTextures : txmBindTexture(c, id)
    \/ load_texture_skips(c)
    \/ assign_rid_known(c) \/ assign_rid_reserves(c)
    \/ ogl_reserve(c) \/ count_reads(c) \/ count_writes(c) \/ assign_rid_new(c)
    \/ ogl_load(c) \/ ogl_load_refuses(c) \/ ogl_bind(c)

Next == Application \/ \E c \in Context : RenderThread(c)

Spec == Init /\ [][Next]_vars

-----------------------------------------------------------------------------
(* Properties.                                                              *)

\* What each variable holds.
Pictures == [image : Image \cup {NoTexture}, opt : Options \cup {0}]
TypeOK ==
    /\ shared \in Sharing
    /\ ntextures \in 0 .. MaxTextures
    /\ textures \in [Slot -> [image : Image \cup {NoTexture}, unique : BOOLEAN, opt : Options \cup {0}]]
    /\ ids \in [Context -> [Slot -> 0 .. MaxNames]]
    /\ loaded \in [Context -> [Slot -> BOOLEAN]]
    /\ used \in [Context \cup {0} -> 0 .. MaxNames]
    /\ taken \in [Context \cup {0} -> SUBSET Name]
    /\ content \in [Context -> [Name -> Pictures]]
    /\ glbound \in [Context -> 0 .. MaxNames]
    /\ job \in [Context -> [at : {"idle", "look", "reserve", "count", "assign", "load"},
                            todo : Seq(Slot), bind : Slot \cup {NoSlot}, mine : 0 .. MaxNames]]
    /\ raced \subseteq SUBSET Slot
    /\ changed \subseteq Slot /\ calls \in 0 .. MaxCalls

\* Two threads have counted names at the same time, which only shared ids allow:
\* they may have got the same name for different textures.
NamesRaced == raced # {}

\* A texture that a context holds for loaded is in OpenGL, under the context's
\* name for it, with the data and options it has now, unless the application
\* has changed it and not asked for a reload: slots and names are reused, threads
\* load at the same time, and the mark is not set and cleared where the picture
\* changes.
LoadedIsCurrent ==
    ~NamesRaced => \A c \in Context, i \in Slot :
        loaded[c][i] /\ Filled(i) /\ i \notin changed =>
            ids[c][i] > 0 /\ content[c][ids[c][i]] = Picture(i)

\* No two textures have the same name in a context, and none has a name that
\* the application reserved for itself: names come from two sources and are
\* copied from one context to another.
NamesApart ==
    ~NamesRaced => \A c \in Context, i \in Slot : ids[c][i] > 0 =>
        /\ \A j \in Slot \ {i} : ids[c][j] # ids[c][i]
        /\ ids[c][i] \notin taken[Namer(c)]

\* With shared ids a texture has the same name in all the contexts that use it
\* (txm.h:28), in whatever order they come to load it and whatever else is named
\* at the same time.  There is one exception: two threads look for the name of this very
\* texture, find none, and both count one.
SharedIdsAgree ==
    shared => \A i \in Slot : {i} \notin raced =>
        \A c, d \in Context :
            ids[c][i] > 0 /\ ids[d][i] > 0 => ids[c][i] = ids[d][i]

\* When txmBindTexture succeeds, what OpenGL has bound is the texture asked for.
BindsAsked ==
    \A c \in Context, i \in Slot :
        /\ job[c].at = "look" /\ job[c].todo = <<>> /\ job[c].bind = i /\ job'[c] = Idle
        /\ i \notin changed /\ ~NamesRaced
        => glbound'[c] > 0 /\ content'[c][glbound'[c]] = Picture(i)

BindShowsTexture == [][BindsAsked]_vars
=============================================================================
