--------------------------- MODULE VeTxm_proofs ---------------------------
(* Proofs about VeTxm: names do not clash, shared ids agree, and what a     *)
(* context has marked as loaded is the texture.                             *)
EXTENDS VeTxm, SequenceTheorems, TLAPS

-----------------------------------------------------------------------------
(* The inductive invariant.                                                 *)

\* A name is in use once it has been given out, and for one thing only.
ApartInv ==
    /\ \A c \in Context, i \in Slot : ids[c][i] <= used[Namer(c)]
    /\ \A s \in Context \cup {0} : \A n \in taken[s] : n <= used[s]
    /\ \A c, d \in Context, i, j \in Slot :
        Namer(c) = Namer(d) /\ i # j /\ ids[c][i] > 0 => ids[c][i] # ids[d][j]
    /\ \A c \in Context, i \in Slot : ids[c][i] > 0 => ids[c][i] \notin taken[Namer(c)]

\* A thread that counts alone is about to count, or has counted for itself and for
\* nobody else.
AloneInv ==
    \A c \in Context :
        /\ job[c].at = "count" => job[c].mine = used[0] + 1
        /\ job[c].at = "assign" =>
            /\ job[c].mine = used[0]
            /\ \A d \in Context, i \in Slot : ids[d][i] < used[0]
            /\ \A n \in taken[0] : n < used[0]

NamesInv == ~NamesRaced => ApartInv /\ AloneInv

\* Two threads that are naming slots at once are on record, and only with
\* shared ids is there a counter that both use.
RaceInv ==
    /\ shared => \A c, d \in Context :
        c # d /\ Naming(c) /\ Naming(d) => {Now(c), Now(d)} \in raced
    /\ \A c \in Context :
        /\ job[c].at \in {"count", "assign"} => shared /\ job[c].mine > 0
        /\ job[c].at = "assign" => used[0] > 0

\* Only slots in the table are filled.
TableInv == \A i \in Slot : Filled(i) => i < ntextures

\* A slot that is emptied counts as changed, so that its mark is off when
\* another texture takes it.
LoadedInv ==
    /\ \A c \in Context, i \in Slot : loaded[c][i] => ids[c][i] > 0
    /\ \A c \in Context, i \in Slot : ~Filled(i) /\ i \notin changed => ~loaded[c][i]
    /\ LoadedIsCurrent

\* A thread that has got as far as to load a texture has a name for it, and
\* one that is about to bind a texture has loaded it.
JobInv ==
    \A c \in Context :
        /\ job[c].at = "idle" => job[c] = Idle
        /\ Naming(c) \/ job[c].at = "load" => job[c].todo # <<>> /\ Filled(Now(c))
        /\ Naming(c) => ids[c][Now(c)] = 0
        /\ job[c].at = "load" => ids[c][Now(c)] > 0
        /\ job[c].bind # NoSlot =>
            /\ Filled(job[c].bind)
            /\ \/ job[c].todo = <<job[c].bind>>
               \/ job[c].todo = <<>> /\ loaded[c][job[c].bind]

IInv == TypeOK /\ TableInv /\ RaceInv /\ NamesInv /\ LoadedInv /\ JobInv

\* With shared ids nobody has a name for a slot that a thread is naming alone.
SharedInv ==
    /\ shared => \A c, d \in Context :
        Naming(c) /\ {Now(c)} \notin raced => ids[d][Now(c)] = 0
    /\ SharedIdsAgree

-----------------------------------------------------------------------------
(* Types.                                                                   *)

Places == {"idle", "look", "reserve", "count", "assign", "load"}
Jobs == [at : Places, todo : Seq(Slot), bind : Slot \cup {NoSlot}, mine : 0 .. MaxNames]

LEMMA ListIsSequence ==
    ASSUME NEW S, NEW n \in Nat, NEW f \in [1 .. n -> S]
    PROVE  f \in Seq(S)
BY SeqDef

LEMMA IdleIsJob == Idle \in Jobs
BY TxmAssumption DEF Idle, Jobs, Places, NoSlot

\* What a thread does to its job leaves it a job.
LEMMA GoType ==
    ASSUME job \in [Context -> Jobs], NEW c \in Context, NEW place \in Places, Go(c, place)
    PROVE  job' \in [Context -> Jobs]
<1>1. job[c] \in Jobs
  OBVIOUS
<1>2. [job[c] EXCEPT !.at = place] \in Jobs
  BY <1>1 DEF Jobs, Places
<1> QED
  BY <1>2 DEF Go

LEMMA NowType ==
    ASSUME job \in [Context -> Jobs], NEW c \in Context, job[c].todo # <<>>
    PROVE  Now(c) \in Slot /\ Tail(job[c].todo) \in Seq(Slot)
<1>1. job[c].todo \in Seq(Slot)
  BY DEF Jobs
<1> QED
  BY <1>1 DEF Now

LEMMA DoneType ==
    ASSUME job \in [Context -> Jobs], NEW c \in Context, job[c].todo # <<>>, Done(c)
    PROVE  job' \in [Context -> Jobs]
<1>1. job[c] \in Jobs
  OBVIOUS
<1>2. [job[c] EXCEPT !.at = "look", !.todo = Tail(@)] \in Jobs
  BY <1>1, NowType DEF Jobs, Places
<1> QED
  BY <1>2 DEF Done

LEMMA RacesType ==
    ASSUME NEW c \in Context, Now(c) \in Slot, \A d \in AtOnce(c) : Now(d) \in Slot
    PROVE  {{Now(c), Now(d)} : d \in AtOnce(c)} \subseteq SUBSET Slot
OBVIOUS

LEMMA TypeInit == Init => TypeOK
<1> SUFFICES ASSUME Init PROVE TypeOK
  OBVIOUS
<1>1. job \in [Context -> Jobs]
  BY IdleIsJob DEF Init
<1> QED
  BY <1>1, TxmAssumption DEF Init, TypeOK, Empty, Blank, Pictures, Jobs, Places, Name

LEMMA TypeStep == TypeOK /\ JobInv /\ [Next]_vars => TypeOK'
<1> SUFFICES ASSUME TypeOK, JobInv, [Next]_vars PROVE TypeOK'
  OBVIOUS
<1> USE TxmAssumption DEF TypeOK, table, naming, context
<1>1. job \in [Context -> Jobs] /\ Idle \in Jobs
  BY IdleIsJob DEF Jobs, Places
<1>2. ASSUME job' \in [Context -> Jobs]
      PROVE  job' \in [Context -> [at : Places, todo : Seq(Slot), bind : Slot \cup {NoSlot},
                                mine : 0 .. MaxNames]]
  BY <1>2 DEF Jobs
<1>3. ASSUME NEW a \in Adds, txmAddTexture(a[1], a[2]) PROVE TypeOK'
  <2>1. PICK k \in Slot : /\ FreeSlot(k)
                         /\ textures' = [textures EXCEPT ![k] = [image |-> a[1], unique |-> a[2], opt |-> 0]]
                         /\ ntextures' = IF k = ntextures THEN ntextures + 1 ELSE ntextures
    BY <1>3 DEF txmAddTexture
  <2>2. a[1] \in Image /\ a[2] \in BOOLEAN
    OBVIOUS
  <2>3. textures' \in [Slot -> [image : Image \cup {NoTexture}, unique : BOOLEAN, opt : Options \cup {0}]]
    BY <2>1, <2>2
  <2>4. ntextures' \in 0 .. MaxTextures
    BY <2>1 DEF Slot
  <2> QED
    BY <1>3, <2>3, <2>4 DEF txmAddTexture, Calls
<1>4. ASSUME NEW id \in 1 .. MaxTextures, txmReloadTexture(id) PROVE TypeOK'
  <2>1. id - 1 \in Slot
    BY DEF Slot
  <2> QED
    BY <1>4, <2>1 DEF txmReloadTexture, Calls, Unloaded
<1>5. ASSUME NEW id \in 1 .. MaxTextures, txmDelTexture(id) PROVE TypeOK'
  <2>1. id - 1 \in Slot /\ (id - 1 > 0 => id - 2 \in Slot)
    BY DEF Slot
  <2>2. loaded' \in [Context -> [Slot -> BOOLEAN]]
    BY <1>5, <2>1 DEF txmDelTexture, Unloaded
  <2> QED
    BY <1>5, <2>1, <2>2 DEF txmDelTexture, Calls, Empty
<1>6. ASSUME NEW id \in 1 .. MaxTextures, NEW opt \in Options, txmSetOptionV(id, opt) PROVE TypeOK'
  <2>1. id - 1 \in Slot
    BY DEF Slot
  <2>2. [textures[id - 1] EXCEPT !.opt = opt] \in
            [image : Image \cup {NoTexture}, unique : BOOLEAN, opt : Options \cup {0}]
    <3>1. textures[id - 1] \in [image : Image \cup {NoTexture}, unique : BOOLEAN, opt : Options \cup {0}]
      BY <2>1
    <3>2. ASSUME NEW t \in [image : Image \cup {NoTexture}, unique : BOOLEAN, opt : Options \cup {0}]
          PROVE  [t EXCEPT !.opt = opt] \in [image : Image \cup {NoTexture}, unique : BOOLEAN, opt : Options \cup {0}]
      OBVIOUS
    <3> QED
      BY <3>1, <3>2
  <2>3. textures' = [textures EXCEPT ![id - 1] = [textures[id - 1] EXCEPT !.opt = opt]]
    BY <1>6, <2>1 DEF txmSetOptionV
  <2>4. textures' \in [Slot -> [image : Image \cup {NoTexture}, unique : BOOLEAN, opt : Options \cup {0}]]
    BY <2>1, <2>2, <2>3
  <2>5. /\ calls' = calls + 1 /\ calls < MaxCalls /\ changed' = changed \cup {id - 1}
        /\ UNCHANGED <<shared, ntextures, used, taken, raced, ids, loaded, content, glbound, job>>
    BY <1>6 DEF txmSetOptionV, Calls
  <2> QED
    BY <2>1, <2>4, <2>5
<1>7. ASSUME NEW c \in Context PROVE Namer(c) \in Context \cup {0}
  BY DEF Namer
<1>8. ASSUME NEW c \in Context, txmReserveId(c) PROVE TypeOK'
  BY <1>7, <1>8 DEF txmReserveId, Calls, Name
<1>9. ASSUME NEW c \in Context, txmPreloadContext(c) PROVE TypeOK'
  <2>1. [k \in 1 .. ntextures |-> k - 1] \in Seq(Slot)
    <3>1. \A k \in 1 .. ntextures : k - 1 \in Slot
      BY DEF Slot
    <3>2. ntextures \in Nat
      OBVIOUS
    <3>3. [k \in 1 .. ntextures |-> k - 1] \in [1 .. ntextures -> Slot]
      BY <3>1
    <3> QED
      BY <3>2, <3>3, ListIsSequence
  <2>2. [Idle EXCEPT !.at = "look", !.todo = [k \in 1 .. ntextures |-> k - 1], !.bind = NoSlot] \in Jobs
    BY <1>1, <2>1 DEF Jobs, Places
  <2>3. job' \in [Context -> Jobs]
    BY <1>1, <1>9, <2>2 DEF txmPreloadContext, Begin
  <2> QED
    BY <1>2, <1>9, <2>3 DEF txmPreloadContext, Begin, Places
<1>10. ASSUME NEW c \in Context, NEW id \in 1 .. MaxTextures, txmBindTexture(c, id) PROVE TypeOK'
  <2>1. id - 1 \in Slot /\ <<id - 1>> \in Seq(Slot)
    BY DEF Slot
  <2>2. [Idle EXCEPT !.at = "look", !.todo = <<id - 1>>, !.bind = id - 1] \in Jobs
    BY <1>1, <2>1 DEF Jobs, Places
  <2>3. job' \in [Context -> Jobs]
    BY <1>1, <1>10, <2>2 DEF txmBindTexture, Begin
  <2> QED
    BY <1>2, <1>10, <2>3 DEF txmBindTexture, Begin, Places
<1>11. ASSUME NEW c \in Context, load_texture_skips(c) PROVE TypeOK'
  <2>1. job' \in [Context -> Jobs]
    BY <1>1, <1>11, DoneType DEF load_texture_skips, Doing
  <2> QED
    BY <1>2, <1>11, <2>1 DEF load_texture_skips, Places
<1>12. ASSUME NEW c \in Context, assign_rid_known(c) PROVE TypeOK'
  <2>1. PICK d \in Named(c, Now(c)) : ids' = [ids EXCEPT ![c][Now(c)] = ids[d][Now(c)]]
    BY <1>12 DEF assign_rid_known
  <2>2. job' \in [Context -> Jobs] /\ Now(c) \in Slot
    <3>1. Now(c) \in Slot
      BY <1>1, <1>12, NowType DEF assign_rid_known, MustLoad, Doing
    <3>2. job' \in [Context -> Jobs]
      BY <1>1, <1>12, GoType DEF assign_rid_known, MustLoad, Doing, Places
    <3> QED
      BY <3>1, <3>2
  <2>3. d \in Context
    BY <2>1 DEF Named
  <2>4. ids' \in [Context -> [Slot -> 0 .. MaxNames]]
    BY <2>1, <2>2, <2>3
  <2>5. UNCHANGED <<shared, ntextures, textures, changed, calls, used, taken, raced, loaded, content, glbound>>
    BY <1>12 DEF assign_rid_known
  <2> QED
    BY <1>2, <2>2, <2>4, <2>5 DEF Places
<1>13. ASSUME NEW c \in Context, assign_rid_reserves(c) PROVE TypeOK'
  <2>1. job' \in [Context -> Jobs]
    BY <1>1, <1>13, GoType DEF assign_rid_reserves, Places
  <2>2. raced' \subseteq SUBSET Slot
    <3>1. \A d \in AtOnce(c) : d \in Context /\ job[d].at \in {"reserve", "count", "assign"}
      BY DEF AtOnce, Naming
    <3>2. \A d \in Context : job[d].todo # <<>> => Now(d) \in Slot
      BY <1>1, NowType
    <3>3. \A d \in Context : Naming(d) => job[d].todo # <<>>
      BY DEF JobInv
    <3>4. job[c].todo # <<>>
      BY <1>13 DEF assign_rid_reserves, MustLoad, Doing
    <3>5. Now(c) \in Slot /\ \A d \in AtOnce(c) : Now(d) \in Slot
      BY <3>2, <3>3, <3>4 DEF AtOnce
    <3>6. raced' = raced \cup {{Now(c), Now(d)} : d \in AtOnce(c)}
      BY <1>13 DEF assign_rid_reserves
    <3>7. {{Now(c), Now(d)} : d \in AtOnce(c)} \subseteq SUBSET Slot
      BY <3>5, RacesType
    <3>8. raced \subseteq SUBSET Slot
      OBVIOUS
    <3> QED
      BY <3>6, <3>7, <3>8
  <2> QED
    BY <1>2, <1>13, <2>1, <2>2 DEF assign_rid_reserves, Places
<1>14. ASSUME NEW c \in Context, ogl_reserve(c) PROVE TypeOK'
  <2>1. job' \in [Context -> Jobs] /\ Now(c) \in Slot
    <3>1. Now(c) \in Slot
      BY <1>1, <1>14, NowType DEF ogl_reserve, Doing
    <3>2. job' \in [Context -> Jobs]
      BY <1>1, <1>14, GoType DEF ogl_reserve, Doing, Places
    <3> QED
      BY <3>1, <3>2
  <2>2. used' \in [Context \cup {0} -> 0 .. MaxNames]
    BY <1>14 DEF ogl_reserve, Name
  <2>3. ids' \in [Context -> [Slot -> 0 .. MaxNames]]
    <3>1. Fresh(c) \in 0 .. MaxNames /\ ids' = [ids EXCEPT ![c][Now(c)] = Fresh(c)]
      BY <1>14 DEF ogl_reserve, Name
    <3> QED
      BY <2>1, <3>1
  <2>4. UNCHANGED <<shared, ntextures, textures, changed, calls, taken, raced, loaded, content, glbound>>
    BY <1>14 DEF ogl_reserve
  <2> QED
    BY <1>2, <2>1, <2>2, <2>3, <2>4 DEF Places
<1>15. ASSUME NEW c \in Context, count_reads(c) PROVE TypeOK'
  <2>1. [job[c] EXCEPT !.at = "count", !.mine = Fresh(c)] \in Jobs
    <3>1. job[c] \in Jobs /\ Fresh(c) \in 0 .. MaxNames
      BY <1>1, <1>15 DEF count_reads, Name
    <3> QED
      BY <3>1 DEF Jobs, Places
  <2>2. job' \in [Context -> Jobs]
    BY <1>1, <1>15, <2>1 DEF count_reads
  <2> QED
    BY <1>2, <1>15, <2>2 DEF count_reads, Places
<1>16. ASSUME NEW c \in Context, count_writes(c) PROVE TypeOK'
  <2>1. job' \in [Context -> Jobs] /\ job[c].mine \in 0 .. MaxNames
    <3>1. job[c] \in Jobs
      BY <1>1
    <3>2. job' \in [Context -> Jobs]
      BY <1>1, <1>16, GoType DEF count_writes, Places
    <3> QED
      BY <3>1, <3>2 DEF Jobs
  <2>2. used' \in [Context \cup {0} -> 0 .. MaxNames]
    BY <1>16, <2>1 DEF count_writes
  <2> QED
    BY <1>2, <1>16, <2>1, <2>2 DEF count_writes, Places
<1>17. ASSUME NEW c \in Context, assign_rid_new(c) PROVE TypeOK'
  <2>1. PICK n \in {job[c].mine, used[0]} : ids' = [ids EXCEPT ![c][Now(c)] = n]
    BY <1>17 DEF assign_rid_new
  <2>2. job[c] \in Jobs /\ Now(c) \in Slot
    BY <1>1, <1>17, NowType DEF assign_rid_new, Doing
  <2>3. n \in 0 .. MaxNames
    BY <2>1, <2>2 DEF Jobs
  <2>4. ids' \in [Context -> [Slot -> 0 .. MaxNames]]
    BY <2>1, <2>2, <2>3
  <2>5. job' \in [Context -> Jobs]
    <3>1. 0 \in 0 .. MaxNames
      OBVIOUS
    <3>2. \A j \in Jobs : [j EXCEPT !.at = "load", !.mine = 0] \in Jobs
      BY <3>1 DEF Jobs, Places
    <3> QED
      BY <1>1, <1>17, <2>2, <3>2 DEF assign_rid_new
  <2>6. UNCHANGED <<shared, ntextures, textures, changed, calls, used, taken, raced, loaded, content, glbound>>
    BY <1>17 DEF assign_rid_new
  <2> QED
    BY <1>2, <2>4, <2>5, <2>6 DEF Places
<1>18. ASSUME NEW c \in Context, ogl_load(c) PROVE TypeOK'
  <2>1. job' \in [Context -> Jobs] /\ Now(c) \in Slot
    <3>1. Now(c) \in Slot
      BY <1>1, <1>18, NowType DEF ogl_load, Doing
    <3>2. job' \in [Context -> Jobs]
      BY <1>1, <1>18, DoneType DEF ogl_load, Doing
    <3> QED
      BY <3>1, <3>2
  <2>2. Picture(Now(c)) \in Pictures
    BY <2>1 DEF Picture, Pictures
  <2>3. content' \in [Context -> [Name -> Pictures]]
    BY <1>18, <2>2 DEF ogl_load
  <2> QED
    BY <1>2, <1>18, <2>1, <2>3 DEF ogl_load, Places
<1>19. ASSUME NEW c \in Context, ogl_load_refuses(c) PROVE TypeOK'
  <2>1. job' \in [Context -> Jobs]
    BY <1>1, <1>19 DEF ogl_load_refuses
  <2> QED
    BY <1>2, <1>19, <2>1 DEF ogl_load_refuses, Places
<1>20. ASSUME NEW c \in Context, ogl_bind(c) PROVE TypeOK'
  <2>1. job' \in [Context -> Jobs]
    BY <1>1, <1>20 DEF ogl_bind
  <2>2. job[c].bind \in Slot \cup {NoSlot}
    BY <1>1 DEF Jobs
  <2>3. glbound' \in [Context -> 0 .. MaxNames]
    BY <1>20, <2>2 DEF ogl_bind
  <2> QED
    BY <1>2, <1>20, <2>1, <2>3 DEF ogl_bind, Places
<1>21. CASE UNCHANGED vars
  BY <1>21 DEF vars, Pictures
<1> QED
  BY <1>3, <1>4, <1>5, <1>6, <1>8, <1>9, <1>10, <1>11, <1>12, <1>13, <1>14, <1>18, <1>19, <1>20, <1>21,
     <1>15, <1>16, <1>17
  DEF Next, Application, RenderThread

-----------------------------------------------------------------------------
(* The state's parts, typed.                                                *)

LEMMA Typed ==
    ASSUME TypeOK
    PROVE  /\ job \in [Context -> Jobs]
           /\ ids \in [Context -> [Slot -> Nat]]
           /\ loaded \in [Context -> [Slot -> BOOLEAN]]
           /\ used \in [Context \cup {0} -> Nat]
           /\ taken \in [Context \cup {0} -> SUBSET Nat]
           /\ \A c \in Context : Namer(c) \in Context \cup {0}
           /\ \A c \in Context : job[c].todo # <<>> => Now(c) \in Slot
<1>1. job \in [Context -> Jobs]
  BY DEF TypeOK, Jobs, Places
<1>2. 0 .. MaxNames \subseteq Nat
  BY TxmAssumption
<1>3. ids \in [Context -> [Slot -> Nat]] /\ used \in [Context \cup {0} -> Nat]
  BY <1>2 DEF TypeOK
<1>4. \A c \in Context : Namer(c) \in Context \cup {0}
  BY DEF Namer
<1>5. taken \in [Context \cup {0} -> SUBSET Nat]
  <2>1. SUBSET Name \subseteq SUBSET Nat
    BY TxmAssumption DEF Name
  <2> QED
    BY <2>1 DEF TypeOK
<1> QED
  BY <1>1, <1>3, <1>4, <1>5, NowType DEF TypeOK

-----------------------------------------------------------------------------
(* Threads that name slots at the same time.                                *)

\* The application's own calls leave threads and names alone.
LEMMA ApplicationKeeps == Application => UNCHANGED <<shared, used, taken, raced, ids, job>>
BY DEF Application, txmAddTexture, txmDelTexture, txmReloadTexture, txmSetOptionV, context, naming

LEMMA SharedKept == [Next]_vars => UNCHANGED shared
BY ApplicationKeeps DEF Next, vars, table, RenderThread, txmReserveId, txmPreloadContext,
   txmBindTexture, Begin, load_texture_skips, assign_rid_known, assign_rid_reserves,
   ogl_reserve, count_reads, count_writes, assign_rid_new, ogl_load, ogl_load_refuses, ogl_bind

LEMMA RacedGrows == [Next]_vars => raced \subseteq raced'
BY ApplicationKeeps DEF Next, vars, naming, RenderThread, txmReserveId, txmPreloadContext,
   txmBindTexture, Begin, load_texture_skips, assign_rid_known, assign_rid_reserves,
   ogl_reserve, count_reads, count_writes, assign_rid_new, ogl_load, ogl_load_refuses, ogl_bind

\* A thread moves by itself.
LEMMA OnlyOwnJob ==
    ASSUME job \in [Context -> Jobs], NEW c \in Context, RenderThread(c)
    PROVE  \A d \in Context : d # c => job'[d] = job[d]
BY DEF RenderThread, txmReserveId, txmPreloadContext, txmBindTexture, Begin, load_texture_skips,
   assign_rid_known, assign_rid_reserves, ogl_reserve, count_reads, count_writes, assign_rid_new,
   ogl_load, ogl_load_refuses, ogl_bind, Done, Go

\* What a thread that is naming a slot has done: it has just found that there is no
\* name, it counts, or it has not moved.
LEMMA NamingSteps ==
    ASSUME job \in [Context -> Jobs], NEW c \in Context, RenderThread(c), Naming(c)'
    PROVE  \/ assign_rid_reserves(c) /\ Now(c)' = Now(c) /\ job'[c].at = "reserve"
           \/ Naming(c) /\ Now(c)' = Now(c) /\ (count_reads(c) \/ count_writes(c))
           \/ txmReserveId(c) /\ UNCHANGED job
<1>1. CASE txmPreloadContext(c) \/ \E id \in 1 .. MaxTextures : txmBindTexture(c, id)
  <2>1. PICK todo, slot :
            job' = [job EXCEPT ![c] = [Idle EXCEPT !.at = "look", !.todo = todo, !.bind = slot]]
    BY <1>1 DEF txmPreloadContext, txmBindTexture, Begin
  <2>2. job'[c].at = "look"
    BY <2>1 DEF Idle
  <2> QED
    BY <2>2 DEF Naming
<1>2. CASE ogl_load_refuses(c) \/ ogl_bind(c)
  <2>1. job'[c].at = "idle"
    BY <1>2 DEF ogl_load_refuses, ogl_bind, Idle
  <2> QED
    BY <2>1 DEF Naming
<1>3. CASE load_texture_skips(c) \/ ogl_load(c)
  <2>1. job'[c].at = "look"
    BY <1>3 DEF load_texture_skips, ogl_load, Done, Jobs
  <2> QED
    BY <2>1 DEF Naming
<1>4. CASE assign_rid_known(c) \/ ogl_reserve(c) \/ assign_rid_new(c)
  <2>1. job'[c].at = "load"
    BY <1>4 DEF assign_rid_known, ogl_reserve, assign_rid_new, Go, Jobs
  <2> QED
    BY <2>1 DEF Naming
<1>5. CASE assign_rid_reserves(c)
  BY <1>5 DEF assign_rid_reserves, Go, Jobs, Now
<1>6. CASE count_reads(c)
  BY <1>6 DEF count_reads, Doing, Naming, Jobs, Now
<1>7. CASE count_writes(c)
  BY <1>7 DEF count_writes, Doing, Naming, Go, Jobs, Now
<1>8. CASE txmReserveId(c)
  BY <1>8 DEF txmReserveId
<1> QED
  BY <1>1, <1>2, <1>3, <1>4, <1>5, <1>6, <1>7, <1>8 DEF RenderThread

\* Names are counted, given out and copied by five actions only.
LEMMA NameSteps ==
    ASSUME [Next]_vars
    PROVE  \/ UNCHANGED <<ids, used, taken>>
           \/ \E c \in Context : \/ txmReserveId(c) \/ assign_rid_known(c) \/ ogl_reserve(c)
                                 \/ count_writes(c) \/ assign_rid_new(c)
<1> USE DEF table, naming, context
<1>1. ASSUME NEW c \in Context, RenderThread(c), ~txmReserveId(c), ~assign_rid_known(c),
             ~ogl_reserve(c), ~count_writes(c), ~assign_rid_new(c)
      PROVE  UNCHANGED <<ids, used, taken>>
  BY <1>1 DEF RenderThread, txmPreloadContext, txmBindTexture, Begin, load_texture_skips,
     assign_rid_reserves, count_reads, ogl_load, ogl_load_refuses, ogl_bind
<1> QED
  BY <1>1, ApplicationKeeps DEF Next, vars

\* The application reserves names while no thread is naming.
LEMMA ReserveSteps ==
    ASSUME NEW c \in Context, txmReserveId(c)
    PROVE  UNCHANGED job /\ \A d \in Context : job[d].at = "idle"
BY DEF txmReserveId, Calls, BetweenFrames, Idle

LEMMA RaceStep == IInv /\ [Next]_vars => RaceInv'
<1> SUFFICES ASSUME IInv, [Next]_vars PROVE RaceInv'
  OBVIOUS
<1>1. /\ job \in [Context -> Jobs] /\ RaceInv /\ UNCHANGED shared /\ raced \subseteq raced'
      /\ used \in [Context \cup {0} -> Nat] /\ 0 \notin Context
  BY Typed, SharedKept, RacedGrows, TxmAssumption DEF IInv
<1>2. ASSUME shared, NEW c \in Context, NEW d \in Context, c # d, Naming(c)', Naming(d)'
      PROVE  {Now(c), Now(d)}' \in raced'
  <2>1. CASE UNCHANGED job
    BY <1>1, <1>2, <2>1 DEF RaceInv, Naming, Now
  <2>2. ASSUME NEW e \in Context, NEW o \in Context, e # o, Naming(e)', Naming(o)', RenderThread(e)
        PROVE  {Now(e)', Now(o)'} \in raced'
    <3>1. job'[o] = job[o]
      BY <1>1, <2>2, OnlyOwnJob
    <3>2. Naming(o) /\ Now(o)' = Now(o)
      BY <2>2, <3>1 DEF Naming, Now
    <3>3. CASE assign_rid_reserves(e) /\ Now(e)' = Now(e)
      <4>1. o \in AtOnce(e)
        BY <1>2, <2>2, <3>2 DEF AtOnce
      <4> QED
        BY <3>2, <3>3, <4>1 DEF assign_rid_reserves
    <3>4. CASE Naming(e) /\ Now(e)' = Now(e)
      BY <1>1, <1>2, <2>2, <3>2, <3>4 DEF RaceInv
    <3>5. CASE UNCHANGED job
      BY <1>1, <1>2, <2>2, <3>2, <3>5 DEF RaceInv, Naming, Now
    <3> QED
      BY <1>1, <2>2, <3>3, <3>4, <3>5, NamingSteps
  <2>3. ASSUME NEW e \in Context, RenderThread(e), e # c, e # d PROVE {Now(c), Now(d)}' \in raced'
    <3>1. job'[c] = job[c] /\ job'[d] = job[d]
      BY <1>1, <2>3, OnlyOwnJob
    <3> QED
      BY <1>1, <1>2, <3>1 DEF RaceInv, Naming, Now
  <2>4. CASE RenderThread(c)
    BY <1>2, <2>2, <2>4
  <2>5. CASE RenderThread(d)
    <3>1. {Now(d)', Now(c)'} \in raced'
      BY <1>2, <2>2, <2>5
    <3>2. {Now(d)', Now(c)'} = {Now(c)', Now(d)'}
      OBVIOUS
    <3> QED
      BY <3>1, <3>2
  <2> QED
    BY <2>1, <2>3, <2>4, <2>5, ApplicationKeeps DEF Next, vars
<1>3. ASSUME NEW c \in Context, job'[c].at \in {"count", "assign"} PROVE shared /\ job'[c].mine > 0
  <2>1. CASE job'[c] = job[c]
    BY <1>1, <1>3, <2>1 DEF RaceInv
  <2>2. CASE RenderThread(c)
    <3>1. CASE count_reads(c)
      <4>1. shared /\ job'[c].mine = Fresh(c) /\ Fresh(c) \in Name
        BY <1>1, <3>1 DEF count_reads, Jobs
      <4> QED
        BY <4>1, TxmAssumption DEF Name
    <3>2. CASE count_writes(c)
      <4>1. job[c].at = "count" /\ job'[c].mine = job[c].mine
        BY <1>1, <3>2 DEF count_writes, Doing, Go, Jobs
      <4> QED
        BY <1>1, <4>1 DEF RaceInv
    <3> QED
      BY <1>1, <1>3, <2>1, <2>2, <3>1, <3>2, NamingSteps DEF Naming
  <2> QED
    BY <1>1, <2>1, <2>2, OnlyOwnJob, ApplicationKeeps DEF Next, vars
<1>4. ASSUME NEW c \in Context, job'[c].at = "assign" PROVE used'[0] > 0
  <2>1. ASSUME NEW d \in Context, count_writes(d) PROVE used'[0] > 0
    <3>1. job[d].at = "count" /\ used'[0] = job[d].mine
      BY <1>1, <2>1 DEF count_writes, Doing
    <3> QED
      BY <1>1, <3>1 DEF RaceInv
  <2>2. CASE job'[c] = job[c]
    <3>1. ~\E d \in Context : txmReserveId(d) \/ ogl_reserve(d)
      BY <1>1, <1>3, <1>4, <2>2, ReserveSteps DEF ogl_reserve
    <3>2. CASE UNCHANGED used
      BY <1>1, <1>4, <2>2, <3>2 DEF RaceInv
    <3> QED
      BY <2>1, <3>1, <3>2, NameSteps DEF assign_rid_known, assign_rid_new, naming
  <2>3. CASE RenderThread(c)
    <3>1. ~assign_rid_reserves(c) \/ job'[c].at = "reserve"
      BY <1>1 DEF assign_rid_reserves, Go, Jobs
    <3>2. ~count_reads(c)
      BY <1>1, <1>4 DEF count_reads, Jobs
    <3> QED
      BY <1>1, <1>4, <2>1, <2>2, <2>3, <3>1, <3>2, NamingSteps DEF Naming
  <2> QED
    BY <1>1, <2>2, <2>3, OnlyOwnJob, ApplicationKeeps DEF Next, vars
<1> QED
  BY <1>1, <1>2, <1>3, <1>4 DEF RaceInv

\* Where no race is on record, a thread that names a slot with shared ids is the only one.
LEMMA NamingAlone ==
    ASSUME RaceInv, ~NamesRaced, shared,
           NEW c \in Context, NEW d \in Context, Naming(c), Naming(d)
    PROVE  c = d
BY DEF RaceInv, NamesRaced

-----------------------------------------------------------------------------
(* Names.                                                                   *)

LEMMA NamesStep == IInv /\ [Next]_vars => NamesInv'
<1> SUFFICES ASSUME IInv, [Next]_vars, ~NamesRaced' PROVE (ApartInv /\ AloneInv)'
  BY DEF NamesInv
<1>1. /\ ids \in [Context -> [Slot -> Nat]] /\ job \in [Context -> Jobs]
      /\ used \in [Context \cup {0} -> Nat] /\ taken \in [Context \cup {0} -> SUBSET Nat]
      /\ \A c \in Context : Namer(c) \in Context \cup {0}
      /\ \A c \in Context : job[c].todo # <<>> => Now(c) \in Slot
  BY Typed DEF IInv
<1>2. RaceInv /\ ~NamesRaced /\ ApartInv /\ AloneInv
  BY RacedGrows DEF IInv, NamesInv, NamesRaced
<1>3. /\ UNCHANGED shared /\ \A c \in Context : Namer(c)' = Namer(c)
      /\ shared => \A c \in Context : Namer(c) = 0
      /\ ~shared => \A c \in Context : Namer(c) = c
  BY SharedKept DEF Namer
<1>4. \A c \in Context : job[c].at \in {"count", "assign"} => shared /\ Naming(c) /\ job[c].mine \in Nat
  <2>1. \A c \in Context : job[c].mine \in Nat
    BY <1>1, TxmAssumption DEF Jobs
  <2> QED
    BY <1>2, <2>1 DEF RaceInv, Naming
<1>5. ASSUME NEW c \in Context, txmReserveId(c) PROVE ApartInv'
  <2>1. /\ used' = [used EXCEPT ![Namer(c)] = Fresh(c)]
        /\ taken' = [taken EXCEPT ![Namer(c)] = @ \cup {Fresh(c)}]
        /\ UNCHANGED ids
    BY <1>5 DEF txmReserveId, context
  <2> QED
    BY <1>1, <1>2, <1>3, <2>1 DEF ApartInv, Fresh
<1>6. ASSUME NEW c \in Context, assign_rid_known(c)
      PROVE  /\ ApartInv' /\ UNCHANGED <<used, taken>>
             /\ \A m \in Nat : (\A e \in Context, i \in Slot : ids[e][i] < m) =>
                                \A e \in Context, i \in Slot : ids'[e][i] < m
  <2>1. PICK d \in Named(c, Now(c)) : ids' = [ids EXCEPT ![c][Now(c)] = ids[d][Now(c)]]
    BY <1>6 DEF assign_rid_known
  <2>2. Now(c) \in Slot /\ UNCHANGED <<used, taken>>
    BY <1>1, <1>6 DEF assign_rid_known, MustLoad, Doing, naming
  <2>3. d \in Context /\ Namer(d) = Namer(c) /\ ids[d][Now(c)] > 0
    BY <2>1 DEF Named, Namer
  <2>4. ApartInv'
    BY <1>1, <1>2, <1>3, <2>1, <2>2, <2>3 DEF ApartInv
  <2> QED
    BY <1>1, <2>1, <2>2, <2>3, <2>4
<1>7. ASSUME NEW c \in Context, NEW n \in Nat, NEW k \in Slot,
             ids' = [ids EXCEPT ![c][k] = n], UNCHANGED taken, used' \in [Context \cup {0} -> Nat],
             \A s \in Context \cup {0} : used[s] <= used'[s],
             n <= used'[Namer(c)],
             \A e \in Context, i \in Slot : Namer(e) = Namer(c) => ids[e][i] < n,
             \A m \in taken[Namer(c)] : m < n
      PROVE  ApartInv'
  <2>1. \A e \in Context, i \in Slot : ids'[e][i] = IF e = c /\ i = k THEN n ELSE ids[e][i]
    BY <1>1, <1>7
  <2>2. \A e \in Context, i \in Slot : ids'[e][i] <= used'[Namer(e)']
    <3>1. \A e \in Context, i \in Slot : ids[e][i] <= used[Namer(e)] /\ ids[e][i] \in Nat
      BY <1>1, <1>2 DEF ApartInv
    <3> QED
      BY <1>1, <1>3, <1>7, <2>1, <3>1
  <2>3. \A s \in Context \cup {0} : \A m \in taken'[s] : m <= used'[s]
    <3>1. \A s \in Context \cup {0} : \A m \in taken[s] : m \in Nat /\ m <= used[s]
      BY <1>1, <1>2 DEF ApartInv
    <3> QED
      BY <1>1, <1>7, <3>1
  <2>4. \A d, e \in Context, i, j \in Slot :
            Namer(d)' = Namer(e)' /\ i # j /\ ids'[d][i] > 0 => ids'[d][i] # ids'[e][j]
    BY <1>1, <1>2, <1>3, <1>7, <2>1 DEF ApartInv
  <2>5. \A e \in Context, i \in Slot : ids'[e][i] > 0 => ids'[e][i] \notin taken'[Namer(e)']
    BY <1>1, <1>2, <1>3, <1>7, <2>1 DEF ApartInv
  <2> QED
    BY <2>2, <2>3, <2>4, <2>5 DEF ApartInv
<1>8. ASSUME NEW c \in Context, ogl_reserve(c) PROVE ApartInv'
  <2>1. /\ ~shared /\ Now(c) \in Slot /\ UNCHANGED taken
        /\ used' = [used EXCEPT ![c] = Fresh(c)]
        /\ ids' = [ids EXCEPT ![c][Now(c)] = Fresh(c)]
    BY <1>1, <1>8 DEF ogl_reserve, Doing
  <2>2. Fresh(c) = used[c] + 1 /\ Fresh(c) \in Nat /\ Namer(c) = c
    BY <1>1, <1>3, <2>1 DEF Fresh
  <2>3. /\ used' \in [Context \cup {0} -> Nat] /\ Fresh(c) <= used'[Namer(c)]
        /\ \A s \in Context \cup {0} : used[s] <= used'[s]
    BY <1>1, <2>1, <2>2
  <2>4. \A e \in Context, i \in Slot : Namer(e) = Namer(c) => ids[e][i] < Fresh(c)
    BY <1>1, <1>2, <2>2 DEF ApartInv
  <2>5. \A m \in taken[Namer(c)] : m < Fresh(c)
    BY <1>1, <1>2, <2>2 DEF ApartInv
  <2> QED
    BY <1>7, <2>1, <2>2, <2>3, <2>4, <2>5
<1>9. ASSUME NEW c \in Context, count_writes(c)
      PROVE  ApartInv' /\ used'[0] = used[0] + 1 /\ UNCHANGED <<ids, taken>>
  <2>1. used' = [used EXCEPT ![0] = used[0] + 1] /\ UNCHANGED <<ids, taken>>
    BY <1>2, <1>9 DEF count_writes, Doing, AloneInv, context
  <2>2. \A s \in Context \cup {0} : used[s] <= used'[s] /\ used[s] \in Nat /\ used'[s] \in Nat
    BY <1>1, <2>1
  <2>3. \A e \in Context, i \in Slot : ids'[e][i] <= used'[Namer(e)']
    <3>1. \A e \in Context, i \in Slot : ids[e][i] <= used[Namer(e)] /\ ids[e][i] \in Nat
      BY <1>1, <1>2 DEF ApartInv
    <3> QED
      BY <1>1, <1>3, <2>1, <2>2, <3>1
  <2>4. \A s \in Context \cup {0} : \A m \in taken'[s] : m <= used'[s]
    <3>1. \A s \in Context \cup {0} : \A m \in taken[s] : m \in Nat /\ m <= used[s]
      BY <1>1, <1>2 DEF ApartInv
    <3> QED
      BY <2>1, <2>2, <3>1
  <2> QED
    BY <1>1, <1>2, <1>3, <2>1, <2>3, <2>4 DEF ApartInv
<1>10. ASSUME NEW c \in Context, assign_rid_new(c) PROVE ApartInv' /\ UNCHANGED <<used, taken>>
  <2>1. PICK n \in {job[c].mine, used[0]} : ids' = [ids EXCEPT ![c][Now(c)] = n]
    BY <1>10 DEF assign_rid_new
  <2>2. job[c].at = "assign" /\ Now(c) \in Slot /\ UNCHANGED <<used, taken>>
    BY <1>1, <1>10 DEF assign_rid_new, Doing, naming
  <2>3. n = used[0] /\ Namer(c) = 0 /\ n \in Nat
    BY <1>1, <1>2, <1>3, <1>4, <2>1, <2>2 DEF AloneInv
  <2>4. /\ \A e \in Context, i \in Slot : ids[e][i] < used[0]
        /\ \A m \in taken[0] : m < used[0]
    BY <1>2, <2>2 DEF AloneInv
  <2>5. \A s \in Context \cup {0} : used[s] <= used'[s]
    BY <1>1, <2>2
  <2>6. n <= used'[Namer(c)]
    BY <1>1, <2>2, <2>3
  <2>7. used' \in [Context \cup {0} -> Nat]
    BY <1>1, <2>2
  <2>8. ApartInv'
    BY <1>7, <2>1, <2>2, <2>3, <2>4, <2>5, <2>6, <2>7
  <2> QED
    BY <2>2, <2>8
<1>11. ASSUME UNCHANGED <<ids, used, taken>> PROVE ApartInv'
  BY <1>2, <1>3, <1>11 DEF ApartInv
<1>12. ApartInv'
  BY <1>5, <1>6, <1>8, <1>9, <1>10, <1>11, NameSteps
\* Other threads leave alone what one of them counts.
<1>13. ASSUME NEW d \in Context, job'[d] = job[d], job[d].at \in {"count", "assign"}
       PROVE  /\ UNCHANGED <<used, taken>>
              /\ \A m \in Nat : (\A e \in Context, i \in Slot : ids[e][i] < m) =>
                                 \A e \in Context, i \in Slot : ids'[e][i] < m
  <2>1. ~\E c \in Context : txmReserveId(c) \/ ogl_reserve(c)
    BY <1>4, <1>13, ReserveSteps DEF ogl_reserve
  <2>2. ASSUME NEW c \in Context, count_writes(c) \/ assign_rid_new(c) PROVE FALSE
    <3>1. Naming(c)
      BY <2>2 DEF count_writes, assign_rid_new, Doing, Naming
    <3>2. c = d
      BY <1>2, <1>4, <1>13, <3>1, NamingAlone
    <3>3. job'[c].at # job[c].at
      <4>1. CASE count_writes(c)
        <5>1. job[c].at = "count" /\ job'[c].at = "assign"
          BY <1>1, <4>1 DEF count_writes, Doing, Go, Jobs
        <5> QED
          BY <5>1
      <4>2. CASE assign_rid_new(c)
        <5>1. job[c].at = "assign" /\ job'[c].at = "load"
          BY <1>1, <4>2 DEF assign_rid_new, Doing, Jobs
        <5> QED
          BY <5>1
      <4> QED
        BY <2>2, <4>1, <4>2
    <3> QED
      BY <1>13, <3>2, <3>3
  <2>3. CASE UNCHANGED <<ids, used, taken>>
    BY <2>3
  <2> QED
    BY <1>6, <2>1, <2>2, <2>3, NameSteps
<1>14. ASSUME NEW d \in Context, job'[d].at = "count" PROVE job'[d].mine = used'[0] + 1
  <2>1. CASE job'[d] = job[d]
    BY <1>2, <1>13, <1>14, <2>1 DEF AloneInv
  <2>2. CASE RenderThread(d)
    <3>1. CASE count_reads(d)
      <4>1. shared /\ job'[d].mine = Fresh(d) /\ UNCHANGED used
        BY <1>1, <3>1 DEF count_reads, Jobs, naming
      <4> QED
        BY <1>3, <4>1 DEF Fresh
    <3>2. ~count_writes(d)
      BY <1>1, <1>14 DEF count_writes, Go, Jobs
    <3> QED
      BY <1>1, <1>14, <2>1, <2>2, <3>1, <3>2, NamingSteps DEF Naming
  <2> QED
    BY <1>1, <2>1, <2>2, OnlyOwnJob, ApplicationKeeps DEF Next, vars
<1>15. ASSUME NEW d \in Context, job'[d].at = "assign"
       PROVE  /\ job'[d].mine = used'[0]
              /\ \A e \in Context, i \in Slot : ids'[e][i] < used'[0]
              /\ \A n \in taken'[0] : n < used'[0]
  <2>1. CASE job'[d] = job[d]
    <3>1. /\ job[d].mine = used[0] /\ UNCHANGED <<used, taken>> /\ used[0] \in Nat
          /\ \A e \in Context, i \in Slot : ids[e][i] < used[0]
          /\ \A n \in taken[0] : n < used[0]
      BY <1>1, <1>2, <1>13, <1>15, <2>1 DEF AloneInv
    <3>2. \A e \in Context, i \in Slot : ids'[e][i] < used[0]
      BY <1>13, <1>15, <2>1, <3>1
    <3> QED
      BY <2>1, <3>1, <3>2
  <2>2. CASE count_writes(d)
    <3>1. /\ job[d].at = "count" /\ job'[d].mine = job[d].mine
          /\ used'[0] = used[0] + 1 /\ UNCHANGED <<ids, taken>>
      BY <1>1, <1>9, <2>2 DEF count_writes, Doing, Go, Jobs
    <3>2. job[d].mine = used[0] + 1 /\ \A e \in Context : Namer(e) = 0
      BY <1>2, <1>3, <1>4, <3>1 DEF AloneInv
    <3>3. \A e \in Context, i \in Slot : ids[e][i] <= used[0] /\ ids[e][i] \in Nat
      BY <1>1, <1>2, <3>2 DEF ApartInv
    <3>4. \A n \in taken[0] : n <= used[0] /\ n \in Nat
      BY <1>1, <1>2 DEF ApartInv
    <3> QED
      BY <1>1, <3>1, <3>2, <3>3, <3>4
  <2>3. CASE RenderThread(d)
    <3>1. ~assign_rid_reserves(d) \/ job'[d].at = "reserve"
      BY <1>1 DEF assign_rid_reserves, Go, Jobs
    <3>2. ~count_reads(d)
      BY <1>1, <1>15 DEF count_reads, Jobs
    <3> QED
      BY <1>1, <1>15, <2>1, <2>2, <2>3, <3>1, <3>2, NamingSteps DEF Naming
  <2> QED
    BY <1>1, <2>1, <2>2, <2>3, OnlyOwnJob, ApplicationKeeps DEF Next, vars
<1>16. AloneInv'
  BY <1>14, <1>15 DEF AloneInv
<1> QED
  BY <1>12, <1>16

-----------------------------------------------------------------------------
(* What is loaded.                                                          *)

LEMMA TableStep == IInv /\ [Next]_vars => TableInv'
<1> SUFFICES ASSUME IInv, [Next]_vars PROVE TableInv'
  OBVIOUS
<1>1. /\ TableInv /\ ntextures \in Nat
      /\ textures \in [Slot -> [image : Image \cup {NoTexture}, unique : BOOLEAN, opt : Options \cup {0}]]
  BY TxmAssumption DEF IInv, TypeOK
<1>2. ASSUME NEW a \in Adds, txmAddTexture(a[1], a[2]) PROVE TableInv'
  BY <1>1, <1>2 DEF txmAddTexture, FreeSlot, EmptySlots, TableInv, Filled, Slot
<1>3. ASSUME NEW id \in 1 .. MaxTextures, txmDelTexture(id) PROVE TableInv'
  BY <1>1, <1>3 DEF txmDelTexture, TableInv, Filled, Empty
<1>4. ASSUME NEW id \in 1 .. MaxTextures, NEW opt \in Options, txmSetOptionV(id, opt)
      PROVE  TableInv'
  BY <1>1, <1>4 DEF txmSetOptionV, TableInv, Filled
<1>5. CASE UNCHANGED <<ntextures, textures>>
  BY <1>1, <1>5 DEF TableInv, Filled
<1>6. ASSUME NEW c \in Context, RenderThread(c) PROVE UNCHANGED <<ntextures, textures>>
  BY <1>6 DEF RenderThread, txmPreloadContext, txmBindTexture, Begin, load_texture_skips,
     assign_rid_known, assign_rid_reserves, ogl_reserve, count_reads, count_writes, assign_rid_new,
     txmReserveId, ogl_load, ogl_load_refuses, ogl_bind, table
<1> QED
  BY <1>2, <1>3, <1>4, <1>5, <1>6 DEF Next, Application, txmReloadTexture, vars, table

LEMMA LoadedStep == IInv /\ [Next]_vars => LoadedInv'
<1> SUFFICES ASSUME IInv, [Next]_vars PROVE LoadedInv'
  OBVIOUS
<1>1. /\ ids \in [Context -> [Slot -> Nat]] /\ loaded \in [Context -> [Slot -> BOOLEAN]]
      /\ \A c \in Context : job[c].todo # <<>> => Now(c) \in Slot
      /\ textures \in [Slot -> [image : Image \cup {NoTexture}, unique : BOOLEAN, opt : Options \cup {0}]]
      /\ content \in [Context -> [Name -> Pictures]]
      /\ \A c \in Context, i \in Slot : ids[c][i] > 0 => ids[c][i] \in Name
  BY Typed, TxmAssumption DEF IInv, TypeOK, Name
<1>2. LoadedInv /\ TableInv /\ ntextures \in Nat /\ (~NamesRaced' => ~NamesRaced)
  BY TxmAssumption, RacedGrows DEF IInv, TypeOK, NamesRaced
<1>3. CASE UNCHANGED <<textures, changed, ids, loaded, content>>
  BY <1>2, <1>3 DEF LoadedInv, LoadedIsCurrent, Filled, Picture
<1>4. ASSUME NEW a \in Adds, txmAddTexture(a[1], a[2]) PROVE LoadedInv'
  <2>1. PICK k \in Slot : /\ FreeSlot(k)
                         /\ textures' = [textures EXCEPT ![k] = [image |-> a[1], unique |-> a[2], opt |-> 0]]
    BY <1>4 DEF txmAddTexture
  <2>2. UNCHANGED <<changed, ids, loaded, content>>
    BY <1>4 DEF txmAddTexture, context
  <2>3. ~Filled(k)
    BY <1>2, <2>1 DEF FreeSlot, EmptySlots, TableInv
  <2> QED
    BY <1>1, <1>2, <2>1, <2>2, <2>3 DEF LoadedInv, LoadedIsCurrent, Filled, Picture
<1>5. ASSUME NEW i \in Int, i \notin Slot PROVE Unloaded(i) = loaded
  BY <1>1, <1>5 DEF Unloaded
<1>6. ASSUME NEW i \in Slot
      PROVE  /\ \A c \in Context, j \in Slot : Unloaded(i)[c][j] => loaded[c][j] /\ j # i
  BY <1>1 DEF Unloaded
<1>7. ASSUME NEW id \in 1 .. MaxTextures, txmReloadTexture(id) PROVE LoadedInv'
  <2>1. id - 1 \in Slot
    BY TxmAssumption DEF Slot
  <2>2. /\ UNCHANGED <<textures, ids, content>> /\ changed' = changed \ {id - 1}
        /\ \A c \in Context, j \in Slot : loaded'[c][j] => loaded[c][j] /\ j # id - 1
    BY <1>6, <1>7, <2>1 DEF txmReloadTexture
  <2> QED
    BY <1>2, <2>1, <2>2 DEF LoadedInv, LoadedIsCurrent, Filled, Picture
<1>8. ASSUME NEW id \in 1 .. MaxTextures, txmDelTexture(id) PROVE LoadedInv'
  <2>1. id - 1 \in Slot /\ (id - 1 > 0 => id - 2 \in Slot) /\ id - 1 - 1 = id - 2
        /\ (~(id - 1 > 0) => id - 2 \notin Slot)
    BY TxmAssumption DEF Slot
  <2>2. /\ UNCHANGED <<ids, content>> /\ changed' = (changed \ {id - 2}) \cup {id - 1}
        /\ textures' = [textures EXCEPT ![id - 1] = Empty]
        /\ \A c \in Context, j \in Slot : loaded'[c][j] => loaded[c][j] /\ j # id - 2
    BY <1>6, <1>8, <2>1 DEF txmDelTexture
  <2> QED
    BY <1>1, <1>2, <2>1, <2>2 DEF LoadedInv, LoadedIsCurrent, Filled, Picture, Empty
<1>9. ASSUME NEW id \in 1 .. MaxTextures, NEW opt \in Options, txmSetOptionV(id, opt)
      PROVE  LoadedInv'
  <2>1. id - 1 \in Slot
    BY TxmAssumption DEF Slot
  <2>2. /\ UNCHANGED <<ids, loaded, content>> /\ changed' = changed \cup {id - 1}
        /\ \A j \in Slot : j # id - 1 => textures'[j] = textures[j]
        /\ Filled(id - 1)' <=> Filled(id - 1)
    BY <1>1, <1>9, <2>1 DEF txmSetOptionV, context, Filled
  <2>3. \A j \in Slot : Filled(j)' <=> Filled(j)
    BY <2>2 DEF Filled
  <2> QED
    BY <1>1, <1>2, <2>1, <2>2, <2>3 DEF LoadedInv, LoadedIsCurrent, Picture
<1>10. ASSUME NEW c \in Context, job[c].todo # <<>>,
              ~loaded[c][Now(c)], NEW n \in Nat,
              ids' = [ids EXCEPT ![c][Now(c)] = n],
              UNCHANGED <<textures, changed, loaded, content>>
       PROVE  LoadedInv'
  <2>1. Now(c) \in Slot
    BY <1>1, <1>10
  <2>2. \A d \in Context, i \in Slot : d # c \/ i # Now(c) => ids'[d][i] = ids[d][i]
    BY <1>1, <1>10, <2>1
  <2>3. \A d \in Context, i \in Slot : loaded'[d][i] => loaded[d][i] /\ ids'[d][i] = ids[d][i]
    BY <1>10, <2>2
  <2> QED
    BY <1>2, <1>10, <2>3 DEF LoadedInv, LoadedIsCurrent, Filled, Picture
<1>11. ASSUME NEW c \in Context, assign_rid_known(c) PROVE LoadedInv'
  <2>1. PICK d \in Named(c, Now(c)) : ids' = [ids EXCEPT ![c][Now(c)] = ids[d][Now(c)]]
    BY <1>11 DEF assign_rid_known
  <2>2. /\ Doing(c, "look") /\ ~loaded[c][Now(c)] /\ Now(c) \in Slot
        /\ UNCHANGED <<textures, changed, loaded, content>>
    BY <1>1, <1>11 DEF assign_rid_known, MustLoad, Doing, table
  <2>3. ids[d][Now(c)] \in Nat
    BY <1>1, <2>1, <2>2 DEF Named
  <2> QED
    BY <1>10, <2>1, <2>2, <2>3 DEF Doing
<1>12. ASSUME NEW c \in Context, ogl_reserve(c) \/ assign_rid_new(c) PROVE LoadedInv'
  <2>1. PICK n \in Nat : ids' = [ids EXCEPT ![c][Now(c)] = n]
    <3>1. CASE ogl_reserve(c)
      <4>1. Fresh(c) \in Name /\ ids' = [ids EXCEPT ![c][Now(c)] = Fresh(c)]
        BY <3>1 DEF ogl_reserve
      <4>2. Name \subseteq Nat
        BY TxmAssumption DEF Name
      <4> QED
        BY <4>1, <4>2
    <3>2. CASE assign_rid_new(c)
      <4>1. job[c].mine \in Nat /\ used[0] \in Nat
        BY Typed, TxmAssumption DEF IInv, Jobs
      <4> QED
        BY <3>2, <4>1 DEF assign_rid_new
    <3> QED
      BY <1>12, <3>1, <3>2
  <2>2. job[c].todo # <<>> /\ Naming(c) /\ UNCHANGED <<textures, changed, loaded, content>>
    BY <1>12 DEF ogl_reserve, assign_rid_new, Doing, Naming, table
  <2>3. ids[c][Now(c)] = 0 /\ Now(c) \in Slot
    BY <1>1, <2>2 DEF IInv, JobInv
  <2>4. ~loaded[c][Now(c)]
    BY <1>2, <2>3 DEF LoadedInv
  <2> QED
    BY <1>10, <2>1, <2>2, <2>4
<1>13. ASSUME NEW c \in Context, ogl_load(c) PROVE LoadedInv'
  <2> DEFINE k == Now(c)  n == ids[c][k]
  <2>1. k \in Slot /\ n \in Name /\ n > 0 /\ Filled(k)
    BY <1>1, <1>13 DEF IInv, JobInv, ogl_load, Doing
  <2>2. /\ UNCHANGED <<textures, changed, ids>>
        /\ content' = [content EXCEPT ![c][n] = Picture(k)]
        /\ loaded' = [loaded EXCEPT ![c][k] = TRUE]
    BY <1>13 DEF ogl_load, table
  <2> HIDE DEF k, n
  <2>3. \A d \in Context, i \in Slot : loaded'[d][i] <=> loaded[d][i] \/ (d = c /\ i = k)
    BY <1>1, <2>1, <2>2
  <2>4. ~NamesRaced => \A i \in Slot : i # k /\ ids[c][i] > 0 => ids[c][i] # n
    BY <2>1 DEF n, k, IInv, NamesInv, ApartInv
  <2>5. \A d \in Context, m \in Name :
            content'[d][m] = IF d = c /\ m = n THEN Picture(k) ELSE content[d][m]
    BY <1>1, <2>1, <2>2
  <2>6. \A d \in Context, i \in Slot : loaded'[d][i] => ids'[d][i] > 0
    BY <1>2, <2>1, <2>2, <2>3 DEF LoadedInv, n
  <2>7. \A d \in Context, i \in Slot : ~Filled(i)' /\ i \notin changed' => ~loaded'[d][i]
    BY <1>2, <2>1, <2>2, <2>3 DEF LoadedInv, Filled
  <2>8. ASSUME NEW d \in Context, NEW i \in Slot, loaded'[d][i], Filled(i)', i \notin changed',
               ~NamesRaced'
        PROVE  content'[d][ids'[d][i]] = Picture(i)'
    <3>1. Picture(i)' = Picture(i) /\ ids'[d][i] = ids[d][i] /\ Filled(i) /\ i \notin changed
      BY <2>2, <2>8 DEF Picture, Filled
    <3>2. CASE d = c /\ i = k
      BY <2>1, <2>5, <3>1, <3>2 DEF n
    <3>3. CASE ~(d = c /\ i = k)
      <4>1. loaded[d][i] /\ ids[d][i] > 0 /\ ids[d][i] \in Name /\ content[d][ids[d][i]] = Picture(i)
        BY <1>1, <1>2, <2>3, <2>8, <3>1, <3>3 DEF LoadedInv, LoadedIsCurrent
      <4> QED
        BY <1>2, <2>4, <2>5, <2>8, <3>1, <3>3, <4>1
    <3> QED
      BY <3>2, <3>3
  <2> QED
    BY <2>6, <2>7, <2>8 DEF LoadedInv, LoadedIsCurrent
<1>14. ASSUME NEW c \in Context, RenderThread(c),
              ~assign_rid_known(c), ~ogl_reserve(c), ~assign_rid_new(c), ~ogl_load(c)
       PROVE  UNCHANGED <<textures, changed, ids, loaded, content>>
  BY <1>14 DEF RenderThread, txmPreloadContext, txmBindTexture, Begin, load_texture_skips,
     assign_rid_reserves, count_reads, count_writes, txmReserveId, ogl_load_refuses, ogl_bind,
     table, context
<1> QED
  BY <1>3, <1>4, <1>7, <1>8, <1>9, <1>11, <1>12, <1>13, <1>14
  DEF Next, Application, vars, table, context

-----------------------------------------------------------------------------
(* What the threads are doing.                                              *)

LEMMA JobStep == IInv /\ [Next]_vars => JobInv'
<1> SUFFICES ASSUME IInv, [Next]_vars PROVE JobInv'
  OBVIOUS
<1>1. /\ job \in [Context -> Jobs]
      /\ ids \in [Context -> [Slot -> Nat]] /\ loaded \in [Context -> [Slot -> BOOLEAN]]
      /\ \A c \in Context : job[c].todo # <<>> => Now(c) \in Slot
      /\ \A c \in Context : job[c].at \in Places /\ job[c].todo \in Seq(Slot)
      /\ \A c \in Context : job[c].bind \in Slot \cup {NoSlot}
  BY Typed DEF IInv, Jobs
<1>2. JobInv
  BY DEF IInv
\* Between the frames there is nothing to keep.
<1>3. ASSUME BetweenFrames, UNCHANGED job PROVE JobInv'
  BY <1>3 DEF JobInv, BetweenFrames, Idle, NoSlot, Naming
<1>4. CASE Application
  BY <1>3, <1>4 DEF Application, txmAddTexture, txmDelTexture, txmReloadTexture, txmSetOptionV, Calls
<1>5. ASSUME NEW c \in Context, txmReserveId(c) PROVE JobInv'
  BY <1>3, <1>5 DEF txmReserveId, Calls
\* A step of one thread, on its own names and marks, does not disturb another.
<1>6. ASSUME NEW c \in Context, NEW j \in Jobs, job' = [job EXCEPT ![c] = j],
             UNCHANGED textures,
             \A d \in Context : d # c => ids'[d] = ids[d] /\ loaded'[d] = loaded[d],
             /\ j.at = "idle" => j = Idle
             /\ j.at \in {"reserve", "count", "assign", "load"} => j.todo # <<>> /\ Filled(Head(j.todo))
             /\ j.at \in {"reserve", "count", "assign"} => ids'[c][Head(j.todo)] = 0
             /\ j.at = "load" => ids'[c][Head(j.todo)] > 0
             /\ j.bind # NoSlot => /\ Filled(j.bind)
                                  /\ \/ j.todo = <<j.bind>>
                                     \/ j.todo = <<>> /\ loaded'[c][j.bind]
      PROVE  JobInv'
  <2>1. job'[c] = j /\ \A d \in Context : d # c => job'[d] = job[d]
    BY <1>1, <1>6
  <2>2. \A i : Filled(i)' <=> Filled(i)
    BY <1>6 DEF Filled
  <2> QED
    BY <1>2, <1>6, <2>1, <2>2 DEF JobInv, Naming, Now
<1>7. job' \in [Context -> Jobs]
  BY TypeStep DEF IInv, TypeOK, Jobs, Places
<1>8. ASSUME NEW c \in Context, txmPreloadContext(c) PROVE JobInv'
  <2>1. PICK j : /\ j = [Idle EXCEPT !.at = "look", !.todo = [k \in 1 .. ntextures |-> k - 1], !.bind = NoSlot]
                 /\ job' = [job EXCEPT ![c] = j] /\ UNCHANGED <<textures, ids, loaded>>
    BY <1>8 DEF txmPreloadContext, Begin, table, context
  <2>2. job'[c] = j /\ j \in Jobs
    BY <1>1, <1>7, <2>1
  <2>3. j.at = "look" /\ j.bind = NoSlot
    BY <2>1 DEF Idle
  <2> QED
    BY <1>6, <2>1, <2>2, <2>3
<1>9. ASSUME NEW c \in Context, NEW id \in 1 .. MaxTextures, txmBindTexture(c, id) PROVE JobInv'
  <2>1. PICK j : /\ j = [Idle EXCEPT !.at = "look", !.todo = <<id - 1>>, !.bind = id - 1]
                 /\ job' = [job EXCEPT ![c] = j] /\ UNCHANGED <<textures, ids, loaded>>
                 /\ Filled(id - 1)
    BY <1>9 DEF txmBindTexture, Begin, table, context
  <2>2. job'[c] = j /\ j \in Jobs
    BY <1>1, <1>7, <2>1
  <2>3. j.at = "look" /\ j.todo = <<id - 1>> /\ j.bind = id - 1
    BY <2>1 DEF Idle
  <2> QED
    BY <1>6, <2>1, <2>2, <2>3
\* A slot is done with.
<1>10. ASSUME NEW c \in Context, job[c].todo # <<>>, Done(c), UNCHANGED <<textures, ids>>,
             \A d \in Context : d # c => loaded'[d] = loaded[d],
             Filled(Now(c)) => loaded'[c][Now(c)]
      PROVE  JobInv'
  <2> DEFINE j == [job[c] EXCEPT !.at = "look", !.todo = Tail(@)]
  <2>1. job' = [job EXCEPT ![c] = j]
    BY <1>10 DEF Done
  <2>2. j \in Jobs
    <3>1. job[c] \in Jobs /\ Tail(job[c].todo) \in Seq(Slot)
      BY <1>1, <1>10, NowType
    <3> QED
      BY <3>1 DEF Jobs, Places
  <2>3. j.at = "look" /\ j.todo = Tail(job[c].todo) /\ j.bind = job[c].bind
    BY <1>1 DEF Jobs
  <2>4. ASSUME j.bind # NoSlot PROVE Filled(j.bind) /\ j.todo = <<>> /\ loaded'[c][j.bind]
    <3>1. Filled(job[c].bind) /\ job[c].todo = <<job[c].bind>>
      BY <1>2, <1>10, <2>3, <2>4 DEF JobInv
    <3>2. Now(c) = job[c].bind /\ Tail(job[c].todo) = <<>>
      BY <1>1, <2>3, <2>4, <3>1 DEF Now
    <3> QED
      BY <1>10, <2>3, <3>1, <3>2
  <2> HIDE DEF j
  <2> QED
    BY <1>6, <1>10, <2>1, <2>2, <2>3, <2>4
<1>11. ASSUME NEW c \in Context, load_texture_skips(c) PROVE JobInv'
  BY <1>1, <1>10, <1>11 DEF load_texture_skips, Doing, table, context
<1>12. ASSUME NEW c \in Context, ogl_load(c) PROVE JobInv'
  <2>1. Now(c) \in Slot /\ job[c].todo # <<>>
    BY <1>1, <1>12 DEF ogl_load, Doing
  <2>2. loaded' = [loaded EXCEPT ![c][Now(c)] = TRUE] /\ UNCHANGED <<textures, ids>> /\ Done(c)
    BY <1>12 DEF ogl_load, table
  <2>3. loaded'[c][Now(c)] /\ \A d \in Context : d # c => loaded'[d] = loaded[d]
    BY <1>1, <2>1, <2>2
  <2> QED
    BY <1>10, <2>1, <2>2, <2>3
\* A thread gets further with a slot.
<1>13. ASSUME NEW c \in Context, NEW place \in {"reserve", "count", "assign", "load"},
              NEW n \in 0 .. MaxNames,
              job[c].todo # <<>>, Filled(Now(c)),
              job' = [job EXCEPT ![c] = [job[c] EXCEPT !.at = place, !.mine = n]],
              UNCHANGED <<textures, loaded>>, \A d \in Context : d # c => ids'[d] = ids[d],
              place # "load" => ids'[c][Now(c)] = 0,
              place = "load" => ids'[c][Now(c)] > 0
       PROVE  JobInv'
  <2> DEFINE j == [job[c] EXCEPT !.at = place, !.mine = n]
  <2>1. job' = [job EXCEPT ![c] = j]
    BY <1>13
  <2>2. j \in Jobs
    BY <1>1 DEF Jobs, Places
  <2>3. j.at = place /\ j.todo = job[c].todo /\ j.bind = job[c].bind
    BY <1>1 DEF Jobs
  <2>4. j.bind # NoSlot => Filled(j.bind) /\ j.todo = <<j.bind>>
    BY <1>2, <1>13, <2>3 DEF JobInv
  <2>5. Head(j.todo) = Now(c)
    BY <2>3 DEF Now
  <2>6. place # "idle"
    BY <1>13
  <2> HIDE DEF j
  <2>7. /\ j.at = "idle" => j = Idle
        /\ j.at \in {"reserve", "count", "assign", "load"} => j.todo # <<>> /\ Filled(Head(j.todo))
        /\ j.at \in {"reserve", "count", "assign"} => ids'[c][Head(j.todo)] = 0
        /\ j.at = "load" => ids'[c][Head(j.todo)] > 0
    BY <1>13, <2>3, <2>5, <2>6
  <2>8. UNCHANGED textures /\ \A d \in Context : d # c => ids'[d] = ids[d] /\ loaded'[d] = loaded[d]
    BY <1>13
  <2> QED
    BY <1>6, <2>1, <2>2, <2>4, <2>7, <2>8
<1>14. ASSUME NEW c \in Context, NEW place, Go(c, place)
       PROVE  /\ job' = [job EXCEPT ![c] = [job[c] EXCEPT !.at = place, !.mine = job[c].mine]]
              /\ job[c].mine \in 0 .. MaxNames
  <2>1. job[c] \in Jobs /\ [job[c] EXCEPT !.at = place] = [job[c] EXCEPT !.at = place, !.mine = job[c].mine]
    BY <1>1 DEF Jobs
  <2> QED
    BY <1>14, <2>1 DEF Go, Jobs
<1>15. ASSUME NEW c \in Context, assign_rid_known(c) PROVE JobInv'
  <2>1. PICK d \in Named(c, Now(c)) : ids' = [ids EXCEPT ![c][Now(c)] = ids[d][Now(c)]]
    BY <1>15 DEF assign_rid_known
  <2>2. /\ job[c].todo # <<>> /\ Filled(Now(c)) /\ Go(c, "load") /\ UNCHANGED <<textures, loaded>>
        /\ Now(c) \in Slot
    BY <1>1, <1>15 DEF assign_rid_known, MustLoad, Doing, table
  <2>3. d \in Context /\ ids[d][Now(c)] > 0
    BY <2>1 DEF Named
  <2>4. ids'[c][Now(c)] > 0 /\ \A e \in Context : e # c => ids'[e] = ids[e]
    BY <1>1, <2>1, <2>2, <2>3
  <2> QED
    BY <1>13, <1>14, <2>2, <2>4
<1>16. ASSUME NEW c \in Context, assign_rid_reserves(c) PROVE JobInv'
  <2>1. /\ job[c].todo # <<>> /\ Filled(Now(c)) /\ Go(c, "reserve")
        /\ UNCHANGED <<textures, loaded, ids>> /\ Named(c, Now(c)) = {} /\ Now(c) \in Slot
    BY <1>1, <1>16 DEF assign_rid_reserves, MustLoad, Doing, table, context
  <2>2. ids[c][Now(c)] = 0
    BY <1>1, <2>1 DEF Named
  <2> QED
    BY <1>13, <1>14, <2>1, <2>2
<1>17. ASSUME NEW c \in Context, NEW place \in {"reserve", "count", "assign"}, Doing(c, place)
       PROVE  job[c].todo # <<>> /\ Now(c) \in Slot /\ Filled(Now(c)) /\ ids[c][Now(c)] = 0
  BY <1>1, <1>2, <1>17 DEF Doing, JobInv, Naming
<1>18. ASSUME NEW c \in Context, count_reads(c) PROVE JobInv'
  <2>1. /\ job' = [job EXCEPT ![c] = [job[c] EXCEPT !.at = "count", !.mine = Fresh(c)]]
        /\ Fresh(c) \in 0 .. MaxNames /\ UNCHANGED <<textures, ids, loaded>> /\ Doing(c, "reserve")
    <3>1. Fresh(c) \in Name
      BY <1>18 DEF count_reads
    <3>2. Fresh(c) \in 0 .. MaxNames
      BY <3>1, TxmAssumption DEF Name
    <3>3. job' = [job EXCEPT ![c] = [job[c] EXCEPT !.at = "count", !.mine = Fresh(c)]]
      BY <1>18 DEF count_reads
    <3> QED
      BY <1>18, <3>2, <3>3 DEF count_reads, table, context
  <2> QED
    BY <1>13, <1>17, <2>1
<1>19. ASSUME NEW c \in Context, count_writes(c) PROVE JobInv'
  <2>1. Go(c, "assign") /\ UNCHANGED <<textures, ids, loaded>> /\ Doing(c, "count")
    BY <1>19 DEF count_writes, table, context
  <2> QED
    BY <1>13, <1>14, <1>17, <2>1
<1>20. ASSUME NEW c \in Context, ogl_reserve(c) PROVE JobInv'
  <2>1. /\ Doing(c, "reserve") /\ Go(c, "load") /\ UNCHANGED <<textures, loaded>>
        /\ ids' = [ids EXCEPT ![c][Now(c)] = Fresh(c)] /\ Fresh(c) > 0
    BY <1>20, TxmAssumption DEF ogl_reserve, table, Name
  <2>2. ids'[c][Now(c)] > 0 /\ \A e \in Context : e # c => ids'[e] = ids[e]
    BY <1>1, <1>17, <2>1
  <2> QED
    BY <1>13, <1>14, <1>17, <2>1, <2>2
<1>21. ASSUME NEW c \in Context, assign_rid_new(c) PROVE JobInv'
  <2>1. PICK n \in {job[c].mine, used[0]} : ids' = [ids EXCEPT ![c][Now(c)] = n]
    BY <1>21 DEF assign_rid_new
  <2>2. /\ Doing(c, "assign") /\ UNCHANGED <<textures, loaded>>
        /\ job' = [job EXCEPT ![c] = [job[c] EXCEPT !.at = "load", !.mine = 0]]
    BY <1>21 DEF assign_rid_new, table
  <2>3. n > 0
    BY <2>1, <2>2 DEF IInv, RaceInv, Doing
  <2>4. ids'[c][Now(c)] > 0 /\ \A e \in Context : e # c => ids'[e] = ids[e]
    BY <1>1, <1>17, <2>1, <2>2, <2>3
  <2>5. 0 \in 0 .. MaxNames
    BY TxmAssumption
  <2> QED
    BY <1>13, <1>17, <2>2, <2>4, <2>5
<1>22. ASSUME NEW c \in Context, ogl_load_refuses(c) \/ ogl_bind(c) PROVE JobInv'
  <2>1. job' = [job EXCEPT ![c] = Idle] /\ UNCHANGED <<textures, ids, loaded>>
    BY <1>22 DEF ogl_load_refuses, ogl_bind, table, context
  <2>2. Idle.at = "idle" /\ Idle.bind = NoSlot
    BY DEF Idle
  <2> QED
    BY <1>6, <2>1, <2>2, IdleIsJob
<1>23. CASE UNCHANGED vars
  BY <1>2, <1>23 DEF vars, table, context, JobInv, Naming, Now, Filled
<1> QED
  BY <1>4, <1>5, <1>8, <1>9, <1>11, <1>12, <1>15, <1>16, <1>20, <1>22, <1>23,
     <1>18, <1>19, <1>21 DEF Next, RenderThread

-----------------------------------------------------------------------------
(* Shared ids.                                                              *)

\* A name is entered for a slot by a thread that has found one, or has one of its own.
LEMMA EnteringSteps ==
    ASSUME IInv, [Next]_vars, shared
    PROVE  \/ UNCHANGED ids
           \/ \E e, d \in Context : /\ ids[d][Now(e)] > 0 /\ Now(e) \in Slot
                                    /\ ids' = [ids EXCEPT ![e][Now(e)] = ids[d][Now(e)]]
           \/ \E e \in Context, n \in Nat : /\ assign_rid_new(e) /\ Naming(e) /\ Now(e) \in Slot
                                            /\ ids' = [ids EXCEPT ![e][Now(e)] = n]
<1>1. /\ used \in [Context \cup {0} -> Nat] /\ job \in [Context -> Jobs]
      /\ \A c \in Context : job[c].todo # <<>> => Now(c) \in Slot
  BY Typed DEF IInv
<1>2. ASSUME NEW e \in Context, assign_rid_known(e)
      PROVE  \E d \in Context : /\ ids[d][Now(e)] > 0 /\ Now(e) \in Slot
                                /\ ids' = [ids EXCEPT ![e][Now(e)] = ids[d][Now(e)]]
  BY <1>1, <1>2 DEF assign_rid_known, MustLoad, Doing, Named
<1>3. ASSUME NEW e \in Context, assign_rid_new(e)
      PROVE  \E n \in Nat : /\ Naming(e) /\ Now(e) \in Slot
                            /\ ids' = [ids EXCEPT ![e][Now(e)] = n]
  <2>1. job[e].mine \in Nat /\ used[0] \in Nat
    BY <1>1, TxmAssumption DEF Jobs
  <2> QED
    BY <1>1, <1>3, <2>1 DEF assign_rid_new, Doing, Naming
<1>4. ASSUME NEW e \in Context, txmReserveId(e) \/ ogl_reserve(e) \/ count_writes(e) PROVE UNCHANGED ids
  BY <1>4 DEF txmReserveId, ogl_reserve, count_writes, context
<1> QED
  BY <1>2, <1>3, <1>4, NameSteps

LEMMA SharedStep == IInv /\ SharedInv /\ [Next]_vars => SharedInv'
<1> SUFFICES ASSUME IInv, SharedInv, [Next]_vars PROVE SharedInv'
  OBVIOUS
<1>1. /\ job \in [Context -> Jobs] /\ ids \in [Context -> [Slot -> Nat]]
      /\ RaceInv /\ UNCHANGED shared /\ raced \subseteq raced'
  BY Typed, SharedKept, RacedGrows DEF IInv
<1>2. CASE ~shared'
  BY <1>2 DEF SharedInv, SharedIdsAgree
<1>3. CASE shared'
  <2>1. shared
    BY <1>1, <1>3
  \* A name that one thread enters is no other than those that are there.
  <2>2. ASSUME NEW e \in Context, NEW n \in Nat, NEW k \in Slot,
               ids' = [ids EXCEPT ![e][k] = n],
               {k} \notin raced => \A d \in Context : ids[d][k] > 0 => ids[d][k] = n
        PROVE  SharedIdsAgree'
    <3>1. \A d \in Context, i \in Slot : ids'[d][i] = IF d = e /\ i = k THEN n ELSE ids[d][i]
      BY <1>1, <2>2
    <3>2. \A i \in Slot : {i} \notin raced' => {i} \notin raced
      BY <1>1
    <3>3. ASSUME NEW i \in Slot, {i} \notin raced', NEW c \in Context, NEW d \in Context,
                 ids'[c][i] > 0, ids'[d][i] > 0
          PROVE  ids'[c][i] = ids'[d][i]
      <4>1. CASE i = k
        BY <2>2, <3>1, <3>2, <3>3, <4>1
      <4>2. CASE i # k
        <5>1. ids'[c][i] = ids[c][i] /\ ids'[d][i] = ids[d][i]
          BY <3>1, <4>2
        <5> QED
          BY <2>1, <3>2, <3>3, <5>1 DEF SharedInv, SharedIdsAgree
      <4> QED
        BY <4>1, <4>2
    <3> QED
      BY <3>3 DEF SharedIdsAgree
  <2>3. ASSUME NEW e \in Context, NEW d \in Context, ids[d][Now(e)] > 0, Now(e) \in Slot
        PROVE  {Now(e)} \notin raced =>
                  \A o \in Context : ids[o][Now(e)] > 0 => ids[o][Now(e)] = ids[d][Now(e)]
    BY <2>1, <2>3 DEF SharedInv, SharedIdsAgree
  <2>4. ASSUME NEW e \in Context, Naming(e)
        PROVE  {Now(e)} \notin raced => \A o \in Context : ids[o][Now(e)] = 0
    BY <2>1, <2>4 DEF SharedInv
  <2>5. SharedIdsAgree'
    <3>1. CASE UNCHANGED ids
      BY <1>1, <3>1 DEF SharedInv, SharedIdsAgree
    <3>2. ASSUME NEW e \in Context, NEW d \in Context, ids[d][Now(e)] > 0, Now(e) \in Slot,
                 ids' = [ids EXCEPT ![e][Now(e)] = ids[d][Now(e)]]
          PROVE  SharedIdsAgree'
      <4>1. PICK n \in Nat, k \in Slot : n = ids[d][Now(e)] /\ k = Now(e)
        BY <1>1, <3>2
      <4>2. {k} \notin raced => \A o \in Context : ids[o][k] > 0 => ids[o][k] = n
        BY <2>3, <3>2, <4>1
      <4>3. ids' = [ids EXCEPT ![e][k] = n]
        BY <3>2, <4>1
      <4> QED
        BY <2>2, <4>2, <4>3
    <3>3. ASSUME NEW e \in Context, NEW n \in Nat, Naming(e), Now(e) \in Slot,
                 ids' = [ids EXCEPT ![e][Now(e)] = n]
          PROVE  SharedIdsAgree'
      <4>1. PICK k \in Slot : k = Now(e)
        BY <3>3
      <4>2. {k} \notin raced => \A o \in Context : ids[o][k] > 0 => ids[o][k] = n
        BY <2>4, <3>3, <4>1
      <4>3. ids' = [ids EXCEPT ![e][k] = n]
        BY <3>3, <4>1
      <4> QED
        BY <2>2, <4>2, <4>3
    <3> QED
      BY <2>1, <3>1, <3>2, <3>3, EnteringSteps
  <2>6. ASSUME NEW c \in Context, NEW d \in Context, Naming(c)', {Now(c)'} \notin raced'
        PROVE  ids'[d][Now(c)'] = 0
    <3>1. CASE Naming(c) /\ Now(c)' = Now(c) /\ UNCHANGED ids
      BY <1>1, <2>4, <2>6, <3>1
    <3>2. CASE RenderThread(c) /\ ~UNCHANGED job
      <4>1. CASE assign_rid_reserves(c) /\ Now(c)' = Now(c)
        <5>1. Named(c, Now(c)) = {} /\ UNCHANGED ids /\ Now(c) \in Slot
          BY <4>1, Typed DEF IInv, assign_rid_reserves, MustLoad, Doing, context
        <5>2. ids[d][Now(c)] = 0
          BY <1>1, <2>1, <5>1 DEF Named
        <5> QED
          BY <4>1, <5>1, <5>2
      <4>2. CASE Naming(c) /\ Now(c)' = Now(c) /\ (count_reads(c) \/ count_writes(c))
        BY <3>1, <4>2 DEF count_reads, count_writes, context
      <4> QED
        BY <1>1, <2>6, <3>2, <4>1, <4>2, NamingSteps
    <3>3. CASE job'[c] = job[c]
      <4>1. Naming(c) /\ Now(c)' = Now(c) /\ {Now(c)} \notin raced
        BY <1>1, <2>6, <3>3 DEF Naming, Now
      <4>2. \A o \in Context : ids[o][Now(c)] = 0
        BY <2>4, <4>1
      <4>3. Now(c) \in Slot
        BY <4>1, Typed DEF IInv, JobInv
      <4>4. ASSUME NEW e \in Context, NEW n \in Nat, NEW k \in Slot, k # Now(c),
                   ids' = [ids EXCEPT ![e][k] = n]
            PROVE  ids'[d][Now(c)] = 0
        BY <1>1, <4>2, <4>3, <4>4
      <4>5. ASSUME NEW e \in Context, NEW x \in Context, ids[x][Now(e)] > 0 PROVE Now(e) # Now(c)
        BY <4>2, <4>5
      <4>6. ASSUME NEW e \in Context, assign_rid_new(e), Naming(e) PROVE Now(e) # Now(c)
        <5>1. e # c
          <6>1. job[e].at = "assign" /\ job'[e].at = "load"
            BY <1>1, <4>6 DEF assign_rid_new, Doing, Jobs
          <6> QED
            BY <3>3, <6>1
        <5>2. {Now(c), Now(e)} \in raced
          BY <1>1, <2>1, <4>1, <4>6, <5>1 DEF RaceInv
        <5>3. Now(e) = Now(c) => {Now(c), Now(e)} = {Now(c)}
          OBVIOUS
        <5> QED
          BY <4>1, <5>2, <5>3
      <4>7. CASE UNCHANGED ids
        BY <4>1, <4>2, <4>7
      <4>8. \A e, x \in Context : ids[x][Now(e)] > 0 /\ Now(e) \in Slot => ids[x][Now(e)] \in Nat
        BY <1>1
      <4>9. ids'[d][Now(c)] = 0
        BY <2>1, <4>1, <4>2, <4>4, <4>5, <4>6, <4>7, <4>8, EnteringSteps
      <4> QED
        BY <4>1, <4>9
    <3>4. CASE UNCHANGED job
      BY <3>3, <3>4
    <3> QED
      BY <1>1, <3>2, <3>3, <3>4, OnlyOwnJob, ApplicationKeeps DEF Next, vars
  <2> QED
    BY <1>3, <2>5, <2>6 DEF SharedInv
<1> QED
  BY <1>2, <1>3

-----------------------------------------------------------------------------
(* The theorems.                                                            *)

LEMMA InvInit == Init => IInv
<1> SUFFICES ASSUME Init PROVE IInv
  OBVIOUS
<1>1. TableInv /\ LoadedInv
  BY DEF Init, TableInv, LoadedInv, LoadedIsCurrent, Filled, Empty
<1>2. NamesInv
  BY DEF Init, NamesInv, ApartInv, AloneInv, Namer, Idle
<1>3. JobInv /\ RaceInv
  BY DEF Init, JobInv, RaceInv, Naming, Idle, NoSlot
<1> QED
  BY <1>1, <1>2, <1>3, TypeInit DEF IInv

LEMMA InvStep == IInv /\ [Next]_vars => IInv'
BY TypeStep, TableStep, RaceStep, NamesStep, LoadedStep, JobStep DEF IInv

LEMMA Invariance == Spec => []IInv
BY InvInit, InvStep, PTL DEF Spec

\* Every variable of the texture manager keeps its type.
THEOREM TypeCorrect == Spec => []TypeOK
<1>1. IInv => TypeOK
  BY DEF IInv
<1> QED
  BY <1>1, Invariance, PTL

\* What a context has marked as loaded is the texture as it is now, whatever the order
\* of loads, changes and reloads and whatever threads load at the same time, until two of
\* them count names at once.
THEOREM LoadedCorrect == Spec => []LoadedIsCurrent
<1>1. IInv => LoadedIsCurrent
  BY DEF IInv, LoadedInv
<1> QED
  BY <1>1, Invariance, PTL

\* Names in a context do not clash, with or without shared ids, until two threads count
\* names at once.
THEOREM NamesCorrect == Spec => []NamesApart
<1>1. IInv => NamesApart
  BY DEF IInv, NamesInv, ApartInv, NamesApart
<1> QED
  BY <1>1, Invariance, PTL

\* A successful call of txmBindTexture leaves the texture bound.
THEOREM BindCorrect == Spec => BindShowsTexture
<1>1. ASSUME IInv, [Next]_vars, NEW c \in Context, NEW i \in Slot,
             job[c].at = "look", job[c].todo = <<>>, job[c].bind = i, job'[c] = Idle,
             i \notin changed, ~NamesRaced
      PROVE  glbound'[c] > 0 /\ content'[c][glbound'[c]] = Picture(i)
  <2>1. job \in [Context -> Jobs] /\ job[c].at = "look" /\ job[c].todo = <<>> /\ job[c].bind = i
    BY <1>1, Typed DEF IInv
  <2>2. i # NoSlot /\ job[c] # Idle
    BY <1>1, <2>1 DEF Slot, NoSlot, Idle
  <2>3. Filled(i) /\ loaded[c][i]
    BY <1>1, <2>1, <2>2 DEF IInv, JobInv
  <2>4. ids[c][i] > 0 /\ content[c][ids[c][i]] = Picture(i)
    BY <1>1, <2>3 DEF IInv, LoadedInv, LoadedIsCurrent
  <2>5. ogl_bind(c)
    <3>1. ~BetweenFrames
      BY <2>2 DEF BetweenFrames
    <3>2. ~Application /\ ~UNCHANGED vars
      BY <1>1, <2>2, <3>1 DEF Application, txmAddTexture, txmDelTexture, txmReloadTexture, txmSetOptionV,
         Calls, vars
    <3>3. PICK d \in Context : RenderThread(d)
      BY <1>1, <3>2 DEF Next
    <3>4. d # c => job'[c] = job[c]
      BY <2>1, <3>3, OnlyOwnJob
    <3>5. c = d
      BY <1>1, <2>2, <3>4
    <3> QED
      <4>1. job'[c].at = "idle" /\ RenderThread(c)
        BY <1>1, <3>3, <3>5 DEF Idle
      <4>2. ~txmReserveId(c)
        BY <3>1 DEF txmReserveId, Calls
      <4>3. ~\E place \in {"reserve", "count", "assign", "load"} : Doing(c, place)
        BY <2>1 DEF Doing
      <4>4. ~Doing(c, "look")
        BY <2>1 DEF Doing
      <4>5. ~txmPreloadContext(c) /\ ~\E id \in 1 .. MaxTextures : txmBindTexture(c, id)
        BY <2>2 DEF txmPreloadContext, txmBindTexture, Begin
      <4> QED
        BY <4>1, <4>2, <4>3, <4>4, <4>5 DEF RenderThread, load_texture_skips, assign_rid_known,
           assign_rid_reserves, MustLoad, ogl_reserve, count_reads, count_writes, assign_rid_new,
           ogl_load, ogl_load_refuses
  <2>6. glbound' = [glbound EXCEPT ![c] = ids[c][i]] /\ UNCHANGED content
    BY <2>1, <2>2, <2>5 DEF ogl_bind
  <2> QED
    BY <1>1, <2>4, <2>6 DEF IInv, TypeOK
<1>2. IInv /\ [Next]_vars => [BindsAsked]_vars
  BY <1>1 DEF BindsAsked
<1> QED
  BY <1>2, Invariance, PTL DEF Spec, BindShowsTexture

\* With shared ids a texture has one name in all contexts, whatever render threads do at
\* the same time in txm.c:205-209 and 235-246, unless two of them name this very texture
\* at once.
THEOREM SharedCorrect == Spec => []SharedIdsAgree
<1>1. Init => SharedInv
  BY DEF Init, SharedInv, SharedIdsAgree, Naming, Idle
<1>2. IInv /\ SharedInv /\ [Next]_vars => SharedInv'
  BY SharedStep
<1>3. SharedInv => SharedIdsAgree
  BY DEF SharedInv
<1> QED
  BY <1>1, <1>2, <1>3, Invariance, PTL DEF Spec
=============================================================================
