--------------------------- MODULE VeThread_proofs ---------------------------
(* Proofs about the two constructions out of mutexes and conditions, that   *)
(* have a module each and share nothing: the barrier of VeThrBarrier loses  *)
(* no wake-up and implements BarrierRounds; the interlock of VeFrameLock    *)
(* excludes, loses no wake-up, and lets no late handler ahead of a pending  *)
(* renderer.                                                                *)
EXTENDS VeThrBarrier, VeFrameLock, FiniteSetTheorems, TLAPS

-----------------------------------------------------------------------------
(* The barrier: its inductive invariant.                                    *)

Counted == {t \in Party : place[t] \in {"reached", "woken"}}

\* What t still owes the round that is draining.
Owes(t) == IF exiting /\ t \in Counted THEN 1 ELSE 0

\* Everybody is in the same round, give or take the return still owed.
SameRound ==
    \A t, u \in Party : passed[t] + Owes(t) = passed[u] + Owes(u)

CountInv ==
    /\ count = Cardinality(Counted)
    /\ exiting => Counted # {}

BarrierInv == BarrierTypeOK /\ NoSleeperForgotten /\ CountInv /\ SameRound

-----------------------------------------------------------------------------
(* Facts about the counted threads.                                         *)

\* The barrier's size is a positive number, and the count that of a finite
\* set.
LEMMA BarrierFinite ==
    /\ max \in Nat \ {0}
    /\ IsFiniteSet(Counted) /\ Cardinality(Counted) \in Nat
<1>1. IsFiniteSet(Party) /\ Party # {}
  BY PartyAssumption
<1>2. max \in Nat \ {0}
  BY <1>1, FS_CardinalityType, FS_EmptySet DEF max
<1>3. Counted \in SUBSET Party
  BY DEF Counted
<1>4. IsFiniteSet(Counted)
  BY <1>1, <1>3, FS_Subset
<1> QED
  BY <1>2, <1>4, FS_CardinalityType

\* Who completes the round joins all the others.
LEMMA FullMeansAll ==
    ASSUME CountInv, NEW t \in Party, place[t] = "call", Full
    PROVE  \A u \in Party : u # t => u \in Counted
<1>1. t \notin Counted
  BY DEF Counted
<1>2. /\ IsFiniteSet(Counted \cup {t})
      /\ Cardinality(Counted \cup {t}) = Cardinality(Counted) + 1
  BY <1>1, BarrierFinite, FS_AddElement
<1>3. Counted \cup {t} \in SUBSET Party
  BY DEF Counted
<1>4. Cardinality(Counted \cup {t}) <= Cardinality(Party)
  BY <1>3, PartyAssumption, FS_Subset
<1>5. Cardinality(Counted \cup {t}) >= Cardinality(Party)
  BY <1>2 DEF Full, CountInv, max
<1>6. Cardinality(Counted \cup {t}) = Cardinality(Party)
  BY <1>2, <1>4, <1>5, BarrierFinite DEF max
<1>7. Counted \cup {t} = Party
  BY <1>3, <1>6, PartyAssumption, FS_Subset
<1> QED
  BY <1>7

\* A step that neither counts nor discounts a thread keeps the numbers.
LEMMA CountKept ==
    ASSUME BarrierInv, Counted' = Counted, UNCHANGED <<count, exiting, passed>>
    PROVE  CountInv' /\ SameRound'
<1>1. CountInv'
  BY DEF BarrierInv, CountInv
<1>2. \A t \in Party : Owes(t)' = Owes(t)
  BY DEF Owes
<1>3. SameRound'
  BY <1>2 DEF BarrierInv, SameRound
<1> QED
  BY <1>1, <1>3

-----------------------------------------------------------------------------
(* The invariant is inductive.                                              *)

LEMMA BarrierInvInit == BarrierInit => BarrierInv
<1> SUFFICES ASSUME BarrierInit PROVE BarrierInv
  OBVIOUS
<1>1. Counted = {}
  BY DEF BarrierInit, Counted
<1>2. CountInv
  BY <1>1, FS_EmptySet DEF BarrierInit, CountInv
<1>3. BarrierTypeOK
  <2>1. 0 \in 0 .. max - 1
    BY BarrierFinite
  <2> QED
    BY <2>1 DEF BarrierInit, BarrierTypeOK
<1>4. NoSleeperForgotten
  BY DEF BarrierInit, NoSleeperForgotten
<1>5. \A t \in Party : passed[t] = 0 /\ Owes(t) = 0
  BY DEF BarrierInit, Owes
<1>6. SameRound
  BY <1>5 DEF SameRound
<1> QED
  BY <1>2, <1>3, <1>4, <1>6 DEF BarrierInv

\* The thread that completes the round.
LEMMA InvFill ==
    ASSUME BarrierInv, NEW t \in Party, Fill(t)
    PROVE  BarrierInv'
<1> DEFINE woken == Broadcast(place, "reached", "woken")
<1>1. /\ place[t] = "call" /\ ~exiting /\ Full
      /\ Leave(t, count, woken)
  BY DEF Fill
<1>2. \A u \in Party : u # t => u \in Counted
  BY <1>1, FullMeansAll DEF BarrierInv
<1>3. /\ place \in [Party -> {"out", "call", "entry", "reached", "woken"}]
      /\ passed \in [Party -> Nat] /\ count \in Nat /\ count \in 0 .. max - 1
  BY BarrierFinite DEF BarrierInv, BarrierTypeOK
<1>4. \A u \in Party : u # t => place[u] \in {"reached", "woken"}
  BY <1>2 DEF Counted
<1>5. /\ woken \in [Party -> {"out", "call", "entry", "reached", "woken"}]
      /\ woken[t] = "call"
      /\ \A u \in Party : u # t => woken[u] = "woken"
  BY <1>1, <1>3, <1>4 DEF Broadcast
<1>6. /\ place' \in [Party -> {"out", "woken"}]
      /\ place'[t] = "out"
      /\ \A u \in Party : u # t => place'[u] = "woken"
  <2>1. CASE count > 0
    <3>1. place' = [woken EXCEPT ![t] = "out"]
      BY <1>1, <2>1 DEF Leave
    <3> HIDE DEF woken
    <3> QED
      BY <1>5, <3>1
  <2>2. CASE ~(count > 0)
    <3>1. place' = [Broadcast(woken, "entry", "call") EXCEPT ![t] = "out"]
      BY <1>1, <2>2 DEF Leave
    <3> HIDE DEF woken
    <3>2. /\ Broadcast(woken, "entry", "call")
                \in [Party -> {"out", "call", "entry", "reached", "woken"}]
          /\ \A u \in Party : u # t => Broadcast(woken, "entry", "call")[u] = "woken"
      BY <1>5 DEF Broadcast
    <3> QED
      BY <3>1, <3>2
  <2> QED
    BY <2>1, <2>2
<1>7. Counted' = Counted
  BY <1>1, <1>2, <1>6 DEF Counted
<1>8. /\ count' = count /\ exiting' = (count > 0)
      /\ passed' = [passed EXCEPT ![t] = @ + 1]
  BY <1>1 DEF Leave
<1>9. BarrierTypeOK'
  BY <1>3, <1>6, <1>8 DEF BarrierTypeOK, max
<1>10. NoSleeperForgotten'
  BY <1>6 DEF NoSleeperForgotten
<1>11. CountInv'
  <2>1. count' = Cardinality(Counted')
    BY <1>7, <1>8 DEF BarrierInv, CountInv
  <2>2. count > 0 => Counted # {}
    BY FS_EmptySet DEF BarrierInv, CountInv
  <2>3. exiting' => Counted' # {}
    BY <1>7, <1>8, <2>2
  <2> QED
    BY <2>1, <2>3 DEF CountInv
<1>12. \A u \in Party : passed[u] = passed[t] /\ Owes(u) = 0
  BY <1>1, <1>3 DEF BarrierInv, SameRound, Owes
<1>13. \A u \in Party : u # t => exiting'
  <2>1. SUFFICES ASSUME NEW u \in Party, u # t PROVE count > 0
    BY <1>8
  <2>2. Counted # {}
    BY <1>2, <2>1
  <2>3. Cardinality(Counted) # 0
    BY <2>2, BarrierFinite, FS_EmptySet
  <2> QED
    BY <1>3, <2>3 DEF BarrierInv, CountInv
<1>14. \A u \in Party : passed'[u] + Owes(u)' = passed[t] + 1
  <2>1. passed'[t] = passed[t] + 1 /\ Owes(t)' = 0
    BY <1>1, <1>3, <1>7, <1>8 DEF Owes, Counted
  <2>2. ASSUME NEW u \in Party, u # t
        PROVE  passed'[u] = passed[t] /\ Owes(u)' = 1
    BY <1>2, <1>3, <1>7, <1>8, <1>12, <1>13, <2>2 DEF Owes
  <2> QED
    BY <1>3, <2>1, <2>2
<1>15. SameRound'
  BY <1>14 DEF SameRound
<1> QED
  BY <1>9, <1>10, <1>11, <1>15 DEF BarrierInv

\* A thread that leaves after its wake-up.
LEMMA InvReturn ==
    ASSUME BarrierInv, NEW t \in Party, Return(t)
    PROVE  BarrierInv'
<1>1. /\ place[t] = "woken" /\ exiting
      /\ Leave(t, count - 1, place)
  BY DEF Return
<1>2. /\ place \in [Party -> {"out", "call", "entry", "reached", "woken"}]
      /\ passed \in [Party -> Nat] /\ count \in Nat /\ count \in 0 .. max - 1
  BY BarrierFinite DEF BarrierInv, BarrierTypeOK
<1>3. t \in Counted
  BY <1>1 DEF Counted
<1>4. /\ place' \in [Party -> {"out", "call", "entry", "reached", "woken"}]
      /\ place'[t] = "out"
      /\ \A u \in Party \ {t} :
            place'[u] = IF count - 1 > 0 \/ place[u] # "entry" THEN place[u] ELSE "call"
  BY <1>1, <1>2 DEF Leave, Broadcast
<1>5. Counted' = Counted \ {t}
  BY <1>3, <1>4 DEF Counted
<1>6. /\ count' = count - 1 /\ exiting' = (count - 1 > 0)
      /\ passed' = [passed EXCEPT ![t] = @ + 1]
  BY <1>1 DEF Leave
<1>7. count # 0
  BY <1>3, BarrierFinite, FS_EmptySet DEF BarrierInv, CountInv
<1>8. BarrierTypeOK'
  BY <1>2, <1>4, <1>6, <1>7, BarrierFinite DEF BarrierTypeOK, max
<1>9. NoSleeperForgotten'
  BY <1>1, <1>4, <1>6 DEF BarrierInv, NoSleeperForgotten
<1>10. /\ IsFiniteSet(Counted \ {t})
       /\ Cardinality(Counted \ {t}) = Cardinality(Counted) - 1
  BY <1>3, BarrierFinite, FS_RemoveElement
<1>11. CountInv'
  <2>1. count' = Cardinality(Counted')
    BY <1>5, <1>6, <1>10 DEF BarrierInv, CountInv
  <2>2. count - 1 > 0 => Counted' # {}
    BY <1>6, <2>1, FS_EmptySet
  <2>3. exiting' => Counted' # {}
    BY <1>6, <2>2
  <2> QED
    BY <2>1, <2>3 DEF CountInv
<1>12. ~exiting' => Counted' = {}
  <2>1. ~(count - 1 > 0) => Cardinality(Counted \ {t}) = 0
    BY <1>2, <1>6, <1>7, <1>10 DEF BarrierInv, CountInv
  <2>2. ~(count - 1 > 0) => Counted \ {t} = {}
    BY <1>10, <2>1, FS_EmptySet
  <2> QED
    BY <1>5, <1>6, <2>2
<1>13. \A u \in Party : passed[u] + Owes(u) = passed[t] + 1
  BY <1>1, <1>2, <1>3 DEF BarrierInv, SameRound, Owes
<1>14. \A u \in Party : passed'[u] + Owes(u)' = passed[t] + 1
  <2>1. passed'[t] = passed[t] + 1 /\ Owes(t)' = 0
    BY <1>2, <1>5, <1>6 DEF Owes
  <2>2. ASSUME NEW u \in Party, u # t
        PROVE  passed'[u] = passed[u] /\ Owes(u)' = Owes(u)
    BY <1>1, <1>2, <1>5, <1>6, <1>12, <2>2 DEF Owes
  <2> QED
    BY <1>2, <1>13, <2>1, <2>2
<1>15. SameRound'
  BY <1>14 DEF SameRound
<1> QED
  BY <1>8, <1>9, <1>11, <1>15 DEF BarrierInv

\* A thread that joins a round that is not yet full.
LEMMA InvWaitReached ==
    ASSUME BarrierInv, NEW t \in Party, WaitReached(t)
    PROVE  BarrierInv'
<1>1. /\ place[t] = "call" /\ ~exiting /\ ~Full
      /\ count' = count + 1 /\ place' = [place EXCEPT ![t] = "reached"]
      /\ UNCHANGED <<exiting, passed>>
  BY DEF WaitReached
<1>2. BarrierTypeOK'
  BY <1>1, BarrierFinite DEF BarrierInv, BarrierTypeOK, Full, max
<1>3. NoSleeperForgotten'
  BY <1>1 DEF BarrierInv, BarrierTypeOK, NoSleeperForgotten
<1>4. t \notin Counted /\ Counted' = Counted \cup {t}
  BY <1>1 DEF BarrierInv, BarrierTypeOK, Counted
<1>5. CountInv'
  BY <1>1, <1>4, BarrierFinite, FS_AddElement DEF BarrierInv, CountInv
<1>6. \A u \in Party : Owes(u) = 0 /\ Owes(u)' = 0
  BY <1>1 DEF Owes
<1>7. SameRound'
  BY <1>1, <1>6 DEF BarrierInv, SameRound
<1> QED
  BY <1>2, <1>3, <1>5, <1>7 DEF BarrierInv

\* The steps that only change where a thread waits.
LEMMA InvOther ==
    ASSUME BarrierInv, NEW t \in Party,
           Call(t) \/ WaitEntry(t) \/ SleepAgain(t) \/ SpuriousWakeup(t)
    PROVE  BarrierInv'
<1>1. UNCHANGED <<count, exiting, passed>>
  BY DEF Call, WaitEntry, SleepAgain, SpuriousWakeup
<1>2. Counted' = Counted
  BY DEF BarrierInv, BarrierTypeOK, Counted, Call, WaitEntry, SleepAgain, SpuriousWakeup
<1>3. BarrierTypeOK'
  BY <1>1 DEF BarrierInv, BarrierTypeOK, max, Call, WaitEntry, SleepAgain, SpuriousWakeup
<1>4. NoSleeperForgotten'
  BY <1>1 DEF BarrierInv, BarrierTypeOK, NoSleeperForgotten, Call, WaitEntry, SleepAgain,
              SpuriousWakeup
<1> QED
  BY <1>1, <1>2, <1>3, <1>4, CountKept DEF BarrierInv

LEMMA BarrierInvNext == BarrierInv /\ [BarrierNext]_barrierVars => BarrierInv'
<1> SUFFICES ASSUME BarrierInv, [BarrierNext]_barrierVars PROVE BarrierInv'
  OBVIOUS
<1>1. ASSUME NEW t \in Party, Call(t) \/ Step(t) \/ SpuriousWakeup(t)
      PROVE  BarrierInv'
  BY <1>1, InvFill, InvReturn, InvWaitReached, InvOther DEF Step
<1>2. CASE UNCHANGED barrierVars
  <2>1. Counted' = Counted /\ UNCHANGED <<count, exiting, passed>>
    BY <1>2 DEF barrierVars, Counted
  <2>2. BarrierTypeOK' /\ NoSleeperForgotten'
    BY <1>2 DEF BarrierInv, barrierVars, BarrierTypeOK, NoSleeperForgotten, max
  <2> QED
    BY <2>1, <2>2, CountKept DEF BarrierInv
<1> QED
  BY <1>1, <1>2 DEF BarrierNext, Finished

LEMMA BarrierInvariant == BarrierSpec => []BarrierInv
  BY BarrierInvInit, BarrierInvNext, PTL DEF BarrierSpec

-----------------------------------------------------------------------------
(* The barrier: the theorems.                                               *)

\* Every variable keeps its type: in particular the count never reaches the
\* barrier's size between two critical sections, and never falls below zero.
THEOREM BarrierTypeCorrect == BarrierSpec => []BarrierTypeOK
<1>1. BarrierInv => BarrierTypeOK
  BY DEF BarrierInv
<1> QED
  BY <1>1, BarrierInvariant, PTL

\* No thread sleeps through its wake-up.
THEOREM SleepersWoken == BarrierSpec => []NoSleeperForgotten
<1>1. BarrierInv => NoSleeperForgotten
  BY DEF BarrierInv
<1> QED
  BY <1>1, BarrierInvariant, PTL

inside == {t \in Party : place[t] # "out"}

\* A thread that returns does so in a round that everybody has joined.
LEMMA ReturnsTogether ==
    ASSUME BarrierInv, NEW t \in Party, Fill(t) \/ Return(t)
    PROVE  \A u \in Party : Rounds!HasJoined(t, u)
<1>1. passed \in [Party -> Nat]
  BY DEF BarrierInv, BarrierTypeOK
<1>2. CASE Fill(t)
  <2>1. place[t] = "call" /\ ~exiting /\ Full
    BY <1>2 DEF Fill
  <2>2. \A u \in Party : place[u] # "out"
    BY <2>1, FullMeansAll DEF BarrierInv, Counted
  <2>3. \A u \in Party : passed[u] = passed[t]
    BY <1>1, <2>1 DEF BarrierInv, SameRound, Owes
  <2> QED
    BY <2>2, <2>3 DEF Rounds!HasJoined
<1>3. CASE Return(t)
  <2>1. place[t] = "woken" /\ exiting
    BY <1>3 DEF Return
  <2>2. \A u \in Party : passed[u] + Owes(u) = passed[t] + 1
    BY <1>1, <2>1 DEF BarrierInv, SameRound, Owes, Counted
  <2>3. ASSUME NEW u \in Party
        PROVE  Rounds!HasJoined(t, u)
    <3>1. CASE u \in Counted
      <4>1. place[u] # "out"
        BY <3>1 DEF Counted
      <4>2. passed[u] = passed[t]
        BY <1>1, <2>1, <2>2, <3>1 DEF Owes
      <4> QED
        BY <4>1, <4>2 DEF Rounds!HasJoined
    <3>2. CASE u \notin Counted
      BY <1>1, <2>2, <3>2 DEF Owes, Rounds!HasJoined
    <3> QED
      BY <3>1, <3>2
  <2> QED
    BY <2>3
<1> QED
  BY <1>2, <1>3

\* Leaving removes exactly the thread that leaves.
LEMMA LeaveMoves ==
    ASSUME BarrierInv, NEW t \in Party, Fill(t) \/ Return(t)
    PROVE  /\ inside' = inside \ {t}
           /\ passed' = [passed EXCEPT ![t] = @ + 1]
<1>1. \E n \in {count, count - 1} :
        \E where \in {place, Broadcast(place, "reached", "woken")} : Leave(t, n, where)
  BY DEF Fill, Return
<1>2. PICK n \in {count, count - 1},
           where \in {place, Broadcast(place, "reached", "woken")} : Leave(t, n, where)
  BY <1>1
<1>3. /\ where \in [Party -> {"out", "call", "entry", "reached", "woken"}]
      /\ \A u \in Party : where[u] = "out" <=> place[u] = "out"
  BY DEF BarrierInv, BarrierTypeOK, Broadcast
<1>4. /\ place' \in [Party -> {"out", "call", "entry", "reached", "woken"}]
      /\ \A u \in Party : place'[u] = "out" <=> (place[u] = "out" \/ u = t)
  BY <1>2, <1>3 DEF Leave, Broadcast
<1> QED
  BY <1>2, <1>4 DEF inside, Leave

\* Every step of the code is a step of the abstract barrier or leaves it alone.
LEMMA RoundsStep ==
    BarrierInv /\ [BarrierNext]_barrierVars => [Rounds!Next]_<<inside, passed>>
<1> SUFFICES ASSUME BarrierInv, [BarrierNext]_barrierVars
             PROVE  [Rounds!Next]_<<inside, passed>>
  OBVIOUS
<1>1. ASSUME NEW t \in Party, Call(t)
      PROVE  Rounds!Call(t)
  <2>1. /\ t \notin inside /\ inside' = inside \cup {t}
        /\ passed' = passed
    BY <1>1 DEF BarrierInv, BarrierTypeOK, Call, inside
  <2> QED
    BY <2>1 DEF Rounds!Call, inside
<1>2. ASSUME NEW t \in Party, Fill(t) \/ Return(t)
      PROVE  Rounds!Return(t)
  <2>1. t \in inside
    BY <1>2 DEF Fill, Return, inside
  <2> QED
    BY <1>2, <2>1, ReturnsTogether, LeaveMoves DEF Rounds!Return, inside
<1>3. ASSUME NEW t \in Party,
             WaitEntry(t) \/ WaitReached(t) \/ SleepAgain(t) \/ SpuriousWakeup(t)
      PROVE  UNCHANGED <<inside, passed>>
  BY <1>3 DEF BarrierInv, BarrierTypeOK, WaitEntry, WaitReached, SleepAgain, SpuriousWakeup,
              inside
<1>4. CASE UNCHANGED barrierVars
  BY <1>4 DEF barrierVars, inside
<1> QED
  BY <1>1, <1>2, <1>3, <1>4 DEF BarrierNext, Finished, Step, Rounds!Next

\* veThrBarrierEnter implements the abstract barrier, whatever the number of
\* threads and of rounds.
THEOREM BarrierCorrect == BarrierSpec => RoundsSpec
<1>1. BarrierInit => Rounds!Init
  BY DEF BarrierInit, Rounds!Init
<1> QED
  BY <1>1, BarrierInvariant, RoundsStep, PTL DEF BarrierSpec, RoundsSpec, Rounds!Spec, inside

\* Who is not asleep and will not have to sleep: it returns, is counted, or
\* fills the round.
GoesOn(u) == (place[u] = "woken" /\ exiting) \/ (place[u] = "call" /\ ~exiting)

\* A round that all have joined has somebody who goes on: it is never stuck
\* between threads that sleep on entry and threads that sleep on reached.
SomeoneGoesOn ==
    \A t \in Party :
        place[t] # "out" /\ (\A u \in Party : Rounds!HasJoined(t, u)) => \E u \in Party : GoesOn(u)

\* What EveryoneReturns rests on, for any number of threads and rounds.
THEOREM NeverAllAsleep == BarrierSpec => []SomeoneGoesOn
<1>1. ASSUME BarrierInv, NEW t \in Party, place[t] # "out", \A u \in Party : Rounds!HasJoined(t, u)
      PROVE  \E u \in Party : GoesOn(u)
  <2> BarrierTypeOK /\ NoSleeperForgotten /\ CountInv /\ SameRound
    BY <1>1 DEF BarrierInv
  <2>1. CASE exiting
    <3>1. PICK u \in Party : place[u] \in {"reached", "woken"}
      BY <2>1 DEF CountInv, Counted
    <3>2. place[u] = "woken"
      BY <2>1, <3>1 DEF NoSleeperForgotten
    <3> QED
      BY <2>1, <3>2 DEF GoesOn
  <2>2. CASE ~exiting
    <3>1. ASSUME NEW u \in Party
          PROVE  place[u] \in {"call", "reached", "woken"}
      <4>1. passed[u] = passed[t] /\ passed[t] \in Nat
        BY <2>2 DEF SameRound, Owes, BarrierTypeOK
      <4>2. place[u] # "out"
        BY <1>1, <4>1 DEF Rounds!HasJoined
      <4> QED
        BY <2>2, <4>2 DEF NoSleeperForgotten, BarrierTypeOK
    <3>2. Counted # Party
      BY BarrierFinite DEF BarrierTypeOK, CountInv, max
    <3>3. PICK u \in Party : u \notin Counted
      BY <3>2 DEF Counted
    <3>4. place[u] = "call"
      BY <3>1, <3>3 DEF Counted
    <3> QED
      BY <2>2, <3>4 DEF GoesOn
  <2> QED
    BY <2>1, <2>2 DEF BarrierTypeOK
<1>2. BarrierInv => SomeoneGoesOn
  BY <1>1 DEF SomeoneGoesOn
<1> QED
  BY <1>2, BarrierInvariant, PTL

-----------------------------------------------------------------------------
(* The interlock: its inductive invariant.                                  *)

HandlerPlace == {"idle", "ask", "eclear", "zero", "again", "in", "callback"}

Holders == {h \in Handler : at[h] \in {"in", "callback"}}

Pending == rend \in {"zero", "again"}

\* fl_locked counts the handlers that hold the frame, or says exclusive.
LockInv ==
    /\ fl_locked = IF rend = "draw" THEN -1 ELSE Cardinality(Holders)
    /\ rend = "draw" => Holders = {}

\* fl_epending says whether the renderer waits.
PendingInv == fl_epending = IF Pending THEN 1 ELSE 0

\* The handlers that may still slip in before a pending renderer are early.
EarlyInv == Pending => \A h \in Handler : at[h] = "again" => h \in early

IInv == TypeOK /\ NoLostWakeup /\ LockInv /\ PendingInv /\ EarlyInv

-----------------------------------------------------------------------------
(* Facts about the holders.                                                 *)

LEMMA Finite ==
    /\ IsFiniteSet(Holders)
    /\ Cardinality(Holders) \in Nat
    /\ Cardinality(Holders) <= Cardinality(Handler)
    /\ Cardinality(Handler) \in Nat
    /\ Holders = {} <=> Cardinality(Holders) = 0
<1>1. Holders \in SUBSET Handler
  BY DEF Holders
<1>2. IsFiniteSet(Handler)
  BY ThreadAssumption
<1> QED
  BY <1>1, <1>2, FS_Subset, FS_CardinalityType, FS_EmptySet

\* The same facts in the next state.
LEMMA FiniteNext ==
    /\ IsFiniteSet(Holders')
    /\ Cardinality(Holders') \in Nat
    /\ Cardinality(Holders') <= Cardinality(Handler)
    /\ Holders' = {} <=> Cardinality(Holders') = 0
<1>1. Holders' \in SUBSET Handler
  BY DEF Holders
<1>2. IsFiniteSet(Handler)
  BY ThreadAssumption
<1> QED
  BY <1>1, <1>2, FS_Subset, FS_CardinalityType, FS_EmptySet

\* Waking sleepers moves them and nobody else.
LEMMA Woken ==
    ASSUME at \in [Handler -> HandlerPlace], NEW from \in HandlerPlace,
           NEW to \in HandlerPlace
    PROVE  /\ WakeHandlers(from, to) \in [Handler -> HandlerPlace]
           /\ \A h \in Handler : WakeHandlers(from, to)[h]
                                    = IF at[h] = from THEN to ELSE at[h]
  BY DEF WakeHandlers

-----------------------------------------------------------------------------
(* The invariant is inductive: handlers.                                    *)

LEMMA InvInit == Init => IInv
<1> SUFFICES ASSUME Init PROVE IInv
  OBVIOUS
<1>1. Holders = {}
  BY DEF Init, Holders
<1>2. LockInv
  BY <1>1, Finite DEF Init, LockInv
<1>3. TypeOK
  BY Finite DEF Init, TypeOK
<1>4. NoLostWakeup /\ PendingInv /\ EarlyInv
  BY DEF Init, NoLostWakeup, PendingInv, EarlyInv, Pending
<1> QED
  BY <1>2, <1>3, <1>4 DEF IInv

\* The steps of a handler that leave the locks alone.
LEMMA InvHandlerElse ==
    ASSUME IInv, NEW h \in Handler,
           \/ Ask(h) \/ WaitPending(h) \/ WaitExclusive(h)
           \/ LockCallbacks(h) \/ CallbackPosts(h) \/ UnlockCallbacks(h)
    PROVE  IInv'
<1>1. UNCHANGED <<fl_locked, fl_epending, rend, early>>
  BY DEF Ask, WaitPending, WaitExclusive, LockCallbacks, CallbackPosts,
         UnlockCallbacks, lockVars
<1>2. TypeOK'
  BY <1>1 DEF IInv, TypeOK, Ask, WaitPending, WaitExclusive, LockCallbacks,
              CallbackPosts, UnlockCallbacks
<1>3. /\ Holders' = Holders
      /\ \A k \in Handler : at'[k] = "again" => at[k] = "again"
  <2>1. \A k \in Handler : at'[k] = at[k] \/ k = h
    BY DEF IInv, TypeOK, Ask, WaitPending, WaitExclusive, LockCallbacks,
           CallbackPosts, UnlockCallbacks
  <2>2. \/ at'[h] = at[h]
        \/ at[h] \notin {"in", "callback"} /\ at'[h] \in {"ask", "eclear", "zero"}
        \/ at[h] \in {"in", "callback"} /\ at'[h] \in {"in", "callback"}
    BY DEF IInv, TypeOK, Ask, WaitPending, WaitExclusive, LockCallbacks,
           CallbackPosts, UnlockCallbacks, PastPending
  <2> QED
    BY <2>1, <2>2 DEF Holders
<1>4. NoLostWakeup'
  BY <1>1 DEF IInv, TypeOK, NoLostWakeup, Ask, WaitPending, WaitExclusive,
              LockCallbacks, CallbackPosts, UnlockCallbacks
<1>5. LockInv'
  BY <1>1, <1>3 DEF IInv, LockInv
<1>6. PendingInv' /\ EarlyInv'
  BY <1>1, <1>3 DEF IInv, PendingInv, EarlyInv, Pending
<1> QED
  BY <1>2, <1>4, <1>5, <1>6 DEF IInv

LEMMA InvLockFrame ==
    ASSUME IInv, NEW h \in Handler, LockFrame(h)
    PROVE  IInv'
<1>1. /\ at[h] \in {"ask", "again"} /\ fl_locked >= 0
      /\ fl_locked' = fl_locked + 1
      /\ at' = [at EXCEPT ![h] = "in"]
      /\ early' = early \ {h}
      /\ UNCHANGED <<fl_epending, cback, redisplay_posted, rend>>
  BY DEF LockFrame, PastPending
<1>2. rend # "draw" /\ fl_locked = Cardinality(Holders)
  BY <1>1 DEF IInv, LockInv
<1>3. h \notin Holders /\ Holders' = Holders \cup {h}
  BY <1>1 DEF IInv, TypeOK, Holders
<1>4. fl_locked' = Cardinality(Holders')
  BY <1>1, <1>2, <1>3, Finite, FS_AddElement
<1>5. LockInv'
  BY <1>1, <1>2, <1>4 DEF LockInv
<1>6. fl_locked' \in -1 .. Cardinality(Handler)
  BY <1>4, Finite, FiniteNext
<1>7. TypeOK'
  BY <1>1, <1>6 DEF IInv, TypeOK
<1>8. NoLostWakeup'
  BY <1>1, <1>4, Finite DEF IInv, TypeOK, NoLostWakeup
<1>9. PendingInv' /\ EarlyInv'
  BY <1>1 DEF IInv, TypeOK, PendingInv, EarlyInv, Pending
<1> QED
  BY <1>5, <1>7, <1>8, <1>9 DEF IInv

LEMMA InvUnlockFrame ==
    ASSUME IInv, NEW h \in Handler, UnlockFrame(h)
    PROVE  IInv'
<1>1. /\ at[h] = "in"
      /\ fl_locked' = fl_locked - 1
      /\ UNCHANGED <<fl_epending, cback, redisplay_posted, early>>
  BY DEF UnlockFrame
<1>2. h \in Holders
  BY <1>1 DEF Holders
<1>3. rend # "draw" /\ fl_locked = Cardinality(Holders) /\ fl_locked > 0
  <2>1. rend # "draw" /\ fl_locked = Cardinality(Holders)
    BY <1>2 DEF IInv, LockInv
  <2>2. Cardinality(Holders) # 0
    BY <1>2, Finite
  <2> QED
    BY <2>1, <2>2, Finite
<1>4. \A k \in Handler : at[k] # "zero"
  BY <1>3, Finite DEF IInv, NoLostWakeup
<1>5. at \in [Handler -> HandlerPlace]
  BY DEF IInv, TypeOK, HandlerPlace
<1>6. at' = [at EXCEPT ![h] = "idle"]
  <2>1. WakeHandlers("zero", "again") = at
    BY <1>4, <1>5 DEF WakeHandlers
  <2> QED
    BY <2>1 DEF UnlockFrame
<1>7. rend' = IF fl_locked = 1 /\ rend = "zero" THEN "again" ELSE rend
  BY DEF UnlockFrame
<1>8. Holders' = Holders \ {h}
  BY <1>1, <1>5, <1>6 DEF Holders
<1>9. fl_locked' = Cardinality(Holders')
  BY <1>1, <1>2, <1>3, <1>8, Finite, FS_RemoveElement
<1>10. LockInv'
  BY <1>3, <1>7, <1>9 DEF LockInv
<1>11. fl_locked' \in -1 .. Cardinality(Handler)
  BY <1>9, Finite, FiniteNext
<1>12. rend' \in {"top", "excl", "zero", "again", "draw", "want", "callback",
                  "idle"}
  BY <1>7 DEF IInv, TypeOK
<1>13. TypeOK'
  BY <1>1, <1>6, <1>11, <1>12 DEF IInv, TypeOK
<1>14. rend' = "zero" => fl_locked' # 0
  BY <1>1, <1>3, <1>7
<1>15. NoLostWakeup'
  BY <1>1, <1>4, <1>5, <1>6, <1>14 DEF IInv, NoLostWakeup
<1>16. PendingInv' /\ EarlyInv'
  BY <1>1, <1>5, <1>6, <1>7 DEF IInv, PendingInv, EarlyInv, Pending
<1> QED
  BY <1>10, <1>13, <1>15, <1>16 DEF IInv

-----------------------------------------------------------------------------
(* The invariant is inductive: the renderer.                                *)

\* The steps of the renderer outside the interlock.
LEMMA InvRendererElse ==
    ASSUME IInv,
           \/ TakeRedisplay \/ LockProc \/ ProcPosts \/ UnlockProc \/ CallIdle
           \/ WakeUp
    PROVE  IInv'
<1>1. /\ UNCHANGED <<fl_locked, fl_epending, at, early>>
      /\ ~Pending /\ ~Pending' /\ rend # "draw" /\ rend' # "draw"
      /\ rend' \in {"top", "excl", "want", "callback", "idle"}
  BY DEF TakeRedisplay, LockProc, ProcPosts, UnlockProc, CallIdle, WakeUp,
         lockVars, Pending
<1>2. Holders' = Holders
  BY <1>1 DEF Holders
<1>3. TypeOK'
  BY <1>1 DEF IInv, TypeOK, TakeRedisplay, LockProc, ProcPosts, UnlockProc,
              CallIdle, WakeUp
<1>4. NoLostWakeup' /\ LockInv' /\ PendingInv' /\ EarlyInv'
  BY <1>1, <1>2 DEF IInv, NoLostWakeup, LockInv, PendingInv, EarlyInv
<1> QED
  BY <1>3, <1>4 DEF IInv

\* Announcing a wait, and going back to sleep.
LEMMA InvRendererWaits ==
    ASSUME IInv, WaitZero \/ WaitZeroAgain
    PROVE  IInv'
<1>1. /\ rend \in {"excl", "again"} /\ rend' = "zero" /\ fl_locked # 0
      /\ UNCHANGED <<fl_locked, at, cback, redisplay_posted>>
  BY DEF WaitZero, WaitZeroAgain, lockVars
<1>2. fl_epending' = 1
  BY DEF IInv, PendingInv, Pending, WaitZero, WaitZeroAgain, lockVars
<1>3. Holders' = Holders
  BY <1>1 DEF Holders
<1>4. early' \subseteq Handler
  BY DEF IInv, TypeOK, Waiting, WaitZero, WaitZeroAgain
<1>5. EarlyInv'
  BY <1>1 DEF IInv, EarlyInv, Pending, Waiting, WaitZero, WaitZeroAgain
<1>6. TypeOK'
  BY <1>1, <1>2, <1>4 DEF IInv, TypeOK
<1>7. NoLostWakeup' /\ LockInv' /\ PendingInv'
  BY <1>1, <1>2, <1>3 DEF IInv, NoLostWakeup, LockInv, PendingInv, Pending
<1> QED
  BY <1>5, <1>6, <1>7 DEF IInv

\* Taking the frame.
LEMMA InvRendererTakes ==
    ASSUME IInv, TakeFree \/ TakePending
    PROVE  IInv'
<1>1. /\ rend \in {"excl", "again"} /\ rend' = "draw"
      /\ fl_locked = 0 /\ fl_locked' = -1
      /\ UNCHANGED <<cback, redisplay_posted>>
  BY DEF TakeFree, TakePending
<1>2. fl_epending' = 0
  BY DEF IInv, PendingInv, Pending, TakeFree, TakePending
<1>3. Holders = {}
  BY <1>1, Finite DEF IInv, LockInv
<1>4. at \in [Handler -> HandlerPlace]
  BY DEF IInv, TypeOK, HandlerPlace
<1>5. /\ at' \in [Handler -> HandlerPlace]
      /\ \A h \in Handler : at'[h] = IF at[h] = "eclear" THEN "ask" ELSE at[h]
  <2>1. CASE TakeFree
    <3>1. at' = at /\ fl_epending = 0
      BY <2>1 DEF IInv, PendingInv, Pending, TakeFree
    <3> QED
      BY <1>4, <3>1 DEF IInv, NoLostWakeup
  <2>2. CASE TakePending
    <3>1. fl_epending = 1
      BY <2>2 DEF IInv, PendingInv, Pending, TakePending
    <3>2. at' = WakeHandlers("eclear", "ask")
      BY <2>2, <3>1 DEF TakePending
    <3> QED
      BY <1>4, <3>2, Woken DEF HandlerPlace
  <2> QED
    BY <2>1, <2>2
<1>6. Holders' = {}
  BY <1>3, <1>5 DEF Holders
<1>7. LockInv'
  BY <1>1, <1>6 DEF LockInv
<1>8. early' \subseteq Handler
  BY DEF IInv, TypeOK, Waiting, TakeFree, TakePending
<1>9. TypeOK'
  BY <1>1, <1>2, <1>5, <1>8, Finite DEF IInv, TypeOK, HandlerPlace
<1>10. NoLostWakeup'
  BY <1>1, <1>5 DEF NoLostWakeup
<1>11. PendingInv' /\ EarlyInv'
  BY <1>1, <1>2 DEF PendingInv, EarlyInv, Pending
<1> QED
  BY <1>7, <1>9, <1>10, <1>11 DEF IInv

LEMMA InvRendererReleases ==
    ASSUME IInv, UnlockFrameExcl
    PROVE  IInv'
<1>1. /\ rend = "draw" /\ rend' \in {"want", "idle"}
      /\ fl_locked' = 0 /\ early' = {}
      /\ at' = WakeHandlers("zero", "again")
      /\ UNCHANGED <<fl_epending, cback, redisplay_posted>>
  BY DEF UnlockFrameExcl
<1>2. /\ at' \in [Handler -> HandlerPlace]
      /\ \A h \in Handler : at'[h] = IF at[h] = "zero" THEN "again" ELSE at[h]
  BY <1>1, Woken DEF IInv, TypeOK, HandlerPlace
<1>3. Holders' = {}
  BY <1>1, <1>2 DEF IInv, LockInv, Holders
<1>4. LockInv'
  BY <1>1, <1>3, FiniteNext DEF LockInv
<1>5. TypeOK'
  BY <1>1, <1>2, Finite DEF IInv, TypeOK, HandlerPlace
<1>6. NoLostWakeup'
  BY <1>1, <1>2 DEF IInv, NoLostWakeup
<1>7. PendingInv' /\ EarlyInv'
  BY <1>1 DEF IInv, PendingInv, EarlyInv, Pending
<1> QED
  BY <1>4, <1>5, <1>6, <1>7 DEF IInv

LEMMA InvNext == IInv /\ [Next]_vars => IInv'
<1> SUFFICES ASSUME IInv, [Next]_vars PROVE IInv'
  OBVIOUS
<1>1. ASSUME NEW h \in Handler, HandlerNext(h) PROVE IInv'
  BY <1>1, InvHandlerElse, InvLockFrame, InvUnlockFrame DEF HandlerNext
<1>2. CASE RendererNext
  BY <1>2, InvRendererElse, InvRendererWaits, InvRendererTakes,
     InvRendererReleases DEF RendererNext
<1>3. CASE UNCHANGED vars
  BY <1>3 DEF vars, lockVars, IInv, TypeOK, NoLostWakeup, LockInv, PendingInv,
              EarlyInv, Pending, Holders
<1> QED
  BY <1>1, <1>2, <1>3 DEF Next

LEMMA Invariant == Spec => []IInv
  BY InvInit, InvNext, PTL DEF Spec

-----------------------------------------------------------------------------
(* The theorems, for any number of handlers.                                *)

\* Every variable keeps its type: no more holders than handlers, and one
\* renderer pending at most.
THEOREM TypeCorrect == Spec => []TypeOK
<1>1. IInv => TypeOK
  BY DEF IInv
<1> QED
  BY <1>1, Invariant, PTL

\* No event is delivered while the renderer draws, and nobody sleeps through
\* a wake-up.
THEOREM Exclusion == Spec => [](NoCallbackWhileDrawing /\ NoLostWakeup)
<1>1. IInv => NoCallbackWhileDrawing /\ NoLostWakeup
  BY DEF IInv, LockInv, Holders, NoCallbackWhileDrawing
<1> QED
  BY <1>1, Invariant, PTL

\* Handlers and renderer never sleep on a condition that nobody will signal.
THEOREM WakeupsKept == Spec => []NoLostWakeup
BY Exclusion, PTL

\* Nobody who comes after the renderer's decision gets in before it draws.
THEOREM LateHandlersWait == Spec => OnlyEarlyHandlersEnter
<1>1. ASSUME IInv, NEW h \in Handler, fl_epending > 0, LockFrame(h)
      PROVE  h \in early
  BY <1>1 DEF IInv, PendingInv, EarlyInv, LockFrame, PastPending
<1>2. IInv =>
        \A h \in Handler : fl_epending > 0 /\ LockFrame(h) => h \in early
  BY <1>1
<1> QED
  BY <1>2, Invariant, PTL DEF OnlyEarlyHandlersEnter
-----------------------------------------------------------------------------
(* The two locks together: nobody waits in a circle.                        *)

\* Whoever has the callback lock runs a callback, and only that thread does.
CallbackInv ==
    /\ \A h \in Handler : at[h] = "callback" <=> cback = h
    /\ rend = "callback" <=> cback = Renderer

\* Who waits, waits for somebody who is not waiting, or for the callback lock
\* of somebody who is in a callback: a frame lock that the renderer waits for
\* is held by a handler, which waits for nobody but another handler's
\* callback; who is asleep on eclear waits for the renderer's turn, and on zero
\* for the end of its drawing.
WaitsEnd ==
    /\ rend = "zero" =>
        \E h \in Handler : at[h] = "callback" \/ (at[h] = "in" /\ cback = NoThread)
    /\ \A h \in Handler : at[h] = "eclear" => rend \in {"zero", "again"}
    /\ \A h \in Handler : at[h] = "zero" => rend = "draw"
    /\ rend = "want" => cback = NoThread \/ \E h \in Handler : at[h] = "callback"
    /\ \A h \in Handler : at[h] = "in" =>
        cback = NoThread \/ rend = "callback" \/ \E k \in Handler : at[k] = "callback"

LEMMA CallbackNext ==
    ASSUME IInv, CallbackInv, [Next]_vars
    PROVE  CallbackInv'
<1>1. /\ at \in [Handler -> HandlerPlace] /\ cback \in Handler \cup {Renderer, NoThread}
      /\ Renderer \notin Handler /\ NoThread \notin Handler /\ NoThread # Renderer
  BY ThreadAssumption DEF IInv, TypeOK, HandlerPlace
\* Steps that have nothing to do with callbacks.
<1>2. ASSUME UNCHANGED cback, at' \in [Handler -> HandlerPlace],
             \A h \in Handler : at'[h] = "callback" <=> at[h] = "callback",
             rend' = "callback" <=> rend = "callback"
      PROVE  CallbackInv'
  BY <1>2 DEF CallbackInv
<1>3. ASSUME NEW h \in Handler,
             Ask(h) \/ WaitPending(h) \/ WaitExclusive(h) \/ LockFrame(h) \/ CallbackPosts(h)
      PROVE  CallbackInv'
  <2>1. UNCHANGED <<cback, rend>>
    BY <1>3 DEF Ask, WaitPending, WaitExclusive, LockFrame, CallbackPosts, lockVars
  <2>2. /\ at[h] # "callback" \/ at' = at
        /\ \E x \in {"ask", "eclear", "zero", "in"} : at' = [at EXCEPT ![h] = x] \/ at' = at
    BY <1>3 DEF Ask, WaitPending, WaitExclusive, PastPending, LockFrame, CallbackPosts
  <2>3. /\ at' \in [Handler -> HandlerPlace]
        /\ \A k \in Handler : at'[k] = "callback" <=> at[k] = "callback"
    BY <1>1, <2>2 DEF HandlerPlace
  <2> QED
    BY <1>2, <2>1, <2>3
<1>4. ASSUME NEW h \in Handler, LockCallbacks(h)
      PROVE  CallbackInv'
  BY <1>1, <1>4 DEF LockCallbacks, CallbackInv
<1>5. ASSUME NEW h \in Handler, UnlockCallbacks(h)
      PROVE  CallbackInv'
  BY <1>1, <1>5 DEF UnlockCallbacks, CallbackInv
<1>6. ASSUME NEW h \in Handler, UnlockFrame(h)
      PROVE  CallbackInv'
  <2>1. /\ UNCHANGED cback /\ at[h] = "in"
        /\ rend' = "callback" <=> rend = "callback"
        /\ at' \in {[at EXCEPT ![h] = "idle"], [WakeHandlers("zero", "again") EXCEPT ![h] = "idle"]}
    BY <1>6 DEF UnlockFrame
  <2>2. /\ at' \in [Handler -> HandlerPlace]
        /\ \A k \in Handler : at'[k] = "callback" <=> at[k] = "callback"
    BY <1>1, <2>1, Woken DEF HandlerPlace
  <2> QED
    BY <1>2, <2>1, <2>2
<1>7. CASE TakeRedisplay \/ ProcPosts \/ CallIdle \/ WakeUp \/ TakeFree \/ WaitZero \/ WaitZeroAgain
  <2>1. UNCHANGED <<cback, at>> /\ (rend' = "callback" <=> rend = "callback")
    BY <1>7 DEF TakeRedisplay, ProcPosts, CallIdle, WakeUp, TakeFree, WaitZero, WaitZeroAgain, lockVars
  <2> QED
    BY <1>1, <1>2, <2>1
<1>8. CASE TakePending \/ UnlockFrameExcl
  <2>1. /\ UNCHANGED cback /\ rend # "callback" /\ rend' # "callback"
        /\ at' \in {at, WakeHandlers("eclear", "ask"), WakeHandlers("zero", "again")}
    BY <1>8 DEF TakePending, UnlockFrameExcl
  <2>2. /\ at' \in [Handler -> HandlerPlace]
        /\ \A k \in Handler : at'[k] = "callback" <=> at[k] = "callback"
    BY <1>1, <2>1, Woken DEF HandlerPlace
  <2> QED
    BY <1>2, <2>1, <2>2
<1>9. CASE LockProc \/ UnlockProc
  BY <1>1, <1>9 DEF LockProc, UnlockProc, CallbackInv
<1>10. CASE UNCHANGED vars
  BY <1>1, <1>2, <1>10 DEF vars
<1> QED
  BY <1>3, <1>4, <1>5, <1>6, <1>7, <1>8, <1>9, <1>10 DEF Next, HandlerNext, RendererNext

\* What RendererDraws rests on: no circle of waits over frame lock, pending
\* renderer and callback lock (ve_core.c:23-35, 245-293).
THEOREM NoCircularWait == Spec => []WaitsEnd
<1>1. Init => CallbackInv
  BY ThreadAssumption DEF Init, CallbackInv
<1>2. ASSUME IInv, CallbackInv
      PROVE  WaitsEnd
  <2>1. cback \in Handler \cup {Renderer, NoThread} /\ fl_epending = IF Pending THEN 1 ELSE 0
    BY <1>2 DEF IInv, TypeOK, PendingInv
  <2>2. fl_locked < 0 => rend = "draw"
    BY <1>2, Finite DEF IInv, LockInv
  <2>3. ASSUME rend = "zero"
        PROVE  \E h \in Handler : at[h] = "callback" \/ (at[h] = "in" /\ cback = NoThread)
    <3>1. Holders # {}
      BY <1>2, <2>3, Finite DEF IInv, LockInv, NoLostWakeup
    <3> QED
      BY <1>2, <2>1, <2>3, <3>1 DEF Holders, CallbackInv
  <2>4. cback = NoThread \/ rend = "callback" \/ \E k \in Handler : at[k] = "callback"
    BY <1>2, <2>1 DEF CallbackInv
  <2> QED
    BY <1>2, <2>1, <2>2, <2>3, <2>4 DEF WaitsEnd, IInv, NoLostWakeup, Pending
<1> QED
  BY <1>1, <1>2, CallbackNext, Invariant, PTL DEF Spec
=============================================================================
