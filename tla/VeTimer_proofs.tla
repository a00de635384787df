--------------------------- MODULE VeTimer_proofs ---------------------------
(* Proofs about VeTimer, for any delays, busy limit and bounds.  The heap   *)
(* need not be in order for them: adding a timer and taking the root out    *)
(* only move the entries about, and the timer thread looks at the root.     *)
EXTENDS VeTimer, TLAPS

Entry == [msecs : 0 .. MaxTime, id : 1 .. MaxAdds]

TypeInv ==
    /\ busywait \in BOOLEAN
    /\ now \in 0 .. MaxTime
    /\ timerHeap \in Seq(Entry)
    /\ at \in {"look", "asleep", "poll", "fire", "proc"}
    /\ deadline \in 0 .. Never
    /\ nAdded \in 0 .. MaxAdds
    /\ fired \subseteq 1 .. nAdded
    /\ \A i \in Indices : timerHeap[i].id <= nAdded

IInv == TypeInv /\ EachOnce /\ NoOversleep

\* The n entries of g are those of h from places in S, each once.
Moves(g, n, h, S) ==
    \E s \in [1 .. n -> S] :
        /\ \A i, j \in 1 .. n : s[i] = s[j] => i = j
        /\ \A m \in S : \E i \in 1 .. n : s[i] = m
        /\ \A i \in 1 .. n : g[i] = h[s[i]]

Distinct(h, S) == \A i, j \in S : h[i].id = h[j].id => i = j
Ids(h, S) == {h[i].id : i \in S}

-----------------------------------------------------------------------------
(* The heap.                                                                *)

\* Timers that differ still do, and are the same ones.
LEMMA MovedIds ==
    ASSUME NEW g, NEW h, NEW n \in Nat, NEW S, Moves(g, n, h, S)
    PROVE  (Distinct(h, S) => Distinct(g, 1 .. n)) /\ Ids(g, 1 .. n) = Ids(h, S)
<1>1. PICK s \in [1 .. n -> S] :
        /\ \A i, j \in 1 .. n : s[i] = s[j] => i = j
        /\ \A m \in S : \E i \in 1 .. n : s[i] = m
        /\ \A i \in 1 .. n : g[i] = h[s[i]]
  BY Zenon DEF Moves
<1> DEFINE D == 1 .. n
<1>2. \A i \in D : s[i] \in S
  OBVIOUS
<1> HIDE DEF D
<1>3. /\ \A i, j \in D : s[i] = s[j] => i = j
      /\ \A m \in S : \E i \in D : s[i] = m
      /\ \A i \in D : g[i] = h[s[i]]
  BY <1>1 DEF D
<1>4. Distinct(h, S) => Distinct(g, D)
  BY <1>2, <1>3 DEF Distinct
<1>5. Ids(g, D) = Ids(h, S)
  BY <1>2, <1>3 DEF Ids
<1> QED
  BY <1>4, <1>5 DEF D

\* A new timer has an id of its own.
LEMMA Added ==
    ASSUME NEW N \in Nat, NEW h, NEW a, Distinct(h, 1 .. N),
           \A i \in 1 .. N : a[i].id = h[i].id /\ a[i].id # a[N + 1].id
    PROVE  Distinct(a, 1 .. N + 1) /\ Ids(a, 1 .. N + 1) = Ids(h, 1 .. N) \cup {a[N + 1].id}
<1> DEFINE D == 1 .. N  e == N + 1
<1>1. 1 .. N + 1 = D \cup {e} /\ e \notin D
  OBVIOUS
<1> HIDE DEF D, e
<1>2. Distinct(a, D \cup {e})
  BY <1>1 DEF Distinct, D, e
<1>3. Ids(a, D \cup {e}) = Ids(h, D) \cup {a[e].id}
  BY <1>1 DEF Ids, D, e
<1> QED
  BY <1>1, <1>2, <1>3 DEF D, e

\* insertHeap puts the new entry last, and swaps it with its parent or not.
LEMMA InsertMoves ==
    ASSUME NEW h \in Seq(Entry), NEW e \in Entry
    PROVE  /\ insertHeap(h, e) \in Seq(Entry) /\ Len(insertHeap(h, e)) = Len(h) + 1
           /\ Moves(insertHeap(h, e), Len(h) + 1, Append(h, e), 1 .. Len(h) + 1)
<1> DEFINE a == Append(h, e)  n == Len(h) + 1  p == n \div 2
<1>1. a \in Seq(Entry) /\ Len(a) = n /\ n \in Nat \ {0}
  OBVIOUS
<1> HIDE DEF a
<1>2. CASE n > 1 /\ Earlier(a, n, p)
  <2>1. p \in 1 .. n /\ n \in 1 .. n
    BY <1>1, <1>2
  <2>2. insertHeap(h, e) = Swap(a, n, p)
    BY <1>1, <1>2 DEF insertHeap, upheap, a
  <2> DEFINE g == Swap(a, n, p)
             s == [i \in 1 .. n |-> IF i = p THEN n ELSE IF i = n THEN p ELSE i]
  <2> HIDE DEF n, p
  <2>3. g \in Seq(Entry) /\ Len(g) = n
    BY <1>1, <2>1 DEF Swap
  <2>4. \A i \in 1 .. n : g[i] = a[s[i]]
    BY <1>1, <2>1 DEF Swap
  <2>5. s \in [1 .. n -> 1 .. n]
    BY <2>1
  <2>6. /\ \A i, j \in 1 .. n : s[i] = s[j] => i = j
        /\ \A m \in 1 .. n : s[s[m]] = m
    BY <2>1
  <2>7. \A m \in 1 .. n : \E i \in 1 .. n : s[i] = m
    BY <2>5, <2>6
  <2> HIDE DEF s, g
  <2>8. Moves(g, n, a, 1 .. n)
    BY <2>3, <2>4, <2>5, <2>6, <2>7 DEF Moves
  <2> QED
    BY <2>2, <2>3, <2>8 DEF n, a, g
<1>3. CASE ~(n > 1 /\ Earlier(a, n, p))
  <2>1. insertHeap(h, e) = a
    BY <1>1, <1>3 DEF insertHeap, upheap, a
  <2> DEFINE s == [i \in 1 .. n |-> i]
  <2>2. Moves(a, n, a, 1 .. n)
    <3>1. s \in [1 .. n -> 1 .. n] /\ \A i \in 1 .. n : s[i] = i
      OBVIOUS
    <3> HIDE DEF s, n
    <3> QED
      BY <3>1, <1>1 DEF Moves
  <2> QED
    BY <1>1, <2>1, <2>2 DEF a
<1> QED
  BY <1>2, <1>3

\* Along a way down every entry moves up by one place, and the root to the end.
LEMMA SourceMoves ==
    ASSUME NEW h \in Seq(Entry), NEW p \in SinkPaths(h)
    PROVE  /\ \A i \in 1 .. Len(h) : Source(p, i) \in 1 .. Len(h)
           /\ \A i, j \in 1 .. Len(h) : Source(p, i) = Source(p, j) => i = j
           /\ \A m \in 1 .. Len(h) : \E i \in 1 .. Len(h) : Source(p, i) = m
<1> DEFINE N == Len(h)
<1>1. PICK n \in 1 .. N : p \in [1 .. n -> 1 .. N]
  BY DEF SinkPaths, Depths
<1>2. N \in Nat /\ n \in Nat \ {0} /\ Len(p) = n /\ p[1] = 1 /\ DOMAIN p = 1 .. n
  BY <1>1 DEF SinkPaths
<1> HIDE DEF N
<1>3. \A j, k \in 1 .. n : p[j] = p[k] => j = k
  <2> SUFFICES ASSUME NEW j \in 1 .. n, NEW k \in 1 .. n, p[j] = p[k], j < k
               PROVE  FALSE
    BY <1>2
  <2>1. p[j] < p[k]
    BY <1>2 DEF SinkPaths
  <2> QED
    BY <1>1, <2>1
<1>4. Source(p, p[n]) = 1
  BY <1>2 DEF Source
<1>5. \A k \in 1 .. n - 1 : Source(p, p[k]) = p[k + 1]
  <2> TAKE k \in 1 .. n - 1
  <2>1. p[k] # p[n] /\ \A j \in 1 .. n - 1 : p[j] = p[k] <=> j = k
    BY <1>2, <1>3
  <2>2. (CHOOSE j \in 1 .. n - 1 : p[j] = p[k]) = k
    BY <2>1
  <2> QED
    BY <1>2, <2>1, <2>2 DEF Source
<1>6. \A i \in 1 .. N : (\A k \in 1 .. n : p[k] # i) => Source(p, i) = i
  BY <1>2 DEF Source
<1>7. ASSUME NEW i \in 1 .. N
      PROVE  \/ i = p[n] /\ Source(p, i) = 1
             \/ \E k \in 1 .. n - 1 : i = p[k] /\ Source(p, i) = p[k + 1]
             \/ (\A k \in 1 .. n : p[k] # i) /\ Source(p, i) = i
  BY <1>2, <1>4, <1>5, <1>6
<1>8. ASSUME NEW i \in 1 .. N
      PROVE  Source(p, i) \in 1 .. N
  <2>1. 1 \in 1 .. N /\ \A k \in 1 .. n - 1 : p[k + 1] \in 1 .. N
    BY <1>1, <1>2
  <2> QED
    BY <1>7, <2>1
<1>9. ASSUME NEW i \in 1 .. N, NEW j \in 1 .. N, Source(p, i) = Source(p, j)
      PROVE  i = j
  <2>1. \A k \in 1 .. n - 1 : p[k + 1] # 1
    BY <1>2, <1>3
  <2>2. CASE i = p[n] /\ Source(p, i) = 1
    <3>1. ~\E k \in 1 .. n - 1 : j = p[k] /\ Source(p, j) = p[k + 1]
      BY <1>9, <2>1, <2>2
    <3>2. ~((\A k \in 1 .. n : p[k] # j) /\ Source(p, j) = j)
      BY <1>2, <1>9, <2>2
    <3> QED
      BY <1>7, <2>2, <3>1, <3>2
  <2>3. ASSUME NEW k \in 1 .. n - 1, i = p[k], Source(p, i) = p[k + 1]
        PROVE  i = j
    <3>1. ~(j = p[n] /\ Source(p, j) = 1)
      BY <1>9, <2>1, <2>3
    <3>2. ASSUME NEW l \in 1 .. n - 1, j = p[l], Source(p, j) = p[l + 1]
          PROVE  i = j
      BY <1>2, <1>3, <1>9, <2>3, <3>2
    <3>3. ~((\A l \in 1 .. n : p[l] # j) /\ Source(p, j) = j)
      BY <1>2, <1>9, <2>3
    <3> QED
      BY <1>7, <3>1, <3>2, <3>3
  <2>4. CASE (\A k \in 1 .. n : p[k] # i) /\ Source(p, i) = i
    <3>1. ASSUME NEW l \in 1 .. n - 1, j = p[l], Source(p, j) = p[l + 1]
          PROVE  i = j
      <4>1. l + 1 \in 1 .. n
        BY <1>2
      <4>2. i = p[l + 1]
        BY <1>9, <2>4, <3>1
      <4> QED
        BY <2>4, <4>1, <4>2
    <3>2. ~(j = p[n] /\ Source(p, j) = 1)
      BY <1>2, <1>9, <2>4
    <3> QED
      BY <1>7, <1>9, <2>4, <3>1, <3>2
  <2> QED
    BY <1>7, <2>2, <2>3, <2>4
<1>10. ASSUME NEW m \in 1 .. N
       PROVE  \E i \in 1 .. N : Source(p, i) = m
  <2>1. CASE m = 1
    BY <1>1, <1>2, <1>4, <2>1
  <2>2. ASSUME NEW k \in 1 .. n, m = p[k], m # 1
        PROVE  \E i \in 1 .. N : Source(p, i) = m
    <3>1. k - 1 \in 1 .. n - 1 /\ (k - 1) + 1 = k /\ k - 1 \in 1 .. n
      BY <1>2, <2>2
    <3>2. Source(p, p[k - 1]) = m /\ p[k - 1] \in 1 .. N
      BY <1>1, <1>5, <2>2, <3>1
    <3> QED
      BY <3>2
  <2>3. CASE \A k \in 1 .. n : p[k] # m
    BY <1>6, <2>3
  <2> QED
    BY <2>1, <2>2, <2>3
<1> QED
  BY <1>8, <1>9, <1>10 DEF N

\* getNextTimer takes the root out and no other entry.
LEMMA NextMoves ==
    ASSUME NEW h \in Seq(Entry), h # <<>>, NEW g \in getNextTimer(h)
    PROVE  /\ g \in Seq(Entry) /\ Len(g) = Len(h) - 1
           /\ Moves(g, Len(h) - 1, h, 2 .. Len(h))
<1> DEFINE N == Len(h)
<1>1. N \in Nat \ {0}
  OBVIOUS
<1>2. CASE N = 1
  <2>1. g = <<>>
    BY <1>2 DEF getNextTimer
  <2> DEFINE s == [i \in 1 .. 0 |-> 2]
  <2>2. s \in [1 .. 0 -> 2 .. 1]
    OBVIOUS
  <2> HIDE DEF s
  <2>3. Moves(g, 0, h, 2 .. 1)
    <3>1. \A i \in 1 .. 0 : FALSE
      OBVIOUS
    <3>2. \A i \in 2 .. 1 : FALSE
      OBVIOUS
    <3> QED
      BY <2>2, <3>1, <3>2, Zenon DEF Moves
  <2> QED
    BY <1>2, <2>1, <2>3
<1>3. CASE N # 1
  <2> DEFINE b == LastToRoot(h)  M == N - 1
  <2>1. M \in Nat \ {0}
    BY <1>1, <1>3
  <2> DEFINE f == [h EXCEPT ![1] = h[N]]
  <2>2. /\ f \in Seq(Entry) /\ Len(f) = N
        /\ f[1] = h[N] /\ \A i \in 2 .. N : f[i] = h[i]
    BY <1>1
  <2>3. b = SubSeq(f, 1, M)
    BY DEF LastToRoot
  <2> HIDE DEF f
  <2>4. b \in Seq(Entry) /\ Len(b) = M /\ \A i \in 1 .. M : b[i] = f[i]
    BY <1>1, <2>1, <2>2, <2>3
  <2>5. b[1] = h[N] /\ \A i \in 2 .. M : b[i] = h[i]
    BY <1>1, <2>1, <2>2, <2>4
  <2> HIDE DEF b, M
  <2>6. PICK p \in SinkPaths(b) : g = [i \in 1 .. M |-> b[Source(p, i)]]
    BY <1>3, <2>4 DEF getNextTimer, downheap, b
  <2>7. /\ \A i \in 1 .. M : Source(p, i) \in 1 .. M
        /\ \A i, j \in 1 .. M : Source(p, i) = Source(p, j) => i = j
        /\ \A m \in 1 .. M : \E i \in 1 .. M : Source(p, i) = m
    BY <2>6, <2>4, SourceMoves
  <2>8. g \in Seq(Entry) /\ Len(g) = M
    <3>1. \A i \in 1 .. M : b[Source(p, i)] \in Entry
      BY <2>7, <2>4
    <3> QED
      BY <2>1, <2>6, <3>1
  <2> DEFINE s == [i \in 1 .. M |-> IF Source(p, i) = 1 THEN N ELSE Source(p, i)]
  <2>9. N = M + 1
    BY <1>1 DEF M
  <2> HIDE DEF N
  <2>10. s \in [1 .. M -> 2 .. N]
    <3> SUFFICES ASSUME NEW i \in 1 .. M
                 PROVE  (IF Source(p, i) = 1 THEN N ELSE Source(p, i)) \in 2 .. N
      OBVIOUS
    <3>1. PICK x \in 1 .. M : x = Source(p, i)
      BY <2>7
    <3> QED
      BY <2>1, <2>9, <3>1
  <2>11. \A i, j \in 1 .. M : s[i] = s[j] => i = j
    <3> SUFFICES ASSUME NEW i \in 1 .. M, NEW j \in 1 .. M, s[i] = s[j]
                 PROVE  Source(p, i) = Source(p, j)
      BY <2>7
    <3>1. PICK x \in 1 .. M, y \in 1 .. M : x = Source(p, i) /\ y = Source(p, j)
      BY <2>7
    <3>2. (IF x = 1 THEN N ELSE x) = (IF y = 1 THEN N ELSE y)
      BY <3>1
    <3>3. x = y
      BY <2>1, <2>9, <3>2
    <3> QED
      BY <3>1, <3>3
  <2>12. \A i \in 1 .. M : g[i] = h[s[i]]
    <3> SUFFICES ASSUME NEW i \in 1 .. M
                 PROVE  g[i] = h[s[i]]
      OBVIOUS
    <3>1. g[i] = b[Source(p, i)] /\ Source(p, i) \in 1 .. M
      BY <2>6, <2>7
    <3>2. Source(p, i) # 1 => Source(p, i) \in 2 .. M
      BY <2>1, <3>1
    <3> QED
      BY <2>5, <3>1, <3>2
  <2>13. \A m \in 2 .. N : \E i \in 1 .. M : s[i] = m
    <3> SUFFICES ASSUME NEW m \in 2 .. N
                 PROVE  \E i \in 1 .. M : s[i] = m
      OBVIOUS
    <3>1. CASE m = N
      <4>1. PICK i \in 1 .. M : Source(p, i) = 1
        BY <2>1, <2>7
      <4> QED
        BY <3>1, <4>1
    <3>2. CASE m # N
      <4>1. m \in 1 .. M /\ m # 1
        BY <2>1, <2>9, <3>2
      <4>2. PICK i \in 1 .. M : Source(p, i) = m
        BY <2>7, <4>1
      <4> QED
        BY <4>1, <4>2
    <3> QED
      BY <3>1, <3>2
  <2> HIDE DEF s
  <2>14. Moves(g, M, h, 2 .. N)
    BY <2>8, <2>10, <2>11, <2>12, <2>13 DEF Moves
  <2> QED
    BY <2>8, <2>9, <2>14 DEF N
<1> QED
  BY <1>2, <1>3

-----------------------------------------------------------------------------
(* The threads.                                                             *)

LEMMA InitOK == Init => IInv
  BY TimerAssumption DEF Init, IInv, TypeInv, EachOnce, NoOversleep, Indices, Never

\* What the timer thread does without touching the heap.
LEMMA ThreadStep ==
    ASSUME IInv,
           \/ Tick \/ LookDue \/ LookEmpty \/ LookAhead \/ LookSoon \/ PollDue \/ TimeOut
           \/ ProcReturns \/ NoMoreDue \/ SpuriousWakeup
    PROVE  IInv'
<1> USE TimerAssumption DEF IInv
<1>1. UNCHANGED <<busywait, timerHeap, nAdded, fired>>
  BY DEF Tick, LookDue, LookEmpty, LookAhead, LookSoon, PollDue, TimeOut, ProcReturns,
         NoMoreDue, SpuriousWakeup, GoTo, Sleep
<1>2. EachOnce'
  BY <1>1 DEF EachOnce, Indices
<1>3. now' \in 0 .. MaxTime
  BY DEF TypeInv, Tick, LookDue, LookEmpty, LookAhead, LookSoon, PollDue, TimeOut,
         ProcReturns, NoMoreDue, SpuriousWakeup, GoTo, Sleep
<1>4. CASE LookAhead
  <2>1. timerHeap \in Seq(Entry) /\ timerHeap # <<>> /\ 1 \in 1 .. Len(timerHeap)
    BY <1>4 DEF TypeInv, LookAhead
  <2>2. timerHeap[1] \in Entry /\ now \in 0 .. MaxTime /\ ~EventsPending
    BY <1>4, <2>1 DEF TypeInv, LookAhead
  <2>3. peekNextTime \in 0 .. MaxTime /\ now \in 0 .. MaxTime /\ now < peekNextTime
    BY <2>1, <2>2 DEF EventsPending, peekNextTime, Entry
  <2>4. deadline' = IF busywait THEN now + (peekNextTime - now) \div 2 ELSE peekNextTime
    BY <1>4 DEF LookAhead, Sleep
  <2>5. deadline' \in 0 .. Never /\ deadline' <= peekNextTime
    BY <2>3, <2>4 DEF Never
  <2>6. at' = "asleep"
    BY <1>4 DEF LookAhead, Sleep, GoTo
  <2>7. TypeInv'
    BY <1>1, <1>3, <2>5, <2>6 DEF TypeInv, Indices
  <2>8. NoOversleep'
    BY <1>1, <2>5 DEF NoOversleep, peekNextTime
  <2> QED
    BY <1>2, <2>7, <2>8
<1>5. CASE LookEmpty
  <2>1. deadline' = Never /\ at' = "asleep" /\ timerHeap = <<>>
    BY <1>5 DEF LookEmpty, Sleep, GoTo
  <2> QED
    BY <1>1, <1>2, <1>3, <2>1 DEF TypeInv, Indices, NoOversleep, Never
<1>6. CASE Tick
  BY <1>1, <1>2, <1>3, <1>6 DEF Tick, TypeInv, Indices, NoOversleep, peekNextTime
<1>7. CASE LookDue \/ LookSoon \/ PollDue \/ TimeOut \/ ProcReturns \/ NoMoreDue \/ SpuriousWakeup
  <2>1. at' \in {"look", "poll", "fire"} /\ deadline' = deadline
    BY <1>7 DEF LookDue, LookSoon, PollDue, TimeOut, ProcReturns, NoMoreDue, SpuriousWakeup, GoTo
  <2> QED
    BY <1>1, <1>2, <1>3, <2>1 DEF TypeInv, Indices, NoOversleep
<1> QED
  BY <1>4, <1>5, <1>6, <1>7

\* A timer is added: it gets a number of its own, and a sleeper looks again.
LEMMA AddStep ==
    ASSUME IInv, NEW d \in Delays, veAddTimerProc(d)
    PROVE  IInv'
<1> USE DEF IInv
<1> DEFINE e == [msecs |-> now + d, id |-> nAdded + 1]
<1>1. /\ timerHeap \in Seq(Entry) /\ e \in Entry
      /\ nAdded' = nAdded + 1 /\ fired' = fired /\ nAdded \in 0 .. MaxAdds - 1
      /\ nAdded + 1 \in 0 .. MaxAdds /\ fired \subseteq 1 .. nAdded
      /\ timerHeap' = insertHeap(timerHeap, e)
  BY TimerAssumption DEF TypeInv, veAddTimerProc, Entry
<1>2. e.id = nAdded + 1
  OBVIOUS
<1> HIDE DEF e
<1>3. e \in Entry
  BY <1>1
<1>4. PICK h \in Seq(Entry) : h = timerHeap
  BY <1>1
<1>5. PICK N \in Nat : N = Len(h)
  OBVIOUS
<1>6. PICK a : a = Append(h, e)
  OBVIOUS
<1>7. PICK g : g = timerHeap'
  OBVIOUS
<1>8. g \in Seq(Entry) /\ Len(g) = N + 1 /\ Moves(g, N + 1, a, 1 .. N + 1)
  BY <1>1, <1>4, <1>5, <1>6, <1>7, InsertMoves
<1>9. /\ a[N + 1] = e
      /\ \A i \in 1 .. N : a[i] = h[i] /\ h[i].id \in 1 .. nAdded
  <2>1. a[N + 1] = e /\ \A i \in 1 .. N : a[i] = h[i]
    BY <1>3, <1>5, <1>6
  <2>2. \A i \in 1 .. N : h[i] \in Entry /\ h[i].id <= nAdded
    BY <1>4, <1>5 DEF TypeInv, Indices
  <2>3. \A i \in 1 .. N : h[i].id \in 1 .. nAdded
    BY <1>1, <2>2 DEF Entry
  <2> QED
    BY <2>1, <2>3
<1>10. PICK n \in Nat : n = nAdded
  BY <1>1
<1>11. Distinct(h, 1 .. N) /\ fired = (1 .. n) \ Ids(h, 1 .. N)
  BY <1>1, <1>4, <1>5, <1>10 DEF EachOnce, Indices, Distinct, Ids
<1>12. /\ a[N + 1].id = n + 1
       /\ \A i \in 1 .. N : a[i].id = h[i].id /\ a[i].id \in 1 .. n
       /\ 1 .. N + 1 = (1 .. N) \cup {N + 1} /\ 1 .. n + 1 = (1 .. n) \cup {n + 1}
       /\ n + 1 \notin 1 .. n /\ N + 1 \in Nat
  BY <1>2, <1>9, <1>10
<1>13. Distinct(a, 1 .. N + 1) /\ Ids(a, 1 .. N + 1) = Ids(h, 1 .. N) \cup {n + 1}
  <2>1. Distinct(h, 1 .. N) /\ \A i \in 1 .. N : a[i].id = h[i].id /\ a[i].id # a[N + 1].id
    BY <1>11, <1>12
  <2>2. Distinct(a, 1 .. N + 1) /\ Ids(a, 1 .. N + 1) = Ids(h, 1 .. N) \cup {a[N + 1].id}
    BY <2>1, Added
  <2> QED
    BY <1>12, <2>2
<1>14. Distinct(g, 1 .. N + 1) /\ Ids(g, 1 .. N + 1) = Ids(h, 1 .. N) \cup {n + 1}
  BY <1>8, <1>12, <1>13, MovedIds
<1>15. fired = (1 .. n + 1) \ Ids(g, 1 .. N + 1)
  BY <1>11, <1>12, <1>14
<1>16. \A i \in 1 .. N + 1 : g[i].id \in 1 .. n + 1
  <2>1. Ids(h, 1 .. N) \subseteq 1 .. n
    BY <1>9, <1>10 DEF Ids
  <2> QED
    BY <1>12, <1>14, <2>1 DEF Ids
<1>17. EachOnce'
  BY <1>1, <1>7, <1>8, <1>10, <1>14, <1>15 DEF EachOnce, Indices, Distinct, Ids
<1>18. TypeInv'
  <2>1. \A i \in 1 .. N + 1 : g[i].id <= n + 1
    BY <1>16
  <2>2. at' \in {"look", "asleep", "poll", "fire", "proc"} /\ UNCHANGED <<busywait, now, deadline>>
    BY DEF TypeInv, veAddTimerProc
  <2>3. fired' \subseteq 1 .. nAdded'
    BY <1>1
  <2> QED
    BY <1>1, <1>7, <1>8, <1>10, <2>1, <2>2, <2>3 DEF TypeInv, Indices
<1>19. NoOversleep'
  <2>1. at' # "asleep"
    BY DEF veAddTimerProc
  <2> QED
    BY <2>1 DEF NoOversleep
<1> QED
  BY <1>17, <1>18, <1>19

\* The root is fired: it leaves the heap and no other timer does.
LEMMA FireStep ==
    ASSUME IInv, veTimerProcEvent
    PROVE  IInv'
<1> USE DEF IInv
<1>1. /\ timerHeap \in Seq(Entry) /\ timerHeap # <<>>
      /\ timerHeap' \in getNextTimer(timerHeap)
      /\ nAdded' = nAdded /\ fired' = fired \cup {timerHeap[1].id} /\ at' = "proc"
      /\ UNCHANGED <<busywait, now, deadline>>
      /\ fired \subseteq 1 .. nAdded /\ nAdded \in 0 .. MaxAdds
  BY DEF TypeInv, veTimerProcEvent, EventsPending
<1>2. PICK h \in Seq(Entry) : h = timerHeap
  BY <1>1
<1>3. PICK N \in Nat \ {0} : N = Len(h)
  BY <1>1, <1>2
<1>4. PICK g \in getNextTimer(h) : g = timerHeap'
  BY <1>1, <1>2
<1>5. g \in Seq(Entry) /\ Len(g) = N - 1 /\ Moves(g, N - 1, h, 2 .. N)
  BY <1>1, <1>2, <1>3, <1>4, NextMoves
<1>6. PICK n \in Nat : n = nAdded
  BY <1>1, TimerAssumption
<1>7. Distinct(h, 1 .. N) /\ fired = (1 .. n) \ Ids(h, 1 .. N)
  BY <1>1, <1>2, <1>3, <1>6 DEF EachOnce, Indices, Distinct, Ids
<1>8. \A i \in 1 .. N : h[i].id \in 1 .. n
  <2>1. \A i \in 1 .. N : h[i] \in Entry /\ h[i].id <= n
    BY <1>2, <1>3, <1>6 DEF TypeInv, Indices
  <2> QED
    BY <2>1 DEF Entry
<1>9. 1 .. N = {1} \cup 2 .. N /\ 1 \notin 2 .. N /\ N - 1 \in Nat
  OBVIOUS
<1>10. /\ Distinct(h, 2 .. N) /\ h[1].id \notin Ids(h, 2 .. N)
       /\ Ids(h, 1 .. N) = Ids(h, 2 .. N) \cup {h[1].id}
  BY <1>7, <1>9 DEF Distinct, Ids
<1>11. Distinct(g, 1 .. N - 1) /\ Ids(g, 1 .. N - 1) = Ids(h, 2 .. N)
  BY <1>5, <1>9, <1>10, MovedIds
<1>12. fired' = (1 .. n) \ Ids(g, 1 .. N - 1)
  <2>1. h[1].id \in 1 .. n
    BY <1>8, <1>9
  <2> QED
    BY <1>1, <1>2, <1>7, <1>10, <1>11, <2>1
<1>13. EachOnce'
  <2>1. Indices' = 1 .. N - 1 /\ timerHeap' = g /\ nAdded' = n
    BY <1>1, <1>4, <1>5, <1>6 DEF Indices
  <2>2. \A m \in 1 .. n : m \in fired' <=> ~\E i \in 1 .. N - 1 : g[i].id = m
    BY <1>12 DEF Ids
  <2>3. \A i, j \in 1 .. N - 1 : g[i].id = g[j].id => i = j
    BY <1>11 DEF Distinct
  <2> QED
    BY <2>1, <2>2, <2>3 DEF EachOnce
<1>14. TypeInv'
  <2>1. \A i \in 1 .. N - 1 : g[i].id \in 1 .. n
    <3>1. Ids(g, 1 .. N - 1) \subseteq 1 .. n
      BY <1>8, <1>9, <1>11 DEF Ids
    <3> QED
      BY <3>1 DEF Ids
  <2>2. \A i \in 1 .. N - 1 : g[i].id <= n
    BY <2>1
  <2>3. fired' \subseteq 1 .. nAdded'
    BY <1>1, <1>6, <1>12
  <2> QED
    BY <1>1, <1>4, <1>5, <1>6, <2>2, <2>3 DEF TypeInv, Indices
<1>15. NoOversleep'
  BY <1>1 DEF NoOversleep
<1> QED
  BY <1>13, <1>14, <1>15

LEMMA Inductive == IInv /\ [Next]_vars => IInv'
<1> SUFFICES ASSUME IInv, [Next]_vars
             PROVE  IInv'
  OBVIOUS
<1>1. ASSUME NEW d \in Delays, veAddTimerProc(d)
      PROVE  IInv'
  BY <1>1, AddStep
<1>2. CASE veTimerProcEvent
  BY <1>2, FireStep
<1>3. CASE \/ Tick \/ LookDue \/ LookEmpty \/ LookAhead \/ LookSoon \/ PollDue \/ TimeOut
           \/ ProcReturns \/ NoMoreDue \/ SpuriousWakeup
  BY <1>3, ThreadStep
<1>4. CASE UNCHANGED vars
  BY <1>4 DEF IInv, TypeInv, EachOnce, NoOversleep, Indices, peekNextTime, vars
<1> QED
  BY <1>1, <1>2, <1>3, <1>4 DEF Next, TimerThread

LEMMA Invariance == Spec => []IInv
  BY InitOK, Inductive, PTL DEF Spec

\* The variables keep their types: the heap holds entries with a time the clock
\* reaches and the number of a call that was made (timerHeap, ve_timer.c).
THEOREM TypeCorrect == Spec => []TypeInv
<1>1. IInv => TypeInv
  BY DEF IInv
<1> QED
  BY <1>1, Invariance, PTL

\* Each timer added is pending once or has been fired, never both: insertHeap
\* and getNextTimer lose and double nothing, in order or not.
THEOREM OnceCorrect == Spec => []EachOnce
<1>1. IInv => EachOnce
  BY DEF IInv
<1> QED
  BY <1>1, Invariance, PTL

\* veTimerWaitForEvents never sleeps past the time of the root, also when it
\* changes during the sleep.
THEOREM SleepCorrect == Spec => []NoOversleep
<1>1. IInv => NoOversleep
  BY DEF IInv
<1> QED
  BY <1>1, Invariance, PTL
=============================================================================
