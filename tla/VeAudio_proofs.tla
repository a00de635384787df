--------------------------- MODULE VeAudio_proofs ---------------------------
(* Proofs about VeAudio: rows and ids of instances are not given out again  *)
(* too early, a thread that waits for an instance is woken, a slave does    *)
(* not give up, no instance is forgotten, and a stop ends no other.         *)
EXTENDS VeAudio, FiniteSetTheorems, TLAPS

-----------------------------------------------------------------------------
(* The inductive invariant.                                                 *)

About(m, tag, c, k) == m.tag = tag /\ m.chid = c /\ m.itid = k
Holds(q, tag, c, k) == \E i \in 1 .. Len(q) : About(q[i], tag, c, k)
Once(q, tag, c, k) ==
    \A i, j \in 1 .. Len(q) : About(q[i], tag, c, k) /\ About(q[j], tag, c, k) => i = j
Whose(q, tag, c, k, n) == \A i \in 1 .. Len(q) : About(q[i], tag, c, k) => q[i].who = n

\* Streams of a process carry what is about its channels, and only M_CLEAN goes
\* to the master.
StreamInv ==
    \A p \in Process :
        /\ \A i \in 1 .. Len(toSlave[p]) : ProcOf[toSlave[p][i].chid] = p
        /\ \A i \in 1 .. Len(toMaster[p]) :
            ProcOf[toMaster[p][i].chid] = p /\ toMaster[p][i].tag = "CLEAN"

\* An instance that the master does not know to be finished is in one place: its
\* M_NEW on the way to the slave, in a row there, or its M_CLEAN on the way back.
RowInv(c, k) ==
    LET down == toSlave[ProcOf[c]]  up == toMaster[ProcOf[c]]
    IN  /\ Holds(down, "NEW", c, k) => ~slot[c][k].inuse /\ ~Holds(up, "CLEAN", c, k)
        /\ Holds(up, "CLEAN", c, k) => ~slot[c][k].inuse
        /\ Holds(down, "NEW", c, k) \/ Holds(up, "CLEAN", c, k) \/ slot[c][k].inuse =>
            tab[c][k].inuse /\ ~tab[c][k].c1
        /\ Once(down, "NEW", c, k) /\ Once(up, "CLEAN", c, k)
        /\ Whose(down, "NEW", c, k, tab[c][k].who)
        /\ slot[c][k].inuse => slot[c][k].who = tab[c][k].who

TokenInv == StreamInv /\ \A c \in Chid, k \in Slot : RowInv(c, k)

IdInv ==
    /\ \A i \in Id : instmap[i] = NoInst \/ (instmap[i].chid \in Chid /\ instmap[i].itid \in Slot)
    /\ \A c \in Chid, k \in Slot : tab[c][k].inuse => tab[c][k].id \in Id
    /\ IdsAgree

\* waiting counts at least the threads that wait: one that reads a stale row
\* leaves without taking itself off.
Waiters(c, k) == {t \in Thread : at[t] # "out" /\ wait[t].chid = c /\ wait[t].itid = k}

WaitInv ==
    /\ \A t \in Thread : at[t] # "out" => wait[t].chid \in Chid /\ wait[t].itid \in Slot
    /\ WaitedForKept
    /\ \A c \in Chid, k \in Slot : Cardinality(Waiters(c, k)) <= tab[c][k].waiting

IInv == TypeOK /\ TokenInv /\ IdInv /\ WaitInv /\ FinishedWakes

-----------------------------------------------------------------------------
(* Rows and streams.                                                        *)

Rows == [inuse : BOOLEAN, id : Id \cup {-1}, c0 : BOOLEAN, c1 : BOOLEAN, waiting : Nat,
         who : Nat, stopped : BOOLEAN]
Tables == [Chid -> [Slot -> Rows]]
Played == [inuse : BOOLEAN, next : -1 .. NFrames - 1, loop : Int, who : Nat]
Maps == [Id -> [chid : Chid \cup {-1}, itid : Slot \cup {-1}]]

LEMMA SetRow ==
    ASSUME NEW S, NEW f \in [Chid -> [Slot -> S]], NEW c \in Chid, NEW k \in Slot, NEW r \in S
    PROVE  LET g == [f EXCEPT ![c][k] = r]
           IN  /\ g \in [Chid -> [Slot -> S]]
               /\ g[c][k] = r
               /\ \A d \in Chid, j \in Slot : d # c \/ j # k => g[d][j] = f[d][j]
OBVIOUS

\* What the actions change in a row.
LEMMA RowEdits ==
    ASSUME NEW x \in Rows
    PROVE  /\ LET y == [x EXCEPT !.c0 = TRUE]
              IN  y \in Rows /\ y.inuse = x.inuse /\ y.id = x.id /\ y.c0 = TRUE /\ y.c1 = x.c1
                  /\ y.waiting = x.waiting /\ y.who = x.who
           /\ LET y == [x EXCEPT !.c1 = TRUE]
              IN  y \in Rows /\ y.inuse = x.inuse /\ y.id = x.id /\ y.c0 = x.c0 /\ y.c1 = TRUE
                  /\ y.waiting = x.waiting /\ y.who = x.who
           /\ LET y == [x EXCEPT !.stopped = TRUE]
              IN  y \in Rows /\ y.inuse = x.inuse /\ y.id = x.id /\ y.c0 = x.c0 /\ y.c1 = x.c1
                  /\ y.waiting = x.waiting /\ y.who = x.who
           /\ LET y == [x EXCEPT !.waiting = @ + 1]
              IN  y \in Rows /\ y.inuse = x.inuse /\ y.id = x.id /\ y.c0 = x.c0 /\ y.c1 = x.c1
                  /\ y.waiting = x.waiting + 1 /\ y.who = x.who
           /\ x.waiting >= 1 =>
                LET y == [x EXCEPT !.waiting = @ - 1]
                IN  y \in Rows /\ y.inuse = x.inuse /\ y.id = x.id /\ y.c0 = x.c0 /\ y.c1 = x.c1
                    /\ y.waiting = x.waiting - 1 /\ y.who = x.who
           /\ x.inuse \in BOOLEAN /\ x.c1 \in BOOLEAN /\ x.waiting \in Nat /\ x.who \in Nat
<1>1. LET y == [x EXCEPT !.c0 = TRUE]
      IN  y \in Rows /\ y.inuse = x.inuse /\ y.id = x.id /\ y.c0 = TRUE /\ y.c1 = x.c1
          /\ y.waiting = x.waiting /\ y.who = x.who
  BY DEF Rows
<1>2. LET y == [x EXCEPT !.c1 = TRUE]
      IN  y \in Rows /\ y.inuse = x.inuse /\ y.id = x.id /\ y.c0 = x.c0 /\ y.c1 = TRUE
          /\ y.waiting = x.waiting /\ y.who = x.who
  BY DEF Rows
<1>3. LET y == [x EXCEPT !.stopped = TRUE]
      IN  y \in Rows /\ y.inuse = x.inuse /\ y.id = x.id /\ y.c0 = x.c0 /\ y.c1 = x.c1
          /\ y.waiting = x.waiting /\ y.who = x.who
  BY DEF Rows
<1>4. LET y == [x EXCEPT !.waiting = @ + 1]
      IN  y \in Rows /\ y.inuse = x.inuse /\ y.id = x.id /\ y.c0 = x.c0 /\ y.c1 = x.c1
          /\ y.waiting = x.waiting + 1 /\ y.who = x.who
  BY DEF Rows
<1>5. x.waiting >= 1 =>
        LET y == [x EXCEPT !.waiting = @ - 1]
        IN  y \in Rows /\ y.inuse = x.inuse /\ y.id = x.id /\ y.c0 = x.c0 /\ y.c1 = x.c1
            /\ y.waiting = x.waiting - 1 /\ y.who = x.who
  BY DEF Rows
<1>6. x.inuse \in BOOLEAN /\ x.c1 \in BOOLEAN /\ x.waiting \in Nat /\ x.who \in Nat
  BY DEF Rows
<1> QED
  BY <1>1, <1>2, <1>3, <1>4, <1>5, <1>6

LEMMA AppendFacts ==
    ASSUME NEW q \in Seq(Messages), NEW m \in Messages
    PROVE  LET r == Append(q, m)
           IN  /\ r \in Seq(Messages) /\ Len(r) = Len(q) + 1
               /\ \A i \in 1 .. Len(q) : r[i] = q[i]
               /\ r[Len(q) + 1] = m
               /\ \A tag, c, k :
                    /\ Holds(r, tag, c, k) <=> Holds(q, tag, c, k) \/ About(m, tag, c, k)
                    /\ Once(q, tag, c, k) /\ (About(m, tag, c, k) => ~Holds(q, tag, c, k)) =>
                        Once(r, tag, c, k)
                    /\ \A n : Whose(q, tag, c, k, n) /\ (About(m, tag, c, k) => m.who = n) =>
                        Whose(r, tag, c, k, n)
<1> DEFINE r == Append(q, m)
<1>1. /\ r \in Seq(Messages) /\ Len(r) = Len(q) + 1 /\ Len(q) \in Nat
      /\ \A i \in 1 .. Len(q) : r[i] = q[i]
      /\ r[Len(q) + 1] = m
  OBVIOUS
<1> HIDE DEF r
<1> SUFFICES ASSUME NEW tag, NEW c, NEW k
             PROVE  /\ Holds(r, tag, c, k) <=> Holds(q, tag, c, k) \/ About(m, tag, c, k)
                    /\ Once(q, tag, c, k) /\ (About(m, tag, c, k) => ~Holds(q, tag, c, k)) =>
                        Once(r, tag, c, k)
                    /\ \A n : Whose(q, tag, c, k, n) /\ (About(m, tag, c, k) => m.who = n) =>
                        Whose(r, tag, c, k, n)
  BY <1>1 DEF r
<1>2. \A i \in 1 .. Len(r) : i \in 1 .. Len(q) \/ i = Len(q) + 1
  BY <1>1
<1>3. \A i \in 1 .. Len(q) : i \in 1 .. Len(r)
  BY <1>1
<1>4. Len(q) + 1 \in 1 .. Len(r)
  BY <1>1
<1>5. Holds(r, tag, c, k) <=> Holds(q, tag, c, k) \/ About(m, tag, c, k)
  BY <1>1, <1>2, <1>3, <1>4 DEF Holds
<1>6. Once(q, tag, c, k) /\ (About(m, tag, c, k) => ~Holds(q, tag, c, k)) => Once(r, tag, c, k)
  BY <1>1, <1>2, <1>3, <1>4 DEF Holds, Once
<1>7. \A n : Whose(q, tag, c, k, n) /\ (About(m, tag, c, k) => m.who = n) => Whose(r, tag, c, k, n)
  BY <1>1, <1>2 DEF Whose
<1> QED
  BY <1>5, <1>6, <1>7

LEMMA AppendWhose ==
    ASSUME NEW q \in Seq(Messages), NEW m \in Messages, NEW tag, NEW c, NEW k, NEW n,
           Whose(q, tag, c, k, n), m.who = n
    PROVE  Whose(Append(q, m), tag, c, k, n)
<1>1. \A i \in 1 .. Len(Append(q, m)) :
        (i \in 1 .. Len(q) /\ Append(q, m)[i] = q[i]) \/ Append(q, m)[i] = m
  OBVIOUS
<1> QED
  BY <1>1 DEF Whose

LEMMA TailFacts ==
    ASSUME NEW q \in Seq(Messages), q # <<>>
    PROVE  LET r == Tail(q)
           IN  /\ r \in Seq(Messages) /\ Head(q) \in Messages /\ Head(q) = q[1]
               /\ 1 \in 1 .. Len(q)
               /\ \A i \in 1 .. Len(r) : r[i] = q[i + 1] /\ i + 1 \in 1 .. Len(q)
               /\ \A tag, c, k :
                    /\ Holds(r, tag, c, k) => Holds(q, tag, c, k)
                    /\ About(Head(q), tag, c, k) => Holds(q, tag, c, k)
                    /\ Once(q, tag, c, k) => Once(r, tag, c, k)
                    /\ Once(q, tag, c, k) /\ About(Head(q), tag, c, k) => ~Holds(r, tag, c, k)
                    /\ \A n : Whose(q, tag, c, k, n) => Whose(r, tag, c, k, n)
                    /\ \A n : Whose(q, tag, c, k, n) /\ About(Head(q), tag, c, k) => Head(q).who = n
<1> DEFINE r == Tail(q)
<1>1. /\ r \in Seq(Messages) /\ Len(r) = Len(q) - 1 /\ Len(q) \in Nat \ {0}
      /\ Head(q) = q[1] /\ Head(q) \in Messages
  OBVIOUS
<1>2. \A i \in 1 .. Len(r) : r[i] = q[i + 1] /\ i + 1 \in 1 .. Len(q)
  OBVIOUS
<1>3. 1 \in 1 .. Len(q)
  BY <1>1
<1> HIDE DEF r
<1> SUFFICES ASSUME NEW tag, NEW c, NEW k
             PROVE  /\ Holds(r, tag, c, k) => Holds(q, tag, c, k)
                    /\ About(Head(q), tag, c, k) => Holds(q, tag, c, k)
                    /\ Once(q, tag, c, k) => Once(r, tag, c, k)
                    /\ Once(q, tag, c, k) /\ About(Head(q), tag, c, k) => ~Holds(r, tag, c, k)
                    /\ \A n : Whose(q, tag, c, k, n) => Whose(r, tag, c, k, n)
                    /\ \A n : Whose(q, tag, c, k, n) /\ About(Head(q), tag, c, k) => Head(q).who = n
  BY <1>1, <1>2, <1>3 DEF r
<1>4. Holds(r, tag, c, k) => Holds(q, tag, c, k)
  BY <1>2 DEF Holds
<1>5. About(Head(q), tag, c, k) => Holds(q, tag, c, k)
  BY <1>1, <1>3 DEF Holds
<1>6. Once(q, tag, c, k) => Once(r, tag, c, k)
  BY <1>1, <1>2 DEF Once
<1>7. Once(q, tag, c, k) /\ About(Head(q), tag, c, k) => ~Holds(r, tag, c, k)
  BY <1>1, <1>2, <1>3 DEF Once, Holds
<1>8. \A n : Whose(q, tag, c, k, n) => Whose(r, tag, c, k, n)
  BY <1>2 DEF Whose
<1>9. \A n : Whose(q, tag, c, k, n) /\ About(Head(q), tag, c, k) => Head(q).who = n
  BY <1>1, <1>3 DEF Whose
<1> QED
  BY <1>4, <1>5, <1>6, <1>7, <1>8, <1>9

LEMMA MessageFacts ==
    ASSUME NEW tag \in {"CHANNEL", "NEW", "STOP", "UPDATE", "CLEAN"}, NEW c \in Chid,
           NEW k \in Slot, NEW loop \in Int, NEW n \in Nat
    PROVE  LET m == Message(tag, c, k, loop, n)
           IN  /\ m \in Messages
               /\ m.tag = tag /\ m.chid = c /\ m.itid = k /\ m.who = n
BY DEF Message, Messages

\* The M_CLEAN messages of one pass of a channel thread: one for each row it
\* has finished.
LEMMA CleanedIs ==
    ASSUME TypeOK, NEW c \in Chid, NEW rows \in Ascending(Finished(c))
    PROVE  LET n == Cardinality(Finished(c))  s == Cleaned(c, rows)
           IN  /\ n \in Nat /\ s \in Seq(Messages) /\ Len(s) = n
               /\ \A i \in 1 .. n :
                    /\ rows[i] \in Finished(c) /\ rows[i] \in Slot
                    /\ s[i] \in Messages /\ s[i].tag = "CLEAN" /\ s[i].chid = c
                    /\ s[i].itid = rows[i]
               /\ \A i, j \in 1 .. n : rows[i] = rows[j] => i = j
               /\ \A k \in Finished(c) : \E i \in 1 .. n : rows[i] = k
<1> DEFINE n == Cardinality(Finished(c))  s == Cleaned(c, rows)
<1>1. Finished(c) \subseteq Slot /\ IsFiniteSet(Slot)
  BY FS_Interval, AudioAssumption DEF Finished, Slot
<1>2. n \in Nat /\ IsFiniteSet(Finished(c))
  BY <1>1, FS_Subset, FS_CardinalityType
<1>3. /\ rows \in [1 .. n -> Finished(c)] /\ DOMAIN rows = 1 .. n
      /\ \A i, j \in 1 .. n : i < j => rows[i] < rows[j]
  BY DEF Ascending
<1>4. \A i \in 1 .. n : rows[i] \in Finished(c) /\ rows[i] \in Slot /\ rows[i] \in Int
  BY <1>1, <1>3, AudioAssumption DEF Slot
<1>5. \A i, j \in 1 .. n : rows[i] = rows[j] => i = j
  BY <1>2, <1>3, <1>4
<1>6. \A i \in 1 .. n : s[i] = Message("CLEAN", c, rows[i], 0, slot[c][rows[i]].who)
  BY <1>3 DEF Cleaned
<1>7. \A k \in Finished(c) : \E i \in 1 .. n : rows[i] = k
  <2>1. Cardinality(1 .. n) = n
    BY <1>2, FS_Interval
  <2> DEFINE F == Finished(c)
  <2> HIDE DEF F
  <2>2. rows \in Injection(1 .. n, F)
    BY <1>3, <1>5 DEF Injection, IsInjective, F
  <2>3. rows \in Surjection(1 .. n, F)
    BY <1>2, <2>1, <2>2, FS_Injection DEF F
  <2> QED
    BY <2>3 DEF Surjection, F
<1> HIDE DEF n
<1>8. ASSUME NEW i \in 1 .. n
      PROVE  s[i] \in Messages /\ s[i].tag = "CLEAN" /\ s[i].chid = c /\ s[i].itid = rows[i]
  <2>1. PICK x \in Slot : x = rows[i]
    BY <1>4
  <2>2. PICK m \in Nat : m = slot[c][x].who
    BY <2>1 DEF TypeOK
  <2> HIDE DEF s
  <2>3. s[i] = Message("CLEAN", c, x, 0, m)
    BY <1>6, <2>1, <2>2
  <2>4. LET w == Message("CLEAN", c, x, 0, m)
        IN  w \in Messages /\ w.tag = "CLEAN" /\ w.chid = c /\ w.itid = x
    BY MessageFacts
  <2> QED
    BY <2>1, <2>3, <2>4
<1>9. s \in Seq(Messages) /\ Len(s) = n
  <2>1. s \in [1 .. n -> Messages]
    BY <1>3, <1>8 DEF Cleaned
  <2> HIDE DEF s
  <2> QED
    BY <1>2, <2>1
<1> HIDE DEF s
<1> QED
  BY <1>2, <1>4, <1>5, <1>7, <1>8, <1>9 DEF n, s

LEMMA CleanedFacts ==
    ASSUME TypeOK, NEW c \in Chid, NEW rows \in Ascending(Finished(c)),
           NEW q \in Seq(Messages)
    PROVE  LET r == q \o Cleaned(c, rows)
           IN  /\ r \in Seq(Messages)
               /\ \A i \in 1 .. Len(r) :
                    (i \in 1 .. Len(q) /\ r[i] = q[i]) \/ (r[i].chid = c /\ r[i].tag = "CLEAN")
               /\ \A d \in Chid, k \in Slot :
                    /\ Holds(r, "CLEAN", d, k) =>
                        Holds(q, "CLEAN", d, k) \/ (d = c /\ k \in Finished(c))
                    /\ Once(q, "CLEAN", d, k)
                        /\ (d = c /\ k \in Finished(c) => ~Holds(q, "CLEAN", d, k)) =>
                        Once(r, "CLEAN", d, k)
<1> DEFINE n == Cardinality(Finished(c))  s == Cleaned(c, rows)  r == q \o s
<1>1. n \in Nat /\ s \in Seq(Messages) /\ Len(s) = n
  BY CleanedIs
<1>2. \A i \in 1 .. n :
          /\ rows[i] \in Finished(c) /\ rows[i] \in Slot
          /\ s[i] \in Messages /\ s[i].tag = "CLEAN" /\ s[i].chid = c /\ s[i].itid = rows[i]
  BY CleanedIs
<1>3. \A i, j \in 1 .. n : rows[i] = rows[j] => i = j
  BY CleanedIs
<1> HIDE DEF n, s
<1>4. /\ r \in Seq(Messages) /\ Len(r) = Len(q) + n /\ Len(q) \in Nat
      /\ \A i \in 1 .. Len(q) : r[i] = q[i]
      /\ \A i \in 1 .. n : r[Len(q) + i] = s[i]
  BY <1>1
<1> HIDE DEF r
<1>5. \A i \in 1 .. Len(r) : i \in 1 .. Len(q) \/ (i - Len(q) \in 1 .. n /\ r[i] = s[i - Len(q)])
  BY <1>1, <1>4
<1>6. \A i \in 1 .. Len(r) :
         (i \in 1 .. Len(q) /\ r[i] = q[i]) \/ (r[i].chid = c /\ r[i].tag = "CLEAN")
  <2>1. \A i \in 1 .. n : s[i].tag = "CLEAN" /\ s[i].chid = c
    BY <1>2
  <2> QED
    BY <1>4, <1>5, <2>1
<1>7. ASSUME NEW d \in Chid, NEW k \in Slot
      PROVE  /\ Holds(r, "CLEAN", d, k) =>
                 Holds(q, "CLEAN", d, k) \/ (d = c /\ k \in Finished(c))
             /\ Once(q, "CLEAN", d, k)
                 /\ (d = c /\ k \in Finished(c) => ~Holds(q, "CLEAN", d, k)) =>
                 Once(r, "CLEAN", d, k)
  <2>1. \A i \in 1 .. Len(r) : About(r[i], "CLEAN", d, k) =>
          \/ i \in 1 .. Len(q) /\ About(q[i], "CLEAN", d, k)
          \/ i - Len(q) \in 1 .. n /\ d = c /\ k = rows[i - Len(q)] /\ k \in Finished(c)
    BY <1>2, <1>4, <1>5 DEF About
  <2>2. Holds(r, "CLEAN", d, k) => Holds(q, "CLEAN", d, k) \/ (d = c /\ k \in Finished(c))
    BY <2>1 DEF Holds
  <2>3. ASSUME Once(q, "CLEAN", d, k), d = c /\ k \in Finished(c) => ~Holds(q, "CLEAN", d, k),
               NEW i \in 1 .. Len(r), NEW j \in 1 .. Len(r),
               About(r[i], "CLEAN", d, k), About(r[j], "CLEAN", d, k)
        PROVE  i = j
    <3>1. CASE i \in 1 .. Len(q) /\ About(q[i], "CLEAN", d, k)
      BY <2>1, <2>3, <3>1 DEF Once, Holds
    <3>2. CASE i - Len(q) \in 1 .. n /\ d = c /\ k = rows[i - Len(q)] /\ k \in Finished(c)
      <4>1. j - Len(q) \in 1 .. n /\ k = rows[j - Len(q)]
        BY <2>1, <2>3, <3>2 DEF Holds
      <4>2. i - Len(q) = j - Len(q)
        BY <1>3, <3>2, <4>1
      <4> QED
        BY <1>1, <1>4, <4>2
    <3> QED
      BY <2>1, <2>3, <3>1, <3>2
  <2> QED
    BY <2>2, <2>3 DEF Once
<1> QED
  BY <1>4, <1>6, <1>7 DEF r, s

-----------------------------------------------------------------------------
(* What the parts of the invariant rest on.                                 *)

LEMMA Typed ==
    ASSUME TypeOK
    PROVE  /\ tab \in Tables /\ instmap \in Maps /\ slot \in [Chid -> [Slot -> Played]]
           /\ \A c \in Chid, k \in Slot : tab[c][k] \in Rows /\ slot[c][k] \in Played
           /\ \A c \in Chid : ProcOf[c] \in Process
           /\ \A p \in Process : toSlave[p] \in Seq(Messages) /\ toMaster[p] \in Seq(Messages)
           /\ Id \subseteq Nat /\ Slot \subseteq Nat /\ Chid \subseteq Nat
           /\ 0 \in Slot /\ MaxInst \in Nat
<1>1. tab \in Tables /\ instmap \in Maps /\ slot \in [Chid -> [Slot -> Played]]
  BY DEF TypeOK, Tables, Rows, Maps, Played
<1>2. \A c \in Chid, k \in Slot : tab[c][k] \in Rows /\ slot[c][k] \in Played
  BY <1>1 DEF Tables
<1>3. Id \subseteq Nat /\ Slot \subseteq Nat /\ Chid \subseteq Nat /\ 0 \in Slot
  BY AudioAssumption DEF Id, Slot, Chid
<1> QED
  BY <1>1, <1>2, <1>3, AudioAssumption DEF TypeOK

\* A stream that has lost messages, or won some of another kind.
Fewer(q, r, tag, c, k) ==
    /\ Holds(r, tag, c, k) => Holds(q, tag, c, k)
    /\ Once(q, tag, c, k) => Once(r, tag, c, k)
    /\ \A n : Whose(q, tag, c, k, n) => Whose(r, tag, c, k, n)

LEMMA FewerSame == \A q, tag, c, k : Fewer(q, q, tag, c, k)
BY DEF Fewer

\* One more message in a stream changes nothing for the rows it is not about.
LEMMA AppendFewer ==
    ASSUME TypeOK, NEW m \in Messages, Send(m), NEW tag, NEW c \in Chid, NEW k,
           ~About(m, tag, c, k)
    PROVE  Fewer(toSlave[ProcOf[c]], toSlave'[ProcOf[c]], tag, c, k)
<1>1. CASE ProcOf[c] = ProcOf[m.chid]
  <2>1. toSlave'[ProcOf[c]] = Append(toSlave[ProcOf[c]], m) /\ toSlave[ProcOf[c]] \in Seq(Messages)
    BY <1>1, Typed DEF Send, TypeOK
  <2> QED
    BY <2>1, AppendFacts DEF Fewer
<1>2. CASE ProcOf[c] # ProcOf[m.chid]
  BY <1>2, Typed, FewerSame DEF Send, TypeOK
<1> QED
  BY <1>1, <1>2

LEMMA SendStream ==
    ASSUME TypeOK, StreamInv, NEW m \in Messages, Send(m), UNCHANGED toMaster
    PROVE  StreamInv' /\ toSlave' \in [Process -> Seq(Messages)]
<1>1. m.chid \in Chid /\ ProcOf[m.chid] \in Process
  BY Typed DEF Messages
<1>2. toSlave' \in [Process -> Seq(Messages)]
  BY <1>1, AppendFacts DEF Send, TypeOK
<1>3. ASSUME NEW p \in Process, NEW i \in 1 .. Len(toSlave'[p])
      PROVE  ProcOf[toSlave'[p][i].chid] = p
  <2>1. CASE p = ProcOf[m.chid]
    <3>1. toSlave'[p] = Append(toSlave[p], m) /\ toSlave[p] \in Seq(Messages)
      BY <1>1, <2>1 DEF Send, TypeOK
    <3>2. i \in 1 .. Len(toSlave[p]) \/ toSlave'[p][i] = m
      BY <1>3, <3>1, AppendFacts
    <3> QED
      BY <2>1, <3>1, <3>2, AppendFacts DEF StreamInv
  <2>2. CASE p # ProcOf[m.chid]
    BY <1>3, <2>2 DEF Send, TypeOK, StreamInv
  <2> QED
    BY <2>1, <2>2
<1> QED
  BY <1>2, <1>3 DEF StreamInv

\* The slave takes a message.
LEMMA TakeStream ==
    ASSUME TypeOK, StreamInv, NEW p \in Process, toSlave[p] # <<>>,
           toSlave' = [toSlave EXCEPT ![p] = Tail(@)], UNCHANGED toMaster
    PROVE  /\ StreamInv' /\ toSlave' \in [Process -> Seq(Messages)]
           /\ Head(toSlave[p]) \in Messages /\ ProcOf[Head(toSlave[p]).chid] = p
           /\ \A c \in Chid, k \in Slot : \A tag :
                Fewer(toSlave[ProcOf[c]], toSlave'[ProcOf[c]], tag, c, k)
<1>1. toSlave[p] \in Seq(Messages) /\ toSlave'[p] = Tail(toSlave[p])
      /\ \A s \in Process : s # p => toSlave'[s] = toSlave[s]
  BY DEF TypeOK
<1>2. toSlave' \in [Process -> Seq(Messages)] /\ Head(toSlave[p]) \in Messages
  BY <1>1, TailFacts DEF TypeOK
<1>3. ProcOf[Head(toSlave[p]).chid] = p
  BY <1>1, TailFacts DEF StreamInv
<1>4. StreamInv'
  <2>1. ASSUME NEW s \in Process, NEW i \in 1 .. Len(toSlave'[s])
        PROVE  ProcOf[toSlave'[s][i].chid] = s
    <3>1. CASE s = p
      BY <1>1, <2>1, <3>1, TailFacts DEF StreamInv
    <3>2. CASE s # p
      BY <1>1, <2>1, <3>2 DEF StreamInv
    <3> QED
      BY <3>1, <3>2
  <2> QED
    BY <2>1 DEF StreamInv
<1>5. ASSUME NEW c \in Chid, NEW k \in Slot, NEW tag
      PROVE  Fewer(toSlave[ProcOf[c]], toSlave'[ProcOf[c]], tag, c, k)
  <2>1. CASE ProcOf[c] = p
    BY <1>1, <2>1, TailFacts DEF Fewer
  <2>2. CASE ProcOf[c] # p
    BY <1>1, <2>2, Typed, FewerSame
  <2> QED
    BY <2>1, <2>2
<1> QED
  BY <1>2, <1>3, <1>4, <1>5

\* The master takes a message.
LEMMA TakeClean ==
    ASSUME TypeOK, StreamInv, NEW p \in Process, toMaster[p] # <<>>,
           toMaster' = [toMaster EXCEPT ![p] = Tail(@)], UNCHANGED toSlave
    PROVE  /\ StreamInv' /\ toMaster' \in [Process -> Seq(Messages)]
           /\ Head(toMaster[p]) \in Messages /\ ProcOf[Head(toMaster[p]).chid] = p
           /\ Head(toMaster[p]).tag = "CLEAN"
           /\ \A c \in Chid, k \in Slot : \A tag :
                Fewer(toMaster[ProcOf[c]], toMaster'[ProcOf[c]], tag, c, k)
<1>1. toMaster[p] \in Seq(Messages) /\ toMaster'[p] = Tail(toMaster[p])
      /\ \A s \in Process : s # p => toMaster'[s] = toMaster[s]
  BY DEF TypeOK
<1>2. toMaster' \in [Process -> Seq(Messages)] /\ Head(toMaster[p]) \in Messages
  BY <1>1, TailFacts DEF TypeOK
<1>3. ProcOf[Head(toMaster[p]).chid] = p /\ Head(toMaster[p]).tag = "CLEAN"
  BY <1>1, TailFacts DEF StreamInv
<1>4. StreamInv'
  <2>1. ASSUME NEW s \in Process, NEW i \in 1 .. Len(toMaster'[s])
        PROVE  ProcOf[toMaster'[s][i].chid] = s /\ toMaster'[s][i].tag = "CLEAN"
    <3>1. CASE s = p
      BY <1>1, <2>1, <3>1, TailFacts DEF StreamInv
    <3>2. CASE s # p
      BY <1>1, <2>1, <3>2 DEF StreamInv
    <3> QED
      BY <3>1, <3>2
  <2> QED
    BY <2>1 DEF StreamInv
<1>5. ASSUME NEW c \in Chid, NEW k \in Slot, NEW tag
      PROVE  Fewer(toMaster[ProcOf[c]], toMaster'[ProcOf[c]], tag, c, k)
  <2>1. CASE ProcOf[c] = p
    BY <1>1, <2>1, TailFacts DEF Fewer
  <2>2. CASE ProcOf[c] # p
    BY <1>1, <2>2, Typed, FewerSame
  <2> QED
    BY <2>1, <2>2
<1> QED
  BY <1>2, <1>3, <1>4, <1>5

\* A row stays as it is when nothing is put into its places, and its entry in
\* the master's table is kept or belongs to an instance that is finished.
LEMMA RowKept ==
    ASSUME NEW c \in Chid, NEW k \in Slot, RowInv(c, k),
           Fewer(toSlave[ProcOf[c]], toSlave'[ProcOf[c]], "NEW", c, k),
           Fewer(toMaster[ProcOf[c]], toMaster'[ProcOf[c]], "CLEAN", c, k),
           slot'[c][k].inuse => slot[c][k].inuse /\ slot'[c][k].who = slot[c][k].who,
           \/ /\ tab'[c][k].inuse = tab[c][k].inuse /\ tab'[c][k].who = tab[c][k].who
              /\ tab'[c][k].c1 = tab[c][k].c1
           \/ ~tab[c][k].inuse \/ tab[c][k].c1
    PROVE  RowInv(c, k)'
<1>1. Once(toSlave'[ProcOf[c]], "NEW", c, k) /\ Once(toMaster'[ProcOf[c]], "CLEAN", c, k)
  BY DEF RowInv, Fewer
<1>2. CASE Holds(toSlave'[ProcOf[c]], "NEW", c, k) \/ Holds(toMaster'[ProcOf[c]], "CLEAN", c, k)
             \/ slot'[c][k].inuse
  BY <1>1, <1>2 DEF RowInv, Fewer
<1>3. CASE ~(Holds(toSlave'[ProcOf[c]], "NEW", c, k) \/ Holds(toMaster'[ProcOf[c]], "CLEAN", c, k)
               \/ slot'[c][k].inuse)
  <2>1. Whose(toSlave'[ProcOf[c]], "NEW", c, k, tab'[c][k].who)
    BY <1>3 DEF Holds, Whose
  <2> QED
    BY <1>1, <1>3, <2>1 DEF RowInv
<1> QED
  BY <1>2, <1>3

\* Ids and rows depend on the tables and on the ids that are held.
LEMMA IdsKept ==
    ASSUME IdInv, UNCHANGED <<instmap, held>>,
           \A c \in Chid, k \in Slot : /\ tab'[c][k].inuse = tab[c][k].inuse
                                       /\ tab'[c][k].id = tab[c][k].id
                                       /\ tab'[c][k].c0 = tab[c][k].c0,
           TypeOK
    PROVE  IdInv'
<1>1. \A i \in Id : instmap[i] # NoInst => instmap[i].chid \in Chid /\ instmap[i].itid \in Slot
  BY DEF IdInv
<1>2. held \subseteq Id
  BY DEF TypeOK
<1> QED
  BY <1>1, <1>2 DEF IdInv, IdsAgree, find_inst

LEMMA WaitersFacts ==
    ASSUME TypeOK, WaitInv, NEW c \in Chid, NEW k \in Slot
    PROVE  /\ IsFiniteSet(Waiters(c, k)) /\ Cardinality(Waiters(c, k)) \in Nat
           /\ tab[c][k].waiting = 0 \/ ~tab[c][k].inuse => Waiters(c, k) = {}
           /\ \A t \in Waiters(c, k) :
                /\ Cardinality(Waiters(c, k) \ {t}) = Cardinality(Waiters(c, k)) - 1
                /\ tab[c][k].waiting >= 1
<1>1. IsFiniteSet(Waiters(c, k))
  BY FS_Subset, AudioAssumption DEF Waiters
<1>2. Cardinality(Waiters(c, k)) \in Nat
        /\ (Cardinality(Waiters(c, k)) = 0 <=> Waiters(c, k) = {})
  BY <1>1, FS_CardinalityType, FS_EmptySet
<1>3. tab[c][k].waiting \in Nat
  BY Typed DEF Rows
<1>4. Cardinality(Waiters(c, k)) <= tab[c][k].waiting
  BY DEF WaitInv
<1>5. ~tab[c][k].inuse => Waiters(c, k) = {}
  BY DEF WaitInv, WaitedForKept, Waiters
<1>6. \A t \in Waiters(c, k) : Cardinality(Waiters(c, k) \ {t}) = Cardinality(Waiters(c, k)) - 1
  BY <1>1, FS_RemoveElement
<1> QED
  BY <1>1, <1>2, <1>3, <1>4, <1>5, <1>6

\* Nobody begins to wait, and the rows that are waited for are kept.
LEMMA WaitKept ==
    ASSUME TypeOK, WaitInv,
           \A t \in Thread : at'[t] # "out" =>
               /\ at[t] # "out" /\ wait'[t].chid = wait[t].chid
               /\ wait'[t].itid = wait[t].itid /\ wait'[t].who = wait[t].who,
           \A c \in Chid, k \in Slot :
               \/ /\ tab'[c][k].inuse = tab[c][k].inuse /\ tab'[c][k].who = tab[c][k].who
                  /\ tab'[c][k].waiting = tab[c][k].waiting
               \/ Waiters(c, k) = {} /\ tab'[c][k].waiting \in Nat
    PROVE  WaitInv'
<1>1. \A t \in Thread : at'[t] # "out" => wait'[t].chid \in Chid /\ wait'[t].itid \in Slot
  BY DEF WaitInv
<1>2. ASSUME NEW t \in Thread, at'[t] # "out"
      PROVE  LET r == tab'[wait'[t].chid][wait'[t].itid] IN r.inuse /\ r.who = wait'[t].who
  <2>1. t \in Waiters(wait[t].chid, wait[t].itid)
    BY <1>2 DEF Waiters
  <2>2. wait[t].chid \in Chid /\ wait[t].itid \in Slot
    BY <1>2 DEF WaitInv
  <2> QED
    BY <1>2, <2>1, <2>2 DEF WaitInv, WaitedForKept
<1>3. ASSUME NEW c \in Chid, NEW k \in Slot
      PROVE  Cardinality(Waiters(c, k)') <= tab'[c][k].waiting
  <2>1. Waiters(c, k)' \subseteq Waiters(c, k)
    BY DEF Waiters
  <2>2. /\ Cardinality(Waiters(c, k)') <= Cardinality(Waiters(c, k))
        /\ Cardinality(Waiters(c, k)) \in Nat /\ Cardinality(Waiters(c, k)') \in Nat
    BY <2>1, WaitersFacts, FS_Subset, FS_CardinalityType
  <2>3. CASE Waiters(c, k) = {} /\ tab'[c][k].waiting \in Nat
    BY <2>2, <2>3, FS_EmptySet
  <2>4. CASE tab'[c][k].waiting = tab[c][k].waiting
    <3>1. tab[c][k].waiting \in Nat /\ Cardinality(Waiters(c, k)) <= tab[c][k].waiting
      BY Typed DEF Rows, WaitInv
    <3> QED
      BY <2>2, <2>4, <3>1
  <2> QED
    BY <2>3, <2>4
<1> QED
  BY <1>1, <1>2, <1>3 DEF WaitInv, WaitedForKept

\* Nobody falls asleep, and nothing that somebody sleeps for finishes.
LEMMA WakesKept ==
    ASSUME TypeOK, WaitInv, FinishedWakes,
           \A t \in Thread : at'[t] = "asleep" =>
               /\ at[t] = "asleep" /\ wait'[t].chid = wait[t].chid
               /\ wait'[t].itid = wait[t].itid /\ (~wait'[t].stale => ~wait[t].stale),
           \A c \in Chid, k \in Slot : tab'[c][k].c1 =>
               \/ tab[c][k].c1
               \/ \A t \in Thread : at'[t] = "asleep" => ~(wait[t].chid = c /\ wait[t].itid = k)
    PROVE  FinishedWakes'
<1> SUFFICES ASSUME NEW t \in Thread, at'[t] = "asleep", ~wait'[t].stale
             PROVE  ~tab'[wait'[t].chid][wait'[t].itid].c1
  BY DEF FinishedWakes
<1>1. at[t] = "asleep" /\ ~wait[t].stale /\ wait[t].chid \in Chid /\ wait[t].itid \in Slot
  BY DEF WaitInv
<1>2. wait'[t].chid = wait[t].chid /\ wait'[t].itid = wait[t].itid
  OBVIOUS
<1>3. ~tab[wait[t].chid][wait[t].itid].c1
  BY <1>1 DEF FinishedWakes
<1> QED
  BY <1>1, <1>2, <1>3

-----------------------------------------------------------------------------
(* cleanup_check on a row in use, after the caller has changed its flags.   *)

\* r is what the row of an instance becomes before it is checked.
Changed(c, k, r) ==
    /\ tab[c][k].inuse /\ r \in Rows
    /\ r.inuse /\ r.id = tab[c][k].id /\ r.who = tab[c][k].who

LEMMA CleanupFacts ==
    ASSUME TypeOK, IdInv, NEW c \in Chid, NEW k \in Slot, NEW r, Changed(c, k, r),
           cleanup_check(c, k, r)
    PROVE  /\ tab' \in Tables /\ instmap' \in Maps /\ r.id \in Id
           /\ \A d \in Chid, j \in Slot : d # c \/ j # k => tab'[d][j] = tab[d][j]
           /\ \/ Reusable(r) /\ tab'[c][k] = Unused /\ instmap'[r.id] = NoInst
              \/ ~Reusable(r) /\ tab'[c][k] = r /\ instmap' = instmap
           /\ \A i \in Id : i # r.id => instmap'[i] = instmap[i]
<1>1. tab \in [Chid -> [Slot -> Rows]] /\ instmap \in Maps
  BY Typed DEF Tables
<1>2. Unused \in Rows /\ NoInst \in [chid : Chid \cup {-1}, itid : Slot \cup {-1}]
  BY DEF Unused, Rows, NoInst
<1>3. instmap[r.id] = [chid |-> c, itid |-> k]
  BY DEF Changed, IdInv, IdsAgree
<1>4. r.id \in Id
  BY DEF IdInv, Changed
<1>5. CASE Reusable(r)
  <2>1. tab' = [tab EXCEPT ![c][k] = Unused] /\ instmap' = [instmap EXCEPT ![r.id] = NoInst]
    BY <1>5 DEF cleanup_check
  <2> QED
    BY <1>1, <1>2, <1>4, <1>5, <2>1, SetRow DEF Tables, Maps
<1>6. CASE ~Reusable(r)
  <2>1. tab' = [tab EXCEPT ![c][k] = r] /\ instmap' = instmap /\ r \in Rows
    BY <1>6 DEF cleanup_check, Changed
  <2> QED
    BY <1>1, <1>4, <1>6, <2>1, SetRow DEF Tables
<1> QED
  BY <1>5, <1>6

\* An id that is held keeps its row; one whose row is freed is not held.
LEMMA CleanupIds ==
    ASSUME TypeOK, IdInv, NEW c \in Chid, NEW k \in Slot, NEW r, Changed(c, k, r),
           cleanup_check(c, k, r), held' \subseteq held, r.c0 => r.id \notin held'
    PROVE  IdInv'
<1>1. /\ tab' \in Tables /\ instmap' \in Maps /\ r.id \in Id
      /\ \A d \in Chid, j \in Slot : d # c \/ j # k => tab'[d][j] = tab[d][j]
      /\ \/ Reusable(r) /\ tab'[c][k] = Unused /\ instmap'[r.id] = NoInst
         \/ ~Reusable(r) /\ tab'[c][k] = r /\ instmap' = instmap
      /\ \A i \in Id : i # r.id => instmap'[i] = instmap[i]
  BY CleanupFacts
<1>2. /\ tab[c][k].inuse /\ tab[c][k].id = r.id /\ r.inuse
      /\ instmap[r.id] = [chid |-> c, itid |-> k] /\ instmap[r.id] # NoInst
  BY DEF Changed, IdInv, IdsAgree, NoInst, Chid
<1>3. \A i \in Id : i # r.id /\ instmap[i] # NoInst =>
        /\ instmap[i].chid \in Chid /\ instmap[i].itid \in Slot
        /\ instmap[i].chid # c \/ instmap[i].itid # k
  BY <1>2 DEF IdInv, IdsAgree, find_inst
<1>4. \A d \in Chid, j \in Slot : (d # c \/ j # k) /\ tab[d][j].inuse => tab[d][j].id # r.id
  <2> SUFFICES ASSUME NEW d \in Chid, NEW j \in Slot, d # c \/ j # k, tab[d][j].inuse,
                      tab[d][j].id = r.id
               PROVE  FALSE
    OBVIOUS
  <2>1. instmap[r.id] = [chid |-> d, itid |-> j]
    BY DEF IdInv, IdsAgree
  <2>2. [chid |-> d, itid |-> j] = [chid |-> c, itid |-> k]
    BY <1>2, <2>1
  <2> QED
    BY <2>2
<1>5. \A i \in Id : instmap'[i] = NoInst
                      \/ (instmap'[i].chid \in Chid /\ instmap'[i].itid \in Slot)
  BY <1>1 DEF IdInv
<1>6. ASSUME NEW i \in held' PROVE instmap'[i] # NoInst /\ ~find_inst(i)'.c0
  <2>1. i \in held /\ i \in Id /\ instmap[i] # NoInst /\ ~find_inst(i).c0
    BY <1>6 DEF IdInv, IdsAgree, TypeOK
  <2>2. CASE i = r.id
    <3>1. ~Reusable(r) /\ ~r.c0
      BY <1>6, <2>2 DEF Reusable
    <3> QED
      BY <1>1, <1>2, <2>1, <2>2, <3>1 DEF find_inst
  <2>3. CASE i # r.id
    BY <1>1, <1>3, <2>1, <2>3 DEF find_inst
  <2> QED
    BY <2>2, <2>3
<1>7. ASSUME NEW i \in Id, instmap'[i] # NoInst
      PROVE  find_inst(i)'.inuse /\ find_inst(i)'.id = i
  <2>1. CASE i = r.id
    BY <1>1, <1>2, <1>7, <2>1 DEF find_inst
  <2>2. CASE i # r.id
    BY <1>1, <1>3, <1>7, <2>2 DEF find_inst, IdInv, IdsAgree
  <2> QED
    BY <2>1, <2>2
<1>8. ASSUME NEW d \in Chid, NEW j \in Slot, tab'[d][j].inuse
      PROVE  tab'[d][j].id \in Id /\ instmap'[tab'[d][j].id] = [chid |-> d, itid |-> j]
  <2>1. CASE d = c /\ j = k
    BY <1>1, <1>2, <1>8, <2>1 DEF Unused
  <2>2. CASE d # c \/ j # k
    <3>1. tab[d][j].inuse /\ instmap[tab[d][j].id] = [chid |-> d, itid |-> j]
      BY <1>1, <1>8, <2>2 DEF IdInv, IdsAgree
    <3>2. tab[d][j].id \in Id
      BY <3>1 DEF IdInv
    <3> QED
      BY <1>1, <1>4, <2>2, <3>1, <3>2
  <2> QED
    BY <2>1, <2>2
<1> QED
  BY <1>5, <1>6, <1>7, <1>8 DEF IdInv, IdsAgree

\* A row that is freed has been finished, and nobody waits for it.
LEMMA CleanupWaits ==
    ASSUME TypeOK, IdInv, WaitInv, NEW c \in Chid, NEW k \in Slot, NEW r, Changed(c, k, r),
           cleanup_check(c, k, r), r.waiting = tab[c][k].waiting
    PROVE  \A d \in Chid, j \in Slot :
               \/ /\ tab'[d][j].inuse = tab[d][j].inuse /\ tab'[d][j].who = tab[d][j].who
                  /\ tab'[d][j].waiting = tab[d][j].waiting
               \/ Waiters(d, j) = {} /\ tab'[d][j].waiting \in Nat
<1>1. /\ \A d \in Chid, j \in Slot : d # c \/ j # k => tab'[d][j] = tab[d][j]
      /\ \/ Reusable(r) /\ tab'[c][k] = Unused
         \/ ~Reusable(r) /\ tab'[c][k] = r
  BY CleanupFacts
<1>2. CASE Reusable(r) /\ tab'[c][k] = Unused
  <2>1. tab[c][k].waiting = 0
    BY <1>2 DEF Reusable
  <2>2. Waiters(c, k) = {} /\ tab'[c][k].waiting \in Nat
    BY <1>2, <2>1, WaitersFacts DEF Unused
  <2> QED
    BY <1>1, <2>2
<1>3. CASE tab'[c][k] = r
  <2>1. r \in Rows /\ tab[c][k] \in Rows
    BY Typed DEF Changed
  <2>2. r.inuse = tab[c][k].inuse
    BY <2>1 DEF Changed, Rows
  <2> QED
    BY <1>1, <1>3, <2>2 DEF Changed
<1> QED
  BY <1>1, <1>2, <1>3

LEMMA CleanupRows ==
    ASSUME TypeOK, IdInv, NEW c \in Chid, NEW k \in Slot, NEW r, Changed(c, k, r),
           cleanup_check(c, k, r), r.c1 = tab[c][k].c1
    PROVE  \A d \in Chid, j \in Slot :
               /\ \/ /\ tab'[d][j].inuse = tab[d][j].inuse /\ tab'[d][j].who = tab[d][j].who
                     /\ tab'[d][j].c1 = tab[d][j].c1
                  \/ ~tab[d][j].inuse \/ tab[d][j].c1
               /\ tab'[d][j].c1 => tab[d][j].c1
<1>1. /\ \A d \in Chid, j \in Slot : d # c \/ j # k => tab'[d][j] = tab[d][j]
      /\ \/ Reusable(r) /\ tab'[c][k] = Unused
         \/ ~Reusable(r) /\ tab'[c][k] = r
  BY CleanupFacts
<1>2. CASE Reusable(r) /\ tab'[c][k] = Unused
  BY <1>1, <1>2 DEF Reusable, Unused
<1>3. CASE tab'[c][k] = r
  BY <1>1, <1>3 DEF Changed
<1> QED
  BY <1>1, <1>2, <1>3

-----------------------------------------------------------------------------
(* Every step preserves the invariant.                                      *)

LEMMA InvInit == Init => IInv
<1> SUFFICES ASSUME Init PROVE IInv
  OBVIOUS
<1>1. TypeOK
  BY AudioAssumption DEF Init, TypeOK, Unused, NoInst, Nowhere, Silent
<1>2. \A c \in Chid, k \in Slot : tab[c][k] = Unused /\ slot[c][k] = Silent
  BY DEF Init
<1>3. \A p \in Process : toSlave[p] = <<>> /\ toMaster[p] = <<>>
  BY DEF Init
<1>4. TokenInv
  <2>1. StreamInv
    BY <1>3 DEF StreamInv
  <2>2. ASSUME NEW c \in Chid, NEW k \in Slot PROVE RowInv(c, k)
    <3>1. ProcOf[c] \in Process
      BY AudioAssumption
    <3>2. toSlave[ProcOf[c]] = <<>> /\ toMaster[ProcOf[c]] = <<>>
      BY <1>3, <3>1
    <3>3. ~slot[c][k].inuse
      BY <1>2 DEF Silent
    <3>4. \A tag : ~Holds(<<>>, tag, c, k) /\ Once(<<>>, tag, c, k)
                     /\ \A n : Whose(<<>>, tag, c, k, n)
      BY DEF Holds, Once, Whose
    <3> QED
      BY <3>2, <3>3, <3>4 DEF RowInv
  <2> QED
    BY <2>1, <2>2 DEF TokenInv
<1>5. IdInv
  BY <1>2 DEF Init, IdInv, IdsAgree, Unused
<1>6. WaitInv /\ FinishedWakes
  <2>1. \A c, k : Waiters(c, k) = {}
    BY DEF Init, Waiters
  <2>2. \A t \in Thread : at[t] = "out"
    BY DEF Init
  <2>3. \A c \in Chid, k \in Slot : Cardinality(Waiters(c, k)) <= tab[c][k].waiting
    BY <1>2, <2>1, FS_EmptySet DEF Unused
  <2> QED
    BY <2>2, <2>3 DEF WaitInv, WaitedForKept, FinishedWakes
<1> QED
  BY <1>1, <1>4, <1>5, <1>6 DEF IInv

\* Steps that leave the master's tables and its threads alone.
LEMMA TablesAlone ==
    ASSUME IInv, UNCHANGED <<tab, instmap, held, at, wait>>
    PROVE  IdInv' /\ WaitInv' /\ FinishedWakes'
<1>1. IdInv'
  BY IdsKept DEF IInv
<1>2. WaitInv'
  BY WaitKept DEF IInv
<1>3. FinishedWakes'
  BY WakesKept DEF IInv
<1> QED
  BY <1>1, <1>2, <1>3

\* Steps that leave the rows on both sides and what is between them alone.
LEMMA RowsAlone ==
    ASSUME IInv, UNCHANGED <<slot, toSlave, toMaster>>,
           \A c \in Chid, k \in Slot :
               \/ /\ tab'[c][k].inuse = tab[c][k].inuse /\ tab'[c][k].who = tab[c][k].who
                  /\ tab'[c][k].c1 = tab[c][k].c1
               \/ ~tab[c][k].inuse \/ tab[c][k].c1
    PROVE  TokenInv'
<1>1. StreamInv'
  BY DEF IInv, TokenInv, StreamInv
<1>2. ASSUME NEW c \in Chid, NEW k \in Slot PROVE RowInv(c, k)'
  <2>1. RowInv(c, k)
    BY DEF IInv, TokenInv
  <2> QED
    BY <2>1, RowKept, FewerSame
<1> QED
  BY <1>1, <1>2 DEF TokenInv

LEMMA ConnectStep == IInv /\ veMPAudioRun => IInv'
<1> SUFFICES ASSUME IInv, veMPAudioRun PROVE IInv'
  OBVIOUS
<1> DEFINE m == Message("CHANNEL", connected, 0, 0, 0)
<1>1. TypeOK /\ TokenInv /\ connected \in Chid /\ connected + 1 \in 0 .. NChannels
  <2>1. connected \in 0 .. NChannels /\ connected < NChannels /\ NChannels \in Nat
    BY AudioAssumption DEF IInv, TypeOK, veMPAudioRun
  <2> QED
    BY <2>1 DEF IInv, Chid
<1>2. m \in Messages /\ m.tag = "CHANNEL"
  BY <1>1, MessageFacts, Typed
<1>3. Send(m) /\ UNCHANGED toMaster
  BY DEF veMPAudioRun
<1> HIDE DEF m
<1>4. StreamInv' /\ toSlave' \in [Process -> Seq(Messages)]
  BY <1>1, <1>2, <1>3, SendStream DEF TokenInv
<1>5. TypeOK'
  BY <1>1, <1>4 DEF TypeOK, veMPAudioRun, slaveVars
<1>6. ASSUME NEW c \in Chid, NEW k \in Slot PROVE RowInv(c, k)'
  <2>1. Fewer(toSlave[ProcOf[c]], toSlave'[ProcOf[c]], "NEW", c, k)
    BY <1>1, <1>2, <1>3, AppendFewer DEF About
  <2>2. RowInv(c, k)
    BY <1>1 DEF TokenInv
  <2> QED
    BY <2>1, <2>2, RowKept, FewerSame DEF veMPAudioRun, slaveVars
<1>7. IdInv' /\ WaitInv' /\ FinishedWakes'
  BY TablesAlone DEF veMPAudioRun
<1> QED
  BY <1>4, <1>5, <1>6, <1>7 DEF IInv, TokenInv

LEMMA UpdateStep ==
    ASSUME IInv, NEW i \in Id, NEW loop \in Loops, veAudioUpdate(i, loop)
    PROVE  IInv'
<1>1. TypeOK /\ IdInv /\ loop \in Int
  BY AudioAssumption DEF IInv
<1>2. instmap[i].chid \in Chid /\ instmap[i].itid \in Slot /\ find_inst(i).who \in Nat
  BY <1>1, Typed DEF IdInv, IdsAgree, veAudioUpdate, find_inst, Rows
<1>3. updates' \subseteq Messages
  BY <1>1, <1>2, MessageFacts DEF veAudioUpdate, TypeOK
<1>4. TypeOK'
  BY <1>1, <1>3, AudioAssumption DEF TypeOK, veAudioUpdate, slaveVars
<1>5. TokenInv'
  BY RowsAlone DEF veAudioUpdate, slaveVars
<1>6. IdInv' /\ WaitInv' /\ FinishedWakes'
  BY TablesAlone DEF veAudioUpdate
<1> QED
  BY <1>4, <1>5, <1>6 DEF IInv

\* Steps that only say how far a thread is with its waiting.
LEMMA WaitDoneStep ==
    ASSUME IInv, NEW t \in Thread, NEW i \in Id, WaitDone(t, i)
    PROVE  IInv'
<1>1. TypeOK'
  BY DEF IInv, TypeOK, WaitDone, slaveVars, netVars
<1>2. TokenInv'
  BY RowsAlone DEF WaitDone, slaveVars, netVars
<1>3. IdInv' /\ WaitInv' /\ FinishedWakes'
  BY TablesAlone DEF WaitDone
<1> QED
  BY <1>1, <1>2, <1>3 DEF IInv

LEMMA SpuriousStep ==
    ASSUME IInv, NEW t \in Thread, SpuriousWakeup(t)
    PROVE  IInv'
<1>1. TypeOK'
  BY DEF IInv, TypeOK, SpuriousWakeup, slaveVars, netVars
<1>2. TokenInv'
  BY RowsAlone DEF SpuriousWakeup, slaveVars, netVars
<1>3. IdInv'
  BY IdsKept DEF SpuriousWakeup, IInv
<1>4. \A s \in Thread : at'[s] # "out" => at[s] # "out"
  BY DEF SpuriousWakeup, IInv, TypeOK
<1>5. WaitInv'
  BY <1>4, WaitKept DEF SpuriousWakeup, IInv
<1>6. \A s \in Thread : at'[s] = "asleep" => at[s] = "asleep"
  BY DEF SpuriousWakeup, IInv, TypeOK
<1>7. FinishedWakes'
  BY <1>6, WakesKept DEF SpuriousWakeup, IInv
<1> QED
  BY <1>1, <1>2, <1>3, <1>5, <1>7 DEF IInv

LEMMA SleepAgainStep ==
    ASSUME IInv, NEW t \in Thread, SleepAgain(t)
    PROVE  IInv'
<1>1. TypeOK'
  BY DEF IInv, TypeOK, SleepAgain, slaveVars, netVars
<1>2. TokenInv'
  BY RowsAlone DEF SleepAgain, slaveVars, netVars
<1>3. IdInv'
  BY IdsKept DEF SleepAgain, IInv
<1>4. \A s \in Thread : at'[s] # "out" => at[s] # "out"
  BY DEF SleepAgain, IInv, TypeOK
<1>5. WaitInv'
  BY <1>4, WaitKept DEF SleepAgain, IInv
<1>6. FinishedWakes'
  BY DEF SleepAgain, IInv, TypeOK, FinishedWakes
<1> QED
  BY <1>1, <1>2, <1>3, <1>5, <1>6 DEF IInv

LEMMA ReturnStaleStep ==
    ASSUME IInv, NEW t \in Thread, WaitReturnsStale(t)
    PROVE  IInv'
<1>1. /\ at' = [at EXCEPT ![t] = "out"] /\ wait' = [wait EXCEPT ![t] = Nowhere]
      /\ UNCHANGED <<tab, instmap, held, slot, toSlave, toMaster>>
  BY DEF WaitReturnsStale, Return, slaveVars, netVars
<1>2. TypeOK'
  BY DEF IInv, TypeOK, WaitReturnsStale, Return, Nowhere, slaveVars, netVars
<1>3. TokenInv'
  BY <1>1, RowsAlone
<1>4. IdInv'
  BY <1>1, IdsKept DEF IInv
<1>5. \A s \in Thread : at'[s] # "out" => at'[s] = at[s] /\ wait'[s] = wait[s]
  BY <1>1 DEF IInv, TypeOK
<1>6. WaitInv'
  BY <1>1, <1>5, WaitKept DEF IInv
<1>7. FinishedWakes'
  BY <1>1, <1>5, WakesKept DEF IInv
<1> QED
  BY <1>2, <1>3, <1>4, <1>6, <1>7 DEF IInv

\* The row of an id that the application holds.
LEMMA HeldRow ==
    ASSUME TypeOK, IdInv, NEW i \in held
    PROVE  /\ i \in Id /\ instmap[i].chid \in Chid /\ instmap[i].itid \in Slot
           /\ find_inst(i) = tab[instmap[i].chid][instmap[i].itid]
           /\ find_inst(i) \in Rows /\ find_inst(i).inuse /\ find_inst(i).id = i
           /\ ~find_inst(i).c0
<1>1. i \in Id /\ instmap[i] # NoInst
  BY DEF TypeOK, IdInv, IdsAgree
<1>2. instmap[i].chid \in Chid /\ instmap[i].itid \in Slot
  BY <1>1 DEF IdInv
<1> QED
  BY <1>1, <1>2, Typed DEF IdInv, IdsAgree, find_inst

LEMMA CleanStep ==
    ASSUME IInv, NEW i \in Id, veAudioClean(i)
    PROVE  IInv'
<1> DEFINE c == instmap[i].chid  k == instmap[i].itid  r == [find_inst(i) EXCEPT !.c0 = TRUE]
<1>1. /\ i \in held /\ cleanup_check(c, k, r) /\ held' = held \ {i}
      /\ UNCHANGED <<mutex, connected, spc, at, wait, nInst, nUpdates, slaveVars, netVars>>
  BY DEF veAudioClean, AppCleans
<1>2. TypeOK /\ IdInv /\ WaitInv /\ FinishedWakes /\ c \in Chid /\ k \in Slot
  BY <1>1, HeldRow DEF IInv
<1>3. /\ Changed(c, k, r) /\ r.id = i /\ r.c1 = tab[c][k].c1
      /\ r.waiting = tab[c][k].waiting
  BY <1>1, <1>2, HeldRow DEF Changed, Rows
<1> HIDE DEF c, k, r
<1>4. tab' \in Tables /\ instmap' \in Maps
  BY <1>1, <1>2, <1>3, CleanupFacts
<1>5. TypeOK'
  BY <1>1, <1>2, <1>4 DEF TypeOK, Tables, Rows, Maps, slaveVars, netVars
<1>6. TokenInv'
  BY <1>1, <1>2, <1>3, CleanupRows, RowsAlone DEF slaveVars, netVars
<1>7. IdInv'
  BY <1>1, <1>2, <1>3, CleanupIds
<1>8. WaitInv'
  BY <1>1, <1>2, <1>3, CleanupWaits, WaitKept
<1>9. FinishedWakes'
  BY <1>1, <1>2, <1>3, CleanupRows, WakesKept
<1> QED
  BY <1>5, <1>6, <1>7, <1>8, <1>9 DEF IInv

\* What veAudioStop sends concerns no M_NEW and no M_CLEAN.
LEMMA StopSent ==
    ASSUME IInv, NEW c \in Chid, NEW k \in Slot, NEW n \in Nat,
           Send(Message("STOP", c, k, 0, n)), UNCHANGED <<slot, toMaster>>,
           \A d \in Chid, j \in Slot :
               \/ /\ tab'[d][j].inuse = tab[d][j].inuse /\ tab'[d][j].who = tab[d][j].who
                  /\ tab'[d][j].c1 = tab[d][j].c1
               \/ ~tab[d][j].inuse \/ tab[d][j].c1
    PROVE  TokenInv' /\ toSlave' \in [Process -> Seq(Messages)]
<1> DEFINE m == Message("STOP", c, k, 0, n)
<1>1. m \in Messages /\ m.tag = "STOP"
  BY MessageFacts
<1>2. Send(m) /\ TypeOK /\ TokenInv
  BY DEF IInv
<1> HIDE DEF m
<1>3. StreamInv' /\ toSlave' \in [Process -> Seq(Messages)]
  BY <1>1, <1>2, SendStream DEF TokenInv
<1>4. ASSUME NEW d \in Chid, NEW j \in Slot PROVE RowInv(d, j)'
  <2>1. Fewer(toSlave[ProcOf[d]], toSlave'[ProcOf[d]], "NEW", d, j)
    BY <1>1, <1>2, AppendFewer DEF About
  <2>2. RowInv(d, j)
    BY <1>2 DEF TokenInv
  <2> QED
    BY <2>1, <2>2, RowKept, FewerSame
<1> QED
  BY <1>3, <1>4 DEF TokenInv

LEMMA StopStep ==
    ASSUME IInv, NEW i \in Id, NEW clean \in BOOLEAN, veAudioStop(i, clean)
    PROVE  IInv'
<1> DEFINE c == instmap[i].chid  k == instmap[i].itid  r == [find_inst(i) EXCEPT !.stopped = TRUE]
           s == [r EXCEPT !.c0 = TRUE]
<1>1. /\ i \in held /\ Send(Message("STOP", c, k, 0, r.who))
      /\ \/ held' = held \ {i} /\ cleanup_check(c, k, s)
         \/ tab' = [tab EXCEPT ![c][k] = r] /\ UNCHANGED <<held, instmap>>
      /\ UNCHANGED <<mutex, connected, spc, at, wait, nInst, nUpdates, slaveVars, toMaster, updates>>
  BY DEF veAudioStop
<1>2. TypeOK /\ IdInv /\ WaitInv /\ FinishedWakes /\ c \in Chid /\ k \in Slot
  BY <1>1, HeldRow DEF IInv
<1>3. /\ Changed(c, k, s) /\ s.id = i /\ s.c1 = tab[c][k].c1 /\ s.waiting = tab[c][k].waiting
      /\ r \in Rows /\ r.inuse = tab[c][k].inuse /\ r.id = tab[c][k].id /\ r.c0 = tab[c][k].c0
      /\ r.c1 = tab[c][k].c1 /\ r.waiting = tab[c][k].waiting /\ r.who = tab[c][k].who
  <2>1. find_inst(i) = tab[c][k] /\ tab[c][k] \in Rows /\ tab[c][k].inuse /\ tab[c][k].id = i
    BY <1>1, <1>2, HeldRow
  <2>2. /\ r \in Rows /\ r.inuse = tab[c][k].inuse /\ r.id = tab[c][k].id /\ r.c0 = tab[c][k].c0
        /\ r.c1 = tab[c][k].c1 /\ r.waiting = tab[c][k].waiting /\ r.who = tab[c][k].who
    <3>1. r = [tab[c][k] EXCEPT !.stopped = TRUE]
      BY <2>1
    <3> HIDE DEF c, k, r
    <3> QED
      BY <2>1, <3>1, RowEdits
  <2> HIDE DEF r
  <2>3. /\ s \in Rows /\ s.inuse = r.inuse /\ s.id = r.id
        /\ s.c1 = r.c1 /\ s.waiting = r.waiting /\ s.who = r.who
    BY <2>2, RowEdits
  <2> QED
    BY <2>1, <2>2, <2>3 DEF Changed
<1>4. r.who \in Nat
  BY <1>3 DEF Rows
<1> HIDE DEF c, k, r, s
<1>5. CASE held' = held \ {i} /\ cleanup_check(c, k, s)
  <2>1. tab' \in Tables /\ instmap' \in Maps
    BY <1>2, <1>3, <1>5, CleanupFacts
  <2>2. TokenInv' /\ toSlave' \in [Process -> Seq(Messages)]
    BY <1>1, <1>2, <1>3, <1>4, <1>5, CleanupRows, StopSent DEF slaveVars
  <2>3. TypeOK'
    BY <1>1, <1>2, <1>5, <2>1, <2>2 DEF TypeOK, Tables, Rows, Maps, slaveVars
  <2>4. IdInv'
    BY <1>2, <1>3, <1>5, CleanupIds
  <2>5. WaitInv'
    BY <1>1, <1>2, <1>3, <1>5, CleanupWaits, WaitKept
  <2>6. FinishedWakes'
    BY <1>1, <1>2, <1>3, <1>5, CleanupRows, WakesKept
  <2> QED
    BY <2>2, <2>3, <2>4, <2>5, <2>6 DEF IInv
<1>6. CASE tab' = [tab EXCEPT ![c][k] = r] /\ UNCHANGED <<held, instmap>>
  <2>1. /\ tab' \in Tables /\ tab'[c][k] = r
        /\ \A d \in Chid, j \in Slot : d # c \/ j # k => tab'[d][j] = tab[d][j]
    BY <1>2, <1>3, <1>6, SetRow, Typed DEF Tables
  <2>2. \A d \in Chid, j \in Slot :
          /\ tab'[d][j].inuse = tab[d][j].inuse /\ tab'[d][j].who = tab[d][j].who
          /\ tab'[d][j].c1 = tab[d][j].c1 /\ tab'[d][j].waiting = tab[d][j].waiting
          /\ tab'[d][j].id = tab[d][j].id /\ tab'[d][j].c0 = tab[d][j].c0
    BY <1>3, <2>1
  <2>3. TokenInv' /\ toSlave' \in [Process -> Seq(Messages)]
    BY <1>1, <1>2, <1>4, <2>2, StopSent DEF slaveVars
  <2>4. TypeOK'
    BY <1>1, <1>2, <1>6, <2>1, <2>3 DEF TypeOK, Tables, Rows, slaveVars
  <2>5. IdInv'
    BY <1>2, <1>6, <2>2, IdsKept
  <2>6. WaitInv'
    BY <1>1, <1>2, <2>2, WaitKept
  <2>7. FinishedWakes'
    BY <1>1, <1>2, <2>2, WakesKept
  <2> QED
    BY <2>3, <2>4, <2>5, <2>6, <2>7 DEF IInv
<1> QED
  BY <1>1, <1>5, <1>6

\* A thread falls asleep: one more that waits for the row, and it has not
\* been finished.
LEMMA WaitAsleepStep ==
    ASSUME IInv, NEW t \in Thread, NEW i \in Id, WaitAsleep(t, i)
    PROVE  IInv'
<1> DEFINE c == instmap[i].chid  k == instmap[i].itid
           r == [tab[c][k] EXCEPT !.waiting = @ + 1]
           w == [chid |-> c, itid |-> k, who |-> tab[c][k].who, stale |-> FALSE]
<1>1. /\ i \in held /\ at[t] = "out" /\ ~find_inst(i).c1
      /\ tab' = [tab EXCEPT ![c][k] = r] /\ wait' = [wait EXCEPT ![t] = w]
      /\ at' = [at EXCEPT ![t] = "asleep"]
      /\ UNCHANGED <<mutex, connected, spc, instmap, held, nInst, nUpdates, slaveVars, netVars>>
  BY DEF WaitAsleep
<1>2. TypeOK /\ IdInv /\ WaitInv /\ FinishedWakes /\ c \in Chid /\ k \in Slot
  BY <1>1, HeldRow DEF IInv
<1>3. tab[c][k] \in Rows /\ tab[c][k].inuse /\ ~tab[c][k].c1
  BY <1>1, <1>2, HeldRow
<1>4. /\ r \in Rows /\ r.inuse = tab[c][k].inuse /\ r.id = tab[c][k].id /\ r.c0 = tab[c][k].c0
      /\ r.c1 = tab[c][k].c1 /\ r.waiting = tab[c][k].waiting + 1 /\ r.who = tab[c][k].who
  BY <1>3, RowEdits
<1>5. w.chid = c /\ w.itid = k /\ w.who = tab[c][k].who /\ w.stale = FALSE /\ w.who \in Nat
  BY <1>3 DEF Rows
<1>6. w \in [chid : Chid \cup {-1}, itid : Slot \cup {-1}, who : Nat, stale : BOOLEAN]
  BY <1>2, <1>5
<1> HIDE DEF c, k, r, w
<1>7. /\ tab' \in Tables /\ tab'[c][k] = r
      /\ \A d \in Chid, j \in Slot : d # c \/ j # k => tab'[d][j] = tab[d][j]
  BY <1>1, <1>2, <1>4, SetRow, Typed DEF Tables
<1>8. \A d \in Chid, j \in Slot :
        /\ tab'[d][j].inuse = tab[d][j].inuse /\ tab'[d][j].who = tab[d][j].who
        /\ tab'[d][j].c1 = tab[d][j].c1
        /\ tab'[d][j].id = tab[d][j].id /\ tab'[d][j].c0 = tab[d][j].c0
  BY <1>4, <1>7
<1>9. /\ at'[t] = "asleep" /\ wait'[t] = w
      /\ \A s \in Thread : s # t => at'[s] = at[s] /\ wait'[s] = wait[s]
  BY <1>1, <1>2 DEF TypeOK
<1>10. TypeOK'
  BY <1>1, <1>2, <1>6, <1>7 DEF TypeOK, Tables, Rows, slaveVars, netVars
<1>11. TokenInv'
  BY <1>1, <1>8, RowsAlone DEF slaveVars, netVars
<1>12. IdInv'
  BY <1>1, <1>2, <1>8, IdsKept
<1>13. FinishedWakes'
  <2> SUFFICES ASSUME NEW s \in Thread, at'[s] = "asleep", ~wait'[s].stale
               PROVE  ~tab'[wait'[s].chid][wait'[s].itid].c1
    BY DEF FinishedWakes
  <2>1. CASE s = t
    BY <1>2, <1>3, <1>5, <1>8, <1>9, <2>1
  <2>2. CASE s # t
    <3>1. wait[s].chid \in Chid /\ wait[s].itid \in Slot /\ ~tab[wait[s].chid][wait[s].itid].c1
      BY <1>2, <1>9, <2>2 DEF WaitInv, FinishedWakes
    <3> QED
      BY <1>8, <1>9, <2>2, <3>1
  <2> QED
    BY <2>1, <2>2
<1>14. WaitInv'
  <2>1. ASSUME NEW s \in Thread, at'[s] # "out"
        PROVE  /\ wait'[s].chid \in Chid /\ wait'[s].itid \in Slot
               /\ tab'[wait'[s].chid][wait'[s].itid].inuse
               /\ tab'[wait'[s].chid][wait'[s].itid].who = wait'[s].who
    <3>1. CASE s = t
      BY <1>2, <1>3, <1>5, <1>8, <1>9, <3>1
    <3>2. CASE s # t
      <4>1. at[s] # "out" /\ wait'[s] = wait[s]
        BY <1>9, <2>1, <3>2
      <4>2. /\ wait[s].chid \in Chid /\ wait[s].itid \in Slot
            /\ tab[wait[s].chid][wait[s].itid].inuse
            /\ tab[wait[s].chid][wait[s].itid].who = wait[s].who
        BY <1>2, <4>1 DEF WaitInv, WaitedForKept
      <4> QED
        BY <1>8, <4>1, <4>2
    <3> QED
      BY <3>1, <3>2
  <2>2. ASSUME NEW d \in Chid, NEW j \in Slot
        PROVE  Cardinality(Waiters(d, j)') <= tab'[d][j].waiting
    <3>1. IsFiniteSet(Waiters(d, j)) /\ Cardinality(Waiters(d, j)) \in Nat
      BY <1>2, WaitersFacts
    <3>2. Cardinality(Waiters(d, j)) <= tab[d][j].waiting /\ tab[d][j].waiting \in Nat
      BY <1>2, Typed DEF WaitInv, Rows
    <3>3. CASE d = c /\ j = k
      <4>1. Waiters(d, j)' = Waiters(d, j) \cup {t} /\ t \notin Waiters(d, j)
        BY <1>1, <1>5, <1>9, <3>3 DEF Waiters
      <4>2. Cardinality(Waiters(d, j)') = Cardinality(Waiters(d, j)) + 1
        BY <3>1, <4>1, FS_AddElement
      <4> QED
        BY <1>4, <1>7, <3>1, <3>2, <3>3, <4>2
    <3>4. CASE d # c \/ j # k
      <4>1. Waiters(d, j)' = Waiters(d, j)
        BY <1>1, <1>5, <1>9, <3>4 DEF Waiters
      <4> QED
        BY <1>7, <3>2, <3>4, <4>1
    <3> QED
      BY <3>3, <3>4
  <2> QED
    BY <2>1, <2>2 DEF WaitInv, WaitedForKept
<1> QED
  BY <1>10, <1>11, <1>12, <1>13, <1>14 DEF IInv

\* A new instance gets a row that is not in use, so nothing of an earlier one
\* is left, and an id that stands for nothing.
LEMMA InstStep ==
    ASSUME IInv, NEW c \in Chid, NEW loop \in Loops, veAudioInst(c, loop)
    PROVE  IInv'
<1>1. PICK k \in get_itable_id(c), i \in get_inst_id :
        \E moved \in MayMove(c, k) :
        /\ tab' = [tab EXCEPT ![c][k] =
                     [Unused EXCEPT !.inuse = TRUE, !.id = i, !.who = nInst + 1]]
        /\ spc' = [spc EXCEPT ![c] = grow_itable(@, k)]
        /\ instmap' = [instmap EXCEPT ![i] = [chid |-> c, itid |-> k]]
        /\ held' = held \cup {i}
        /\ MoveTable(c, moved)
        /\ Send(Message("NEW", c, k, loop, nInst + 1))
  BY DEF veAudioInst
<1>2. PICK moved \in MayMove(c, k) : MoveTable(c, moved)
  BY <1>1
<1> DEFINE m == Message("NEW", c, k, loop, nInst + 1)
           r == [Unused EXCEPT !.inuse = TRUE, !.id = i, !.who = nInst + 1]
<1>3. TypeOK /\ TokenInv /\ IdInv /\ WaitInv /\ FinishedWakes
  BY DEF IInv
<1>4. k \in Slot /\ ~tab[c][k].inuse /\ i \in Id /\ instmap[i].chid < 0
  BY <1>1 DEF get_itable_id, get_inst_id
<1>5. nInst \in Nat /\ nInst + 1 \in Nat /\ nInst + 1 \in 0 .. MaxInst
  BY <1>3, AudioAssumption DEF TypeOK, veAudioInst
<1>6. /\ r \in Rows /\ r.inuse = TRUE /\ r.id = i /\ r.c0 = FALSE /\ r.c1 = FALSE
      /\ r.waiting = 0 /\ r.who = nInst + 1
  BY <1>4, <1>5 DEF Unused, Rows
<1>7. m \in Messages /\ m.tag = "NEW" /\ m.chid = c /\ m.itid = k /\ m.who = nInst + 1
  BY <1>4, <1>5, MessageFacts, AudioAssumption
<1>8. /\ tab' = [tab EXCEPT ![c][k] = r] /\ Send(m) /\ UNCHANGED <<at, slaveVars, toMaster>>
      /\ instmap' = [instmap EXCEPT ![i] = [chid |-> c, itid |-> k]] /\ held' = held \cup {i}
  BY <1>1 DEF veAudioInst
<1> HIDE DEF m, r
<1>9. /\ tab' \in Tables /\ tab'[c][k] = r
      /\ \A d \in Chid, j \in Slot : d # c \/ j # k => tab'[d][j] = tab[d][j]
  BY <1>3, <1>4, <1>6, <1>8, SetRow, Typed DEF Tables
<1>10. StreamInv' /\ toSlave' \in [Process -> Seq(Messages)]
  BY <1>3, <1>7, <1>8, SendStream DEF TokenInv
<1>11. moved \in BOOLEAN
  BY <1>2 DEF MayMove
<1>12. ASSUME NEW t \in Thread
       PROVE  /\ wait'[t] \in [chid : Chid \cup {-1}, itid : Slot \cup {-1}, who : Nat,
                               stale : BOOLEAN]
              /\ wait'[t].chid = wait[t].chid /\ wait'[t].itid = wait[t].itid
              /\ wait'[t].who = wait[t].who /\ (~wait'[t].stale => ~wait[t].stale)
  <2>1. wait[t] \in [chid : Chid \cup {-1}, itid : Slot \cup {-1}, who : Nat, stale : BOOLEAN]
    BY <1>3 DEF TypeOK
  <2>2. wait'[t] = [wait[t] EXCEPT !.stale = wait[t].stale \/ (moved /\ wait[t].chid = c)]
    BY <1>2 DEF MoveTable
  <2>3. wait[t].stale \/ (moved /\ wait[t].chid = c) \in BOOLEAN
    BY <1>11, <2>1
  <2> QED
    BY <2>1, <2>2
<1>13. wait' \in [Thread -> [chid : Chid \cup {-1}, itid : Slot \cup {-1}, who : Nat,
                             stale : BOOLEAN]]
  <2>1. wait' = [t \in Thread |-> wait'[t]]
    BY <1>2 DEF MoveTable
  <2> QED
    BY <1>12, <2>1
<1>14. spc' \in [Chid -> Nat]
  <2>1. spc[c] \in Nat /\ k \in Nat
    BY <1>3, <1>4, Typed DEF TypeOK
  <2>2. grow_itable(spc[c], k) \in Nat
    BY <2>1 DEF grow_itable
  <2> QED
    BY <1>1, <1>3, <2>2 DEF TypeOK
<1>15. instmap' \in Maps /\ held' \subseteq Id
  BY <1>3, <1>4, <1>8 DEF TypeOK, Maps
<1>16. TypeOK'
  BY <1>3, <1>5, <1>8, <1>9, <1>10, <1>13, <1>14, <1>15
     DEF TypeOK, Tables, Rows, Maps, veAudioInst, slaveVars
<1>17. ASSUME NEW d \in Chid, NEW j \in Slot PROVE RowInv(d, j)'
  <2>1. RowInv(d, j)
    BY <1>3 DEF TokenInv
  <2>2. CASE d = c /\ j = k
    <3>1. /\ ~Holds(toSlave[ProcOf[c]], "NEW", c, k) /\ ~Holds(toMaster[ProcOf[c]], "CLEAN", c, k)
          /\ ~slot[c][k].inuse
          /\ Once(toSlave[ProcOf[c]], "NEW", c, k) /\ Once(toMaster[ProcOf[c]], "CLEAN", c, k)
      BY <1>4, <2>1, <2>2 DEF RowInv
    <3>2. toSlave[ProcOf[c]] \in Seq(Messages) /\ toSlave'[ProcOf[c]] = Append(toSlave[ProcOf[c]], m)
      BY <1>3, <1>7, <1>8, Typed DEF Send, TypeOK
    <3>3. Once(toSlave'[ProcOf[c]], "NEW", c, k)
      BY <1>7, <3>1, <3>2, AppendFacts
    <3>4. Whose(toSlave'[ProcOf[c]], "NEW", c, k, nInst + 1)
      <4>1. Whose(toSlave[ProcOf[c]], "NEW", c, k, nInst + 1)
        BY <3>1 DEF Holds, Whose
      <4> DEFINE n == nInst + 1
      <4>2. Whose(toSlave[ProcOf[c]], "NEW", c, k, n) /\ m.who = n
        BY <1>7, <4>1
      <4> HIDE DEF n
      <4>3. Whose(toSlave'[ProcOf[c]], "NEW", c, k, n)
        BY <1>7, <3>2, <4>2, AppendWhose
      <4> QED
        BY <4>3 DEF n
    <3> QED
      BY <1>6, <1>8, <1>9, <2>2, <3>1, <3>3, <3>4 DEF RowInv, slaveVars
  <2>3. CASE d # c \/ j # k
    <3>1. Fewer(toSlave[ProcOf[d]], toSlave'[ProcOf[d]], "NEW", d, j)
      BY <1>3, <1>7, <1>8, <2>3, AppendFewer DEF About
    <3> QED
      BY <1>8, <1>9, <2>1, <2>3, <3>1, RowKept, FewerSame DEF slaveVars
  <2> QED
    BY <2>2, <2>3
<1>18. IdInv'
  <2>1. instmap[i] = NoInst /\ i \notin held
    <3>1. instmap[i] = NoInst
      BY <1>3, <1>4, Typed DEF IdInv
    <3> QED
      BY <1>3, <3>1 DEF IdInv, IdsAgree
  <2>2. /\ instmap'[i] = [chid |-> c, itid |-> k]
        /\ \A n \in Id : n # i => instmap'[n] = instmap[n]
    BY <1>3, <1>4, <1>8 DEF TypeOK
  <2>3. [chid |-> c, itid |-> k] # NoInst
    <3>1. c # -1
      BY Typed, <1>3
    <3> QED
      BY <3>1 DEF NoInst
  <2>4. \A n \in Id : n # i /\ instmap[n] # NoInst =>
          /\ instmap[n].chid \in Chid /\ instmap[n].itid \in Slot
          /\ instmap[n].chid # c \/ instmap[n].itid # k
    BY <1>3, <1>4 DEF IdInv, IdsAgree, find_inst
  <2>5. \A n \in Id : n # i /\ instmap[n] # NoInst => find_inst(n)' = find_inst(n)
    BY <1>9, <2>2, <2>4 DEF find_inst
  <2>6. find_inst(i)' = r
    BY <1>9, <2>2 DEF find_inst
  <2>7. \A n \in Id : instmap'[n] = NoInst
                        \/ (instmap'[n].chid \in Chid /\ instmap'[n].itid \in Slot)
    BY <1>3, <1>4, <2>2 DEF IdInv
  <2>8. \A n \in held' : instmap'[n] # NoInst /\ ~find_inst(n)'.c0
    <3> SUFFICES ASSUME NEW n \in held' PROVE instmap'[n] # NoInst /\ ~find_inst(n)'.c0
      OBVIOUS
    <3>1. CASE n = i
      BY <1>6, <2>2, <2>3, <2>6, <3>1
    <3>2. CASE n # i
      <4>1. n \in held /\ n \in Id
        BY <1>3, <1>8, <3>2 DEF TypeOK
      <4> QED
        BY <1>3, <2>2, <2>5, <3>2, <4>1 DEF IdInv, IdsAgree
    <3> QED
      BY <3>1, <3>2
  <2>9. \A n \in Id : instmap'[n] # NoInst => find_inst(n)'.inuse /\ find_inst(n)'.id = n
    BY <1>3, <1>6, <2>2, <2>5, <2>6 DEF IdInv, IdsAgree
  <2>10. ASSUME NEW d \in Chid, NEW j \in Slot, tab'[d][j].inuse
         PROVE  tab'[d][j].id \in Id /\ instmap'[tab'[d][j].id] = [chid |-> d, itid |-> j]
    <3>1. CASE d = c /\ j = k
      BY <1>4, <1>6, <1>9, <2>2, <3>1
    <3>2. CASE d # c \/ j # k
      <4>1. /\ tab[d][j].inuse /\ tab[d][j].id \in Id
            /\ instmap[tab[d][j].id] = [chid |-> d, itid |-> j]
        BY <1>3, <1>9, <2>10, <3>2 DEF IdInv, IdsAgree
      <4>2. [chid |-> d, itid |-> j] # NoInst
        <5>1. d # -1
          BY Typed, <1>3
        <5> QED
          BY <5>1 DEF NoInst
      <4>3. tab[d][j].id # i
        BY <2>1, <4>1, <4>2
      <4> QED
        BY <1>9, <2>2, <3>2, <4>1, <4>3
    <3> QED
      BY <3>1, <3>2
  <2> QED
    BY <2>7, <2>8, <2>9, <2>10 DEF IdInv, IdsAgree
<1>19. WaitInv'
  <2>1. Waiters(c, k) = {}
    BY <1>3, <1>4, WaitersFacts
  <2>2. \A d \in Chid, j \in Slot :
          \/ /\ tab'[d][j].inuse = tab[d][j].inuse /\ tab'[d][j].who = tab[d][j].who
             /\ tab'[d][j].waiting = tab[d][j].waiting
          \/ Waiters(d, j) = {} /\ tab'[d][j].waiting \in Nat
    BY <1>6, <1>9, <2>1
  <2> QED
    BY <1>3, <1>8, <1>12, <2>2, WaitKept
<1>20. FinishedWakes'
  <2>1. \A d \in Chid, j \in Slot : tab'[d][j].c1 => tab[d][j].c1
    BY <1>6, <1>9
  <2> QED
    BY <1>3, <1>8, <1>12, <2>1, WakesKept
<1> QED
  BY <1>10, <1>16, <1>17, <1>18, <1>19, <1>20 DEF IInv, TokenInv

\* A thread that has been woken takes itself off the row, and cleans it when it
\* is the last that was interested.
LEMMA WaitReturnsStep ==
    ASSUME IInv, NEW t \in Thread, WaitReturns(t)
    PROVE  IInv'
<1>1. PICK c \in Chid, k \in Slot : c = wait[t].chid /\ k = wait[t].itid
  BY DEF IInv, WaitInv, WaitReturns
<1> DEFINE r == [tab[c][k] EXCEPT !.waiting = @ - 1]
<1>2. /\ at[t] = "woken" /\ tab[c][k].c1 /\ cleanup_check(c, k, r)
      /\ at' = [at EXCEPT ![t] = "out"] /\ wait' = [wait EXCEPT ![t] = Nowhere]
      /\ mutex' = t
      /\ UNCHANGED <<connected, spc, held, nInst, nUpdates, slaveVars, netVars>>
  BY <1>1 DEF WaitReturns, Return
<1>3. TypeOK /\ TokenInv /\ IdInv /\ WaitInv /\ FinishedWakes
  BY DEF IInv
<1>4. tab[c][k].inuse /\ t \in Waiters(c, k)
  BY <1>1, <1>2, <1>3 DEF WaitInv, WaitedForKept, Waiters
<1>5. tab[c][k] \in Rows /\ tab[c][k].waiting >= 1
  BY <1>3, <1>4, WaitersFacts, Typed
<1>6. /\ Changed(c, k, r) /\ r.c1 = tab[c][k].c1 /\ r.waiting = tab[c][k].waiting - 1
      /\ r.id = tab[c][k].id /\ r.c0 = tab[c][k].c0
  <2>1. /\ r \in Rows /\ r.inuse = tab[c][k].inuse /\ r.id = tab[c][k].id /\ r.c0 = tab[c][k].c0
        /\ r.c1 = tab[c][k].c1 /\ r.waiting = tab[c][k].waiting - 1 /\ r.who = tab[c][k].who
    BY <1>5, RowEdits
  <2> HIDE DEF r
  <2> QED
    BY <1>4, <2>1 DEF Changed
<1> HIDE DEF r
<1>7. /\ tab' \in Tables /\ instmap' \in Maps
      /\ \A d \in Chid, j \in Slot : d # c \/ j # k => tab'[d][j] = tab[d][j]
      /\ \/ Reusable(r) /\ tab'[c][k] = Unused
         \/ ~Reusable(r) /\ tab'[c][k] = r
  BY <1>2, <1>3, <1>4, <1>6, CleanupFacts
<1>8. /\ at'[t] = "out"
      /\ \A s \in Thread : s # t => at'[s] = at[s] /\ wait'[s] = wait[s]
  BY <1>2, <1>3 DEF TypeOK
<1>9. TypeOK'
  BY <1>2, <1>3, <1>7 DEF TypeOK, Tables, Rows, Maps, Nowhere, slaveVars, netVars
<1>10. TokenInv'
  BY <1>2, <1>3, <1>4, <1>6, CleanupRows, RowsAlone DEF slaveVars, netVars
<1>11. IdInv'
  <2>1. r.c0 => r.id \notin held
    <3>1. instmap[r.id] = [chid |-> c, itid |-> k]
      BY <1>3, <1>4, <1>6 DEF IdInv, IdsAgree
    <3>2. find_inst(r.id) = tab[c][k]
      BY <3>1 DEF find_inst
    <3> QED
      BY <1>3, <1>6, <3>2 DEF IdInv, IdsAgree
  <2> QED
    BY <1>2, <1>3, <1>4, <1>6, <2>1, CleanupIds
<1>12. WaitInv'
  <2>1. \A d \in Chid, j \in Slot : IsFiniteSet(Waiters(d, j)) /\ Cardinality(Waiters(d, j)) \in Nat
    BY <1>3, WaitersFacts
  <2>2. /\ Waiters(c, k)' = Waiters(c, k) \ {t}
        /\ \A d \in Chid, j \in Slot : d # c \/ j # k => Waiters(d, j)' = Waiters(d, j)
    BY <1>1, <1>4, <1>8 DEF Waiters
  <2>3. Cardinality(Waiters(c, k) \ {t}) = Cardinality(Waiters(c, k)) - 1
    BY <1>3, <1>4, WaitersFacts
  <2>4. Cardinality(Waiters(c, k)) <= tab[c][k].waiting /\ tab[c][k].waiting \in Nat
    BY <1>3, <1>4, <1>5, RowEdits DEF WaitInv
  <2>5. tab'[c][k].waiting = tab[c][k].waiting - 1
    BY <1>6, <1>7 DEF Reusable, Unused
  <2>6. ASSUME NEW d \in Chid, NEW j \in Slot
        PROVE  Cardinality(Waiters(d, j)') <= tab'[d][j].waiting
    <3>1. CASE d = c /\ j = k
      <4>1. Cardinality(Waiters(d, j)') = Cardinality(Waiters(c, k)) - 1
        BY <2>2, <2>3, <3>1
      <4>2. tab'[d][j].waiting = tab[c][k].waiting - 1
        BY <2>5, <3>1
      <4> QED
        BY <2>1, <2>4, <4>1, <4>2
    <3>2. CASE d # c \/ j # k
      BY <1>3, <1>7, <2>2, <3>2 DEF WaitInv
    <3> QED
      BY <3>1, <3>2
  <2>7. ASSUME NEW s \in Thread, at'[s] # "out"
        PROVE  /\ wait'[s].chid \in Chid /\ wait'[s].itid \in Slot
               /\ tab'[wait'[s].chid][wait'[s].itid].inuse
               /\ tab'[wait'[s].chid][wait'[s].itid].who = wait'[s].who
    <3>1. s # t /\ at[s] # "out" /\ wait'[s] = wait[s]
      BY <1>8, <2>7
    <3>2. /\ wait[s].chid \in Chid /\ wait[s].itid \in Slot
          /\ tab[wait[s].chid][wait[s].itid].inuse
          /\ tab[wait[s].chid][wait[s].itid].who = wait[s].who
      BY <1>3, <3>1 DEF WaitInv, WaitedForKept
    <3>3. CASE wait[s].chid = c /\ wait[s].itid = k
      <4>1. s \in Waiters(c, k) \ {t}
        BY <3>1, <3>3 DEF Waiters
      <4>2. Cardinality(Waiters(c, k) \ {t}) \in Nat /\ Cardinality(Waiters(c, k) \ {t}) # 0
        <5>1. IsFiniteSet(Waiters(c, k) \ {t})
          BY <1>4, <2>1, FS_Subset
        <5> QED
          BY <4>1, <5>1, FS_CardinalityType, FS_EmptySet
      <4>3. ~Reusable(r)
        <5>1. Cardinality(Waiters(c, k)) \in Nat
          BY <2>1
        <5>2. tab[c][k].waiting - 1 # 0
          BY <2>3, <2>4, <4>2, <5>1
        <5> QED
          BY <1>6, <5>2 DEF Reusable
      <4>4. tab'[c][k] = r /\ r.inuse /\ r.who = tab[c][k].who
        BY <1>6, <1>7, <4>3 DEF Changed
      <4> QED
        BY <3>1, <3>2, <3>3, <4>4
    <3>4. CASE wait[s].chid # c \/ wait[s].itid # k
      BY <1>7, <3>1, <3>2, <3>4
    <3> QED
      BY <3>3, <3>4
  <2> QED
    BY <2>6, <2>7 DEF WaitInv, WaitedForKept
<1>13. FinishedWakes'
  <2>1. \A s \in Thread : at'[s] = "asleep" => at[s] = "asleep" /\ wait'[s] = wait[s]
    BY <1>8
  <2> QED
    BY <1>2, <1>3, <1>4, <1>6, <2>1, CleanupRows, WakesKept
<1> QED
  BY <1>9, <1>10, <1>11, <1>12, <1>13 DEF IInv

\* The master learns that an instance is finished.  The message is the only
\* trace of the instance, so its row is in use; all who wait for it are woken.
LEMMA CleanArrivesStep ==
    ASSUME IInv, NEW p \in Process, master_audio_cback(p)
    PROVE  IInv'
<1>1. TypeOK /\ TokenInv /\ StreamInv /\ IdInv /\ WaitInv /\ FinishedWakes
  BY DEF IInv, TokenInv
<1>2. /\ toMaster[p] # <<>> /\ toMaster' = [toMaster EXCEPT ![p] = Tail(@)]
      /\ UNCHANGED <<mutex, connected, spc, held, wait, nInst, nUpdates, slaveVars, toSlave, updates>>
  BY DEF master_audio_cback
<1>3. /\ StreamInv' /\ toMaster' \in [Process -> Seq(Messages)]
      /\ Head(toMaster[p]) \in Messages /\ ProcOf[Head(toMaster[p]).chid] = p
      /\ Head(toMaster[p]).tag = "CLEAN"
      /\ \A d \in Chid, j \in Slot : \A tag :
            Fewer(toMaster[ProcOf[d]], toMaster'[ProcOf[d]], tag, d, j)
  BY <1>1, <1>2, TakeClean
<1>4. PICK c \in Chid, k \in Slot : c = Head(toMaster[p]).chid /\ k = Head(toMaster[p]).itid
  BY <1>3 DEF Messages
<1>5. /\ toMaster[p] \in Seq(Messages) /\ toMaster'[p] = Tail(toMaster[p]) /\ ProcOf[c] = p
      /\ About(Head(toMaster[p]), "CLEAN", c, k) /\ RowInv(c, k)
  BY <1>1, <1>2, <1>3, <1>4 DEF About, TypeOK, TokenInv
<1>6. /\ tab[c][k].inuse /\ ~tab[c][k].c1 /\ ~slot[c][k].inuse
      /\ ~Holds(toSlave[ProcOf[c]], "NEW", c, k)
      /\ ~Holds(toMaster'[ProcOf[c]], "CLEAN", c, k)
  BY <1>2, <1>5, TailFacts DEF RowInv
<1> DEFINE r == [tab[c][k] EXCEPT !.c1 = TRUE]
<1>7. /\ cleanup_check(c, k, r)
      /\ at' = [t \in Thread |-> IF at[t] = "asleep" /\ wait[t].chid = c /\ wait[t].itid = k
                                 THEN "woken" ELSE at[t]]
  BY <1>4, <1>6 DEF master_audio_cback
<1>8. /\ Changed(c, k, r) /\ r.c1 = TRUE /\ r.waiting = tab[c][k].waiting
      /\ r.id = tab[c][k].id /\ r.c0 = tab[c][k].c0
  <2>1. tab[c][k] \in Rows
    BY <1>1, Typed
  <2>2. /\ r \in Rows /\ r.inuse = tab[c][k].inuse /\ r.id = tab[c][k].id /\ r.c0 = tab[c][k].c0
        /\ r.c1 = TRUE /\ r.waiting = tab[c][k].waiting /\ r.who = tab[c][k].who
    BY <2>1, RowEdits
  <2> HIDE DEF r
  <2> QED
    BY <1>6, <2>2 DEF Changed
<1> HIDE DEF r
<1>9. /\ tab' \in Tables /\ instmap' \in Maps
      /\ \A d \in Chid, j \in Slot : d # c \/ j # k => tab'[d][j] = tab[d][j]
  BY <1>1, <1>7, <1>8, CleanupFacts
<1>10. TypeOK'
  BY <1>1, <1>2, <1>3, <1>7, <1>9 DEF TypeOK, Tables, Rows, Maps, slaveVars
<1>11. TokenInv'
  <2>1. ASSUME NEW d \in Chid, NEW j \in Slot PROVE RowInv(d, j)'
    <3>1. RowInv(d, j) /\ Fewer(toMaster[ProcOf[d]], toMaster'[ProcOf[d]], "CLEAN", d, j)
      BY <1>1, <1>3 DEF TokenInv
    <3>2. CASE d = c /\ j = k
      <4>1. Once(toMaster'[ProcOf[c]], "CLEAN", c, k) /\ Once(toSlave[ProcOf[c]], "NEW", c, k)
        BY <3>1, <3>2 DEF Fewer, RowInv
      <4>2. Whose(toSlave[ProcOf[c]], "NEW", c, k, tab'[c][k].who)
        BY <1>6 DEF Holds, Whose
      <4> QED
        BY <1>2, <1>6, <3>2, <4>1, <4>2 DEF RowInv, slaveVars
    <3>3. CASE d # c \/ j # k
      BY <1>2, <1>9, <3>1, <3>3, RowKept, FewerSame DEF slaveVars
    <3> QED
      BY <3>2, <3>3
  <2> QED
    BY <1>3, <2>1 DEF TokenInv
<1>12. IdInv'
  <2>1. r.c0 => r.id \notin held
    <3>1. instmap[r.id] = [chid |-> c, itid |-> k]
      BY <1>1, <1>6, <1>8 DEF IdInv, IdsAgree
    <3>2. find_inst(r.id) = tab[c][k]
      BY <3>1 DEF find_inst
    <3> QED
      BY <1>1, <1>8, <3>2 DEF IdInv, IdsAgree
  <2> QED
    BY <1>1, <1>2, <1>7, <1>8, <2>1, CleanupIds
<1>13. \A t \in Thread : at'[t] # "out" => at[t] # "out"
  BY <1>7
<1>14. WaitInv'
  BY <1>1, <1>2, <1>7, <1>8, <1>13, CleanupWaits, WaitKept
<1>15. FinishedWakes'
  <2>1. \A t \in Thread : at'[t] = "asleep" =>
          at[t] = "asleep" /\ ~(wait[t].chid = c /\ wait[t].itid = k)
    BY <1>7
  <2>2. \A d \in Chid, j \in Slot : tab'[d][j].c1 => tab[d][j].c1 \/ (d = c /\ j = k)
    BY <1>9
  <2> QED
    BY <1>1, <1>2, <2>1, <2>2, WakesKept
<1> QED
  BY <1>10, <1>11, <1>12, <1>14, <1>15 DEF IInv

-----------------------------------------------------------------------------
(* The slaves.                                                              *)

\* A message that is taken and leaves the rows as they are.
LEMMA Taken ==
    ASSUME IInv, NEW p \in Process, toSlave[p] # <<>>,
           toSlave' = [toSlave EXCEPT ![p] = Tail(@)], UNCHANGED <<masterVars, toMaster>>,
           \A c \in Chid, k \in Slot :
               slot'[c][k].inuse => slot[c][k].inuse /\ slot'[c][k].who = slot[c][k].who
    PROVE  TokenInv' /\ toSlave' \in [Process -> Seq(Messages)]
<1>1. TypeOK /\ StreamInv /\ TokenInv
  BY DEF IInv, TokenInv
<1>2. /\ StreamInv' /\ toSlave' \in [Process -> Seq(Messages)]
      /\ \A c \in Chid, k \in Slot : \A tag :
            Fewer(toSlave[ProcOf[c]], toSlave'[ProcOf[c]], tag, c, k)
  BY <1>1, TakeStream
<1>3. ASSUME NEW c \in Chid, NEW k \in Slot PROVE RowInv(c, k)'
  <2>1. RowInv(c, k) /\ Fewer(toSlave[ProcOf[c]], toSlave'[ProcOf[c]], "NEW", c, k)
    BY <1>1, <1>2 DEF TokenInv
  <2> QED
    BY <2>1, RowKept, FewerSame DEF masterVars
<1> QED
  BY <1>2, <1>3 DEF TokenInv

LEMMA ReceivedIsMessage ==
    ASSUME IInv, NEW p \in Process, NEW tag, Receives(p, tag)
    PROVE  /\ toSlave[p] # <<>> /\ toSlave' = [toSlave EXCEPT ![p] = Tail(@)]
           /\ UNCHANGED <<masterVars, toMaster, updates>>
           /\ Head(toSlave[p]) \in Messages /\ Head(toSlave[p]).tag = tag
           /\ toSlave[p] \in Seq(Messages) /\ toSlave'[p] = Tail(toSlave[p])
           /\ ProcOf[Head(toSlave[p]).chid] = p
           /\ TypeOK /\ TokenInv /\ StreamInv
<1>1. TypeOK /\ StreamInv /\ TokenInv
  BY DEF IInv, TokenInv
<1>2. /\ toSlave[p] # <<>> /\ toSlave' = [toSlave EXCEPT ![p] = Tail(@)]
      /\ UNCHANGED <<masterVars, toMaster, updates>> /\ Head(toSlave[p]).tag = tag
  BY DEF Receives
<1> QED
  BY <1>1, <1>2, TakeStream DEF TypeOK

LEMMA SlaveChannelStep ==
    ASSUME IInv, NEW p \in Process, SlaveChannel(p)
    PROVE  IInv'
<1>1. /\ toSlave[p] # <<>> /\ toSlave' = [toSlave EXCEPT ![p] = Tail(@)]
      /\ UNCHANGED <<masterVars, toMaster, updates>> /\ Head(toSlave[p]) \in Messages /\ TypeOK
  BY ReceivedIsMessage DEF SlaveChannel
<1>2. UNCHANGED <<alive, slot>>
  BY DEF SlaveChannel
<1>3. TokenInv' /\ toSlave' \in [Process -> Seq(Messages)]
  BY <1>1, <1>2, Taken
<1>4. PICK c \in Chid : c = Head(toSlave[p]).chid
  BY <1>1 DEF Messages
<1>5. /\ playing' = playing \cup {c} /\ nthrs' = [nthrs EXCEPT ![p] = nthrs_after(nthrs[p], c)]
  BY <1>4 DEF SlaveChannel
<1>6. nthrs_after(nthrs[p], c) \in 0 .. NChannels
  <2>1. nthrs[p] \in 0 .. NChannels /\ c \in 0 .. NChannels - 1 /\ NChannels \in Nat
    BY <1>1, AudioAssumption DEF TypeOK, Chid
  <2> QED
    BY <2>1 DEF nthrs_after
<1>7. TypeOK'
  BY <1>1, <1>2, <1>3, <1>5, <1>6 DEF TypeOK, masterVars
<1>8. IdInv' /\ WaitInv' /\ FinishedWakes'
  BY <1>1, TablesAlone DEF masterVars
<1> QED
  BY <1>3, <1>7, <1>8 DEF IInv

\* The instance whose M_NEW is taken is played from now on.
LEMMA SlaveNewStep ==
    ASSUME IInv, NEW p \in Process, SlaveNew(p)
    PROVE  IInv'
<1>1. /\ toSlave[p] # <<>> /\ toSlave' = [toSlave EXCEPT ![p] = Tail(@)]
      /\ UNCHANGED <<masterVars, toMaster, updates>>
      /\ Head(toSlave[p]) \in Messages /\ Head(toSlave[p]).tag = "NEW"
      /\ toSlave[p] \in Seq(Messages) /\ toSlave'[p] = Tail(toSlave[p])
      /\ ProcOf[Head(toSlave[p]).chid] = p
      /\ TypeOK /\ TokenInv /\ StreamInv
  BY ReceivedIsMessage DEF SlaveNew
<1>2. IdInv' /\ WaitInv' /\ FinishedWakes'
  BY <1>1, TablesAlone DEF masterVars
<1>3. CASE GiveUp(p)
  <2>1. UNCHANGED <<nthrs, playing, slot>> /\ alive' = alive \ {p}
    BY <1>3 DEF GiveUp
  <2>2. TokenInv' /\ toSlave' \in [Process -> Seq(Messages)]
    BY <1>1, <2>1, Taken
  <2>3. TypeOK'
    BY <1>1, <2>1, <2>2 DEF TypeOK, masterVars
  <2> QED
    BY <1>2, <2>2, <2>3 DEF IInv
<1>4. CASE ~GiveUp(p)
  <2>1. PICK c \in Chid, k \in Slot : c = Head(toSlave[p]).chid /\ k = Head(toSlave[p]).itid
    BY <1>1 DEF Messages
  <2>2. PICK n \in Nat, l \in Int : n = Head(toSlave[p]).who /\ l = Head(toSlave[p]).loop
    BY <1>1 DEF Messages
  <2> DEFINE r == [inuse |-> TRUE, next |-> 0, loop |-> l, who |-> n]
  <2>3. slot' = [slot EXCEPT ![c][k] = r] /\ UNCHANGED <<alive, nthrs, playing>>
    BY <1>4, <2>1, <2>2 DEF SlaveNew
  <2>4. r \in Played /\ r.inuse = TRUE /\ r.who = n
    BY AudioAssumption DEF Played
  <2> HIDE DEF r
  <2>5. /\ slot' \in [Chid -> [Slot -> Played]] /\ slot'[c][k] = r
        /\ \A d \in Chid, j \in Slot : d # c \/ j # k => slot'[d][j] = slot[d][j]
    BY <1>1, <2>3, <2>4, SetRow, Typed
  <2>6. /\ StreamInv' /\ toSlave' \in [Process -> Seq(Messages)]
        /\ \A d \in Chid, j \in Slot : \A tag :
             Fewer(toSlave[ProcOf[d]], toSlave'[ProcOf[d]], tag, d, j)
    BY <1>1, TakeStream
  <2>7. TypeOK'
    BY <1>1, <2>3, <2>5, <2>6 DEF TypeOK, Played, masterVars
  <2>8. ASSUME NEW d \in Chid, NEW j \in Slot PROVE RowInv(d, j)'
    <3>1. RowInv(d, j) /\ Fewer(toSlave[ProcOf[d]], toSlave'[ProcOf[d]], "NEW", d, j)
      BY <1>1, <2>6 DEF TokenInv
    <3>2. CASE d = c /\ j = k
      <4>1. About(Head(toSlave[p]), "NEW", c, k) /\ ProcOf[c] = p
        BY <1>1, <2>1 DEF About
      <4>2. /\ Holds(toSlave[p], "NEW", c, k) /\ Once(toSlave[p], "NEW", c, k)
            /\ Whose(toSlave[p], "NEW", c, k, tab[c][k].who)
        BY <1>1, <3>1, <3>2, <4>1, TailFacts DEF RowInv
      <4>3. ~Holds(toSlave'[p], "NEW", c, k) /\ n = tab[c][k].who
        BY <1>1, <2>2, <4>1, <4>2, TailFacts
      <4>4. /\ tab[c][k].inuse /\ ~tab[c][k].c1
            /\ ~Holds(toMaster[p], "CLEAN", c, k) /\ Once(toMaster[p], "CLEAN", c, k)
        BY <3>1, <3>2, <4>1, <4>2 DEF RowInv
      <4>5. /\ Once(toSlave'[p], "NEW", c, k)
            /\ Whose(toSlave'[p], "NEW", c, k, tab[c][k].who)
        BY <3>1, <3>2, <4>1, <4>2 DEF Fewer
      <4> QED
        BY <1>1, <2>4, <2>5, <3>2, <4>1, <4>3, <4>4, <4>5 DEF RowInv, masterVars
    <3>3. CASE d # c \/ j # k
      BY <1>1, <2>5, <3>1, <3>3, RowKept, FewerSame DEF masterVars
    <3> QED
      BY <3>2, <3>3
  <2> QED
    BY <1>2, <2>6, <2>7, <2>8 DEF IInv, TokenInv
<1> QED
  BY <1>3, <1>4

\* A row of a slave whose instance stays the same.
LEMMA SameInstance ==
    ASSUME TypeOK, NEW c \in Chid, NEW k \in Slot, NEW r \in Played,
           r.inuse = slot[c][k].inuse, r.who = slot[c][k].who,
           slot' = [slot EXCEPT ![c][k] = r]
    PROVE  /\ slot' \in [Chid -> [Slot -> Played]]
           /\ \A d \in Chid, j \in Slot :
                slot'[d][j].inuse = slot[d][j].inuse /\ slot'[d][j].who = slot[d][j].who
<1>1. /\ slot' \in [Chid -> [Slot -> Played]] /\ slot'[c][k] = r
      /\ \A d \in Chid, j \in Slot : d # c \/ j # k => slot'[d][j] = slot[d][j]
  BY SetRow, Typed
<1> QED
  BY <1>1

LEMMA SlaveStopStep ==
    ASSUME IInv, NEW p \in Process, SlaveStop(p)
    PROVE  IInv'
<1>1. /\ toSlave[p] # <<>> /\ toSlave' = [toSlave EXCEPT ![p] = Tail(@)]
      /\ UNCHANGED <<masterVars, toMaster, updates>>
      /\ Head(toSlave[p]) \in Messages /\ TypeOK
  BY ReceivedIsMessage DEF SlaveStop
<1>2. IdInv' /\ WaitInv' /\ FinishedWakes'
  BY <1>1, TablesAlone DEF masterVars
<1>3. CASE GiveUp(p)
  <2>1. UNCHANGED <<nthrs, playing, slot>> /\ alive' = alive \ {p}
    BY <1>3 DEF GiveUp
  <2>2. TokenInv' /\ toSlave' \in [Process -> Seq(Messages)]
    BY <1>1, <2>1, Taken
  <2>3. TypeOK'
    BY <1>1, <2>1, <2>2 DEF TypeOK, masterVars
  <2> QED
    BY <1>2, <2>2, <2>3 DEF IInv
<1>4. CASE ~GiveUp(p)
  <2>1. PICK c \in Chid, k \in Slot : c = Head(toSlave[p]).chid /\ k = Head(toSlave[p]).itid
    BY <1>1 DEF Messages
  <2> DEFINE r == IF slot[c][k].inuse THEN [slot[c][k] EXCEPT !.next = -1] ELSE slot[c][k]
  <2>2. slot' = [slot EXCEPT ![c][k] = r] /\ UNCHANGED <<alive, nthrs, playing>>
    BY <1>4, <2>1 DEF SlaveStop
  <2>3. slot[c][k] \in Played
    BY <1>1, Typed
  <2>4. r \in Played /\ r.inuse = slot[c][k].inuse /\ r.who = slot[c][k].who
    BY <2>3, AudioAssumption DEF Played
  <2> HIDE DEF r
  <2>5. /\ slot' \in [Chid -> [Slot -> Played]]
        /\ \A d \in Chid, j \in Slot :
             slot'[d][j].inuse = slot[d][j].inuse /\ slot'[d][j].who = slot[d][j].who
    BY <1>1, <2>2, <2>4, SameInstance
  <2>6. TokenInv' /\ toSlave' \in [Process -> Seq(Messages)]
    BY <1>1, <2>5, Taken
  <2>7. TypeOK'
    BY <1>1, <2>2, <2>5, <2>6 DEF TypeOK, Played, masterVars
  <2> QED
    BY <1>2, <2>6, <2>7 DEF IInv
<1> QED
  BY <1>3, <1>4

LEMMA SlaveUpdateStep ==
    ASSUME IInv, NEW p \in Process, NEW m \in updates, SlaveUpdate(p, m)
    PROVE  IInv'
<1>1. TypeOK /\ TokenInv /\ m \in Messages /\ updates' \subseteq Messages
      /\ UNCHANGED <<masterVars, toSlave, toMaster>>
  BY DEF IInv, TypeOK, SlaveUpdate
<1>2. IdInv' /\ WaitInv' /\ FinishedWakes'
  BY <1>1, TablesAlone DEF masterVars
<1>3. ASSUME \A c \in Chid, k \in Slot :
                 slot'[c][k].inuse = slot[c][k].inuse /\ slot'[c][k].who = slot[c][k].who
      PROVE  TokenInv'
  <2>1. StreamInv'
    BY <1>1 DEF TokenInv, StreamInv
  <2>2. ASSUME NEW c \in Chid, NEW k \in Slot PROVE RowInv(c, k)'
    <3>1. RowInv(c, k)
      BY <1>1 DEF TokenInv
    <3> QED
      BY <1>1, <1>3, <3>1, RowKept, FewerSame DEF masterVars
  <2> QED
    BY <2>1, <2>2 DEF TokenInv
<1>4. CASE GiveUp(p)
  <2>1. UNCHANGED <<nthrs, playing, slot>> /\ alive' = alive \ {p}
    BY <1>4 DEF GiveUp
  <2>2. TypeOK'
    BY <1>1, <2>1 DEF TypeOK, masterVars
  <2> QED
    BY <1>2, <1>3, <2>1, <2>2 DEF IInv
<1>5. CASE ~GiveUp(p)
  <2>1. PICK c \in Chid, k \in Slot, l \in Int : c = m.chid /\ k = m.itid /\ l = m.loop
    BY <1>1 DEF Messages
  <2> DEFINE r == IF slot[c][k].inuse THEN [slot[c][k] EXCEPT !.loop = l] ELSE slot[c][k]
  <2>2. slot' = [slot EXCEPT ![c][k] = r] /\ UNCHANGED <<alive, nthrs, playing>>
    BY <1>5, <2>1 DEF SlaveUpdate
  <2>3. slot[c][k] \in Played
    BY <1>1, Typed
  <2>4. r \in Played /\ r.inuse = slot[c][k].inuse /\ r.who = slot[c][k].who
    BY <2>3 DEF Played
  <2> HIDE DEF r
  <2>5. /\ slot' \in [Chid -> [Slot -> Played]]
        /\ \A d \in Chid, j \in Slot :
             slot'[d][j].inuse = slot[d][j].inuse /\ slot'[d][j].who = slot[d][j].who
    BY <1>1, <2>2, <2>4, SameInstance
  <2>6. TypeOK'
    BY <1>1, <2>2, <2>5 DEF TypeOK, Played, masterVars
  <2> QED
    BY <1>2, <1>3, <2>5, <2>6 DEF IInv
<1> QED
  BY <1>4, <1>5

LEMMA LoseUpdateStep ==
    ASSUME IInv, NEW m \in updates, LoseUpdate(m)
    PROVE  IInv'
<1>1. TypeOK'
  BY DEF IInv, TypeOK, LoseUpdate, masterVars, slaveVars
<1>2. TokenInv'
  BY RowsAlone DEF LoseUpdate, masterVars, slaveVars
<1>3. IdInv' /\ WaitInv' /\ FinishedWakes'
  BY TablesAlone DEF LoseUpdate, masterVars
<1> QED
  BY <1>1, <1>2, <1>3 DEF IInv

\* A pass of a channel thread: a row it has finished is on its way to the
\* master, the others go on with the instance they have.
LEMMA ChannelStep ==
    ASSUME IInv, NEW c \in Chid, channel_thread(c)
    PROVE  IInv'
<1>1. TypeOK /\ TokenInv /\ StreamInv /\ UNCHANGED <<masterVars, alive, nthrs, playing, toSlave, updates>>
  BY DEF IInv, TokenInv, channel_thread
<1>2. PICK rows \in Ascending(Finished(c)) :
        toMaster' = [toMaster EXCEPT ![ProcOf[c]] = toMaster[ProcOf[c]] \o Cleaned(c, rows)]
  BY DEF channel_thread
<1>3. slot' = [slot EXCEPT ![c] = [k \in Slot |->
                  IF k \in Finished(c) THEN Silent
                  ELSE IF slot[c][k].inuse THEN Advance(slot[c][k]) ELSE slot[c][k]]]
  BY DEF channel_thread
<1> DEFINE q == toMaster[ProcOf[c]]  r == q \o Cleaned(c, rows)
<1>4. ProcOf[c] \in Process /\ q \in Seq(Messages)
  BY <1>1, Typed
<1>5. /\ r \in Seq(Messages)
      /\ \A i \in 1 .. Len(r) :
           (i \in 1 .. Len(q) /\ r[i] = q[i]) \/ (r[i].chid = c /\ r[i].tag = "CLEAN")
      /\ \A d \in Chid, k \in Slot :
           /\ Holds(r, "CLEAN", d, k) =>
               Holds(q, "CLEAN", d, k) \/ (d = c /\ k \in Finished(c))
           /\ Once(q, "CLEAN", d, k)
               /\ (d = c /\ k \in Finished(c) => ~Holds(q, "CLEAN", d, k)) =>
               Once(r, "CLEAN", d, k)
  BY <1>1, <1>4, CleanedFacts
<1> HIDE DEF r
<1>6. /\ toMaster' \in [Process -> Seq(Messages)] /\ toMaster'[ProcOf[c]] = r
      /\ \A p \in Process : p # ProcOf[c] => toMaster'[p] = toMaster[p]
  BY <1>1, <1>2, <1>4, <1>5 DEF TypeOK, r
<1>7. ASSUME NEW k \in Slot, slot[c][k].inuse, k \notin Finished(c)
      PROVE  /\ Advance(slot[c][k]) \in Played /\ Advance(slot[c][k]).inuse
             /\ Advance(slot[c][k]).who = slot[c][k].who
  <2>1. PICK x \in Played : x = slot[c][k]
    BY <1>1, Typed
  <2>2. x.inuse /\ ~AtEnd(x)
    BY <1>7, <2>1 DEF Finished
  <2>3. x.next \in -1 .. NFrames - 1 /\ x.next >= 0 /\ x.loop \in Int /\ NFrames \in Nat \ {0}
    BY <2>2, AudioAssumption DEF AtEnd, Played
  <2>4. CASE x.next + 1 < NFrames
    BY <2>2, <2>3, <2>4, <2>1 DEF Advance, Played
  <2>5. CASE ~(x.next + 1 < NFrames)
    <3> DEFINE l == IF x.loop > 0 THEN x.loop - 1 ELSE x.loop
               y == [x EXCEPT !.next = 0, !.loop = l]
    <3>1. Advance(x) = y
      BY <2>5 DEF Advance
    <3>2. l \in Int /\ 0 \in -1 .. NFrames - 1
      BY <2>3
    <3> HIDE DEF l
    <3>3. y \in Played /\ y.inuse = x.inuse /\ y.who = x.who
      BY <3>2 DEF Played
    <3> QED
      BY <2>1, <2>2, <3>1, <3>3
  <2> QED
    BY <2>4, <2>5
<1>8. ASSUME NEW k \in Slot
      PROVE  /\ slot'[c][k] \in Played
             /\ k \in Finished(c) => ~slot'[c][k].inuse
             /\ k \notin Finished(c) =>
                  slot'[c][k].inuse = slot[c][k].inuse /\ slot'[c][k].who = slot[c][k].who
  <2>1. slot'[c][k] = IF k \in Finished(c) THEN Silent
                      ELSE IF slot[c][k].inuse THEN Advance(slot[c][k]) ELSE slot[c][k]
    BY <1>1, <1>3 DEF TypeOK
  <2>2. Silent \in Played /\ ~Silent.inuse
    BY AudioAssumption DEF Silent, Played
  <2>3. slot[c][k] \in Played
    BY <1>1, Typed
  <2>4. CASE k \notin Finished(c) /\ slot[c][k].inuse
    <3>1. slot'[c][k] \in Played /\ slot'[c][k].inuse /\ slot'[c][k].who = slot[c][k].who
      BY <1>7, <2>1, <2>4
    <3>2. slot'[c][k].inuse = TRUE /\ slot[c][k].inuse = TRUE
      BY <2>3, <2>4, <3>1 DEF Played
    <3> QED
      BY <2>4, <3>1, <3>2
  <2> QED
    BY <2>1, <2>2, <2>3, <2>4
<1>9. \A d \in Chid : d # c => slot'[d] = slot[d]
  BY <1>1, <1>3 DEF TypeOK
<1>10. slot' \in [Chid -> [Slot -> Played]]
  <2>1. slot \in [Chid -> [Slot -> Played]]
    BY <1>1, Typed
  <2>2. slot'[c] \in [Slot -> Played]
    <3> DEFINE f == [k \in Slot |->
                  IF k \in Finished(c) THEN Silent
                  ELSE IF slot[c][k].inuse THEN Advance(slot[c][k]) ELSE slot[c][k]]
    <3>1. slot'[c] = f
      BY <1>3, <2>1
    <3>2. \A k \in Slot : f[k] \in Played
      BY <1>8, <3>1
    <3> QED
      BY <3>1, <3>2
  <2> QED
    BY <1>3, <2>1, <2>2
<1>11. TypeOK'
  BY <1>1, <1>6, <1>10 DEF TypeOK, Played, masterVars
<1>12. StreamInv'
  <2>1. ASSUME NEW p \in Process, NEW i \in 1 .. Len(toMaster'[p])
        PROVE  ProcOf[toMaster'[p][i].chid] = p /\ toMaster'[p][i].tag = "CLEAN"
    <3>1. CASE p = ProcOf[c]
      BY <1>1, <1>5, <1>6, <2>1, <3>1 DEF StreamInv
    <3>2. CASE p # ProcOf[c]
      BY <1>1, <1>6, <2>1, <3>2 DEF StreamInv
    <3> QED
      BY <3>1, <3>2
  <2> QED
    BY <1>1, <2>1 DEF StreamInv
<1>13. ASSUME NEW d \in Chid, NEW k \in Slot PROVE RowInv(d, k)'
  <2>1. RowInv(d, k) /\ ProcOf[d] \in Process
    BY <1>1, Typed DEF TokenInv
  <2>2. CASE d = c /\ k \in Finished(c)
    <3>1. slot[c][k].inuse
      BY <2>2 DEF Finished
    <3>2. /\ ~Holds(toSlave[ProcOf[c]], "NEW", c, k) /\ ~Holds(q, "CLEAN", c, k)
          /\ tab[c][k].inuse /\ ~tab[c][k].c1
          /\ Once(toSlave[ProcOf[c]], "NEW", c, k) /\ Once(q, "CLEAN", c, k)
          /\ Whose(toSlave[ProcOf[c]], "NEW", c, k, tab[c][k].who)
      BY <2>1, <2>2, <3>1 DEF RowInv
    <3>3. Once(r, "CLEAN", c, k)
      BY <1>5, <2>2, <3>2
    <3> QED
      BY <1>1, <1>6, <1>8, <2>2, <3>2, <3>3 DEF RowInv, masterVars
  <2>3. CASE ~(d = c /\ k \in Finished(c))
    <3>1. slot'[d][k].inuse = slot[d][k].inuse /\ slot'[d][k].who = slot[d][k].who
      BY <1>8, <1>9, <2>3
    <3>2. /\ Holds(toMaster'[ProcOf[d]], "CLEAN", d, k) => Holds(toMaster[ProcOf[d]], "CLEAN", d, k)
          /\ Once(toMaster[ProcOf[d]], "CLEAN", d, k) => Once(toMaster'[ProcOf[d]], "CLEAN", d, k)
      <4>1. CASE ProcOf[d] = ProcOf[c]
        BY <1>5, <1>6, <2>3, <4>1
      <4>2. CASE ProcOf[d] # ProcOf[c]
        BY <1>6, <2>1, <4>2
      <4> QED
        BY <4>1, <4>2
    <3> QED
      BY <1>1, <2>1, <3>1, <3>2 DEF RowInv, masterVars
  <2> QED
    BY <2>2, <2>3
<1>14. IdInv' /\ WaitInv' /\ FinishedWakes'
  BY <1>1, TablesAlone DEF masterVars
<1> QED
  BY <1>11, <1>12, <1>13, <1>14 DEF IInv, TokenInv

LEMMA WaitNextStep ==
    ASSUME IInv, NEW t \in Thread, WaitNext(t)
    PROVE  IInv'
BY WaitDoneStep, WaitAsleepStep, SpuriousStep, SleepAgainStep, WaitReturnsStep, ReturnStaleStep
   DEF WaitNext

LEMMA AppNextStep == IInv /\ AppNext => IInv'
BY InstStep, UpdateStep, CleanStep, StopStep, WaitNextStep DEF AppNext

LEMMA SlaveNextStep ==
    ASSUME IInv, NEW p \in Process, SlaveNext(p)
    PROVE  IInv'
BY SlaveChannelStep, SlaveNewStep, SlaveStopStep DEF SlaveNext

LEMMA StutterStep == IInv /\ UNCHANGED vars => IInv'
<1> SUFFICES ASSUME IInv, UNCHANGED vars PROVE IInv'
  OBVIOUS
<1>1. TypeOK'
  BY DEF IInv, TypeOK, vars, masterVars, slaveVars, netVars
<1>2. TokenInv'
  BY RowsAlone DEF vars, masterVars, slaveVars, netVars
<1>3. IdInv' /\ WaitInv' /\ FinishedWakes'
  BY TablesAlone DEF vars, masterVars
<1> QED
  BY <1>1, <1>2, <1>3 DEF IInv

LEMMA InvNext == IInv /\ [Next]_vars => IInv'
BY ConnectStep, AppNextStep, CleanArrivesStep, SlaveNextStep, SlaveUpdateStep, LoseUpdateStep,
   ChannelStep, StutterStep DEF Next

LEMMA Invariance == Spec => []IInv
BY InvInit, InvNext, PTL DEF Spec

-----------------------------------------------------------------------------
(* Theorems.                                                                *)

\* The tables of both sides, streams and threads keep their types.
THEOREM TypeCorrect == Spec => []TypeOK
<1>1. IInv => TypeOK
  BY DEF IInv
<1> QED
  BY <1>1, Invariance, PTL

\* What a slave plays in a row is the master's instance in that row, for any
\* channels, processes and threads, and whatever happens to M_UPDATE.
THEOREM RowsCorrect == Spec => []RowsAgree
<1>1. IInv => RowsAgree
  BY DEF IInv, TokenInv, RowInv, RowsAgree
<1> QED
  BY <1>1, Invariance, PTL

\* Ids and rows in use map to each other.
THEOREM IdsCorrect == Spec => []IdsAgree
<1>1. IInv => IdsAgree
  BY DEF IInv, IdInv
<1> QED
  BY <1>1, Invariance, PTL

\* The instance that a thread waits for is kept until the thread has left.
THEOREM WaitedCorrect == Spec => []WaitedForKept
<1>1. IInv => WaitedForKept
  BY DEF IInv, WaitInv
<1> QED
  BY <1>1, Invariance, PTL

\* No thread sleeps on for an instance that has finished.
THEOREM WakesCorrect == Spec => []FinishedWakes
<1>1. IInv => FinishedWakes
  BY DEF IInv
<1> QED
  BY <1>1, Invariance, PTL

-----------------------------------------------------------------------------
(* Why a slave gives up.                                                    *)

Connects(m, c) == m.tag = "CHANNEL" /\ m.chid = c

\* The channels of M_CHANNEL messages rise.
Rising(q) ==
    \A i, j \in 1 .. Len(q) :
        i < j /\ q[i].tag = "CHANNEL" /\ q[j].tag = "CHANNEL" => q[i].chid < q[j].chid

\* Channels that are still to be started come after those that have been, and
\* what is about a channel comes after it has been started.
StartInv(q, started) ==
    \A i \in 1 .. Len(q) :
        IF q[i].tag = "CHANNEL" THEN q[i].chid < connected /\ \A d \in started : d < q[i].chid
        ELSE q[i].chid \in started \/ \E j \in 1 .. i - 1 : Connects(q[j], q[i].chid)

\* What process p plays.
Started(p) == {c \in playing : ProcOf[c] = p}

ChannelsInv ==
    /\ held # {} \/ updates # {} => connected = NChannels
    /\ \A c \in playing : c < connected
    /\ \A p \in Process : Rising(toSlave[p]) /\ StartInv(toSlave[p], Started(p))
    /\ \A c \in Chid : c < connected =>
        \/ c \in playing
        \/ \E i \in 1 .. Len(toSlave[ProcOf[c]]) : Connects(toSlave[ProcOf[c]][i], c)

\* A process counts its channels as long as no other has one in between.
NumbersInv ==
    /\ \A c \in playing : ~Misnumbered(c) => c < nthrs[ProcOf[c]]
    /\ \A p \in Process, c \in Chid : ProcOf[c] # p => nthrs[p] <= c

\* What the invariants are about.
channelVars == <<connected, toSlave, nthrs, playing>>

LEMMA ChannelsSame ==
    ASSUME ChannelsInv, NumbersInv, UNCHANGED channelVars,
           held' # {} \/ updates' # {} => held # {} \/ updates # {}
    PROVE  ChannelsInv' /\ NumbersInv'
<1>1. ChannelsInv'
  BY DEF ChannelsInv, channelVars, Rising, StartInv, Started
<1>2. NumbersInv'
  BY DEF NumbersInv, channelVars
<1> QED
  BY <1>1, <1>2

\* A slave knows the channels it plays that are numbered for it.
LEMMA KnownChannels ==
    ASSUME TypeOK, NumbersInv, NEW c \in Chid
    PROVE  Known(ProcOf[c], c) <=> c \in playing /\ ~Misnumbered(c)
<1>1. c \in Nat /\ ProcOf[c] \in Process /\ nthrs[ProcOf[c]] \in Nat
      /\ \A d \in 0 .. c - 1 : d \in Chid /\ d \in Nat /\ d < c
  BY AudioAssumption DEF TypeOK, Chid
<1>2. ASSUME c < nthrs[ProcOf[c]] PROVE ~Misnumbered(c)
  <2>1. ASSUME NEW d \in 0 .. c - 1, ProcOf[d] # ProcOf[c] PROVE FALSE
    <3>1. nthrs[ProcOf[c]] <= d
      BY <1>1, <2>1 DEF NumbersInv
    <3> QED
      BY <1>1, <1>2, <3>1
  <2> QED
    BY <2>1 DEF Misnumbered
<1> QED
  BY <1>2 DEF Known, NumbersInv

\* A message is added to a stream.
LEMMA ChannelsSend ==
    ASSUME TypeOK, ChannelsInv, NEW m \in Messages, Send(m), UNCHANGED playing,
           connected' \in Nat, connected <= connected',
           held' # {} \/ updates' # {} => connected' = NChannels,
           m.tag = "CHANNEL" => m.chid = connected /\ connected' = connected + 1,
           m.tag # "CHANNEL" => m.chid < connected /\ connected' = connected
    PROVE  ChannelsInv' /\ \A p \in Process : ~Takes(p)
<1> DEFINE P == ProcOf[m.chid]  q == toSlave[P]  r == Append(q, m)
<1>1. m.chid \in Chid /\ P \in Process /\ q \in Seq(Messages) /\ toSlave' = [toSlave EXCEPT ![P] = r]
  BY Typed DEF Messages, Send
<1>2. /\ toSlave'[P] = r /\ \A p \in Process : p # P => toSlave'[p] = toSlave[p]
      /\ \A p \in Process : Started(p)' = Started(p)
      /\ connected \in Nat /\ NChannels \in Nat /\ \A c \in Chid : c \in Nat
      /\ \A x \in Nat : x < connected => x < connected'
  <2>1. connected \in Nat /\ NChannels \in Nat /\ \A c \in Chid : c \in Nat
    BY AudioAssumption DEF TypeOK, Chid
  <2>2. toSlave'[P] = r /\ \A p \in Process : p # P => toSlave'[p] = toSlave[p]
    <3> HIDE DEF P, r
    <3> QED
      BY <1>1 DEF TypeOK
  <2>3. \A p \in Process : Started(p)' = Started(p)
    BY DEF Started
  <2> QED
    BY <2>1, <2>2, <2>3
<1>3. /\ r \in Seq(Messages) /\ Len(r) = Len(q) + 1 /\ Len(q) \in Nat
      /\ \A i \in 1 .. Len(q) : r[i] = q[i] /\ q[i].chid \in Nat /\ q[i].chid \in Chid
      /\ r[Len(q) + 1] = m
  <2>1. \A i \in 1 .. Len(q) : q[i] \in Messages
    BY <1>1
  <2>2. \A i \in 1 .. Len(q) : q[i].chid \in Chid
    BY <2>1 DEF Messages
  <2> QED
    BY <1>1, <1>2, <2>2, AppendFacts
<1>4. \A i \in 1 .. Len(r) : i \in 1 .. Len(q) \/ i = Len(q) + 1
  BY <1>3
<1>5. /\ Rising(q) /\ StartInv(q, Started(P)) /\ playing \subseteq Chid
      /\ \A d \in playing : d < connected
  BY <1>1 DEF ChannelsInv, TypeOK
<1>6. \A c \in Chid : c < connected /\ ProcOf[c] = P =>
        c \in Started(P) \/ \E i \in 1 .. Len(q) : Connects(q[i], c)
  BY DEF ChannelsInv, Started
<1>7. \A p \in Process : ~Takes(p)
  <2>1. \A p \in Process : toSlave[p] \in Seq(Messages)
    BY Typed
  <2>2. ASSUME NEW p \in Process, toSlave[p] # <<>>, toSlave'[p] = Tail(toSlave[p]) PROVE FALSE
    <3>1. Len(toSlave'[p]) = Len(toSlave[p]) - 1 /\ Len(toSlave[p]) \in Nat
      BY <2>1, <2>2
    <3>2. p = P => Len(toSlave'[p]) = Len(toSlave[p]) + 1
      BY <1>2, <1>3
    <3>3. p # P => Len(toSlave'[p]) = Len(toSlave[p])
      BY <1>2
    <3> QED
      BY <3>1, <3>2, <3>3
  <2> QED
    BY <2>2 DEF Takes
<1> HIDE DEF r, q, P
<1>8. Rising(r)
  <2>1. ASSUME NEW i \in 1 .. Len(r), NEW j \in 1 .. Len(r), i < j,
               r[i].tag = "CHANNEL", r[j].tag = "CHANNEL"
        PROVE  r[i].chid < r[j].chid
    <3>1. i \in 1 .. Len(q)
      BY <1>3, <2>1
    <3>2. CASE j \in 1 .. Len(q)
      BY <1>3, <1>5, <2>1, <3>1, <3>2 DEF Rising
    <3>3. CASE j = Len(q) + 1
      <4>1. q[i].chid < connected
        BY <1>3, <1>5, <2>1, <3>1 DEF StartInv
      <4> QED
        BY <1>3, <2>1, <3>1, <3>3, <4>1
    <3> QED
      BY <1>4, <3>2, <3>3
  <2> QED
    BY <2>1 DEF Rising
<1>9. ASSUME NEW i \in 1 .. Len(r)
      PROVE  IF r[i].tag = "CHANNEL"
             THEN r[i].chid < connected' /\ \A d \in Started(P) : d < r[i].chid
             ELSE r[i].chid \in Started(P) \/ \E j \in 1 .. i - 1 : Connects(r[j], r[i].chid)
  <2>1. CASE i \in 1 .. Len(q)
    <3>1. r[i] = q[i] /\ q[i].chid \in Nat /\ \A j \in 1 .. i - 1 : r[j] = q[j]
      BY <1>3, <2>1
    <3>2. IF q[i].tag = "CHANNEL"
          THEN q[i].chid < connected /\ \A d \in Started(P) : d < q[i].chid
          ELSE q[i].chid \in Started(P) \/ \E j \in 1 .. i - 1 : Connects(q[j], q[i].chid)
      BY <1>5, <2>1 DEF StartInv
    <3>3. CASE q[i].tag = "CHANNEL"
      BY <1>2, <3>1, <3>2, <3>3
    <3>4. CASE q[i].tag # "CHANNEL"
      BY <3>1, <3>2, <3>4
    <3> QED
      BY <3>3, <3>4
  <2>2. CASE i = Len(q) + 1 /\ m.tag = "CHANNEL"
    <3>1. m.chid = connected /\ connected < connected'
      BY <1>2, <2>2
    <3>2. \A d \in Started(P) : d < connected
      BY <1>5 DEF Started
    <3> QED
      BY <1>3, <2>2, <3>1, <3>2
  <2>3. CASE i = Len(q) + 1 /\ m.tag # "CHANNEL"
    <3>1. m.chid \in Started(P) \/ \E j \in 1 .. Len(q) : Connects(q[j], m.chid)
      BY <1>1, <1>6, <2>3 DEF P
    <3>2. r[i] = m /\ \A j \in 1 .. Len(q) : j \in 1 .. i - 1 /\ r[j] = q[j]
      BY <1>3, <2>3
    <3> QED
      BY <2>3, <3>1, <3>2
  <2> QED
    BY <1>4, <2>1, <2>2, <2>3
<1>10. ASSUME NEW p \in Process
       PROVE  /\ Rising(toSlave'[p])
              /\ \A i \in 1 .. Len(toSlave'[p]) :
                    IF toSlave'[p][i].tag = "CHANNEL"
                    THEN /\ toSlave'[p][i].chid < connected'
                         /\ \A d \in Started(p) : d < toSlave'[p][i].chid
                    ELSE \/ toSlave'[p][i].chid \in Started(p)
                         \/ \E j \in 1 .. i - 1 : Connects(toSlave'[p][j], toSlave'[p][i].chid)
  <2>1. CASE p = P
    BY <1>2, <1>8, <1>9, <2>1
  <2>2. CASE p # P
    <3>1. toSlave'[p] = toSlave[p] /\ Rising(toSlave[p]) /\ StartInv(toSlave[p], Started(p))
      BY <1>2, <2>2 DEF ChannelsInv
    <3>2. \A i \in 1 .. Len(toSlave[p]) : toSlave[p][i].chid \in Nat
      <4>1. toSlave[p] \in Seq(Messages)
        BY DEF TypeOK
      <4>2. \A i \in 1 .. Len(toSlave[p]) : toSlave[p][i] \in Messages
        BY <4>1
      <4> QED
        BY <1>2, <4>2 DEF Messages
    <3> QED
      BY <1>2, <3>1, <3>2 DEF StartInv
  <2> QED
    BY <2>1, <2>2
<1>11. ASSUME NEW c \in Chid, c < connected'
       PROVE  \/ c \in playing
              \/ \E i \in 1 .. Len(toSlave'[ProcOf[c]]) : Connects(toSlave'[ProcOf[c]][i], c)
  <2>1. ProcOf[c] \in Process
    BY Typed
  <2>2. CASE c < connected /\ ProcOf[c] # P
    BY <1>2, <2>1, <2>2 DEF ChannelsInv
  <2>3. CASE c < connected /\ ProcOf[c] = P
    <3>1. \A i \in 1 .. Len(q) : i \in 1 .. Len(r) /\ r[i] = q[i]
      BY <1>3
    <3> QED
      BY <1>2, <1>6, <2>3, <3>1 DEF Started
  <2>4. CASE ~(c < connected)
    <3>1. m.tag = "CHANNEL" /\ m.chid = c
      BY <1>2, <1>11, <2>4
    <3>2. ProcOf[c] = P
      BY <3>1 DEF P
    <3>3. Len(q) + 1 \in 1 .. Len(r) /\ r[Len(q) + 1] = m
      BY <1>3
    <3> QED
      BY <1>2, <3>1, <3>2, <3>3 DEF Connects
  <2> QED
    BY <2>2, <2>3, <2>4
<1>12. ChannelsInv'
  <2>1. ASSUME NEW p \in Process
        PROVE  (Rising(toSlave[p]) /\ StartInv(toSlave[p], Started(p)))'
    <3>1. Rising(toSlave[p])'
      BY <1>10 DEF Rising
    <3> QED
      BY <1>2, <1>10, <3>1 DEF StartInv
  <2>2. ASSUME NEW c \in Chid, c < connected'
        PROVE  \/ c \in playing'
               \/ \E i \in 1 .. Len(toSlave'[ProcOf[c]]) : Connects(toSlave'[ProcOf[c]][i], c)
    BY <1>11, <2>2
  <2>3. \A c \in playing' : c < connected'
    <3>1. \A c \in playing : c \in Nat
      BY <1>2, <1>5
    <3> QED
      BY <1>2, <1>5, <3>1
  <2> QED
    BY <2>1, <2>2, <2>3 DEF ChannelsInv, Connects
<1> QED
  BY <1>7, <1>12

\* The slave takes a message, and starts the channel that it is told about.
LEMMA ChannelsTake ==
    ASSUME TypeOK, StreamInv, ChannelsInv, NEW p \in Process, toSlave[p] # <<>>,
           toSlave' = [toSlave EXCEPT ![p] = Tail(@)], UNCHANGED <<connected, held, updates>>,
           playing' = IF Head(toSlave[p]).tag = "CHANNEL"
                      THEN playing \cup {Head(toSlave[p]).chid} ELSE playing
    PROVE  ChannelsInv'
<1> DEFINE q == toSlave[p]  r == Tail(q)  h == Head(q)
<1>1. /\ q \in Seq(Messages) /\ toSlave'[p] = r
      /\ \A s \in Process : s # p => toSlave'[s] = toSlave[s]
      /\ \A i \in 1 .. Len(q) : q[i] \in Messages
  BY DEF TypeOK
<1>2. /\ Len(q) \in Nat \ {0} /\ Len(r) = Len(q) - 1 /\ h = q[1] /\ 1 \in 1 .. Len(q)
      /\ \A i \in 1 .. Len(r) : r[i] = q[i + 1] /\ i + 1 \in 1 .. Len(q) /\ 1 < i + 1
  BY <1>1, TailFacts
<1>3. /\ Rising(q) /\ StartInv(q, Started(p))
      /\ \A c \in Chid : c < connected /\ ProcOf[c] = p =>
            c \in playing \/ \E i \in 1 .. Len(q) : Connects(q[i], c)
      /\ ProcOf[h.chid] = p
  BY <1>2 DEF ChannelsInv, StreamInv
<1>4. /\ connected \in Nat /\ playing \subseteq Chid /\ Chid \subseteq Nat
      /\ \A i \in 1 .. Len(q) : q[i].chid \in Chid /\ q[i].chid \in Nat
  <2>1. connected \in Nat /\ playing \subseteq Chid /\ Chid \subseteq Nat
    BY AudioAssumption DEF TypeOK, Chid
  <2>2. \A i \in 1 .. Len(q) : q[i].chid \in Chid
    BY <1>1 DEF Messages
  <2> QED
    BY <2>1, <2>2
<1>5. /\ playing' = IF h.tag = "CHANNEL" THEN playing \cup {h.chid} ELSE playing
      /\ Started(p)' = IF h.tag = "CHANNEL" THEN Started(p) \cup {h.chid} ELSE Started(p)
      /\ \A s \in Process : s # p => Started(s)' = Started(s)
  <2>1. playing' = IF h.tag = "CHANNEL" THEN playing \cup {h.chid} ELSE playing
    OBVIOUS
  <2> HIDE DEF h
  <2> QED
    BY <1>3, <2>1 DEF Started
<1> HIDE DEF q, r, h
<1>6. \A c \in playing' : c < connected
  <2>1. h.tag = "CHANNEL" => h.chid < connected
    BY <1>2, <1>3 DEF StartInv
  <2> QED
    BY <1>5, <2>1 DEF ChannelsInv
<1>7. Rising(r)
  <2>1. ASSUME NEW i \in 1 .. Len(r), NEW j \in 1 .. Len(r), i < j,
               r[i].tag = "CHANNEL", r[j].tag = "CHANNEL"
        PROVE  r[i].chid < r[j].chid
    <3>1. /\ i + 1 \in 1 .. Len(q) /\ r[i] = q[i + 1]
          /\ j + 1 \in 1 .. Len(q) /\ r[j] = q[j + 1]
      BY <1>2
    <3>2. i + 1 < j + 1
      BY <2>1
    <3> QED
      BY <1>3, <2>1, <3>1, <3>2 DEF Rising
  <2> QED
    BY <2>1 DEF Rising
<1>8. ASSUME NEW i \in 1 .. Len(r)
      PROVE  IF r[i].tag = "CHANNEL"
             THEN r[i].chid < connected /\ \A d \in Started(p)' : d < r[i].chid
             ELSE r[i].chid \in Started(p)' \/ \E j \in 1 .. i - 1 : Connects(r[j], r[i].chid)
  <2>1. r[i] = q[i + 1] /\ i + 1 \in 1 .. Len(q) /\ 1 < i + 1
    BY <1>2
  <2>2. CASE r[i].tag = "CHANNEL"
    <3>1. r[i].chid < connected /\ \A d \in Started(p) : d < r[i].chid
      BY <1>3, <2>1, <2>2 DEF StartInv
    <3>2. h.tag = "CHANNEL" => h.chid < r[i].chid
      BY <1>2, <1>3, <2>1, <2>2 DEF Rising
    <3> QED
      BY <1>5, <2>2, <3>1, <3>2
  <2>3. CASE r[i].tag # "CHANNEL"
    <3>1. \/ r[i].chid \in Started(p)
          \/ \E j \in 1 .. (i + 1) - 1 : Connects(q[j], r[i].chid)
      BY <1>3, <2>1, <2>3 DEF StartInv
    <3>2. ASSUME NEW j \in 1 .. (i + 1) - 1, Connects(q[j], r[i].chid)
          PROVE  r[i].chid \in Started(p)' \/ \E l \in 1 .. i - 1 : Connects(r[l], r[i].chid)
      <4>1. CASE j = 1
        BY <1>2, <1>5, <3>2, <4>1 DEF Connects
      <4>2. CASE j # 1
        <5>1. j - 1 \in 1 .. i - 1 /\ j - 1 \in 1 .. Len(r) /\ (j - 1) + 1 = j
          BY <1>2, <4>2
        <5>2. r[j - 1] = q[j]
          BY <1>2, <5>1
        <5> QED
          BY <3>2, <5>1, <5>2
      <4> QED
        BY <4>1, <4>2
    <3> QED
      BY <1>5, <2>3, <3>1, <3>2
  <2> QED
    BY <2>2, <2>3
<1>9. ASSUME NEW s \in Process
      PROVE  (Rising(toSlave[s]) /\ StartInv(toSlave[s], Started(s)))'
  <2>1. CASE s = p
    <3>1. toSlave'[s] = r
      BY <1>1, <2>1
    <3>2. Rising(toSlave[s])'
      BY <1>7, <3>1 DEF Rising
    <3> QED
      BY <1>1, <1>8, <2>1, <3>2 DEF StartInv
  <2>2. CASE s # p
    <3>1. /\ toSlave'[s] = toSlave[s] /\ Started(s)' = Started(s)
          /\ Rising(toSlave[s]) /\ StartInv(toSlave[s], Started(s))
      BY <1>1, <1>5, <2>2 DEF ChannelsInv
    <3>2. Rising(toSlave[s])'
      BY <3>1 DEF Rising
    <3>3. StartInv(toSlave[s], Started(s))'
      BY <3>1 DEF StartInv
    <3> QED
      BY <3>2, <3>3
  <2> QED
    BY <2>1, <2>2
<1>10. ASSUME NEW c \in Chid, c < connected
       PROVE  \/ c \in playing'
              \/ \E i \in 1 .. Len(toSlave'[ProcOf[c]]) : Connects(toSlave'[ProcOf[c]][i], c)
  <2>1. ProcOf[c] \in Process /\ playing \subseteq playing'
    BY <1>5, Typed
  <2>2. CASE ProcOf[c] # p
    BY <1>1, <1>10, <2>1, <2>2 DEF ChannelsInv
  <2>3. CASE ProcOf[c] = p /\ c \notin playing'
    <3>1. PICK i \in 1 .. Len(q) : Connects(q[i], c)
      BY <1>3, <1>10, <2>1, <2>3
    <3>2. i # 1
      BY <1>2, <1>5, <2>3, <3>1 DEF Connects
    <3>3. i - 1 \in 1 .. Len(r) /\ (i - 1) + 1 = i
      BY <1>2, <3>2
    <3>4. r[i - 1] = q[i]
      BY <1>2, <3>3
    <3> QED
      BY <1>1, <2>3, <3>1, <3>3, <3>4
  <2> QED
    BY <2>2, <2>3
<1> QED
  BY <1>6, <1>9, <1>10 DEF ChannelsInv, Connects

\* What a slave is told about a channel comes after it has started it, and a
\* channel that is numbered for it is the next one.
LEMMA ChannelsHead ==
    ASSUME TypeOK, StreamInv, ChannelsInv, NumbersInv, NEW p \in Process, toSlave[p] # <<>>,
           NEW c \in Chid, c = Head(toSlave[p]).chid
    PROVE  /\ ProcOf[c] = p
           /\ Head(toSlave[p]).tag # "CHANNEL" => c \in playing
           /\ Head(toSlave[p]).tag = "CHANNEL" =>
                /\ \A d \in playing : ProcOf[d] = p => d < c
                /\ ~Misnumbered(c) => c <= nthrs[p]
<1> DEFINE q == toSlave[p]
<1>1. /\ q \in Seq(Messages) /\ Head(q) = q[1] /\ 1 \in 1 .. Len(q) /\ Len(q) \in Nat
      /\ q[1].chid = c
  BY TailFacts DEF TypeOK
<1>2. Rising(q) /\ StartInv(q, Started(p)) /\ ProcOf[c] = p
  BY <1>1 DEF ChannelsInv, StreamInv
<1> HIDE DEF q
<1>3. ASSUME q[1].tag # "CHANNEL"
      PROVE  c \in playing
  <2>1. c \in Started(p) \/ \E j \in 1 .. 1 - 1 : Connects(q[j], c)
    BY <1>1, <1>2, <1>3 DEF StartInv
  <2>2. 1 .. 1 - 1 = {}
    OBVIOUS
  <2> QED
    BY <2>1, <2>2 DEF Started
<1>4. ASSUME q[1].tag = "CHANNEL", ~Misnumbered(c)
      PROVE  c <= nthrs[p]
  <2>1. /\ c < connected /\ c \in Nat /\ connected \in Nat /\ nthrs[p] \in Nat
        /\ \A d \in 0 .. c - 1 : d \in Chid /\ d \in Nat /\ d < c
    <3>1. c < connected
      BY <1>1, <1>2, <1>4 DEF StartInv
    <3>2. NChannels \in Nat /\ Chid = 0 .. NChannels - 1
      BY AudioAssumption DEF Chid
    <3>3. connected \in Nat /\ nthrs[p] \in Nat
      BY <3>2 DEF TypeOK
    <3>4. c \in Nat /\ \A d \in 0 .. c - 1 : d \in Chid /\ d \in Nat /\ d < c
      BY <3>2
    <3> QED
      BY <3>1, <3>3, <3>4
  <2>2. CASE c = 0
    BY <2>1, <2>2
  <2>3. CASE c > 0
    <3>1. PICK d \in Chid : d = c - 1 /\ d \in 0 .. c - 1 /\ d \in Nat /\ d < connected
      BY <2>1, <2>3
    <3>2. ProcOf[d] = p
      BY <1>2, <1>4, <3>1 DEF Misnumbered
    <3>3. ~Misnumbered(d)
      <4>1. \A e \in 0 .. d - 1 : e \in 0 .. c - 1
        BY <2>1, <3>1
      <4> QED
        BY <1>2, <1>4, <3>2, <4>1 DEF Misnumbered
    <3>4. d \in playing
      <4>1. ASSUME NEW i \in 1 .. Len(q), Connects(q[i], d)
            PROVE  FALSE
        <5>1. q[i].tag = "CHANNEL" /\ q[i].chid = d /\ d < c
          BY <2>1, <3>1, <4>1 DEF Connects
        <5>2. i # 1
          BY <1>1, <2>1, <5>1
        <5>3. 1 < i
          BY <1>1, <5>2
        <5>4. c < d
          BY <1>1, <1>2, <1>4, <5>1, <5>3 DEF Rising
        <5> QED
          BY <2>1, <3>1, <5>1, <5>4
      <4> QED
        BY <3>1, <3>2, <4>1 DEF ChannelsInv, q
    <3>5. d < nthrs[p]
      BY <3>2, <3>3, <3>4 DEF NumbersInv
    <3> QED
      BY <2>1, <3>1, <3>5
  <2> QED
    BY <2>1, <2>2, <2>3
<1>5. ASSUME q[1].tag = "CHANNEL", NEW d \in playing, ProcOf[d] = p
      PROVE  d < c
  BY <1>1, <1>2, <1>5 DEF StartInv, Started
<1> QED
  BY <1>1, <1>2, <1>3, <1>4, <1>5 DEF q

\* Waiting has to do with neither channels nor messages.
LEMMA WaitLeaves ==
    ASSUME NEW t, WaitNext(t)
    PROVE  UNCHANGED <<connected, held, slaveVars, toSlave, updates>>
<1>1. ASSUME NEW i, WaitDone(t, i) \/ WaitAsleep(t, i)
      PROVE  UNCHANGED <<connected, held, slaveVars, toSlave, updates>>
  <2>1. CASE WaitDone(t, i)
    BY <2>1 DEF WaitDone, netVars
  <2>2. CASE WaitAsleep(t, i)
    BY <2>2 DEF WaitAsleep, netVars
  <2> QED
    BY <1>1, <2>1, <2>2
<1>2. CASE SpuriousWakeup(t)
  BY <1>2 DEF SpuriousWakeup, netVars
<1>3. CASE SleepAgain(t)
  BY <1>3 DEF SleepAgain, netVars
<1>4. CASE WaitReturns(t) \/ WaitReturnsStale(t)
  <2>1. Return(t)
    BY <1>4 DEF WaitReturns, WaitReturnsStale
  <2> QED
    BY <2>1 DEF Return, netVars
<1> QED
  BY <1>1, <1>2, <1>3, <1>4 DEF WaitNext

\* So has a report that an instance is finished.
LEMMA ReportLeaves ==
    ASSUME NEW p, master_audio_cback(p)
    PROVE  UNCHANGED <<connected, held, slaveVars, toSlave, updates>>
  BY Zenon DEF master_audio_cback

\* Whatever a slave takes from its stream, it leaves everything of the master.
LEMMA SlaveReceives ==
    ASSUME NEW p, SlaveNext(p)
    PROVE  /\ \E tag \in {"CHANNEL", "NEW", "STOP"} : Receives(p, tag)
           /\ SlaveNew(p) => Receives(p, "NEW")
           /\ SlaveStop(p) => Receives(p, "STOP")
           /\ UNCHANGED <<masterVars, toMaster, updates>>
<1>1. SlaveChannel(p) => Receives(p, "CHANNEL")
  BY Zenon DEF SlaveChannel
<1>2. SlaveNew(p) => Receives(p, "NEW")
  BY Zenon DEF SlaveNew
<1>3. SlaveStop(p) => Receives(p, "STOP")
  BY Zenon DEF SlaveStop
<1>4. Receives(p, "CHANNEL") \/ Receives(p, "NEW") \/ Receives(p, "STOP")
  BY <1>1, <1>2, <1>3 DEF SlaveNext
<1>5. \A tag : Receives(p, tag) => UNCHANGED <<masterVars, toMaster, updates>>
  BY Zenon DEF Receives
<1> QED
  BY <1>2, <1>3, <1>4, <1>5

\* The slaves are left alone.
SlavesRest == UNCHANGED <<alive, nthrs, playing>> /\ \A p \in Process : ~Takes(p)

LEMMA NothingTaken ==
    ASSUME TypeOK, NEW p \in Process, toSlave'[p] = toSlave[p]
    PROVE  ~Takes(p)
<1>1. toSlave[p] \in Seq(Messages)
  BY Typed
<1>2. ASSUME toSlave[p] # <<>> PROVE Tail(toSlave[p]) # toSlave[p]
  <2> DEFINE q == toSlave[p]  r == Tail(q)
  <2>1. Len(r) = Len(q) - 1 /\ Len(q) \in Nat
    BY <1>1, <1>2
  <2> HIDE DEF r
  <2>2. Len(r) # Len(q)
    BY <2>1
  <2>3. r # q
    BY <2>2
  <2> QED
    BY <2>3 DEF r
<1> QED
  BY <1>2 DEF Takes

\* A step of the master: the stream of a process grows, or nothing changes here.
LEMMA ChannelsMaster ==
    ASSUME IInv, ChannelsInv, NumbersInv, veMPAudioRun \/ AppNext \/ \E p \in Process : master_audio_cback(p)
    PROVE  ChannelsInv' /\ NumbersInv' /\ SlavesRest
<1>1. TypeOK /\ IdInv
  BY DEF IInv
<1>2. connected \in Nat /\ NChannels \in Nat /\ connected <= NChannels /\ \A c \in Chid : c \in Nat /\ c < NChannels
  BY <1>1, AudioAssumption DEF TypeOK, Chid
<1>3. CASE veMPAudioRun
  <2> PICK m \in Messages : m = Message("CHANNEL", connected, 0, 0, 0) /\ m.tag = "CHANNEL" /\ m.chid = connected
    <3>1. connected \in Chid
      BY <1>2, <1>3 DEF veMPAudioRun, Chid
    <3> DEFINE x == Message("CHANNEL", connected, 0, 0, 0)
    <3>2. x \in Messages /\ x.tag = "CHANNEL" /\ x.chid = connected
      BY <1>1, <3>1, MessageFacts, Typed
    <3> HIDE DEF x
    <3>3. \E m \in Messages : m = x /\ m.tag = "CHANNEL" /\ m.chid = connected
      BY <3>2
    <3> QED
      BY <3>3 DEF x
  <2>1. /\ Send(m) /\ connected' = connected + 1 /\ UNCHANGED <<nthrs, playing, alive, held, updates>>
        /\ connected < NChannels
    BY <1>3 DEF veMPAudioRun, slaveVars
  <2>2. connected' \in Nat /\ connected <= connected'
    BY <1>2, <2>1
  <2>3. held' # {} \/ updates' # {} => connected' = NChannels
    BY <1>2, <2>1 DEF ChannelsInv
  <2>4. ChannelsInv' /\ \A p \in Process : ~Takes(p)
    BY <1>1, <2>1, <2>2, <2>3, ChannelsSend
  <2> QED
    BY <2>1, <2>4 DEF NumbersInv, SlavesRest
<1>4. ASSUME NEW m \in Messages, Send(m), m.tag # "CHANNEL", connected = NChannels,
             UNCHANGED <<connected, slaveVars, updates>>
      PROVE  ChannelsInv' /\ NumbersInv' /\ SlavesRest
  <2>1. m.chid < connected
    BY <1>2, <1>4 DEF Messages
  <2>2. connected' \in Nat /\ connected <= connected' /\ connected' = NChannels
    BY <1>2, <1>4
  <2>3. ChannelsInv' /\ \A p \in Process : ~Takes(p)
    BY <1>1, <1>4, <2>1, <2>2, ChannelsSend DEF slaveVars
  <2> QED
    BY <1>4, <2>3 DEF NumbersInv, SlavesRest, slaveVars
<1>5. ASSUME NEW c \in Chid, NEW loop \in Loops, veAudioInst(c, loop)
      PROVE  ChannelsInv' /\ NumbersInv' /\ SlavesRest
  <2>1. PICK k \in Slot : Send(Message("NEW", c, k, loop, nInst + 1))
    BY <1>5 DEF veAudioInst, get_itable_id
  <2> DEFINE m == Message("NEW", c, k, loop, nInst + 1)
  <2>2. nInst + 1 \in Nat /\ loop \in Int
    BY <1>1, AudioAssumption DEF TypeOK
  <2>3. m \in Messages /\ m.tag = "NEW"
    BY <2>2, MessageFacts
  <2>4. Send(m) /\ connected = NChannels /\ UNCHANGED <<connected, slaveVars, updates>>
    BY <1>5, <2>1 DEF veAudioInst
  <2> HIDE DEF m
  <2> QED
    BY <1>4, <2>3, <2>4
<1>6. ASSUME NEW i \in Id, NEW clean \in BOOLEAN, veAudioStop(i, clean)
      PROVE  ChannelsInv' /\ NumbersInv' /\ SlavesRest
  <2>1. i \in held /\ connected = NChannels /\ UNCHANGED <<connected, slaveVars, updates>>
    BY <1>6 DEF veAudioStop, ChannelsInv
  <2>2. PICK c \in Chid, k \in Slot, n \in Nat :
            c = instmap[i].chid /\ k = instmap[i].itid /\ n = find_inst(i).who
    BY <1>1, <2>1, HeldRow, Typed DEF find_inst, Rows
  <2> DEFINE m == Message("STOP", c, k, 0, n)
  <2>3. m \in Messages /\ m.tag = "STOP"
    BY MessageFacts
  <2>4. Send(m)
    <3>1. [find_inst(i) EXCEPT !.stopped = TRUE].who = find_inst(i).who
      <4>1. find_inst(i) \in Rows
        BY <1>1, <2>1, HeldRow, Typed DEF find_inst
      <4> QED
        BY <4>1, RowEdits
    <3> QED
      BY <1>6, <2>2, <3>1 DEF veAudioStop
  <2> HIDE DEF m
  <2> QED
    BY <1>4, <2>1, <2>3, <2>4
<1>7. ASSUME UNCHANGED <<connected, toSlave, slaveVars>>,
             held' # {} \/ updates' # {} => held # {} \/ updates # {}
      PROVE  ChannelsInv' /\ NumbersInv' /\ SlavesRest
  <2>1. ChannelsInv' /\ NumbersInv'
    BY <1>7, ChannelsSame DEF channelVars, slaveVars
  <2>2. \A p \in Process : ~Takes(p)
    BY <1>1, <1>7, NothingTaken
  <2> QED
    BY <1>7, <2>1, <2>2 DEF SlavesRest, slaveVars
<1>8. ASSUME NEW i \in Id, veAudioClean(i)
      PROVE  ChannelsInv' /\ NumbersInv' /\ SlavesRest
  BY <1>7, <1>8 DEF veAudioClean, AppCleans, netVars
<1>9. ASSUME NEW i \in Id, NEW loop \in Loops, veAudioUpdate(i, loop)
      PROVE  ChannelsInv' /\ NumbersInv' /\ SlavesRest
  BY <1>7, <1>9 DEF veAudioUpdate
<1>10. ASSUME NEW t \in Thread, WaitNext(t)
       PROVE  ChannelsInv' /\ NumbersInv' /\ SlavesRest
  <2>1. UNCHANGED <<connected, toSlave, slaveVars, held, updates>>
    BY <1>10, WaitLeaves
  <2> QED
    BY <1>7, <2>1
<1>11. ASSUME NEW p \in Process, master_audio_cback(p)
       PROVE  ChannelsInv' /\ NumbersInv' /\ SlavesRest
  <2>1. UNCHANGED <<connected, toSlave, slaveVars, held, updates>>
    BY <1>11, ReportLeaves
  <2> QED
    BY <1>7, <2>1
<1> QED
  BY <1>3, <1>5, <1>6, <1>8, <1>9, <1>10, <1>11 DEF AppNext

\* A slave takes a message from its stream.
LEMMA ChannelsSlave ==
    ASSUME IInv, ChannelsInv, NumbersInv, NEW p \in Process, SlaveNext(p)
    PROVE  ChannelsInv' /\ NumbersInv' /\ GivesUpFor
<1>1. PICK tag \in {"CHANNEL", "NEW", "STOP"} : Receives(p, tag)
  BY SlaveReceives
<1>2. PICK h \in Messages, c \in Chid : h = Head(toSlave[p]) /\ c = h.chid
  BY <1>1, ReceivedIsMessage DEF Messages
<1>3. /\ p \in alive /\ toSlave[p] # <<>> /\ toSlave' = [toSlave EXCEPT ![p] = Tail(@)]
      /\ UNCHANGED <<connected, held, updates>> /\ h.tag = tag /\ TypeOK /\ StreamInv
      /\ toSlave'[p] = Tail(toSlave[p])
      /\ \A s \in Process : s # p => ~Takes(s)
  <2>1. /\ p \in alive /\ toSlave[p] # <<>> /\ toSlave' = [toSlave EXCEPT ![p] = Tail(@)]
        /\ UNCHANGED <<connected, held, updates>> /\ h.tag = tag
        /\ toSlave'[p] = Tail(toSlave[p]) /\ TypeOK /\ StreamInv
    BY <1>1, <1>2, ReceivedIsMessage DEF Receives, masterVars
  <2>2. \A s \in Process : s # p => toSlave'[s] = toSlave[s]
    BY <2>1 DEF TypeOK
  <2> QED
    BY <2>1, <2>2, NothingTaken
<1>4. /\ ProcOf[c] = p
      /\ h.tag # "CHANNEL" => c \in playing
      /\ h.tag = "CHANNEL" => /\ \A d \in playing : ProcOf[d] = p => d < c
                              /\ ~Misnumbered(c) => c <= nthrs[p]
  BY <1>2, <1>3, ChannelsHead
<1>5. h.tag # "CHANNEL" => (Known(p, c) <=> ~Misnumbered(c))
  BY <1>3, <1>4, KnownChannels
<1>6. alive \subseteq Process
  BY <1>3 DEF TypeOK
<1>7. CASE SlaveNew(p) \/ SlaveStop(p)
  <2>1. h.tag # "CHANNEL" /\ UNCHANGED <<nthrs, playing>>
        /\ alive' = IF Known(p, c) THEN alive ELSE alive \ {p}
    <3>1. h.tag # "CHANNEL"
      <4>1. Receives(p, "NEW") \/ Receives(p, "STOP")
        BY <1>7, SlaveReceives
      <4> QED
        BY <1>2, <4>1 DEF Receives
    <3>2. CASE SlaveNew(p)
      BY <1>2, <3>1, <3>2 DEF SlaveNew, GiveUp
    <3>3. CASE SlaveStop(p)
      BY <1>2, <3>1, <3>3 DEF SlaveStop, GiveUp
    <3> QED
      BY <1>7, <3>2, <3>3
  <2>2. ChannelsInv'
    BY <1>2, <1>3, <2>1, ChannelsTake
  <2>3. NumbersInv'
    BY <2>1 DEF NumbersInv
  <2>4. GivesUpFor
    <3>1. \A s \in alive \ alive' : s = p /\ Takes(s) /\ Misnumbered(Head(toSlave[s]).chid)
      BY <1>2, <1>3, <1>5, <2>1 DEF Takes
    <3>2. \A s \in alive : Takes(s) /\ Misnumbered(Head(toSlave[s]).chid) => s \notin alive'
      BY <1>2, <1>3, <1>5, <1>6, <2>1
    <3> QED
      BY <3>1, <3>2 DEF GivesUpFor
  <2> QED
    BY <2>2, <2>3, <2>4
<1>8. CASE SlaveChannel(p)
  <2>1. /\ h.tag = "CHANNEL" /\ UNCHANGED alive /\ playing' = playing \cup {c}
        /\ nthrs' = [nthrs EXCEPT ![p] = nthrs_after(nthrs[p], c)]
    BY <1>2, <1>8 DEF SlaveChannel, Receives
  <2>2. ChannelsInv'
    BY <1>2, <1>3, <2>1, ChannelsTake
  <2>3. /\ nthrs \in [Process -> Nat] /\ Chid \subseteq Nat /\ playing \subseteq Chid
        /\ nthrs_after(nthrs[p], c) = IF c <= nthrs[p] THEN c + 1 ELSE nthrs[p]
        /\ \A s \in Process : s # p => nthrs'[s] = nthrs[s]
    <3>1. nthrs \in [Process -> 0 .. NChannels] /\ 0 .. NChannels \subseteq Nat
          /\ Chid \subseteq Nat /\ playing \subseteq Chid
      BY <1>3, AudioAssumption DEF TypeOK, Chid
    <3> QED
      BY <2>1, <3>1 DEF nthrs_after
  <2>4. nthrs'[p] = IF c <= nthrs[p] THEN c + 1 ELSE nthrs[p]
    BY <2>1, <2>3
  <2>5. ASSUME NEW d \in playing', ~Misnumbered(d)
        PROVE  d < nthrs'[ProcOf[d]]
    <3>1. CASE d = c
      BY <1>4, <2>1, <2>3, <2>4, <2>5, <3>1
    <3>2. CASE d \in playing /\ ProcOf[d] = p
      <4>1. d < c /\ d < nthrs[p] /\ d \in Nat /\ c \in Nat
        BY <1>4, <2>1, <2>3, <2>5, <3>2 DEF NumbersInv
      <4> QED
        BY <2>3, <2>4, <3>2, <4>1
    <3>3. CASE d \in playing /\ ProcOf[d] # p
      <4>1. ProcOf[d] \in Process
        BY <1>3, <2>3, <3>3, Typed
      <4> QED
        BY <2>3, <2>5, <3>3, <4>1 DEF NumbersInv
    <3> QED
      BY <2>1, <3>1, <3>2, <3>3
  <2>6. ASSUME NEW s \in Process, NEW d \in Chid, ProcOf[d] # s
        PROVE  nthrs'[s] <= d
    <3>1. nthrs[s] <= d
      BY <2>6 DEF NumbersInv
    <3>2. CASE s = p
      <4>1. d # c /\ d \in Nat /\ c \in Nat /\ nthrs[p] \in Nat
        BY <1>4, <2>3, <2>6, <3>2
      <4> QED
        BY <2>4, <3>1, <3>2, <4>1
    <3> QED
      BY <2>3, <3>1, <3>2
  <2>7. NumbersInv'
    BY <2>5, <2>6 DEF NumbersInv
  <2>8. GivesUpFor
    BY <1>2, <1>3, <1>6, <2>1 DEF GivesUpFor
  <2> QED
    BY <2>2, <2>7, <2>8
<1> QED
  BY <1>7, <1>8 DEF SlaveNext

\* An update makes a slave give up if it is ahead of its channel.
LEMMA ChannelsUpdate ==
    ASSUME IInv, ChannelsInv, NumbersInv, NEW p \in Process, NEW m \in updates, SlaveUpdate(p, m)
    PROVE  ChannelsInv' /\ NumbersInv' /\ GivesUpFor
<1>1. /\ UNCHANGED <<connected, held, toSlave, nthrs, playing>>
      /\ updates' = updates \ {m} /\ ProcOf[m.chid] = p
      /\ alive' = IF Known(p, m.chid) THEN alive ELSE alive \ {p}
  BY DEF SlaveUpdate, GiveUp, masterVars
<1>2. ChannelsInv' /\ NumbersInv'
  BY <1>1, ChannelsSame DEF channelVars
<1>3. TypeOK /\ m.chid \in Chid /\ alive \subseteq Process
  BY DEF IInv, TypeOK, Messages
<1>4. ASSUME ~Known(p, m.chid) PROVE Misnumbered(m.chid) \/ ~Announced(m.chid)
  <2>1. m.chid \notin playing \/ Misnumbered(m.chid)
    BY <1>1, <1>3, <1>4, KnownChannels
  <2>2. m.chid < connected
    <3>1. connected = NChannels
      BY DEF ChannelsInv
    <3> QED
      BY <1>3, <3>1, AudioAssumption DEF Chid
  <2>3. ASSUME NEW i \in 1 .. Len(toSlave[p]), Connects(toSlave[p][i], m.chid)
        PROVE  ~Announced(m.chid)
    <3>1. i \in DOMAIN toSlave[p]
      BY <1>3 DEF TypeOK
    <3> QED
      BY <1>1, <2>3, <3>1 DEF Announced, Connects
  <2> QED
    BY <1>1, <1>3, <2>1, <2>2, <2>3 DEF ChannelsInv
<1>5. \A s \in Process : ~Takes(s)
  BY <1>1, <1>3, NothingTaken
<1>6. \A s \in alive \ alive' : s = p /\ ~Known(p, m.chid)
  BY <1>1
<1> QED
  BY <1>1, <1>2, <1>3, <1>4, <1>5, <1>6 DEF GivesUpFor

LEMMA ChannelsNext ==
    ASSUME IInv, ChannelsInv, NumbersInv, [Next]_vars
    PROVE  ChannelsInv' /\ NumbersInv' /\ [GivesUpFor]_vars
<1>1. CASE veMPAudioRun \/ AppNext \/ \E p \in Process : master_audio_cback(p)
  <2>1. ChannelsInv' /\ NumbersInv' /\ SlavesRest /\ alive \subseteq Process
    BY <1>1, ChannelsMaster DEF IInv, TypeOK
  <2> QED
    BY <2>1 DEF SlavesRest, GivesUpFor
<1>2. CASE \E p \in Process : SlaveNext(p)
  BY <1>2, ChannelsSlave
<1>3. CASE \E p \in Process, m \in updates : SlaveUpdate(p, m)
  BY <1>3, ChannelsUpdate
<1>4. CASE (\E m \in updates : LoseUpdate(m)) \/ (\E c \in Chid : channel_thread(c)) \/ UNCHANGED vars
  <2>1. UNCHANGED <<connected, held, toSlave, nthrs, playing, alive>> /\ updates' \subseteq updates
    BY <1>4 DEF LoseUpdate, channel_thread, masterVars, slaveVars, netVars, vars
  <2>2. ChannelsInv' /\ NumbersInv'
    BY <2>1, ChannelsSame DEF channelVars
  <2>3. alive \subseteq Process /\ \A s \in Process : ~Takes(s)
    BY <2>1, NothingTaken DEF IInv, TypeOK
  <2> QED
    BY <2>1, <2>2, <2>3 DEF GivesUpFor
<1> QED
  BY <1>1, <1>2, <1>3, <1>4 DEF Next

LEMMA ChannelsInit == Init => ChannelsInv /\ NumbersInv
<1> SUFFICES ASSUME Init PROVE ChannelsInv /\ NumbersInv
  OBVIOUS
<1>1. /\ held = {} /\ updates = {} /\ connected = 0 /\ playing = {}
      /\ \A p \in Process : toSlave[p] = <<>> /\ nthrs[p] = 0
  BY DEF Init
<1>2. \A c \in Chid : ~(c < 0) /\ 0 <= c
  BY AudioAssumption DEF Chid
<1>3. \A p \in Process : Rising(toSlave[p]) /\ StartInv(toSlave[p], Started(p))
  BY <1>1 DEF Rising, StartInv
<1>4. ChannelsInv
  BY <1>1, <1>2, <1>3 DEF ChannelsInv
<1>5. NumbersInv
  BY <1>1, <1>2 DEF NumbersInv
<1> QED
  BY <1>4, <1>5

\* Whatever process plays which channel and however updates overtake, a slave
\* gives up (ve_audio.c:471-472, 515-516, 541-542) for a gap in its channel ids or
\* for an update ahead of M_CHANNEL, and for nothing else; with a gap it does so as
\* soon as it hears of an instance.
THEOREM GiveUpsCorrect == Spec => SlavesGiveUp
<1>1. Init => IInv /\ ChannelsInv /\ NumbersInv
  BY InvInit, ChannelsInit
<1>2. IInv /\ ChannelsInv /\ NumbersInv /\ [Next]_vars => (IInv /\ ChannelsInv /\ NumbersInv)'
  BY InvNext, ChannelsNext
<1>3. IInv /\ ChannelsInv /\ NumbersInv /\ [Next]_vars => [GivesUpFor]_vars
  BY ChannelsNext
<1> QED
  BY <1>1, <1>2, <1>3, PTL DEF Spec, SlavesGiveUp

-----------------------------------------------------------------------------
(* Why StopEnds and AutoDispose come true: no instance is forgotten, and a  *)
(* stop reaches the instance it is for and no other.                        *)

\* An instance that is not finished, and whose process can still finish it.
Unfinished(c, k) == tab[c][k].inuse /\ ~tab[c][k].c1 /\ ProcOf[c] \in alive

\* An M_STOP of the row that comes after every M_NEW of it.
StopBehind(q, c, k) ==
    \E j \in 1 .. Len(q) :
        /\ About(q[j], "STOP", c, k)
        /\ \A i \in 1 .. Len(q) : About(q[i], "NEW", c, k) => i < j

\* An M_STOP that will find what an M_NEW before it puts into the row.
Late(q, j, c, k) == About(q[j], "STOP", c, k) /\ \E i \in 1 .. Len(q) : i < j /\ About(q[i], "NEW", c, k)
HasLate(q, c, k) == \E j \in 1 .. Len(q) : Late(q, j, c, k)
WhoseLate(q, c, k, n) == \A j \in 1 .. Len(q) : Late(q, j, c, k) => q[j].who = n

NotForgotten(c, k) ==
    Unfinished(c, k) =>
        \/ Holds(toSlave[ProcOf[c]], "NEW", c, k)
        \/ slot[c][k].inuse
        \/ Holds(toMaster[ProcOf[c]], "CLEAN", c, k)

StopKept(c, k) ==
    Unfinished(c, k) /\ tab[c][k].stopped =>
        \/ StopBehind(toSlave[ProcOf[c]], c, k)
        \/ slot[c][k].inuse /\ slot[c][k].next < 0
        \/ Holds(toMaster[ProcOf[c]], "CLEAN", c, k)

\* A row in use, or soon in use, hears only stops of its own instance.
StopMeant(c, k) ==
    LET down == toSlave[ProcOf[c]]  n == tab[c][k].who  s == tab[c][k].stopped
    IN  /\ slot[c][k].inuse =>
              Whose(down, "STOP", c, k, n) /\ (Holds(down, "STOP", c, k) => s)
        /\ WhoseLate(down, c, k, n) /\ (HasLate(down, c, k) => s)
        /\ slot[c][k].inuse /\ slot[c][k].next < 0 => s

GoInv(c, k) == NotForgotten(c, k) /\ StopKept(c, k) /\ StopMeant(c, k)
GoAll == \A c \in Chid, k \in Slot : GoInv(c, k)

\* A stream that has changed in nothing about instances of a row that begin or
\* are stopped.
Quiet(q, r, c, k) ==
    /\ Holds(r, "NEW", c, k) <=> Holds(q, "NEW", c, k)
    /\ StopBehind(q, c, k) => StopBehind(r, c, k)
    /\ Holds(r, "STOP", c, k) => Holds(q, "STOP", c, k)
    /\ HasLate(r, c, k) => HasLate(q, c, k)
    /\ \A n : /\ Whose(q, "STOP", c, k, n) => Whose(r, "STOP", c, k, n)
              /\ WhoseLate(q, c, k, n) => WhoseLate(r, c, k, n)

LEMMA QuietSame == \A q, c, k : Quiet(q, q, c, k)
BY DEF Quiet

LEMMA StopAppend ==
    ASSUME NEW q \in Seq(Messages), NEW m \in Messages, NEW c, NEW k
    PROVE  LET r == Append(q, m)
           IN  /\ StopBehind(q, c, k) /\ ~About(m, "NEW", c, k) => StopBehind(r, c, k)
               /\ About(m, "STOP", c, k) => StopBehind(r, c, k)
               /\ HasLate(r, c, k) =>
                    HasLate(q, c, k) \/ (About(m, "STOP", c, k) /\ Holds(q, "NEW", c, k))
               /\ \A n : WhoseLate(q, c, k, n) /\ (About(m, "STOP", c, k) => m.who = n) =>
                    WhoseLate(r, c, k, n)
<1> DEFINE r == Append(q, m)  e == Len(q) + 1
<1>1. /\ Len(r) = e /\ Len(q) \in Nat /\ r[e] = m
      /\ \A i \in 1 .. Len(q) : r[i] = q[i]
  OBVIOUS
<1> HIDE DEF r
<1>2. /\ \A i \in 1 .. Len(r) : i \in 1 .. Len(q) \/ i = e
      /\ \A i \in 1 .. Len(q) : i \in 1 .. Len(r) /\ i < e
      /\ e \in 1 .. Len(r)
  BY <1>1
<1> HIDE DEF e
<1>3. ~(About(m, "STOP", c, k) /\ About(m, "NEW", c, k))
  BY DEF About
<1>4. StopBehind(q, c, k) /\ ~About(m, "NEW", c, k) => StopBehind(r, c, k)
  BY <1>1, <1>2 DEF StopBehind
<1>5. About(m, "STOP", c, k) => StopBehind(r, c, k)
  BY <1>1, <1>2, <1>3 DEF StopBehind
<1>6. ASSUME NEW j \in 1 .. Len(r), Late(r, j, c, k)
      PROVE  \/ j \in 1 .. Len(q) /\ Late(q, j, c, k)
             \/ j = e /\ About(m, "STOP", c, k) /\ Holds(q, "NEW", c, k)
  <2>1. PICK i \in 1 .. Len(r) : i < j /\ About(r[i], "NEW", c, k)
    BY <1>6 DEF Late
  <2>2. i \in 1 .. Len(q) /\ r[i] = q[i]
    <3>1. i # e
      BY <1>1, <1>2, <2>1 DEF e
    <3> QED
      BY <1>1, <1>2, <3>1
  <2>3. CASE j = e
    BY <1>1, <1>6, <2>1, <2>2, <2>3 DEF Late, Holds
  <2>4. CASE j # e
    BY <1>1, <1>2, <1>6, <2>1, <2>2, <2>4 DEF Late
  <2> QED
    BY <2>3, <2>4
<1>7. HasLate(r, c, k) => HasLate(q, c, k) \/ (About(m, "STOP", c, k) /\ Holds(q, "NEW", c, k))
  BY <1>6 DEF HasLate
<1>8. \A n : WhoseLate(q, c, k, n) /\ (About(m, "STOP", c, k) => m.who = n) => WhoseLate(r, c, k, n)
  BY <1>1, <1>6 DEF WhoseLate
<1> QED
  BY <1>4, <1>5, <1>7, <1>8 DEF r

LEMMA StopTail ==
    ASSUME NEW q \in Seq(Messages), q # <<>>, NEW c, NEW k
    PROVE  LET r == Tail(q)  h == Head(q)
           IN  /\ \A tag : Holds(q, tag, c, k) /\ ~About(h, tag, c, k) => Holds(r, tag, c, k)
               /\ StopBehind(q, c, k) /\ ~About(h, "STOP", c, k) => StopBehind(r, c, k)
               /\ StopBehind(q, c, k) /\ Holds(r, "NEW", c, k) => StopBehind(r, c, k)
               /\ HasLate(r, c, k) => HasLate(q, c, k)
               /\ About(h, "NEW", c, k) /\ Holds(r, "STOP", c, k) => HasLate(q, c, k)
               /\ \A n : /\ WhoseLate(q, c, k, n) => WhoseLate(r, c, k, n)
                         /\ WhoseLate(q, c, k, n) /\ About(h, "NEW", c, k) =>
                              Whose(r, "STOP", c, k, n)
<1> DEFINE r == Tail(q)  h == Head(q)
<1>1. /\ Len(r) = Len(q) - 1 /\ Len(q) \in Nat \ {0} /\ h = q[1] /\ Len(r) \in Nat
      /\ \A i \in 1 .. Len(r) : r[i] = q[i + 1]
  OBVIOUS
<1> HIDE DEF r, h
<1>2. /\ \A i \in 1 .. Len(r) : i + 1 \in 1 .. Len(q) /\ 1 < i + 1 /\ i \in Int
      /\ 1 \in 1 .. Len(q)
  BY <1>1
<1>3. \A j \in 1 .. Len(q) : j = 1 \/ (j - 1 \in 1 .. Len(r) /\ r[j - 1] = q[j])
  BY <1>1
<1>4. \A tag : Holds(q, tag, c, k) /\ ~About(h, tag, c, k) => Holds(r, tag, c, k)
  BY <1>1, <1>3 DEF Holds
<1>5. ASSUME NEW j \in 1 .. Len(q), About(q[j], "STOP", c, k), j # 1,
             \A i \in 1 .. Len(q) : About(q[i], "NEW", c, k) => i < j
      PROVE  StopBehind(r, c, k)
  <2>1. j - 1 \in 1 .. Len(r) /\ About(r[j - 1], "STOP", c, k)
    BY <1>3, <1>5
  <2>2. ASSUME NEW i \in 1 .. Len(r), About(r[i], "NEW", c, k)
        PROVE  i < j - 1
    <3>1. i + 1 \in 1 .. Len(q) /\ About(q[i + 1], "NEW", c, k)
      BY <1>1, <1>2, <2>2
    <3>2. i + 1 < j
      BY <1>5, <3>1
    <3> QED
      BY <1>2, <3>2
  <2> QED
    BY <2>1, <2>2 DEF StopBehind
<1>6. StopBehind(q, c, k) /\ ~About(h, "STOP", c, k) => StopBehind(r, c, k)
  BY <1>1, <1>5 DEF StopBehind
<1>7. ASSUME StopBehind(q, c, k), Holds(r, "NEW", c, k)
      PROVE  StopBehind(r, c, k)
  <2>1. PICK j \in 1 .. Len(q) : About(q[j], "STOP", c, k) /\ \A i \in 1 .. Len(q) : About(q[i], "NEW", c, k) => i < j
    BY <1>7 DEF StopBehind
  <2>2. PICK i \in 1 .. Len(r) : About(r[i], "NEW", c, k)
    BY <1>7 DEF Holds
  <2>3. i + 1 < j /\ 1 < i + 1
    BY <1>1, <1>2, <2>1, <2>2
  <2>4. j # 1
    BY <1>2, <2>3
  <2> QED
    BY <1>5, <2>1, <2>4
<1>8. ASSUME NEW j \in 1 .. Len(r), Late(r, j, c, k)
      PROVE  Late(q, j + 1, c, k)
  <2>1. PICK i \in 1 .. Len(r) : i < j /\ About(r[i], "NEW", c, k)
    BY <1>8 DEF Late
  <2>2. i + 1 \in 1 .. Len(q) /\ i + 1 < j + 1 /\ About(q[i + 1], "NEW", c, k)
    BY <1>1, <1>2, <2>1
  <2>3. About(q[j + 1], "STOP", c, k)
    BY <1>1, <1>8 DEF Late
  <2> QED
    BY <2>2, <2>3 DEF Late
<1>9. ASSUME NEW j \in 1 .. Len(r), About(r[j], "STOP", c, k), About(h, "NEW", c, k)
      PROVE  Late(q, j + 1, c, k)
  BY <1>1, <1>2, <1>9 DEF Late
<1>10. HasLate(r, c, k) => HasLate(q, c, k)
  BY <1>2, <1>8 DEF HasLate
<1>11. About(h, "NEW", c, k) /\ Holds(r, "STOP", c, k) => HasLate(q, c, k)
  BY <1>2, <1>9 DEF HasLate, Holds
<1>12. \A n : WhoseLate(q, c, k, n) => WhoseLate(r, c, k, n)
  BY <1>1, <1>2, <1>8 DEF WhoseLate
<1>13. \A n : WhoseLate(q, c, k, n) /\ About(h, "NEW", c, k) => Whose(r, "STOP", c, k, n)
  BY <1>1, <1>2, <1>9 DEF WhoseLate, Whose
<1> QED
  BY <1>4, <1>6, <1>7, <1>10, <1>11, <1>12, <1>13 DEF r, h

\* No stop is late for a row that no M_NEW is under way for.
LEMMA NoneLate ==
    ASSUME NEW q, NEW c, NEW k, ~Holds(q, "NEW", c, k)
    PROVE  ~HasLate(q, c, k) /\ \A n : WhoseLate(q, c, k, n)
BY DEF Holds, HasLate, WhoseLate, Late
\* Messages that have to do with neither the start nor the stop of a row.
LEMMA QuietSend ==
    ASSUME TypeOK, NEW m \in Messages, Send(m), NEW c \in Chid, NEW k,
           ~About(m, "NEW", c, k), ~About(m, "STOP", c, k)
    PROVE  Quiet(toSlave[ProcOf[c]], toSlave'[ProcOf[c]], c, k)
<1>1. CASE ProcOf[c] = ProcOf[m.chid]
  <2> DEFINE q == toSlave[ProcOf[c]]  r == Append(q, m)
  <2>1. toSlave'[ProcOf[c]] = r /\ q \in Seq(Messages)
    BY <1>1, Typed DEF Send, TypeOK
  <2> HIDE DEF q
  <2>2. /\ Holds(r, "NEW", c, k) <=> Holds(q, "NEW", c, k)
        /\ Holds(r, "STOP", c, k) => Holds(q, "STOP", c, k)
        /\ \A n : Whose(q, "STOP", c, k, n) => Whose(r, "STOP", c, k, n)
    BY <2>1, AppendFacts
  <2>3. /\ StopBehind(q, c, k) => StopBehind(r, c, k)
        /\ HasLate(r, c, k) => HasLate(q, c, k)
        /\ \A n : WhoseLate(q, c, k, n) => WhoseLate(r, c, k, n)
    BY <2>1, StopAppend
  <2> QED
    BY <2>1, <2>2, <2>3 DEF Quiet, q
<1>2. CASE ProcOf[c] # ProcOf[m.chid]
  BY <1>2, Typed, QuietSame DEF Send, TypeOK
<1> QED
  BY <1>1, <1>2

LEMMA QuietTake ==
    ASSUME TypeOK, NEW p \in Process, toSlave[p] # <<>>,
           toSlave' = [toSlave EXCEPT ![p] = Tail(@)], NEW c \in Chid, NEW k,
           ~About(Head(toSlave[p]), "NEW", c, k), ~About(Head(toSlave[p]), "STOP", c, k)
    PROVE  Quiet(toSlave[ProcOf[c]], toSlave'[ProcOf[c]], c, k)
<1>1. CASE ProcOf[c] = p
  <2> DEFINE q == toSlave[p]  r == Tail(q)
  <2>1. toSlave'[p] = r /\ q \in Seq(Messages) /\ q # <<>>
    BY DEF TypeOK
  <2>2. ~About(Head(q), "NEW", c, k) /\ ~About(Head(q), "STOP", c, k)
    OBVIOUS
  <2> HIDE DEF q
  <2>3. /\ Holds(r, "NEW", c, k) => Holds(q, "NEW", c, k)
        /\ Holds(r, "STOP", c, k) => Holds(q, "STOP", c, k)
        /\ \A n : Whose(q, "STOP", c, k, n) => Whose(r, "STOP", c, k, n)
    BY <2>1, TailFacts
  <2>4. /\ Holds(q, "NEW", c, k) => Holds(r, "NEW", c, k)
        /\ StopBehind(q, c, k) => StopBehind(r, c, k)
        /\ HasLate(r, c, k) => HasLate(q, c, k)
        /\ \A n : WhoseLate(q, c, k, n) => WhoseLate(r, c, k, n)
    BY <2>1, <2>2, StopTail
  <2>5. Quiet(q, r, c, k)
    BY <2>3, <2>4 DEF Quiet
  <2> QED
    BY <1>1, <2>1, <2>5 DEF q
<1>2. CASE ProcOf[c] # p
  BY <1>2, Typed, QuietSame DEF TypeOK
<1> QED
  BY <1>1, <1>2

\* The master goes on with an instance as it is, or is done with one of which
\* nothing is left on the slave or on the way to it.
Onward(c, k) ==
    \/ /\ tab'[c][k].who = tab[c][k].who /\ tab'[c][k].stopped = tab[c][k].stopped
       /\ tab'[c][k].inuse /\ ~tab'[c][k].c1 => tab[c][k].inuse /\ ~tab[c][k].c1
    \/ /\ ~(tab'[c][k].inuse /\ ~tab'[c][k].c1)
       /\ ~slot[c][k].inuse /\ ~Holds(toSlave[ProcOf[c]], "NEW", c, k)

LEMMA GoKept ==
    ASSUME NEW c \in Chid, NEW k \in Slot, GoInv(c, k), alive' \subseteq alive, Onward(c, k),
           Quiet(toSlave[ProcOf[c]], toSlave'[ProcOf[c]], c, k),
           Holds(toMaster[ProcOf[c]], "CLEAN", c, k) =>
               \/ Holds(toMaster'[ProcOf[c]], "CLEAN", c, k)
               \/ ~(tab'[c][k].inuse /\ ~tab'[c][k].c1),
           slot'[c][k].inuse <=> slot[c][k].inuse,
           slot'[c][k].next < 0 <=> slot[c][k].next < 0
    PROVE  GoInv(c, k)'
<1>1. CASE /\ tab'[c][k].who = tab[c][k].who /\ tab'[c][k].stopped = tab[c][k].stopped
           /\ tab'[c][k].inuse /\ ~tab'[c][k].c1 => tab[c][k].inuse /\ ~tab[c][k].c1
  <2>1. Unfinished(c, k)' => Unfinished(c, k) /\ tab'[c][k].inuse /\ ~tab'[c][k].c1
    BY <1>1 DEF Unfinished
  <2>2. NotForgotten(c, k)'
    BY <2>1 DEF NotForgotten, GoInv, Quiet
  <2>3. StopKept(c, k)'
    BY <1>1, <2>1 DEF StopKept, GoInv, Quiet
  <2>4. StopMeant(c, k)'
    BY <1>1 DEF StopMeant, GoInv, Quiet
  <2> QED
    BY <2>2, <2>3, <2>4 DEF GoInv
<1>2. CASE /\ ~(tab'[c][k].inuse /\ ~tab'[c][k].c1)
           /\ ~slot[c][k].inuse /\ ~Holds(toSlave[ProcOf[c]], "NEW", c, k)
  <2>1. ~Unfinished(c, k)'
    BY <1>2 DEF Unfinished
  <2>2. ~Holds(toSlave'[ProcOf[c]], "NEW", c, k) /\ ~slot'[c][k].inuse
    BY <1>2 DEF Quiet
  <2>3. StopMeant(c, k)'
    BY <2>2, NoneLate DEF StopMeant
  <2> QED
    BY <2>1, <2>3 DEF GoInv, NotForgotten, StopKept
<1> QED
  BY <1>1, <1>2 DEF Onward

\* Steps of the master that send nothing.
LEMMA GoTables ==
    ASSUME GoAll, UNCHANGED <<slaveVars, toSlave, toMaster>>,
           \A c \in Chid, k \in Slot : Onward(c, k)
    PROVE  GoAll'
BY GoKept, QuietSame DEF GoAll, slaveVars

LEMMA OnwardSame ==
    ASSUME UNCHANGED tab
    PROVE  \A c \in Chid, k \in Slot : Onward(c, k)
BY DEF Onward

\* None of the edits of a row but the one of veAudioStop says that it is stopped.
LEMMA StoppedEdits ==
    ASSUME NEW x \in Rows
    PROVE  /\ [x EXCEPT !.c0 = TRUE].stopped = x.stopped
           /\ [x EXCEPT !.c1 = TRUE].stopped = x.stopped
           /\ [x EXCEPT !.waiting = @ + 1].stopped = x.stopped
           /\ [x EXCEPT !.waiting = @ - 1].stopped = x.stopped
           /\ [x EXCEPT !.stopped = TRUE].stopped = TRUE
BY DEF Rows

LEMMA CleanupOnward ==
    ASSUME TypeOK, IdInv, NEW c \in Chid, NEW k \in Slot, NEW r, Changed(c, k, r),
           cleanup_check(c, k, r), r.stopped = tab[c][k].stopped, tab[c][k].c1 => r.c1,
           r.c1 => ~slot[c][k].inuse /\ ~Holds(toSlave[ProcOf[c]], "NEW", c, k)
    PROVE  \A d \in Chid, j \in Slot : Onward(d, j)
<1>1. /\ \A d \in Chid, j \in Slot : d # c \/ j # k => tab'[d][j] = tab[d][j]
      /\ \/ Reusable(r) /\ tab'[c][k] = Unused
         \/ ~Reusable(r) /\ tab'[c][k] = r
  BY CleanupFacts
<1>2. CASE Reusable(r) /\ tab'[c][k] = Unused
  BY <1>1, <1>2 DEF Reusable, Unused, Onward
<1>3. CASE tab'[c][k] = r
  BY <1>1, <1>3 DEF Changed, Onward
<1> QED
  BY <1>1, <1>2, <1>3
LEMMA GoConnect ==
    ASSUME IInv, GoAll, veMPAudioRun
    PROVE  GoAll'
<1> DEFINE m == Message("CHANNEL", connected, 0, 0, 0)
<1>1. TypeOK /\ connected \in Chid
  <2>1. connected \in 0 .. NChannels /\ connected < NChannels /\ NChannels \in Nat
    BY AudioAssumption DEF IInv, TypeOK, veMPAudioRun
  <2> QED
    BY <2>1 DEF IInv, Chid
<1>2. m \in Messages /\ m.tag = "CHANNEL"
  BY <1>1, MessageFacts, Typed
<1>3. Send(m) /\ UNCHANGED <<tab, slaveVars, toMaster>>
  BY DEF veMPAudioRun
<1> HIDE DEF m
<1>4. ASSUME NEW c \in Chid, NEW k \in Slot
      PROVE  GoInv(c, k)'
  <2>1. Quiet(toSlave[ProcOf[c]], toSlave'[ProcOf[c]], c, k)
    BY <1>1, <1>2, <1>3, QuietSend DEF About
  <2>2. GoInv(c, k) /\ Onward(c, k)
    BY <1>3, OnwardSame DEF GoAll
  <2> QED
    BY <1>3, <2>1, <2>2, GoKept DEF slaveVars
<1> QED
  BY <1>4 DEF GoAll

\* A new instance begins with nothing on the slave or on the way, and its M_NEW
\* is behind every stop of earlier ones.
LEMMA GoInst ==
    ASSUME IInv, GoAll, NEW c \in Chid, NEW loop \in Loops, veAudioInst(c, loop)
    PROVE  GoAll'
<1>1. PICK k \in get_itable_id(c), i \in get_inst_id :
        \E moved \in MayMove(c, k) :
        /\ tab' = [tab EXCEPT ![c][k] =
                     [Unused EXCEPT !.inuse = TRUE, !.id = i, !.who = nInst + 1]]
        /\ spc' = [spc EXCEPT ![c] = grow_itable(@, k)]
        /\ instmap' = [instmap EXCEPT ![i] = [chid |-> c, itid |-> k]]
        /\ held' = held \cup {i}
        /\ MoveTable(c, moved)
        /\ Send(Message("NEW", c, k, loop, nInst + 1))
  BY DEF veAudioInst
<1> DEFINE m == Message("NEW", c, k, loop, nInst + 1)
           r == [Unused EXCEPT !.inuse = TRUE, !.id = i, !.who = nInst + 1]
<1>2. TypeOK /\ TokenInv
  BY DEF IInv
<1>3. k \in Slot /\ ~tab[c][k].inuse /\ i \in Id
  BY <1>1 DEF get_itable_id, get_inst_id
<1>4. nInst + 1 \in Nat
  BY <1>2, AudioAssumption DEF TypeOK, veAudioInst
<1>5. r \in Rows /\ r.stopped = FALSE
  BY <1>3, <1>4 DEF Unused, Rows
<1>6. m \in Messages /\ m.tag = "NEW" /\ m.chid = c /\ m.itid = k
  BY <1>3, <1>4, MessageFacts, AudioAssumption
<1>7. tab' = [tab EXCEPT ![c][k] = r] /\ Send(m) /\ UNCHANGED <<slaveVars, toMaster>>
  BY <1>1 DEF veAudioInst
<1> HIDE DEF m, r
<1>8. tab'[c][k] = r /\ \A d \in Chid, j \in Slot : d # c \/ j # k => tab'[d][j] = tab[d][j]
  BY <1>2, <1>3, <1>5, <1>7, SetRow, Typed DEF Tables
<1>9. ASSUME NEW d \in Chid, NEW j \in Slot
      PROVE  GoInv(d, j)'
  <2>1. CASE d # c \/ j # k
    <3>1. Quiet(toSlave[ProcOf[d]], toSlave'[ProcOf[d]], d, j)
      BY <1>2, <1>6, <1>7, <2>1, QuietSend DEF About
    <3>2. GoInv(d, j) /\ Onward(d, j)
      BY <1>8, <2>1 DEF GoAll, Onward
    <3> QED
      BY <1>7, <3>1, <3>2, GoKept DEF slaveVars
  <2>2. CASE d = c /\ j = k
    <3> DEFINE q == toSlave[ProcOf[c]]  s == Append(q, m)
    <3>1. q \in Seq(Messages) /\ toSlave'[ProcOf[c]] = s
      BY <1>2, <1>6, <1>7, Typed DEF Send, TypeOK
    <3>2. ~Holds(q, "NEW", c, k) /\ ~slot[c][k].inuse
      BY <1>2, <1>3 DEF TokenInv, RowInv
    <3> HIDE DEF q
    <3>3. About(m, "NEW", c, k) /\ ~About(m, "STOP", c, k)
      BY <1>6 DEF About
    <3>4. Holds(s, "NEW", c, k)
      BY <1>6, <3>1, <3>3, AppendFacts
    <3>5. ~HasLate(s, c, k)
      BY <1>6, <3>1, <3>2, <3>3, StopAppend, NoneLate
    <3>6. \A n : WhoseLate(s, c, k, n)
      BY <3>5 DEF HasLate, WhoseLate
    <3>7. NotForgotten(c, k)'
      BY <3>1, <3>4 DEF NotForgotten
    <3>8. StopKept(c, k)'
      BY <1>5, <1>8 DEF StopKept
    <3>9. StopMeant(c, k)'
      BY <1>7, <3>1, <3>2, <3>5, <3>6 DEF StopMeant, slaveVars
    <3> QED
      BY <2>2, <3>7, <3>8, <3>9 DEF GoInv
  <2> QED
    BY <2>1, <2>2
<1> QED
  BY <1>9 DEF GoAll

\* An M_STOP is behind the M_NEW of its instance, and names it.
LEMMA GoStop ==
    ASSUME IInv, GoAll, NEW i \in Id, NEW clean \in BOOLEAN, veAudioStop(i, clean)
    PROVE  GoAll'
<1>2. TypeOK /\ IdInv /\ TokenInv /\ i \in held
  BY DEF IInv, veAudioStop
<1> PICK c \in Chid, k \in Slot : c = instmap[i].chid /\ k = instmap[i].itid
  BY <1>2, HeldRow
<1> DEFINE r == [find_inst(i) EXCEPT !.stopped = TRUE]
           s == [r EXCEPT !.c0 = TRUE]  m == Message("STOP", c, k, 0, r.who)
<1>1. /\ Send(m)
      /\ \/ cleanup_check(c, k, s)
         \/ tab' = [tab EXCEPT ![c][k] = r]
      /\ UNCHANGED <<slaveVars, toMaster>>
  BY DEF veAudioStop
<1>3. find_inst(i) = tab[c][k] /\ tab[c][k] \in Rows /\ tab[c][k].inuse
  BY <1>2, HeldRow
<1>4. /\ r \in Rows /\ r.inuse = tab[c][k].inuse /\ r.id = tab[c][k].id /\ r.c1 = tab[c][k].c1
      /\ r.who = tab[c][k].who /\ r.stopped = TRUE
  <2>1. r = [tab[c][k] EXCEPT !.stopped = TRUE]
    BY <1>3
  <2> HIDE DEF r
  <2> QED
    BY <1>3, <2>1, RowEdits, StoppedEdits
<1>5. r.who \in Nat
  BY <1>4 DEF Rows
<1>6. m \in Messages /\ m.tag = "STOP" /\ m.chid = c /\ m.itid = k /\ m.who = tab[c][k].who
  <2> HIDE DEF r
  <2> QED
    BY <1>2, <1>4, <1>5, MessageFacts
<1> HIDE DEF m, r
<1>7. /\ s \in Rows /\ s.inuse = r.inuse /\ s.id = r.id /\ s.c1 = r.c1 /\ s.who = r.who
      /\ s.stopped = TRUE
  BY <1>4, RowEdits, StoppedEdits
<1>8. Changed(c, k, s)
  BY <1>3, <1>4, <1>7 DEF Changed
<1> HIDE DEF s
<1>9. /\ \A d \in Chid, j \in Slot : d # c \/ j # k => tab'[d][j] = tab[d][j]
      /\ \/ /\ tab'[c][k].who = tab[c][k].who /\ tab'[c][k].stopped = TRUE
            /\ tab'[c][k].inuse = tab[c][k].inuse /\ tab'[c][k].c1 = tab[c][k].c1
         \/ ~tab'[c][k].inuse /\ tab[c][k].c1
  <2>1. CASE cleanup_check(c, k, s)
    <3>1. /\ \A d \in Chid, j \in Slot : d # c \/ j # k => tab'[d][j] = tab[d][j]
          /\ \/ Reusable(s) /\ tab'[c][k] = Unused
             \/ tab'[c][k] = s
      BY <1>2, <1>8, <2>1, CleanupFacts
    <3>2. CASE Reusable(s) /\ tab'[c][k] = Unused
      BY <1>4, <1>7, <3>1, <3>2 DEF Reusable, Unused
    <3>3. CASE tab'[c][k] = s
      BY <1>4, <1>7, <3>1, <3>3
    <3> QED
      BY <3>1, <3>2, <3>3
  <2>2. CASE tab' = [tab EXCEPT ![c][k] = r]
    <3>1. /\ tab'[c][k] = r
          /\ \A d \in Chid, j \in Slot : d # c \/ j # k => tab'[d][j] = tab[d][j]
      BY <1>2, <1>4, <2>2, SetRow, Typed DEF Tables
    <3> QED
      BY <1>4, <3>1
  <2> QED
    BY <1>1, <2>1, <2>2
<1>10. ASSUME NEW d \in Chid, NEW j \in Slot
       PROVE  GoInv(d, j)'
  <2>1. CASE d # c \/ j # k
    <3>1. Quiet(toSlave[ProcOf[d]], toSlave'[ProcOf[d]], d, j)
      BY <1>1, <1>2, <1>6, <2>1, QuietSend DEF About
    <3>2. GoInv(d, j) /\ Onward(d, j)
      BY <1>9, <2>1 DEF GoAll, Onward
    <3> QED
      BY <1>1, <3>1, <3>2, GoKept DEF slaveVars
  <2>2. CASE d = c /\ j = k
    <3> DEFINE q == toSlave[ProcOf[c]]  x == Append(q, m)  n == tab[c][k].who
    <3>1. q \in Seq(Messages) /\ toSlave'[ProcOf[c]] = x
      BY <1>1, <1>2, <1>6, Typed DEF Send, TypeOK
    <3>2. GoInv(c, k) /\ RowInv(c, k)
      BY <1>2 DEF GoAll, TokenInv
    <3>3. /\ Holds(q, "NEW", c, k) \/ slot[c][k].inuse => tab[c][k].inuse /\ ~tab[c][k].c1
          /\ slot[c][k].inuse => Whose(q, "STOP", c, k, n)
          /\ WhoseLate(q, c, k, n)
      BY <3>2 DEF GoInv, StopMeant, RowInv
    <3>4. NotForgotten(c, k)
      BY <3>2 DEF GoInv
    <3>5. n = m.who
      BY <1>6
    <3> HIDE DEF q, n
    <3>6. About(m, "STOP", c, k) /\ ~About(m, "NEW", c, k)
      BY <1>6 DEF About
    <3>7. /\ Holds(x, "NEW", c, k) <=> Holds(q, "NEW", c, k)
          /\ slot[c][k].inuse => Whose(x, "STOP", c, k, n)
      BY <1>6, <3>1, <3>3, <3>5, <3>6, AppendFacts
    <3>8. StopBehind(x, c, k) /\ WhoseLate(x, c, k, n)
      BY <1>6, <3>1, <3>3, <3>5, <3>6, StopAppend
    <3>9. CASE ~tab'[c][k].inuse /\ tab[c][k].c1
      <4>1. ~Holds(x, "NEW", c, k) /\ ~slot'[c][k].inuse
        BY <1>1, <3>3, <3>7, <3>9 DEF slaveVars
      <4>2. StopMeant(c, k)'
        BY <3>1, <4>1, NoneLate DEF StopMeant
      <4> QED
        BY <2>2, <3>9, <4>2 DEF GoInv, NotForgotten, StopKept, Unfinished
    <3>10. CASE /\ tab'[c][k].who = tab[c][k].who /\ tab'[c][k].stopped = TRUE
                /\ tab'[c][k].inuse = tab[c][k].inuse /\ tab'[c][k].c1 = tab[c][k].c1
      <4>1. NotForgotten(c, k)'
        <5>1. Unfinished(c, k)' => Unfinished(c, k)
          BY <1>1, <3>10 DEF Unfinished, slaveVars
        <5> QED
          BY <1>1, <3>1, <3>4, <3>7, <5>1 DEF NotForgotten, slaveVars, q
      <4>2. StopKept(c, k)'
        BY <3>1, <3>8 DEF StopKept
      <4>3. StopMeant(c, k)'
        BY <1>1, <3>1, <3>7, <3>8, <3>10 DEF StopMeant, slaveVars, n
      <4> QED
        BY <2>2, <4>1, <4>2, <4>3 DEF GoInv
    <3> QED
      BY <1>9, <2>2, <3>9, <3>10
  <2> QED
    BY <2>1, <2>2
<1> QED
  BY <1>10 DEF GoAll
\* Waiting, cleaning and updating: a row is given up only when it is finished.
LEMMA GoWait ==
    ASSUME IInv, GoAll, NEW t \in Thread, WaitNext(t)
    PROVE  GoAll'
<1>1. TypeOK /\ TokenInv /\ IdInv /\ WaitInv
  BY DEF IInv
<1>2. UNCHANGED <<slaveVars, toSlave>>
  BY WaitLeaves
<1>3. ASSUME NEW i \in Id, WaitDone(t, i)
      PROVE  GoAll'
  BY <1>2, <1>3, GoTables, OnwardSame DEF WaitDone, netVars
<1>4. ASSUME NEW i \in Id, WaitAsleep(t, i)
      PROVE  GoAll'
  <2>1. i \in held
    BY <1>4 DEF WaitAsleep
  <2> PICK c \in Chid, k \in Slot : c = instmap[i].chid /\ k = instmap[i].itid
    BY <1>1, <2>1, HeldRow
  <2> DEFINE r == [tab[c][k] EXCEPT !.waiting = @ + 1]
  <2>2. tab' = [tab EXCEPT ![c][k] = r] /\ UNCHANGED toMaster
    BY <1>4 DEF WaitAsleep, netVars
  <2>3. tab[c][k] \in Rows
    BY <1>1, Typed
  <2>4. /\ r \in Rows /\ r.inuse = tab[c][k].inuse /\ r.c1 = tab[c][k].c1
        /\ r.who = tab[c][k].who /\ r.stopped = tab[c][k].stopped
    BY <2>3, RowEdits, StoppedEdits
  <2> HIDE DEF r
  <2>5. tab'[c][k] = r /\ \A d \in Chid, j \in Slot : d # c \/ j # k => tab'[d][j] = tab[d][j]
    BY <1>1, <2>2, <2>4, SetRow, Typed DEF Tables
  <2>6. \A d \in Chid, j \in Slot : Onward(d, j)
    BY <2>4, <2>5 DEF Onward
  <2> QED
    BY <1>2, <2>2, <2>6, GoTables
<1>5. CASE SpuriousWakeup(t) \/ SleepAgain(t)
  <2>1. UNCHANGED <<tab, toMaster>>
    BY <1>5 DEF SpuriousWakeup, SleepAgain, netVars
  <2> QED
    BY <1>2, <2>1, GoTables, OnwardSame
<1>6. CASE WaitReturnsStale(t)
  <2>1. UNCHANGED <<tab, toMaster>>
    BY <1>6 DEF WaitReturnsStale, Return, netVars
  <2> QED
    BY <1>2, <2>1, GoTables, OnwardSame
<1>7. CASE WaitReturns(t)
  <2>1. at[t] = "woken"
    BY <1>7 DEF WaitReturns
  <2> PICK c \in Chid, k \in Slot : c = wait[t].chid /\ k = wait[t].itid
    BY <1>1, <2>1 DEF WaitInv
  <2> DEFINE r == [tab[c][k] EXCEPT !.waiting = @ - 1]
  <2>2. tab[c][k].c1 /\ cleanup_check(c, k, r) /\ UNCHANGED toMaster
    BY <1>7 DEF WaitReturns, Return, netVars
  <2>3. tab[c][k] \in Rows /\ tab[c][k].inuse
    BY <1>1, <2>1, Typed DEF WaitInv, WaitedForKept
  <2>4. tab[c][k].waiting >= 1
    <3>1. t \in Waiters(c, k)
      BY <2>1 DEF Waiters
    <3> QED
      BY <1>1, <3>1, WaitersFacts
  <2>5. /\ r \in Rows /\ r.inuse = tab[c][k].inuse /\ r.id = tab[c][k].id /\ r.c1 = tab[c][k].c1
        /\ r.who = tab[c][k].who /\ r.stopped = tab[c][k].stopped
    BY <2>3, <2>4, RowEdits, StoppedEdits
  <2> HIDE DEF r
  <2>6. Changed(c, k, r)
    BY <2>3, <2>5 DEF Changed
  <2>7. ~slot[c][k].inuse /\ ~Holds(toSlave[ProcOf[c]], "NEW", c, k)
    BY <1>1, <2>2 DEF TokenInv, RowInv
  <2>8. \A d \in Chid, j \in Slot : Onward(d, j)
    BY <1>1, <2>2, <2>5, <2>6, <2>7, CleanupOnward
  <2> QED
    BY <1>2, <2>2, <2>8, GoTables
<1> QED
  BY <1>3, <1>4, <1>5, <1>6, <1>7 DEF WaitNext

LEMMA GoClean ==
    ASSUME IInv, GoAll, NEW i \in Id, veAudioClean(i)
    PROVE  GoAll'
<1>1. TypeOK /\ TokenInv /\ IdInv /\ i \in held /\ UNCHANGED <<slaveVars, toSlave, toMaster>>
  BY DEF IInv, veAudioClean, netVars
<1> PICK c \in Chid, k \in Slot : c = instmap[i].chid /\ k = instmap[i].itid
  BY <1>1, HeldRow
<1> DEFINE r == [find_inst(i) EXCEPT !.c0 = TRUE]
<1>2. cleanup_check(c, k, r)
  BY DEF veAudioClean, AppCleans
<1>3. find_inst(i) = tab[c][k] /\ tab[c][k] \in Rows /\ tab[c][k].inuse
  BY <1>1, HeldRow
<1>4. /\ r \in Rows /\ r.inuse = tab[c][k].inuse /\ r.id = tab[c][k].id /\ r.c1 = tab[c][k].c1
      /\ r.who = tab[c][k].who /\ r.stopped = tab[c][k].stopped
  <2>1. r = [tab[c][k] EXCEPT !.c0 = TRUE]
    BY <1>3
  <2> HIDE DEF r
  <2> QED
    BY <1>3, <2>1, RowEdits, StoppedEdits
<1> HIDE DEF r
<1>5. Changed(c, k, r)
  BY <1>3, <1>4 DEF Changed
<1>6. tab[c][k].c1 => ~slot[c][k].inuse /\ ~Holds(toSlave[ProcOf[c]], "NEW", c, k)
  BY <1>1 DEF TokenInv, RowInv
<1>7. \A d \in Chid, j \in Slot : Onward(d, j)
  BY <1>1, <1>2, <1>4, <1>5, <1>6, CleanupOnward
<1> QED
  BY <1>1, <1>7, GoTables

LEMMA GoUpdate ==
    ASSUME GoAll, NEW i \in Id, NEW loop \in Loops, veAudioUpdate(i, loop)
    PROVE  GoAll'
BY GoTables, OnwardSame DEF veAudioUpdate

\* A report that an instance is finished ends it, and no other.
LEMMA GoReport ==
    ASSUME IInv, GoAll, NEW p \in Process, master_audio_cback(p)
    PROVE  GoAll'
<1>1. TypeOK /\ TokenInv /\ StreamInv /\ IdInv
  BY DEF IInv, TokenInv
<1>2. /\ toMaster[p] # <<>> /\ toMaster' = [toMaster EXCEPT ![p] = Tail(@)]
      /\ UNCHANGED <<slaveVars, toSlave>>
  BY DEF master_audio_cback
<1>3. /\ Head(toMaster[p]) \in Messages /\ ProcOf[Head(toMaster[p]).chid] = p
      /\ Head(toMaster[p]).tag = "CLEAN"
  BY <1>1, <1>2, TakeClean
<1>4. PICK c \in Chid, k \in Slot : c = Head(toMaster[p]).chid /\ k = Head(toMaster[p]).itid
  BY <1>3 DEF Messages
<1>5. /\ toMaster[p] \in Seq(Messages) /\ toMaster'[p] = Tail(toMaster[p]) /\ ProcOf[c] = p
      /\ About(Head(toMaster[p]), "CLEAN", c, k) /\ RowInv(c, k)
  BY <1>1, <1>2, <1>3, <1>4 DEF About, TypeOK, TokenInv
<1>6. /\ tab[c][k].inuse /\ ~slot[c][k].inuse /\ ~Holds(toSlave[ProcOf[c]], "NEW", c, k)
  BY <1>2, <1>5, TailFacts DEF RowInv
<1> DEFINE r == [tab[c][k] EXCEPT !.c1 = TRUE]
<1>7. cleanup_check(c, k, r)
  BY <1>4, <1>6 DEF master_audio_cback
<1>8. /\ r \in Rows /\ r.inuse = tab[c][k].inuse /\ r.id = tab[c][k].id /\ r.c1 = TRUE
      /\ r.who = tab[c][k].who /\ r.stopped = tab[c][k].stopped
  <2>1. tab[c][k] \in Rows
    BY <1>1, Typed
  <2> QED
    BY <2>1, RowEdits, StoppedEdits
<1> HIDE DEF r
<1>9. Changed(c, k, r)
  BY <1>6, <1>8 DEF Changed
<1>10. \A d \in Chid, j \in Slot : Onward(d, j)
  BY <1>1, <1>6, <1>7, <1>8, <1>9, CleanupOnward
<1>11. ~(tab'[c][k].inuse /\ ~tab'[c][k].c1)
  <2>1. tab'[c][k] = Unused \/ tab'[c][k] = r
    BY <1>1, <1>7, <1>9, CleanupFacts
  <2> QED
    BY <1>8, <2>1 DEF Unused
<1>12. ASSUME NEW d \in Chid, NEW j \in Slot
       PROVE  GoInv(d, j)'
  <2>1. Holds(toMaster[ProcOf[d]], "CLEAN", d, j) =>
            Holds(toMaster'[ProcOf[d]], "CLEAN", d, j) \/ (d = c /\ j = k)
    <3>1. CASE ProcOf[d] # p
      BY <1>2, <3>1, Typed, <1>1 DEF TypeOK
    <3>2. CASE ProcOf[d] = p /\ ~(d = c /\ j = k)
      <4>1. ~About(Head(toMaster[p]), "CLEAN", d, j)
        BY <1>4, <3>2 DEF About
      <4> QED
        BY <1>2, <1>5, <3>2, <4>1, StopTail
    <3> QED
      BY <3>1, <3>2
  <2>2. Quiet(toSlave[ProcOf[d]], toSlave'[ProcOf[d]], d, j)
    BY <1>2, QuietSame
  <2>3. GoInv(d, j) /\ Onward(d, j)
    BY <1>10 DEF GoAll
  <2> QED
    BY <1>2, <1>11, <2>1, <2>2, <2>3, GoKept DEF slaveVars
<1> QED
  BY <1>12 DEF GoAll
\* A process that gives up finishes none of its instances any more.
LEMMA GoGiveUp ==
    ASSUME TypeOK, GoAll, NEW p \in Process, GiveUp(p), UNCHANGED <<masterVars, toMaster>>,
           \/ UNCHANGED toSlave
           \/ toSlave[p] # <<>> /\ toSlave' = [toSlave EXCEPT ![p] = Tail(@)]
    PROVE  GoAll'
<1>1. alive' = alive \ {p} /\ UNCHANGED <<tab, slot, toMaster>>
  BY DEF GiveUp, masterVars
<1>2. ASSUME NEW c \in Chid, NEW k \in Slot
      PROVE  GoInv(c, k)'
  <2>1. GoInv(c, k) /\ Onward(c, k) /\ ProcOf[c] \in Process
    BY <1>1, OnwardSame, Typed DEF GoAll
  <2>2. CASE UNCHANGED toSlave
    BY <1>1, <2>1, <2>2, GoKept, QuietSame
  <2>3. CASE toSlave[p] # <<>> /\ toSlave' = [toSlave EXCEPT ![p] = Tail(@)]
    <3>1. CASE ProcOf[c] # p
      <4>1. toSlave'[ProcOf[c]] = toSlave[ProcOf[c]]
        BY <2>1, <2>3, <3>1 DEF TypeOK
      <4> QED
        BY <1>1, <2>1, <4>1, GoKept, QuietSame
    <3>2. CASE ProcOf[c] = p
      <4> DEFINE q == toSlave[p]  r == Tail(q)
      <4>1. q \in Seq(Messages) /\ q # <<>> /\ toSlave'[p] = r
        BY <2>3 DEF TypeOK
      <4> HIDE DEF q
      <4>2. /\ Holds(r, "STOP", c, k) => Holds(q, "STOP", c, k)
            /\ \A n : Whose(q, "STOP", c, k, n) => Whose(r, "STOP", c, k, n)
        BY <4>1, TailFacts
      <4>3. /\ HasLate(r, c, k) => HasLate(q, c, k)
            /\ \A n : WhoseLate(q, c, k, n) => WhoseLate(r, c, k, n)
        BY <4>1, StopTail
      <4>4. StopMeant(c, k)'
        BY <1>1, <2>1, <3>2, <4>1, <4>2, <4>3 DEF GoInv, StopMeant, q
      <4>5. ~Unfinished(c, k)'
        BY <1>1, <3>2 DEF Unfinished
      <4> QED
        BY <4>4, <4>5 DEF GoInv, NotForgotten, StopKept
    <3> QED
      BY <3>1, <3>2
  <2> QED
    BY <2>2, <2>3
<1> QED
  BY <1>2 DEF GoAll

LEMMA GoSlaveChannel ==
    ASSUME IInv, GoAll, NEW p \in Process, SlaveChannel(p)
    PROVE  GoAll'
<1>1. /\ toSlave[p] # <<>> /\ toSlave' = [toSlave EXCEPT ![p] = Tail(@)]
      /\ UNCHANGED <<masterVars, toMaster>> /\ Head(toSlave[p]).tag = "CHANNEL" /\ TypeOK
  BY ReceivedIsMessage DEF SlaveChannel
<1>2. UNCHANGED <<alive, slot, tab>>
  BY <1>1 DEF SlaveChannel, masterVars
<1>3. ASSUME NEW c \in Chid, NEW k \in Slot
      PROVE  GoInv(c, k)'
  <2>1. Quiet(toSlave[ProcOf[c]], toSlave'[ProcOf[c]], c, k)
    BY <1>1, QuietTake DEF About
  <2>2. GoInv(c, k) /\ Onward(c, k)
    BY <1>2, OnwardSame DEF GoAll
  <2> QED
    BY <1>1, <1>2, <2>1, <2>2, GoKept
<1> QED
  BY <1>3 DEF GoAll

\* The row of the instance that begins was free: what stops are on their way to
\* it came after the M_NEW, so they are for this instance.
LEMMA GoSlaveNew ==
    ASSUME IInv, GoAll, NEW p \in Process, SlaveNew(p)
    PROVE  GoAll'
<1>1. /\ toSlave[p] # <<>> /\ toSlave' = [toSlave EXCEPT ![p] = Tail(@)]
      /\ UNCHANGED <<masterVars, toMaster>>
      /\ Head(toSlave[p]) \in Messages /\ Head(toSlave[p]).tag = "NEW"
      /\ toSlave[p] \in Seq(Messages) /\ toSlave'[p] = Tail(toSlave[p])
      /\ ProcOf[Head(toSlave[p]).chid] = p
      /\ TypeOK /\ TokenInv
  BY ReceivedIsMessage DEF SlaveNew
<1>2. CASE GiveUp(p)
  BY <1>1, <1>2, GoGiveUp
<1>3. CASE ~GiveUp(p)
  <2>1. PICK c \in Chid, k \in Slot : c = Head(toSlave[p]).chid /\ k = Head(toSlave[p]).itid
    BY <1>1 DEF Messages
  <2>2. PICK n \in Nat, l \in Int : n = Head(toSlave[p]).who /\ l = Head(toSlave[p]).loop
    BY <1>1 DEF Messages
  <2> DEFINE x == [inuse |-> TRUE, next |-> 0, loop |-> l, who |-> n]
  <2>3. slot' = [slot EXCEPT ![c][k] = x] /\ UNCHANGED <<alive, tab, toMaster>>
    BY <1>1, <1>3, <2>1, <2>2 DEF SlaveNew, masterVars
  <2>4. x \in Played /\ x.inuse = TRUE /\ x.next = 0
    BY AudioAssumption DEF Played
  <2> HIDE DEF x
  <2>5. slot'[c][k] = x /\ \A d \in Chid, j \in Slot : d # c \/ j # k => slot'[d][j] = slot[d][j]
    BY <1>1, <2>3, <2>4, SetRow, Typed
  <2>6. ASSUME NEW d \in Chid, NEW j \in Slot
        PROVE  GoInv(d, j)'
    <3>1. GoInv(d, j) /\ RowInv(d, j) /\ Onward(d, j)
      BY <1>1, <2>3, OnwardSame DEF GoAll, TokenInv
    <3>2. CASE d # c \/ j # k
      <4>1. Quiet(toSlave[ProcOf[d]], toSlave'[ProcOf[d]], d, j)
        BY <1>1, <2>1, <3>2, QuietTake DEF About
      <4> QED
        BY <2>3, <2>5, <3>1, <3>2, <4>1, GoKept
    <3>3. CASE d = c /\ j = k
      <4> DEFINE q == toSlave[p]  r == Tail(q)
      <4>1. q \in Seq(Messages) /\ q # <<>> /\ toSlave'[p] = r /\ ProcOf[c] = p
        BY <1>1, <2>1
      <4>2. About(Head(q), "NEW", c, k) /\ ~About(Head(q), "STOP", c, k)
        BY <1>1, <2>1 DEF About
      <4> HIDE DEF q
      <4>3. Holds(q, "NEW", c, k)
        BY <4>1, <4>2, TailFacts
      <4>4. ~slot[c][k].inuse /\ ~Holds(toMaster[p], "CLEAN", c, k)
        BY <3>1, <3>3, <4>1, <4>3 DEF RowInv, q
      <4>5. /\ StopBehind(q, c, k) => StopBehind(r, c, k)
            /\ HasLate(r, c, k) => HasLate(q, c, k)
            /\ Holds(r, "STOP", c, k) => HasLate(q, c, k)
            /\ \A who : WhoseLate(q, c, k, who) =>
                          WhoseLate(r, c, k, who) /\ Whose(r, "STOP", c, k, who)
        BY <4>1, <4>2, StopTail
      <4>6. NotForgotten(c, k)'
        BY <2>4, <2>5 DEF NotForgotten
      <4>7. Unfinished(c, k)' => Unfinished(c, k)
        BY <2>3 DEF Unfinished
      <4>8. StopKept(c, k)'
        BY <2>3, <3>1, <3>3, <4>1, <4>4, <4>5, <4>7 DEF GoInv, StopKept, q
      <4>9. /\ WhoseLate(q, c, k, tab[c][k].who)
            /\ HasLate(q, c, k) => tab[c][k].stopped
        BY <3>1, <3>3, <4>1 DEF GoInv, StopMeant, q
      <4>10. StopMeant(c, k)'
        <5>1. ~(slot'[c][k].next < 0)
          BY <2>4, <2>5
        <5> QED
          BY <2>3, <4>1, <4>5, <4>9, <5>1 DEF StopMeant
      <4> QED
        BY <3>3, <4>6, <4>8, <4>10 DEF GoInv
    <3> QED
      BY <3>2, <3>3
  <2> QED
    BY <2>6 DEF GoAll
<1> QED
  BY <1>2, <1>3

\* A stop that finds its row in use was meant for it; one that finds it free
\* comes too late, when the instance has ended of itself.
LEMMA GoSlaveStop ==
    ASSUME IInv, GoAll, NEW p \in Process, SlaveStop(p)
    PROVE  GoAll'
<1>1. /\ toSlave[p] # <<>> /\ toSlave' = [toSlave EXCEPT ![p] = Tail(@)]
      /\ UNCHANGED <<masterVars, toMaster>>
      /\ Head(toSlave[p]) \in Messages /\ Head(toSlave[p]).tag = "STOP"
      /\ toSlave[p] \in Seq(Messages) /\ toSlave'[p] = Tail(toSlave[p])
      /\ ProcOf[Head(toSlave[p]).chid] = p
      /\ TypeOK /\ TokenInv
  BY ReceivedIsMessage DEF SlaveStop
<1>2. CASE GiveUp(p)
  BY <1>1, <1>2, GoGiveUp
<1>3. CASE ~GiveUp(p)
  <2>1. PICK c \in Chid, k \in Slot : c = Head(toSlave[p]).chid /\ k = Head(toSlave[p]).itid
    BY <1>1 DEF Messages
  <2> DEFINE x == IF slot[c][k].inuse THEN [slot[c][k] EXCEPT !.next = -1] ELSE slot[c][k]
  <2>2. slot' = [slot EXCEPT ![c][k] = x] /\ UNCHANGED <<alive, tab, toMaster>>
    BY <1>1, <1>3, <2>1 DEF SlaveStop, masterVars
  <2>3. slot[c][k] \in Played
    BY <1>1, Typed
  <2>4. x \in Played /\ x.inuse = slot[c][k].inuse /\ (x.inuse => x.next = -1)
    BY <2>3, AudioAssumption DEF Played
  <2> HIDE DEF x
  <2>5. slot'[c][k] = x /\ \A d \in Chid, j \in Slot : d # c \/ j # k => slot'[d][j] = slot[d][j]
    BY <1>1, <2>2, <2>4, SetRow, Typed
  <2>6. ASSUME NEW d \in Chid, NEW j \in Slot
        PROVE  GoInv(d, j)'
    <3>1. GoInv(d, j) /\ RowInv(d, j) /\ Onward(d, j)
      BY <1>1, <2>2, OnwardSame DEF GoAll, TokenInv
    <3>2. CASE d # c \/ j # k
      <4>1. Quiet(toSlave[ProcOf[d]], toSlave'[ProcOf[d]], d, j)
        BY <1>1, <2>1, <3>2, QuietTake DEF About
      <4> QED
        BY <2>2, <2>5, <3>1, <3>2, <4>1, GoKept
    <3>3. CASE d = c /\ j = k
      <4> DEFINE q == toSlave[p]  r == Tail(q)
      <4>1. q \in Seq(Messages) /\ q # <<>> /\ toSlave'[p] = r /\ ProcOf[c] = p
        BY <1>1, <2>1
      <4>2. About(Head(q), "STOP", c, k) /\ ~About(Head(q), "NEW", c, k)
        BY <1>1, <2>1 DEF About
      <4> HIDE DEF q
      <4>3. /\ Holds(q, "STOP", c, k)
            /\ Holds(r, "STOP", c, k) => Holds(q, "STOP", c, k)
            /\ \A n : Whose(q, "STOP", c, k, n) => Whose(r, "STOP", c, k, n)
        BY <4>1, <4>2, TailFacts
      <4>4. /\ Holds(q, "NEW", c, k) => Holds(r, "NEW", c, k)
            /\ StopBehind(q, c, k) /\ Holds(r, "NEW", c, k) => StopBehind(r, c, k)
            /\ HasLate(r, c, k) => HasLate(q, c, k)
            /\ \A n : WhoseLate(q, c, k, n) => WhoseLate(r, c, k, n)
        BY <4>1, <4>2, StopTail
      <4>5. Holds(q, "NEW", c, k) => ~slot[c][k].inuse /\ ~Holds(toMaster[p], "CLEAN", c, k)
        BY <3>1, <3>3, <4>1 DEF RowInv, q
      <4>6. Unfinished(c, k)' => Unfinished(c, k)
        BY <2>2 DEF Unfinished
      <4>7. slot'[c][k].inuse = slot[c][k].inuse /\ (slot'[c][k].inuse => slot'[c][k].next < 0)
        BY <2>4, <2>5
      <4>8. Unfinished(c, k) => Holds(q, "NEW", c, k) \/ slot[c][k].inuse \/ Holds(toMaster[p], "CLEAN", c, k)
        BY <3>1, <3>3, <4>1 DEF GoInv, NotForgotten, q
      <4>9. NotForgotten(c, k)'
        BY <2>2, <4>1, <4>4, <4>6, <4>7, <4>8 DEF NotForgotten
      <4>10. Unfinished(c, k) /\ tab[c][k].stopped =>
               StopBehind(q, c, k) \/ slot[c][k].inuse \/ Holds(toMaster[p], "CLEAN", c, k)
        BY <3>1, <3>3, <4>1 DEF GoInv, StopKept, q
      <4>11. StopKept(c, k)'
        BY <2>2, <4>1, <4>4, <4>5, <4>6, <4>7, <4>8, <4>10 DEF StopKept
      <4>12. /\ WhoseLate(q, c, k, tab[c][k].who)
             /\ HasLate(q, c, k) => tab[c][k].stopped
             /\ slot[c][k].inuse =>
                  Whose(q, "STOP", c, k, tab[c][k].who) /\ tab[c][k].stopped
        BY <3>1, <3>3, <4>1, <4>3 DEF GoInv, StopMeant, q
      <4>13. StopMeant(c, k)'
        BY <2>2, <4>1, <4>3, <4>4, <4>7, <4>12 DEF StopMeant
      <4> QED
        BY <3>3, <4>9, <4>11, <4>13 DEF GoInv
    <3> QED
      BY <3>2, <3>3
  <2> QED
    BY <2>6 DEF GoAll
<1> QED
  BY <1>2, <1>3

LEMMA GoSlaveUpdate ==
    ASSUME IInv, GoAll, NEW p \in Process, NEW m \in updates, SlaveUpdate(p, m)
    PROVE  GoAll'
<1>1. TypeOK /\ m \in Messages /\ UNCHANGED <<masterVars, toSlave, toMaster>>
  BY DEF IInv, TypeOK, SlaveUpdate
<1>2. CASE GiveUp(p)
  BY <1>1, <1>2, GoGiveUp
<1>3. CASE ~GiveUp(p)
  <2>1. PICK c \in Chid, k \in Slot, l \in Int : c = m.chid /\ k = m.itid /\ l = m.loop
    BY <1>1 DEF Messages
  <2> DEFINE x == IF slot[c][k].inuse THEN [slot[c][k] EXCEPT !.loop = l] ELSE slot[c][k]
  <2>2. slot' = [slot EXCEPT ![c][k] = x] /\ UNCHANGED <<alive, tab>>
    BY <1>1, <1>3, <2>1 DEF SlaveUpdate, masterVars
  <2>3. slot[c][k] \in Played
    BY <1>1, Typed
  <2>4. x \in Played /\ x.inuse = slot[c][k].inuse /\ x.next = slot[c][k].next
    BY <2>3 DEF Played
  <2> HIDE DEF x
  <2>5. /\ slot'[c][k] = x
        /\ \A d \in Chid, j \in Slot : d # c \/ j # k => slot'[d][j] = slot[d][j]
    BY <1>1, <2>2, <2>4, SetRow, Typed
  <2>6. \A d \in Chid, j \in Slot :
          slot'[d][j].inuse = slot[d][j].inuse /\ slot'[d][j].next = slot[d][j].next
    BY <2>4, <2>5
  <2> QED
    BY <1>1, <2>2, <2>6, GoKept, QuietSame, OnwardSame DEF GoAll
<1> QED
  BY <1>2, <1>3
\* A pass of a channel thread reports every row that it has finished.
LEMMA AllReported ==
    ASSUME TypeOK, NEW c \in Chid, NEW rows \in Ascending(Finished(c)),
           NEW q \in Seq(Messages)
    PROVE  LET r == q \o Cleaned(c, rows)
           IN  /\ \A d, k : Holds(q, "CLEAN", d, k) => Holds(r, "CLEAN", d, k)
               /\ \A k \in Finished(c) : Holds(r, "CLEAN", c, k)
<1> DEFINE n == Cardinality(Finished(c))  s == Cleaned(c, rows)  r == q \o s
<1>1. /\ n \in Nat /\ s \in Seq(Messages) /\ Len(s) = n
      /\ \A i \in 1 .. n : About(s[i], "CLEAN", c, rows[i])
      /\ \A k \in Finished(c) : \E i \in 1 .. n : rows[i] = k
  BY CleanedIs DEF About
<1> HIDE DEF n, s
<1>2. /\ Len(r) = Len(q) + n /\ Len(q) \in Nat
      /\ \A i \in 1 .. Len(q) : r[i] = q[i]
      /\ \A i \in 1 .. n : r[Len(q) + i] = s[i]
  BY <1>1
<1> HIDE DEF r
<1>3. /\ \A i \in 1 .. Len(q) : i \in 1 .. Len(r)
      /\ \A i \in 1 .. n : Len(q) + i \in 1 .. Len(r)
  BY <1>1, <1>2
<1>4. \A d, k : Holds(q, "CLEAN", d, k) => Holds(r, "CLEAN", d, k)
  BY <1>2, <1>3 DEF Holds
<1>5. ASSUME NEW k \in Finished(c)
      PROVE  Holds(r, "CLEAN", c, k)
  <2>1. PICK i \in 1 .. n : rows[i] = k
    BY <1>1
  <2>2. About(r[Len(q) + i], "CLEAN", c, k)
    BY <1>1, <1>2, <2>1
  <2> QED
    BY <1>3, <2>2 DEF Holds
<1> QED
  BY <1>4, <1>5 DEF r, s

\* What plays on has not been stopped: a row that has is finished by the pass.
LEMMA AdvanceFacts ==
    ASSUME NEW x \in Played, ~AtEnd(x)
    PROVE  Advance(x).inuse = x.inuse /\ x.next >= 0 /\ Advance(x).next >= 0
<1>1. x.next \in -1 .. NFrames - 1 /\ x.next >= 0 /\ x.loop \in Int /\ NFrames \in Nat \ {0}
  BY AudioAssumption DEF AtEnd, Played
<1>2. CASE x.next + 1 < NFrames
  BY <1>1, <1>2 DEF Advance, Played
<1>3. CASE ~(x.next + 1 < NFrames)
  BY <1>1, <1>3 DEF Advance, Played
<1> QED
  BY <1>2, <1>3

LEMMA GoChannel ==
    ASSUME IInv, GoAll, NEW c \in Chid, channel_thread(c)
    PROVE  GoAll'
<1>1. TypeOK /\ UNCHANGED <<tab, alive, toSlave>>
  BY DEF IInv, channel_thread, masterVars
<1>2. PICK rows \in Ascending(Finished(c)) :
        toMaster' = [toMaster EXCEPT ![ProcOf[c]] = toMaster[ProcOf[c]] \o Cleaned(c, rows)]
  BY DEF channel_thread
<1>3. slot' = [slot EXCEPT ![c] = [k \in Slot |->
                  IF k \in Finished(c) THEN Silent
                  ELSE IF slot[c][k].inuse THEN Advance(slot[c][k]) ELSE slot[c][k]]]
  BY DEF channel_thread
<1> DEFINE q == toMaster[ProcOf[c]]  r == q \o Cleaned(c, rows)
<1>4. ProcOf[c] \in Process /\ q \in Seq(Messages) /\ toMaster'[ProcOf[c]] = r
      /\ \A p \in Process : p # ProcOf[c] => toMaster'[p] = toMaster[p]
  BY <1>1, <1>2, Typed DEF TypeOK
<1> HIDE DEF q
<1>5. /\ \A d, k : Holds(q, "CLEAN", d, k) => Holds(r, "CLEAN", d, k)
      /\ \A k \in Finished(c) : Holds(r, "CLEAN", c, k)
  BY <1>1, <1>4, AllReported
<1> HIDE DEF r
<1>6. \A d \in Chid, k \in Slot : Holds(toMaster[ProcOf[d]], "CLEAN", d, k) 
      => Holds(toMaster'[ProcOf[d]], "CLEAN", d, k)
  <2> SUFFICES ASSUME NEW d \in Chid, NEW k \in Slot
               PROVE  Holds(toMaster[ProcOf[d]], "CLEAN", d, k)
                        => Holds(toMaster'[ProcOf[d]], "CLEAN", d, k)
    OBVIOUS
  <2>1. ProcOf[d] \in Process
    BY <1>1, Typed
  <2>2. CASE ProcOf[d] = ProcOf[c]
    BY <1>4, <1>5, <2>2 DEF q
  <2>3. CASE ProcOf[d] # ProcOf[c]
    BY <1>4, <2>1, <2>3
  <2> QED
    BY <2>2, <2>3
<1>7. ASSUME NEW d \in Chid, NEW k \in Slot, ~(d = c /\ k \in Finished(c))
      PROVE  /\ slot'[d][k].inuse <=> slot[d][k].inuse
             /\ slot'[d][k].next < 0 <=> slot[d][k].next < 0
  <2>1. CASE d # c
    BY <1>1, <1>3, <2>1 DEF TypeOK
  <2>2. CASE d = c /\ ~slot[c][k].inuse
    BY <1>1, <1>3, <1>7, <2>2 DEF TypeOK
  <2>3. CASE d = c /\ slot[c][k].inuse
    <3>1. slot'[c][k] = Advance(slot[c][k]) /\ ~AtEnd(slot[c][k])
      BY <1>1, <1>3, <1>7, <2>3 DEF TypeOK, Finished
    <3> DEFINE x == slot[c][k]  y == Advance(x)
    <3>2. x \in Played /\ x.next \in Int
      BY <1>1, Typed DEF Played
    <3>3. y.inuse = x.inuse /\ x.next >= 0 /\ y.next >= 0
      BY <3>1, <3>2, AdvanceFacts
    <3> HIDE DEF y
    <3>4. ~(x.next < 0) /\ ~(y.next < 0)
      <4>1. y.next \in Int
        <5>1. NFrames \in Nat
          BY AudioAssumption
        <5> QED
          BY <3>2, <5>1 DEF Advance, Played, y
      <4> QED
        BY <3>2, <3>3, <4>1
    <3> QED
      BY <2>3, <3>1, <3>3, <3>4 DEF y
  <2> QED
    BY <2>1, <2>2, <2>3
<1>8. ASSUME NEW d \in Chid, NEW k \in Slot
      PROVE  GoInv(d, k)'
  <2>1. GoInv(d, k) /\ Onward(d, k) /\ Quiet(toSlave[ProcOf[d]], toSlave'[ProcOf[d]], d, k)
    BY <1>1, OnwardSame, QuietSame DEF GoAll
  <2>2. CASE ~(d = c /\ k \in Finished(c))
    BY <1>1, <1>6, <1>7, <2>1, <2>2, GoKept
  <2>3. CASE d = c /\ k \in Finished(c)
    <3>1. slot'[c][k] = Silent /\ ~slot'[c][k].inuse
      BY <1>1, <1>3, <2>3 DEF TypeOK, Silent
    <3>2. Holds(toMaster'[ProcOf[c]], "CLEAN", c, k)
      BY <1>4, <1>5, <2>3
    <3>3. StopMeant(c, k)'
      BY <1>1, <2>1, <2>3, <3>1 DEF GoInv, StopMeant
    <3> QED
      BY <2>3, <3>2, <3>3 DEF GoInv, NotForgotten, StopKept
  <2> QED
    BY <2>2, <2>3
<1> QED
  BY <1>8 DEF GoAll

LEMMA GoInit == Init => GoAll
<1> SUFFICES ASSUME Init, NEW c \in Chid, NEW k \in Slot PROVE GoInv(c, k)
  BY DEF GoAll
<1>1. tab[c][k] = Unused /\ slot[c][k] = Silent /\ toSlave[ProcOf[c]] = <<>>
  <2>1. ProcOf[c] \in Process
    BY AudioAssumption
  <2> QED
    BY <2>1 DEF Init
<1>2. ~Unfinished(c, k)
  BY <1>1 DEF Unfinished, Unused
<1>3. ~Holds(<<>>, "NEW", c, k)
  BY DEF Holds
<1>4. StopMeant(c, k)
  BY <1>1, <1>3, NoneLate DEF StopMeant, Silent
<1> QED
  BY <1>2, <1>4 DEF GoInv, NotForgotten, StopKept

LEMMA GoNext == IInv /\ GoAll /\ [Next]_vars => GoAll'
<1> SUFFICES ASSUME IInv, GoAll, [Next]_vars PROVE GoAll'
  OBVIOUS
<1>1. CASE veMPAudioRun \/ AppNext
  BY <1>1, GoConnect, GoInst, GoUpdate, GoClean, GoStop, GoWait DEF AppNext
<1>2. CASE \E p \in Process : master_audio_cback(p) \/ SlaveNext(p)
  BY <1>2, GoReport, GoSlaveChannel, GoSlaveNew, GoSlaveStop DEF SlaveNext
<1>3. CASE \E p \in Process, m \in updates : SlaveUpdate(p, m)
  BY <1>3, GoSlaveUpdate
<1>4. CASE \E c \in Chid : channel_thread(c)
  BY <1>4, GoChannel
<1>5. CASE (\E m \in updates : LoseUpdate(m)) \/ UNCHANGED vars
  <2>1. UNCHANGED <<tab, slaveVars, toSlave, toMaster>>
    BY <1>5 DEF LoseUpdate, masterVars, vars, netVars
  <2> QED
    BY <2>1, GoTables, OnwardSame
<1> QED
  BY <1>1, <1>2, <1>3, <1>4, <1>5 DEF Next

\* An instance that its slave can still finish is never forgotten: its M_NEW,
\* its row in the slave or its M_CLEAN is there; and one that is stopped has its
\* M_STOP behind its M_NEW, its row at the end, or its M_CLEAN coming
\* (channel_thread and the slave's handlers, ve_audio.c:304-390 and 462-549).
\* AutoDispose and StopEnds rest on this.
THEOREM NothingForgotten ==
    Spec => [](\A c \in Chid, k \in Slot : NotForgotten(c, k) /\ StopKept(c, k))
<1>1. Init => IInv /\ GoAll
  BY InvInit, GoInit
<1>2. IInv /\ GoAll /\ [Next]_vars => (IInv /\ GoAll)'
  BY InvNext, GoNext
<1>3. GoAll => \A c \in Chid, k \in Slot : NotForgotten(c, k) /\ StopKept(c, k)
  BY DEF GoAll, GoInv
<1> QED
  BY <1>1, <1>2, <1>3, PTL DEF Spec

\* A stop names a row, not an instance (ve_audio.c:532-549), and rows are used
\* again: yet none that comes late ever ends a later instance.  Only a sound
\* that the application has stopped is cut short.
THEOREM OnlyStoppedCut ==
    Spec => [](\A c \in Chid, k \in Slot : StopMeant(c, k))
<1>1. Init => IInv /\ GoAll
  BY InvInit, GoInit
<1>2. IInv /\ GoAll /\ [Next]_vars => (IInv /\ GoAll)'
  BY InvNext, GoNext
<1>3. GoAll => \A c \in Chid, k \in Slot : StopMeant(c, k)
  BY DEF GoAll, GoInv
<1> QED
  BY <1>1, <1>2, <1>3, PTL DEF Spec
=============================================================================
