-------------------------- MODULE ShimEvents_proof --------------------------
(***************************************************************************)
(* For any number of pads, elements, keys and any length of the queue: an  *)
(* App that reads its events ends with the pads as they are, and hears     *)
(* nothing twice, as long as nothing was dropped.                          *)
(***************************************************************************)
EXTENDS ShimEvents, SequenceTheorems, WellFoundedInduction, TLAPS

-----------------------------------------------------------------------------
(* Induction, and functions defined by it.                                 *)

\* What holds of 0, and of i if it does of i - 1, holds of all.
LEMMA Induct ==
    ASSUME NEW N \in Nat, NEW T \in SUBSET (0..N), 0 \in T, \A i \in 1..N : i - 1 \in T => i \in T
    PROVE  T = 0..N
<1> SUFFICES ASSUME T # 0..N PROVE FALSE
    OBVIOUS
<1> DEFINE Rest == (0..N) \ T
<1>1. Rest \in SUBSET Nat
  OBVIOUS
<1>0. PICK x \in 0..N : x \notin T
  OBVIOUS
<1>2. PICK m \in Rest : \A n \in Rest : ~ (<<n, m>> \in OpToRel(<, Nat))
  <2>1. Rest # {}
    BY <1>0
  <2> QED BY <1>1, <2>1, NatLessThanWellFounded, WFMin, Zenon
<1>3. \A n \in Rest : ~(n < m)
  BY <1>1, <1>2 DEF OpToRel
<1>4. m \in 1..N /\ m - 1 \in T
  BY <1>3
<1> QED BY <1>4

\* f starts at a, and g tells each value from the one before.
Follows(f, a, g, N, S) ==
    f \in [0..N -> S] /\ f[0] = a /\ \A i \in 1..N : f[i] = g[i][f[i - 1]]

\* There is such a function.
LEMMA Recursion ==
    ASSUME NEW S, NEW a \in S, NEW N \in Nat, NEW g \in [1..N -> [S -> S]]
    PROVE  \E f : Follows(f, a, g, N, S)
<1> DEFINE Upto(n) == \E f \in [0..n -> S] : f[0] = a /\ \A i \in 1..n : f[i] = g[i][f[i - 1]]
           T == {n \in 0..N : Upto(n)}
<1>1. Upto(0)
  <2> DEFINE f == [i \in 0..0 |-> a]
  <2>1. f \in [0..0 -> S] /\ f[0] = a
    OBVIOUS
  <2>2. \A i \in 1..0 : f[i] = g[i][f[i - 1]]
    OBVIOUS
  <2> HIDE DEF f
  <2> QED BY <2>1, <2>2
<1>2. ASSUME NEW n \in 1..N, Upto(n - 1) PROVE Upto(n)
  <2>1. PICK f \in [0..(n - 1) -> S] : f[0] = a /\ \A i \in 1..(n - 1) : f[i] = g[i][f[i - 1]]
    BY <1>2
  <2> DEFINE h == [i \in 0..n |-> IF i = n THEN g[n][f[n - 1]] ELSE f[i]]
  <2>2. f[n - 1] \in S /\ g[n][f[n - 1]] \in S
    BY <2>1
  <2>3. h \in [0..n -> S] /\ h[0] = a
    BY <2>1, <2>2
  <2>4. ASSUME NEW i \in 1..n PROVE h[i] = g[i][h[i - 1]]
    BY <2>1
  <2> HIDE DEF h
  <2> QED BY <2>3, <2>4
<1> HIDE DEF Upto
<1>3. T = 0..N
  <2>1. 0 \in T /\ T \in SUBSET (0..N)
    BY <1>1
  <2>2. \A i \in 1..N : i - 1 \in T => i \in T
    BY <1>2
  <2> HIDE DEF T
  <2> QED BY <2>1, <2>2, Induct
<1>4. Upto(N)
  BY <1>3
<1> QED BY <1>4 DEF Upto, Follows

-----------------------------------------------------------------------------
(* Types.                                                                  *)

Shims == [announced : BOOLEAN, controller : [Pads -> SUBSET Elements],
          held : [Pads -> SUBSET Elements], events : Seq(Events)]

\* An element has its place in the order, and only one.
LEMMA Order ==
    /\ Len(ElementOrder) \in Nat /\ DOMAIN ElementOrder = 1..Len(ElementOrder)
    /\ \A i \in 1..Len(ElementOrder) : ElementOrder[i] \in Elements
    /\ \A e \in Elements : \E i \in 1..Len(ElementOrder) : ElementOrder[i] = e
    /\ \A i, j \in 1..Len(ElementOrder) : ElementOrder[i] = ElementOrder[j] => i = j
<1>1. ElementOrder \in Seq(Elements) /\ IsInjective(ElementOrder)
  BY ShimAssumption
<1>2. Len(ElementOrder) \in Nat /\ DOMAIN ElementOrder = 1..Len(ElementOrder)
  BY <1>1, LenProperties
<1>3. \A i \in 1..Len(ElementOrder) : ElementOrder[i] \in Elements
  BY <1>1, ElementOfSeq
<1>4. \A e \in Elements : \E i \in 1..Len(ElementOrder) : ElementOrder[i] = e
  BY <1>2 DEF Elements, Range
<1>5. \A i, j \in 1..Len(ElementOrder) : ElementOrder[i] = ElementOrder[j] => i = j
  BY <1>1, <1>2 DEF IsInjective
<1> QED BY <1>2, <1>3, <1>4, <1>5

\* What Tell queues, event by event.
LEMMA TellIs ==
    ASSUME NEW es \in Seq(Events), NEW view, NEW p, NEW C, NEW now,
           \A e \in C \cap Elements : Said(<<view, p, e>>, e \in now) \in Events
    PROVE  \E f \in [0..Len(ElementOrder) -> Seq(Events)] :
              /\ f[0] = es
              /\ \A i \in 1..Len(ElementOrder) :
                    f[i] = IF ElementOrder[i] \in C
                           THEN Append(f[i - 1], Said(<<view, p, ElementOrder[i]>>, ElementOrder[i] \in now))
                           ELSE f[i - 1]
              /\ Tell(es, view, p, C, now) = f[Len(ElementOrder)]
<1> DEFINE N == Len(ElementOrder)
           S == Seq(Events)
           Add(i, x) == LET e == ElementOrder[i]
                        IN  IF e \in C THEN Append(x, Said(<<view, p, e>>, e \in now)) ELSE x
           F(h) == [i \in 0..N |-> IF i = 0 THEN es
                                   ELSE LET e == ElementOrder[i]
                                        IN  IF e \in C THEN Append(h[i - 1], Said(<<view, p, e>>, e \in now))
                                            ELSE h[i - 1]]
           told == CHOOSE h : h = F(h)
<1>1. Tell(es, view, p, C, now) = told[N]
  BY DEF Tell
<1>2. N \in Nat /\ \A i \in 1..N : ElementOrder[i] \in Elements
  BY Order
<1>3. ASSUME NEW i \in 1..N, NEW x \in S PROVE Add(i, x) \in S
  <2>1. CASE ElementOrder[i] \in C
    <3> DEFINE ev == Said(<<view, p, ElementOrder[i]>>, ElementOrder[i] \in now)
    <3>1. ev \in Events
      BY <1>2, <2>1
    <3>2. Add(i, x) = Append(x, ev)
      BY <2>1
    <3> HIDE DEF ev, Add
    <3> QED BY <3>1, <3>2, AppendProperties
  <2>2. CASE ElementOrder[i] \notin C
    BY <2>2
  <2> QED BY <2>1, <2>2
<1>4. \A h : F(h) = [i \in 0..N |-> IF i = 0 THEN es ELSE Add(i, h[i - 1])]
  OBVIOUS
<1>5. es \in S /\ N \in Nat
  BY <1>2
<1> HIDE DEF N, S, Add, F
<1>6. \E h : h = F(h)
  <2> DEFINE g == [i \in 1..N |-> [x \in S |-> Add(i, x)]]
  <2>1. g \in [1..N -> [S -> S]]
    BY <1>3
  <2>2. \A i \in 1..N, x \in S : g[i][x] = Add(i, x)
    OBVIOUS
  <2> HIDE DEF g
  <2>3. PICK h : Follows(h, es, g, N, S)
    BY <1>5, <2>1, Recursion
  <2>4. ASSUME NEW i \in 1..N PROVE h[i] = Add(i, h[i - 1])
    <3>1. h[i - 1] \in S
      BY <1>2, <2>3 DEF Follows
    <3> QED BY <2>2, <2>3, <3>1 DEF Follows
  <2>5. h = [i \in 0..N |-> IF i = 0 THEN es ELSE Add(i, h[i - 1])]
    BY <2>3, <2>4 DEF Follows
  <2> QED BY <1>4, <2>5
<1>7. told = F(told)
  BY <1>6
<1> HIDE DEF told
<1>8. told = [i \in 0..N |-> IF i = 0 THEN es ELSE Add(i, told[i - 1])]
  BY <1>4, <1>7
<1>9. told[0] = es /\ \A i \in 1..N : told[i] = Add(i, told[i - 1])
  BY <1>2, <1>8
<1>10. \A i \in 0..N : told[i] \in S
  <2> DEFINE T == {i \in 0..N : told[i] \in S}
  <2>1. 0 \in T /\ \A i \in 1..N : i - 1 \in T => i \in T
    BY <1>2, <1>3, <1>5, <1>9
  <2>2. T = 0..N
    BY <1>2, <2>1, Induct
  <2> QED BY <2>2
<1>11. told \in [0..N -> S]
  BY <1>8, <1>10
<1>12. \A i \in 1..N : told[i] = IF ElementOrder[i] \in C
                                THEN Append(told[i - 1], Said(<<view, p, ElementOrder[i]>>, ElementOrder[i] \in now))
                                ELSE told[i - 1]
  BY <1>9 DEF Add
<1> QED BY <1>1, <1>9, <1>11, <1>12 DEF N, S

-----------------------------------------------------------------------------
(* What a queue of events says of one thing.                               *)

IsOf(ev, t) == ev.kind = "change" /\ ev.thing = t

IsLast(es, i, t)  == IsOf(es[i], t) /\ \A j \in 1..Len(es) : j > i => ~IsOf(es[j], t)
IsFirst(es, i, t) == IsOf(es[i], t) /\ \A j \in 1..Len(es) : j < i => ~IsOf(es[j], t)
IsNext(es, i, j, t) ==
    /\ i < j /\ IsOf(es[i], t) /\ IsOf(es[j], t)
    /\ \A k \in 1..Len(es) : i < k /\ k < j => ~IsOf(es[k], t)

\* Of t, the queue tells changes only and ends with what is in A; and if it is whole, it goes on
\* from what is in D, which the App knows.
Steady(es, D, A, t, whole) ==
    /\ \A i \in 1..Len(es) : IsLast(es, i, t) => (es[i].down <=> t \in A)
    /\ \A i, j \in 1..Len(es) : IsNext(es, i, j, t) => ~(es[i].down <=> es[j].down)
    /\ whole => \A i \in 1..Len(es) : IsFirst(es, i, t) => ~(es[i].down <=> t \in D)
    /\ whole /\ (\A i \in 1..Len(es) : ~IsOf(es[i], t)) => (t \in D <=> t \in A)

\* Other things are told.
LEMMA SteadyLonger ==
    ASSUME NEW es \in Seq(Events), NEW q \in Seq(Events), Len(es) <= Len(q),
           \A k \in 1..Len(es) : q[k] = es[k],
           NEW t, NEW D, NEW A, NEW B, NEW whole,
           \A k \in 1..Len(q) : k > Len(es) => ~IsOf(q[k], t),
           Steady(es, D, A, t, whole), t \in A <=> t \in B
    PROVE  Steady(q, D, B, t, whole)
<1>1. Len(es) \in Nat /\ Len(q) \in Nat
  BY LenProperties
<1>2. \A k \in 1..Len(q) : IsOf(q[k], t) => k \in 1..Len(es) /\ q[k] = es[k]
  BY <1>1
<1>3. \A k \in 1..Len(es) : k \in 1..Len(q) /\ q[k] = es[k]
  BY <1>1
<1>4. ASSUME NEW i \in 1..Len(q), IsLast(q, i, t) PROVE q[i].down <=> t \in B
  <2>1. i \in 1..Len(es) /\ q[i] = es[i] /\ IsLast(es, i, t)
    BY <1>2, <1>3, <1>4 DEF IsLast
  <2> QED BY <2>1 DEF Steady
<1>5. ASSUME NEW i \in 1..Len(q), NEW j \in 1..Len(q), IsNext(q, i, j, t) PROVE ~(q[i].down <=> q[j].down)
  <2>1. i \in 1..Len(es) /\ q[i] = es[i] /\ j \in 1..Len(es) /\ q[j] = es[j] /\ IsNext(es, i, j, t)
    BY <1>2, <1>3, <1>5 DEF IsNext
  <2> QED BY <2>1 DEF Steady
<1>6. ASSUME whole, NEW i \in 1..Len(q), IsFirst(q, i, t) PROVE ~(q[i].down <=> t \in D)
  <2>1. i \in 1..Len(es) /\ q[i] = es[i] /\ IsFirst(es, i, t)
    BY <1>2, <1>3, <1>6 DEF IsFirst
  <2> QED BY <1>6, <2>1 DEF Steady
<1>7. ASSUME whole, \A i \in 1..Len(q) : ~IsOf(q[i], t) PROVE t \in D <=> t \in B
  <2>1. \A i \in 1..Len(es) : ~IsOf(es[i], t)
    BY <1>3, <1>7
  <2> QED BY <1>7, <2>1 DEF Steady
<1> QED BY <1>4, <1>5, <1>6, <1>7 DEF Steady

\* Something else is told.
LEMMA SteadyOther ==
    ASSUME NEW es \in Seq(Events), NEW ev \in Events, NEW t, NEW D, NEW A, NEW B, NEW whole,
           Steady(es, D, A, t, whole), ~IsOf(ev, t), t \in A <=> t \in B
    PROVE  Steady(Append(es, ev), D, B, t, whole)
<1> DEFINE q == Append(es, ev)
<1>1. /\ Len(es) \in Nat /\ Len(q) = Len(es) + 1 /\ q \in Seq(Events)
      /\ \A k \in 1..Len(es) : q[k] = es[k]
      /\ q[Len(es) + 1] = ev
  BY AppendProperties, LenProperties
<1> HIDE DEF q
<1>2. \A k \in 1..Len(q) : k > Len(es) => ~IsOf(q[k], t)
  BY <1>1
<1>3. Len(es) <= Len(q)
  BY <1>1
<1>4. Steady(q, D, B, t, whole)
  BY <1>1, <1>2, <1>3, SteadyLonger
<1> QED BY <1>4 DEF q

\* A set of natural numbers with a bound has a greatest.
LEMMA Greatest ==
    ASSUME NEW N \in Nat, NEW T \in SUBSET (1..N), T # {}
    PROVE  \E m \in T : \A n \in T : n <= m
<1> DEFINE R == {N - n : n \in T}
<1>1. R \in SUBSET Nat /\ R # {}
  <2>1. \A n \in T : N - n \in Nat
    OBVIOUS
  <2>2. PICK n \in T : TRUE
    OBVIOUS
  <2>3. N - n \in R
    BY <2>2
  <2> QED BY <2>1, <2>3
<1> HIDE DEF R
<1>2. PICK l \in R : \A n \in R : ~ (<<n, l>> \in OpToRel(<, Nat))
  BY <1>1, NatLessThanWellFounded, WFMin, Zenon
<1>3. \A n \in R : ~(n < l)
  BY <1>1, <1>2 DEF OpToRel
<1>4. PICK m \in T : l = N - m
  BY DEF R
<1>5. ASSUME NEW n \in T PROVE n <= m
  <2>1. N - n \in R
    BY DEF R
  <2> QED BY <1>3, <1>4, <2>1
<1> QED BY <1>5

\* If a queue tells of a thing, it does so for a last time, and for a first.
LEMMA LastThereIs ==
    ASSUME NEW es \in Seq(Events), NEW t, NEW k \in 1..Len(es), IsOf(es[k], t)
    PROVE  \E i \in 1..Len(es) : IsLast(es, i, t)
<1> DEFINE T == {i \in 1..Len(es) : IsOf(es[i], t)}
<1>1. Len(es) \in Nat /\ T \in SUBSET (1..Len(es)) /\ T # {}
  BY LenProperties
<1>2. PICK m \in T : \A n \in T : n <= m
  BY <1>1, Greatest
<1>3. \A j \in 1..Len(es) : j > m => ~IsOf(es[j], t)
  BY <1>1, <1>2
<1> QED BY <1>2, <1>3 DEF IsLast

\* t has changed, and it is told.
LEMMA SteadyTold ==
    ASSUME NEW es \in Seq(Events), NEW ev \in Events, NEW t, NEW D, NEW A, NEW B, NEW whole,
           Steady(es, D, A, t, whole), IsOf(ev, t), ~(ev.down <=> t \in A), ev.down <=> t \in B
    PROVE  Steady(Append(es, ev), D, B, t, whole)
<1> DEFINE q == Append(es, ev)
           N == Len(es) + 1
<1>1. /\ Len(es) \in Nat /\ Len(q) = N
      /\ \A k \in 1..Len(es) : q[k] = es[k]
      /\ q[N] = ev /\ N \in 1..Len(q)
  BY AppendProperties, LenProperties
<1> HIDE DEF q
<1>2. \A k \in 1..Len(q) : k # N => k \in 1..Len(es) /\ q[k] = es[k] /\ k < N
  BY <1>1
<1>3. \A k \in 1..Len(es) : k \in 1..Len(q) /\ q[k] = es[k] /\ k < N
  BY <1>1
<1>4. ASSUME NEW i \in 1..Len(q), IsLast(q, i, t) PROVE q[i].down <=> t \in B
  <2>1. i = N
    BY <1>1, <1>2, <1>4 DEF IsLast
  <2> QED BY <1>1, <2>1
<1>5. ASSUME NEW i \in 1..Len(q), NEW j \in 1..Len(q), IsNext(q, i, j, t) PROVE ~(q[i].down <=> q[j].down)
  <2>0. i < j /\ i \in Nat /\ j \in Nat /\ j <= N
    BY <1>1, <1>5 DEF IsNext
  <2>1. i \in 1..Len(es) /\ q[i] = es[i] /\ IsOf(es[i], t)
    BY <1>1, <1>2, <1>5, <2>0 DEF IsNext
  <2>2. CASE j = N
    <3>1. IsLast(es, i, t)
      BY <1>3, <1>5, <2>1, <2>2 DEF IsNext, IsLast
    <3>2. es[i].down <=> t \in A
      BY <2>1, <3>1 DEF Steady
    <3> QED BY <1>1, <2>1, <2>2, <3>2
  <2>3. CASE j # N
    <3>1. j \in 1..Len(es) /\ q[j] = es[j]
      BY <1>2, <2>3
    <3>2. IsNext(es, i, j, t)
      BY <1>3, <1>5, <2>1, <3>1 DEF IsNext
    <3> QED BY <2>1, <3>1, <3>2 DEF Steady
  <2> QED BY <2>2, <2>3
<1>6. ASSUME whole, NEW i \in 1..Len(q), IsFirst(q, i, t) PROVE ~(q[i].down <=> t \in D)
  <2>1. CASE i = N
    <3>1. \A k \in 1..Len(es) : ~IsOf(es[k], t)
      BY <1>3, <1>6, <2>1 DEF IsFirst
    <3>2. t \in D <=> t \in A
      BY <1>6, <3>1 DEF Steady
    <3> QED BY <1>1, <2>1, <3>2
  <2>2. CASE i # N
    <3>1. i \in 1..Len(es) /\ q[i] = es[i] /\ IsFirst(es, i, t)
      BY <1>2, <1>3, <1>6, <2>2 DEF IsFirst
    <3> QED BY <1>6, <3>1 DEF Steady
  <2> QED BY <2>1, <2>2
<1>7. ~ \A i \in 1..Len(q) : ~IsOf(q[i], t)
  BY <1>1
<1>8. Steady(q, D, B, t, whole)
  BY <1>4, <1>5, <1>6, <1>7 DEF Steady
<1> QED BY <1>8 DEF q

\* The oldest events are dropped.
LEMMA SteadyTrimmed ==
    ASSUME NEW es \in Seq(Events), NEW n \in 0..Len(es), NEW q \in Seq(Events), Len(q) = Len(es) - n,
           \A k \in 1..Len(q) : q[k] = es[k + n],
           NEW t, NEW D, NEW A, NEW whole, Steady(es, D, A, t, whole)
    PROVE  Steady(q, D, A, t, FALSE)
<1>1. Len(es) \in Nat /\ n \in Nat
  BY LenProperties
<1>2. \A k \in 1..Len(q) : k + n \in 1..Len(es) /\ q[k] = es[k + n]
  BY <1>1
<1>3. \A k \in 1..Len(es) : k > n => k - n \in 1..Len(q) /\ q[k - n] = es[k]
  BY <1>1
<1>4. ASSUME NEW i \in 1..Len(q), IsLast(q, i, t) PROVE q[i].down <=> t \in A
  <2>1. ASSUME NEW k \in 1..Len(es), k > i + n PROVE ~IsOf(es[k], t)
    <3>1. k > n /\ k - n > i
      BY <1>1, <2>1
    <3> QED BY <1>3, <1>4, <3>1 DEF IsLast
  <2>2. IsLast(es, i + n, t)
    BY <1>2, <1>4, <2>1 DEF IsLast
  <2> QED BY <1>2, <2>2 DEF Steady
<1>5. ASSUME NEW i \in 1..Len(q), NEW j \in 1..Len(q), IsNext(q, i, j, t) PROVE ~(q[i].down <=> q[j].down)
  <2>1. ASSUME NEW k \in 1..Len(es), i + n < k, k < j + n PROVE ~IsOf(es[k], t)
    <3>1. k > n /\ i < k - n /\ k - n < j
      BY <1>1, <2>1
    <3> QED BY <1>3, <1>5, <3>1 DEF IsNext
  <2>2. i + n < j + n
    BY <1>1, <1>5 DEF IsNext
  <2>3. IsNext(es, i + n, j + n, t)
    BY <1>2, <1>5, <2>1, <2>2 DEF IsNext
  <2> QED BY <1>2, <2>3 DEF Steady
<1> QED BY <1>4, <1>5 DEF Steady

\* The App is given the first event.
LEMMA SteadyGiven ==
    ASSUME NEW es \in Seq(Events), es # <<>>, NEW t, NEW D, NEW E, NEW A, NEW whole, Steady(es, D, A, t, whole),
           IsOf(Head(es), t) => (t \in E <=> Head(es).down),
           ~IsOf(Head(es), t) => (t \in E <=> t \in D)
    PROVE  /\ Steady(Tail(es), E, A, t, whole)
           /\ whole /\ IsOf(Head(es), t) => ~(Head(es).down <=> t \in D)
<1> DEFINE q == Tail(es)
<1>1. /\ Len(es) \in Nat /\ Len(es) > 0 /\ q \in Seq(Events) /\ Len(q) = Len(es) - 1 /\ Head(es) = es[1]
      /\ \A k \in 1..Len(q) : q[k] = es[k + 1]
  BY HeadTailProperties, EmptySeq, LenProperties
<1> HIDE DEF q
<1>2. 1 \in 0..Len(es) /\ 1 \in 1..Len(es)
  BY <1>1
<1>3. Steady(q, D, A, t, FALSE)
  BY <1>1, <1>2, SteadyTrimmed
<1>4. \A k \in 1..Len(q) : k + 1 \in 1..Len(es) /\ q[k] = es[k + 1] /\ k \in Nat
  BY <1>1
<1>5. \A k \in 1..Len(es) : k # 1 => k - 1 \in 1..Len(q) /\ q[k - 1] = es[k] /\ k \in Nat
  BY <1>1
<1>6. ASSUME whole, NEW i \in 1..Len(q), IsFirst(q, i, t) PROVE ~(q[i].down <=> t \in E)
  <2>1. ASSUME NEW k \in 1..Len(es), 1 < k, k < i + 1 PROVE ~IsOf(es[k], t)
    BY <1>4, <1>5, <1>6, <2>1 DEF IsFirst
  <2>2. i + 1 > 1 /\ IsOf(es[i + 1], t) /\ i + 1 \in 1..Len(es) /\ q[i] = es[i + 1]
    BY <1>4, <1>6 DEF IsFirst
  <2>3. CASE IsOf(es[1], t)
    <3>1. IsNext(es, 1, i + 1, t)
      BY <2>1, <2>2, <2>3 DEF IsNext
    <3>2. ~(es[1].down <=> es[i + 1].down)
      BY <1>2, <2>2, <3>1 DEF Steady
    <3> QED BY <1>1, <2>2, <2>3, <3>2
  <2>4. CASE ~IsOf(es[1], t)
    <3>1. IsFirst(es, i + 1, t)
      BY <1>1, <2>1, <2>2, <2>4 DEF IsFirst
    <3>2. ~(es[i + 1].down <=> t \in D)
      BY <1>6, <2>2, <3>1 DEF Steady
    <3> QED BY <1>1, <2>2, <2>4, <3>2
  <2> QED BY <2>3, <2>4
<1>7. ASSUME whole, \A i \in 1..Len(q) : ~IsOf(q[i], t) PROVE t \in E <=> t \in A
  <2>1. \A k \in 1..Len(es) : k # 1 => ~IsOf(es[k], t)
    BY <1>5, <1>7
  <2>2. CASE IsOf(es[1], t)
    <3>1. IsLast(es, 1, t)
      BY <1>1, <2>1, <2>2 DEF IsLast
    <3>2. es[1].down <=> t \in A
      BY <1>2, <3>1 DEF Steady
    <3> QED BY <1>1, <2>2, <3>2
  <2>3. CASE ~IsOf(es[1], t)
    <3>1. \A k \in 1..Len(es) : ~IsOf(es[k], t)
      BY <2>1, <2>3
    <3>2. t \in D <=> t \in A
      BY <1>7, <3>1 DEF Steady
    <3> QED BY <1>1, <2>3, <3>2
  <2> QED BY <2>2, <2>3
<1>8. ASSUME whole, IsOf(es[1], t) PROVE ~(es[1].down <=> t \in D)
  <2>1. IsFirst(es, 1, t)
    BY <1>8 DEF IsFirst
  <2> QED BY <1>2, <1>8, <2>1 DEF Steady
<1>9. Steady(q, E, A, t, whole)
  BY <1>3, <1>6, <1>7 DEF Steady
<1> QED BY <1>1, <1>8, <1>9 DEF q

\* Only t itself matters.
LEMMA SteadySame ==
    ASSUME NEW es, NEW t, NEW D, NEW A, NEW B, NEW whole,
           Steady(es, D, A, t, whole), t \in A <=> t \in B
    PROVE  Steady(es, D, B, t, whole)
BY DEF Steady

-----------------------------------------------------------------------------
(* What the shim has accounted for, and the events for it.                 *)

Acc(c, h) ==
    (IF wantsJoystick
     THEN UNION {{Button(p, e) : e \in c[p] \cap Laid} \cup {Controller(p, e) : e \in c[p]} : p \in Pads}
     ELSE {})
    \cup UNION {{Key(KeyOf[e]) : e \in h[p]} : p \in Pads}

\* What is in it.
LEMMA AccMembers ==
    ASSUME NEW c, NEW h
    PROVE  /\ \A p, e : Button(p, e) \in Acc(c, h) <=> wantsJoystick /\ p \in Pads /\ e \in c[p] /\ e \in Laid
           /\ \A p, e : Controller(p, e) \in Acc(c, h) <=> wantsJoystick /\ p \in Pads /\ e \in c[p]
           /\ \A k : Key(k) \in Acc(c, h) <=> \E p \in Pads : \E e \in h[p] : KeyOf[e] = k
<1>1. \A p, e, q, i : /\ Button(p, e) # Controller(q, i) /\ Button(p, e) # Key(i) /\ Controller(p, e) # Key(i)
                      /\ Button(p, e) = Button(q, i) => p = q /\ e = i
                      /\ Controller(p, e) = Controller(q, i) => p = q /\ e = i
                      /\ Key(e) = Key(i) => e = i
  BY DEF Button, Controller, Key
<1>2. \A p, e : Button(p, e) \in Acc(c, h) <=> wantsJoystick /\ p \in Pads /\ e \in c[p] /\ e \in Laid
  BY <1>1 DEF Acc
<1>3. \A p, e : Controller(p, e) \in Acc(c, h) <=> wantsJoystick /\ p \in Pads /\ e \in c[p]
  BY <1>1 DEF Acc
<1>4. \A k : Key(k) \in Acc(c, h) <=> \E p \in Pads : \E e \in h[p] : KeyOf[e] = k
  BY <1>1 DEF Acc
<1> QED BY <1>2, <1>3, <1>4

\* What a thing is.
LEMMA ThingIs ==
    ASSUME NEW t \in Things
    PROVE  \/ \E p \in Pads, e \in Laid : t = Button(p, e)
           \/ \E p \in Pads, e \in Elements : t = Controller(p, e)
           \/ \E k \in Keys : t = Key(k)
BY DEF Things

\* Tell accounts for the elements it tells of.
LEMMA TellSteady ==
    ASSUME NEW es \in Seq(Events), NEW view, NEW p, NEW C \in SUBSET Elements, NEW now,
           NEW D, NEW A, NEW B, NEW whole, NEW F,
           \A e \in C : Said(<<view, p, e>>, e \in now) \in Events,
           \A e \in C : ~(<<view, p, e>> \in A <=> e \in now),
           \A e \in C : <<view, p, e>> \in B <=> e \in now,
           \A t \in F : (\A e \in C : t # <<view, p, e>>) => (t \in A <=> t \in B),
           \A t \in F : Steady(es, D, A, t, whole)
    PROVE  /\ Tell(es, view, p, C, now) \in Seq(Events)
           /\ \A t \in F : Steady(Tell(es, view, p, C, now), D, B, t, whole)
<1> DEFINE N == Len(ElementOrder)
           Thing(e) == <<view, p, e>>
           Done(i) == {e \in C : \E k \in 1..i : ElementOrder[k] = e}
           \* what is accounted for after i elements
           At(i) == {t \in A : \A e \in Done(i) : t # Thing(e)} \cup {Thing(e) : e \in Done(i) \cap now}
<1>1. PICK f \in [0..N -> Seq(Events)] :
        /\ f[0] = es
        /\ \A i \in 1..N :
              f[i] = IF ElementOrder[i] \in C
                     THEN Append(f[i - 1], Said(<<view, p, ElementOrder[i]>>, ElementOrder[i] \in now))
                     ELSE f[i - 1]
        /\ Tell(es, view, p, C, now) = f[N]
  <2>1. \A e \in C \cap Elements : Said(<<view, p, e>>, e \in now) \in Events
    OBVIOUS
  <2> QED BY <2>1, TellIs
<1>2. /\ N \in Nat
      /\ \A i \in 1..N : ElementOrder[i] \in Elements
      /\ \A e \in Elements : \E i \in 1..N : ElementOrder[i] = e
      /\ \A i, j \in 1..N : ElementOrder[i] = ElementOrder[j] => i = j
  BY Order
<1> HIDE DEF N
<1>3. \A e, i : Thing(e) = Thing(i) => e = i
  OBVIOUS
<1>4. ASSUME NEW i \in 1..N, \A t \in F : Steady(f[i - 1], D, At(i - 1), t, whole)
      PROVE  \A t \in F : Steady(f[i], D, At(i), t, whole)
  <2> DEFINE e == ElementOrder[i]
  <2>0. i - 1 \in 0..N /\ f[i - 1] \in Seq(Events)
    BY <1>2
  <2>1. CASE e \notin C
    <3>1. Done(i) = Done(i - 1)
      <4>1. \A k \in 1..i : k \in 1..(i - 1) \/ k = i
        BY <1>2
      <4>2. \A k \in 1..(i - 1) : k \in 1..i
        BY <1>2
      <4> QED BY <2>1, <4>1, <4>2
    <3>2. At(i) = At(i - 1) /\ f[i] = f[i - 1]
      BY <1>1, <2>1, <3>1
    <3> QED BY <1>4, <3>2
  <2>2. CASE e \in C
    <3> DEFINE ev == Said(Thing(e), e \in now)
    <3>1. f[i] = Append(f[i - 1], ev) /\ ev \in Events
      BY <1>1, <2>2
    <3>2. Done(i) = Done(i - 1) \cup {e} /\ e \notin Done(i - 1)
      <4>1. \A k \in 1..i : k \in 1..(i - 1) \/ k = i
        BY <1>2
      <4>2. \A k \in 1..(i - 1) : k \in 1..i /\ k \in 1..N /\ k # i
        BY <1>2
      <4>3. i \in 1..i
        BY <1>2
      <4>4. \A x : x \in Done(i) <=> x \in C /\ ((\E k \in 1..(i - 1) : ElementOrder[k] = x) \/ x = e)
        BY <4>1, <4>2, <4>3
      <4>5. \A x : x \in Done(i) <=> x \in Done(i - 1) \/ x = e
        BY <2>2, <4>4
      <4>6. \A k \in 1..(i - 1) : ElementOrder[k] # e
        BY <1>2, <4>2
      <4>7. e \notin Done(i - 1)
        BY <4>6
      <4> HIDE DEF Done, e
      <4>8. Done(i) = Done(i - 1) \cup {e}
        BY <4>5
      <4> QED BY <4>7, <4>8
    <3>3. Thing(e) \in At(i - 1) <=> Thing(e) \in A
      BY <1>3, <3>2
    <3>4. Thing(e) \in At(i) <=> e \in now
      BY <1>3, <3>2
    <3>5. \A t : t # Thing(e) => (t \in At(i) <=> t \in At(i - 1))
      BY <3>2
    <3>6. \A t : IsOf(ev, t) <=> t = Thing(e)
      BY DEF IsOf, Said
    <3>7. ev.down <=> e \in now
      BY DEF Said
    <3>8. ~(Thing(e) \in A <=> e \in now)
      BY <2>2
    <3> HIDE DEF ev, At, Thing, e
    <3>9. ASSUME NEW t \in F PROVE Steady(Append(f[i - 1], ev), D, At(i), t, whole)
      <4>1. Steady(f[i - 1], D, At(i - 1), t, whole)
        BY <1>4
      <4>2. CASE t = Thing(e)
        BY <2>0, <3>1, <3>3, <3>4, <3>6, <3>7, <3>8, <4>1, <4>2, SteadyTold
      <4>3. CASE t # Thing(e)
        BY <2>0, <3>1, <3>5, <3>6, <4>1, <4>3, SteadyOther
      <4> QED BY <4>2, <4>3
    <3> QED BY <3>1, <3>9
  <2> QED BY <2>1, <2>2
<1>5. \A t : t \in At(0) <=> t \in A
  BY <1>2
<1>6. \A t \in F : t \in At(N) <=> t \in B
  <2>1. Done(N) = C
    BY <1>2
  <2>2. \A t : t \in At(N) <=> (t \in A /\ \A e \in C : t # Thing(e)) \/ \E e \in C : e \in now /\ t = Thing(e)
    BY <2>1
  <2> QED BY <1>3, <2>2
<1> HIDE DEF At, Thing, Done
<1>7. \A t \in F : Steady(f[0], D, At(0), t, whole)
  BY <1>1, <1>5, SteadySame
<1>8. \A t \in F : Steady(f[N], D, At(N), t, whole)
  <2> DEFINE Fine(i) == \A t \in F : Steady(f[i], D, At(i), t, whole)
             T == {i \in 0..N : Fine(i)}
  <2>1. N \in Nat
    BY <1>2
  <2>2. Fine(0)
    BY <1>7
  <2>3. \A i \in 1..N : Fine(i - 1) => Fine(i)
    BY <1>4
  <2> HIDE DEF Fine
  <2>4. 0 \in T /\ \A i \in 1..N : i - 1 \in T => i \in T
    BY <2>1, <2>2, <2>3
  <2>5. T = 0..N
    <3>1. T \in SUBSET (0..N)
      OBVIOUS
    <3> HIDE DEF T
    <3> QED BY <2>1, <2>4, <3>1, Induct
  <2>6. N \in 0..N
    BY <2>1
  <2>7. Fine(N)
    BY <2>5, <2>6
  <2> QED BY <2>7 DEF Fine
<1>9. \A t \in F : Steady(f[N], D, B, t, whole)
  BY <1>6, <1>8, SteadySame
<1> QED BY <1>1, <1>2, <1>9

\* What is said of a thing is an event.
LEMMA SaidIsEvent == \A t \in Things, d \in BOOLEAN : Said(t, d) \in Events
BY DEF Events

\* The things of a pad.
LEMMA PadThings ==
    ASSUME NEW p \in Pads, NEW e \in Elements
    PROVE  /\ Controller(p, e) \in Things
           /\ e \in Laid => Button(p, e) \in Things
           /\ KeyOf[e] # NoKey => Key(KeyOf[e]) \in Things
<1>1. KeyOf[e] # NoKey => KeyOf[e] \in Keys
  BY ShimAssumption DEF Keys, Range
<1> QED BY <1>1 DEF Things

\* Buttons, controllers and keys are told apart.
LEMMA Apart ==
    \A p, e, q, i :
        /\ Button(p, e)[1] = "joystick" /\ Controller(p, e)[1] = "controller" /\ Key(e)[1] = "key"
        /\ Button(p, e) # Controller(q, i) /\ Button(p, e) # Key(i) /\ Controller(p, e) # Key(i)
        /\ Button(p, e) = Button(q, i) => p = q /\ e = i
        /\ Controller(p, e) = Controller(q, i) => p = q /\ e = i
        /\ Key(e) = Key(i) => e = i
BY DEF Button, Controller, Key

\* diff accounts for the new state of the pad, in the App's two views of it.
LEMMA DiffSteady ==
    ASSUME NEW es \in Seq(Events), NEW c \in [Pads -> SUBSET Elements], NEW h, NEW p \in Pads,
           NEW after \in SUBSET Elements, wantsJoystick,
           NEW D, NEW whole, NEW F \in SUBSET Things,
           \A t \in F : Steady(es, D, Acc(c, h), t, whole)
    PROVE  /\ diff(es, p, c[p], after) \in Seq(Events)
           /\ \A t \in F : Steady(diff(es, p, c[p], after), D, Acc([c EXCEPT ![p] = after], h), t, whole)
<1> DEFINE new == [c EXCEPT ![p] = after]
           A == Acc(c, h)
           B == Acc(new, h)
           changed == (c[p] \ after) \cup (after \ c[p])
           M == {t \in A \cup B : IF t[1] = "joystick" THEN t \in B ELSE t \in A}
           half == Tell(es, "joystick", p, changed \cap Laid, after)
<1>1. /\ changed \in SUBSET Elements
      /\ \A e \in changed : ~(e \in c[p] <=> e \in after)
      /\ \A e : e \notin changed => (e \in c[p] <=> e \in after)
      /\ new \in [Pads -> SUBSET Elements] /\ new[p] = after
      /\ \A q \in Pads : q # p => new[q] = c[q]
  OBVIOUS
<1>2. /\ \A q, e : Button(q, e) \in A <=> q \in Pads /\ e \in c[q] /\ e \in Laid
      /\ \A q, e : Controller(q, e) \in A <=> q \in Pads /\ e \in c[q]
      /\ \A k : Key(k) \in A <=> \E q \in Pads : \E e \in h[q] : KeyOf[e] = k
  BY AccMembers
<1>3. /\ \A q, e : Button(q, e) \in B <=> q \in Pads /\ e \in new[q] /\ e \in Laid
      /\ \A q, e : Controller(q, e) \in B <=> q \in Pads /\ e \in new[q]
      /\ \A k : Key(k) \in B <=> \E q \in Pads : \E e \in h[q] : KeyOf[e] = k
  BY AccMembers
<1>4. /\ \A q, e : Button(q, e) \in M <=> Button(q, e) \in B
      /\ \A q, e : Controller(q, e) \in M <=> Controller(q, e) \in A
      /\ \A k : Key(k) \in M <=> Key(k) \in A
  BY Apart
<1>5. /\ \A e : Button(p, e) = <<"joystick", p, e>>
      /\ \A e : Controller(p, e) = <<"controller", p, e>>
  BY DEF Button, Controller
<1>6. /\ \A e \in changed : Said(<<"controller", p, e>>, e \in after) \in Events
      /\ \A e \in changed \cap Laid : Said(<<"joystick", p, e>>, e \in after) \in Events
  <2> HIDE DEF changed
  <2>1. \A e \in changed : <<"controller", p, e>> \in Things
    BY <1>1, <1>5, PadThings
  <2>2. \A e \in changed \cap Laid : <<"joystick", p, e>> \in Things
    BY <1>1, <1>5, PadThings
  <2>3. \A e : (e \in after) \in BOOLEAN
    OBVIOUS
  <2>4. \A e \in changed : Said(<<"controller", p, e>>, e \in after) \in Events
    BY <2>1, <2>3, SaidIsEvent, Zenon
  <2>5. \A e \in changed \cap Laid : Said(<<"joystick", p, e>>, e \in after) \in Events
    BY <2>2, <2>3, SaidIsEvent, Zenon
  <2> QED BY <2>4, <2>5
<1> HIDE DEF A, B, M, new, changed
<1>7. half \in Seq(Events) /\ \A t \in F : Steady(half, D, M, t, whole)
  <2>1. changed \cap Laid \in SUBSET Elements
    BY <1>1
  <2>2. \A e \in changed \cap Laid : ~(<<"joystick", p, e>> \in A <=> e \in after)
    BY <1>1, <1>2, <1>5
  <2>3. \A e \in changed \cap Laid : <<"joystick", p, e>> \in M <=> e \in after
    BY <1>1, <1>3, <1>4, <1>5
  <2>4. ASSUME NEW t \in F, \A e \in changed \cap Laid : t # <<"joystick", p, e>> PROVE t \in A <=> t \in M
    <3>1. CASE \E q \in Pads, e \in Laid : t = Button(q, e)
      BY <1>1, <1>2, <1>3, <1>4, <1>5, <2>4, <3>1
    <3>2. CASE \E q \in Pads, e \in Elements : t = Controller(q, e)
      BY <1>4, <3>2
    <3>3. CASE \E k \in Keys : t = Key(k)
      BY <1>4, <3>3
    <3> QED BY <3>1, <3>2, <3>3, ThingIs
  <2>5. \A t \in F : Steady(es, D, A, t, whole)
    BY DEF A
  <2> QED BY <1>6, <2>1, <2>2, <2>3, <2>4, <2>5, TellSteady
<1> HIDE DEF half
<1>8. /\ Tell(half, "controller", p, changed, after) \in Seq(Events)
      /\ \A t \in F : Steady(Tell(half, "controller", p, changed, after), D, B, t, whole)
  <2>1. \A e \in changed : ~(<<"controller", p, e>> \in M <=> e \in after)
    BY <1>1, <1>2, <1>4, <1>5
  <2>2. \A e \in changed : <<"controller", p, e>> \in B <=> e \in after
    BY <1>1, <1>3, <1>5
  <2>3. ASSUME NEW t \in F, \A e \in changed : t # <<"controller", p, e>> PROVE t \in M <=> t \in B
    <3>1. CASE \E q \in Pads, e \in Laid : t = Button(q, e)
      BY <1>4, <3>1
    <3>2. CASE \E q \in Pads, e \in Elements : t = Controller(q, e)
      BY <1>1, <1>2, <1>3, <1>4, <1>5, <2>3, <3>2
    <3>3. CASE \E k \in Keys : t = Key(k)
      BY <1>2, <1>3, <1>4, <3>3
    <3> QED BY <3>1, <3>2, <3>3, ThingIs
  <2> QED BY <1>1, <1>6, <1>7, <2>1, <2>2, <2>3, TellSteady
<1>9. diff(es, p, c[p], after) = Tell(half, "controller", p, changed, after)
  BY DEF diff, half, changed
<1> QED BY <1>8, <1>9 DEF B, new

\* KeyboardMode::update accounts for an element's key.
LEMMA PressSteady ==
    ASSUME NEW s \in Shims, NEW c, NEW p \in Pads, NEW e \in Elements, NEW now,
           NEW D, NEW whole, NEW F \in SUBSET Things,
           \A t \in F : Steady(s.events, D, Acc(c, s.held), t, whole)
    PROVE  /\ press(s, p, e, now) \in Shims
           /\ press(s, p, e, now).controller = s.controller
           /\ \A t \in F : Steady(press(s, p, e, now).events, D,
                                  Acc(c, press(s, p, e, now).held), t, whole)
<1>1. CASE KeyOf[e] = NoKey \/ (e \in s.held[p]) = (e \in now)
  BY <1>1 DEF press
<1>2. CASE ~(KeyOf[e] = NoKey \/ (e \in s.held[p]) = (e \in now))
  <2> DEFINE held == [s.held EXCEPT ![p] = IF e \in now THEN @ \cup {e} ELSE @ \ {e}]
             ev == Said(Key(KeyOf[e]), e \in now)
             es == IF heldElsewhere(s.held, p, e) THEN s.events ELSE Append(s.events, ev)
             u == press(s, p, e, now)
             A == Acc(c, s.held)
             B == Acc(c, held)
  <2>1. u = [s EXCEPT !.held = held, !.events = es]
    BY <1>2 DEF press
  <2>2. s.held \in [Pads -> SUBSET Elements] /\ s.events \in Seq(Events)
    BY DEF Shims
  <2>3. held \in [Pads -> SUBSET Elements]
    BY <2>2
  <2>4. Key(KeyOf[e]) \in Things /\ ev \in Events /\ ev.kind = "change" /\ ev.thing = Key(KeyOf[e])
        /\ (ev.down <=> e \in now)
    <3>1. Key(KeyOf[e]) \in Things
      BY <1>2, PadThings
    <3>2. (e \in now) \in BOOLEAN
      OBVIOUS
    <3>3. ev \in Events
      BY <3>1, <3>2, SaidIsEvent, Zenon
    <3> QED BY <3>1, <3>3 DEF Said
  <2>5. ~(e \in s.held[p] <=> e \in now)
    BY <1>2
  <2>6. /\ \A i : i # e => (i \in held[p] <=> i \in s.held[p])
        /\ e \in held[p] <=> e \in now
        /\ \A q \in Pads : q # p => held[q] = s.held[q]
    BY <2>2
  <2> HIDE DEF held, ev
  <2>7. es \in Seq(Events)
    <3>1. Append(s.events, ev) \in Seq(Events)
      BY <2>2, <2>4, AppendProperties
    <3> QED BY <2>2, <3>1
  <2>8. /\ \A q, i : Button(q, i) \in A <=> Button(q, i) \in B
        /\ \A q, i : Controller(q, i) \in A <=> Controller(q, i) \in B
    BY AccMembers
  <2>9. /\ \A k : Key(k) \in A <=> \E q \in Pads : \E i \in s.held[q] : KeyOf[i] = k
        /\ \A k : Key(k) \in B <=> \E q \in Pads : \E i \in held[q] : KeyOf[i] = k
    BY AccMembers
  <2>10. \A k : k # KeyOf[e] => (Key(k) \in A <=> Key(k) \in B)
    BY <2>6, <2>9
  <2> HIDE DEF A, B
  <2>11. ASSUME NEW t \in F, t # Key(KeyOf[e]) PROVE t \in A <=> t \in B
    <3>1. CASE \E q \in Pads, i \in Laid : t = Button(q, i)
      BY <2>8, <3>1
    <3>2. CASE \E q \in Pads, i \in Elements : t = Controller(q, i)
      BY <2>8, <3>2
    <3>3. CASE \E k \in Keys : t = Key(k)
      BY <2>10, <2>11, <3>3
    <3> QED BY <3>1, <3>2, <3>3, ThingIs
  <2>12. ASSUME NEW t \in F PROVE Steady(es, D, B, t, whole)
    <3>0. Steady(s.events, D, A, t, whole)
      BY DEF A
    <3>1. CASE heldElsewhere(s.held, p, e)
      <4>1. PICK q \in Pads : \E i \in s.held[q] : <<q, i>> # <<p, e>> /\ KeyOf[i] = KeyOf[e]
        BY <3>1 DEF heldElsewhere
      <4>2. PICK i \in s.held[q] : <<q, i>> # <<p, e>> /\ KeyOf[i] = KeyOf[e]
        BY <4>1
      <4>3. q # p \/ i # e
        BY <4>2
      <4>4. Key(KeyOf[e]) \in A
        BY <2>9, <4>2
      <4>5. i \in held[q]
        BY <2>6, <4>2, <4>3
      <4>6. Key(KeyOf[e]) \in B
        BY <2>9, <4>2, <4>5
      <4>7. t \in A <=> t \in B
        BY <2>11, <4>4, <4>6
      <4> QED BY <3>0, <3>1, <4>7, SteadySame
    <3>2. CASE ~heldElsewhere(s.held, p, e) /\ t = Key(KeyOf[e])
      <4>1. \A q \in Pads, i \in Elements : i \in s.held[q] /\ KeyOf[i] = KeyOf[e] => q = p /\ i = e
        BY <3>2 DEF heldElsewhere
      <4>2. t \in A <=> e \in s.held[p]
        BY <2>2, <2>9, <3>2, <4>1
      <4>3. t \in B <=> e \in now
        BY <2>2, <2>3, <2>6, <2>9, <3>2, <4>1
      <4>4. IsOf(ev, t)
        BY <2>4, <3>2 DEF IsOf
      <4> QED BY <2>2, <2>4, <2>5, <3>0, <3>2, <4>2, <4>3, <4>4, SteadyTold
    <3>3. CASE ~heldElsewhere(s.held, p, e) /\ t # Key(KeyOf[e])
      <4>1. ~IsOf(ev, t)
        BY <2>4, <3>3 DEF IsOf
      <4>2. t \in A <=> t \in B
        BY <2>11, <3>3
      <4> QED BY <2>2, <2>4, <3>0, <3>3, <4>1, <4>2, SteadyOther
    <3> QED BY <3>1, <3>2, <3>3
  <2> HIDE DEF es
  <2>13. u \in Shims /\ u.controller = s.controller /\ u.held = held /\ u.events = es
    BY <2>1, <2>3, <2>7 DEF Shims
  <2> HIDE DEF u
  <2>14. \A t \in F : Steady(u.events, D, Acc(c, u.held), t, whole)
    BY <2>12, <2>13 DEF B
  <2> QED BY <2>13, <2>14 DEF u
<1> QED BY <1>1, <1>2

-----------------------------------------------------------------------------
(* The shim's look at the pads.                                            *)

\* What s has in its queue is right of all the things in F, if it takes the pads to be c.
Fits(s, c, D, F, whole) ==
    /\ s \in Shims
    /\ \A t \in F : Steady(s.events, D, Acc(c, s.held), t, whole)

\* A walk that stays in S ends in S.
LEMMA Walk ==
    ASSUME NEW S, NEW N \in Nat, NEW told, told[0] \in S,
           \A i \in 1..N : told[i - 1] \in S => told[i] \in S
    PROVE  told[N] \in S
<1> DEFINE T == {i \in 0..N : told[i] \in S}
<1>1. T \in SUBSET (0..N) /\ 0 \in T /\ \A i \in 1..N : i - 1 \in T => i \in T
  OBVIOUS
<1>2. T = 0..N
  <2> HIDE DEF T
  <2> QED BY <1>1, Induct
<1>3. N \in 0..N
  OBVIOUS
<1> QED BY <1>2, <1>3

\* KeyboardMode::update keeps the queue right.
LEMMA KeyboardFits ==
    ASSUME NEW s, NEW c, NEW p \in Pads, NEW now, NEW D, NEW F \in SUBSET Things, NEW whole, Fits(s, c, D, F, whole)
    PROVE  Fits(keyboard(s, p, now), c, D, F, whole) /\ keyboard(s, p, now).controller = s.controller
<1> DEFINE N == Len(ElementOrder)
           S == {x \in Shims : Fits(x, c, D, F, whole) /\ x.controller = s.controller}
           Add(i, x) == press(x, p, ElementOrder[i], now)
           G(h) == [i \in 0..N |-> IF i = 0 THEN s ELSE press(h[i - 1], p, ElementOrder[i], now)]
           step == CHOOSE h : h = G(h)
<1>1. keyboard(s, p, now) = step[N]
  BY DEF keyboard
<1>2. N \in Nat /\ \A i \in 1..N : ElementOrder[i] \in Elements
  BY Order
<1>3. ASSUME NEW i \in 1..N, NEW x \in S PROVE Add(i, x) \in S
  <2>1. /\ x \in Shims /\ ElementOrder[i] \in Elements
        /\ \A t \in F : Steady(x.events, D, Acc(c, x.held), t, whole)
    BY <1>2 DEF Fits
  <2>2. /\ Add(i, x) \in Shims
        /\ Add(i, x).controller = x.controller
        /\ \A t \in F : Steady(Add(i, x).events, D, Acc(c, Add(i, x).held), t, whole)
    BY <2>1, PressSteady
  <2> HIDE DEF Add
  <2> QED BY <2>2 DEF Fits
<1>4. \A h : G(h) = [i \in 0..N |-> IF i = 0 THEN s ELSE Add(i, h[i - 1])]
  OBVIOUS
<1>5. s \in S
  BY DEF Fits
<1>6. N \in Nat
  BY <1>2
<1> HIDE DEF N, S, Add, G
<1>7. \E h : h = G(h)
  <2> DEFINE g == [i \in 1..N |-> [x \in S |-> Add(i, x)]]
  <2>1. g \in [1..N -> [S -> S]]
    BY <1>3
  <2>2. \A i \in 1..N, x \in S : g[i][x] = Add(i, x)
    OBVIOUS
  <2> HIDE DEF g
  <2>3. PICK h : Follows(h, s, g, N, S)
    BY <1>5, <1>6, <2>1, Recursion
  <2>4. ASSUME NEW i \in 1..N PROVE h[i] = Add(i, h[i - 1])
    <3>1. h[i - 1] \in S
      BY <1>6, <2>3 DEF Follows
    <3> QED BY <2>2, <2>3, <3>1 DEF Follows
  <2>5. h = [i \in 0..N |-> IF i = 0 THEN s ELSE Add(i, h[i - 1])]
    BY <2>3, <2>4 DEF Follows
  <2> QED BY <1>4, <2>5
<1>8. step = G(step)
  BY <1>7
<1> HIDE DEF step
<1>9. step = [i \in 0..N |-> IF i = 0 THEN s ELSE Add(i, step[i - 1])]
  BY <1>4, <1>8
<1>10. step[0] = s /\ \A i \in 1..N : step[i] = Add(i, step[i - 1])
  BY <1>6, <1>9
<1>11. step[N] \in S
  BY <1>3, <1>5, <1>6, <1>10, Walk
<1> QED BY <1>1, <1>11 DEF S

\* So does the announcement of the pads, of which no event is a change.
LEMMA AnnounceFits ==
    ASSUME NEW s, NEW c, NEW D, NEW F \in SUBSET Things, NEW whole, Fits(s, c, D, F, whole)
    PROVE  Fits(announce(s), c, D, F, whole) /\ announce(s).controller = s.controller
<1>1. CASE s.announced \/ ~wants
  BY <1>1 DEF announce
<1>2. CASE ~(s.announced \/ ~wants)
  <2> DEFINE more == [p \in Pads |-> Added]
             q == s.events \o more
             u == announce(s)
  <2>1. u = [s EXCEPT !.announced = TRUE, !.events = q]
    BY <1>2 DEF announce
  <2>2. Players \in Nat /\ Added \in Events
    BY ShimAssumption DEF Events
  <2>3. more \in Seq(Events) /\ Len(more) = Players /\ \A k \in 1..Players : more[k] = Added
    BY <2>2, SeqDef DEF Pads
  <2>4. s.events \in Seq(Events) /\ Len(s.events) \in Nat
    BY LenProperties DEF Fits, Shims
  <2> HIDE DEF more
  <2>5. /\ q \in Seq(Events) /\ Len(q) = Len(s.events) + Players
        /\ \A i \in 1..Len(s.events) + Players :
              q[i] = IF i <= Len(s.events) THEN s.events[i] ELSE more[i - Len(s.events)]
    BY <2>3, <2>4, ConcatProperties
  <2> HIDE DEF q
  <2>6. Len(s.events) <= Len(q) /\ \A k \in 1..Len(s.events) : q[k] = s.events[k]
    BY <2>2, <2>4, <2>5
  <2>7. ASSUME NEW k \in 1..Len(q), k > Len(s.events) PROVE q[k] = Added
    <3>1. k - Len(s.events) \in 1..Players
      BY <2>2, <2>4, <2>5, <2>7
    <3> QED BY <2>2, <2>3, <2>4, <2>5, <2>7, <3>1
  <2>8. \A t : ~IsOf(Added, t)
    BY DEF IsOf, Added
  <2>9. ASSUME NEW t \in F PROVE Steady(q, D, Acc(c, s.held), t, whole)
    <3>1. Steady(s.events, D, Acc(c, s.held), t, whole)
      BY DEF Fits
    <3>2. \A k \in 1..Len(q) : k > Len(s.events) => ~IsOf(q[k], t)
      BY <2>7, <2>8
    <3> QED BY <2>4, <2>5, <2>6, <3>1, <3>2, SteadyLonger
  <2>10. u \in Shims /\ u.controller = s.controller /\ u.held = s.held /\ u.events = q
    BY <2>1, <2>5 DEF Fits, Shims
  <2> HIDE DEF u
  <2>11. Fits(u, c, D, F, whole) /\ u.controller = s.controller
    BY <2>9, <2>10 DEF Fits
  <2> QED BY <2>11 DEF u
<1> QED BY <1>1, <1>2

\* Of what F has, the shim has missed nothing.
Seen(s, F) == wants \/ s.controller = pads \/ \A t \in F : t[1] = "key"

\* So does a look at one pad.
LEMMA LookAtFits ==
    ASSUME pads \in [Pads -> SUBSET Elements],
           NEW s, NEW p \in Pads, NEW D, NEW F \in SUBSET Things, NEW whole,
           Fits(s, s.controller, D, F, whole), Seen(s, F)
    PROVE  Fits(lookAt(s, p), lookAt(s, p).controller, D, F, whole) /\ Seen(lookAt(s, p), F)
<1> DEFINE now == pads[p]
           c == [s.controller EXCEPT ![p] = now]
           t0 == IF wants /\ wantsJoystick THEN [s EXCEPT !.events = diff(@, p, s.controller[p], now)] ELSE s
           u0 == IF wants /\ wantsKeyboard THEN keyboard(t0, p, now) ELSE t0
           v == lookAt(s, p)
<1>1. v = [u0 EXCEPT !.controller[p] = now]
  BY DEF lookAt
<1>2. /\ s \in Shims /\ s.controller \in [Pads -> SUBSET Elements] /\ s.events \in Seq(Events)
      /\ c \in [Pads -> SUBSET Elements] /\ now \in SUBSET Elements
      /\ \A t \in F : Steady(s.events, D, Acc(s.controller, s.held), t, whole)
  BY DEF Fits, Shims
<1>3. \* t0 with the pad as it is now
      /\ t0 \in Shims /\ t0.controller = s.controller /\ t0.held = s.held
      /\ \A t \in F : Steady(t0.events, D, Acc(c, t0.held), t, whole)
  <2>1. CASE wants /\ wantsJoystick
    <3> DEFINE es == diff(s.events, p, s.controller[p], now)
    <3>1. es \in Seq(Events) /\ \A t \in F : Steady(es, D, Acc(c, s.held), t, whole)
      BY <1>2, <2>1, DiffSteady
    <3>2. t0 = [s EXCEPT !.events = es]
      BY <2>1
    <3> HIDE DEF es, t0
    <3>3. t0 \in Shims /\ t0.controller = s.controller /\ t0.held = s.held /\ t0.events = es
      BY <1>2, <3>1, <3>2 DEF Shims
    <3> QED BY <3>1, <3>3
  <2>2. CASE ~(wants /\ wantsJoystick)
    <3>1. t0 = s
      BY <2>2
    <3>2. /\ \A q, e : Button(q, e) \in Acc(s.controller, s.held)
                          <=> wantsJoystick /\ q \in Pads /\ e \in s.controller[q] /\ e \in Laid
          /\ \A q, e : Controller(q, e) \in Acc(s.controller, s.held)
                          <=> wantsJoystick /\ q \in Pads /\ e \in s.controller[q]
          /\ \A k : Key(k) \in Acc(s.controller, s.held) <=> \E q \in Pads : \E e \in s.held[q] : KeyOf[e] = k
      BY AccMembers
    <3>3. wantsJoystick => c = s.controller \/ \A t \in F : t[1] = "key"
      <4>1. CASE s.controller = pads
        BY <1>2, <4>1
      <4>2. CASE s.controller # pads
        BY <2>2, <4>2 DEF Seen
      <4> QED BY <4>1, <4>2
    <3> HIDE DEF c
    <3>4. /\ \A q, e : Button(q, e) \in Acc(c, s.held) <=> wantsJoystick /\ q \in Pads /\ e \in c[q] /\ e \in Laid
          /\ \A q, e : Controller(q, e) \in Acc(c, s.held) <=> wantsJoystick /\ q \in Pads /\ e \in c[q]
          /\ \A k : Key(k) \in Acc(c, s.held) <=> \E q \in Pads : \E e \in s.held[q] : KeyOf[e] = k
      BY AccMembers
    <3>5. ASSUME NEW t \in F PROVE t \in Acc(s.controller, s.held) <=> t \in Acc(c, s.held)
      <4>1. CASE \E q \in Pads, e \in Laid : t = Button(q, e)
        BY <3>2, <3>3, <3>4, <4>1, Apart
      <4>2. CASE \E q \in Pads, e \in Elements : t = Controller(q, e)
        BY <3>2, <3>3, <3>4, <4>2, Apart
      <4>3. CASE \E k \in Keys : t = Key(k)
        BY <3>2, <3>4, <4>3
      <4> QED BY <4>1, <4>2, <4>3, ThingIs
    <3>6. \A t \in F : Steady(s.events, D, Acc(c, s.held), t, whole)
      BY <1>2, <3>5, SteadySame
    <3> HIDE DEF t0
    <3> QED BY <1>2, <3>1, <3>6
  <2> QED BY <2>1, <2>2
<1> HIDE DEF t0
<1>4. \* and the keys with it
      /\ u0 \in Shims /\ u0.controller = s.controller
      /\ \A t \in F : Steady(u0.events, D, Acc(c, u0.held), t, whole)
  <2>1. CASE wants /\ wantsKeyboard
    <3>1. u0 = keyboard(t0, p, now)
      BY <2>1
    <3>2. Fits(t0, c, D, F, whole)
      BY <1>3 DEF Fits
    <3>3. Fits(keyboard(t0, p, now), c, D, F, whole) /\ keyboard(t0, p, now).controller = t0.controller
      <4> HIDE DEF c, now
      <4> QED BY <3>2, KeyboardFits
    <3> HIDE DEF c, now, u0
    <3> QED BY <1>3, <3>1, <3>3 DEF Fits
  <2>2. CASE ~(wants /\ wantsKeyboard)
    BY <1>3, <2>2
  <2> QED BY <2>1, <2>2
<1> HIDE DEF u0
<1>5. v \in Shims /\ v.controller = c /\ v.held = u0.held /\ v.events = u0.events
  BY <1>1, <1>2, <1>4 DEF Shims
<1>6. Fits(v, v.controller, D, F, whole)
  BY <1>4, <1>5 DEF Fits
<1>7. Seen(v, F)
  <2>1. CASE s.controller = pads
    BY <1>2, <1>5, <2>1 DEF Seen
  <2>2. CASE s.controller # pads
    BY <2>2 DEF Seen
  <2> QED BY <2>1, <2>2
<1> HIDE DEF v
<1>8. Fits(v, v.controller, D, F, whole) /\ Seen(v, F)
  BY <1>6, <1>7
<1> QED BY <1>8 DEF v

\* So does all that a call queues.
LEMMA FilledFits ==
    ASSUME pads \in [Pads -> SUBSET Elements],
           NEW D, NEW F \in SUBSET Things, NEW whole, Fits(shim, shim.controller, D, F, whole), Seen(shim, F)
    PROVE  \A s \in Filled : Fits(s, s.controller, D, F, whole)
<1> DEFINE Q == {x \in Shims : Fits(x, x.controller, D, F, whole) /\ Seen(x, F)}
           S == SUBSET Q
           first == {announce(shim)}
           Add(p, X) == {lookAt(s, p) : s \in X}
           G(h) == [p \in 0..Players |-> IF p = 0 THEN {announce(shim)} ELSE {lookAt(s, p) : s \in h[p - 1]}]
           looked == CHOOSE h : h = G(h)
           last == looked[Players]
<1>1. Filled = {IF quit = "due" THEN [s EXCEPT !.events = Append(@, Quit)] ELSE s : s \in last}
  BY DEF Filled
<1>2. Players \in Nat /\ Pads = 1..Players
  BY ShimAssumption DEF Pads
<1>3. first \in S
  <2> DEFINE u == announce(shim)
  <2>1. Fits(u, shim.controller, D, F, whole) /\ u.controller = shim.controller
    BY AnnounceFits
  <2> HIDE DEF u
  <2>2. u \in Q
    BY <2>1 DEF Fits, Seen
  <2> QED BY <2>2 DEF u
<1>4. ASSUME NEW p \in 1..Players, NEW X \in S PROVE Add(p, X) \in S
  <2>1. ASSUME NEW x \in X PROVE lookAt(x, p) \in Q
    <3>1. Fits(x, x.controller, D, F, whole) /\ Seen(x, F) /\ p \in Pads
      BY <1>2
    <3>2. Fits(lookAt(x, p), lookAt(x, p).controller, D, F, whole) /\ Seen(lookAt(x, p), F)
      BY <3>1, LookAtFits
    <3> QED BY <3>2 DEF Fits
  <2> HIDE DEF Q
  <2> QED BY <2>1
<1>5. \A h : G(h) = [p \in 0..Players |-> IF p = 0 THEN first ELSE Add(p, h[p - 1])]
  OBVIOUS
<1> HIDE DEF S, first, Add, G
<1>6. \E h : h = G(h)
  <2> DEFINE g == [p \in 1..Players |-> [X \in S |-> Add(p, X)]]
  <2>1. g \in [1..Players -> [S -> S]]
    BY <1>4
  <2>2. \A p \in 1..Players, X \in S : g[p][X] = Add(p, X)
    OBVIOUS
  <2> HIDE DEF g
  <2>3. PICK h : Follows(h, first, g, Players, S)
    BY <1>2, <1>3, <2>1, Recursion
  <2>4. ASSUME NEW p \in 1..Players PROVE h[p] = Add(p, h[p - 1])
    <3>1. h[p - 1] \in S
      BY <1>2, <2>3 DEF Follows
    <3> QED BY <2>2, <2>3, <3>1 DEF Follows
  <2>5. h = [p \in 0..Players |-> IF p = 0 THEN first ELSE Add(p, h[p - 1])]
    BY <2>3, <2>4 DEF Follows
  <2> QED BY <1>5, <2>5
<1>7. looked = G(looked)
  BY <1>6
<1> HIDE DEF looked
<1>8. looked = [p \in 0..Players |-> IF p = 0 THEN first ELSE Add(p, looked[p - 1])]
  BY <1>5, <1>7
<1>9. looked[0] = first /\ \A p \in 1..Players : looked[p] = Add(p, looked[p - 1])
  BY <1>2, <1>8
<1>10. last \in S
  <2>1. Players \in Nat /\ looked[0] \in S
    BY <1>2, <1>3, <1>9
  <2>2. \A p \in 1..Players : looked[p - 1] \in S => looked[p] \in S
    BY <1>4, <1>9
  <2> QED BY <2>1, <2>2, Walk
<1> HIDE DEF last
<1>11. ASSUME NEW x \in last
       PROVE  x \in Shims /\ \A t \in F : Steady(x.events, D, Acc(x.controller, x.held), t, whole)
  BY <1>10 DEF S, Fits
<1>12. CASE quit = "due"
  <2>1. Quit \in Events /\ \A t : ~IsOf(Quit, t)
    BY DEF Events, IsOf, Quit
  <2>2. SUFFICES ASSUME NEW x \in last, NEW u, u = [x EXCEPT !.events = Append(@, Quit)]
                 PROVE  Fits(u, u.controller, D, F, whole)
    BY <1>1, <1>12
  <2>3. x \in Shims /\ \A t \in F : Steady(x.events, D, Acc(x.controller, x.held), t, whole)
    BY <1>11
  <2>4. x.events \in Seq(Events) /\ Append(x.events, Quit) \in Seq(Events)
    BY <2>1, <2>3, AppendProperties DEF Shims
  <2>5. u \in Shims /\ u.controller = x.controller /\ u.held = x.held /\ u.events = Append(x.events, Quit)
    BY <2>2, <2>3, <2>4 DEF Shims
  <2>6. \A t \in F : Steady(u.events, D, Acc(u.controller, u.held), t, whole)
    BY <2>1, <2>3, <2>4, <2>5, SteadyOther
  <2> QED BY <2>5, <2>6 DEF Fits
<1>13. CASE quit # "due"
  BY <1>1, <1>11, <1>13 DEF Fits
<1> QED BY <1>12, <1>13

\* What is left of a queue that was too long is right, but it is not whole.
LEMMA TrimmedFits ==
    ASSUME NEW s, NEW c, NEW D, NEW F \in SUBSET Things, NEW whole, Fits(s, c, D, F, whole)
    PROVE  /\ Len(trimmed(s).events) <= QueueMax
           /\ trimmed(s).controller = s.controller
           /\ Len(s.events) \in Nat
           /\ Fits(trimmed(s), c, D, F, whole /\ ~(Len(s.events) > QueueMax))
<1>1. /\ QueueMax \in Nat /\ Len(s.events) \in Nat /\ s.events \in Seq(Events) /\ s \in Shims
  BY ShimAssumption, LenProperties DEF Fits, Shims
<1>2. trimmed(s) = [s EXCEPT !.events = trim(s.events)]
  BY DEF trimmed
<1>3. CASE Len(s.events) > QueueMax
  <2> DEFINE es == s.events
             n == Len(es) - QueueMax
             q == SubSeq(es, n + 1, Len(es))
             u == trimmed(s)
  <2>1. n \in 0..Len(es) /\ n \in Nat /\ Len(es) - (n + 1) + 1 = QueueMax /\ n + 1 <= Len(es) + 1
    BY <1>1, <1>3
  <2>2. \A k \in (n + 1)..Len(es) : es[k] \in Events
    BY <1>1, <2>1, ElementOfSeq
  <2>3. /\ q \in Seq(Events) /\ Len(q) = IF n + 1 <= Len(es) THEN Len(es) - (n + 1) + 1 ELSE 0
        /\ \A i \in 1..(Len(es) - (n + 1) + 1) : q[i] = es[n + 1 + i - 1]
    <3> HIDE DEF n, es
    <3> QED BY <1>1, <2>1, <2>2, SubSeqProperties DEF es
  <2>4. u = [s EXCEPT !.events = q]
    BY <1>2, <1>3 DEF trim
  <2> HIDE DEF q, u
  <2>5. Len(q) = QueueMax /\ \A i \in 1..Len(q) : q[i] = es[i + n]
    BY <1>1, <1>3, <2>1, <2>3
  <2>6. u \in Shims /\ u.controller = s.controller /\ u.held = s.held /\ u.events = q
    BY <1>1, <2>3, <2>4 DEF Shims
  <2>7. \A t \in F : Steady(es, D, Acc(c, s.held), t, whole)
    BY DEF Fits
  <2>8. Len(q) = Len(es) - n
    BY <1>1, <2>5
  <2> HIDE DEF es, n
  <2>9. \A t \in F : Steady(q, D, Acc(c, s.held), t, FALSE)
    BY <1>1, <2>1, <2>3, <2>5, <2>7, <2>8, SteadyTrimmed DEF es
  <2>10. Fits(u, c, D, F, whole /\ ~(Len(s.events) > QueueMax))
    BY <1>3, <2>6, <2>9 DEF Fits, Steady
  <2>11. Len(u.events) <= QueueMax /\ u.controller = s.controller
    BY <1>1, <2>5, <2>6
  <2> QED BY <1>1, <2>10, <2>11 DEF u
<1>4. CASE ~(Len(s.events) > QueueMax)
  <2>1. trimmed(s) = s
    BY <1>1, <1>2, <1>4 DEF trim, Shims
  <2>2. \A t \in F : Steady(s.events, D, Acc(c, s.held), t, whole /\ ~(Len(s.events) > QueueMax))
    BY <1>4 DEF Fits, Steady
  <2> QED BY <1>1, <1>4, <2>1, <2>2 DEF Fits
<1> QED BY <1>3, <1>4

\* The App can be told of the things in F, and its shim follows up on them.
Told(F) ==
    /\ F \in SUBSET Things
    /\ \A t \in F : sdl = "2" \/ t[1] # "controller"
    /\ wants => \A t \in Things : Followed(t) => t \in F

\* The end of SDL_PollEvent: the App takes down what it is given.
LEMMA GiveFits ==
    ASSUME TypeOK, NEW s, NEW q, NEW c, NEW F, NEW whole, Told(F), Fits(s, c, appDown, F, whole), Give(s, q),
           Len(s.events) <= QueueMax, q \in {"none", "due", "queued", "told"}
    PROVE  /\ Fits(shim', c, appDown', F, whole) /\ shim'.controller = s.controller
           /\ Len(shim'.events) <= QueueMax
           /\ appDown' \subseteq Things /\ repeated' \in BOOLEAN
           /\ quit' \in {"none", "due", "queued", "told"}
           /\ whole => (repeated' => repeated)
<1>0. /\ s \in Shims /\ s.events \in Seq(Events) /\ Len(s.events) \in Nat
      /\ \A t \in F : Steady(s.events, appDown, Acc(c, s.held), t, whole)
  BY LenProperties DEF Fits, Shims
<1>00. appDown \subseteq Things /\ repeated \in BOOLEAN /\ missed \in BOOLEAN /\ QueueMax \in Nat
  BY ShimAssumption DEF TypeOK
<1>1. CASE wants /\ s.events # <<>>
  <2> DEFINE ev == Head(s.events)
             tail == Tail(s.events)
  <2>1. /\ ev \in Events /\ tail \in Seq(Events) /\ Len(tail) = Len(s.events) - 1
    BY <1>0, <1>1, HeadTailProperties
  <2>2. /\ shim' = [s EXCEPT !.events = tail]
        /\ Hear(ev)
        /\ quit' = IF ev = Quit THEN "told" ELSE q
    BY <1>1 DEF Give
  <2>3. ev.kind = "change" => ev.thing \in Things /\ ev.down \in BOOLEAN
    <3>1. CASE ev = Quit
      BY <3>1 DEF Quit
    <3>2. CASE ev = Added
      BY <3>2 DEF Added
    <3>3. CASE \E t \in Things, d \in BOOLEAN : ev = Said(t, d)
      BY <3>3 DEF Said
    <3> QED BY <2>1, <3>1, <3>2, <3>3 DEF Events
  <2> HIDE DEF ev, tail
  <2>4. shim' \in Shims /\ shim'.controller = s.controller /\ shim'.held = s.held /\ shim'.events = tail
    BY <1>0, <2>1, <2>2 DEF Shims
  <2>5. ASSUME NEW t \in F, IsOf(ev, t) PROVE Writable(ev)
    <3>1. ev.kind = "change" /\ ev.thing = t
      BY <2>5 DEF IsOf
    <3>2. ev # Added
      BY <3>1 DEF Added
    <3>3. sdl = "2" \/ t[1] # "controller"
      BY DEF Told
    <3> QED BY <3>1, <3>2, <3>3 DEF Writable
  <2>6. appDown' \subseteq Things /\ repeated' \in BOOLEAN
    BY <1>00, <2>2, <2>3 DEF Hear
  <2>7. ASSUME NEW t \in F, IsOf(ev, t) PROVE t \in appDown' <=> ev.down
    <3>1. ev.kind = "change" /\ ev.thing = t
      BY <2>7 DEF IsOf
    <3> QED BY <2>2, <2>3, <2>5, <2>7, <3>1 DEF Hear
  <2>8. ASSUME NEW t \in F, ~IsOf(ev, t) PROVE t \in appDown' <=> t \in appDown
    <3>1. ev.kind = "change" => ev.thing # t
      BY <2>8 DEF IsOf
    <3> QED BY <2>2, <3>1 DEF Hear
  <2>9. ASSUME NEW t \in F
        PROVE  /\ Steady(tail, appDown', Acc(c, s.held), t, whole)
               /\ whole /\ IsOf(ev, t) => ~(ev.down <=> t \in appDown)
    <3>1. Steady(s.events, appDown, Acc(c, s.held), t, whole)
      BY <1>0
    <3>2. IsOf(ev, t) => (t \in appDown' <=> ev.down)
      BY <2>7
    <3>3. ~IsOf(ev, t) => (t \in appDown' <=> t \in appDown)
      BY <2>8
    <3> QED BY <1>0, <1>1, <3>1, <3>2, <3>3, SteadyGiven DEF ev, tail
  <2>10. Fits(shim', c, appDown', F, whole)
    BY <2>4, <2>9 DEF Fits
  <2>11. ASSUME whole, repeated' PROVE repeated
    <3>1. CASE ev.kind = "change" /\ Writable(ev)
      <4>1. ev.thing \in Things /\ ev.down \in BOOLEAN /\ IsOf(ev, ev.thing)
        BY <2>3, <3>1 DEF IsOf
      <4>2. CASE Followed(ev.thing)
        <5>1. ev.thing \in F
          BY <1>1, <4>1, <4>2 DEF Told
        <5>2. ~(ev.down <=> ev.thing \in appDown)
          BY <2>9, <2>11, <4>1, <5>1
        <5> QED BY <2>2, <2>11, <3>1, <4>1, <5>2 DEF Hear
      <4>3. CASE ~Followed(ev.thing)
        <5>1. sdl = "2" \/ ev.thing[1] # "controller"
          BY <3>1 DEF Writable
        <5>2. ev.thing[1] = "joystick" \/ ev.thing[1] = "controller" \/ ev.thing[1] = "key"
          BY <4>1, ThingIs, Apart
        <5>3. ~(ev.thing[1] = "key" \/ ~missed)
          BY <4>3, <5>1, <5>2 DEF Followed
        <5> QED BY <2>2, <2>11, <3>1, <5>3 DEF Hear
      <4> QED BY <4>2, <4>3
    <3>2. CASE ~(ev.kind = "change" /\ Writable(ev))
      BY <2>2, <2>11, <3>2 DEF Hear
    <3> QED BY <3>1, <3>2
  <2>12. quit' \in {"none", "due", "queued", "told"}
    BY <2>2
  <2>13. Len(shim'.events) <= QueueMax
    BY <1>0, <1>00, <2>1, <2>4
  <2> QED BY <2>4, <2>6, <2>10, <2>11, <2>12, <2>13
<1>2. CASE ~(wants /\ s.events # <<>>)
  <2>1. shim' = s /\ quit' = q /\ appDown' = appDown /\ repeated' = repeated
    BY <1>2 DEF Give
  <2> QED BY <1>00, <2>1
<1> QED BY <1>1, <1>2

-----------------------------------------------------------------------------
(* The inductive invariant.                                                *)

\* The things of which every change is followed up.
Reliable(lost) == {t \in Things : t[1] = "key" \/ (~lost /\ (sdl = "2" \/ t[1] = "joystick"))}

\* What is queued for the App brings it from what it takes to be down to what the shim has
\* accounted for, by changes only; and if events were dropped, what is left still ends there.
QueueIsRight == Fits(shim, shim.controller, appDown, Reliable(missed), ~dropped)

IInv == TypeOK /\ QueueIsRight /\ NoRepeats

\* Nothing is queued, nothing is down.
LEMMA InitIInv == Init => IInv
<1> SUFFICES ASSUME Init PROVE IInv
    OBVIOUS
<1>1. /\ shim.events = <<>> /\ shim.controller = Nothing /\ shim.held = Nothing /\ shim.announced = FALSE
      /\ shim = [announced |-> FALSE, controller |-> Nothing, held |-> Nothing, events |-> <<>>]
  BY DEF Init
<1>2. Nothing \in [Pads -> SUBSET Elements] /\ \A p \in Pads : Nothing[p] = {}
  BY DEF Nothing
<1>3. <<>> \in Seq(Events) /\ Len(<<>>) = 0
  BY EmptySeq
<1>4. shim \in Shims
  BY <1>1, <1>2, <1>3 DEF Shims
<1>5. TypeOK
  <2>1. Len(shim.events) <= QueueMax
    BY <1>1, <1>3, ShimAssumption
  <2>2. changes \in 0..MaxChanges
    BY ShimAssumption DEF Init
  <2>3. pads \in [Pads -> SUBSET Elements]
    BY <1>2 DEF Init
  <2>4. {missed, dropped, repeated} \subseteq BOOLEAN /\ wants \in BOOLEAN /\ appDown \subseteq Things
    BY DEF Init
  <2> QED BY <1>4, <2>1, <2>2, <2>3, <2>4 DEF TypeOK, Shims, Init
<1>6. ASSUME NEW t \in Things PROVE Steady(<<>>, appDown, Acc(Nothing, Nothing), t, ~dropped)
  <2>1. t \notin Acc(Nothing, Nothing)
    BY <1>2 DEF Acc
  <2>2. t \notin appDown
    BY DEF Init
  <2>3. \A k : k \notin 1..Len(<<>>)
    BY <1>3
  <2> QED BY <2>1, <2>2, <2>3 DEF Steady
<1>7. QueueIsRight
  BY <1>1, <1>4, <1>6 DEF QueueIsRight, Fits, Reliable
<1>8. NoRepeats
  BY DEF Init, NoRepeats
<1> QED BY <1>5, <1>7, <1>8 DEF IInv

\* A call that reads the block.
LEMMA UpdateFits ==
    ASSUME IInv, NEW x \in Filled, update(x)
    PROVE  /\ Fits(trimmed(x), trimmed(x).controller, appDown, Reliable(missed'), ~dropped')
           /\ Len(trimmed(x).events) <= QueueMax
           /\ dropped' \in BOOLEAN /\ missed' \in BOOLEAN
           /\ ~dropped' => ~dropped
           /\ wants => missed' = missed
<1>1. /\ dropped \in BOOLEAN /\ missed \in BOOLEAN /\ wants \in BOOLEAN
      /\ pads \in [Pads -> SUBSET Elements]
  BY DEF IInv, TypeOK
<1>2. /\ dropped' = (dropped \/ Len(x.events) > QueueMax)
      /\ missed' = (missed \/ (~wants /\ pads # shim.controller))
  BY DEF update
<1>3. PICK F : F = Reliable(missed')
  OBVIOUS
<1>4. F \in SUBSET Things /\ F \subseteq Reliable(missed)
  BY <1>2, <1>3 DEF Reliable
<1>5. Fits(shim, shim.controller, appDown, F, ~dropped)
  BY <1>4 DEF IInv, QueueIsRight, Fits
<1>6. Seen(shim, F)
  BY <1>2, <1>3 DEF Seen, Reliable
<1>7. Fits(x, x.controller, appDown, F, ~dropped)
  BY <1>1, <1>4, <1>5, <1>6, FilledFits
<1>8. /\ Len(trimmed(x).events) <= QueueMax
      /\ trimmed(x).controller = x.controller
      /\ Fits(trimmed(x), x.controller, appDown, F, ~dropped /\ ~(Len(x.events) > QueueMax))
  BY <1>4, <1>7, TrimmedFits
<1>9. ~dropped' <=> ~dropped /\ ~(Len(x.events) > QueueMax)
  BY <1>2
<1>10. dropped' \in BOOLEAN /\ missed' \in BOOLEAN /\ (~dropped' => ~dropped) /\ (wants => missed' = missed)
  BY <1>1, <1>2
<1>11. Fits(trimmed(x), trimmed(x).controller, appDown, F, ~dropped')
  BY <1>8, <1>9 DEF Fits, Steady
<1> QED BY <1>3, <1>8, <1>10, <1>11

\* The App can be told of what is followed up.
LEMMA ReliableTold ==
    ASSUME NEW lost, wants => lost = missed
    PROVE  Told(Reliable(lost))
BY DEF Told, Reliable, Followed

\* What IInv says after a step that leaves the App's SDL and its mode alone.
LEMMA Afterwards ==
    ASSUME sdl' = sdl, mode' = mode,
           Fits(shim', shim'.controller, appDown', Reliable(missed'), ~dropped')
    PROVE  QueueIsRight'
<1>1. \A c, h : Acc(c, h)' = Acc(c, h)
  BY DEF Acc, wantsJoystick
<1>2. Reliable(missed)' = Reliable(missed')
  BY DEF Reliable
<1>3. Fits(shim, shim.controller, appDown, Reliable(missed), ~dropped)'
  BY <1>1, <1>2 DEF Fits, Acc, wantsJoystick
<1> QED BY <1>3 DEF QueueIsRight

LEMMA StepIInv == IInv /\ [Next]_vars => IInv'
<1> SUFFICES ASSUME IInv, [Next]_vars PROVE IInv'
    OBVIOUS
<1>0. /\ mode \in {"joystick", "keyboard", "both"} /\ sdl \in {"1.2", "2"}
      /\ pads \in [Pads -> SUBSET Elements]
      /\ shim \in Shims
      /\ Len(shim.events) <= QueueMax
      /\ wants \in BOOLEAN /\ quit \in {"none", "due", "queued", "told"}
      /\ appDown \subseteq Things
      /\ missed \in BOOLEAN /\ dropped \in BOOLEAN /\ repeated \in BOOLEAN
      /\ changes \in 0..MaxChanges /\ MaxChanges \in Nat
  BY ShimAssumption DEF IInv, TypeOK, Shims
<1>00. QueueIsRight /\ NoRepeats /\ TypeOK
  BY DEF IInv
<1>1. ASSUME NEW p \in Pads, NEW e \in Elements, Change(p, e) PROVE IInv'
  <2>1. pads' \in [Pads -> SUBSET Elements] /\ changes' \in 0..MaxChanges
    BY <1>0, <1>1 DEF Change
  <2>2. TypeOK'
    BY <1>0, <1>1, <2>1 DEF Change, TypeOK, Shims
  <2>3. QueueIsRight'
    BY <1>00, <1>1, Afterwards DEF Change, QueueIsRight
  <2>4. NoRepeats'
    BY <1>00, <1>1 DEF Change, NoRepeats
  <2> QED BY <2>2, <2>3, <2>4 DEF IInv
<1>2. ASSUME AskToQuit PROVE IInv'
  <2>2. TypeOK'
    BY <1>0, <1>2 DEF AskToQuit, TypeOK, Shims
  <2>3. QueueIsRight'
    BY <1>00, <1>2, Afterwards DEF AskToQuit, QueueIsRight
  <2>4. NoRepeats'
    BY <1>00, <1>2 DEF AskToQuit, NoRepeats
  <2> QED BY <2>2, <2>3, <2>4 DEF IInv
<1>3. ASSUME Look PROVE IInv'
  <2>0. PICK x \in Filled : shim' = trimmed(x) /\ update(x)
    BY <1>3 DEF Look
  <2>1. /\ shim' = trimmed(x) /\ update(x) /\ quit' = Queued(quit)
        /\ UNCHANGED <<mode, sdl, pads, wants, appDown, repeated, changes>>
    BY <1>3, <2>0 DEF Look
  <2>2. /\ Fits(trimmed(x), trimmed(x).controller, appDown, Reliable(missed'), ~dropped')
        /\ Len(trimmed(x).events) <= QueueMax
        /\ dropped' \in BOOLEAN /\ missed' \in BOOLEAN
        /\ ~dropped' => ~dropped
    BY <2>1, UpdateFits
  <2>3. Fits(shim', shim'.controller, appDown', Reliable(missed'), ~dropped') /\ Len(shim'.events) <= QueueMax
    BY <2>1, <2>2
  <2>4. shim' \in Shims
    BY <2>3 DEF Fits
  <2>5. quit' \in {"none", "due", "queued", "told"}
    BY <1>0, <2>1 DEF Queued
  <2>6. TypeOK'
    BY <1>0, <2>1, <2>2, <2>3, <2>4, <2>5 DEF TypeOK, Shims
  <2>7. QueueIsRight'
    BY <2>1, <2>3, Afterwards
  <2>8. NoRepeats'
    BY <1>00, <2>1, <2>2 DEF NoRepeats
  <2> QED BY <2>6, <2>7, <2>8 DEF IInv
<1>4. ASSUME PollEvent PROVE IInv'
  <2>0. PICK x \in Filled : Give(trimmed(x), Queued(quit)) /\ update(x)
    BY <1>4 DEF PollEvent
  <2> DEFINE s == trimmed(x)
  <2>1. /\ Give(s, Queued(quit)) /\ update(x)
        /\ UNCHANGED <<mode, sdl, pads, wants, changes>>
    BY <1>4, <2>0 DEF PollEvent
  <2>2. /\ Fits(s, s.controller, appDown, Reliable(missed'), ~dropped')
        /\ Len(s.events) <= QueueMax
        /\ dropped' \in BOOLEAN /\ missed' \in BOOLEAN
        /\ ~dropped' => ~dropped
        /\ wants => missed' = missed
    BY <2>1, UpdateFits
  <2>3. Queued(quit) \in {"none", "due", "queued", "told"}
    BY <1>0 DEF Queued
  <2>4. Told(Reliable(missed'))
    BY <2>2, ReliableTold
  <2> HIDE DEF s
  <2>5. /\ Fits(shim', s.controller, appDown', Reliable(missed'), ~dropped') /\ shim'.controller = s.controller
        /\ Len(shim'.events) <= QueueMax
        /\ appDown' \subseteq Things /\ repeated' \in BOOLEAN
        /\ quit' \in {"none", "due", "queued", "told"}
        /\ ~dropped' => (repeated' => repeated)
    BY <1>00, <2>1, <2>2, <2>3, <2>4, GiveFits
  <2>6. shim' \in Shims
    BY <2>5 DEF Fits
  <2>7. TypeOK'
    BY <1>0, <2>1, <2>2, <2>5, <2>6 DEF TypeOK, Shims
  <2>8. QueueIsRight'
    BY <2>1, <2>5, Afterwards
  <2>9. NoRepeats'
    BY <1>00, <2>2, <2>5 DEF NoRepeats
  <2> QED BY <2>7, <2>8, <2>9 DEF IInv
<1>5. ASSUME PollEventBlind PROVE IInv'
  <2>1. /\ Give(shim, quit) /\ missed' = missed /\ dropped' = dropped
        /\ UNCHANGED <<mode, sdl, pads, wants, changes>>
    BY <1>5 DEF PollEventBlind, keepLast
  <2>2. Told(Reliable(missed))
    BY ReliableTold
  <2>3. Fits(shim, shim.controller, appDown, Reliable(missed), ~dropped)
    BY <1>00 DEF QueueIsRight
  <2>5. /\ Fits(shim', shim.controller, appDown', Reliable(missed), ~dropped) /\ shim'.controller = shim.controller
        /\ Len(shim'.events) <= QueueMax
        /\ appDown' \subseteq Things /\ repeated' \in BOOLEAN
        /\ quit' \in {"none", "due", "queued", "told"}
        /\ ~dropped => (repeated' => repeated)
    BY <1>0, <1>00, <2>1, <2>2, <2>3, GiveFits
  <2>6. shim' \in Shims
    BY <2>5 DEF Fits
  <2>7. TypeOK'
    BY <1>0, <2>1, <2>5, <2>6 DEF TypeOK, Shims
  <2>8. QueueIsRight'
    BY <2>1, <2>5, Afterwards
  <2>9. NoRepeats'
    BY <1>00, <2>1, <2>5 DEF NoRepeats
  <2> QED BY <2>7, <2>8, <2>9 DEF IInv
<1>6. ASSUME NEW enabled \in BOOLEAN, EventState(enabled) PROVE IInv'
  <2>2. TypeOK'
    BY <1>0, <1>6 DEF EventState, TypeOK, Shims
  <2>3. QueueIsRight'
    BY <1>00, <1>6, Afterwards DEF EventState, QueueIsRight
  <2>4. NoRepeats'
    BY <1>00, <1>6 DEF EventState, NoRepeats
  <2> QED BY <2>2, <2>3, <2>4 DEF IInv
<1>7. CASE UNCHANGED vars
  <2>2. TypeOK'
    BY <1>00, <1>7 DEF vars, TypeOK
  <2>3. QueueIsRight'
    BY <1>00, <1>7, Afterwards DEF vars, QueueIsRight
  <2>4. NoRepeats'
    BY <1>00, <1>7 DEF vars, NoRepeats
  <2> QED BY <2>2, <2>3, <2>4 DEF IInv
<1> QED BY <1>1, <1>2, <1>3, <1>4, <1>5, <1>6, <1>7 DEF Next

\* IInv holds of every reachable state.
THEOREM Inductive == Spec => []IInv
<1> QED BY InitIInv, StepIInv, PTL DEF Spec

\* The state keeps its types, and the queue its bound, however many pads, elements and keys.
THEOREM TypeCorrect == Spec => []TypeOK
<1>1. IInv => TypeOK
  BY DEF IInv
<1> QED BY <1>1, Inductive, PTL

\* Elements and players that share a key never give the App a second press of it or a second
\* release, nor do buttons, unless an event was dropped (KeyboardMode::heldElsewhere).
THEOREM NothingTwice == Spec => []NoRepeats
<1>1. IInv => NoRepeats
  BY DEF IInv
<1> QED BY <1>1, Inductive, PTL

\* The App that reads the queue to its end has the pads as the shim has seen them; and when
\* events were dropped, of everything that the rest of the queue mentions (ShimState::update).
THEOREM LastWordStands == Spec => []LastWordIsRight
<1>1. ASSUME IInv PROVE LastWordIsRight
  <2>1. Accounted = Acc(shim.controller, shim.held)
    BY DEF Accounted, Acc
  <2>2. shim \in Shims /\ shim.events \in Seq(Events)
    BY <1>1 DEF IInv, QueueIsRight, Fits, Shims
  <2>3. Len(shim.events) \in Nat /\ DOMAIN shim.events = 1..Len(shim.events)
    BY <2>2, LenProperties
  <2>4. ASSUME NEW t \in Things, Followed(t), ~dropped \/ Mentions(t) # {}
        PROVE  DownInTheEnd(t) <=> t \in Acc(shim.controller, shim.held)
    <3> DEFINE es == shim.events
               A == Acc(shim.controller, shim.held)
    <3>1. Steady(es, appDown, A, t, ~dropped)
      BY <1>1, <2>4 DEF IInv, QueueIsRight, Fits, Reliable, Followed
    <3>2. \A i : i \in Mentions(t) <=> i \in 1..Len(es) /\ IsOf(es[i], t)
      BY <2>3 DEF Mentions, IsOf
    <3> HIDE DEF A, es
    <3>3. CASE Mentions(t) = {}
      <4>1. \A i \in 1..Len(es) : ~IsOf(es[i], t)
        BY <3>2, <3>3
      <4>2. t \in appDown <=> t \in A
        BY <2>4, <3>1, <3>3, <4>1 DEF Steady
      <4> QED BY <3>3, <4>2 DEF DownInTheEnd, A
    <3>4. CASE Mentions(t) # {}
      <4>1. PICK k \in 1..Len(es) : IsOf(es[k], t)
        BY <3>2, <3>4
      <4>2. es \in Seq(Events)
        BY <2>2 DEF es
      <4>3. PICK i \in 1..Len(es) : IsLast(es, i, t)
        BY <4>1, <4>2, LastThereIs
      <4>4. es[i].down <=> t \in A
        BY <3>1, <4>3 DEF Steady
      <4>5. i \in Mentions(t) /\ \A j \in Mentions(t) : j <= i
        BY <2>3, <3>2, <4>3 DEF IsLast, es
      <4>6. \A l \in Mentions(t) : (\A j \in Mentions(t) : j <= l) => l = i
        BY <2>3, <3>2, <4>5 DEF es
      <4>7. DownInTheEnd(t) <=> \E l \in Mentions(t) : es[l].down /\ \A j \in Mentions(t) : j <= l
        BY <3>4 DEF DownInTheEnd, es
      <4>8. DownInTheEnd(t) <=> es[i].down
        BY <4>5, <4>6, <4>7
      <4> QED BY <4>4, <4>8 DEF A
    <3> QED BY <3>3, <3>4
  <2> QED BY <2>1, <2>4 DEF LastWordIsRight
<1> QED BY <1>1, Inductive, PTL
=============================================================================
