--------------------------- MODULE Recorder_proofs ---------------------------
(***************************************************************************)
(* Recorder's types, its counters, its cadence and the way of the samples  *)
(* from the polls to the sink, for every period, duration, capacity, batch *)
(* size and number of devices, with both overflow policies and everything  *)
(* failing that may.                                                       *)
(***************************************************************************)
EXTENDS Recorder, SequenceTheorems, WellFoundedInduction, TLAPS

-----------------------------------------------------------------------------
(* The places of a sequence.                                              *)

\* What a Tail does to places.
LEMMA TailPlaces ==
    ASSUME NEW S, NEW q \in Seq(S), q # << >>
    PROVE  /\ Len(q) \in Nat /\ Len(q) > 0 /\ q[1] = Head(q)
           /\ DOMAIN Tail(q) = 1..(Len(q) - 1)
           /\ \A i \in 1..(Len(q) - 1) : Tail(q)[i] = q[i + 1]
<1>1. Len(q) \in Nat /\ Len(q) > 0
  BY EmptySeq
<1>2. Tail(q) \in Seq(S) /\ Len(Tail(q)) = Len(q) - 1
  BY HeadTailProperties
<1> QED
  BY <1>1, <1>2, HeadTailProperties, LenProperties

\* What an Append does to places.
LEMMA AppendPlaces ==
    ASSUME NEW S, NEW q \in Seq(S), NEW e \in S
    PROVE  /\ Len(q) \in Nat /\ DOMAIN q = 1..Len(q)
           /\ DOMAIN Append(q, e) = 1..(Len(q) + 1)
           /\ \A i \in 1..(Len(q) + 1) : Append(q, e)[i] = IF i <= Len(q) THEN q[i] ELSE e
<1>1. Append(q, e) \in Seq(S) /\ Len(Append(q, e)) = Len(q) + 1
  BY AppendProperties
<1>2. Len(q) \in Nat /\ DOMAIN q = 1..Len(q) /\ DOMAIN Append(q, e) = 1..(Len(q) + 1)
  BY <1>1, LenProperties
<1>3. ASSUME NEW i \in 1..(Len(q) + 1)
      PROVE  Append(q, e)[i] = IF i <= Len(q) THEN q[i] ELSE e
  <2>1. CASE i <= Len(q)
    BY <2>1, <1>2, AppendProperties
  <2>2. CASE i = Len(q) + 1
    BY <2>2, <1>2, AppendProperties
  <2> QED
    BY <2>1, <2>2, <1>2
<1> QED
  BY <1>2, <1>3

\* Where the elements of a concatenation come from.
LEMMA ConcatPlaces ==
    ASSUME NEW S, NEW a \in Seq(S), NEW b \in Seq(S)
    PROVE  /\ a \o b \in Seq(S) /\ Len(a) \in Nat /\ Len(b) \in Nat
           /\ Len(a \o b) = Len(a) + Len(b)
           /\ \A i \in 1..Len(a) : (a \o b)[i] = a[i]
           /\ \A i \in 1..Len(b) : (a \o b)[Len(a) + i] = b[i]
<1>1. /\ a \o b \in Seq(S) /\ Len(a \o b) = Len(a) + Len(b)
      /\ Len(a) \in Nat /\ Len(b) \in Nat
      /\ \A i \in 1..(Len(a) + Len(b)) :
            (a \o b)[i] = IF i <= Len(a) THEN a[i] ELSE b[i - Len(a)]
  BY ConcatProperties, LenProperties
<1>2. ASSUME NEW i \in 1..Len(a) PROVE (a \o b)[i] = a[i]
  <2>1. i \in 1..(Len(a) + Len(b)) /\ i <= Len(a)
    BY <1>1
  <2> QED
    BY <2>1, <1>1
<1>3. ASSUME NEW i \in 1..Len(b) PROVE (a \o b)[Len(a) + i] = b[i]
  <2>1. Len(a) + i \in 1..(Len(a) + Len(b)) /\ ~(Len(a) + i <= Len(a)) /\ Len(a) + i - Len(a) = i
    BY <1>1
  <2> QED
    BY <2>1, <1>1
<1> QED
  BY <1>1, <1>2, <1>3

-----------------------------------------------------------------------------
(* Flattening.  Its function is built up to each place, by the least place *)
(* up to which there is none.                                              *)

\* A set of numbers that is not empty has a least one.
LEMMA NatMin ==
    ASSUME NEW T, T \subseteq Nat, T # {}
    PROVE  \E x \in T : \A y \in T : x <= y
<1> DEFINE R == OpToRel(<, Nat)
<1>1. IsWellFoundedOn(R, Nat)
  BY NatLessThanWellFounded
<1> HIDE DEF R
<1>2. PICK x \in T : \A y \in T : ~(<<y, x>> \in R)
  BY <1>1, WFMin
<1>3. \A y \in T : y < x => <<y, x>> \in R
  BY DEF R, OpToRel
<1>4. \A y \in T : ~(y < x)
  BY <1>2, <1>3
<1>5. \A y \in T : x <= y
  <2> TAKE y \in T
  <2>1. ~(y < x)
    BY <1>4
  <2> QED
    BY <2>1
<1> QED
  BY <1>5

IsFlat(f, q) == f = [i \in 1..Len(q) |-> IF i = 1 THEN q[i] ELSE f[i - 1] \o q[i]]

\* f flattens the first n of q.
FlatUpTo(f, q, n) == \A i \in 1..n : f[i] = IF i = 1 THEN q[i] ELSE f[i - 1] \o q[i]

LEMMA FlatFunction ==
    ASSUME NEW S, NEW q \in Seq(Seq(S)), NEW n \in 0..Len(q)
    PROVE  \E f \in [1..n -> Seq(S)] : FlatUpTo(f, q, n)
<1> DEFINE T == {m \in 0..Len(q) : ~ \E f \in [1..m -> Seq(S)] : FlatUpTo(f, q, m)}
<1>1. Len(q) \in Nat /\ \A i \in 1..Len(q) : q[i] \in Seq(S)
  BY LenProperties, ElementOfSeq
<1>2. T = {}
  <2> SUFFICES ASSUME T # {} PROVE FALSE
    OBVIOUS
  <2>1. T \subseteq Nat
    BY <1>1
  <2>2. PICK x \in T : \A y \in T : x <= y
    BY <2>1, NatMin
  <2>3. x \in 0..Len(q) /\ ~ \E f \in [1..x -> Seq(S)] : FlatUpTo(f, q, x)
    OBVIOUS
  <2>4. x # 0
    <3> SUFFICES ASSUME x = 0 PROVE FALSE
      OBVIOUS
    <3> DEFINE f == [i \in 1..0 |-> <<>>]
    <3>1. f \in [1..0 -> Seq(S)] /\ FlatUpTo(f, q, 0)
      BY DEF FlatUpTo
    <3> QED
      BY <3>1, <2>3
  <2>5. x - 1 \in 0..Len(q) /\ ~(x <= x - 1) /\ x \in 1..Len(q) /\ x \in Nat
    BY <2>3, <2>4, <1>1
  <2>6. x - 1 \notin T
    BY <2>2, <2>5
  <2>7. PICK f \in [1..(x - 1) -> Seq(S)] : FlatUpTo(f, q, x - 1)
    BY <2>5, <2>6
  <2> DEFINE last == IF x = 1 THEN q[x] ELSE f[x - 1] \o q[x]
             g == [i \in 1..x |-> IF i = x THEN last ELSE f[i]]
  <2>8. last \in Seq(S)
    <3>1. q[x] \in Seq(S)
      BY <1>1, <2>5
    <3>2. x # 1 => f[x - 1] \in Seq(S)
      BY <2>5, <2>7
    <3> QED
      BY <3>1, <3>2, ConcatProperties
  <2> HIDE DEF last
  <2>9. \A i \in 1..x : i # x => i \in 1..(x - 1)
    BY <2>5
  <2>10. g \in [1..x -> Seq(S)]
    BY <2>7, <2>8, <2>9
  <2>11. /\ g[x] = last /\ \A i \in 1..(x - 1) : g[i] = f[i]
    BY <2>5
  <2> HIDE DEF g
  <2>12. ASSUME NEW i \in 1..x PROVE g[i] = IF i = 1 THEN q[i] ELSE g[i - 1] \o q[i]
    <3>1. CASE i = x
      <4>1. x # 1 => x - 1 \in 1..(x - 1)
        BY <2>5
      <4>2. x # 1 => g[x - 1] = f[x - 1]
        BY <4>1, <2>11
      <4> QED
        BY <3>1, <4>2, <2>11 DEF last
    <3>2. CASE i # x
      <4>1. i \in 1..(x - 1) /\ (i # 1 => i - 1 \in 1..(x - 1))
        BY <3>2, <2>5
      <4>2. f[i] = IF i = 1 THEN q[i] ELSE f[i - 1] \o q[i]
        BY <4>1, <2>7 DEF FlatUpTo
      <4> QED
        BY <4>1, <4>2, <2>11
    <3> QED
      BY <3>1, <3>2
  <2>13. FlatUpTo(g, q, x)
    BY <2>12 DEF FlatUpTo
  <2> QED
    BY <2>3, <2>10, <2>13
<1> QED
  BY <1>2

\* What FlattenSeq returns.
LEMMA FlattenIs ==
    ASSUME NEW S, NEW q \in Seq(Seq(S))
    PROVE  /\ FlattenSeq(q) \in Seq(S)
           /\ q = <<>> => FlattenSeq(q) = <<>>
           /\ q # <<>> => \E f \in [1..Len(q) -> Seq(S)] :
                             FlatUpTo(f, q, Len(q)) /\ FlattenSeq(q) = f[Len(q)]
<1>1. Len(q) \in Nat
  BY LenProperties
<1>2. CASE q = <<>>
  <2>1. Len(q) = 0
    BY <1>2
  <2>2. FlattenSeq(q) = q
    BY <2>1 DEF FlattenSeq
  <2>3. <<>> \in Seq(S)
    BY EmptySeq
  <2> QED
    BY <1>2, <2>2, <2>3
<1>3. CASE q # <<>>
  <2>1. Len(q) # 0 /\ Len(q) \in 0..Len(q) /\ Len(q) \in 1..Len(q)
    BY <1>1, <1>3, EmptySeq
  <2>2. PICK g \in [1..Len(q) -> Seq(S)] : FlatUpTo(g, q, Len(q))
    BY <2>1, FlatFunction
  <2>3. g = [i \in 1..Len(q) |-> IF i = 1 THEN q[i] ELSE g[i - 1] \o q[i]]
    BY <2>2 DEF FlatUpTo
  <2>4. \E f : IsFlat(f, q)
    BY <2>3 DEF IsFlat
  <2> DEFINE f == CHOOSE h : IsFlat(h, q)
  <2>5. IsFlat(f, q)
    BY <2>4
  <2>6. FlattenSeq(q) = f[Len(q)]
    BY <2>1 DEF FlattenSeq, IsFlat
  <2> HIDE DEF f
  <2>7. \A i \in 1..Len(q) : f[i] = IF i = 1 THEN q[i] ELSE f[i - 1] \o q[i]
    BY <2>5 DEF IsFlat
  <2>8. f = [i \in 1..Len(q) |-> f[i]]
    BY <2>5 DEF IsFlat
  <2> DEFINE T == {i \in 1..Len(q) : f[i] \notin Seq(S)}
  <2>9. T = {}
    <3> SUFFICES ASSUME T # {} PROVE FALSE
      OBVIOUS
    <3>1. T \subseteq Nat
      BY <1>1
    <3>2. PICK x \in T : \A y \in T : x <= y
      BY <3>1, NatMin
    <3>3. x \in 1..Len(q) /\ f[x] \notin Seq(S) /\ q[x] \in Seq(S)
      BY ElementOfSeq
    <3>4. x # 1 => x - 1 \in 1..Len(q) /\ ~(x <= x - 1)
      BY <3>3, <1>1
    <3>5. x # 1 => f[x - 1] \in Seq(S)
      BY <3>2, <3>4
    <3>6. CASE x = 1
      <4>1. f[x] = q[x]
        BY <2>7, <3>3, <3>6
      <4> QED
        BY <3>3, <4>1
    <3>7. CASE x # 1
      <4>1. f[x] = f[x - 1] \o q[x]
        BY <2>7, <3>3, <3>7
      <4> QED
        BY <3>3, <3>5, <3>7, <4>1, ConcatProperties
    <3> QED
      BY <3>6, <3>7
  <2>10. f \in [1..Len(q) -> Seq(S)]
    BY <2>8, <2>9
  <2>11. FlatUpTo(f, q, Len(q))
    BY <2>7 DEF FlatUpTo
  <2> QED
    BY <1>3, <2>1, <2>6, <2>10, <2>11
<1> QED
  BY <1>2, <1>3

\* Two functions that flatten the same places agree on them.
LEMMA FlatUnique ==
    \A p, q, f, g : \A n \in Nat :
        FlatUpTo(f, p, n) /\ FlatUpTo(g, q, n) /\ (\A i \in 1..n : p[i] = q[i])
            => \A i \in 1..n : f[i] = g[i]
<1> SUFFICES ASSUME NEW p, NEW q, NEW f, NEW g, NEW n \in Nat,
                    FlatUpTo(f, p, n), FlatUpTo(g, q, n), \A i \in 1..n : p[i] = q[i]
             PROVE  \A i \in 1..n : f[i] = g[i]
  OBVIOUS
<1> DEFINE T == {i \in 1..n : f[i] # g[i]}
<1>1. T = {}
  <2> SUFFICES ASSUME T # {} PROVE FALSE
    OBVIOUS
  <2>1. T \subseteq Nat
    OBVIOUS
  <2>2. PICK x \in T : \A y \in T : x <= y
    BY <2>1, NatMin
  <2>3. x \in 1..n /\ f[x] # g[x] /\ p[x] = q[x]
    OBVIOUS
  <2>4. x # 1 => x - 1 \in 1..n /\ ~(x <= x - 1)
    BY <2>3
  <2>5. x # 1 => f[x - 1] = g[x - 1]
    BY <2>2, <2>4
  <2>6. /\ f[x] = IF x = 1 THEN p[x] ELSE f[x - 1] \o p[x]
        /\ g[x] = IF x = 1 THEN q[x] ELSE g[x - 1] \o q[x]
    BY <2>3 DEF FlatUpTo
  <2> QED
    BY <2>3, <2>5, <2>6
<1> QED
  BY <1>1

\* Appending a sequence appends its elements.
LEMMA FlattenAppend ==
    \A S : \A q \in Seq(Seq(S)), b \in Seq(S) :
        FlattenSeq(Append(q, b)) = FlattenSeq(q) \o b
<1>0. SUFFICES ASSUME NEW S, NEW q, NEW b, q \in Seq(Seq(S)), b \in Seq(S)
               PROVE  FlattenSeq(Append(q, b)) = FlattenSeq(q) \o b
  OBVIOUS
<1> DEFINE p == Append(q, b)
           n == Len(q)
<1>1. /\ n \in Nat /\ p \in Seq(Seq(S)) /\ Len(p) = n + 1 /\ p # <<>>
      /\ \A i \in 1..(n + 1) : p[i] = IF i <= n THEN q[i] ELSE b
  <2>1. p \in Seq(Seq(S)) /\ Len(p) = n + 1 /\ n \in Nat
    BY <1>0, AppendProperties, LenProperties
  <2>2. \A i \in 1..(n + 1) : p[i] = IF i <= n THEN q[i] ELSE b
    BY <1>0, AppendPlaces
  <2> HIDE DEF p
  <2>3. p # <<>>
    BY <2>1
  <2> QED
    BY <2>1, <2>2, <2>3
<1> HIDE DEF p
<1>2. \E g \in [1..(n + 1) -> Seq(S)] : FlatUpTo(g, p, n + 1) /\ FlattenSeq(p) = g[n + 1]
  BY <1>1, FlattenIs
<1>3. (n = 0 => FlattenSeq(q) = <<>>)
      /\ (n # 0 => \E f \in [1..n -> Seq(S)] : FlatUpTo(f, q, n) /\ FlattenSeq(q) = f[n])
  <2>1. (n = 0 => q = <<>>) /\ (n # 0 => q # <<>>)
    BY <1>0, EmptySeq
  <2> QED
    BY <1>0, <2>1, FlattenIs
<1>4. n \in Nat
  BY <1>1
<1> HIDE DEF n
<1>5. PICK g : FlatUpTo(g, p, n + 1) /\ FlattenSeq(p) = g[n + 1]
  BY <1>2
<1>6. \A i \in 1..(n + 1) : g[i] = IF i = 1 THEN p[i] ELSE g[i - 1] \o p[i]
  BY <1>5 DEF FlatUpTo
<1>7. n + 1 \in 1..(n + 1) /\ p[n + 1] = b
  BY <1>1, <1>4
<1>8. CASE n = 0
  <2>1. g[1] = p[1] /\ FlattenSeq(p) = g[1] /\ p[1] = b
    BY <1>5, <1>6, <1>7, <1>8
  <2>2. <<>> \o b = b
    BY <1>0, ConcatEmptySeq
  <2> QED
    BY <1>3, <1>8, <2>1, <2>2 DEF p
<1>9. CASE n # 0
  <2>1. PICK f : FlatUpTo(f, q, n) /\ FlattenSeq(q) = f[n]
    BY <1>3, <1>9
  <2>2. \A i \in 1..n : i \in 1..(n + 1) /\ q[i] = p[i]
    BY <1>1, <1>4
  <2>3. FlatUpTo(g, p, n)
    BY <1>6, <2>2 DEF FlatUpTo
  <2>4. \A i \in 1..n : f[i] = g[i]
    BY <1>4, <2>1, <2>2, <2>3, FlatUnique
  <2>5. n \in 1..n /\ n + 1 # 1 /\ (n + 1) - 1 = n
    BY <1>4, <1>9
  <2>6. g[n + 1] = g[n] \o p[n + 1]
    BY <1>4, <1>6, <1>7, <2>5
  <2> QED
    BY <1>5, <1>7, <2>1, <2>4, <2>5, <2>6 DEF p
<1> QED
  BY <1>4, <1>8, <1>9

\* The first sequence, and the rest.
LEMMA FlattenTail ==
    \A S : \A q \in Seq(Seq(S)) :
        Len(q) # 0 => FlattenSeq(q) = Head(q) \o FlattenSeq(Tail(q))
<1>0. SUFFICES ASSUME NEW S, NEW q, q \in Seq(Seq(S)), Len(q) # 0
               PROVE  FlattenSeq(q) = Head(q) \o FlattenSeq(Tail(q))
  OBVIOUS
<1> DEFINE n == Len(q)
           t == Tail(q)
           h == Head(q)
<1>1. q # <<>>
  BY <1>0
<1>2. /\ n \in Nat /\ n > 0 /\ t \in Seq(Seq(S)) /\ Len(t) = n - 1 /\ h \in Seq(S) /\ q[1] = h
      /\ \A i \in 1..(n - 1) : t[i] = q[i + 1]
  BY <1>0, <1>1, TailPlaces, HeadTailProperties
<1>3. \E f \in [1..n -> Seq(S)] : FlatUpTo(f, q, n) /\ FlattenSeq(q) = f[n]
  BY <1>0, <1>1, FlattenIs
<1> HIDE DEF t, h
<1>4. (n = 1 => FlattenSeq(t) = <<>>)
      /\ (n # 1 => \E g \in [1..(n - 1) -> Seq(S)] :
                      FlatUpTo(g, t, n - 1) /\ FlattenSeq(t) = g[n - 1])
  <2>1. (n = 1 => t = <<>>) /\ (n # 1 => t # <<>>)
    BY <1>2, EmptySeq
  <2> QED
    BY <1>2, <2>1, FlattenIs
<1>5. n \in Nat /\ n > 0 /\ h \in Seq(S)
  BY <1>2
<1>6. \A i \in 1..(n - 1) : t[i] \in Seq(S)
  BY <1>2, ElementOfSeq
<1> HIDE DEF n
<1>7. PICK f : FlatUpTo(f, q, n) /\ FlattenSeq(q) = f[n]
  BY <1>3
<1>8. f[1] = h /\ \A i \in 1..(n - 1) : f[i + 1] = f[i] \o t[i]
  <2>1. 1 \in 1..n
    BY <1>5
  <2>2. f[1] = q[1]
    BY <1>7, <2>1 DEF FlatUpTo
  <2>3. ASSUME NEW i \in 1..(n - 1) PROVE f[i + 1] = f[i] \o t[i]
    <3>1. i + 1 \in 1..n /\ i + 1 # 1 /\ (i + 1) - 1 = i
      BY <1>5
    <3>2. f[i + 1] = f[(i + 1) - 1] \o q[i + 1]
      BY <3>1, <1>7 DEF FlatUpTo
    <3> QED
      BY <3>1, <3>2, <1>2
  <2> QED
    BY <1>2, <2>2, <2>3
<1>9. CASE n = 1
  <2>1. h \o <<>> = h
    BY <1>5, ConcatEmptySeq
  <2> QED
    BY <1>4, <1>7, <1>8, <1>9, <2>1 DEF t, h
<1>10. CASE n # 1
  <2>0. \A u, v \in Seq(S) : (h \o u) \o v = h \o (u \o v)
    BY <1>5, ConcatAssociative
  <2>1. n - 1 \in 1..(n - 1) /\ (n - 1) + 1 = n
    BY <1>5, <1>10
  <2>2. PICK g \in [1..(n - 1) -> Seq(S)] : FlatUpTo(g, t, n - 1) /\ FlattenSeq(t) = g[n - 1]
    BY <1>4, <1>10
  <2> DEFINE T == {i \in 1..(n - 1) : f[i + 1] # h \o g[i]}
  <2>3. T = {}
    <3> SUFFICES ASSUME T # {} PROVE FALSE
      OBVIOUS
    <3>1. T \subseteq Nat
      BY <1>5
    <3>2. PICK x \in T : \A y \in T : x <= y
      BY <3>1, NatMin
    <3>3. x \in 1..(n - 1) /\ f[x + 1] # h \o g[x] /\ f[x + 1] = f[x] \o t[x]
      BY <1>8
    <3>4. g[x] = IF x = 1 THEN t[x] ELSE g[x - 1] \o t[x]
      BY <2>2, <3>3 DEF FlatUpTo
    <3>5. CASE x = 1
      BY <1>8, <3>3, <3>4, <3>5
    <3>6. CASE x # 1
      <4>1. x - 1 \in 1..(n - 1) /\ ~(x <= x - 1) /\ (x - 1) + 1 = x
        BY <1>5, <3>3, <3>6
      <4>2. x - 1 \notin T
        BY <3>2, <4>1
      <4>3. f[x] = h \o g[x - 1]
        BY <4>1, <4>2
      <4>4. g[x - 1] \in Seq(S) /\ t[x] \in Seq(S)
        BY <1>6, <2>2, <3>3, <4>1
      <4>5. (h \o g[x - 1]) \o t[x] = h \o (g[x - 1] \o t[x])
        <5> DEFINE u == g[x - 1]
                   v == t[x]
        <5>1. u \in Seq(S) /\ v \in Seq(S)
          BY <4>4
        <5> HIDE DEF u, v
        <5>2. (h \o u) \o v = h \o (u \o v)
          BY <2>0, <5>1, Zenon
        <5> QED
          BY <5>2 DEF u, v
      <4> QED
        BY <3>3, <3>4, <3>6, <4>3, <4>5
    <3> QED
      BY <3>5, <3>6
  <2>4. f[(n - 1) + 1] = h \o g[n - 1]
    BY <2>1, <2>3
  <2> QED
    BY <1>7, <2>1, <2>2, <2>4 DEF t, h
<1> QED
  BY <1>9, <1>10

\* The two parts of a sequence make it.
LEMMA SplitAt ==
    ASSUME NEW S, NEW q \in Seq(S), NEW n \in 0..Len(q)
    PROVE  /\ SubSeq(q, 1, n) \in Seq(S)
           /\ SubSeq(q, n + 1, Len(q)) \in Seq(S)
           /\ SubSeq(q, 1, n) \o SubSeq(q, n + 1, Len(q)) = q
<1> DEFINE a == SubSeq(q, 1, n)
           z == SubSeq(q, n + 1, Len(q))
<1>1. Len(q) \in Nat /\ n \in Nat
  BY LenProperties
<1>2. a \in Seq(S) /\ Len(a) = n /\ \A i \in 1..n : a[i] = q[i]
  BY <1>1, SubSeqProperties
<1>3. z \in Seq(S) /\ Len(z) = Len(q) - n /\ \A i \in 1..(Len(q) - n) : z[i] = q[n + i]
  BY <1>1, SubSeqProperties
<1> HIDE DEF a, z
<1> DEFINE c == a \o z
<1>4. /\ c \in Seq(S) /\ Len(c) = Len(q)
      /\ \A i \in 1..n : c[i] = a[i]
      /\ \A i \in 1..(Len(q) - n) : c[n + i] = z[i]
  BY <1>1, <1>2, <1>3, ConcatPlaces
<1> HIDE DEF c
<1>5. ASSUME NEW i \in 1..Len(q) PROVE c[i] = q[i]
  <2>1. CASE i <= n
    BY <1>1, <1>2, <1>4, <2>1
  <2>2. CASE i > n
    <3>1. i - n \in 1..(Len(q) - n) /\ n + (i - n) = i
      BY <1>1, <2>2
    <3>2. c[n + (i - n)] = q[n + (i - n)]
      BY <1>3, <1>4, <3>1
    <3> QED
      BY <3>1, <3>2
  <2> QED
    BY <1>1, <2>1, <2>2
<1>6. c = q
  BY <1>4, <1>5, SeqEqual
<1> QED
  BY <1>2, <1>3, <1>6 DEF a, z, c

-----------------------------------------------------------------------------
(* Arithmetic of a skip.                                                   *)

\* a \div b is the number of whole b that fit into a.
LEMMA Quotient ==
    ASSUME NEW a \in Nat, NEW b \in Nat \ {0}
    PROVE  /\ a \div b \in Nat
           /\ a < ((a \div b) + 1) * b
OBVIOUS

\* A skip is a number of slots, and the slot it leads to began a period ago at most.
LEMMA SkipCatchesUp ==
    ASSUME NEW k \in Nat, now \in Nat
    PROVE  /\ Missed(k) \in Nat
           /\ (k + Missed(k)) * Period \in Nat
           /\ (k + Missed(k) + 1) * Period \in Nat
           /\ now <= (k + Missed(k) + 1) * Period
<1>0. Period \in Nat \ {0}
  BY RecorderAssumption
<1>1. k * Period \in Nat
  BY <1>0
<1>2. CASE now > k * Period + Period
  <2> DEFINE a == now - k * Period
  <2>1. a \in Nat /\ now = a + k * Period
    BY <1>0, <1>1, <1>2
  <2>2. Missed(k) = a \div Period
    BY <1>2 DEF Missed
  <2>3. Missed(k) \in Nat /\ a < (Missed(k) + 1) * Period
    BY <1>0, <2>1, <2>2, Quotient
  <2> HIDE DEF a
  <2>4. (k + Missed(k) + 1) * Period = k * Period + (Missed(k) + 1) * Period
    BY <1>0, <2>3
  <2>5. (Missed(k) + 1) * Period \in Nat /\ (k + Missed(k)) * Period \in Nat
    BY <1>0, <2>3
  <2> QED
    BY <1>1, <2>1, <2>3, <2>4, <2>5
<1>3. CASE ~ (now > k * Period + Period)
  <2>1. Missed(k) = 0
    BY <1>3 DEF Missed
  <2>2. (k + 0 + 1) * Period = k * Period + Period
    BY <1>0
  <2> QED
    BY <1>0, <1>1, <1>3, <2>1, <2>2
<1> QED
  BY <1>2, <1>3

\* One more tick is one more emitted or one more late.
LEMMA OneMore ==
    ASSUME NEW k \in Nat, NEW e \in Nat, NEW l \in Nat, e + l = k
    PROVE  /\ k + 1 \in Nat /\ e + 1 \in Nat /\ l + 1 \in Nat
           /\ (e + 1) + l = k + 1
           /\ e + (l + 1) = k + 1
OBVIOUS

-----------------------------------------------------------------------------
(* The inductive invariant: types, the counters, and where the clock is    *)
(* when the producer sleeps or polls.                                      *)

\* A sleeping producer is woken when its slot begins, not later.
SleepsUntilSlot == prod.stage = "sleep" => now <= prod.tick * Period

Cadence == OnSchedule /\ SleepsUntilSlot

RecorderInv == TypeOK /\ SlotsAccounted /\ Cadence

\* What the top of the loop leaves behind.
LEMMA AdvanceKeeps ==
    ASSUME TypeOK,
           NEW k \in Nat, NEW e \in Nat, NEW l \in Nat,
           e + l = k,
           now' = now, call' = call,
           Advance(k, e, l)
    PROVE  /\ prod' \in [stage : Polling \cup Ended \cup {"failing"}, tick : Nat,
                         batch : Batch, at : Nat]
           /\ prod'.batch = <<>>
           /\ prod'.stage \in {"sleep", "poll", "done"}
           /\ sum' \in [emitted : Nat, late : Nat]
           /\ sum'.emitted = e
           /\ sum'.emitted + sum'.late = prod'.tick
           /\ Cadence'
<1>1. now \in Nat /\ Period \in Nat \ {0}
  BY RecorderAssumption DEF TypeOK
<1>2. /\ Missed(k) \in Nat
      /\ (k + Missed(k)) * Period \in Nat
      /\ (k + Missed(k) + 1) * Period \in Nat
      /\ now <= (k + Missed(k) + 1) * Period
  BY <1>1, SkipCatchesUp
<1>3. <<>> \in Batch
  BY DEF Batch
<1> DEFINE next == k + Missed(k)
           over == call.total # 0 /\ k >= call.total
<1>4. next \in Nat /\ l + Missed(k) \in Nat /\ e + (l + Missed(k)) = next
  BY <1>2
<1>5. CASE over
  <2>1. /\ prod' = [stage |-> "done", tick |-> k, batch |-> <<>>, at |-> 0]
        /\ sum' = [emitted |-> e, late |-> l]
    BY <1>5 DEF Advance
  <2> QED
    BY <1>3, <2>1 DEF Cadence, OnSchedule, SleepsUntilSlot, Ended
<1>6. CASE ~over /\ now < next * Period
  <2>1. /\ prod' = [stage |-> "sleep", tick |-> next, batch |-> <<>>, at |-> 0]
        /\ sum' = [emitted |-> e, late |-> l + Missed(k)]
    BY <1>6 DEF Advance
  <2> QED
    BY <1>1, <1>2, <1>3, <1>4, <1>6, <2>1
    DEF Cadence, OnSchedule, SleepsUntilSlot, Polling
<1>7. CASE ~over /\ ~ (now < next * Period)
  <2>1. /\ prod' = [stage |-> "poll", tick |-> next, batch |-> <<>>, at |-> now]
        /\ sum' = [emitted |-> e, late |-> l + Missed(k)]
    BY <1>7 DEF Advance
  <2>2. next * Period <= now /\ now <= (next + 1) * Period
    BY <1>1, <1>2, <1>7
  <2> QED
    BY <1>1, <1>3, <1>4, <2>1, <2>2 DEF Cadence, OnSchedule, SleepsUntilSlot, Polling
<1> QED
  BY <1>5, <1>6, <1>7

-----------------------------------------------------------------------------
(* Every step keeps the invariant.                                         *)

LEMMA InitKeeps == Init => RecorderInv
<1> SUFFICES ASSUME Init PROVE RecorderInv
  OBVIOUS
<1>1. Period \in Nat /\ MaxTime \in Nat /\ Capacity \in Nat
  BY RecorderAssumption
<1>2. TypeOK
  BY <1>1 DEF Init, TypeOK, Batch, Sample, Polling
<1>3. SlotsAccounted /\ Cadence
  BY <1>1 DEF Init, SlotsAccounted, Cadence, OnSchedule, SleepsUntilSlot
<1> QED
  BY <1>2, <1>3 DEF RecorderInv

\* A step that leaves the clock, the producer, the counters and the history alone.
LEMMA ElsewhereKeeps ==
    ASSUME RecorderInv, TypeOK', UNCHANGED <<now, prod, sum, sent>>
    PROVE  RecorderInv'
BY DEF RecorderInv, SlotsAccounted, Cadence, OnSchedule, SleepsUntilSlot

\* The counters, without the case distinction.
LEMMA Counters ==
    ASSUME RecorderInv
    PROVE  /\ prod.tick \in Nat /\ sum.emitted \in Nat /\ sum.late \in Nat
           /\ Len(sent) \in Nat
           /\ sum.emitted + sum.late = prod.tick
           /\ prod.stage \notin {"sent", "cancelled"} => Len(sent) = sum.emitted
           /\ prod.stage = "sent" => Len(sent) = sum.emitted + 1
<1>1. /\ prod.tick \in Nat /\ sum.emitted \in Nat /\ sum.late \in Nat
      /\ sent \in Seq(Batch)
  BY DEF RecorderInv, TypeOK
<1>2. Len(sent) \in Nat
  BY <1>1, LenProperties
<1>3. SlotsAccounted
  BY DEF RecorderInv
<1>4. CASE prod.stage = "sent"
  <2>1. Len(sent) - sum.emitted \in {1}
    BY <1>3, <1>4 DEF SlotsAccounted
  <2> QED
    BY <1>1, <1>2, <1>3, <1>4, <2>1 DEF SlotsAccounted
<1>5. CASE prod.stage \notin {"sent", "cancelled"}
  <2>1. Len(sent) - sum.emitted \in {0}
    BY <1>3, <1>5 DEF SlotsAccounted
  <2> QED
    BY <1>1, <1>2, <1>3, <1>5, <2>1 DEF SlotsAccounted
<1>6. CASE prod.stage = "cancelled"
  BY <1>1, <1>2, <1>3, <1>6 DEF SlotsAccounted
<1> QED
  BY <1>4, <1>5, <1>6

\* The producer has the batch it counts out of its hands.
LEMMA AccountedNext ==
    ASSUME sum'.emitted \in Nat, Len(sent') = sum'.emitted,
           sum'.emitted + sum'.late = prod'.tick,
           prod'.stage \in {"sleep", "poll", "send", "done"}
    PROVE  SlotsAccounted'
<1>1. Len(sent') - sum'.emitted = 0
  OBVIOUS
<1> QED
  BY <1>1 DEF SlotsAccounted

\* A batch, whatever answered.
LEMMA BatchType ==
    ASSUME NEW k \in Nat, NEW n \in 0..Devices
    PROVE  [i \in 1..n |-> k] \in Batch
<1>1. n \in Nat
  BY RecorderAssumption
<1> QED
  BY <1>1 DEF Batch, Sample

LEMMA TickStep == ASSUME RecorderInv, Tick PROVE RecorderInv'
<1>1. now \in Nat /\ MaxTime \in Nat /\ Period \in Nat /\ prod.tick \in Nat
  BY RecorderAssumption DEF RecorderInv, TypeOK
<1>2. prod.tick * Period \in Nat
  BY <1>1
<1>3. TypeOK'
  BY <1>1 DEF RecorderInv, TypeOK, Tick, Polling, Ended
<1>4. SlotsAccounted'
  BY DEF RecorderInv, SlotsAccounted, Tick
<1>5. Cadence'
  BY <1>1, <1>2 DEF RecorderInv, Cadence, OnSchedule, SleepsUntilSlot, Tick, Overdue
<1> QED
  BY <1>3, <1>4, <1>5 DEF RecorderInv

LEMMA WakeStep == ASSUME RecorderInv, Wake PROVE RecorderInv'
<1>1. now \in Nat /\ Period \in Nat /\ prod.tick \in Nat
  BY RecorderAssumption DEF RecorderInv, TypeOK
<1>2. prod.tick * Period \in Nat /\ (prod.tick + 1) * Period = prod.tick * Period + Period
  BY <1>1
<1>3. prod.tick * Period <= now /\ now <= prod.tick * Period
  BY DEF RecorderInv, Cadence, SleepsUntilSlot, Wake, Overdue
<1>4. prod' = [prod EXCEPT !.stage = "poll", !.at = now] /\ prod.stage = "sleep"
  BY DEF Wake, Overdue
<1>5. TypeOK'
  BY <1>1, <1>4 DEF RecorderInv, TypeOK, Wake, Polling, Ended
<1>6. SlotsAccounted'
  BY <1>4 DEF RecorderInv, TypeOK, SlotsAccounted, Wake
<1>7. prod'.at = now /\ prod'.tick = prod.tick /\ prod'.stage = "poll"
  BY <1>4 DEF RecorderInv, TypeOK
<1>8. Cadence'
  BY <1>1, <1>2, <1>3, <1>7 DEF Cadence, OnSchedule, SleepsUntilSlot, Wake
<1> QED
  BY <1>5, <1>6, <1>8 DEF RecorderInv

LEMMA PollReturnsStep == ASSUME RecorderInv, PollReturns PROVE RecorderInv'
<1>1. /\ TypeOK /\ SlotsAccounted /\ prod.stage = "poll"
      /\ UNCHANGED <<now, call, pipe, sink, body>>
  BY DEF RecorderInv, PollReturns
<1>2. /\ prod.tick + 1 \in Nat /\ sum.emitted \in Nat /\ sum.late \in Nat
      /\ sum.emitted + sum.late = prod.tick /\ Len(sent) = sum.emitted
      /\ (sum.emitted + 1) + sum.late = prod.tick + 1
      /\ sum.emitted + (sum.late + 1) = prod.tick + 1
      /\ sum.emitted + 1 \in Nat /\ sum.late + 1 \in Nat
  <2>1. /\ prod.tick \in Nat /\ sum.emitted \in Nat /\ sum.late \in Nat
        /\ sum.emitted + sum.late = prod.tick
    BY Counters
  <2>2. Len(sent) = sum.emitted
    BY <1>1, Counters
  <2>3. /\ prod.tick + 1 \in Nat /\ sum.emitted + 1 \in Nat /\ sum.late + 1 \in Nat
        /\ (sum.emitted + 1) + sum.late = prod.tick + 1
        /\ sum.emitted + (sum.late + 1) = prod.tick + 1
    BY <2>1, OneMore
  <2> QED
    BY <2>1, <2>2, <2>3, Zenon
<1>3. PICK n \in 0..Devices :
        LET batch == [i \in 1..n |-> prod.tick] IN
        \/ /\ ~Full
           /\ queue' = Append(queue, batch)
           /\ sent' = Append(sent, batch)
           /\ Advance(prod.tick + 1, sum.emitted + 1, sum.late)
        \/ /\ Full /\ call.policy = "block"
           /\ prod' = [prod EXCEPT !.stage = "send", !.batch = batch, !.at = 0]
           /\ UNCHANGED <<queue, sent, sum>>
        \/ /\ Full /\ call.policy = "drop_newest"
           /\ Advance(prod.tick + 1, sum.emitted, sum.late + 1)
           /\ UNCHANGED <<queue, sent>>
  BY DEF PollReturns
<1> DEFINE batch == [i \in 1..n |-> prod.tick]
<1>4. batch \in Batch
  BY BatchType DEF RecorderInv, TypeOK
<1> HIDE DEF batch
<1>5. CASE /\ ~Full
           /\ queue' = Append(queue, batch)
           /\ sent' = Append(sent, batch)
           /\ Advance(prod.tick + 1, sum.emitted + 1, sum.late)
  <2>1. /\ prod' \in [stage : Polling \cup Ended \cup {"failing"}, tick : Nat,
                       batch : Batch, at : Nat]
        /\ prod'.batch = <<>> /\ prod'.stage \in {"sleep", "poll", "done"}
        /\ sum' \in [emitted : Nat, late : Nat] /\ sum'.emitted = sum.emitted + 1
        /\ sum'.emitted + sum'.late = prod'.tick /\ Cadence'
    BY <1>1, <1>2, <1>5, AdvanceKeeps
  <2>2. queue' \in Seq(Batch) /\ Len(queue') <= Capacity
    <3>1. queue \in Seq(Batch) /\ Len(queue) \in Nat /\ Capacity \in Nat
      BY <1>1, RecorderAssumption DEF TypeOK
    <3>2. Len(queue) < Capacity
      BY <1>5, <3>1 DEF Full
    <3> QED
      BY <1>4, <1>5, <3>1, <3>2
  <2>3. sent' \in Seq(Batch) /\ Len(sent') = Len(sent) + 1
    BY <1>1, <1>4, <1>5 DEF TypeOK
  <2>4. TypeOK'
    BY <1>1, <2>1, <2>2, <2>3 DEF TypeOK
  <2>5. SlotsAccounted'
    BY <1>2, <2>1, <2>3, AccountedNext
  <2> QED
    BY <2>1, <2>4, <2>5 DEF RecorderInv
<1>6. CASE /\ prod' = [prod EXCEPT !.stage = "send", !.batch = batch, !.at = 0]
           /\ UNCHANGED <<queue, sent, sum>>
  <2>1. /\ prod' \in [stage : Polling \cup Ended \cup {"failing"}, tick : Nat,
                       batch : Batch, at : Nat]
        /\ prod'.stage = "send" /\ prod'.tick = prod.tick
    BY <1>1, <1>4, <1>6 DEF TypeOK, Polling
  <2>2. TypeOK'
    BY <1>1, <1>6, <2>1 DEF TypeOK
  <2>3. SlotsAccounted'
    BY <1>2, <1>6, <2>1, AccountedNext
  <2>4. Cadence'
    BY <2>1 DEF Cadence, OnSchedule, SleepsUntilSlot
  <2> QED
    BY <2>2, <2>3, <2>4 DEF RecorderInv
<1>7. CASE /\ Advance(prod.tick + 1, sum.emitted, sum.late + 1)
           /\ UNCHANGED <<queue, sent>>
  <2>1. /\ prod' \in [stage : Polling \cup Ended \cup {"failing"}, tick : Nat,
                       batch : Batch, at : Nat]
        /\ prod'.batch = <<>> /\ prod'.stage \in {"sleep", "poll", "done"}
        /\ sum' \in [emitted : Nat, late : Nat] /\ sum'.emitted = sum.emitted
        /\ sum'.emitted + sum'.late = prod'.tick /\ Cadence'
    BY <1>1, <1>2, <1>7, AdvanceKeeps
  <2>2. TypeOK'
    BY <1>1, <1>7, <2>1 DEF TypeOK
  <2>3. SlotsAccounted'
    BY <1>2, <1>7, <2>1, AccountedNext
  <2> QED
    BY <2>1, <2>2, <2>3 DEF RecorderInv
<1> QED
  BY <1>3, <1>5, <1>6, <1>7 DEF batch

LEMMA SendReturnsStep == ASSUME RecorderInv, SendReturns PROVE RecorderInv'
<1>1. /\ TypeOK /\ UNCHANGED <<now, call, queue, pipe, sink, body, sent>>
      /\ Advance(prod.tick + 1, sum.emitted + 1, sum.late)
  BY DEF RecorderInv, SendReturns
<1>2. /\ prod.tick + 1 \in Nat /\ sum.emitted \in Nat /\ sum.late \in Nat
      /\ sum.emitted + sum.late = prod.tick /\ Len(sent) = sum.emitted + 1
      /\ (sum.emitted + 1) + sum.late = prod.tick + 1
      /\ sum.emitted + 1 \in Nat
  <2>1. prod.stage = "sent"
    BY DEF SendReturns
  <2>2. /\ prod.tick \in Nat /\ sum.emitted \in Nat /\ sum.late \in Nat
        /\ sum.emitted + sum.late = prod.tick
    BY Counters
  <2>3. Len(sent) = sum.emitted + 1
    BY <2>1, Counters
  <2> QED
    BY <2>2, <2>3, OneMore
<1>3. /\ prod' \in [stage : Polling \cup Ended \cup {"failing"}, tick : Nat,
                     batch : Batch, at : Nat]
      /\ prod'.batch = <<>> /\ prod'.stage \in {"sleep", "poll", "done"}
      /\ sum' \in [emitted : Nat, late : Nat] /\ sum'.emitted = sum.emitted + 1
      /\ sum'.emitted + sum'.late = prod'.tick /\ Cadence'
  BY <1>1, <1>2, AdvanceKeeps
<1>4. TypeOK'
  BY <1>1, <1>3 DEF TypeOK
<1>5. SlotsAccounted'
  BY <1>1, <1>2, <1>3, AccountedNext
<1> QED
  BY <1>3, <1>4, <1>5 DEF RecorderInv

\* The producer's end, by an exception or a cancellation.
LEMMA ProducerEndsStep ==
    ASSUME RecorderInv, PollRaises \/ ProducerFailed \/ ProducerCancelled
    PROVE  RecorderInv'
<1>1. PICK s \in {"failing", "failed", "cancelled"} :
        /\ prod' = [prod EXCEPT !.stage = s]
        /\ s # "cancelled" => prod.stage \in {"poll", "failing"}
        /\ s = "cancelled" => prod.stage \in Polling
        /\ UNCHANGED <<now, call, queue, sum, pipe, sink, body, sent>>
  BY DEF PollRaises, ProducerFailed, ProducerCancelled
<1>2. TypeOK'
  BY <1>1 DEF RecorderInv, TypeOK, Polling, Ended
<1>3. prod'.stage = s /\ prod'.tick = prod.tick
  BY <1>1 DEF RecorderInv, TypeOK
<1>4. SlotsAccounted'
  BY <1>1, <1>3 DEF RecorderInv, TypeOK, SlotsAccounted, Polling
<1>5. Cadence'
  BY <1>3 DEF Cadence, OnSchedule, SleepsUntilSlot
<1> QED
  BY <1>2, <1>4, <1>5 DEF RecorderInv

-----------------------------------------------------------------------------
(* Steps of the consumer.                                                  *)

LEMMA BufferedType ==
    ASSUME TypeOK, NEW b \in Seq(Sample), Buffered(b)
    PROVE  pipe' \in [stage : {"receive", "write", "final", "done", "raised"},
                      buf : Seq(Sample), last : Nat, due : Nat, count : Nat]
<1>1. now \in Nat
  BY RecorderAssumption DEF TypeOK
<1> QED
  BY <1>1 DEF Buffered, TypeOK

LEMMA ReceiveStep == ASSUME RecorderInv, Receive PROVE RecorderInv'
<1>1. /\ TypeOK /\ SlotsAccounted /\ Cadence
      /\ queue \in Seq(Batch) /\ queue # <<>> /\ Len(queue) <= Capacity
      /\ UNCHANGED <<now, call, sum, sink, body>>
  BY DEF RecorderInv, TypeOK, Receive
<1>2. /\ Head(queue) \in Batch /\ Tail(queue) \in Seq(Batch)
      /\ Len(Tail(queue)) = Len(queue) - 1 /\ Len(queue) \in Nat
  BY <1>1, HeadTailProperties, LenProperties
<1>3. pipe.buf \o Head(queue) \in Seq(Sample)
  BY <1>1, <1>2 DEF TypeOK, Batch
<1>4. pipe' \in [stage : {"receive", "write", "final", "done", "raised"},
                 buf : Seq(Sample), last : Nat, due : Nat, count : Nat]
  BY <1>1, <1>3, BufferedType DEF Receive
<1>5. Capacity \in Nat
  BY RecorderAssumption
<1>6. CASE prod.stage = "send"
  <2>1. /\ queue' = Append(Tail(queue), prod.batch)
        /\ sent' = Append(sent, prod.batch)
        /\ prod' = [prod EXCEPT !.stage = "sent", !.batch = <<>>]
    BY <1>6 DEF Receive
  <2>2. prod.batch \in Batch /\ sent \in Seq(Batch)
    BY <1>1 DEF TypeOK
  <2>3. queue' \in Seq(Batch) /\ Len(queue') <= Capacity
    BY <1>1, <1>2, <1>5, <2>1, <2>2
  <2>4. sent' \in Seq(Batch) /\ Len(sent') = Len(sent) + 1
    BY <2>1, <2>2
  <2>5. /\ prod' \in [stage : Polling \cup Ended \cup {"failing"}, tick : Nat,
                       batch : Batch, at : Nat]
        /\ prod'.stage = "sent" /\ prod'.tick = prod.tick /\ prod'.batch = <<>>
    <3>1. <<>> \in Batch
      BY DEF Batch
    <3> QED
      BY <1>1, <2>1, <3>1 DEF TypeOK, Polling
  <2>6. TypeOK'
    BY <1>1, <1>4, <2>3, <2>4, <2>5 DEF TypeOK
  <2>7. SlotsAccounted'
    <3>1. /\ sum.emitted \in Nat /\ Len(sent) = sum.emitted
          /\ sum.emitted + sum.late = prod.tick
      BY <1>6, Counters
    <3>2. sum' = sum /\ Len(sent') - sum'.emitted = 1
      BY <1>1, <2>4, <3>1
    <3> QED
      BY <2>5, <3>1, <3>2 DEF SlotsAccounted
  <2> QED
    BY <2>5, <2>6, <2>7 DEF RecorderInv, Cadence, OnSchedule, SleepsUntilSlot
<1>7. CASE prod.stage # "send"
  <2>1. queue' = Tail(queue) /\ UNCHANGED <<sent, prod>>
    BY <1>7 DEF Receive
  <2>2. queue' \in Seq(Batch) /\ Len(queue') <= Capacity
    BY <1>1, <1>2, <1>5, <2>1
  <2>3. TypeOK'
    BY <1>1, <1>4, <2>1, <2>2 DEF TypeOK
  <2> QED
    BY <1>1, <2>1, <2>3, ElsewhereKeeps
<1> QED
  BY <1>6, <1>7

LEMMA WriteReturnsStep == ASSUME RecorderInv, WriteReturns PROVE RecorderInv'
<1>1. sink \o pipe.buf \in Seq(Sample) /\ Len(pipe.buf) \in Nat
  BY DEF RecorderInv, TypeOK
<1>2. pipe' \in [stage : {"receive", "write", "final", "done", "raised"},
                 buf : Seq(Sample), last : Nat, due : Nat, count : Nat]
  <2>1. pipe \in [stage : {"receive", "write", "final", "done", "raised"},
                  buf : Seq(Sample), last : Nat, due : Nat, count : Nat]
    BY DEF RecorderInv, TypeOK
  <2>2. pipe.count + Len(pipe.buf) \in Nat /\ <<>> \in Seq(Sample)
    BY <1>1, <2>1
  <2>3. CASE pipe.stage = "final"
    BY <2>1, <2>2, <2>3 DEF WriteReturns
  <2>4. CASE pipe.stage = "write"
    BY <2>1, <2>2, <2>4 DEF WriteReturns
  <2> QED
    BY <2>3, <2>4 DEF WriteReturns
<1>3. TypeOK'
  BY <1>1, <1>2 DEF RecorderInv, TypeOK, WriteReturns
<1> QED
  BY <1>3, ElsewhereKeeps DEF WriteReturns

LEMMA RaiseStep == ASSUME RecorderInv, Raise PROVE RecorderInv'
<1>1. PICK n \in IF pipe.stage = "receive" THEN {0} ELSE 0..Len(pipe.buf) :
        sink' = sink \o SubSeq(pipe.buf, 1, n)
  BY DEF Raise
<1>2. n \in 0..Len(pipe.buf) /\ pipe.buf \in Seq(Sample) /\ sink \in Seq(Sample)
  BY DEF RecorderInv, TypeOK
<1>3. SubSeq(pipe.buf, 1, n) \in Seq(Sample)
  BY <1>2
<1>4. sink' \in Seq(Sample)
  BY <1>1, <1>2, <1>3
<1>5. TypeOK'
  BY <1>4 DEF RecorderInv, TypeOK, Raise
<1> QED
  BY <1>5, ElsewhereKeeps DEF Raise

LEMMA EndOfStreamStep == ASSUME RecorderInv, EndOfStream PROVE RecorderInv'
<1>1. TypeOK'
  BY DEF RecorderInv, TypeOK, EndOfStream
<1> QED
  BY <1>1, ElsewhereKeeps DEF EndOfStream

LEMMA ExitStep == ASSUME RecorderInv, Exit PROVE RecorderInv'
<1>1. TypeOK'
  BY DEF RecorderInv, TypeOK, Exit, Leave, Joined
<1> QED
  BY <1>1, ElsewhereKeeps DEF Exit, Leave, Joined

LEMMA StutterStep == ASSUME RecorderInv, UNCHANGED vars PROVE RecorderInv'
<1>1. TypeOK'
  BY DEF RecorderInv, TypeOK, vars
<1> QED
  BY <1>1, ElsewhereKeeps DEF vars

LEMMA RecorderStep == RecorderInv /\ [Next]_vars => RecorderInv'
<1> SUFFICES ASSUME RecorderInv, [Next]_vars PROVE RecorderInv'
  OBVIOUS
<1>1. CASE Tick
  BY <1>1, TickStep
<1>2. CASE Wake \/ PollReturns \/ SendReturns
  BY <1>2, WakeStep, PollReturnsStep, SendReturnsStep
<1>3. CASE PollRaises \/ ProducerFailed \/ ProducerCancelled
  BY <1>3, ProducerEndsStep
<1>4. CASE Receive \/ WriteReturns \/ EndOfStream
  BY <1>4, ReceiveStep, WriteReturnsStep, EndOfStreamStep
<1>5. CASE BodyCancelled \/ WriteRaises \/ Interrupted
  BY <1>5, RaiseStep DEF BodyCancelled, WriteRaises, Interrupted
<1>6. CASE Exit
  BY <1>6, ExitStep
<1>7. CASE Terminated \/ UNCHANGED vars
  BY <1>7, StutterStep DEF Terminated
<1> QED
  BY <1>1, <1>2, <1>3, <1>4, <1>5, <1>6, <1>7 DEF Next, Produce, Drain

LEMMA RecorderInvariant == Spec => []RecorderInv
BY InitKeeps, RecorderStep, PTL DEF Spec

-----------------------------------------------------------------------------
(* The stream: what is stored, buffered and queued is what was accepted.   *)

\* What the stream accepted begins with what the sink has stored, raised or not.
Stored == \E rest \in Seq(Sample) : FlattenSeq(sent) = sink \o rest

Counted ==
    /\ pipe.count <= Len(sink)
    /\ pipe.stage # "raised" => pipe.count = Len(sink)

\* pipe leaves its loop only when nobody can send any more and nothing is queued.
Drained ==
    pipe.stage \in {"final", "done"} =>
        /\ Closed
        /\ queue = <<>>
        /\ pipe.stage = "done" => pipe.buf = <<>>

StreamInv == NothingLost /\ Stored /\ Counted /\ Drained

LEMMA Regroup ==
    \A a, b, c \in Seq(Sample) :
        /\ a \o b \in Seq(Sample)
        /\ (a \o b) \o c = a \o (b \o c)
        /\ Len(a \o b) = Len(a) + Len(b)
        /\ Len(a) \in Nat
        /\ a \o <<>> = a
<1> TAKE a, b, c \in Seq(Sample)
<1>1. a \o b \in Seq(Sample) /\ Len(a \o b) = Len(a) + Len(b) /\ Len(a) \in Nat
  BY ConcatProperties, LenProperties
<1>2. (a \o b) \o c = a \o (b \o c)
  BY ConcatAssociative
<1>3. a \o <<>> = a
  BY ConcatEmptySeq
<1> QED
  BY <1>1, <1>2, <1>3

LEMMA Assoc == \A a, b, c \in Seq(Sample) : (a \o b) \o c = a \o (b \o c)
<1> TAKE a, b, c \in Seq(Sample)
<1> QED
  BY ConcatAssociative

LEMMA Joins == \A a, b \in Seq(Sample) : a \o b \in Seq(Sample)
BY Regroup, Zenon

\* The samples of a stream of batches.
LEMMA Flat ==
    /\ FlattenSeq(<<>>) = <<>>
    /\ \A q \in Seq(Batch) :
        /\ FlattenSeq(q) \in Seq(Sample)
        /\ \A b \in Batch : FlattenSeq(Append(q, b)) = FlattenSeq(q) \o b
        /\ Len(q) # 0 => FlattenSeq(q) = Head(q) \o FlattenSeq(Tail(q))
<1>1. Batch = Seq(Sample)
  BY DEF Batch
<1>2. FlattenSeq(<<>>) = <<>>
  <2>1. <<>> \in Seq(Seq(Sample))
    BY EmptySeq
  <2> QED
    BY <2>1, FlattenIs
<1>3. \A q \in Seq(Seq(Sample)) : FlattenSeq(q) \in Seq(Sample)
  BY FlattenIs
<1> QED
  BY <1>1, <1>2, <1>3, FlattenAppend, FlattenTail

\* A sequence is a prefix of what it begins.
LEMMA Begins ==
    \A a, b \in Seq(Sample) : IsPrefix(a, a \o b)
<1> TAKE a, b \in Seq(Sample)
<1> DEFINE c == a \o b
<1>1. /\ c \in Seq(Sample) /\ Len(c) = Len(a) + Len(b)
      /\ Len(a) \in Nat /\ Len(b) \in Nat
      /\ \A i \in 1..Len(a) : c[i] = a[i]
  BY ConcatPlaces
<1> HIDE DEF c
<1> DEFINE s == SubSeq(a, 1, Len(a))
           t == SubSeq(c, 1, Len(a))
<1>2. s \in Seq(Sample) /\ Len(s) = Len(a) /\ \A i \in 1..Len(a) : s[i] = a[i]
  BY <1>1, SubSeqProperties
<1>3. t \in Seq(Sample) /\ Len(t) = Len(a) /\ \A i \in 1..Len(a) : t[i] = c[i]
  BY <1>1, SubSeqProperties
<1> HIDE DEF s, t
<1>4. s = t
  BY <1>1, <1>2, <1>3, SeqEqual
<1> QED
  BY <1>1, <1>4 DEF IsPrefix, s, t, c

\* The types the steps on the stream need.
LEMMA StreamTypes ==
    ASSUME RecorderInv
    PROVE  /\ queue \in Seq(Batch) /\ sent \in Seq(Batch)
           /\ sink \in Seq(Sample) /\ pipe.buf \in Seq(Sample)
           /\ FlattenSeq(queue) \in Seq(Sample) /\ FlattenSeq(sent) \in Seq(Sample)
           /\ pipe.count \in Nat /\ prod.batch \in Batch
           /\ <<>> \in Seq(Sample)
<1>1. /\ queue \in Seq(Batch) /\ sent \in Seq(Batch)
      /\ sink \in Seq(Sample) /\ pipe.buf \in Seq(Sample)
      /\ pipe.count \in Nat /\ prod.batch \in Batch
  BY DEF RecorderInv, TypeOK
<1> QED
  BY <1>1, Flat, EmptySeq

LEMMA StreamInit == Init => StreamInv
<1> SUFFICES ASSUME Init PROVE StreamInv
  OBVIOUS
<1>1. /\ sink = <<>> /\ pipe.buf = <<>> /\ queue = <<>> /\ sent = <<>>
      /\ pipe.count = 0 /\ pipe.stage = "receive"
  BY DEF Init
<1>2. <<>> \in Seq(Sample) /\ FlattenSeq(<<>>) = <<>>
  BY Flat, EmptySeq
<1>3. <<>> \o <<>> = <<>> /\ (<<>> \o <<>>) \o <<>> = <<>>
  BY <1>2, Regroup
<1>4. NothingLost /\ Drained
  BY <1>1, <1>2, <1>3 DEF NothingLost, Drained
<1>5. Stored
  BY <1>1, <1>2, <1>3 DEF Stored
<1>6. Counted
  BY <1>1 DEF Counted
<1> QED
  BY <1>4, <1>5, <1>6 DEF StreamInv

\* A step that leaves the stream, the pipe and the sink alone.
LEMMA StreamElsewhere ==
    ASSUME StreamInv, UNCHANGED <<queue, pipe, sink, sent>>, Closed => Closed'
    PROVE  StreamInv'
BY DEF StreamInv, NothingLost, Stored, Counted, Drained

\* The producer publishes a batch: it is open, so pipe is still in its loop.
LEMMA StreamPublishes ==
    ASSUME RecorderInv, StreamInv, ~Closed, NEW b \in Batch,
           queue' = Append(queue, b), sent' = Append(sent, b), UNCHANGED <<pipe, sink>>
    PROVE  StreamInv'
<1>1. /\ FlattenSeq(queue') = FlattenSeq(queue) \o b
      /\ FlattenSeq(sent') = FlattenSeq(sent) \o b
      /\ b \in Seq(Sample)
  BY StreamTypes, Flat DEF Batch
<1>2. NothingLost'
  <2> SUFFICES ASSUME pipe.stage # "raised"
               PROVE  (sink \o pipe.buf) \o FlattenSeq(queue') = FlattenSeq(sent')
    BY DEF NothingLost
  <2>1. (sink \o pipe.buf) \o FlattenSeq(queue) = FlattenSeq(sent)
    BY DEF StreamInv, NothingLost
  <2>2. sink \o pipe.buf \in Seq(Sample)
    BY StreamTypes, Regroup
  <2>3. ((sink \o pipe.buf) \o FlattenSeq(queue)) \o b
          = (sink \o pipe.buf) \o (FlattenSeq(queue) \o b)
    BY <1>1, <2>2, StreamTypes, Assoc, Zenon
  <2> QED
    BY <1>1, <2>1, <2>3
<1>3. Stored'
  <2>1. PICK rest \in Seq(Sample) : FlattenSeq(sent) = sink \o rest
    BY DEF StreamInv, Stored
  <2>2. (sink \o rest) \o b = sink \o (rest \o b) /\ rest \o b \in Seq(Sample)
    <3>1. sink \in Seq(Sample) /\ b \in Seq(Sample)
      BY <1>1, StreamTypes
    <3>2. (sink \o rest) \o b = sink \o (rest \o b)
      BY <3>1, Assoc, Zenon
    <3>3. rest \o b \in Seq(Sample)
      BY <3>1, Joins, Zenon
    <3> QED
      BY <3>2, <3>3, Zenon
  <2>3. FlattenSeq(sent') = sink' \o (rest \o b)
    BY <1>1, <2>1, <2>2
  <2> QED
    BY <2>2, <2>3 DEF Stored
<1>4. Counted'
  BY DEF StreamInv, Counted
<1>5. Drained'
  BY DEF StreamInv, Drained
<1> QED
  BY <1>2, <1>3, <1>4, <1>5 DEF StreamInv

\* The oldest batch moves from the stream to the buffer; a blocked sender's moves in.
LEMMA StreamReceives == ASSUME RecorderInv, StreamInv, Receive PROVE StreamInv'
<1> DEFINE h == Head(queue)
           tl == Tail(queue)
<1>1. /\ pipe.stage = "receive" /\ queue # <<>> /\ sink' = sink
      /\ Buffered(pipe.buf \o h)
  BY DEF Receive
<1>2. /\ h \in Batch /\ tl \in Seq(Batch) /\ Len(queue) # 0
      /\ h \in Seq(Sample)
  BY <1>1, StreamTypes, HeadTailProperties, EmptySeq DEF Batch
<1>3. FlattenSeq(queue) = h \o FlattenSeq(tl) /\ FlattenSeq(tl) \in Seq(Sample)
  BY <1>2, StreamTypes, Flat
<1> HIDE DEF h, tl
<1>4. /\ pipe'.buf = pipe.buf \o h /\ pipe'.stage \in {"receive", "write"}
      /\ pipe'.count = pipe.count
  <2>1. pipe \in [stage : {"receive", "write", "final", "done", "raised"},
                  buf : Seq(Sample), last : Nat, due : Nat, count : Nat]
    BY DEF RecorderInv, TypeOK
  <2> QED
    BY <1>1, <2>1 DEF Buffered
<1>5. (sink \o (pipe.buf \o h)) \o FlattenSeq(tl) = FlattenSeq(sent)
  <2>1. (sink \o pipe.buf) \o FlattenSeq(queue) = FlattenSeq(sent)
    BY <1>1 DEF StreamInv, NothingLost
  <2>2. sink \o pipe.buf \in Seq(Sample)
    BY StreamTypes, Regroup
  <2>3. (sink \o pipe.buf) \o (h \o FlattenSeq(tl))
          = ((sink \o pipe.buf) \o h) \o FlattenSeq(tl)
    BY <1>2, <1>3, <2>2, Assoc, Zenon
  <2>4. (sink \o pipe.buf) \o h = sink \o (pipe.buf \o h)
    <3>1. sink \in Seq(Sample) /\ pipe.buf \in Seq(Sample) /\ h \in Seq(Sample)
      BY <1>2, StreamTypes
    <3> QED
      BY <3>1, Assoc, Zenon
  <2> QED
    BY <1>3, <2>1, <2>3, <2>4
<1>6. sink \o (pipe.buf \o h) \in Seq(Sample)
  BY <1>2, StreamTypes, Regroup
<1>7. Counted'
  BY <1>1, <1>4 DEF StreamInv, Counted
<1>8. Drained'
  BY <1>4 DEF Drained
<1>9. PICK rest \in Seq(Sample) : FlattenSeq(sent) = sink \o rest
  BY DEF StreamInv, Stored
<1>10. CASE prod.stage = "send"
  <2> DEFINE b == prod.batch
  <2>1. queue' = Append(tl, b) /\ sent' = Append(sent, b)
    BY <1>10 DEF Receive, tl
  <2>2. /\ FlattenSeq(queue') = FlattenSeq(tl) \o b
        /\ FlattenSeq(sent') = FlattenSeq(sent) \o b
        /\ b \in Seq(Sample)
    BY <1>2, <2>1, StreamTypes, Flat DEF Batch
  <2> HIDE DEF b
  <2>3. (sink \o (pipe.buf \o h)) \o (FlattenSeq(tl) \o b)
          = ((sink \o (pipe.buf \o h)) \o FlattenSeq(tl)) \o b
    BY <1>3, <1>6, <2>2, Assoc, Zenon
  <2>4. NothingLost'
    BY <1>1, <1>4, <1>5, <2>2, <2>3 DEF NothingLost
  <2>5. (sink \o rest) \o b = sink \o (rest \o b) /\ rest \o b \in Seq(Sample)
    <3>1. sink \in Seq(Sample) /\ b \in Seq(Sample)
      BY <2>2, StreamTypes
    <3>2. (sink \o rest) \o b = sink \o (rest \o b)
      BY <3>1, Assoc, Zenon
    <3>3. rest \o b \in Seq(Sample)
      BY <3>1, Joins, Zenon
    <3> QED
      BY <3>2, <3>3, Zenon
  <2>6. FlattenSeq(sent') = sink' \o (rest \o b)
    BY <1>1, <1>9, <2>2, <2>5
  <2>7. Stored'
    BY <2>5, <2>6 DEF Stored
  <2> QED
    BY <1>7, <1>8, <2>4, <2>7 DEF StreamInv
<1>11. CASE prod.stage # "send"
  <2>1. queue' = tl /\ sent' = sent
    BY <1>11 DEF Receive, tl
  <2>2. NothingLost'
    BY <1>1, <1>4, <1>5, <2>1 DEF NothingLost
  <2>3. Stored'
    BY <1>1, <1>9, <2>1 DEF Stored
  <2> QED
    BY <1>7, <1>8, <2>2, <2>3 DEF StreamInv
<1> QED
  BY <1>10, <1>11

\* The buffer moves to the sink.
LEMMA StreamWrites == ASSUME RecorderInv, StreamInv, WriteReturns PROVE StreamInv'
<1>1. /\ pipe.stage \in {"write", "final"} /\ sink' = sink \o pipe.buf
      /\ UNCHANGED <<prod, queue, sent>>
  BY DEF WriteReturns
<1>2. /\ pipe'.buf = <<>> /\ pipe'.count = pipe.count + Len(pipe.buf)
      /\ pipe'.stage = IF pipe.stage = "final" THEN "done" ELSE "receive"
  <2>1. pipe \in [stage : {"receive", "write", "final", "done", "raised"},
                  buf : Seq(Sample), last : Nat, due : Nat, count : Nat]
    BY DEF RecorderInv, TypeOK
  <2> QED
    BY <2>1 DEF WriteReturns
<1>3. (sink \o pipe.buf) \o FlattenSeq(queue) = FlattenSeq(sent)
  BY <1>1 DEF StreamInv, NothingLost
<1>4. sink' \in Seq(Sample) /\ Len(sink') = Len(sink) + Len(pipe.buf) /\ sink' \o <<>> = sink'
  BY <1>1, StreamTypes, Regroup
<1>5. NothingLost'
  BY <1>1, <1>2, <1>3, <1>4 DEF NothingLost
<1>6. Stored'
  BY <1>1, <1>3, StreamTypes DEF Stored
<1>7. Counted'
  <2>1. pipe.count = Len(sink)
    BY <1>1 DEF StreamInv, Counted
  <2>2. pipe'.count = Len(sink') /\ Len(sink') \in Nat
    BY <1>2, <1>4, <2>1, Regroup
  <2> QED
    BY <2>2 DEF Counted
<1>8. Drained'
  BY <1>1, <1>2 DEF StreamInv, Drained, Closed
<1> QED
  BY <1>5, <1>6, <1>7, <1>8 DEF StreamInv

LEMMA StreamEnds == ASSUME RecorderInv, StreamInv, EndOfStream PROVE StreamInv'
<1>1. /\ pipe.stage = "receive" /\ queue = <<>> /\ Closed
      /\ UNCHANGED <<prod, queue, sink, sent>>
  BY DEF EndOfStream
<1>2. /\ pipe'.buf = pipe.buf /\ pipe'.count = pipe.count
      /\ pipe'.stage = IF pipe.buf = <<>> THEN "done" ELSE "final"
  BY DEF EndOfStream, RecorderInv, TypeOK
<1>3. NothingLost' /\ Stored'
  BY <1>1, <1>2 DEF StreamInv, NothingLost, Stored
<1>4. Counted' /\ Drained'
  BY <1>1, <1>2 DEF StreamInv, Counted, Drained, Closed
<1> QED
  BY <1>3, <1>4 DEF StreamInv

\* A write may have stored a part of the buffer; the summary does not claim it.
LEMMA StreamRaises == ASSUME RecorderInv, StreamInv, Raise PROVE StreamInv'
<1>1. PICK n \in 0..Len(pipe.buf) : sink' = sink \o SubSeq(pipe.buf, 1, n)
  <2>1. Len(pipe.buf) \in Nat
    BY StreamTypes, LenProperties
  <2> QED
    BY <2>1 DEF Raise
<1>2. /\ pipe.stage \in {"receive", "write", "final"}
      /\ UNCHANGED <<prod, queue, sent>>
      /\ pipe'.stage = "raised" /\ pipe'.count = pipe.count
  BY DEF Raise, RecorderInv, TypeOK
<1> DEFINE a == SubSeq(pipe.buf, 1, n)
           z == SubSeq(pipe.buf, n + 1, Len(pipe.buf))
<1>3. a \in Seq(Sample) /\ z \in Seq(Sample) /\ a \o z = pipe.buf
  BY <1>1, StreamTypes, SplitAt
<1> HIDE DEF a, z
<1>4. sink' = sink \o a
  BY <1>1 DEF a
<1>5. Stored'
  <2>1. (sink \o pipe.buf) \o FlattenSeq(queue) = FlattenSeq(sent)
    BY <1>2 DEF StreamInv, NothingLost
  <2> DEFINE fq == FlattenSeq(queue)
  <2>2. sink \in Seq(Sample) /\ fq \in Seq(Sample) /\ a \in Seq(Sample) /\ z \in Seq(Sample)
    BY <1>3, StreamTypes
  <2> HIDE DEF fq
  <2>3. (sink \o a) \o z = sink \o (a \o z)
    BY <2>2, Assoc, Zenon
  <2>4. sink \o a \in Seq(Sample) /\ z \o fq \in Seq(Sample)
    BY <2>2, Joins, Zenon
  <2>5. ((sink \o a) \o z) \o fq = (sink \o a) \o (z \o fq)
    <3> DEFINE u == sink \o a
    <3>1. u \in Seq(Sample)
      BY <2>4
    <3> HIDE DEF u
    <3>2. (u \o z) \o fq = u \o (z \o fq)
      BY <2>2, <3>1, Assoc, Zenon
    <3> QED
      BY <3>2 DEF u
  <2>6. FlattenSeq(sent') = sink' \o (z \o fq)
    BY <1>2, <1>3, <1>4, <2>1, <2>3, <2>5 DEF fq
  <2> QED
    BY <2>4, <2>6 DEF Stored
<1>6. Counted'
  <2>1. pipe.count = Len(sink)
    BY <1>2 DEF StreamInv, Counted
  <2>2. Len(sink') = Len(sink) + Len(a) /\ Len(a) \in Nat /\ Len(sink) \in Nat
    BY <1>3, <1>4, StreamTypes, Regroup
  <2> QED
    BY <1>2, <2>1, <2>2 DEF Counted
<1>7. NothingLost' /\ Drained'
  BY <1>2 DEF NothingLost, Drained
<1> QED
  BY <1>5, <1>6, <1>7 DEF StreamInv

LEMMA StreamPolls == ASSUME RecorderInv, StreamInv, PollReturns PROVE StreamInv'
<1>1. ~Closed /\ UNCHANGED <<pipe, sink>>
  BY DEF PollReturns, Closed, Ended
<1>2. PICK n \in 0..Devices :
        \/ /\ queue' = Append(queue, [i \in 1..n |-> prod.tick])
           /\ sent' = Append(sent, [i \in 1..n |-> prod.tick])
        \/ UNCHANGED <<queue, sent>>
  BY DEF PollReturns
<1>3. [i \in 1..n |-> prod.tick] \in Batch
  BY BatchType DEF RecorderInv, TypeOK
<1>4. CASE UNCHANGED <<queue, sent>>
  BY <1>1, <1>4, StreamElsewhere
<1> QED
  BY <1>1, <1>2, <1>3, <1>4, StreamPublishes

LEMMA StreamStep == RecorderInv /\ StreamInv /\ [Next]_vars => StreamInv'
<1> SUFFICES ASSUME RecorderInv, StreamInv, [Next]_vars PROVE StreamInv'
  OBVIOUS
<1>1. CASE Tick \/ Exit \/ Terminated \/ UNCHANGED vars
  <2>1. UNCHANGED <<prod, queue, pipe, sink, sent>>
    BY <1>1 DEF Tick, Exit, Leave, Joined, Terminated, vars
  <2> QED
    BY <2>1, StreamElsewhere DEF Closed
<1>2. CASE Wake \/ SendReturns
  <2>1. ~Closed /\ UNCHANGED <<queue, pipe, sink, sent>>
    BY <1>2 DEF Wake, Overdue, SendReturns, Closed, Ended
  <2> QED
    BY <2>1, StreamElsewhere
<1>3. CASE PollRaises \/ ProducerFailed \/ ProducerCancelled
  <2>1. Closed' /\ UNCHANGED <<queue, pipe, sink, sent>>
    BY <1>3 DEF PollRaises, ProducerFailed, ProducerCancelled, Closed, Ended, RecorderInv, TypeOK
  <2> QED
    BY <2>1, StreamElsewhere
<1>4. CASE PollReturns
  BY <1>4, StreamPolls
<1>5. CASE Receive \/ WriteReturns \/ EndOfStream
  BY <1>5, StreamReceives, StreamWrites, StreamEnds
<1>6. CASE BodyCancelled \/ WriteRaises \/ Interrupted
  BY <1>6, StreamRaises DEF BodyCancelled, WriteRaises, Interrupted
<1> QED
  BY <1>1, <1>2, <1>3, <1>4, <1>5, <1>6 DEF Next, Produce, Drain

LEMMA StreamInvariant == Spec => [](RecorderInv /\ StreamInv)
<1>1. Init => RecorderInv /\ StreamInv
  BY InitKeeps, StreamInit
<1>2. RecorderInv /\ StreamInv /\ [Next]_vars => (RecorderInv /\ StreamInv)'
  BY RecorderStep, StreamStep
<1> QED
  BY <1>1, <1>2, PTL DEF Spec

-----------------------------------------------------------------------------
(* Theorems.                                                               *)

\* Types, and the stream never holds more than buffer_size batches.
THEOREM RecorderTypes == Spec => []TypeOK
<1>1. RecorderInv => TypeOK
  BY DEF RecorderInv
<1> QED
  BY <1>1, RecorderInvariant, PTL

\* Every tick that passed is emitted or late; emitted counts the batches the stream
\* accepted, short by at most the one whose sender was cancelled in between.
THEOREM Accounted == Spec => []SlotsAccounted
<1>1. RecorderInv => SlotsAccounted
  BY DEF RecorderInv
<1> QED
  BY <1>1, RecorderInvariant, PTL

\* No poll starts before its slot or more than a period after: no drift, no burst.
THEOREM KeepsCadence == Spec => []OnSchedule
<1>1. RecorderInv => OnSchedule
  BY DEF RecorderInv, Cadence
<1> QED
  BY <1>1, RecorderInvariant, PTL

\* Until pipe raises, each sample the stream accepted is in the sink, in pipe's buffer
\* or in the stream, in the order of the polls and once, across batches of any size,
\* partial polls and a sender that waited for room.
THEOREM NothingIsLost == Spec => []NothingLost
<1>1. RecorderInv /\ StreamInv => NothingLost
  BY DEF StreamInv
<1> QED
  BY <1>1, StreamInvariant, PTL

\* Whatever raised, and wherever in a write, the sink holds a prefix of the recording
\* and pipe's summary claims nothing that is not stored.
THEOREM CountIsHonest == Spec => []CountHonest
<1>1. RecorderInv /\ StreamInv => CountHonest
  <2> SUFFICES ASSUME RecorderInv, StreamInv PROVE CountHonest
    OBVIOUS
  <2>1. PICK rest \in Seq(Sample) : FlattenSeq(sent) = sink \o rest
    BY DEF StreamInv, Stored
  <2>2. IsPrefix(sink, FlattenSeq(sent))
    BY <2>1, StreamTypes, Begins
  <2> QED
    BY <2>2 DEF CountHonest, StreamInv, Counted
<1> QED
  BY <1>1, StreamInvariant, PTL

\* When pipe returns, the producer's side is closed and the sink has all of it.
THEOREM ReturnedIsWritten == Spec => []ReturnMeansWritten
<1>1. RecorderInv /\ StreamInv => ReturnMeansWritten
  <2> SUFFICES ASSUME RecorderInv, StreamInv, pipe.stage = "done"
               PROVE  Closed /\ sink = FlattenSeq(sent)
    BY DEF ReturnMeansWritten
  <2>1. Closed /\ queue = <<>> /\ pipe.buf = <<>>
    BY DEF StreamInv, Drained
  <2>2. (sink \o pipe.buf) \o FlattenSeq(queue) = FlattenSeq(sent)
    BY DEF StreamInv, NothingLost
  <2>3. FlattenSeq(queue) = <<>> /\ sink \o <<>> = sink /\ (sink \o <<>>) \o <<>> = sink
    BY <2>1, StreamTypes, Flat, Regroup
  <2> QED
    BY <2>1, <2>2, <2>3
<1> QED
  BY <1>1, StreamInvariant, PTL

=============================================================================
