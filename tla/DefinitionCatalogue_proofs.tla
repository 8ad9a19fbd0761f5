---------------------- MODULE DefinitionCatalogue_proofs ----------------------
(***************************************************************************)
(* What the analysis of a definition accepts is a state machine, it        *)
(* refuses a draft for the error it reports first, and its warnings are    *)
(* right about the sessions that run under it; a bound session always      *)
(* resolves to what it was started from, and a version that is called safe *)
(* for running sessions carries them on. For every set of drafts, any      *)
(* number of callers and sessions, and stores durable or not.              *)
(***************************************************************************)
EXTENDS DefinitionCatalogue, FiniteSetTheorems, WellFoundedInduction, TLAPS

-----------------------------------------------------------------------------
(***************************************************************************)
(* Numbers, and what is computed along them. Induction is over a set of    *)
(* numbers, from the least number outside it.                              *)
(***************************************************************************)

\* A set of numbers that is not empty has a least one.
LEMMA LeastNumber ==
    ASSUME NEW S \in SUBSET Nat, S # {}
    PROVE  \E p \in S : \A q \in S : p <= q
<1>1. IsWellFoundedOn(OpToRel(<, Nat), Nat)
  BY NatLessThanWellFounded
<1>2. PICK p \in S : \A q \in S : ~(<<q, p>> \in OpToRel(<, Nat))
  BY <1>1, WFMin, Zenon
<1>3. \A q \in S : ~(q < p)
  BY <1>2 DEF OpToRel
<1>4. QED
  BY <1>3

\* A set that holds 0 and the successors of its members holds all numbers.
LEMMA Climb ==
    ASSUME NEW S, 0 \in S, \A n \in Nat : n \in S => n + 1 \in S
    PROVE  \A n \in Nat : n \in S
<1> SUFFICES ASSUME NEW m \in Nat, m \notin S PROVE FALSE
  OBVIOUS
<1> DEFINE out == {n \in Nat : n \notin S}
<1>1. PICK p \in out : \A q \in out : p <= q
  BY LeastNumber
<1>2. p - 1 \in Nat /\ p - 1 \in S
  BY <1>1
<1>3. QED
  BY <1>1, <1>2

\* Each value is computed from the one before it.
Iterates(f, step, n) == \A i \in 1..n : f[i] = step[i][f[i - 1]]

\* A step taken over and over from a start defines a function.
LEMMA Iterated ==
    ASSUME NEW X, NEW start \in X, NEW step \in [Nat -> [X -> X]], NEW n \in Nat
    PROVE  \E f \in [0..n -> X] : f[0] = start /\ Iterates(f, step, n)
<1> USE DEF Iterates
<1> DEFINE Good(m, f) == f[0] = start /\ Iterates(f, step, m)
           S == {m \in Nat : \E f \in [0..m -> X] : Good(m, f)}
<1>1. 0 \in S
  <2>1. [i \in 0..0 |-> start] \in [0..0 -> X] /\ Good(0, [i \in 0..0 |-> start])
    OBVIOUS
  <2>2. QED
    BY <2>1
<1>2. ASSUME NEW m \in Nat, m \in S PROVE m + 1 \in S
  <2>1. PICK f \in [0..m -> X] : Good(m, f)
    BY <1>2
  <2> DEFINE g == [i \in 0..(m + 1) |-> IF i = m + 1 THEN step[m + 1][f[m]] ELSE f[i]]
  <2>2. step[m + 1][f[m]] \in X
    OBVIOUS
  <2>3. g \in [0..(m + 1) -> X]
    BY <2>2
  <2>4. g[0] = start
    BY <2>1
  <2>5. ASSUME NEW i \in 1..(m + 1) PROVE g[i] = step[i][g[i - 1]]
    <3>1. CASE i = m + 1
      BY <3>1
    <3>2. CASE i \in 1..m
      <4>1. g[i] = f[i] /\ g[i - 1] = f[i - 1]
        BY <3>2
      <4>2. QED
        BY <2>1, <3>2, <4>1
    <3>3. QED
      BY <3>1, <3>2
  <2>6. Good(m + 1, g)
    BY <2>4, <2>5
  <2> HIDE DEF g, Good
  <2>7. QED
    BY <2>3, <2>6
<1> HIDE DEF S
<1>3. n \in S
  BY <1>1, <1>2, Climb
<1>4. QED
  BY <1>3 DEF S

\* FlattenSeq satisfies the equation that defines it, for one sequence or more.
LEMMA FlattenEquation ==
    ASSUME NEW F, NEW seqs \in Seq(Seq(F)), Len(seqs) # 0
    PROVE  \E h \in [1..Len(seqs) -> Seq(F)] :
             /\ h[1] = seqs[1]
             /\ \A i \in 2..Len(seqs) : h[i] = h[i - 1] \o seqs[i]
             /\ FlattenSeq(seqs) = h[Len(seqs)]
<1> DEFINE n == Len(seqs)
           step == [i \in Nat |-> [s \in Seq(F) |-> IF i \in 1..n THEN s \o seqs[i] ELSE s]]
           Eq(h) == h = [i \in 1..n |-> IF i = 1 THEN seqs[i] ELSE h[i - 1] \o seqs[i]]
<1>1. n \in Nat \ {0} /\ \A i \in 1..n : seqs[i] \in Seq(F)
  OBVIOUS
<1> HIDE DEF n
<1>2. step \in [Nat -> [Seq(F) -> Seq(F)]]
  BY <1>1
<1>3. <<>> \in Seq(F)
  OBVIOUS
<1> HIDE DEF step
<1> DEFINE X == Seq(F)
           none == <<>>
<1>a. step \in [Nat -> [X -> X]] /\ none \in X /\ n \in Nat
  BY <1>1, <1>2, <1>3
<1> HIDE DEF X, none
<1>4. PICK f \in [0..n -> X] : f[0] = none /\ Iterates(f, step, n)
  BY <1>a, Iterated
<1>5. ASSUME NEW i \in 1..n PROVE f[i] = f[i - 1] \o seqs[i] /\ f[i - 1] \in Seq(F)
  <2>1. i - 1 \in 0..n /\ i \in Nat
    BY <1>1
  <2>2. f[i - 1] \in X
    BY <1>4, <2>1
  <2>3. step[i][f[i - 1]] = f[i - 1] \o seqs[i]
    BY <2>1, <2>2 DEF step, X
  <2>4. QED
    BY <1>4, <2>2, <2>3 DEF X, Iterates
<1> DEFINE g == [i \in 1..n |-> f[i]]
<1>6. ASSUME NEW i \in 1..n PROVE g[i] = IF i = 1 THEN seqs[i] ELSE g[i - 1] \o seqs[i]
  <2>1. CASE i = 1
    <3>1. f[i] = f[i - 1] \o seqs[i]
      BY <1>5
    <3>a. f[i - 1] = none
      BY <1>4, <2>1
    <3>2. none \o seqs[i] = seqs[i]
      BY <1>1 DEF none
    <3>3. QED
      BY <2>1, <3>1, <3>a, <3>2
  <2>2. CASE i # 1
    <3>1. i - 1 \in 1..n
      BY <1>1, <2>2
    <3>2. g[i] = f[i] /\ g[i - 1] = f[i - 1]
      BY <3>1
    <3> HIDE DEF g
    <3>3. QED
      BY <1>5, <2>2, <3>2
  <2>3. QED
    BY <2>1, <2>2
<1>7. Eq(g)
  BY <1>6
<1> HIDE DEF g
<1> DEFINE h == CHOOSE h : Eq(h)
<1>8. Eq(h)
  BY <1>7
<1>9. FlattenSeq(seqs) = h[n]
  BY <1>1 DEF FlattenSeq, n
<1> HIDE DEF h
<1>10. DOMAIN h = 1..n /\ h[1] = seqs[1] /\ \A i \in 2..n : h[i] = h[i - 1] \o seqs[i]
  <2>1. DOMAIN h = 1..n
    BY <1>8
  <2>2. \A i \in 1..n : h[i] = IF i = 1 THEN seqs[i] ELSE h[i - 1] \o seqs[i]
    BY <1>8
  <2>3. 1 \in 1..n /\ \A i \in 2..n : i \in 1..n /\ i # 1
    BY <1>1
  <2>4. QED
    BY <2>1, <2>2, <2>3
<1>11. ASSUME NEW i \in 1..n PROVE h[i] \in Seq(F)
  <2> DEFINE S == {k \in Nat : k + 1 \in 1..n => h[k + 1] \in Seq(F)}
  <2>1. 0 \in S
    BY <1>1, <1>10
  <2>2. ASSUME NEW k \in Nat, k \in S PROVE k + 1 \in S
    <3> SUFFICES ASSUME k + 2 \in 1..n PROVE h[k + 2] \in Seq(F)
      OBVIOUS
    <3>1. h[k + 1] \in Seq(F) /\ k + 2 \in 2..n /\ (k + 2) - 1 = k + 1
      BY <1>1, <2>2
    <3>2. h[k + 2] = h[k + 1] \o seqs[k + 2]
      BY <1>10, <3>1
    <3>3. QED
      BY <1>1, <3>1, <3>2
  <2> HIDE DEF S
  <2>3. \A k \in Nat : k \in S
    BY <2>1, <2>2, Climb
  <2>4. i - 1 \in Nat /\ (i - 1) + 1 = i
    BY <1>1
  <2>5. i - 1 \in S
    BY <2>3, <2>4
  <2>6. QED
    BY <1>1, <2>4, <2>5 DEF S
<1>12. h \in [1..n -> Seq(F)]
  <2>1. h = [i \in 1..n |-> h[i]]
    BY <1>8
  <2>2. QED
    BY <1>11, <2>1
<1>13. QED
  BY <1>9, <1>10, <1>12 DEF n

-----------------------------------------------------------------------------
\* What is in a report.

\* Joining two sequences joins what is in them.
LEMMA Joined ==
    ASSUME NEW F, NEW a \in Seq(F), NEW b \in Seq(F)
    PROVE  a \o b \in Seq(F) /\ ToSet(a \o b) = ToSet(a) \cup ToSet(b)
<1> DEFINE c == a \o b
<1>1. /\ c \in Seq(F) /\ Len(a) \in Nat /\ Len(b) \in Nat
      /\ DOMAIN a = 1..Len(a) /\ DOMAIN b = 1..Len(b)
      /\ DOMAIN c = 1..(Len(a) + Len(b))
      /\ \A i \in 1..Len(a) : c[i] = a[i]
  OBVIOUS
<1>2. \A i \in 1..Len(b) : c[Len(a) + i] = b[i]
  OBVIOUS
<1>3. \A i \in 1..(Len(a) + Len(b)) : i \in 1..Len(a) \/ i - Len(a) \in 1..Len(b)
  BY <1>1
<1> HIDE DEF c
<1>4. ASSUME NEW i \in DOMAIN c PROVE c[i] \in ToSet(a) \cup ToSet(b)
  <2>1. CASE i \in 1..Len(a)
    BY <1>1, <2>1 DEF ToSet
  <2>2. CASE i - Len(a) \in 1..Len(b)
    <3>1. c[Len(a) + (i - Len(a))] = b[i - Len(a)] /\ Len(a) + (i - Len(a)) = i
      BY <1>1, <1>2, <2>2
    <3>2. QED
      BY <1>1, <2>2, <3>1 DEF ToSet
  <2>3. QED
    BY <1>1, <1>3, <2>1, <2>2
<1>5. ASSUME NEW i \in DOMAIN a PROVE a[i] \in ToSet(c)
  <2>1. i \in DOMAIN c /\ c[i] = a[i]
    BY <1>1
  <2>2. QED
    BY <2>1 DEF ToSet
<1>6. ASSUME NEW i \in DOMAIN b PROVE b[i] \in ToSet(c)
  <2>1. Len(a) + i \in DOMAIN c /\ c[Len(a) + i] = b[i]
    BY <1>1, <1>2
  <2>2. QED
    BY <2>1 DEF ToSet
<1>7. ToSet(c) = ToSet(a) \cup ToSet(b)
  BY <1>4, <1>5, <1>6 DEF ToSet
<1>8. QED
  BY <1>1, <1>7 DEF c

\* Flattening keeps everything and adds nothing.
LEMMA Flattened ==
    ASSUME NEW F, NEW seqs \in Seq(Seq(F))
    PROVE  /\ FlattenSeq(seqs) \in Seq(F)
           /\ \A x : x \in ToSet(FlattenSeq(seqs)) <=> \E p \in DOMAIN seqs : x \in ToSet(seqs[p])
<1> DEFINE n == Len(seqs)
<1>1. n \in Nat /\ DOMAIN seqs = 1..n /\ \A p \in 1..n : seqs[p] \in Seq(F)
  OBVIOUS
<1>2. CASE n = 0
  <2>1. FlattenSeq(seqs) = <<>> /\ DOMAIN seqs = {}
    BY <1>1, <1>2 DEF FlattenSeq
  <2>2. QED
    BY <2>1 DEF ToSet
<1>3. CASE n # 0
  <2>1. PICK h \in [1..n -> Seq(F)] :
             /\ h[1] = seqs[1]
             /\ \A i \in 2..n : h[i] = h[i - 1] \o seqs[i]
             /\ FlattenSeq(seqs) = h[n]
    BY <1>3, FlattenEquation
  <2> HIDE DEF n
  <2> DEFINE Holds(i) == \A x : x \in ToSet(h[i]) <=> \E p \in 1..i : x \in ToSet(seqs[p])
             S == {k \in Nat : k + 1 \in 1..n => Holds(k + 1)}
  <2>2. 0 \in S
    <3>1. Holds(1)
      BY <2>1
    <3> HIDE DEF Holds
    <3>2. QED
      BY <3>1
  <2>3. ASSUME NEW k \in Nat, k \in S PROVE k + 1 \in S
    <3> SUFFICES ASSUME k + 2 \in 1..n PROVE Holds(k + 2)
      BY DEF Holds
    <3>a. k + 1 \in 1..n
      BY <1>1
    <3>1. Holds(k + 1) /\ h[k + 1] \in Seq(F) /\ seqs[k + 2] \in Seq(F)
      <4> HIDE DEF Holds
      <4>1. Holds(k + 1)
        BY <2>3, <3>a
      <4>2. QED
        BY <1>1, <3>a, <4>1
    <3>2. h[k + 2] = h[k + 1] \o seqs[k + 2]
      <4>1. k + 2 \in 2..n /\ (k + 2) - 1 = k + 1
        BY <1>1
      <4>2. QED
        BY <2>1, <4>1
    <3>3. ToSet(h[k + 2]) = ToSet(h[k + 1]) \cup ToSet(seqs[k + 2])
      BY <3>1, <3>2, Joined
    <3>4. 1..(k + 2) = 1..(k + 1) \cup {k + 2}
      OBVIOUS
    <3>5. ASSUME NEW x PROVE x \in ToSet(h[k + 2]) <=> \E p \in 1..(k + 2) : x \in ToSet(seqs[p])
      <4>1. x \in ToSet(h[k + 1]) <=> \E p \in 1..(k + 1) : x \in ToSet(seqs[p])
        BY <3>1
      <4>2. (\E p \in 1..(k + 2) : x \in ToSet(seqs[p]))
              <=> (\E p \in 1..(k + 1) : x \in ToSet(seqs[p])) \/ x \in ToSet(seqs[k + 2])
        BY <3>4, Zenon
      <4>3. QED
        BY <3>3, <4>1, <4>2
    <3>6. QED
      BY <3>5
  <2> HIDE DEF S, Holds
  <2>4. n - 1 \in Nat /\ (n - 1) + 1 = n /\ n \in 1..n
    BY <1>1, <1>3
  <2>5. \A k \in Nat : k \in S
    BY <2>2, <2>3, Climb
  <2>6. n - 1 \in S
    BY <2>4, <2>5
  <2>7. Holds(n)
    BY <2>4, <2>6 DEF S
  <2>8. QED
    BY <1>1, <2>1, <2>4, <2>7 DEF Holds
<1>4. QED
  BY <1>2, <1>3

\* Flattening is empty when and only when every part is.
LEMMA FlattenedEmpty ==
    ASSUME NEW F, NEW seqs \in Seq(Seq(F))
    PROVE  /\ FlattenSeq(seqs) \in Seq(F)
           /\ FlattenSeq(seqs) = <<>> <=> \A p \in DOMAIN seqs : seqs[p] = <<>>
<1>1. \A s \in Seq(F) : s = <<>> <=> ToSet(s) = {}
  <2> SUFFICES ASSUME NEW s \in Seq(F) PROVE s = <<>> <=> ToSet(s) = {}
    OBVIOUS
  <2>1. DOMAIN s = 1..Len(s) /\ Len(s) \in Nat
    OBVIOUS
  <2>2. Len(s) # 0 => 1 \in DOMAIN s
    BY <2>1
  <2>3. Len(s) = 0 => s = <<>> /\ DOMAIN s = {}
    OBVIOUS
  <2>4. s = <<>> => Len(s) = 0
    OBVIOUS
  <2>5. QED
    BY <2>1, <2>2, <2>3, <2>4 DEF ToSet
<1>2. FlattenSeq(seqs) \in Seq(F) /\ \A p \in DOMAIN seqs : seqs[p] \in Seq(F)
  BY Flattened
<1>3. ToSet(FlattenSeq(seqs)) = {} <=> \A p \in DOMAIN seqs : ToSet(seqs[p]) = {}
  BY Flattened
<1>4. QED
  BY <1>1, <1>2, <1>3

\* The first of the flattened is the first there is.
LEMMA FlattenedFirst ==
    ASSUME NEW F, NEW seqs \in Seq(Seq(F)), NEW p \in DOMAIN seqs, seqs[p] # <<>>,
           \A q \in 1..(p - 1) : seqs[q] = <<>>
    PROVE  FlattenSeq(seqs) # <<>> /\ FlattenSeq(seqs)[1] = seqs[p][1]
<1> DEFINE n == Len(seqs)
<1>1. n \in Nat \ {0} /\ p \in 1..n /\ \A q \in 1..n : seqs[q] \in Seq(F)
  OBVIOUS
<1>2. PICK h \in [1..n -> Seq(F)] :
           /\ h[1] = seqs[1]
           /\ \A i \in 2..n : h[i] = h[i - 1] \o seqs[i]
           /\ FlattenSeq(seqs) = h[n]
  BY <1>1, FlattenEquation
<1> HIDE DEF n
<1> DEFINE Holds(i) == IF i < p THEN h[i] = <<>> ELSE h[i] # <<>> /\ h[i][1] = seqs[p][1]
           S == {k \in Nat : k + 1 \in 1..n => Holds(k + 1)}
<1>3. 0 \in S
  <2>1. CASE p = 1
    BY <1>2, <2>1
  <2>2. CASE p # 1
    <3>1. 1 < p /\ 1 \in 1..(p - 1)
      BY <1>1, <2>2
    <3>2. h[1] = <<>>
      BY <1>2, <3>1
    <3>3. QED
      BY <3>1, <3>2
  <2>3. QED
    BY <2>1, <2>2
<1>4. ASSUME NEW k \in Nat, k \in S PROVE k + 1 \in S
  <2> SUFFICES ASSUME k + 2 \in 1..n PROVE Holds(k + 2)
    OBVIOUS
  <2>1. Holds(k + 1) /\ h[k + 1] \in Seq(F) /\ seqs[k + 2] \in Seq(F)
    BY <1>1, <1>4
  <2>2. h[k + 2] = h[k + 1] \o seqs[k + 2]
    <3>1. k + 2 \in 2..n /\ (k + 2) - 1 = k + 1
      BY <1>1
    <3>2. QED
      BY <1>2, <3>1
  <2>3. CASE k + 2 < p
    <3>1. k + 1 < p /\ k + 2 \in 1..(p - 1)
      BY <1>1, <2>3
    <3>2. h[k + 1] = <<>> /\ seqs[k + 2] = <<>>
      BY <2>1, <3>1
    <3>3. QED
      BY <2>2, <2>3, <3>2
  <2>4. CASE k + 2 = p
    <3>1. k + 1 < p /\ ~(k + 2 < p)
      BY <1>1, <2>4, SMTT(30)
    <3>2. h[k + 1] = <<>>
      BY <2>1, <3>1
    <3>3. h[k + 2] = seqs[k + 2]
      BY <2>1, <2>2, <3>2
    <3>4. QED
      BY <2>4, <3>1, <3>3
  <2>5. CASE p < k + 2
    <3>1. ~(k + 1 < p) /\ ~(k + 2 < p)
      BY <1>1, <2>5
    <3>2. h[k + 1] # <<>> /\ h[k + 1][1] = seqs[p][1]
      BY <2>1, <3>1
    <3>3. h[k + 2] # <<>> /\ h[k + 2][1] = h[k + 1][1]
      <4> DEFINE a == h[k + 1]
                 b == seqs[k + 2]
      <4>1. a \in Seq(F) /\ b \in Seq(F) /\ a # <<>> /\ h[k + 2] = a \o b
        BY <2>1, <2>2, <3>2
      <4> HIDE DEF a, b
      <4>2. Len(a) \in Nat \ {0} /\ Len(a \o b) = Len(a) + Len(b) /\ Len(b) \in Nat
        BY <4>1
      <4>3. 1 \in 1..Len(a) /\ Len(a \o b) # 0
        BY <4>2
      <4>4. (a \o b)[1] = a[1]
        BY <4>1, <4>2, <4>3
      <4>5. QED
        BY <4>1, <4>3, <4>4, SMTT(30) DEF a
    <3>4. QED
      BY <3>1, <3>2, <3>3
  <2>6. QED
    BY <1>1, <2>3, <2>4, <2>5
<1> HIDE DEF S, Holds
<1>5. \A k \in Nat : k \in S
  BY <1>3, <1>4, Climb
<1>6. n - 1 \in Nat /\ (n - 1) + 1 = n /\ n \in 1..n /\ ~(n < p)
  BY <1>1
<1>7. n - 1 \in S
  BY <1>5, <1>6
<1>8. Holds(n)
  BY <1>6, <1>7 DEF S
<1>9. QED
  BY <1>2, <1>6, <1>8 DEF Holds

-----------------------------------------------------------------------------
\* The maps: a finite set of identifiers can be walked in order.

Increasing(f) == \A p, q \in DOMAIN f : p < q => f[p] < f[q]

\* Any finite set of numbers has an increasing enumeration.
LEMMA Enumerated ==
    ASSUME NEW U \in SUBSET Nat, IsFiniteSet(U)
    PROVE  \E f \in [1..Cardinality(U) -> U] : Increasing(f)
<1> DEFINE Holds(n) == \A T \in SUBSET Nat : IsFiniteSet(T) /\ Cardinality(T) = n
                         => \E f \in [1..n -> T] : Increasing(f)
           S == {n \in Nat : Holds(n)}
<1>1. 0 \in S
  <2> SUFFICES ASSUME NEW T \in SUBSET Nat
               PROVE  \E f \in [1..0 -> T] : Increasing(f)
    OBVIOUS
  <2>1. [k \in 1..0 |-> 0] \in [1..0 -> T] /\ Increasing([k \in 1..0 |-> 0])
    BY DEF Increasing
  <2>2. QED
    BY <2>1
<1>2. ASSUME NEW n \in Nat, n \in S PROVE n + 1 \in S
  <2>1. Holds(n)
    BY <1>2
  <2> SUFFICES ASSUME NEW T \in SUBSET Nat, IsFiniteSet(T), Cardinality(T) = n + 1
               PROVE  \E f \in [1..(n + 1) -> T] : Increasing(f)
    OBVIOUS
  <2>2. T # {}
    BY FS_EmptySet
  <2>3. PICK m \in T : \A x \in T : m <= x
    BY <2>2, LeastNumber
  <2> DEFINE R == T \ {m}
  <2>4. R \in SUBSET Nat /\ IsFiniteSet(R) /\ Cardinality(R) = n
    <3>1. IsFiniteSet(R) /\ Cardinality(R) = Cardinality(T) - 1
      BY FS_RemoveElement, Zenon
    <3> HIDE DEF R
    <3>2. Cardinality(R) = n
      BY <3>1
    <3>3. QED
      BY <3>1, <3>2 DEF R
  <2>5. PICK g \in [1..n -> R] : Increasing(g)
    BY <2>1, <2>4
  <2>6. \A k \in 1..n : g[k] \in T /\ g[k] \in Nat /\ m < g[k]
    <3>1. \A k \in 1..n : g[k] \in R
      OBVIOUS
    <3>2. \A x \in R : x \in T /\ x \in Nat /\ m < x
      BY <2>3
    <3> HIDE DEF R
    <3>3. QED
      BY <3>1, <3>2
  <2> DEFINE f == [k \in 1..(n + 1) |-> IF k = 1 THEN m ELSE g[k - 1]]
  <2>7. \A k \in 2..(n + 1) : k - 1 \in 1..n /\ f[k] = g[k - 1]
    OBVIOUS
  <2>8. f[1] = m /\ DOMAIN f = 1..(n + 1)
    OBVIOUS
  <2>9. f \in [1..(n + 1) -> T]
    <3>1. ASSUME NEW k \in 1..(n + 1) PROVE f[k] \in T
      <4>1. CASE k = 1
        BY <2>8, <4>1
      <4>2. CASE k \in 2..(n + 1)
        BY <2>6, <2>7, <4>2
      <4>3. QED
        BY <4>1, <4>2
    <3>2. QED
      BY <3>1
  <2> HIDE DEF f
  <2>10. ASSUME NEW p \in 1..(n + 1), NEW q \in 1..(n + 1), p < q PROVE f[p] < f[q]
    <3>1. q \in 2..(n + 1)
      BY <2>10
    <3>2. CASE p = 1
      BY <2>6, <2>7, <2>8, <3>1, <3>2
    <3>3. CASE p \in 2..(n + 1)
      <4>1. p - 1 \in 1..n /\ q - 1 \in 1..n /\ p - 1 < q - 1
        BY <2>10, <3>1, <3>3
      <4>2. g[p - 1] < g[q - 1]
        BY <2>5, <4>1 DEF Increasing
      <4>3. QED
        BY <2>7, <3>1, <3>3, <4>2
    <3>4. QED
      BY <3>2, <3>3
  <2>11. Increasing(f)
    BY <2>8, <2>10 DEF Increasing
  <2>12. QED
    BY <2>9, <2>11
<1> HIDE DEF S, Holds
<1>3. Cardinality(U) \in Nat
  BY FS_CardinalityType
<1>4. Cardinality(U) \in S
  BY <1>1, <1>2, <1>3, Climb
<1>5. QED
  BY <1>3, <1>4 DEF S, Holds

\* Ascending is one, and so leaves no member out.
LEMMA Ascends ==
    ASSUME NEW U \in SUBSET Nat, IsFiniteSet(U)
    PROVE  /\ Cardinality(U) \in Nat
           /\ Ascending(U) \in [1..Cardinality(U) -> U]
           /\ \A x \in U : \E k \in 1..Cardinality(U) : Ascending(U)[k] = x
<1> DEFINE n == Cardinality(U)
           f == Ascending(U)
<1>1. n \in Nat
  BY FS_CardinalityType
<1>2. \E g \in [1..n -> U] : Increasing(g)
  BY Enumerated
<1>3. f \in [1..n -> U] /\ Increasing(f)
  BY <1>2 DEF Ascending, Increasing
<1> HIDE DEF n, f
<1>4. ASSUME NEW p \in 1..n, NEW q \in 1..n, f[p] = f[q] PROVE p = q
  <2>1. f[p] \in Nat /\ DOMAIN f = 1..n
    BY <1>3
  <2>2. ~(p < q) /\ ~(q < p)
    BY <1>3, <1>4, <2>1 DEF Increasing
  <2>3. QED
    BY <1>1, <2>2
<1> DEFINE I == 1..n
<1>5. f \in Injection(I, U)
  BY <1>3, <1>4 DEF Injection, IsInjective
<1>6. Cardinality(I) = n
  BY <1>1, FS_Interval
<1> HIDE DEF I
<1>7. f \in Surjection(I, U)
  BY <1>5, <1>6, FS_Injection DEF n
<1>8. \A x \in U : \E k \in I : f[k] = x
  BY <1>7 DEF Surjection
<1>9. QED
  BY <1>1, <1>3, <1>8 DEF n, f, I

\* Declarations whose identifiers are numbers.
Declarations(items) == \E I : items \in Seq(I) /\ \A x \in I : IdOf(x) \in Nat

\* Every identity was declared once for the first time, at a position.
LEMMA FirstDeclared ==
    ASSUME NEW items, Declarations(items), NEW id \in Ids(items)
    PROVE  \E p \in DOMAIN items \ Repeated(items) : IdOf(items[p]) = id
<1>1. PICK I : items \in Seq(I) /\ \A x \in I : IdOf(x) \in Nat
  BY DEF Declarations
<1>2. DOMAIN items \subseteq Nat /\ DOMAIN items = 1..Len(items) /\ Len(items) \in Nat
  BY <1>1
<1> DEFINE at == {p \in DOMAIN items : IdOf(items[p]) = id}
<1>3. at # {} /\ at \in SUBSET Nat
  BY <1>2 DEF Ids, ToSet
<1>4. PICK p \in at : \A q \in at : p <= q
  BY <1>3, LeastNumber
<1>5. ASSUME NEW q \in 1..(p - 1), IdOf(items[q]) = IdOf(items[p]) PROVE FALSE
  <2>1. q \in DOMAIN items /\ q < p /\ p \in Nat /\ q \in Nat
    BY <1>2, <1>4
  <2>2. q \in at
    BY <1>4, <1>5, <2>1
  <2>3. QED
    BY <1>4, <2>1, <2>2
<1>6. p \notin Repeated(items)
  BY <1>5 DEF Repeated
<1>7. QED
  BY <1>4, <1>6

\* The identities are finitely many, and as many as there are declarations
\* exactly when none is repeated.
LEMMA CountedIds ==
    ASSUME NEW items, Declarations(items)
    PROVE  /\ IsFiniteSet(Ids(items)) /\ Ids(items) \in SUBSET Nat
           /\ Repeated(items) = {} =>
                /\ Cardinality(Ids(items)) = Len(items)
                /\ \A p, q \in DOMAIN items : IdOf(items[p]) = IdOf(items[q]) => p = q
<1>1. PICK I : items \in Seq(I) /\ \A x \in I : IdOf(x) \in Nat
  BY DEF Declarations
<1> DEFINE n == Len(items)
           D == 1..n
           f == [p \in D |-> IdOf(items[p])]
           T == Ids(items)
<1>2. n \in Nat /\ DOMAIN items = D
  BY <1>1
<1>3. f \in Surjection(D, T)
  BY <1>2 DEF Surjection, Ids, ToSet
<1>4. IsFiniteSet(D) /\ Cardinality(D) = n
  <2> HIDE DEF n
  <2>1. n \in Int /\ 1 \in Int /\ n >= 0
    BY <1>2
  <2>2. QED
    BY <2>1, FS_Interval
<1>5. T \in SUBSET Nat
  <2>1. \A x \in ToSet(items) : x \in I
    BY <1>1 DEF ToSet
  <2>2. QED
    BY <1>1, <2>1 DEF Ids
<1>6. Repeated(items) = {} => \A p, q \in D : IdOf(items[p]) = IdOf(items[q]) => p = q
  <2> SUFFICES ASSUME Repeated(items) = {}, NEW p \in D, NEW q \in D,
                      IdOf(items[p]) = IdOf(items[q])
               PROVE  p = q
    OBVIOUS
  <2>1. \A a, b \in D : IdOf(items[a]) = IdOf(items[b]) => ~(a < b)
    <3> SUFFICES ASSUME NEW a \in D, NEW b \in D, IdOf(items[a]) = IdOf(items[b]), a < b
                 PROVE  FALSE
      OBVIOUS
    <3>1. a \in 1..(b - 1)
      BY <1>2
    <3>2. b \in Repeated(items)
      BY <1>2, <3>1 DEF Repeated
    <3>3. QED
      BY <3>2
  <2>2. ~(p < q) /\ ~(q < p)
    BY <2>1
  <2>3. QED
    BY <1>2, <2>2
<1>7. Repeated(items) = {} => f \in Injection(D, T)
  BY <1>3, <1>6 DEF Injection, IsInjective, Surjection
<1> HIDE DEF f, D, T, n
<1>8. IsFiniteSet(T) /\ (f \in Injection(D, T) => Cardinality(T) = Cardinality(D))
  BY <1>3, <1>4, FS_Surjection
<1>9. QED
  BY <1>2, <1>4, <1>5, <1>6, <1>7, <1>8 DEF T, n

\* The map made of declarations: the same identities, each once; and the
\* same declarations if none was repeated.
LEMMA Indexed ==
    ASSUME NEW I, NEW items \in Seq(I), \A x \in I : IdOf(x) \in Nat
    PROVE  /\ Index(items) \in Seq(I)
           /\ Len(Index(items)) = Cardinality(Ids(items))
           /\ ToSet(Index(items)) \subseteq ToSet(items)
           /\ Ids(Index(items)) = Ids(items)
           /\ Repeated(items) = {} => ToSet(Index(items)) = ToSet(items)
<1> DEFINE T == Ids(items)
           n == Cardinality(T)
           ids == Ascending(T)
           first(id) == CHOOSE p \in DOMAIN items \ Repeated(items) : IdOf(items[p]) = id
           m == Index(items)
<1>1. Declarations(items)
  BY DEF Declarations
<1>2. IsFiniteSet(T) /\ T \in SUBSET Nat
  BY <1>1, CountedIds
<1>3. n \in Nat /\ ids \in [1..n -> T] /\ \A x \in T : \E k \in 1..n : ids[k] = x
  BY <1>2, Ascends
<1>4. m = [k \in 1..n |-> items[first(ids[k])]]
  <2>1. DOMAIN ids = 1..n
    BY <1>3
  <2>2. QED
    BY <2>1 DEF Index
<1>5. \A id \in T : first(id) \in DOMAIN items /\ IdOf(items[first(id)]) = id
  BY <1>1, FirstDeclared
<1> HIDE DEF T, n, ids, first, m
<1>6. \A k \in 1..n : m[k] = items[first(ids[k])] /\ ids[k] \in T
  BY <1>3, <1>4
<1>7. \A k \in 1..n : m[k] \in I /\ m[k] \in ToSet(items) /\ IdOf(m[k]) = ids[k]
  <2> SUFFICES ASSUME NEW k \in 1..n
               PROVE  m[k] \in I /\ m[k] \in ToSet(items) /\ IdOf(m[k]) = ids[k]
    OBVIOUS
  <2>1. first(ids[k]) \in DOMAIN items /\ IdOf(items[first(ids[k])]) = ids[k]
    BY <1>5, <1>6
  <2>2. QED
    BY <1>6, <2>1 DEF ToSet
<1>8. m \in Seq(I) /\ Len(m) = n /\ DOMAIN m = 1..n
  BY <1>3, <1>4, <1>7
<1>9. Ids(m) = T
  <2>1. ASSUME NEW x \in T PROVE x \in Ids(m)
    <3>1. PICK k \in 1..n : ids[k] = x
      BY <1>3
    <3>2. QED
      BY <1>7, <1>8, <3>1 DEF Ids, ToSet
  <2>2. ASSUME NEW x \in Ids(m) PROVE x \in T
    <3>1. PICK k \in 1..n : x = IdOf(m[k])
      BY <1>8 DEF Ids, ToSet
    <3>2. QED
      BY <1>6, <1>7, <3>1
  <2>3. QED
    BY <2>1, <2>2
<1>10. ToSet(m) \subseteq ToSet(items)
  BY <1>7, <1>8 DEF ToSet
<1>11. ASSUME Repeated(items) = {}, NEW p \in DOMAIN items PROVE items[p] \in ToSet(m)
  <2>1. IdOf(items[p]) \in T
    BY DEF T, Ids, ToSet
  <2>2. PICK k \in 1..n : ids[k] = IdOf(items[p])
    BY <1>3, <2>1
  <2>3. m[k] \in ToSet(items) /\ IdOf(m[k]) = IdOf(items[p])
    BY <1>7, <2>2
  <2>4. PICK q \in DOMAIN items : m[k] = items[q]
    BY <2>3 DEF ToSet
  <2>5. p = q
    BY <1>1, <1>11, <2>3, <2>4, CountedIds
  <2>6. QED
    BY <1>8, <2>4, <2>5 DEF ToSet
<1>12. Repeated(items) = {} => ToSet(m) = ToSet(items)
  BY <1>10, <1>11 DEF ToSet
<1>13. QED
  BY <1>8, <1>9, <1>10, <1>12 DEF m, n, T

-----------------------------------------------------------------------------
(***************************************************************************)
(* Reports: sequences of findings, in which errors may stand anywhere.     *)
(***************************************************************************)
Reasons ==
    {"AlreadyExists", "EmptyCollection", "InvariantViolated", "NotFound"}
        \X {"input", "output", "state", "step", "guard", "role", "states", "one initial state",
            "from_state", "to_state", "terminal outgoing", "state_trigger", "step.state",
            "terminal step", "guard.step", "role.step", "role.transition"}
Cautions == {"unreachable", "cannot finish", "no terminal state"}
Errors == {Error(defect) : defect \in Reasons}
Warnings == {Warning(w, s) : w \in Cautions, s \in Nat}
Findings == Errors \cup Warnings

Clean(report) == \A x \in ToSet(report) : x.severity # "error"

\* A finding is an error or a warning by its severity.
LEMMA Severities ==
    /\ \A x \in Errors : x.severity = "error"
    /\ \A x \in Warnings : x.severity = "warning" /\ x.severity # "error"
BY DEF Errors, Warnings, Error, Warning

\* What the checks report is a finding.
LEMMA Reported ==
    /\ \A defect \in Reasons : Error(defect) \in Errors
    /\ \A w \in Cautions, s \in Nat : Warning(w, s) \in Warnings
BY DEF Errors, Warnings

\* A report of errors only that is clean is empty.
LEMMA CleanErrors ==
    ASSUME NEW report \in Seq(Errors)
    PROVE  Clean(report) <=> report = <<>>
<1>1. \A p \in 1..Len(report) : report[p] \in Errors /\ report[p].severity = "error"
  BY Severities
<1>2. Clean(report) => Len(report) = 0
  <2> SUFFICES ASSUME Clean(report), Len(report) # 0 PROVE FALSE
    OBVIOUS
  <2>1. 1 \in 1..Len(report) /\ DOMAIN report = 1..Len(report)
    OBVIOUS
  <2>2. QED
    BY <1>1, <2>1 DEF Clean, ToSet
<1>3. Len(report) = 0 => report = <<>>
  OBVIOUS
<1>4. report = <<>> => Clean(report)
  BY DEF Clean, ToSet
<1>5. QED
  BY <1>2, <1>3, <1>4

\* One error over and over.
LEMMA OverAndOver ==
    ASSUME NEW n \in Nat, NEW e \in Errors
    PROVE  /\ [a \in 1..n |-> e] \in Seq(Errors)
           /\ [a \in 1..n |-> e] = <<>> <=> n = 0
           /\ n # 0 => [a \in 1..n |-> e][1] = e
<1> DEFINE s == [a \in 1..n |-> e]
<1>1. s \in Seq(Errors) /\ Len(s) = n
  OBVIOUS
<1>2. n # 0 => 1 \in 1..n
  OBVIOUS
<1>3. n # 0 => s[1] = e
  BY <1>2
<1>4. QED
  BY <1>1, <1>3

\* first_error finds nothing exactly in a clean report, and otherwise the
\* first error; if the report opens with one, that one.
LEMMA FirstErrorFound ==
    ASSUME NEW report \in Seq(Findings)
    PROVE  /\ FirstError(report) = <<>> <=> Clean(report)
           /\ report # <<>> /\ report[1] \in Errors => FirstError(report) = <<report[1].defect>>
<1> DEFINE errors == {p \in DOMAIN report : report[p].severity = "error"}
           least == CHOOSE p \in errors : \A q \in errors : p <= q
<1>1. errors = {} <=> Clean(report)
  BY DEF Clean, ToSet
<1>2. FirstError(report) = IF errors = {} THEN <<>> ELSE <<report[least].defect>>
  BY DEF FirstError
<1>3. ASSUME report # <<>>, report[1] \in Errors PROVE errors # {} /\ least = 1
  <2>1. 1 \in DOMAIN report /\ DOMAIN report = 1..Len(report)
    BY <1>3
  <2>2. 1 \in errors /\ \A q \in errors : 1 <= q /\ q \in Nat
    BY <1>3, <2>1, Severities
  <2> HIDE DEF errors
  <2>3. least \in errors /\ \A q \in errors : least <= q
    BY <2>2
  <2> HIDE DEF least
  <2>4. QED
    BY <2>2, <2>3
<1> HIDE DEF errors, least
<1>4. \A x : <<x>> # <<>>
  OBVIOUS
<1>5. QED
  BY <1>1, <1>2, <1>3, <1>4

-----------------------------------------------------------------------------
(***************************************************************************)
(* What each check of the analysis finds, on any draft whose declarations  *)
(* are of the right kinds.                                                 *)
(***************************************************************************)
StateOfKind == [id: Nat, kind: {"initial", "intermediate", "terminal"}]
Arrow == [from: Nat, trigger: Nat, to: Nat, guards: SUBSET Nat]
Task == [id: Nat, state: Nat, handling: STRING]
Condition == [id: Nat, condition: Conditions]
Seat == [id: Nat, actions: SUBSET Actions]

\* The declarations of a draft, by kind.
LEMMA Typed ==
    ASSUME NEW d, NEW V, WellTyped(d, V)
    PROVE  /\ d.states \in Seq(StateOfKind) /\ d.transitions \in Seq(Arrow)
           /\ d.steps \in Seq(Task) /\ d.guards \in Seq(Condition) /\ d.roles \in Seq(Seat)
           /\ d.inputs \in Seq([id: Nat, required: BOOLEAN]) /\ d.outputs \in Seq([id: Nat])
           /\ d.version \in V
           /\ \A t \in ToSet(d.transitions) : t \in Arrow /\ IsFiniteSet(t.guards)
           /\ \A r \in ToSet(d.roles) : r \in Seat /\ IsFiniteSet(r.actions)
<1>1. \A I, s : s \in Seq(I) => \A x \in ToSet(s) : x \in I
  BY DEF ToSet
<1>2. d.transitions \in Seq(Arrow) /\ d.roles \in Seq(Seat)
  BY DEF WellTyped, Arrow, Seat
<1>3. QED
  BY <1>1, <1>2 DEF WellTyped, StateOfKind, Arrow, Task, Condition, Seat

\* The identifiers of declared states, steps, guards and roles are numbers.
LEMMA NumberedKinds ==
    /\ \A x \in StateOfKind : IdOf(x) \in Nat /\ x.id = IdOf(x)
    /\ \A x \in Task : IdOf(x) \in Nat /\ x.id = IdOf(x)
    /\ \A x \in Condition : IdOf(x) \in Nat /\ x.id = IdOf(x)
    /\ \A x \in Seat : IdOf(x) \in Nat /\ x.id = IdOf(x)
    /\ \A x \in [id: Nat, required: BOOLEAN] : IdOf(x) \in Nat
    /\ \A x \in [id: Nat] : IdOf(x) \in Nat
BY DEF StateOfKind, Task, Condition, Seat, IdOf

\* The maps that are analysed are a draft again, with the same identifiers,
\* and with the same declarations when none was repeated.
LEMMA PartsTyped ==
    ASSUME NEW d, NEW V, WellTyped(d, V)
    PROVE  /\ WellTyped(Parts(d), V)
           /\ Parts(d).transitions = d.transitions
           /\ Ids(Parts(d).states) = Ids(d.states) /\ Ids(Parts(d).steps) = Ids(d.steps)
           /\ Ids(Parts(d).guards) = Ids(d.guards)
           /\ Len(Parts(d).states) = Cardinality(Ids(d.states))
           /\ Repeated(d.states) = {} => ToSet(Parts(d).states) = ToSet(d.states)
           /\ Repeated(d.steps) = {} => ToSet(Parts(d).steps) = ToSet(d.steps)
           /\ Repeated(d.guards) = {} => ToSet(Parts(d).guards) = ToSet(d.guards)
<1>1. d \in [version: V, description: STRING,
              inputs: Seq([id: Nat, required: BOOLEAN]), outputs: Seq([id: Nat]),
              states: Seq(StateOfKind), transitions: Seq(Arrow), steps: Seq(Task),
              guards: Seq(Condition), roles: Seq(Seat)]
  BY DEF WellTyped, StateOfKind, Arrow, Task, Condition, Seat
<1>2. /\ Parts(d).states = Index(d.states) /\ Parts(d).steps = Index(d.steps)
      /\ Parts(d).guards = Index(d.guards) /\ Parts(d).roles = Index(d.roles)
      /\ Parts(d).transitions = d.transitions
  BY <1>1 DEF Parts
<1>3. /\ Index(d.states) \in Seq(StateOfKind) /\ Ids(Index(d.states)) = Ids(d.states)
      /\ Len(Index(d.states)) = Cardinality(Ids(d.states))
      /\ Repeated(d.states) = {} => ToSet(Index(d.states)) = ToSet(d.states)
  BY Typed, NumberedKinds, Indexed
<1>4. /\ Index(d.steps) \in Seq(Task) /\ Ids(Index(d.steps)) = Ids(d.steps)
      /\ Repeated(d.steps) = {} => ToSet(Index(d.steps)) = ToSet(d.steps)
  BY Typed, NumberedKinds, Indexed
<1>5. /\ Index(d.guards) \in Seq(Condition) /\ Ids(Index(d.guards)) = Ids(d.guards)
      /\ Repeated(d.guards) = {} => ToSet(Index(d.guards)) = ToSet(d.guards)
  BY Typed, NumberedKinds, Indexed
<1>6. /\ Index(d.roles) \in Seq(Seat) /\ ToSet(Index(d.roles)) \subseteq ToSet(d.roles)
  BY Typed, NumberedKinds, Indexed
<1>7. Parts(d) \in [version: V, description: STRING,
              inputs: Seq([id: Nat, required: BOOLEAN]), outputs: Seq([id: Nat]),
              states: Seq(StateOfKind), transitions: Seq(Arrow), steps: Seq(Task),
              guards: Seq(Condition), roles: Seq(Seat)]
  BY <1>1, <1>3, <1>4, <1>5, <1>6 DEF Parts
<1>8. /\ \A t \in ToSet(Parts(d).transitions) : IsFiniteSet(t.guards)
      /\ \A r \in ToSet(Parts(d).roles) : IsFiniteSet(r.actions)
  BY <1>2, <1>6, Typed
<1>9. WellTyped(Parts(d), V)
  BY <1>7, <1>8 DEF WellTyped, StateOfKind, Arrow, Task, Condition, Seat
<1>10. QED
  BY <1>2, <1>3, <1>4, <1>5, <1>9

\* The states of a kind are states, finitely many.
LEMMA KindsOfStates ==
    ASSUME NEW d, NEW V, WellTyped(d, V), NEW kind
    PROVE  /\ StatesOf(d, kind) \subseteq Ids(d.states) /\ Ids(d.states) \in SUBSET Nat
           /\ IsFiniteSet(Ids(d.states)) /\ IsFiniteSet(StatesOf(d, kind))
<1>1. d.states \in Seq(StateOfKind)
  BY Typed
<1>2. Declarations(d.states)
  BY <1>1, NumberedKinds DEF Declarations
<1>3. IsFiniteSet(Ids(d.states)) /\ Ids(d.states) \in SUBSET Nat
  BY <1>2, CountedIds
<1>4. StatesOf(d, kind) \subseteq Ids(d.states)
  BY DEF StatesOf, Ids, IdOf
<1>5. IsFiniteSet(StatesOf(d, kind))
  BY <1>3, <1>4, FS_Subset
<1>6. QED
  BY <1>3, <1>4, <1>5

\* validate_initial_state: clean, there is exactly one.
LEMMA InitialChecked ==
    ASSUME NEW d, NEW V, WellTyped(d, V)
    PROVE  /\ InitialStateFindings(d) \in Seq(Errors)
           /\ InitialStateFindings(d) = <<>> =>
                \E s \in Ids(d.states) : StatesOf(d, "initial") = {s}
<1> DEFINE e == Error(<<"EmptyCollection", "states">>)
           f == Error(<<"InvariantViolated", "one initial state">>)
           initial == StatesOf(d, "initial")
<1>1. e \in Errors /\ f \in Errors
  <2>1. /\ <<"EmptyCollection", "states">> \in Reasons
        /\ <<"InvariantViolated", "one initial state">> \in Reasons
    BY DEF Reasons
  <2>2. QED
    BY <2>1, Reported, Zenon
<1>2. initial \subseteq Ids(d.states) /\ IsFiniteSet(initial)
  BY KindsOfStates
<1>3. InitialStateFindings(d) =
        IF d.states = <<>> THEN <<e>> ELSE IF Cardinality(initial) # 1 THEN <<f>> ELSE <<>>
  BY DEF InitialStateFindings
<1> HIDE DEF e, f, initial
<1>4. \A x \in Errors : <<x>> \in Seq(Errors) /\ <<x>> # <<>>
  OBVIOUS
<1>5. <<>> \in Seq(Errors)
  OBVIOUS
<1>6. ASSUME Cardinality(initial) = 1 PROVE \E s \in Ids(d.states) : initial = {s}
  <2>1. \E s : initial = {s}
    BY <1>2, <1>6, FS_Singleton
  <2>2. QED
    BY <1>2, <2>1
<1>7. QED
  BY <1>1, <1>3, <1>4, <1>5, <1>6 DEF initial

\* The checks of one transition: clean, it joins declared states, does not
\* leave a terminal one, is alone on its trigger, and its guards are declared.
LEMMA TransitionChecked ==
    ASSUME NEW d, NEW V, WellTyped(d, V), NEW p \in DOMAIN d.transitions
    PROVE  /\ TransitionFindings(d, p) \in Seq(Errors)
           /\ TransitionFindings(d, p) = <<>> =>
                /\ d.transitions[p].from \in Ids(d.states) \ StatesOf(d, "terminal")
                /\ d.transitions[p].to \in Ids(d.states)
                /\ d.transitions[p].guards \subseteq Ids(d.guards)
                /\ \A q \in 1..(p - 1) : ~ /\ d.transitions[q].from = d.transitions[p].from
                                           /\ d.transitions[q].trigger = d.transitions[p].trigger
                                           /\ d.transitions[q].to \in Ids(d.states)
<1> DEFINE t == d.transitions[p]
           claimed == {q \in 1..(p - 1) : /\ d.transitions[q].from = t.from
                                          /\ d.transitions[q].trigger = t.trigger
                                          /\ d.transitions[q].to \in Ids(d.states)}
           missing == t.guards \ Ids(d.guards)
           a == Error(<<"NotFound", "from_state">>)
           b == Error(<<"NotFound", "to_state">>)
           c == Error(<<"InvariantViolated", "terminal outgoing">>)
           e == Error(<<"AlreadyExists", "state_trigger">>)
           g == Error(<<"NotFound", "guard">>)
<1>1. a \in Errors /\ b \in Errors /\ c \in Errors /\ e \in Errors /\ g \in Errors
  <2>1. /\ <<"NotFound", "from_state">> \in Reasons
        /\ <<"NotFound", "to_state">> \in Reasons
        /\ <<"InvariantViolated", "terminal outgoing">> \in Reasons
        /\ <<"AlreadyExists", "state_trigger">> \in Reasons
        /\ <<"NotFound", "guard">> \in Reasons
    BY DEF Reasons
  <2>2. QED
    BY <2>1, Reported, Zenon
<1>2. IsFiniteSet(t.guards)
  BY Typed DEF ToSet
<1>3. IsFiniteSet(missing)
  BY <1>2, FS_Subset
<1>4. TransitionFindings(d, p) =
        IF t.from \notin Ids(d.states) THEN <<a>>
        ELSE IF t.to \notin Ids(d.states) THEN <<b>>
        ELSE IF t.from \in StatesOf(d, "terminal") THEN <<c>>
        ELSE IF claimed # {} THEN <<e>>
        ELSE [x \in 1..Cardinality(missing) |-> g]
  BY DEF TransitionFindings
<1> DEFINE n == Cardinality(missing)
           m == missing
<1>5. n \in Nat /\ (n = 0 <=> m = {})
  <2> HIDE DEF missing
  <2>1. QED
    BY <1>3, FS_CardinalityType, FS_EmptySet
<1>6. m = {} => t.guards \subseteq Ids(d.guards)
  OBVIOUS
<1>7. claimed = {} => \A q \in 1..(p - 1) : ~ /\ d.transitions[q].from = t.from
                                              /\ d.transitions[q].trigger = t.trigger
                                              /\ d.transitions[q].to \in Ids(d.states)
  OBVIOUS
<1> DEFINE rest == [x \in 1..n |-> g]
<1> HIDE DEF a, b, c, e, g, n, m, claimed
<1>8. rest \in Seq(Errors) /\ (rest = <<>> <=> n = 0)
  BY <1>1, <1>5, OverAndOver
<1>9. \A x \in Errors : <<x>> \in Seq(Errors) /\ <<x>> # <<>>
  OBVIOUS
<1>10. TransitionFindings(d, p) =
        IF t.from \notin Ids(d.states) THEN <<a>>
        ELSE IF t.to \notin Ids(d.states) THEN <<b>>
        ELSE IF t.from \in StatesOf(d, "terminal") THEN <<c>>
        ELSE IF claimed # {} THEN <<e>>
        ELSE rest
  BY <1>4 DEF n
<1> HIDE DEF rest, t
<1>11. TransitionFindings(d, p) \in Seq(Errors)
  BY <1>1, <1>8, <1>9, <1>10
<1>12. ASSUME TransitionFindings(d, p) = <<>>
       PROVE  /\ t.from \in Ids(d.states) /\ t.to \in Ids(d.states)
              /\ t.from \notin StatesOf(d, "terminal") /\ claimed = {} /\ rest = <<>>
  BY <1>1, <1>9, <1>10, <1>12
<1>13. QED
  BY <1>5, <1>6, <1>7, <1>8, <1>11, <1>12 DEF t

\* All the transitions.
LEMMA GraphChecked ==
    ASSUME NEW d, NEW V, WellTyped(d, V)
    PROVE  /\ TransitionGraphFindings(d) \in Seq(Errors)
           /\ TransitionGraphFindings(d) = <<>> =>
                \A p \in DOMAIN d.transitions : TransitionFindings(d, p) = <<>>
<1> DEFINE seqs == [p \in DOMAIN d.transitions |-> TransitionFindings(d, p)]
<1>1. seqs \in Seq(Seq(Errors))
  <2>1. DOMAIN d.transitions = 1..Len(d.transitions) /\ Len(d.transitions) \in Nat
    BY Typed
  <2>2. \A p \in DOMAIN d.transitions : TransitionFindings(d, p) \in Seq(Errors)
    BY TransitionChecked
  <2>3. QED
    BY <2>1, <2>2
<1>2. DOMAIN seqs = DOMAIN d.transitions /\ TransitionGraphFindings(d) = FlattenSeq(seqs)
  BY DEF TransitionGraphFindings
<1>3. \A p \in DOMAIN seqs : seqs[p] = TransitionFindings(d, p)
  OBVIOUS
<1> HIDE DEF seqs
<1>4. QED
  BY <1>1, <1>2, <1>3, FlattenedEmpty

\* The steps: clean, each belongs to a state that can be left.
LEMMA StepsChecked ==
    ASSUME NEW d, NEW V, WellTyped(d, V)
    PROVE  /\ StepFindings(d) \in Seq(Errors)
           /\ StepFindings(d) = <<>> =>
                \A x \in ToSet(d.steps) : x.state \in Ids(d.states) \ StatesOf(d, "terminal")
<1> DEFINE a == Error(<<"NotFound", "step.state">>)
           b == Error(<<"InvariantViolated", "terminal step">>)
           of(p) == IF d.steps[p].state \notin Ids(d.states) THEN <<a>>
                    ELSE IF d.steps[p].state \in StatesOf(d, "terminal") THEN <<b>> ELSE <<>>
           seqs == [p \in DOMAIN d.steps |-> of(p)]
<1>1. a \in Errors /\ b \in Errors
  <2>1. <<"NotFound", "step.state">> \in Reasons /\ <<"InvariantViolated", "terminal step">> \in Reasons
    BY DEF Reasons
  <2>2. QED
    BY <2>1, Reported, Zenon
<1>2. StepFindings(d) = FlattenSeq(seqs)
  BY DEF StepFindings
<1> HIDE DEF a, b
<1>3. \A p : of(p) \in Seq(Errors) /\ (of(p) = <<>> =>
                d.steps[p].state \in Ids(d.states) \ StatesOf(d, "terminal"))
  <2>1. <<a>> \in Seq(Errors) /\ <<a>> # <<>> /\ <<b>> \in Seq(Errors) /\ <<b>> # <<>>
    BY <1>1
  <2>2. <<>> \in Seq(Errors)
    OBVIOUS
  <2>3. QED
    BY <2>1, <2>2
<1> HIDE DEF of
<1>4. DOMAIN d.steps = 1..Len(d.steps) /\ Len(d.steps) \in Nat
  BY Typed
<1>5. seqs \in Seq(Seq(Errors)) /\ DOMAIN seqs = DOMAIN d.steps
        /\ \A p \in DOMAIN seqs : seqs[p] = of(p)
  BY <1>3, <1>4
<1> HIDE DEF seqs
<1>6. StepFindings(d) \in Seq(Errors) /\ (StepFindings(d) = <<>> => \A p \in DOMAIN seqs : seqs[p] = <<>>)
  BY <1>2, <1>5, FlattenedEmpty
<1>7. QED
  BY <1>3, <1>5, <1>6 DEF ToSet

\* The guards: clean, a guard on a step names a declared one.
LEMMA GuardsChecked ==
    ASSUME NEW d, NEW V, WellTyped(d, V)
    PROVE  /\ GuardFindings(d) \in Seq(Errors)
           /\ GuardFindings(d) = <<>> =>
                \A g \in ToSet(d.guards) :
                  g.condition.kind = "step_status" => g.condition.step \in Ids(d.steps)
<1> DEFINE a == Error(<<"NotFound", "guard.step">>)
           lost(g) == g.condition.kind = "step_status" /\ g.condition.step \notin Ids(d.steps)
           of(p) == IF lost(d.guards[p]) THEN <<a>> ELSE <<>>
           seqs == [p \in DOMAIN d.guards |-> of(p)]
<1>1. a \in Errors
  <2>1. <<"NotFound", "guard.step">> \in Reasons
    BY DEF Reasons
  <2>2. QED
    BY <2>1, Reported, Zenon
<1>2. GuardFindings(d) = FlattenSeq(seqs)
  BY DEF GuardFindings
<1> HIDE DEF a, lost
<1>3. \A p : of(p) \in Seq(Errors) /\ (of(p) = <<>> => ~lost(d.guards[p]))
  <2>1. <<a>> \in Seq(Errors) /\ <<a>> # <<>>
    BY <1>1
  <2>2. <<>> \in Seq(Errors)
    OBVIOUS
  <2>3. QED
    BY <2>1, <2>2
<1> HIDE DEF of
<1>4. DOMAIN d.guards = 1..Len(d.guards) /\ Len(d.guards) \in Nat
  BY Typed
<1>5. seqs \in Seq(Seq(Errors)) /\ DOMAIN seqs = DOMAIN d.guards
        /\ \A p \in DOMAIN seqs : seqs[p] = of(p)
  BY <1>3, <1>4
<1> HIDE DEF seqs
<1>6. GuardFindings(d) \in Seq(Errors) /\ (GuardFindings(d) = <<>> => \A p \in DOMAIN seqs : seqs[p] = <<>>)
  BY <1>2, <1>5, FlattenedEmpty
<1>7. GuardFindings(d) = <<>> => \A g \in ToSet(d.guards) : ~lost(g)
  BY <1>3, <1>5, <1>6 DEF ToSet
<1>8. QED
  BY <1>6, <1>7 DEF lost

\* The roles: errors only.
LEMMA RolesChecked ==
    ASSUME NEW d, NEW V, WellTyped(d, V)
    PROVE  RoleFindings(d) \in Seq(Errors)
<1> DEFINE a == Error(<<"NotFound", "role.step">>)
           b == Error(<<"NotFound", "role.transition">>)
           triggers == {t.trigger : t \in ToSet(d.transitions)}
           steps(r) == {x \in r.actions : x.kind = "step" /\ x.of \notin Ids(d.steps)}
           moves(r) == {x \in r.actions : x.kind = "transition" /\ x.of \notin triggers}
           m(p) == Cardinality(steps(d.roles[p]))
           n(p) == Cardinality(moves(d.roles[p]))
           of(p) == [x \in 1..m(p) |-> a] \o [x \in 1..n(p) |-> b]
           seqs == [p \in DOMAIN d.roles |-> of(p)]
<1>1. a \in Errors /\ b \in Errors
  <2>1. <<"NotFound", "role.step">> \in Reasons /\ <<"NotFound", "role.transition">> \in Reasons
    BY DEF Reasons
  <2>2. QED
    BY <2>1, Reported, Zenon
<1>2. RoleFindings(d) = FlattenSeq(seqs)
  BY DEF RoleFindings
<1>3. ASSUME NEW p \in DOMAIN d.roles PROVE m(p) \in Nat /\ n(p) \in Nat
  <2> DEFINE A == d.roles[p].actions
             S == steps(d.roles[p])
             M == moves(d.roles[p])
  <2>1. IsFiniteSet(A)
    BY Typed DEF ToSet
  <2>2. S \subseteq A /\ M \subseteq A
    OBVIOUS
  <2> HIDE DEF A, S, M
  <2>3. IsFiniteSet(S) /\ IsFiniteSet(M)
    BY <2>1, <2>2, FS_Subset
  <2>4. Cardinality(S) \in Nat /\ Cardinality(M) \in Nat
    BY <2>3, FS_CardinalityType
  <2>5. QED
    BY <2>4 DEF S, M
<1> HIDE DEF a, b, m, n
<1>4. ASSUME NEW p \in DOMAIN d.roles PROVE of(p) \in Seq(Errors)
  <2> DEFINE i == m(p)
             j == n(p)
             s == [x \in 1..i |-> a]
             t == [x \in 1..j |-> b]
  <2>1. i \in Nat /\ j \in Nat
    BY <1>3
  <2> HIDE DEF i, j
  <2>2. s \in Seq(Errors) /\ t \in Seq(Errors)
    BY <1>1, <2>1, OverAndOver
  <2>3. of(p) = s \o t
    BY DEF i, j
  <2> HIDE DEF s, t, of
  <2>4. QED
    BY <2>2, <2>3
<1> HIDE DEF of
<1>5. DOMAIN d.roles = 1..Len(d.roles) /\ Len(d.roles) \in Nat
  BY Typed
<1>6. seqs \in Seq(Seq(Errors))
  BY <1>4, <1>5
<1> HIDE DEF seqs
<1>7. QED
  BY <1>2, <1>6, FlattenedEmpty

\* The warnings by their names.
Unreachable(s) == Warning("unreachable", s)
CannotFinish(s) == Warning("cannot finish", s)
NoTerminal == Warning("no terminal state", 0)

\* Reachability: warnings only, of the states that were walked.
LEMMA WarningsChecked ==
    ASSUME NEW d, NEW V, WellTyped(d, V)
    PROVE  ReachabilityFindings(d) \in Seq(Warnings)
<1> DEFINE initial == CHOOSE s \in StatesOf(d, "initial") : TRUE
           of(s) == IF s \notin StatesReachableFrom(d, initial) THEN <<Unreachable(s)>>
                    ELSE IF s \notin StatesThatReachATerminal(d) THEN <<CannotFinish(s)>>
                    ELSE <<>>
           seqs == [p \in DOMAIN d.states |-> of(d.states[p].id)]
<1>1. NoTerminal \in Warnings
        /\ \A s \in Nat : Unreachable(s) \in Warnings /\ CannotFinish(s) \in Warnings
  BY Reported DEF Cautions, Unreachable, CannotFinish, NoTerminal
<1>2. ReachabilityFindings(d) =
        IF ~Walkable(d) THEN <<>>
        ELSE IF StatesOf(d, "terminal") = {} THEN <<NoTerminal>>
        ELSE FlattenSeq(seqs)
  BY DEF ReachabilityFindings, Unreachable, CannotFinish, NoTerminal
<1> HIDE DEF initial
<1>3. \A w \in Warnings : <<w>> \in Seq(Warnings)
  OBVIOUS
<1>4. <<>> \in Seq(Warnings)
  OBVIOUS
<1>5. \A s \in Nat : of(s) \in Seq(Warnings)
  BY <1>1, <1>3, <1>4
<1> HIDE DEF of
<1>6. d.states \in Seq(StateOfKind) /\ DOMAIN d.states = 1..Len(d.states) /\ Len(d.states) \in Nat
  BY Typed
<1>7. \A p \in 1..Len(d.states) : d.states[p].id \in Nat
  <2>1. \A p \in 1..Len(d.states) : d.states[p] \in StateOfKind
    BY <1>6
  <2>2. \A x \in StateOfKind : x.id \in Nat
    BY DEF StateOfKind
  <2>3. QED
    BY <2>1, <2>2
<1> DEFINE at(p) == of(d.states[p].id)
<1>8. \A p \in 1..Len(d.states) : at(p) \in Seq(Warnings)
  BY <1>5, <1>7
<1> HIDE DEF at
<1>9. seqs \in Seq(Seq(Warnings))
  <2>1. seqs = [p \in 1..Len(d.states) |-> at(p)]
    BY <1>6 DEF at
  <2> HIDE DEF seqs
  <2>2. QED
    BY <1>6, <1>8, <2>1
<1> HIDE DEF seqs
<1>10. FlattenSeq(seqs) \in Seq(Warnings)
  BY <1>9, FlattenedEmpty
<1>11. QED
  BY <1>1, <1>2, <1>3, <1>4, <1>10

\* Findings come from somewhere: errors and warnings are findings.
LEMMA FindingSeqs == Seq(Errors) \subseteq Seq(Findings) /\ Seq(Warnings) \subseteq Seq(Findings)
<1>1. Errors \subseteq Findings /\ Warnings \subseteq Findings
  BY DEF Findings
<1>2. \A A, B : A \subseteq B => \A s \in Seq(A) : s \in Seq(B)
  <2> SUFFICES ASSUME NEW A, NEW B, A \subseteq B, NEW s \in Seq(A) PROVE s \in Seq(B)
    OBVIOUS
  <2>1. \A i \in 1..Len(s) : s[i] \in B
    OBVIOUS
  <2>2. QED
    BY <2>1
<1>3. QED
  BY <1>1, <1>2

\* The whole analysis: a report without errors is the warnings alone, and
\* every check passed.
LEMMA Collected ==
    ASSUME NEW d, NEW V, WellTyped(d, V)
    PROVE  /\ CollectFindings(d) \in Seq(Findings)
           /\ Clean(CollectFindings(d)) =>
                /\ InitialStateFindings(d) = <<>> /\ TransitionGraphFindings(d) = <<>>
                /\ StepFindings(d) = <<>> /\ GuardFindings(d) = <<>>
                /\ ToSet(CollectFindings(d)) = ToSet(ReachabilityFindings(d))
<1> DEFINE i == InitialStateFindings(d)
           t == TransitionGraphFindings(d)
           s == StepFindings(d)
           g == GuardFindings(d)
           r == RoleFindings(d)
           w == ReachabilityFindings(d)
<1>1. i \in Seq(Errors) /\ t \in Seq(Errors) /\ s \in Seq(Errors) /\ g \in Seq(Errors) /\ r \in Seq(Errors)
  BY InitialChecked, GraphChecked, StepsChecked, GuardsChecked, RolesChecked
<1>2. w \in Seq(Warnings)
  BY WarningsChecked
<1>3. CollectFindings(d) = ((((i \o t) \o s) \o g) \o r) \o w
  BY DEF CollectFindings
<1> HIDE DEF i, t, s, g, r, w
<1> DEFINE it == i \o t
           its == it \o s
           itsg == its \o g
           e == itsg \o r
<1>4. it \in Seq(Errors) /\ ToSet(it) = ToSet(i) \cup ToSet(t)
  BY <1>1, Joined
<1> HIDE DEF it
<1>5. its \in Seq(Errors) /\ ToSet(its) = ToSet(it) \cup ToSet(s)
  BY <1>1, <1>4, Joined
<1> HIDE DEF its
<1>6. itsg \in Seq(Errors) /\ ToSet(itsg) = ToSet(its) \cup ToSet(g)
  BY <1>1, <1>5, Joined
<1> HIDE DEF itsg
<1>7. e \in Seq(Errors) /\ ToSet(e) = ToSet(itsg) \cup ToSet(r)
  BY <1>1, <1>6, Joined
<1> HIDE DEF e
<1>8. e \in Seq(Findings) /\ w \in Seq(Findings)
  BY <1>2, <1>7, FindingSeqs
<1>9. CollectFindings(d) = e \o w
  BY <1>3 DEF e, itsg, its, it
<1>10. CollectFindings(d) \in Seq(Findings) /\ ToSet(CollectFindings(d)) = ToSet(e) \cup ToSet(w)
  BY <1>8, <1>9, Joined
<1>11. ASSUME Clean(CollectFindings(d))
       PROVE  i = <<>> /\ t = <<>> /\ s = <<>> /\ g = <<>> /\ ToSet(CollectFindings(d)) = ToSet(w)
  <2>1. Clean(e) /\ Clean(i) /\ Clean(t) /\ Clean(s) /\ Clean(g)
    BY <1>4, <1>5, <1>6, <1>7, <1>10, <1>11 DEF Clean
  <2>2. e = <<>> /\ i = <<>> /\ t = <<>> /\ s = <<>> /\ g = <<>>
    BY <1>1, <1>7, <2>1, CleanErrors
  <2>3. ToSet(e) = {}
    BY <2>2 DEF ToSet
  <2>4. QED
    BY <1>10, <2>2, <2>3
<1>12. QED
  BY <1>10, <1>11 DEF i, t, s, g, w

-----------------------------------------------------------------------------
\* Duplicates.

\* The declarations that are indexed are declarations, six kinds of them.
LEMMA DeclaredKinds ==
    ASSUME NEW d, NEW V, WellTyped(d, V)
    PROVE  /\ DOMAIN Declared(d) = 1..6
           /\ \A k \in 1..6 : /\ Declarations(Declared(d)[k][2])
                              /\ Duplicate(Declared(d)[k][1]) \in Errors
           /\ \A items \in {d.states, d.steps, d.guards, d.roles, d.inputs, d.outputs} :
                \E k \in 1..6 : items = Declared(d)[k][2]
<1>1. /\ Declarations(d.inputs) /\ Declarations(d.outputs) /\ Declarations(d.states)
      /\ Declarations(d.steps) /\ Declarations(d.guards) /\ Declarations(d.roles)
  BY Typed, NumberedKinds DEF Declarations
<1> DEFINE K == {"input", "output", "state", "step", "guard", "role"}
<1>2. \A kind \in K : Duplicate(kind) \in Errors
  <2> SUFFICES ASSUME NEW kind \in K PROVE Duplicate(kind) \in Errors
    OBVIOUS
  <2>1. <<"AlreadyExists", kind>> \in Reasons
    BY DEF Reasons
  <2>2. QED
    BY <2>1, Reported DEF Duplicate
<1>3. /\ Declared(d)[1] = <<"input", d.inputs>> /\ Declared(d)[2] = <<"output", d.outputs>>
      /\ Declared(d)[3] = <<"state", d.states>> /\ Declared(d)[4] = <<"step", d.steps>>
      /\ Declared(d)[5] = <<"guard", d.guards>> /\ Declared(d)[6] = <<"role", d.roles>>
      /\ DOMAIN Declared(d) = 1..6
  BY DEF Declared
<1>4. \A k \in 1..6 : Declared(d)[k][1] \in K /\ Declarations(Declared(d)[k][2])
  <2> SUFFICES ASSUME NEW k \in 1..6
               PROVE  Declared(d)[k][1] \in K /\ Declarations(Declared(d)[k][2])
    OBVIOUS
  <2>1. k = 1 \/ k = 2 \/ k = 3 \/ k = 4 \/ k = 5 \/ k = 6
    OBVIOUS
  <2>2. QED
    BY <1>1, <1>3, <2>1
<1>5. /\ Declared(d)[1][2] = d.inputs /\ Declared(d)[2][2] = d.outputs
      /\ Declared(d)[3][2] = d.states /\ Declared(d)[4][2] = d.steps
      /\ Declared(d)[5][2] = d.guards /\ Declared(d)[6][2] = d.roles
  BY <1>3
<1>6. {1, 2, 3, 4, 5, 6} \subseteq 1..6
  OBVIOUS
<1>7. \A items \in {d.states, d.steps, d.guards, d.roles, d.inputs, d.outputs} :
                \E k \in 1..6 : items = Declared(d)[k][2]
  BY <1>5, <1>6
<1>8. QED
  BY <1>2, <1>3, <1>4, <1>7

\* The findings on duplicates are empty when nothing is declared twice, and
\* otherwise start with the first kind of which something is.
LEMMA DuplicatesFound ==
    ASSUME NEW d, NEW V, WellTyped(d, V)
    PROVE  /\ DuplicateFindings(d) \in Seq(Errors)
           /\ DuplicateFindings(d) = <<>> <=> \A k \in 1..6 : Repeated(Declared(d)[k][2]) = {}
           /\ \A k \in 1..6 :
                Repeated(Declared(d)[k][2]) # {}
                  /\ (\A j \in 1..6 : Repeated(Declared(d)[j][2]) # {} => k <= j)
                  => DuplicateFindings(d)[1] = Duplicate(Declared(d)[k][1])
<1> DEFINE of(k) == PushDuplicates(Declared(d)[k][2], Declared(d)[k][1])
           seqs == [k \in DOMAIN Declared(d) |-> of(k)]
           dup(k) == Repeated(Declared(d)[k][2])
           e(k) == Duplicate(Declared(d)[k][1])
<1>1. DOMAIN Declared(d) = 1..6
  BY DeclaredKinds
<1>2. ASSUME NEW k \in 1..6
      PROVE  of(k) \in Seq(Errors) /\ (of(k) = <<>> <=> dup(k) = {}) /\ (dup(k) # {} => of(k)[1] = e(k))
  <2> DEFINE items == Declared(d)[k][2]
             R == Repeated(items)
             n == Cardinality(R)
  <2>1. Declarations(items) /\ e(k) \in Errors
    BY DeclaredKinds
  <2>2. PICK I : items \in Seq(I)
    BY <2>1 DEF Declarations
  <2>3. R \subseteq 1..Len(items) /\ Len(items) \in Nat
    BY <2>2 DEF Repeated
  <2>4. IsFiniteSet(1..Len(items))
    <3> DEFINE m == Len(items)
    <3>1. m \in Int /\ 1 \in Int
      BY <2>3
    <3> HIDE DEF m
    <3>2. IsFiniteSet(1..m)
      BY <3>1, FS_Interval
    <3>3. QED
      BY <3>2 DEF m
  <2>5. IsFiniteSet(R)
    BY <2>3, <2>4, FS_Subset
  <2> HIDE DEF R
  <2>6. n \in Nat /\ (n = 0 <=> R = {})
    BY <2>5, FS_CardinalityType, FS_EmptySet
  <2>7. of(k) = [p \in 1..n |-> e(k)]
    BY DEF PushDuplicates, R
  <2> DEFINE x == e(k)
  <2> HIDE DEF n, x
  <2>8. x \in Errors
    BY <2>1 DEF x
  <2>9. [p \in 1..n |-> x] \in Seq(Errors) /\ ([p \in 1..n |-> x] = <<>> <=> n = 0)
           /\ (n # 0 => [p \in 1..n |-> x][1] = x)
    BY <2>6, <2>8, OverAndOver
  <2>10. QED
    BY <2>6, <2>7, <2>9 DEF x, R
<1>3. DuplicateFindings(d) = FlattenSeq(seqs)
  BY DEF DuplicateFindings
<1> HIDE DEF of, dup, e
<1>4. seqs \in Seq(Seq(Errors)) /\ DOMAIN seqs = 1..6 /\ \A k \in 1..6 : seqs[k] = of(k)
  BY <1>1, <1>2
<1> HIDE DEF seqs
<1>5. DuplicateFindings(d) \in Seq(Errors)
        /\ (DuplicateFindings(d) = <<>> <=> \A k \in 1..6 : seqs[k] = <<>>)
  BY <1>3, <1>4, FlattenedEmpty
<1>6. ASSUME NEW k \in 1..6, dup(k) # {}, \A j \in 1..6 : dup(j) # {} => k <= j
      PROVE  DuplicateFindings(d)[1] = e(k)
  <2>1. seqs[k] # <<>>
    BY <1>2, <1>4, <1>6
  <2>2. ASSUME NEW q \in 1..(k - 1) PROVE seqs[q] = <<>>
    <3>1. q \in 1..6 /\ ~(k <= q)
      OBVIOUS
    <3>2. QED
      BY <1>2, <1>4, <1>6, <3>1
  <2>3. FlattenSeq(seqs)[1] = seqs[k][1]
    BY <1>4, <2>1, <2>2, FlattenedFirst
  <2>4. QED
    BY <1>2, <1>3, <1>4, <1>6, <2>3
<1>7. QED
  BY <1>2, <1>4, <1>5, <1>6 DEF dup, e

-----------------------------------------------------------------------------
(***************************************************************************)
(* The constructor and the report agree, for every draft of every set of   *)
(* drafts.                                                                 *)
(***************************************************************************)

\* A draft is refused with the error its report names first, and is
\* accepted when the report has none (ceremony_definition.rs, 306-307).
LEMMA RefusedAsReported ==
    ASSUME NEW d, NEW V, WellTyped(d, V)
    PROVE  /\ Refusal(d) = FirstError(AnalyzeDraft(d))
           /\ Constructs(d) => /\ \A k \in 1..6 : Repeated(Declared(d)[k][2]) = {}
                               /\ AnalyzeDraft(d) = CollectFindings(Parts(d))
                               /\ Clean(CollectFindings(Parts(d)))
<1> DEFINE dup == DuplicateFindings(d)
           rest == CollectFindings(Parts(d))
           twice == {k \in DOMAIN Declared(d) : Repeated(Declared(d)[k][2]) # {}}
           least == CHOOSE k \in twice : \A j \in twice : k <= j
<1>1. rest \in Seq(Findings) /\ dup \in Seq(Errors) /\ dup \in Seq(Findings)
  BY PartsTyped, Collected, DuplicatesFound, FindingSeqs
<1>2. AnalyzeDraft(d) = dup \o rest
  BY DEF AnalyzeDraft
<1>3. DOMAIN Declared(d) = 1..6
  BY DeclaredKinds
<1>4. CASE twice = {}
  <2>1. \A k \in 1..6 : Repeated(Declared(d)[k][2]) = {}
    BY <1>3, <1>4
  <2>2. dup = <<>>
    BY <2>1, DuplicatesFound
  <2>3. AnalyzeDraft(d) = rest
    <3> HIDE DEF rest, dup
    <3>1. QED
      BY <1>1, <1>2, <2>2
  <2>4. Refusal(d) = FirstError(rest)
    BY <1>4 DEF Refusal
  <2>5. FirstError(rest) = <<>> <=> Clean(rest)
    BY <1>1, FirstErrorFound
  <2>6. QED
    BY <2>1, <2>3, <2>4, <2>5 DEF Constructs
<1>5. CASE twice # {}
  <2>1. twice \in SUBSET Nat
    BY <1>3
  <2>2. \E k \in twice : \A j \in twice : k <= j
    <3> HIDE DEF twice
    <3>1. QED
      BY <1>5, <2>1, LeastNumber
  <2>3. least \in twice /\ \A j \in twice : least <= j
    <3> HIDE DEF twice
    <3>1. QED
      BY <2>2
  <2>4. Refusal(d) = <<<<"AlreadyExists", Declared(d)[least][1]>>>>
    BY <1>5 DEF Refusal
  <2> HIDE DEF least
  <2>5. least \in 1..6 /\ Repeated(Declared(d)[least][2]) # {}
           /\ \A j \in 1..6 : Repeated(Declared(d)[j][2]) # {} => least <= j
    BY <1>3, <2>3
  <2>6. dup # <<>> /\ dup[1] = Duplicate(Declared(d)[least][1])
    BY <2>5, DuplicatesFound
  <2>7. dup[1].defect = <<"AlreadyExists", Declared(d)[least][1]>>
    BY <2>6 DEF Duplicate, Error
  <2> DEFINE all == dup \o rest
             x == dup[1]
  <2>8. x \in Errors
    BY <2>5, <2>6, DeclaredKinds
  <2> HIDE DEF dup, rest
  <2>9. all \in Seq(Findings) /\ all # <<>> /\ all[1] = x
    <3>1. Len(dup) \in Nat /\ Len(dup) # 0 /\ Len(rest) \in Nat
      BY <1>1, <2>6
    <3>2. Len(dup \o rest) = Len(dup) + Len(rest) /\ dup \o rest \in Seq(Findings)
      BY <1>1
    <3>3. 1 \in 1..Len(dup) /\ Len(dup \o rest) # 0
      BY <3>1, <3>2
    <3>4. (dup \o rest)[1] = dup[1]
      BY <1>1, <3>3
    <3>5. QED
      BY <3>2, <3>3, <3>4
  <2> HIDE DEF all, x
  <2>10. FirstError(all) = <<x.defect>>
    BY <2>8, <2>9, FirstErrorFound
  <2>11. Refusal(d) = FirstError(AnalyzeDraft(d))
    BY <1>2, <2>4, <2>7, <2>10 DEF all, x
  <2>12. Refusal(d) # <<>>
    BY <2>4
  <2>13. QED
    BY <2>11, <2>12 DEF Constructs
<1>6. QED
  BY <1>4, <1>5

\* Declarations of one identifier are one, in what was accepted.
LEMMA DeclaredOnce ==
    ASSUME NEW d, NEW V, WellTyped(d, V), Constructs(d),
           NEW items \in {d.states, d.steps, d.guards, d.roles, d.inputs, d.outputs}
    PROVE  /\ Repeated(items) = {} /\ Cardinality(Ids(items)) = Len(items)
           /\ \A x, y \in ToSet(items) : IdOf(x) = IdOf(y) => x = y
           /\ \A x \in ToSet(items) : Get(items, IdOf(x)) = x
<1>1. PICK k \in 1..6 : items = Declared(d)[k][2]
  BY DeclaredKinds
<1>2. Declarations(items) /\ Repeated(items) = {}
  BY <1>1, DeclaredKinds, RefusedAsReported
<1>3. Cardinality(Ids(items)) = Len(items)
        /\ \A p, q \in DOMAIN items : IdOf(items[p]) = IdOf(items[q]) => p = q
  BY <1>2, CountedIds
<1>4. \A x, y \in ToSet(items) : IdOf(x) = IdOf(y) => x = y
  BY <1>3 DEF ToSet
<1>5. \A x \in ToSet(items) : Get(items, IdOf(x)) = x
  BY <1>4 DEF Get
<1>6. QED
  BY <1>2, <1>3, <1>4, <1>5

\* What is analysed of an accepted definition is what was declared.
LEMMA AnalysedAsDeclared ==
    ASSUME NEW d, NEW V, WellTyped(d, V), Constructs(d)
    PROVE  /\ ToSet(Parts(d).states) = ToSet(d.states) /\ ToSet(Parts(d).steps) = ToSet(d.steps)
           /\ ToSet(Parts(d).guards) = ToSet(d.guards)
           /\ Parts(d).transitions = d.transitions
           /\ Ids(Parts(d).states) = Ids(d.states) /\ Ids(Parts(d).steps) = Ids(d.steps)
           /\ Ids(Parts(d).guards) = Ids(d.guards)
           /\ \A kind : StatesOf(Parts(d), kind) = StatesOf(d, kind)
<1>1. Repeated(d.states) = {} /\ Repeated(d.steps) = {} /\ Repeated(d.guards) = {}
  BY DeclaredOnce
<1>2. QED
  BY <1>1, PartsTyped DEF StatesOf

\* CeremonyDefinition::new accepts state machines only: the rules together,
\* although each hides the ones after it.
LEMMA AcceptedIsAMachine ==
    ASSUME NEW d, NEW V, WellTyped(d, V), Constructs(d)
    PROVE  IsStateMachine(d)
<1> DEFINE e == Parts(d)
           running == Ids(d.states) \ StatesOf(d, "terminal")
<1>1. WellTyped(e, V) /\ Clean(CollectFindings(e))
  BY PartsTyped, RefusedAsReported
<1>2. /\ e.transitions = d.transitions /\ ToSet(e.steps) = ToSet(d.steps)
      /\ ToSet(e.guards) = ToSet(d.guards)
      /\ Ids(e.states) = Ids(d.states) /\ Ids(e.steps) = Ids(d.steps) /\ Ids(e.guards) = Ids(d.guards)
      /\ \A kind : StatesOf(e, kind) = StatesOf(d, kind)
  BY AnalysedAsDeclared
<1> HIDE DEF e
<1>3. /\ InitialStateFindings(e) = <<>> /\ TransitionGraphFindings(e) = <<>>
      /\ StepFindings(e) = <<>> /\ GuardFindings(e) = <<>>
  BY <1>1, Collected
<1>4. \E s \in running : StatesOf(d, "initial") = {s}
  <2>1. PICK s \in Ids(e.states) : StatesOf(e, "initial") = {s}
    BY <1>1, <1>3, InitialChecked
  <2>2. PICK x \in ToSet(d.states) : x.id = s /\ x.kind = "initial"
    BY <1>2, <2>1 DEF StatesOf
  <2>3. ASSUME s \in StatesOf(d, "terminal") PROVE FALSE
    <3>1. PICK y \in ToSet(d.states) : y.id = s /\ y.kind = "terminal"
      BY <2>3 DEF StatesOf
    <3>2. x = y
      BY <2>2, <3>1, DeclaredOnce DEF IdOf
    <3>3. QED
      BY <2>2, <3>1, <3>2
  <2>4. QED
    BY <1>2, <2>1, <2>3
<1>5. \A x \in ToSet(d.steps) : x.state \in running
  BY <1>1, <1>2, <1>3, StepsChecked
<1>6. \A p \in DOMAIN e.transitions : TransitionFindings(e, p) = <<>>
  BY <1>1, <1>3, GraphChecked
<1>7. \A p \in DOMAIN d.transitions :
        /\ d.transitions[p].from \in running /\ d.transitions[p].to \in Ids(d.states)
        /\ d.transitions[p].guards \subseteq Ids(d.guards)
        /\ \A q \in 1..(p - 1) : ~ /\ d.transitions[q].from = d.transitions[p].from
                                   /\ d.transitions[q].trigger = d.transitions[p].trigger
                                   /\ d.transitions[q].to \in Ids(d.states)
  BY <1>1, <1>2, <1>6, TransitionChecked
<1>8. \A t \in ToSet(d.transitions) :
        t.from \in running /\ t.to \in Ids(d.states) /\ t.guards \subseteq Ids(d.guards)
  BY <1>7 DEF ToSet
<1>9. DOMAIN d.transitions = 1..Len(d.transitions) /\ Len(d.transitions) \in Nat
  BY Typed
<1>10. ASSUME NEW p \in DOMAIN d.transitions, NEW q \in DOMAIN d.transitions,
              Keyed(d.transitions[p]) = Keyed(d.transitions[q])
       PROVE  p = q
  <2>1. d.transitions[p].from = d.transitions[q].from /\ d.transitions[p].trigger = d.transitions[q].trigger
    BY <1>10 DEF Keyed
  <2>2. p \notin 1..(q - 1) /\ q \notin 1..(p - 1)
    BY <1>7, <2>1
  <2>3. QED
    BY <1>9, <2>2
<1>11. \A g \in ToSet(d.guards) :
         g.condition.kind = "step_status" => g.condition.step \in Ids(d.steps)
  BY <1>1, <1>2, <1>3, GuardsChecked
<1>12. \A items \in {d.states, d.steps, d.guards, d.roles, d.inputs, d.outputs} :
         Cardinality(Ids(items)) = Len(items)
  BY DeclaredOnce
<1>13. QED
  BY <1>4, <1>5, <1>8, <1>10, <1>11, <1>12 DEF IsStateMachine

-----------------------------------------------------------------------------
(***************************************************************************)
(* Reachability. Both walks of the analysis take one step along a set of   *)
(* arrows, as many times as there are states; that is often enough, and so *)
(* each computes the least set that is closed under its arrows.            *)
(***************************************************************************)
Grow(E, S) == S \cup {e[2] : e \in {e \in E : e[1] \in S}}

Closed(E, S) == \A e \in E : e[1] \in S => e[2] \in S

Walk(g, E, A, n) == g = [i \in 0..n |-> IF i = 0 THEN A ELSE Grow(E, g[i - 1])]

\* One step adds only what is in the universe, and nothing to a closed set.
LEMMA Growing ==
    ASSUME NEW U, NEW E \in SUBSET (U \X U), NEW S \in SUBSET U
    PROVE  /\ Grow(E, S) \in SUBSET U /\ S \subseteq Grow(E, S)
           /\ Grow(E, S) = S <=> Closed(E, S)
           /\ \A C : S \subseteq C /\ Closed(E, C) => Grow(E, S) \subseteq C
<1>1. \A e \in E : e[1] \in U /\ e[2] \in U
  OBVIOUS
<1>2. QED
  BY <1>1 DEF Grow, Closed

\* Any walk, step by step.
LEMMA WalkSteps ==
    ASSUME NEW n \in Nat, NEW g, NEW E, NEW A, Walk(g, E, A, n)
    PROVE  g[0] = A /\ \A i \in 1..n : g[i] = Grow(E, g[i - 1])
<1>1. 0 \in 0..n /\ \A i \in 1..n : i \in 0..n /\ i # 0
  OBVIOUS
<1>2. \A i \in 0..n : g[i] = IF i = 0 THEN A ELSE Grow(E, g[i - 1])
  BY DEF Walk
<1>3. QED
  BY <1>1, <1>2

\* There is a walk of any length.
LEMMA WalkExists ==
    ASSUME NEW U, NEW E \in SUBSET (U \X U), NEW A \in SUBSET U, NEW n \in Nat
    PROVE  \E g : Walk(g, E, A, n)
<1> DEFINE X == SUBSET U
           step == [i \in Nat |-> [S \in X |-> Grow(E, S)]]
<1>1. \A S \in X : Grow(E, S) \in X
  BY Growing
<1>2. step \in [Nat -> [X -> X]] /\ A \in X
  BY <1>1
<1>3. \A i \in Nat, S \in X : step[i][S] = Grow(E, S)
  OBVIOUS
<1> HIDE DEF X, step
<1>4. PICK f \in [0..n -> X] : f[0] = A /\ Iterates(f, step, n)
  BY <1>2, Iterated
<1>5. ASSUME NEW i \in 0..n PROVE f[i] = IF i = 0 THEN A ELSE Grow(E, f[i - 1])
  <2>1. CASE i = 0
    BY <1>4, <2>1
  <2>2. CASE i # 0
    <3>1. i \in 1..n /\ i - 1 \in 0..n /\ i \in Nat
      BY <2>2
    <3>2. f[i] = step[i][f[i - 1]] /\ f[i - 1] \in X
      BY <1>4, <3>1 DEF Iterates
    <3>3. QED
      BY <1>3, <2>2, <3>1, <3>2
  <2>3. QED
    BY <2>1, <2>2
<1>6. Walk(f, E, A, n)
  BY <1>4, <1>5 DEF Walk
<1>7. QED
  BY <1>6

\* As many steps as there are members are enough: where a walk of that
\* length ends is closed, and is part of every closed set around its start.
LEMMA WalkEnds ==
    ASSUME NEW U, IsFiniteSet(U), NEW E \in SUBSET (U \X U), NEW A \in SUBSET U,
           NEW g, Walk(g, E, A, Cardinality(U))
    PROVE  /\ g[Cardinality(U)] \in SUBSET U /\ A \subseteq g[Cardinality(U)]
           /\ Closed(E, g[Cardinality(U)])
           /\ \A C : A \subseteq C /\ Closed(E, C) => g[Cardinality(U)] \subseteq C
<1> DEFINE n == Cardinality(U)
<1>1. n \in Nat
  BY FS_CardinalityType
<1>2. g[0] = A /\ \A i \in 1..n : g[i] = Grow(E, g[i - 1])
  BY <1>1, WalkSteps
<1>3. \A S \in SUBSET U : IsFiniteSet(S) /\ Cardinality(S) \in Nat
  BY FS_Subset, FS_CardinalityType
<1> DEFINE Holds(i) == /\ g[i] \in SUBSET U /\ A \subseteq g[i]
                       /\ Closed(E, g[i]) \/ Cardinality(g[i]) >= i
                       /\ \A C : A \subseteq C /\ Closed(E, C) => g[i] \subseteq C
           S == {i \in Nat : i \in 0..n => Holds(i)}
<1> HIDE DEF n
<1>4. 0 \in S
  <2>1. Cardinality(A) >= 0
    BY <1>3
  <2>2. Holds(0)
    BY <1>2, <2>1
  <2>3. QED
    BY <2>2
<1>5. ASSUME NEW i \in Nat, i \in S PROVE i + 1 \in S
  <2> SUFFICES ASSUME i + 1 \in 0..n PROVE Holds(i + 1)
    OBVIOUS
  <2>1. i \in 0..n /\ i + 1 \in 1..n /\ (i + 1) - 1 = i
    BY <1>1
  <2>2. Holds(i)
    BY <1>5, <2>1
  <2> DEFINE a == g[i]
             b == g[i + 1]
  <2>3. b = Grow(E, a)
    BY <1>2, <2>1
  <2>4. a \in SUBSET U
    BY <2>2
  <2>5. b \in SUBSET U /\ a \subseteq b /\ (b = a <=> Closed(E, a))
          /\ \A C : a \subseteq C /\ Closed(E, C) => b \subseteq C
    BY <2>3, <2>4, Growing
  <2>6. Closed(E, b) \/ Cardinality(b) >= i + 1
    <3>1. CASE b = a
      BY <2>5, <3>1
    <3>2. CASE b # a
      <4>1. Cardinality(a) >= i
        BY <2>2, <2>5, <3>2
      <4>2. Cardinality(a) <= Cardinality(b) /\ Cardinality(a) # Cardinality(b)
        <5> HIDE DEF a, b
        <5>1. IsFiniteSet(b)
          BY <1>3, <2>5
        <5>2. QED
          BY <2>5, <3>2, <5>1, FS_Subset
      <4>3. Cardinality(a) \in Nat /\ Cardinality(b) \in Nat
        BY <1>3, <2>4, <2>5
      <4> HIDE DEF a, b
      <4>4. Cardinality(b) >= i + 1
        BY <4>1, <4>2, <4>3
      <4>5. QED
        BY <4>4
    <3>3. QED
      BY <3>1, <3>2
  <2>7. A \subseteq b /\ \A C : A \subseteq C /\ Closed(E, C) => b \subseteq C
    BY <2>2, <2>5
  <2>8. QED
    BY <2>5, <2>6, <2>7
<1> HIDE DEF S, Holds
<1>6. n \in S
  BY <1>1, <1>4, <1>5, Climb
<1>7. Holds(n)
  <2>1. n \in 0..n
    BY <1>1
  <2>2. QED
    BY <1>6, <2>1 DEF S
<1> DEFINE end == g[n]
<1>8. /\ end \in SUBSET U /\ A \subseteq end
      /\ Closed(E, end) \/ Cardinality(end) >= n
      /\ \A C : A \subseteq C /\ Closed(E, C) => end \subseteq C
  BY <1>7 DEF Holds
<1> HIDE DEF end
<1>9. Closed(E, end)
  <2> SUFFICES ASSUME Cardinality(end) >= n PROVE Closed(E, end)
    BY <1>8
  <2>1. Cardinality(end) <= n /\ (Cardinality(end) = n => end = U)
    BY <1>8, FS_Subset DEF n
  <2>2. Cardinality(end) \in Nat
    BY <1>3, <1>8
  <2>3. end = U
    BY <1>1, <2>1, <2>2
  <2>4. \A e \in E : e[2] \in U
    OBVIOUS
  <2>5. QED
    BY <2>3, <2>4 DEF Closed
<1>10. QED
  BY <1>8, <1>9 DEF end, n

\* The arrows of a definition, forward and backward.
Ahead(d) == {<<t.from, t.to>> : t \in ToSet(d.transitions)}
Back(d) == {<<t.to, t.from>> : t \in ToSet(d.transitions)}

\* states_reachable_from computes the least set of states that holds the
\* initial one and is closed under the transitions.
LEMMA ReachedIsLeast ==
    ASSUME NEW d, IsFiniteSet(Ids(d.states)), Len(d.states) = Cardinality(Ids(d.states)),
           \A t \in ToSet(d.transitions) : t.from \in Ids(d.states) /\ t.to \in Ids(d.states),
           NEW start \in Ids(d.states)
    PROVE  /\ StatesReachableFrom(d, start) \in SUBSET Ids(d.states)
           /\ start \in StatesReachableFrom(d, start)
           /\ Closed(Ahead(d), StatesReachableFrom(d, start))
<1> DEFINE U == Ids(d.states)
           n == Cardinality(U)
           E == Ahead(d)
           A == {start}
           Eq(g) == g = [i \in 0..n |-> IF i = 0 THEN A
                                        ELSE g[i - 1] \cup {t.to : t \in {t \in ToSet(d.transitions) :
                                                                            t.from \in g[i - 1]}}]
           g == CHOOSE g : Eq(g)
<1>1. E \in SUBSET (U \X U) /\ A \in SUBSET U /\ n \in Nat
  <2>1. n \in Nat
    BY FS_CardinalityType
  <2>2. QED
    BY <2>1 DEF Ahead
<1>2. \A S : Grow(E, S) = S \cup {t.to : t \in {t \in ToSet(d.transitions) : t.from \in S}}
  <2> SUFFICES ASSUME NEW S
               PROVE  Grow(E, S) = S \cup {t.to : t \in {t \in ToSet(d.transitions) : t.from \in S}}
    OBVIOUS
  <2>1. \A x : x \in {e[2] : e \in {e \in E : e[1] \in S}}
               <=> \E t \in ToSet(d.transitions) : t.from \in S /\ x = t.to
    <3> DEFINE reached == {e[2] : e \in {e \in E : e[1] \in S}}
    <3>1. ASSUME NEW x, x \in reached
          PROVE  \E t \in ToSet(d.transitions) : t.from \in S /\ x = t.to
      <4>1. PICK e \in E : e[1] \in S /\ x = e[2]
        BY <3>1
      <4>2. PICK t \in ToSet(d.transitions) : e = <<t.from, t.to>>
        BY <4>1 DEF Ahead
      <4>3. QED
        BY <4>1, <4>2
    <3>2. ASSUME NEW t \in ToSet(d.transitions), t.from \in S PROVE t.to \in reached
      <4> DEFINE e == <<t.from, t.to>>
      <4>1. e \in E /\ e[1] = t.from /\ e[2] = t.to
        BY DEF Ahead
      <4> HIDE DEF e
      <4>2. QED
        BY <3>2, <4>1
    <3>3. QED
      BY <3>1, <3>2
  <2>2. QED
    BY <2>1 DEF Grow
<1>3. StatesReachableFrom(d, start) = g[n]
  BY DEF StatesReachableFrom
<1> HIDE DEF n, U, E, A
<1>4. \A h : Walk(h, E, A, n) <=> Eq(h)
  BY <1>2 DEF Walk
<1> HIDE DEF g, Eq
<1>5. \E h : Walk(h, E, A, n)
  BY <1>1, WalkExists
<1>6. Eq(g)
  BY <1>4, <1>5, Zenon DEF g
<1>7. Walk(g, E, A, n)
  BY <1>4, <1>6
<1>8. g[n] \in SUBSET U /\ A \subseteq g[n] /\ Closed(E, g[n])
  <2>1. IsFiniteSet(U) /\ n = Cardinality(U)
    BY DEF U, n
  <2>2. QED
    BY <1>1, <1>7, <2>1, WalkEnds
<1>9. QED
  BY <1>3, <1>8 DEF A, U, E

\* states_that_reach_a_terminal computes the least set of states that holds
\* the terminal ones and is closed under the transitions taken backward.
LEMMA FinishingIsLeast ==
    ASSUME NEW d, IsFiniteSet(Ids(d.states)), Len(d.states) = Cardinality(Ids(d.states)),
           \A t \in ToSet(d.transitions) : t.from \in Ids(d.states) /\ t.to \in Ids(d.states)
    PROVE  /\ StatesThatReachATerminal(d) \in SUBSET Ids(d.states)
           /\ StatesOf(d, "terminal") \subseteq StatesThatReachATerminal(d)
           /\ Closed(Back(d), StatesThatReachATerminal(d))
           /\ \A C : StatesOf(d, "terminal") \subseteq C /\ Closed(Back(d), C)
                       => StatesThatReachATerminal(d) \subseteq C
<1> DEFINE U == Ids(d.states)
           n == Cardinality(U)
           E == Back(d)
           A == StatesOf(d, "terminal")
           Eq(g) == g = [i \in 0..n |-> IF i = 0 THEN A
                                        ELSE g[i - 1] \cup {t.from : t \in {t \in ToSet(d.transitions) :
                                                                              t.to \in g[i - 1]}}]
           g == CHOOSE g : Eq(g)
<1>1. E \in SUBSET (U \X U) /\ A \in SUBSET U /\ n \in Nat
  <2>1. n \in Nat
    BY FS_CardinalityType
  <2>2. A \in SUBSET U
    BY DEF StatesOf, Ids, IdOf
  <2>3. QED
    BY <2>1, <2>2 DEF Back
<1>2. \A S : Grow(E, S) = S \cup {t.from : t \in {t \in ToSet(d.transitions) : t.to \in S}}
  <2> SUFFICES ASSUME NEW S
               PROVE  Grow(E, S) = S \cup {t.from : t \in {t \in ToSet(d.transitions) : t.to \in S}}
    OBVIOUS
  <2>1. \A x : x \in {e[2] : e \in {e \in E : e[1] \in S}}
               <=> \E t \in ToSet(d.transitions) : t.to \in S /\ x = t.from
    <3> DEFINE reached == {e[2] : e \in {e \in E : e[1] \in S}}
    <3>1. ASSUME NEW x, x \in reached
          PROVE  \E t \in ToSet(d.transitions) : t.to \in S /\ x = t.from
      <4>1. PICK e \in E : e[1] \in S /\ x = e[2]
        BY <3>1
      <4>2. PICK t \in ToSet(d.transitions) : e = <<t.to, t.from>>
        BY <4>1 DEF Back
      <4>3. QED
        BY <4>1, <4>2
    <3>2. ASSUME NEW t \in ToSet(d.transitions), t.to \in S PROVE t.from \in reached
      <4> DEFINE e == <<t.to, t.from>>
      <4>1. e \in E /\ e[1] = t.to /\ e[2] = t.from
        BY DEF Back
      <4> HIDE DEF e
      <4>2. QED
        BY <3>2, <4>1
    <3>3. QED
      BY <3>1, <3>2
  <2>2. QED
    BY <2>1 DEF Grow
<1>3. StatesThatReachATerminal(d) = g[n]
  BY DEF StatesThatReachATerminal
<1> HIDE DEF n, U, E, A
<1>4. \A h : Walk(h, E, A, n) <=> Eq(h)
  BY <1>2 DEF Walk
<1> HIDE DEF g, Eq
<1>5. \E h : Walk(h, E, A, n)
  BY <1>1, WalkExists
<1>6. Eq(g)
  BY <1>4, <1>5, Zenon DEF g
<1>7. Walk(g, E, A, n)
  BY <1>4, <1>6
<1>8. /\ g[n] \in SUBSET U /\ A \subseteq g[n] /\ Closed(E, g[n])
      /\ \A C : A \subseteq C /\ Closed(E, C) => g[n] \subseteq C
  <2>1. IsFiniteSet(U) /\ n = Cardinality(U)
    BY DEF U, n
  <2>2. QED
    BY <1>1, <1>7, <2>1, WalkEnds
<1>9. QED
  BY <1>3, <1>8 DEF A, U, E

\* From where an end can be reached: a state is among them exactly when no
\* set closed under the transitions holds it and leaves out every end.
LEMMA FinishingOrForced ==
    ASSUME NEW d, NEW F, NEW s \in Ids(d.states),
           F \in SUBSET Ids(d.states), StatesOf(d, "terminal") \subseteq F,
           \A t \in ToSet(d.transitions) : t.from \in Ids(d.states) /\ t.to \in Ids(d.states),
           Closed(Back(d), F),
           \A C : StatesOf(d, "terminal") \subseteq C /\ Closed(Back(d), C) => F \subseteq C
    PROVE  s \notin F <=> ForcedBy(d, {s}) \cap StatesOf(d, "terminal") = {}
<1> DEFINE T == StatesOf(d, "terminal")
           U == Ids(d.states)
           Stays(S) == \A t \in ToSet(d.transitions) : t.from \in S => t.to \in S
<1>1. \A t \in ToSet(d.transitions) : t.to \in F => t.from \in F
  <2>1. \A t \in ToSet(d.transitions) : <<t.to, t.from>> \in Back(d)
    BY DEF Back
  <2>2. QED
    BY <2>1 DEF Closed
<1>2. \A x, y : y \in ForcedBy(d, {x})
                  <=> y \in U /\ \A S \in SUBSET U : x \in S /\ Stays(S) => y \in S
  BY DEF ForcedBy
<1> HIDE DEF T
<1>3. ASSUME s \notin F PROVE ForcedBy(d, {s}) \cap T = {}
  <2> DEFINE C == U \ F
  <2>1. C \in SUBSET U /\ s \in C /\ Stays(C)
    BY <1>1, <1>3
  <2>2. \A y \in ForcedBy(d, {s}) : y \in C
    <3> HIDE DEF C, Stays, U
    <3>1. QED
      BY <1>2, <2>1
  <2>3. QED
    BY <2>2 DEF T
<1>4. ASSUME s \in F PROVE ForcedBy(d, {s}) \cap T # {}
  <2> DEFINE C == {x \in U : \E y \in T : y \in ForcedBy(d, {x})}
  <2>1. T \subseteq C
    <3>1. T \subseteq U
      BY DEF T
    <3>2. \A x \in T : x \in ForcedBy(d, {x})
      BY <1>2, <3>1
    <3>3. QED
      BY <3>1, <3>2
  <2>2. ASSUME NEW t \in ToSet(d.transitions), t.to \in C PROVE t.from \in C
    <3>1. PICK y \in T : y \in ForcedBy(d, {t.to})
      BY <2>2
    <3>2. y \in U /\ \A S \in SUBSET U : t.to \in S /\ Stays(S) => y \in S
      BY <1>2, <3>1
    <3>3. y \in ForcedBy(d, {t.from})
      BY <1>2, <3>2
    <3>4. QED
      BY <3>3
  <2>3. Closed(Back(d), C)
    <3> HIDE DEF C
    <3>1. QED
      BY <2>2 DEF Closed, Back
  <2>4. s \in C
    <3> HIDE DEF C
    <3>1. QED
      BY <1>4, <2>1, <2>3 DEF T
  <2>5. QED
    BY <2>4
<1>5. QED
  BY <1>3, <1>4 DEF T

-----------------------------------------------------------------------------
\* Where a session of a definition may be, as the analysis computes it.
InitialOf(d) == CHOOSE s \in StatesOf(d, "initial") : TRUE
Reachable(d) == StatesReachableFrom(Parts(d), InitialOf(Parts(d)))
Finishing(d) == StatesThatReachATerminal(Parts(d))

\* Of an accepted definition both walks compute what they are meant to.
LEMMA WalkedRight ==
    ASSUME NEW d, NEW V, WellTyped(d, V), Constructs(d)
    PROVE  /\ Walkable(Parts(d))
           /\ InitialOf(Parts(d)) = InitialOf(d)
           /\ Reachable(d) \in SUBSET Ids(d.states) /\ InitialOf(d) \in Reachable(d)
           /\ \A t \in ToSet(d.transitions) : t.from \in Reachable(d) => t.to \in Reachable(d)
           /\ \A s \in Ids(d.states) :
                s \notin Finishing(d) <=> ForcedBy(d, {s}) \cap StatesOf(d, "terminal") = {}
<1> DEFINE e == Parts(d)
           U == Ids(d.states)
<1>1. /\ e.transitions = d.transitions /\ Ids(e.states) = U
      /\ \A kind : StatesOf(e, kind) = StatesOf(d, kind)
      /\ Len(e.states) = Cardinality(U) /\ IsFiniteSet(U)
  BY AnalysedAsDeclared, PartsTyped, KindsOfStates
<1>2. IsStateMachine(d)
  BY AcceptedIsAMachine
<1>3. \A t \in ToSet(d.transitions) : t.from \in U /\ t.to \in U
  BY <1>2 DEF IsStateMachine
<1>4. PICK s \in U : StatesOf(d, "initial") = {s}
  BY <1>2 DEF IsStateMachine
<1>5. InitialOf(e) = InitialOf(d) /\ InitialOf(d) \in U
  BY <1>1, <1>4 DEF InitialOf
<1>6. Walkable(e)
  <2>1. Cardinality(StatesOf(e, "initial")) = 1
    BY <1>1, <1>4, FS_Singleton
  <2>2. QED
    BY <1>1, <1>3, <2>1 DEF Walkable
<1> HIDE DEF e
<1> DEFINE i == InitialOf(e)
<1>7. i \in Ids(e.states) /\ IsFiniteSet(Ids(e.states)) /\ Len(e.states) = Cardinality(Ids(e.states))
        /\ \A t \in ToSet(e.transitions) : t.from \in Ids(e.states) /\ t.to \in Ids(e.states)
  BY <1>1, <1>3, <1>5
<1> HIDE DEF i
<1>8. /\ StatesReachableFrom(e, i) \in SUBSET Ids(e.states) /\ i \in StatesReachableFrom(e, i)
      /\ Closed(Ahead(e), StatesReachableFrom(e, i))
  BY <1>7, ReachedIsLeast
<1>9. \A t \in ToSet(e.transitions) : <<t.from, t.to>> \in Ahead(e)
  BY DEF Ahead
<1>10. \A t \in ToSet(e.transitions) : t.from \in StatesReachableFrom(e, i) => t.to \in StatesReachableFrom(e, i)
  BY <1>8, <1>9 DEF Closed
<1> DEFINE F == StatesThatReachATerminal(e)
<1>11. /\ F \in SUBSET Ids(e.states) /\ StatesOf(e, "terminal") \subseteq F /\ Closed(Back(e), F)
       /\ \A C : StatesOf(e, "terminal") \subseteq C /\ Closed(Back(e), C) => F \subseteq C
  BY <1>7, FinishingIsLeast
<1>12. Back(e) = Back(d)
  BY <1>1 DEF Back
<1> HIDE DEF F
<1>13. /\ F \in SUBSET Ids(d.states) /\ StatesOf(d, "terminal") \subseteq F /\ Closed(Back(d), F)
       /\ \A C : StatesOf(d, "terminal") \subseteq C /\ Closed(Back(d), C) => F \subseteq C
  <2>1. StatesOf(e, "terminal") = StatesOf(d, "terminal")
    BY <1>1
  <2>2. QED
    BY <1>1, <1>11, <1>12, <2>1
<1>14. \A x \in Ids(d.states) : x \notin F <=> ForcedBy(d, {x}) \cap StatesOf(d, "terminal") = {}
  BY <1>3, <1>13, FinishingOrForced
<1>15. QED
  BY <1>1, <1>5, <1>6, <1>8, <1>10, <1>14 DEF e, i, F, Reachable, Finishing

\* What an accepted definition is warned of, and nothing else.
LEMMA WarnedOf ==
    ASSUME NEW d, NEW V, WellTyped(d, V), Constructs(d), NEW x
    PROVE  x \in ToSet(AnalyzeDraft(d)) <=>
             IF StatesOf(d, "terminal") = {} THEN x = NoTerminal
             ELSE \E s \in Ids(d.states) :
                    \/ s \notin Reachable(d) /\ x = Unreachable(s)
                    \/ s \in Reachable(d) /\ s \notin Finishing(d) /\ x = CannotFinish(s)
<1> DEFINE e == Parts(d)
           of(s) == IF s \notin Reachable(d) THEN <<Unreachable(s)>>
                    ELSE IF s \notin Finishing(d) THEN <<CannotFinish(s)>>
                    ELSE <<>>
           seqs == [p \in DOMAIN e.states |-> of(e.states[p].id)]
<1>1. WellTyped(e, V) /\ Clean(CollectFindings(e)) /\ AnalyzeDraft(d) = CollectFindings(e)
  BY PartsTyped, RefusedAsReported
<1>2. ToSet(AnalyzeDraft(d)) = ToSet(ReachabilityFindings(e))
  BY <1>1, Collected
<1>3. Walkable(e) /\ StatesOf(e, "terminal") = StatesOf(d, "terminal") /\ Ids(e.states) = Ids(d.states)
  BY WalkedRight, AnalysedAsDeclared
<1>4. ReachabilityFindings(e) =
        IF StatesOf(d, "terminal") = {} THEN <<NoTerminal>> ELSE FlattenSeq(seqs)
  BY <1>3 DEF ReachabilityFindings, Reachable, Finishing, InitialOf, Unreachable, CannotFinish, NoTerminal
<1>5. e.states \in Seq(StateOfKind) /\ DOMAIN e.states = 1..Len(e.states) /\ Len(e.states) \in Nat
  BY <1>1, Typed
<1> HIDE DEF e
<1>6. Ids(e.states) = {e.states[p].id : p \in DOMAIN e.states}
  BY DEF Ids, ToSet, IdOf
<1>7. CASE StatesOf(d, "terminal") = {}
  BY <1>2, <1>4, <1>7 DEF ToSet
<1>8. CASE StatesOf(d, "terminal") # {}
  <2> DEFINE F == {Unreachable(s) : s \in Ids(e.states)} \cup {CannotFinish(s) : s \in Ids(e.states)}
  <2>1. \A s \in Ids(e.states) : Unreachable(s) \in F /\ CannotFinish(s) \in F
    OBVIOUS
  <2> HIDE DEF F
  <2>2. \A y \in F : <<y>> \in Seq(F) /\ ToSet(<<y>>) = {y}
    BY DEF ToSet
  <2>3. <<>> \in Seq(F) /\ ToSet(<<>>) = {}
    BY DEF ToSet
  <2>4. \A s \in Ids(e.states) : of(s) \in Seq(F) /\ (x \in ToSet(of(s)) <=>
             \/ s \notin Reachable(d) /\ x = Unreachable(s)
             \/ s \in Reachable(d) /\ s \notin Finishing(d) /\ x = CannotFinish(s))
    BY <2>1, <2>2, <2>3
  <2> HIDE DEF of
  <2> DEFINE at(p) == of(e.states[p].id)
  <2>5. \A p \in DOMAIN e.states : at(p) \in Seq(F)
    BY <1>6, <2>4
  <2>6. seqs = [p \in DOMAIN e.states |-> at(p)]
    OBVIOUS
  <2> HIDE DEF at, seqs
  <2>7. seqs \in Seq(Seq(F)) /\ DOMAIN seqs = DOMAIN e.states /\ \A p \in DOMAIN seqs : seqs[p] = at(p)
    BY <1>5, <2>5, <2>6
  <2>8. x \in ToSet(FlattenSeq(seqs)) <=> \E p \in DOMAIN e.states : x \in ToSet(at(p))
    BY <2>7, Flattened
  <2>9. (\E p \in DOMAIN e.states : x \in ToSet(at(p))) <=> \E s \in Ids(e.states) : x \in ToSet(of(s))
    BY <1>6 DEF at
  <2>10. QED
    BY <1>2, <1>3, <1>4, <1>8, <2>4, <2>8, <2>9
<1>9. QED
  BY <1>7, <1>8

\* The warnings are true of every state a session can be in: it was not
\* called unreachable, and it was warned of exactly when no way on leads to
\* an end.
LEMMA WarnedTruly ==
    ASSUME NEW d, NEW V, WellTyped(d, V), Constructs(d), NEW s \in Reachable(d)
    PROVE  /\ s \notin Warned(d, "unreachable")
           /\ s \in Warned(d, "cannot finish") \/ 0 \in Warned(d, "no terminal state")
                <=> ForcedBy(d, {s}) \cap StatesOf(d, "terminal") = {}
<1> DEFINE T == StatesOf(d, "terminal")
           U == Ids(d.states)
           R == Reachable(d)
           F == Finishing(d)
           all == ToSet(AnalyzeDraft(d))
           un == "unreachable"
           cannot == "cannot finish"
           no == "no terminal state"
<1>0. un # cannot /\ un # no /\ cannot # no
  OBVIOUS
<1>1. /\ NoTerminal.defect = no /\ NoTerminal.state = 0
      /\ \A x : Unreachable(x).defect = un /\ Unreachable(x).state = x
      /\ \A x : CannotFinish(x).defect = cannot /\ CannotFinish(x).state = x
  BY DEF NoTerminal, Unreachable, CannotFinish, Warning
<1>2. \A x : x \in all <=> IF T = {} THEN x = NoTerminal
                            ELSE \E y \in U : \/ y \notin R /\ x = Unreachable(y)
                                              \/ y \in R /\ y \notin F /\ x = CannotFinish(y)
  BY WarnedOf
<1>3. s \in U /\ (s \notin F <=> ForcedBy(d, {s}) \cap T = {})
  BY WalkedRight
<1>4. \A w, y : y \in Warned(d, w) <=> \E x \in all : x.defect = w /\ y = x.state
  BY DEF Warned
<1> HIDE DEF T, U, R, F, all, un, cannot, no
<1>5. CASE T = {}
  <2>1. \A x : x \in all <=> x = NoTerminal
    BY <1>2, <1>5
  <2>2. 0 \in Warned(d, no)
    BY <1>0, <1>1, <1>4, <2>1
  <2>3. s \notin Warned(d, un)
    BY <1>0, <1>1, <1>4, <2>1
  <2>4. QED
    BY <1>5, <2>2, <2>3 DEF T, un, cannot, no
<1>6. CASE T # {}
  <2>1. \A x : x \in all <=> \E y \in U : \/ y \notin R /\ x = Unreachable(y)
                                          \/ y \in R /\ y \notin F /\ x = CannotFinish(y)
    BY <1>2, <1>6
  <2>2. 0 \notin Warned(d, no)
    BY <1>0, <1>1, <1>4, <2>1
  <2>3. s \in R
    BY DEF R
  <2>4. s \notin Warned(d, un)
    BY <1>0, <1>1, <1>4, <2>1, <2>3
  <2>5. s \in Warned(d, cannot) => s \notin F
    BY <1>0, <1>1, <1>4, <2>1
  <2>6. s \notin F => CannotFinish(s) \in all
    BY <1>3, <2>1, <2>3
  <2>7. s \notin F => s \in Warned(d, cannot)
    BY <1>0, <1>1, <1>4, <2>6
  <2>8. QED
    BY <1>3, <2>2, <2>4, <2>5, <2>7 DEF T, un, cannot, no
<1>7. QED
  BY <1>5, <1>6

-----------------------------------------------------------------------------
(***************************************************************************)
(* The comparison of two accepted definitions.                             *)
(***************************************************************************)

\* Where one thing changed in a way that strands, the whole comparison does.
LEMMA Strands ==
    ASSUME NEW b, NEW a, ~StrandsRunningSessions(b, a)
    PROVE  /\ Removed(b.states, a.states) = {}
           /\ \A i \in Kept(b.states, a.states) : Get(b.states, i).kind = Get(a.states, i).kind
           /\ \A i \in Kept(b.guards, a.guards) :
                Get(b.guards, i).condition = Get(a.guards, i).condition
           /\ \A t \in ToSet(b.transitions) :
                /\ \E u \in ToSet(a.transitions) : Keyed(u) = Keyed(t)
                /\ WayOut(a, Keyed(t)).to = WayOut(b, Keyed(t)).to
<1>1. \A kind, of, ids, i : i \in ids =>
        \E c \in Changes(kind, of, ids, "strands") : c.impact = "strands"
  <2> SUFFICES ASSUME NEW kind, NEW of, NEW ids, NEW i \in ids
               PROVE  \E c \in Changes(kind, of, ids, "strands") : c.impact = "strands"
    OBVIOUS
  <2> DEFINE c == [kind |-> kind, of |-> <<of, i>>, impact |-> "strands"]
  <2>1. c \in Changes(kind, of, ids, "strands")
    BY DEF Changes
  <2>2. c.impact = "strands"
    OBVIOUS
  <2> HIDE DEF c
  <2>3. QED
    BY <2>1, <2>2
<1>2. \A c \in Between(b, a) : c.impact # "strands"
  BY DEF StrandsRunningSessions
<1>3. Removed(b.states, a.states) = {}
  <2>1. Changes("removed", "state", Removed(b.states, a.states), "strands") \subseteq Between(b, a)
    BY DEF Between, DiffStates
  <2>2. QED
    BY <1>1, <1>2, <2>1
<1>4. ASSUME NEW i \in Kept(b.states, a.states), Get(b.states, i).kind # Get(a.states, i).kind
      PROVE  FALSE
  <2> DEFINE altered == {j \in Kept(b.states, a.states) : Get(b.states, j).kind # Get(a.states, j).kind}
  <2>1. Changes("altered", "state", altered, "strands") \subseteq Between(b, a)
    BY DEF Between, DiffStates
  <2>2. i \in altered
    BY <1>4
  <2> HIDE DEF altered
  <2>3. QED
    BY <1>1, <1>2, <2>1, <2>2
<1>5. ASSUME NEW i \in Kept(b.guards, a.guards), Get(b.guards, i).condition # Get(a.guards, i).condition
      PROVE  FALSE
  <2> DEFINE altered == {j \in Kept(b.guards, a.guards) :
                           Get(b.guards, j).condition # Get(a.guards, j).condition}
  <2>1. Changes("altered", "guard", altered, "strands") \subseteq Between(b, a)
    BY DEF Between, DiffGuards
  <2>2. i \in altered
    BY <1>5
  <2> HIDE DEF altered
  <2>3. QED
    BY <1>1, <1>2, <2>1, <2>2
<1> DEFINE keys(d) == {Keyed(t) : t \in ToSet(d.transitions)}
           altered == {k \in keys(b) \cap keys(a) : WayOut(b, k).to # WayOut(a, k).to
                                                    \/ WayOut(b, k).guards # WayOut(a, k).guards}
<1>6. DiffTransitions(b, a) \subseteq Between(b, a)
  BY DEF Between
<1>7. DiffTransitions(b, a) =
        Changes("removed", "transition", keys(b) \ keys(a), "strands")
          \cup UNION {Changes("altered", "transition", {k}, TransitionImpact(b, a, k)) : k \in altered}
          \cup Changes("added", "transition", keys(a) \ keys(b), "carries")
  BY DEF DiffTransitions
<1>8. ASSUME NEW t \in ToSet(b.transitions), Keyed(t) \notin keys(a) PROVE FALSE
  <2> DEFINE gone == keys(b) \ keys(a)
  <2>1. Keyed(t) \in gone
    BY <1>8
  <2>2. Changes("removed", "transition", gone, "strands") \subseteq Between(b, a)
    BY <1>6, <1>7
  <2> HIDE DEF gone
  <2>3. QED
    BY <1>1, <1>2, <2>1, <2>2
<1>9. ASSUME NEW t \in ToSet(b.transitions), Keyed(t) \in keys(a),
             WayOut(a, Keyed(t)).to # WayOut(b, Keyed(t)).to
      PROVE  FALSE
  <2> DEFINE k == Keyed(t)
             one == {k}
  <2>1. TransitionImpact(b, a, k) = "strands"
    BY <1>9 DEF TransitionImpact
  <2>2. k \in altered
    BY <1>9
  <2>3. k \in one
    OBVIOUS
  <2>4. Changes("altered", "transition", one, TransitionImpact(b, a, k)) \subseteq DiffTransitions(b, a)
    <3> HIDE DEF altered, k
    <3>1. QED
      BY <1>7, <2>2
  <2>5. Changes("altered", "transition", one, "strands") \subseteq Between(b, a)
    BY <1>6, <2>1, <2>4
  <2> HIDE DEF one, k
  <2>6. QED
    BY <1>1, <1>2, <2>3, <2>5
<1>10. QED
  BY <1>3, <1>4, <1>5, <1>8, <1>9

\* One key, one transition, in what was accepted.
LEMMA OneWayOut ==
    ASSUME NEW d, IsStateMachine(d), NEW t \in ToSet(d.transitions)
    PROVE  WayOut(d, Keyed(t)) = t
<1>1. \A x, y \in ToSet(d.transitions) : Keyed(x) = Keyed(y) => x = y
  BY DEF IsStateMachine, ToSet
<1>2. QED
  BY <1>1 DEF WayOut

\* A version that strands nobody leaves a session of the earlier one its
\* state, its ways out, and what opened them.
LEMMA CarriesOn ==
    ASSUME NEW b, NEW d, NEW V, WellTyped(b, V), WellTyped(d, V), Constructs(b), Constructs(d),
           NEW s, s.state \in Ids(b.states), ~StrandsRunningSessions(b, d)
    PROVE  /\ s.state \in Ids(d.states)
           /\ s.state \in StatesOf(b, "terminal") <=> s.state \in StatesOf(d, "terminal")
           /\ Leads(b, s) \subseteq Leads(d, s)
           /\ \A t \in WaysOut(b, s) :
                WayOut(d, Keyed(t)).guards \subseteq t.guards => WayOut(d, Keyed(t)) \in WaysOut(d, s)
<1>1. IsStateMachine(b) /\ IsStateMachine(d)
  BY AcceptedIsAMachine
<1>2. s.state \in Ids(d.states) /\ s.state \in Kept(b.states, d.states)
  BY Strands DEF Removed, Kept
<1>3. s.state \in StatesOf(b, "terminal") <=> s.state \in StatesOf(d, "terminal")
  <2>1. ASSUME NEW e \in {b, d}
        PROVE  s.state \in StatesOf(e, "terminal") <=> Get(e.states, s.state).kind = "terminal"
    <3>1. PICK x \in ToSet(e.states) : IdOf(x) = s.state
      BY <1>2 DEF Ids
    <3>2. Get(e.states, s.state) = x
      BY <3>1, DeclaredOnce
    <3>3. \A y \in ToSet(e.states) : IdOf(y) = s.state => y = x
      BY <3>1, DeclaredOnce
    <3>4. QED
      BY <3>1, <3>2, <3>3 DEF StatesOf, IdOf
  <2>2. QED
    BY <1>2, <2>1, Strands
<1>4. ASSUME NEW t \in ToSet(b.transitions), t.from = s.state
      PROVE  /\ WayOut(d, Keyed(t)) \in ToSet(d.transitions)
             /\ Keyed(WayOut(d, Keyed(t))) = Keyed(t)
             /\ WayOut(d, Keyed(t)).from = s.state /\ WayOut(d, Keyed(t)).to = t.to
  <2>1. PICK u \in ToSet(d.transitions) : Keyed(u) = Keyed(t)
    BY Strands
  <2>2. WayOut(d, Keyed(t)) = u /\ WayOut(b, Keyed(t)) = t
    BY <1>1, <2>1, OneWayOut
  <2>3. u.to = t.to
    BY <2>2, Strands
  <2>4. u.from = t.from
    BY <2>1 DEF Keyed
  <2>5. QED
    BY <1>4, <2>1, <2>2, <2>3, <2>4
<1>5. Leads(b, s) \subseteq Leads(d, s)
  <2> SUFFICES ASSUME NEW x \in Leads(b, s) PROVE x \in Leads(d, s)
    OBVIOUS
  <2>1. PICK t \in ToSet(b.transitions) : t.from = s.state /\ x = <<Keyed(t), t.to>>
    BY DEF Leads
  <2> DEFINE u == WayOut(d, Keyed(t))
  <2>2. u \in ToSet(d.transitions) /\ u.from = s.state /\ x = <<Keyed(u), u.to>>
    BY <1>4, <2>1
  <2> HIDE DEF u
  <2>3. QED
    BY <2>2 DEF Leads
<1>6. ASSUME NEW t \in WaysOut(b, s), WayOut(d, Keyed(t)).guards \subseteq t.guards
      PROVE  WayOut(d, Keyed(t)) \in WaysOut(d, s)
  <2> DEFINE u == WayOut(d, Keyed(t))
  <2>1. t \in ToSet(b.transitions) /\ t.from = s.state /\ \A g \in t.guards : GuardHolds(b, s, g)
    BY DEF WaysOut
  <2>2. u \in ToSet(d.transitions) /\ u.from = s.state
    BY <1>4, <2>1
  <2>3. ASSUME NEW g \in u.guards PROVE GuardHolds(d, s, g)
    <3>1. g \in t.guards /\ GuardHolds(b, s, g)
      BY <1>6, <2>1
    <3>2. g \in Ids(b.guards) /\ g \in Ids(d.guards)
      BY <1>1, <2>1, <2>2, <3>1 DEF IsStateMachine
    <3>3. Get(b.guards, g).condition = Get(d.guards, g).condition
      BY <3>2, Strands DEF Kept
    <3>4. QED
      BY <3>1, <3>3 DEF GuardHolds
  <2> HIDE DEF u
  <2>4. u \in WaysOut(d, s)
    BY <2>2, <2>3 DEF WaysOut
  <2>5. QED
    BY <2>4 DEF u
<1>7. QED
  BY <1>2, <1>3, <1>5, <1>6

-----------------------------------------------------------------------------
(***************************************************************************)
(* The inductive invariant. What is stored was accepted and stands under   *)
(* its own version; a caller about to open a session holds what a store    *)
(* still holds; and a bound session's definition is in the catalogue,      *)
(* where nothing replaces it, with the session where that definition says  *)
(* a session can be.                                                       *)
(***************************************************************************)
Accepted == {d \in Designs : Constructs(d)}

SlotsHold(slots) ==
    /\ slots \in [Versions -> Accepted \cup {NoDefinition}]
    /\ \A v \in Versions : slots[v] # NoDefinition => slots[v].version = v

HandHolds(h, saved, published) ==
    \/ h = Idle
    \/ \E rest \in Seq(Accepted) : rest # <<>> /\ h = Mounting(rest)
    \/ \E id \in Sessions, d \in Accepted, bound \in BOOLEAN :
         /\ h = Opening(id, d, bound)
         /\ IF bound THEN published[d.version] = d ELSE saved[d.version] # NoDefinition

SessionHolds(s, saved, published) ==
    /\ s \in SessionRecords
    /\ s.ran \in Accepted
    /\ s.version = s.ran.version
    /\ IF s.digest # NoDefinition
       THEN /\ s.digest = Digest(s.ran)
            /\ published[s.version] = s.ran
            /\ s.state \in Reachable(s.ran)
       ELSE s.here => saved[s.version] # NoDefinition

CatalogueInv ==
    /\ desk \in Designs \cup {NoDefinition}
    /\ SlotsHold(repository) /\ SlotsHold(catalogue)
    /\ hand = [c \in Callers |-> hand[c]]
    /\ \A c \in Callers : HandHolds(hand[c], repository, catalogue)
    /\ sessions \in [Sessions -> SessionRecords \cup {NoSession}]
    /\ \A id \in Sessions : sessions[id] # NoSession => SessionHolds(sessions[id], repository, catalogue)

\* What was accepted, by its parts.
LEMMA AcceptedTyped ==
    ASSUME NEW d \in Accepted
    PROVE  /\ d \in Designs /\ d # NoDefinition /\ WellTyped(d, Versions) /\ Constructs(d)
           /\ d.version \in Versions /\ IsStateMachine(d)
           /\ Digest(d) # NoDefinition
           /\ Reachable(d) \in SUBSET Nat /\ InitialOf(d) \in Reachable(d)
           /\ Reachable(d) \in SUBSET Ids(d.states)
<1>1. d \in Designs /\ d # NoDefinition /\ WellTyped(d, Versions) /\ Constructs(d)
        /\ Digest(d) # NoDefinition
  BY DesignsAssumption, DigestsAssumption DEF Accepted
<1>2. d.version \in Versions
  BY <1>1, Typed
<1>3. IsStateMachine(d)
  BY <1>1, AcceptedIsAMachine
<1>4. Reachable(d) \in SUBSET Ids(d.states) /\ InitialOf(d) \in Reachable(d)
  BY <1>1, WalkedRight
<1>5. Ids(d.states) \in SUBSET Nat
  BY <1>1, KindsOfStates
<1>6. QED
  BY <1>1, <1>2, <1>3, <1>4, <1>5

\* Stores that lose nothing, and a catalogue in which nothing is replaced,
\* leave what callers hold and what sessions are bound to as it was.
LEMMA Lasting ==
    ASSUME NEW saved, NEW published, NEW saved2, NEW published2,
           \A v \in Versions : published[v] # NoDefinition => published2[v] = published[v],
           \A v \in Versions : saved[v] # NoDefinition => saved2[v] # NoDefinition
    PROVE  /\ \A h : HandHolds(h, saved, published) => HandHolds(h, saved2, published2)
           /\ \A s : SessionHolds(s, saved, published) => SessionHolds(s, saved2, published2)
<1>1. \A d \in Accepted : d.version \in Versions /\ d # NoDefinition
  BY AcceptedTyped
<1>2. \A d \in Accepted : /\ published[d.version] = d => published2[d.version] = d
                          /\ saved[d.version] # NoDefinition => saved2[d.version] # NoDefinition
  BY <1>1
<1>3. \A h : HandHolds(h, saved, published) => HandHolds(h, saved2, published2)
  BY <1>2 DEF HandHolds
<1>4. \A s : SessionHolds(s, saved, published) => SessionHolds(s, saved2, published2)
  BY <1>2 DEF SessionHolds
<1>5. QED
  BY <1>3, <1>4

\* Saving or publishing an accepted definition leaves the slots in order.
LEMMA SlotTaken ==
    ASSUME NEW slots, SlotsHold(slots), NEW d \in Accepted
    PROVE  /\ SlotsHold(Save(slots, d))
           /\ \A v \in Versions : slots[v] # NoDefinition => Save(slots, d)[v] # NoDefinition
           /\ SlotsHold(Publish(slots, d))
           /\ \A v \in Versions : slots[v] # NoDefinition => Publish(slots, d)[v] = slots[v]
           /\ Save(slots, d)[d.version] = d
<1>1. d.version \in Versions /\ d # NoDefinition
  BY AcceptedTyped
<1>2. QED
  BY <1>1 DEF SlotsHold, Save, Publish

\* Empty slots are in order, and hold nothing.
LEMMA SlotsEmpty ==
    ASSUME NEW slots \in Slots
    PROVE  SlotsHold(slots)
BY DEF Slots, SlotsHold

\* A session starts where its definition says, under it.
LEMMA StartedHolds ==
    ASSUME NEW d \in Accepted, NEW bound \in BOOLEAN, NEW saved, NEW published,
           IF bound THEN published[d.version] = d ELSE saved[d.version] # NoDefinition
    PROVE  Started(d, bound) \in SessionRecords /\ SessionHolds(Started(d, bound), saved, published)
<1> DEFINE s == Started(d, bound)
<1>1. /\ d \in Designs /\ d.version \in Versions /\ Digest(d) # NoDefinition
      /\ InitialOf(d) \in Nat /\ InitialOf(d) \in Reachable(d)
  BY AcceptedTyped
<1>2. s = [version |-> d.version, digest |-> IF bound THEN Digest(d) ELSE NoDefinition,
           ran |-> d, here |-> TRUE, state |-> InitialOf(d), done |-> {}, approved |-> {}]
  BY DEF Started, InitialOf
<1>3. /\ s.version = d.version /\ s.digest = (IF bound THEN Digest(d) ELSE NoDefinition)
      /\ s.ran = d /\ s.state = InitialOf(d)
  BY <1>2
<1> DEFINE digests == {NoDefinition} \cup {Digest(x) : x \in Designs}
<1>4. s.digest \in digests
  BY <1>1, <1>3
<1>5. s \in SessionRecords
  <2> HIDE DEF digests
  <2>1. (IF bound THEN Digest(d) ELSE NoDefinition) \in digests
    BY <1>3, <1>4
  <2>2. s \in [version: Versions, digest: digests,
               ran: Designs, here: BOOLEAN, state: Nat, done: SUBSET Nat, approved: SUBSET Nat]
    BY <1>1, <1>2, <2>1
  <2>3. QED
    BY <2>2 DEF SessionRecords, digests
<1> HIDE DEF s
<1>6. SessionHolds(s, saved, published)
  BY <1>1, <1>3, <1>5 DEF SessionHolds
<1>7. QED
  BY <1>5, <1>6 DEF s

\* What a session resolves to is accepted; a bound one's is its own.
LEMMA ResolvedAccepted ==
    ASSUME CatalogueInv, NEW id \in Sessions, sessions[id] # NoSession
    PROVE  /\ Resolve(sessions[id]) \in Accepted \cup {NoDefinition}
           /\ sessions[id].digest # NoDefinition => Resolve(sessions[id]) = sessions[id].ran
           /\ sessions[id].here => Resolve(sessions[id]) # NoDefinition
<1> DEFINE s == sessions[id]
<1>1. SessionHolds(s, repository, catalogue) /\ SlotsHold(repository) /\ SlotsHold(catalogue)
  BY DEF CatalogueInv
<1> HIDE DEF s
<1>2. s.ran \in Accepted /\ s.version = s.ran.version
  BY <1>1 DEF SessionHolds
<1>3. s.version \in Versions /\ s.ran # NoDefinition
  BY <1>2, AcceptedTyped
<1>4. CASE s.digest # NoDefinition
  <2>1. s.digest = Digest(s.ran) /\ catalogue[s.version] = s.ran
    BY <1>1, <1>4 DEF SessionHolds
  <2>2. Resolve(s) = s.ran
    BY <1>3, <1>4, <2>1 DEF Resolve
  <2>3. QED
    BY <1>2, <1>3, <2>2 DEF s
<1>5. CASE s.digest = NoDefinition
  <2>1. Resolve(s) = repository[s.version] /\ repository[s.version] \in Accepted \cup {NoDefinition}
    BY <1>1, <1>3, <1>5 DEF Resolve, SlotsHold
  <2>2. s.here => repository[s.version] # NoDefinition
    BY <1>1, <1>5 DEF SessionHolds
  <2>3. QED
    BY <1>5, <2>1, <2>2 DEF s
<1>6. QED
  BY <1>4, <1>5

\* A session advanced under what it resolves to is still where its
\* definition says a session can be.
LEMMA AdvancedHolds ==
    ASSUME NEW saved, NEW published, NEW s, SessionHolds(s, saved, published),
           NEW d \in Accepted, s.digest # NoDefinition => d = s.ran,
           NEW next \in Advances(s, d)
    PROVE  next \in SessionRecords /\ SessionHolds(next, saved, published)
<1> DEFINE digests == {NoDefinition} \cup {Digest(x) : x \in Designs}
           records == [version: Versions, digest: digests, ran: Designs, here: BOOLEAN,
                       state: Nat, done: SUBSET Nat, approved: SUBSET Nat]
<1>1. s \in records
  BY DEF SessionHolds, SessionRecords
<1>2. WellTyped(d, Versions) /\ Constructs(d)
  BY AcceptedTyped
<1> HIDE DEF digests
<1>3. \/ \E t \in ToSet(d.transitions) : t.from = s.state /\ next = [s EXCEPT !.state = t.to]
      \/ \E x \in ToSet(d.steps) : next = [s EXCEPT !.done = @ \cup {x.id}]
      \/ \E g \in ToSet(d.guards) : next = [s EXCEPT !.approved = @ \cup {g.id}]
  BY DEF Advances, WaysOut
<1>4. CASE \E t \in ToSet(d.transitions) : t.from = s.state /\ next = [s EXCEPT !.state = t.to]
  <2>1. PICK t \in ToSet(d.transitions) : t.from = s.state /\ next = [s EXCEPT !.state = t.to]
    BY <1>4
  <2>2. t.to \in Nat
    BY <1>2, Typed DEF Arrow
  <2>3. next \in records /\ next.state = t.to /\ next.version = s.version /\ next.digest = s.digest
          /\ next.ran = s.ran /\ next.here = s.here
    BY <1>1, <2>1, <2>2
  <2>4. s.state \in Reachable(d) => t.to \in Reachable(d)
    BY <1>2, <2>1, WalkedRight
  <2>5. SessionHolds(next, saved, published)
    BY <2>3, <2>4 DEF SessionHolds, SessionRecords, digests
  <2>6. QED
    BY <2>5 DEF SessionHolds
<1>5. CASE \E x \in ToSet(d.steps) : next = [s EXCEPT !.done = @ \cup {x.id}]
  <2>1. PICK x \in ToSet(d.steps) : next = [s EXCEPT !.done = @ \cup {x.id}]
    BY <1>5
  <2>2. x.id \in Nat
    <3>1. x \in Task
      BY <1>2, Typed DEF ToSet
    <3>2. QED
      BY <3>1 DEF Task
  <2>3. next \in records /\ next.state = s.state /\ next.version = s.version /\ next.digest = s.digest
          /\ next.ran = s.ran /\ next.here = s.here
    BY <1>1, <2>1, <2>2
  <2>4. SessionHolds(next, saved, published)
    BY <2>3 DEF SessionHolds, SessionRecords, digests
  <2>5. QED
    BY <2>4 DEF SessionHolds
<1>6. CASE \E g \in ToSet(d.guards) : next = [s EXCEPT !.approved = @ \cup {g.id}]
  <2>1. PICK g \in ToSet(d.guards) : next = [s EXCEPT !.approved = @ \cup {g.id}]
    BY <1>6
  <2>2. g.id \in Nat
    <3>1. g \in Condition
      BY <1>2, Typed DEF ToSet
    <3>2. QED
      BY <3>1 DEF Condition
  <2>3. next \in records /\ next.state = s.state /\ next.version = s.version /\ next.digest = s.digest
          /\ next.ran = s.ran /\ next.here = s.here
    BY <1>1, <2>1, <2>2
  <2>4. SessionHolds(next, saved, published)
    BY <2>3 DEF SessionHolds, SessionRecords, digests
  <2>5. QED
    BY <2>4 DEF SessionHolds
<1>7. QED
  BY <1>3, <1>4, <1>5, <1>6

-----------------------------------------------------------------------------
\* It holds at first: nothing is stored, opened or in hand.
LEMMA CatalogueInit == Init => CatalogueInv
<1> SUFFICES ASSUME Init PROVE CatalogueInv
  OBVIOUS
<1>1. SlotsHold(repository) /\ SlotsHold(catalogue)
  BY SlotsEmpty DEF Init
<1>2. desk \in Designs
  BY DEF Init, Designs
<1>3. /\ hand = [c \in Callers |-> hand[c]]
      /\ \A c \in Callers : HandHolds(hand[c], repository, catalogue)
  BY DEF Init, HandHolds
<1>4. sessions \in [Sessions -> SessionRecords \cup {NoSession}] /\ \A id \in Sessions : sessions[id] = NoSession
  BY DEF Init
<1>5. QED
  BY <1>1, <1>2, <1>3, <1>4 DEF CatalogueInv

\* One caller's hand changes to what it may hold.
LEMMA HandChanges ==
    ASSUME CatalogueInv, NEW c \in Callers, NEW h,
           hand' = [hand EXCEPT ![c] = h], UNCHANGED catalogue,
           \A v \in Versions : repository[v] # NoDefinition => repository'[v] # NoDefinition,
           HandHolds(h, repository', catalogue')
    PROVE  /\ hand' = [x \in Callers |-> hand'[x]]
           /\ \A x \in Callers : HandHolds(hand'[x], repository', catalogue')
<1>1. hand = [x \in Callers |-> hand[x]] /\ \A x \in Callers : HandHolds(hand[x], repository, catalogue)
  BY DEF CatalogueInv
<1>2. \A x \in Callers : HandHolds(hand[x], repository', catalogue')
  BY <1>1, Lasting
<1>3. DOMAIN hand = Callers
  BY <1>1
<1>4. \A x \in Callers : hand'[x] = IF x = c THEN h ELSE hand[x]
  BY <1>3
<1>5. QED
  BY <1>2, <1>3, <1>4

\* Submitting, revising and publishing.
LEMMA DeskKeeps ==
    ASSUME CatalogueInv, \/ Withdraw \/ PublishDefinition \/ \E d \in Offered : Revise(d)
    PROVE  CatalogueInv'
<1>1. CASE Withdraw
  BY <1>1 DEF Withdraw, CatalogueInv
<1>2. CASE \E d \in Offered : Revise(d)
  <2>1. Offered \subseteq Designs
    BY DEF Designs
  <2>2. QED
    BY <1>2, <2>1 DEF Revise, CatalogueInv
<1>3. CASE PublishDefinition
  <2>1. desk \in Accepted
    BY <1>3 DEF PublishDefinition, CatalogueInv, Accepted
  <2>2. /\ catalogue' = Publish(catalogue, desk) /\ desk' = NoDefinition
        /\ repository' = repository /\ sessions' = sessions /\ hand' = hand
    BY <1>3 DEF PublishDefinition
  <2>3. SlotsHold(catalogue') /\ \A v \in Versions : catalogue[v] # NoDefinition => catalogue'[v] = catalogue[v]
    BY <2>1, <2>2, SlotTaken DEF CatalogueInv
  <2>4. \A v \in Versions : repository[v] # NoDefinition => repository'[v] # NoDefinition
    BY <2>2
  <2>5. /\ \A h : HandHolds(h, repository, catalogue) => HandHolds(h, repository', catalogue')
        /\ \A s : SessionHolds(s, repository, catalogue) => SessionHolds(s, repository', catalogue')
    BY <2>3, <2>4, Lasting
  <2>6. QED
    BY <2>2, <2>3, <2>5 DEF CatalogueInv
<1>4. QED
  BY <1>1, <1>2, <1>3

\* Mounting, one definition at a time.
LEMMA MountKeeps ==
    ASSUME CatalogueInv, NEW c \in Callers, Mount(c) \/ MountNext(c)
    PROVE  CatalogueInv'
<1>1. CASE Mount(c)
  <2>1. Mountable \in Seq(Accepted)
    <3>1. Mountable \in Seq(Designs) /\ \A p \in DOMAIN Mountable : Constructs(Mountable[p])
      BY <1>1, DesignsAssumption DEF Mount
    <3>2. \A p \in 1..Len(Mountable) : Mountable[p] \in Accepted
      BY <3>1 DEF Accepted
    <3>3. QED
      BY <3>1, <3>2
  <2>2. Mountable # <<>> /\ hand' = [hand EXCEPT ![c] = Mounting(Mountable)]
          /\ UNCHANGED <<desk, repository, catalogue, sessions>>
    BY <1>1 DEF Mount
  <2>3. HandHolds(Mounting(Mountable), repository', catalogue')
    BY <2>1, <2>2 DEF HandHolds
  <2> DEFINE h == Mounting(Mountable)
  <2> HIDE DEF h
  <2>4. /\ hand' = [x \in Callers |-> hand'[x]]
        /\ \A x \in Callers : HandHolds(hand'[x], repository', catalogue')
    <3>1. HandHolds(h, repository', catalogue') /\ hand' = [hand EXCEPT ![c] = h]
      BY <2>2, <2>3 DEF h
    <3>2. QED
      BY <2>2, <3>1, HandChanges
  <2>5. QED
    BY <2>2, <2>4 DEF CatalogueInv
<1>2. CASE MountNext(c)
  <2> DEFINE h == IF Len(hand[c].rest) = 1 THEN Idle ELSE Mounting(Tail(hand[c].rest))
             first == Head(hand[c].rest)
  <2>1. PICK rest \in Seq(Accepted) : rest # <<>> /\ hand[c] = Mounting(rest)
    <3>1. HandHolds(hand[c], repository, catalogue) /\ hand[c].doing = "mounting"
      BY <1>2 DEF MountNext, CatalogueInv
    <3>2. Idle.doing # "mounting"
      BY DEF Idle
    <3>3. \A id, d, b : Opening(id, d, b).doing # "mounting"
      BY DEF Opening
    <3>4. QED
      BY <3>1, <3>2, <3>3 DEF HandHolds
  <2>2. hand[c].rest = rest
    BY <2>1 DEF Mounting
  <2>3. first \in Accepted
    BY <2>1, <2>2
  <2>4. DOMAIN hand = Callers
    BY DEF CatalogueInv
  <2>5. hand' = [hand EXCEPT ![c] = h] /\ repository' = Save(repository, first)
          /\ UNCHANGED <<desk, catalogue, sessions>>
    BY <1>2, <2>4 DEF MountNext
  <2>6. HandHolds(h, repository', catalogue')
    <3>1. CASE Len(rest) = 1
      BY <2>2, <3>1 DEF HandHolds
    <3>2. CASE Len(rest) # 1
      <4>1. Tail(rest) \in Seq(Accepted) /\ Tail(rest) # <<>>
        <5>1. Len(rest) \in Nat /\ Len(rest) # 0
          BY <2>1
        <5>2. Tail(rest) \in Seq(Accepted) /\ Len(Tail(rest)) = Len(rest) - 1
          BY <2>1
        <5>3. Len(Tail(rest)) # 0
          BY <3>2, <5>1, <5>2
        <5>4. \A q \in Seq(Accepted) : q = <<>> => Len(q) = 0
          OBVIOUS
        <5>5. QED
          BY <5>2, <5>3, <5>4
      <4>2. QED
        BY <2>2, <3>2, <4>1 DEF HandHolds
    <3>3. QED
      BY <3>1, <3>2
  <2> HIDE DEF h, first
  <2>7. SlotsHold(repository')
          /\ \A v \in Versions : repository[v] # NoDefinition => repository'[v] # NoDefinition
    BY <2>3, <2>5, SlotTaken DEF CatalogueInv
  <2>8. /\ hand' = [x \in Callers |-> hand'[x]]
        /\ \A x \in Callers : HandHolds(hand'[x], repository', catalogue')
    BY <2>5, <2>6, <2>7, HandChanges
  <2>9. \A s : SessionHolds(s, repository, catalogue) => SessionHolds(s, repository', catalogue')
    BY <2>5, <2>7, Lasting
  <2>10. QED
    BY <2>5, <2>7, <2>8, <2>9 DEF CatalogueInv
<1>3. QED
  BY <1>1, <1>2

\* Taking a definition in hand to open a session under it.
LEMMA TakeKeeps ==
    ASSUME CatalogueInv, NEW c \in Callers, NEW id \in Sessions,
           Run(c, id) \/ \E v \in Versions : Start(c, id, v) \/ StartPublished(c, id, v)
    PROVE  CatalogueInv'
<1>1. CASE Run(c, id)
  <2> DEFINE h == Opening(id, desk, FALSE)
  <2>1. desk \in Accepted
    BY <1>1 DEF Run, CatalogueInv, Accepted
  <2>2. /\ repository' = Save(repository, desk) /\ hand' = [hand EXCEPT ![c] = h] /\ desk' = NoDefinition
        /\ UNCHANGED <<catalogue, sessions>>
    BY <1>1 DEF Run
  <2>3. /\ SlotsHold(repository') /\ repository'[desk.version] = desk
        /\ \A v \in Versions : repository[v] # NoDefinition => repository'[v] # NoDefinition
    BY <2>1, <2>2, SlotTaken DEF CatalogueInv
  <2>4. HandHolds(h, repository', catalogue')
    <3>1. desk # NoDefinition
      BY <2>1, AcceptedTyped
    <3>2. QED
      BY <2>1, <2>3, <3>1 DEF HandHolds
  <2> HIDE DEF h
  <2>5. /\ hand' = [x \in Callers |-> hand'[x]]
        /\ \A x \in Callers : HandHolds(hand'[x], repository', catalogue')
    BY <2>2, <2>3, <2>4, HandChanges
  <2>6. \A s : SessionHolds(s, repository, catalogue) => SessionHolds(s, repository', catalogue')
    BY <2>2, <2>3, Lasting
  <2>7. QED
    BY <2>2, <2>3, <2>5, <2>6 DEF CatalogueInv
<1>2. ASSUME NEW v \in Versions, Start(c, id, v) PROVE CatalogueInv'
  <2> DEFINE d == repository[v]
             h == Opening(id, d, FALSE)
  <2>1. d \in Accepted /\ d.version = v /\ d # NoDefinition
    BY <1>2 DEF Start, CatalogueInv, SlotsHold
  <2>2. hand' = [hand EXCEPT ![c] = h] /\ UNCHANGED <<desk, repository, catalogue, sessions>>
    BY <1>2 DEF Start
  <2>3. HandHolds(h, repository', catalogue')
    BY <2>1, <2>2 DEF HandHolds
  <2> HIDE DEF h
  <2>4. /\ hand' = [x \in Callers |-> hand'[x]]
        /\ \A x \in Callers : HandHolds(hand'[x], repository', catalogue')
    BY <2>2, <2>3, HandChanges
  <2>5. QED
    BY <2>2, <2>4 DEF CatalogueInv
<1>3. ASSUME NEW v \in Versions, StartPublished(c, id, v) PROVE CatalogueInv'
  <2> DEFINE d == catalogue[v]
             h == Opening(id, d, TRUE)
  <2>1. d \in Accepted /\ d.version = v
    BY <1>3 DEF StartPublished, CatalogueInv, SlotsHold
  <2>2. hand' = [hand EXCEPT ![c] = h] /\ UNCHANGED <<desk, repository, catalogue, sessions>>
    BY <1>3 DEF StartPublished
  <2>3. HandHolds(h, repository', catalogue')
    BY <2>1, <2>2 DEF HandHolds
  <2> HIDE DEF h
  <2>4. /\ hand' = [x \in Callers |-> hand'[x]]
        /\ \A x \in Callers : HandHolds(hand'[x], repository', catalogue')
    BY <2>2, <2>3, HandChanges
  <2>5. QED
    BY <2>2, <2>4 DEF CatalogueInv
<1>4. QED
  BY <1>1, <1>2, <1>3

\* Opening the session, or losing the race for it.
LEMMA OpenKeeps ==
    ASSUME CatalogueInv, NEW c \in Callers, Open(c)
    PROVE  CatalogueInv'
<1>1. PICK id \in Sessions, d \in Accepted, bound \in BOOLEAN :
        /\ hand[c] = Opening(id, d, bound)
        /\ IF bound THEN catalogue[d.version] = d ELSE repository[d.version] # NoDefinition
  <2>1. HandHolds(hand[c], repository, catalogue) /\ hand[c].doing = "opening"
    BY DEF Open, CatalogueInv
  <2>2. Idle.doing # "opening"
    BY DEF Idle
  <2>3. \A rest : Mounting(rest).doing # "opening"
    BY DEF Mounting
  <2>4. QED
    BY <2>1, <2>2, <2>3 DEF HandHolds
<1>2. hand[c].id = id /\ hand[c].definition = d /\ hand[c].bound = bound
  BY <1>1 DEF Opening
<1> DEFINE s == Started(d, bound)
<1>3. s \in SessionRecords /\ SessionHolds(s, repository, catalogue)
  BY <1>1, StartedHolds
<1> HIDE DEF s
<1>4. /\ hand' = [hand EXCEPT ![c] = Idle] /\ UNCHANGED <<desk, repository, catalogue>>
      /\ sessions' = sessions \/ sessions' = [sessions EXCEPT ![id] = s]
  BY <1>2 DEF Open, s
<1>5. /\ hand' = [x \in Callers |-> hand'[x]]
      /\ \A x \in Callers : HandHolds(hand'[x], repository', catalogue')
  <2>1. HandHolds(Idle, repository', catalogue')
    BY DEF HandHolds
  <2>2. QED
    BY <1>4, <2>1, HandChanges
<1>6. /\ sessions' \in [Sessions -> SessionRecords \cup {NoSession}]
      /\ \A x \in Sessions : sessions'[x] # NoSession => SessionHolds(sessions'[x], repository, catalogue)
  BY <1>3, <1>4 DEF CatalogueInv
<1>7. QED
  BY <1>4, <1>5, <1>6 DEF CatalogueInv

\* Advancing a session.
LEMMA AdvanceKeeps ==
    ASSUME CatalogueInv, NEW id \in Sessions, Advance(id)
    PROVE  CatalogueInv'
<1> DEFINE s == sessions[id]
           d == Resolve(s)
<1>1. s # NoSession /\ d # NoDefinition /\ UNCHANGED <<desk, repository, catalogue, hand>>
  BY DEF Advance, MayAdvance
<1>2. PICK next \in Advances(s, d) : sessions' = [sessions EXCEPT ![id] = next]
  BY DEF Advance
<1>3. d \in Accepted /\ (s.digest # NoDefinition => d = s.ran)
  BY <1>1, ResolvedAccepted
<1>4. SessionHolds(s, repository, catalogue)
  BY <1>1 DEF CatalogueInv
<1> HIDE DEF s, d
<1>5. next \in SessionRecords /\ SessionHolds(next, repository, catalogue)
  BY <1>2, <1>3, <1>4, AdvancedHolds
<1>6. /\ sessions' \in [Sessions -> SessionRecords \cup {NoSession}]
      /\ \A x \in Sessions : sessions'[x] # NoSession => SessionHolds(sessions'[x], repository, catalogue)
  BY <1>2, <1>5 DEF CatalogueInv
<1>7. QED
  BY <1>1, <1>6 DEF CatalogueInv

\* Stopping and starting again.
LEMMA RestartKeeps ==
    ASSUME CatalogueInv, Restart
    PROVE  CatalogueInv'
<1>1. hand' = [c \in Callers |-> Idle] /\ SlotsHold(repository') /\ desk' = desk
  BY SlotsEmpty DEF Restart
<1>2. \A x \in Callers : HandHolds(hand'[x], repository', catalogue')
  BY <1>1 DEF HandHolds
<1>3. SlotsHold(catalogue') /\ (Durable => catalogue' = catalogue)
  BY SlotsEmpty DEF Restart, CatalogueInv
<1>4. sessions' = [x \in Sessions |-> IF sessions[x] = NoSession \/ ~Durable THEN NoSession
                                      ELSE [sessions[x] EXCEPT !.here = FALSE]]
  BY DEF Restart
<1>5. ASSUME NEW x \in Sessions, sessions'[x] # NoSession
      PROVE  sessions'[x] \in SessionRecords /\ SessionHolds(sessions'[x], repository', catalogue')
  <2> DEFINE s == sessions[x]
             r == sessions'[x]
             digests == {NoDefinition} \cup {Digest(e) : e \in Designs}
             records == [version: Versions, digest: digests, ran: Designs, here: BOOLEAN,
                         state: Nat, done: SUBSET Nat, approved: SUBSET Nat]
  <2>1. s # NoSession /\ Durable /\ r = [s EXCEPT !.here = FALSE]
    BY <1>4, <1>5
  <2>2. SessionHolds(s, repository, catalogue)
    BY <2>1 DEF CatalogueInv
  <2>3. s \in records
    BY <2>2 DEF SessionHolds, SessionRecords
  <2> HIDE DEF s, r, digests
  <2>4. r \in records /\ r.version = s.version /\ r.digest = s.digest /\ r.ran = s.ran
          /\ r.here = FALSE /\ r.state = s.state
    BY <2>1, <2>3
  <2>5. catalogue' = catalogue
    BY <1>3, <2>1
  <2>6. SessionHolds(r, repository', catalogue')
    BY <2>2, <2>4, <2>5 DEF SessionHolds, SessionRecords, digests
  <2>7. QED
    BY <2>6 DEF r, SessionHolds
<1>6. sessions' \in [Sessions -> SessionRecords \cup {NoSession}]
  BY <1>4, <1>5
<1>7. QED
  BY <1>1, <1>2, <1>3, <1>5, <1>6 DEF CatalogueInv

\* Every step keeps the inductive invariant.
LEMMA CatalogueStep ==
    ASSUME CatalogueInv, [Next]_vars
    PROVE  CatalogueInv'
<1>1. CASE UNCHANGED vars
  BY <1>1 DEF vars, CatalogueInv
<1>2. CASE Next
  BY <1>2, DeskKeeps, MountKeeps, TakeKeeps, OpenKeeps, AdvanceKeeps, RestartKeeps DEF Next
<1>3. QED
  BY <1>1, <1>2

(***************************************************************************)
(* The inductive invariant holds in every state, for any drafts, versions, *)
(* callers and sessions, with a durable store and without one.             *)
(***************************************************************************)
THEOREM CatalogueInvariant == Spec => []CatalogueInv
<1>1. Init => CatalogueInv
  BY CatalogueInit
<1>2. CatalogueInv /\ [Next]_vars => CatalogueInv'
  BY CatalogueStep
<1>3. QED
  BY <1>1, <1>2, PTL DEF Spec

(***************************************************************************)
(* A bound session always resolves, to the content it was started from,    *)
(* through racing publications, definitions saved under its version and    *)
(* restarts; and any session resolves while the process that opened it is  *)
(* up (ResolveCeremonyDefinitionUseCase). Nothing but the catalogue's slot *)
(* being taken once and kept with the sessions makes it so.                *)
(***************************************************************************)
THEOREM EverySessionResolves == Spec => []SessionsResolve
<1>1. CatalogueInv => SessionsResolve
  <2> SUFFICES ASSUME CatalogueInv, NEW s \in OpenSessions
               PROVE  /\ s.digest # NoDefinition =>
                           Resolve(s) # NoDefinition /\ Digest(Resolve(s)) = Digest(s.ran)
                      /\ s.here => Resolve(s) # NoDefinition
    BY DEF SessionsResolve
  <2>1. PICK id \in Sessions : s = sessions[id] /\ s # NoSession
    BY DEF OpenSessions
  <2>2. s.ran \in Accepted
    BY <2>1 DEF CatalogueInv, SessionHolds
  <2>3. s.ran # NoDefinition
    BY <2>2, AcceptedTyped
  <2>4. QED
    BY <2>1, <2>3, ResolvedAccepted
<1>2. QED
  BY <1>1, CatalogueInvariant, PTL

(***************************************************************************)
(* What the analysis says is so: whatever was stored is a state machine,   *)
(* a draft is refused for the error its report names first, and a bound    *)
(* session is never in a state that was called unreachable and is warned   *)
(* exactly when no way on leads to an end (ceremony_definition_analysis).  *)
(***************************************************************************)
THEOREM TheAnalysisIsRight == Spec => []AnalysisIsRight
<1>1. CatalogueInv => AnalysisIsRight
  <2> SUFFICES ASSUME CatalogueInv PROVE AnalysisIsRight
    OBVIOUS
  <2>1. AcceptedIsSound
    <3>1. \A d \in Known \ {NoDefinition} : d \in Accepted
      BY DEF Known, CatalogueInv, SlotsHold
    <3>2. QED
      BY <3>1, AcceptedTyped DEF AcceptedIsSound
  <2>2. RefusedForItsFirstError
    <3>1. desk # NoDefinition => WellTyped(desk, Versions)
      BY DesignsAssumption DEF CatalogueInv
    <3>2. QED
      BY <3>1, RefusedAsReported DEF RefusedForItsFirstError
  <2>3. ASSUME NEW s \in OpenSessions, s.digest # NoDefinition
        PROVE  /\ s.state \notin Warned(s.ran, "unreachable")
               /\ s.state \in Warned(s.ran, "cannot finish") \/ 0 \in Warned(s.ran, "no terminal state")
                    <=> ForcedBy(s.ran, {s.state}) \cap StatesOf(s.ran, "terminal") = {}
    <3>1. PICK id \in Sessions : s = sessions[id] /\ s # NoSession
      BY DEF OpenSessions
    <3>2. s.ran \in Accepted /\ s.state \in Reachable(s.ran)
      BY <2>3, <3>1 DEF CatalogueInv, SessionHolds
    <3>3. WellTyped(s.ran, Versions) /\ Constructs(s.ran)
      BY <3>2, AcceptedTyped
    <3>4. QED
      BY <3>2, <3>3, WarnedTruly
  <2>4. WarningsAreRight
    BY <2>3 DEF WarningsAreRight
  <2>5. QED
    BY <2>1, <2>2, <2>4 DEF AnalysisIsRight
<1>2. QED
  BY <1>1, CatalogueInvariant, PTL

(***************************************************************************)
(* A stored version whose comparison says that it does not strand running  *)
(* sessions carries every bound one on: its state, open or final as it     *)
(* was, its ways out to where they led, and each open if it was, unless    *)
(* guards were added (CeremonyDefinitionDiff::strands_running_sessions).   *)
(***************************************************************************)
THEOREM CarriedOn == Spec => []CarriedSessionsGoOn
<1>1. CatalogueInv => CarriedSessionsGoOn
  <2> SUFFICES ASSUME CatalogueInv, NEW s \in OpenSessions, s.digest # NoDefinition,
                      NEW d \in Known \ {NoDefinition}, ~StrandsRunningSessions(s.ran, d)
               PROVE  /\ s.state \in Ids(d.states)
                      /\ s.state \in StatesOf(s.ran, "terminal") <=> s.state \in StatesOf(d, "terminal")
                      /\ Leads(s.ran, s) \subseteq Leads(d, s)
                      /\ \A t \in WaysOut(s.ran, s) :
                           WayOut(d, Keyed(t)).guards \subseteq t.guards
                             => WayOut(d, Keyed(t)) \in WaysOut(d, s)
    BY DEF CarriedSessionsGoOn
  <2>1. PICK id \in Sessions : s = sessions[id] /\ s # NoSession
    BY DEF OpenSessions
  <2>2. s.ran \in Accepted /\ s.state \in Reachable(s.ran)
    BY <2>1 DEF CatalogueInv, SessionHolds
  <2>3. d \in Accepted
    BY DEF Known, CatalogueInv, SlotsHold
  <2>4. /\ WellTyped(s.ran, Versions) /\ Constructs(s.ran) /\ s.state \in Ids(s.ran.states)
        /\ WellTyped(d, Versions) /\ Constructs(d)
    BY <2>2, <2>3, AcceptedTyped
  <2>5. QED
    BY <2>4, CarriesOn
<1>2. QED
  BY <1>1, CatalogueInvariant, PTL
-----------------------------------------------------------------------------
(***************************************************************************)
(* The proofs about sessions assume of a definition what CeremonyInstance  *)
(* and RunCeremony state as StatesAssumption, StepsAssumption,             *)
(* TransitionsAssumption and OrderAssumption. Here are these assumptions,  *)
(* of what a definition declares. Retries are no part of it (StepAttempt   *)
(* refuses zero), nor is the status a guard waits for, nor who may act.    *)
(***************************************************************************)
SessionAssumptions(d) ==
    LET States == Ids(d.states)
        TerminalStates == StatesOf(d, "terminal")
        Steps == Ids(d.steps)
        StepState == [x \in Steps |-> Get(d.steps, x).state]
        Transitions == ToSet(d.transitions)
        Triggers == {t.trigger : t \in Transitions}
        Guards == Ids(d.guards)
        GuardCondition == [g \in Guards |-> Get(d.guards, g).condition]
        GuardConditions == [kind: {"always", "human_approval"}]
                             \cup [kind: {"step_status"}, step: Steps]
        StepOrder == [p \in DOMAIN d.steps |-> IdOf(d.steps[p])]
    IN  /\ \E InitialState \in States \ TerminalStates : StatesOf(d, "initial") = {InitialState}
        /\ TerminalStates \subseteq States
        /\ StepState \in [Steps -> States \ TerminalStates]
        /\ Transitions \subseteq [from: States \ TerminalStates, trigger: Triggers,
                                  to: States, guards: SUBSET Guards]
        /\ \A t, u \in Transitions : t.from = u.from /\ t.trigger = u.trigger => t = u
        /\ GuardCondition \in [Guards -> GuardConditions]
        /\ IsFiniteSet(States) /\ IsFiniteSet(Steps) /\ IsFiniteSet(Transitions)
        /\ StepOrder \in Seq(Steps)
        /\ ToSet(StepOrder) = Steps /\ Len(StepOrder) = Cardinality(Steps)
        /\ d.transitions \in Seq(Transitions) /\ Len(d.transitions) = Cardinality(Transitions)

\* CeremonyDefinition::new sees to all of them.
LEMMA AcceptedCanBeRun ==
    ASSUME NEW d, NEW V, WellTyped(d, V), Constructs(d)
    PROVE  SessionAssumptions(d)
<1> DEFINE States == Ids(d.states)
           TerminalStates == StatesOf(d, "terminal")
           Steps == Ids(d.steps)
           StepState == [x \in Steps |-> Get(d.steps, x).state]
           Transitions == ToSet(d.transitions)
           Triggers == {t.trigger : t \in Transitions}
           Guards == Ids(d.guards)
           GuardCondition == [g \in Guards |-> Get(d.guards, g).condition]
           GuardConditions == [kind: {"always", "human_approval"}]
                                \cup [kind: {"step_status"}, step: Steps]
           StepOrder == [p \in DOMAIN d.steps |-> IdOf(d.steps[p])]
<1>1. /\ d.transitions \in Seq(Arrow) /\ d.steps \in Seq(Task) /\ d.guards \in Seq(Condition)
      /\ \A t \in Transitions : t \in Arrow
  BY Typed
<1>2. /\ \E s \in States \ TerminalStates : StatesOf(d, "initial") = {s}
      /\ \A x \in ToSet(d.steps) : x.state \in States \ TerminalStates
      /\ \A t \in Transitions : t.from \in States \ TerminalStates /\ t.to \in States
                                  /\ t.guards \subseteq Guards
      /\ \A p, q \in DOMAIN d.transitions :
           Keyed(d.transitions[p]) = Keyed(d.transitions[q]) => p = q
      /\ \A g \in ToSet(d.guards) :
           g.condition.kind = "step_status" => g.condition.step \in Steps
  <2>1. IsStateMachine(d)
    BY AcceptedIsAMachine
  <2>2. QED
    BY <2>1 DEF IsStateMachine
<1>3. /\ TerminalStates \subseteq States /\ IsFiniteSet(States)
  BY KindsOfStates
<1>4. StepState \in [Steps -> States \ TerminalStates]
  <2>1. ASSUME NEW i \in Steps PROVE Get(d.steps, i).state \in States \ TerminalStates
    <3>1. PICK x \in ToSet(d.steps) : i = IdOf(x)
      BY DEF Ids
    <3>2. Get(d.steps, IdOf(x)) = x
      BY DeclaredOnce
    <3>3. QED
      BY <3>1, <3>2, <1>2
  <2>2. QED
    BY <2>1
<1>5. Transitions \subseteq [from: States \ TerminalStates, trigger: Triggers,
                             to: States, guards: SUBSET Guards]
  <2>1. ASSUME NEW t \in Transitions
        PROVE  t \in [from: States \ TerminalStates, trigger: Triggers,
                      to: States, guards: SUBSET Guards]
    <3>1. t \in Arrow /\ t.trigger \in Triggers
      BY <1>1
    <3>2. /\ t = [from |-> t.from, trigger |-> t.trigger, to |-> t.to, guards |-> t.guards]
      BY <3>1 DEF Arrow
    <3>3. t.from \in States \ TerminalStates /\ t.to \in States /\ t.guards \in SUBSET Guards
      BY <1>2
    <3> HIDE DEF States, TerminalStates, Guards, Triggers
    <3>4. QED
      BY <3>1, <3>2, <3>3
  <2>2. QED
    BY <2>1
<1>6. \A t, u \in Transitions : t.from = u.from /\ t.trigger = u.trigger => t = u
  BY <1>2 DEF ToSet, Keyed
<1>7. GuardCondition \in [Guards -> GuardConditions]
  <2>1. ASSUME NEW i \in Guards PROVE Get(d.guards, i).condition \in GuardConditions
    <3>1. PICK g \in ToSet(d.guards) : i = IdOf(g)
      BY DEF Ids
    <3>2. Get(d.guards, i) = g
      BY <3>1, DeclaredOnce
    <3>3. g \in Condition
      BY <1>1 DEF ToSet
    <3>4. g.condition \in Conditions
      BY <3>3 DEF Condition
    <3>5. g.condition.kind = "step_status" => g.condition.step \in Steps
      BY <1>2
    <3> HIDE DEF Steps
    <3>6. g.condition \in GuardConditions
      BY <3>4, <3>5 DEF Conditions
    <3>7. QED
      BY <3>2, <3>6
  <2>2. QED
    BY <2>1
<1>8. /\ StepOrder \in Seq(Steps) /\ ToSet(StepOrder) = Steps
      /\ Len(StepOrder) = Cardinality(Steps) /\ IsFiniteSet(Steps)
  <2>1. Cardinality(Steps) = Len(d.steps)
    BY DeclaredOnce
  <2>2. DOMAIN d.steps = 1..Len(d.steps) /\ Len(d.steps) \in Nat
    BY <1>1
  <2>3. \A p \in DOMAIN d.steps : IdOf(d.steps[p]) \in Steps
    BY DEF Ids, ToSet
  <2>4. \A i \in Steps : \E p \in DOMAIN d.steps : i = IdOf(d.steps[p])
    BY DEF Ids, ToSet
  <2>5. IsFiniteSet(Steps)
    <3>1. Declarations(d.steps)
      BY <1>1, NumberedKinds DEF Declarations
    <3>2. QED
      BY <3>1, CountedIds
  <2> HIDE DEF Steps
  <2>6. StepOrder \in Seq(Steps) /\ Len(StepOrder) = Len(d.steps)
    BY <2>2, <2>3
  <2>7. ToSet(StepOrder) = Steps
    BY <2>2, <2>3, <2>4 DEF ToSet
  <2>8. QED
    BY <2>1, <2>5, <2>6, <2>7
<1>9. /\ d.transitions \in Seq(Transitions) /\ IsFiniteSet(Transitions)
      /\ Len(d.transitions) = Cardinality(Transitions)
  <2> DEFINE n == Len(d.transitions)
             f == d.transitions
  <2>1. n \in Nat /\ DOMAIN f = 1..n /\ f = [p \in 1..n |-> f[p]]
    BY <1>1
  <2>2. /\ \A p \in 1..n : f[p] \in Transitions
        /\ \A t \in Transitions : \E p \in 1..n : f[p] = t
    BY <2>1 DEF ToSet
  <2>3. \A p, q \in 1..n : f[p] = f[q] => p = q
    BY <1>2, <2>1 DEF Keyed
  <2>4. f \in Surjection(1..n, Transitions) /\ f \in Injection(1..n, Transitions)
    BY <2>1, <2>2, <2>3 DEF Surjection, Injection, IsInjective
  <2> HIDE DEF n, f, Transitions
  <2>5. IsFiniteSet(1..n) /\ Cardinality(1..n) = n
    <3>1. n \in Int /\ 1 \in Int /\ n >= 0
      BY <2>1
    <3>2. QED
      BY <3>1, FS_Interval
  <2>6. IsFiniteSet(Transitions) /\ Cardinality(Transitions) = n
    BY <2>4, <2>5, FS_Surjection
  <2>7. f \in Seq(Transitions)
    BY <2>1, <2>2
  <2>8. QED
    BY <2>6, <2>7 DEF f, n
<1>10. QED
  BY <1>2, <1>3, <1>4, <1>5, <1>6, <1>7, <1>8, <1>9 DEF SessionAssumptions

\* Every definition a session can be started from.
StoredCanBeRun == \A d \in Known \ {NoDefinition} : SessionAssumptions(d)

(***************************************************************************)
(* What is proved of sessions and of their drivers for every definition    *)
(* that meets its assumptions is proved of every definition that the two   *)
(* stores ever hold (CeremonyDefinition::new is the only way into them).   *)
(***************************************************************************)
THEOREM StoredDefinitionsCanBeRun == Spec => []StoredCanBeRun
<1>1. CatalogueInv => StoredCanBeRun
  <2> SUFFICES ASSUME CatalogueInv, NEW d \in Known \ {NoDefinition}
               PROVE  SessionAssumptions(d)
    BY DEF StoredCanBeRun
  <2>1. d \in Accepted
    BY DEF Known, CatalogueInv, SlotsHold
  <2>2. QED
    BY <2>1, AcceptedTyped, AcceptedCanBeRun
<1>2. QED
  BY <1>1, CatalogueInvariant, PTL
=============================================================================
