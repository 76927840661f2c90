--------------------------- MODULE SequenceLemmas ---------------------------
(***************************************************************************)
(* Facts that the proofs of several components need: what the elements of  *)
(* a sequence are after the operations on it, that functions defined by    *)
(* recursion and loops exist, and induction on them.                       *)
(***************************************************************************)
EXTENDS SequencesExt, TLAPS, SequenceTheorems, FiniteSetTheorems, WellFoundedInduction

\* The empty sequence has no elements, and others have those of their range.
LEMMA ToSetEmpty == ToSet(<<>>) = {}
BY DEF ToSet

\* The elements of a sequence are of its type.
LEMMA ToSetType ==
    ASSUME NEW S, NEW s \in Seq(S)
    PROVE  ToSet(s) \subseteq S
BY LenProperties, ElementOfSeq DEF ToSet

\* An element is added at the end.
LEMMA ToSetAppend ==
    ASSUME NEW S, NEW s \in Seq(S), NEW x \in S
    PROVE  ToSet(Append(s, x)) = ToSet(s) \cup {x}
<1>1. /\ DOMAIN s = 1 .. Len(s) /\ Len(s) \in Nat
      /\ DOMAIN Append(s, x) = 1 .. Len(s) + 1
      /\ \A i \in 1 .. Len(s) : Append(s, x)[i] = s[i]
      /\ Append(s, x)[Len(s) + 1] = x
    BY LenProperties, AppendProperties
<1>2. 1 .. Len(s) + 1 = (1 .. Len(s)) \cup {Len(s) + 1}
    BY <1>1
<1> QED
    BY <1>1, <1>2 DEF ToSet

\* Two sequences one after the other have the elements of both.
LEMMA ToSetConcat ==
    ASSUME NEW S, NEW s \in Seq(S), NEW t \in Seq(S)
    PROVE  ToSet(s \o t) = ToSet(s) \cup ToSet(t)
<1> DEFINE st == s \o t
<1>1. /\ DOMAIN s = 1 .. Len(s) /\ Len(s) \in Nat
      /\ DOMAIN t = 1 .. Len(t) /\ Len(t) \in Nat
      /\ DOMAIN st = 1 .. Len(s) + Len(t)
      /\ \A i \in 1 .. Len(s) + Len(t) : st[i] = IF i <= Len(s) THEN s[i] ELSE t[i - Len(s)]
    BY LenProperties, ConcatProperties
<1> HIDE DEF st
<1>2. ToSet(st) \subseteq ToSet(s) \cup ToSet(t)
    BY <1>1 DEF ToSet
<1>3. ASSUME NEW i \in 1 .. Len(s)
      PROVE  s[i] \in ToSet(st)
    BY <1>1 DEF ToSet
<1>4. ASSUME NEW i \in 1 .. Len(t)
      PROVE  t[i] \in ToSet(st)
    <2>1. i + Len(s) \in 1 .. Len(s) + Len(t) /\ ~ (i + Len(s) <= Len(s)) /\ (i + Len(s)) - Len(s) = i
        BY <1>1
    <2>2. st[i + Len(s)] = t[i]
        BY <1>1, <2>1
    <2> QED
        BY <1>1, <2>1, <2>2 DEF ToSet
<1>5. ToSet(s) \subseteq ToSet(st) /\ ToSet(t) \subseteq ToSet(st)
    BY <1>1, <1>3, <1>4 DEF ToSet
<1> QED
    BY <1>2, <1>5 DEF st

\* A sequence that is not empty has those of its tail, and its head.
LEMMA ToSetHeadTail ==
    ASSUME NEW S, NEW s \in Seq(S), s # <<>>
    PROVE  /\ ToSet(s) = {Head(s)} \cup ToSet(Tail(s))
           /\ Head(s) \in S /\ Tail(s) \in Seq(S)
<1>1. /\ DOMAIN s = 1 .. Len(s) /\ Len(s) \in Nat \ {0} /\ Head(s) = s[1]
      /\ Tail(s) \in Seq(S) /\ Head(s) \in S
      /\ DOMAIN Tail(s) = 1 .. Len(s) - 1
      /\ \A i \in 1 .. Len(s) - 1 : Tail(s)[i] = s[i + 1]
    BY LenProperties, EmptySeq, HeadTailProperties
<1> DEFINE t == Tail(s)
           h == Head(s)
<1> HIDE DEF t, h
<1>2. ToSet(s) \subseteq {h} \cup ToSet(t)
    <2> SUFFICES ASSUME NEW i \in 1 .. Len(s) PROVE s[i] \in {h} \cup ToSet(t)
        BY <1>1 DEF ToSet
    <2>1. CASE i = 1
        BY <2>1, <1>1 DEF h
    <2>2. CASE i # 1
        <3>1. i - 1 \in 1 .. Len(s) - 1 /\ t[i - 1] = s[(i - 1) + 1] /\ (i - 1) + 1 = i
            BY <2>2, <1>1 DEF t
        <3> QED
            BY <3>1, <1>1 DEF ToSet, t
    <2> QED
        BY <2>1, <2>2
<1>3. {h} \cup ToSet(t) \subseteq ToSet(s)
    BY <1>1 DEF ToSet, t, h
<1> QED
    BY <1>1, <1>2, <1>3 DEF t, h

\* A finite set as a sequence has the elements of the set.
LEMMA SetToSeqElements ==
    ASSUME NEW S, IsFiniteSet(S)
    PROVE  SetToSeq(S) \in Seq(S) /\ ToSet(SetToSeq(S)) = S
<1> DEFINE n == Cardinality(S)
           f == SetToSeq(S)
<1>1. n \in Nat /\ ExistsBijection(1 .. n, S)
    BY FS_CardinalityType
<1>2. \E g \in [1 .. n -> S] : IsInjective(g)
    BY <1>1 DEF ExistsBijection, Bijection, Injection
<1>3. f \in [1 .. n -> S] /\ IsInjective(f)
    BY <1>2 DEF SetToSeq
<1>4. f \in Injection(1 .. n, S)
    BY <1>3 DEF Injection
<1>5. IsFiniteSet(1 .. n) /\ Cardinality(1 .. n) = n
    BY <1>1, FS_Interval
<1> HIDE DEF f
<1>6. f \in Surjection(1 .. n, S)
    BY <1>4, <1>5, FS_Injection
<1>7. \A x \in S : \E i \in 1 .. n : f[i] = x
    BY <1>6 DEF Surjection
<1>8. f \in Seq(S) /\ DOMAIN f = 1 .. n
    <2>1. f = [i \in 1 .. n |-> f[i]] /\ \A i \in 1 .. n : f[i] \in S
        BY <1>3
    <2> QED
        BY <1>1, <1>3, <2>1, IsASeq
<1> QED
    BY <1>3, <1>7, <1>8 DEF ToSet, f

(***************************************************************************)
(* Recursion and induction.                                                *)
(***************************************************************************)
\* A set of numbers has a least one.
LEMMA LeastNumber ==
    ASSUME NEW T \in SUBSET Nat, T # {}
    PROVE  \E n \in T : \A m \in T : n <= m
<1>1. PICK n \in T : \A m \in T : ~ (<<m, n>> \in OpToRel(<, Nat))
    BY NatLessThanWellFounded, WFMin, Zenon
<1>2. \A m \in T : ~ (m < n)
    BY <1>1 DEF OpToRel
<1> QED
    BY <1>2

\* A function on D is defined value by value: what G[x] makes of it depends
\* only on its values at places of less height than x.
Descending(D, V, h, G) ==
    /\ G \in [D -> [[D -> V] -> V]]
    /\ \A f, g \in [D -> V] : \A x \in D :
            (\A y \in D : h[y] < h[x] => f[y] = g[y]) => G[x][f] = G[x][g]
Solvable(D, V, G) == \E f \in [D -> V] : \A x \in D : f[x] = G[x][f]

\* Such a function exists.
LEMMA RecursiveFunction ==
    \A D, V, h, G : (D # {} => V # {}) /\ h \in [D -> Nat] /\ Descending(D, V, h, G) => Solvable(D, V, G)
<1> SUFFICES ASSUME NEW D, NEW V, NEW h \in [D -> Nat], NEW G, D # {} => V # {}, Descending(D, V, h, G)
             PROVE  Solvable(D, V, G)
    OBVIOUS
<1>0. /\ G \in [D -> [[D -> V] -> V]]
      /\ \A f, g \in [D -> V] : \A x \in D :
            (\A y \in D : h[y] < h[x] => f[y] = g[y]) => G[x][f] = G[x][g]
    BY DEF Descending
<1> DEFINE Good(f, n) == \A x \in D : h[x] < n => f[x] = G[x][f]
<1>1. ASSUME NEW f \in [D -> V], NEW g \in [D -> V], NEW n \in Nat, Good(f, n), Good(g, n),
             NEW z \in D, h[z] < n
      PROVE  f[z] = g[z]
    <2> DEFINE T == {h[x] : x \in {y \in D : h[y] < n /\ f[y] # g[y]}}
    <2> SUFFICES ASSUME f[z] # g[z] PROVE FALSE
        OBVIOUS
    <2>1. T \in SUBSET Nat /\ T # {}
        <3>1. T \subseteq Nat
            OBVIOUS
        <3>2. h[z] \in T
            BY <1>1
        <3> QED
            BY <3>1, <3>2
    <2>2. PICK k \in T : \A m \in T : k <= m
        BY <2>1, LeastNumber, Zenon
    <2>3. PICK x \in D : h[x] = k /\ h[x] < n /\ f[x] # g[x]
        OBVIOUS
    <2>4. ASSUME NEW y \in D, h[y] < h[x] PROVE f[y] = g[y]
        <3>1. h[y] \in Nat /\ h[x] \in Nat /\ h[y] < n /\ ~ (k <= h[y])
            BY <2>3, <2>4
        <3> QED
            BY <2>2, <3>1
    <2>5. G[x][f] = G[x][g]
        BY <1>0, <2>4
    <2> QED
        BY <1>1, <2>3, <2>5
<1>2. ASSUME NEW n \in Nat PROVE \E f \in [D -> V] : Good(f, n)
    <2> DEFINE T == {m \in Nat : ~ \E f \in [D -> V] : Good(f, m)}
    <2> SUFFICES ASSUME T # {} PROVE FALSE
        OBVIOUS
    <2>1. PICK k \in T : \A m \in T : k <= m
        BY LeastNumber, Zenon
    <2>2. CASE k = 0
        <3>1. \E f \in [D -> V] : TRUE
            <4>1. CASE D = {}
                <5>1. [x \in D |-> x] \in [D -> V]
                    BY <4>1
                <5> QED
                    BY <5>1
            <4>2. CASE D # {}
                <5>1. PICK v \in V : TRUE
                    BY <4>2
                <5>2. [x \in D |-> v] \in [D -> V]
                    OBVIOUS
                <5> QED
                    BY <5>2
            <4> QED
                BY <4>1, <4>2
        <3>2. \A x \in D : ~ (h[x] < k)
            BY <2>2
        <3> QED
            BY <3>1, <3>2
    <2>3. CASE k # 0
        <3> DEFINE m == k - 1
        <3>1. m \in Nat /\ ~ (k <= m) /\ \A i \in Nat : i < k <=> i <= m
            BY <2>3
        <3>2. PICK f \in [D -> V] : Good(f, m)
            BY <2>1, <3>1
        <3> DEFINE g == [x \in D |-> G[x][f]]
        <3>3. g \in [D -> V]
            BY <1>0
        <3>4. ASSUME NEW x \in D, h[x] < k PROVE g[x] = G[x][g]
            <4>1. ASSUME NEW y \in D, h[y] < h[x] PROVE f[y] = g[y]
                <5>1. h[y] \in Nat /\ h[x] \in Nat /\ h[y] < m
                    BY <3>1, <3>4, <4>1
                <5> QED
                    BY <3>2, <5>1
            <4> HIDE DEF g
            <4>2. G[x][f] = G[x][g]
                BY <1>0, <3>3, <4>1
            <4> QED
                BY <4>2 DEF g
        <3> HIDE DEF g
        <3> QED
            BY <3>3, <3>4
    <2> QED
        BY <2>2, <2>3
<1> DEFINE C == [x \in D |-> CHOOSE f \in [D -> V] : Good(f, h[x] + 1)]
           r == [x \in D |-> C[x][x]]
<1>3. ASSUME NEW x \in D PROVE C[x] \in [D -> V] /\ Good(C[x], h[x] + 1)
    <2>1. h[x] + 1 \in Nat
        OBVIOUS
    <2>2. \E f \in [D -> V] : Good(f, h[x] + 1)
        BY <1>2, <2>1
    <2> HIDE DEF Good
    <2> QED
        BY <2>2
<1> HIDE DEF C
<1>4. r \in [D -> V] /\ \A x \in D : r[x] = C[x][x]
    <2>1. \A x \in D : C[x][x] \in V
        BY <1>3
    <2> QED
        BY <2>1
<1> HIDE DEF r
<1>5. ASSUME NEW x \in D PROVE r[x] = G[x][r]
    <2>1. ASSUME NEW y \in D, h[y] < h[x] PROVE r[y] = C[x][y]
        <3>1. h[y] + 1 \in Nat /\ h[x] + 1 \in Nat /\ h[y] < h[y] + 1 /\ h[y] + 1 <= h[x] + 1
            BY <2>1
        <3>2. Good(C[y], h[y] + 1) /\ C[y] \in [D -> V] /\ C[x] \in [D -> V]
            BY <1>3
        <3>3. Good(C[x], h[y] + 1)
            <4>1. Good(C[x], h[x] + 1)
                BY <1>3
            <4>2. ASSUME NEW z \in D, h[z] < h[y] + 1 PROVE h[z] < h[x] + 1
                BY <3>1, <4>2
            <4> QED
                BY <4>1, <4>2
        <3> HIDE DEF Good
        <3>4. C[y][y] = C[x][y]
            BY <1>1, <3>1, <3>2, <3>3
        <3> QED
            BY <1>4, <3>4
    <2>2. C[x] \in [D -> V] /\ G[x][r] = G[x][C[x]]
        BY <1>0, <1>3, <1>4, <2>1
    <2>3. C[x][x] = G[x][C[x]]
        <3>1. h[x] \in Nat /\ h[x] < h[x] + 1
            OBVIOUS
        <3> QED
            BY <1>3, <3>1
    <2> QED
        BY <1>4, <2>2, <2>3
<1> QED
    BY <1>4, <1>5 DEF Solvable

\* Induction over the height, and over an interval of numbers: T has what
\* was shown.
LEMMA HeightInduction ==
    ASSUME NEW D, NEW h \in [D -> Nat], NEW T,
           \A x \in D : (\A y \in D : h[y] < h[x] => y \in T) => x \in T
    PROVE  D \subseteq T
<1> SUFFICES ASSUME NEW z \in D, z \notin T PROVE FALSE
    OBVIOUS
<1> DEFINE H == {h[x] : x \in D \ T}
<1>1. H \subseteq Nat
    OBVIOUS
<1>2. h[z] \in H
    OBVIOUS
<1>3. PICK k \in H : \A m \in H : k <= m
    BY <1>1, <1>2, LeastNumber, Zenon
<1>4. PICK x \in D \ T : h[x] = k
    OBVIOUS
<1>5. ASSUME NEW y \in D, h[y] < h[x] PROVE y \in T
    <2>1. h[y] \in Nat /\ h[x] \in Nat /\ ~ (k <= h[y])
        BY <1>4, <1>5
    <2> QED
        BY <1>3, <2>1
<1> QED
    BY <1>4, <1>5

\* The same, counting from 0 to n.
LEMMA CountingUp ==
    ASSUME NEW n \in Nat, NEW T, 0 \in T, \A i \in 1 .. n : i - 1 \in T => i \in T
    PROVE  0 .. n \subseteq T
<1> DEFINE D == 0 .. n
           h == [i \in D |-> i]
<1>1. h \in [D -> Nat]
    OBVIOUS
<1>2. ASSUME NEW i \in D, \A j \in D : h[j] < h[i] => j \in T
      PROVE  i \in T
    <2>1. CASE i = 0
        BY <2>1
    <2>2. CASE i # 0
        <3>1. i \in 1 .. n /\ i - 1 \in D /\ h[i - 1] < h[i]
            BY <2>2
        <3> QED
            BY <1>2, <3>1
    <2> QED
        BY <2>1, <2>2
<1> HIDE DEF D, h
<1>3. D \subseteq T
    BY <1>1, <1>2, HeightInduction
<1> QED
    BY <1>3 DEF D

\* A loop of n rounds that starts with a and goes on as step says.
Loops(V, a, n, step) ==
    \E f \in [0 .. n -> V] : \A i \in 0 .. n : f[i] = IF i = 0 THEN a ELSE step[i][f[i - 1]]

\* Every such loop can be run.
LEMMA Iteration ==
    \A V, a, n, step :
        a \in V /\ n \in Nat /\ step \in [1 .. n -> [V -> V]] => Loops(V, a, n, step)
<1> SUFFICES ASSUME NEW V, NEW a \in V, NEW n \in Nat, NEW step \in [1 .. n -> [V -> V]]
             PROVE  Loops(V, a, n, step)
    OBVIOUS
<1> DEFINE D == 0 .. n
           at(f, i) == IF i = 0 THEN a ELSE step[i][f[i - 1]]
           G == [i \in D |-> [f \in [D -> V] |-> at(f, i)]]
           h == [i \in D |-> i]
<1>1. ASSUME NEW f \in [D -> V], NEW i \in D PROVE at(f, i) \in V
    <2>1. CASE i = 0
        BY <2>1
    <2>2. CASE i # 0
        <3>1. i - 1 \in D /\ i \in 1 .. n
            BY <2>2
        <3>2. f[i - 1] \in V /\ step[i] \in [V -> V]
            BY <3>1
        <3> QED
            BY <2>2, <3>2
    <2> QED
        BY <2>1, <2>2
<1>2. ASSUME NEW f \in [D -> V], NEW g \in [D -> V], NEW i \in D,
             \A j \in D : h[j] < h[i] => f[j] = g[j]
      PROVE  at(f, i) = at(g, i)
    <2>1. CASE i # 0
        <3>1. i - 1 \in D /\ h[i - 1] < h[i]
            BY <2>1
        <3> QED
            BY <1>2, <3>1
    <2> QED
        BY <2>1
<1>3. V # {} /\ h \in [D -> Nat]
    OBVIOUS
<1> HIDE DEF at, h, D
<1>4. G \in [D -> [[D -> V] -> V]] /\ \A f \in [D -> V], i \in D : G[i][f] = at(f, i)
    BY <1>1
<1> HIDE DEF G
<1>5. Descending(D, V, h, G)
    <2>1. ASSUME NEW f \in [D -> V], NEW g \in [D -> V], NEW i \in D,
                 \A j \in D : h[j] < h[i] => f[j] = g[j]
          PROVE  G[i][f] = G[i][g]
        <3>1. at(f, i) = at(g, i)
            BY <1>2, <2>1
        <3> QED
            BY <1>4, <3>1
    <2> QED
        BY <1>4, <2>1 DEF Descending
<1>6. Solvable(D, V, G)
    BY <1>3, <1>5, RecursiveFunction
<1>7. PICK f \in [D -> V] : \A i \in D : f[i] = G[i][f]
    BY <1>6 DEF Solvable
<1>8. \A i \in D : f[i] = at(f, i)
    BY <1>4, <1>7
<1> QED
    BY <1>8 DEF D, at, Loops

(***************************************************************************)
(* FlattenSeq.                                                             *)
(***************************************************************************)
\* Its loop.
LEMMA FlattenLoop ==
    ASSUME NEW S, NEW ss \in Seq(Seq(S)), ss # <<>>
    PROVE  \E f : /\ FlattenSeq(ss) = f[Len(ss)]
                  /\ f[1] = ss[1]
                  /\ \A i \in 2 .. Len(ss) : f[i] = f[i - 1] \o ss[i]
<1> DEFINE n == Len(ss)
           D == 1 .. n
           V == Seq(S)
           at(f, i) == IF i = 1 THEN ss[i] ELSE f[i - 1] \o ss[i]
           G == [i \in D |-> [f \in [D -> V] |-> at(f, i)]]
           h == [i \in D |-> i]
           r == CHOOSE f : f = [i \in D |-> at(f, i)]
<1>0. n \in Nat /\ n # 0 /\ \A i \in D : ss[i] \in Seq(S)
    BY EmptySeq, LenProperties, ElementOfSeq
<1>1. ASSUME NEW f \in [D -> V], NEW i \in D PROVE at(f, i) \in V
    <2>1. CASE i = 1
        BY <2>1, <1>0
    <2>2. CASE i # 1
        <3>1. i - 1 \in D
            BY <2>2, <1>0
        <3>2. f[i - 1] \in Seq(S)
            BY <3>1
        <3> QED
            BY <2>2, <3>2, <1>0, ConcatProperties
    <2> QED
        BY <2>1, <2>2
<1>2. ASSUME NEW f \in [D -> V], NEW g \in [D -> V], NEW i \in D,
             \A j \in D : h[j] < h[i] => f[j] = g[j]
      PROVE  at(f, i) = at(g, i)
    <2>1. CASE i # 1
        <3>1. i - 1 \in D /\ h[i - 1] < h[i]
            BY <2>1, <1>0
        <3> QED
            BY <1>2, <3>1
    <2> QED
        BY <2>1
<1>3. V # {} /\ h \in [D -> Nat]
    BY EmptySeq, <1>0
<1>4. FlattenSeq(ss) = r[n]
    BY <1>0 DEF FlattenSeq
<1> HIDE DEF at, h, D, V, n
<1>5. G \in [D -> [[D -> V] -> V]] /\ \A f \in [D -> V], i \in D : G[i][f] = at(f, i)
    BY <1>1
<1> HIDE DEF G
<1>6. Descending(D, V, h, G)
    <2>1. ASSUME NEW f \in [D -> V], NEW g \in [D -> V], NEW i \in D,
                 \A j \in D : h[j] < h[i] => f[j] = g[j]
          PROVE  G[i][f] = G[i][g]
        <3>1. at(f, i) = at(g, i)
            BY <1>2, <2>1
        <3> QED
            BY <1>5, <3>1
    <2> QED
        BY <1>5, <2>1 DEF Descending
<1>7. Solvable(D, V, G)
    BY <1>3, <1>6, RecursiveFunction
<1>8. \E f : f = [i \in D |-> at(f, i)]
    <2>1. PICK f \in [D -> V] : \A i \in D : f[i] = G[i][f]
        BY <1>7 DEF Solvable
    <2> QED
        BY <1>5, <2>1
<1>9. r = [i \in D |-> at(r, i)]
    BY <1>8
<1> HIDE DEF r
<1>10. \A i \in D : r[i] = at(r, i)
    BY <1>9
<1>11. 1 \in D /\ \A i \in 2 .. n : i \in D /\ i # 1
    BY <1>0 DEF D
<1> QED
    BY <1>4, <1>10, <1>11 DEF at, n

\* It has the elements of all sequences; if they share none and none has one
\* twice, it has none twice.
LEMMA FlattenElements ==
    ASSUME NEW S, NEW ss \in Seq(Seq(S))
    PROVE  /\ FlattenSeq(ss) \in Seq(S)
           /\ ToSet(FlattenSeq(ss)) = UNION {ToSet(ss[i]) : i \in DOMAIN ss}
           /\ (/\ \A i \in DOMAIN ss : IsInjective(ss[i])
               /\ \A i, j \in DOMAIN ss : i # j => ToSet(ss[i]) \cap ToSet(ss[j]) = {})
              => IsInjective(FlattenSeq(ss))
<1> DEFINE n == Len(ss)
           apart == /\ \A i \in DOMAIN ss : IsInjective(ss[i])
                    /\ \A i, j \in DOMAIN ss : i # j => ToSet(ss[i]) \cap ToSet(ss[j]) = {}
<1>0. n \in Nat /\ DOMAIN ss = 1 .. n /\ \A i \in 1 .. n : ss[i] \in Seq(S)
    BY LenProperties, ElementOfSeq
<1>1. CASE ss = <<>>
    <2>1. FlattenSeq(ss) = <<>> /\ DOMAIN ss = {}
        BY <1>1, EmptySeq DEF FlattenSeq
    <2> QED
        BY <1>1, <2>1, EmptySeq, ToSetEmpty DEF IsInjective
<1>2. CASE ss # <<>>
    <2>1. PICK f : /\ FlattenSeq(ss) = f[n] /\ f[1] = ss[1]
                   /\ \A i \in 2 .. n : f[i] = f[i - 1] \o ss[i]
        BY <1>2, FlattenLoop
    <2>2. n # 0
        BY <1>2, EmptySeq
    <2> DEFINE Right(m) == /\ f[m] \in Seq(S)
                           /\ ToSet(f[m]) = UNION {ToSet(ss[i]) : i \in 1 .. m}
                           /\ apart => IsInjective(f[m])
               T == {0} \cup {m \in 1 .. n : Right(m)}
    <2>3. ASSUME NEW m \in 1 .. n, m - 1 \in T PROVE m \in T
        <3>1. CASE m = 1
            <4>1. f[1] = ss[1] /\ ss[1] \in Seq(S) /\ 1 \in DOMAIN ss /\ 1 .. 1 = {1}
                BY <1>0, <2>1, <2>2
            <4>2. apart => IsInjective(f[1])
                BY <4>1
            <4>3. ToSet(f[1]) = UNION {ToSet(ss[i]) : i \in 1 .. 1}
                BY <4>1
            <4> QED
                BY <3>1, <4>1, <4>2, <4>3
        <3>2. CASE m # 1
            <4>1. m - 1 \in 1 .. n /\ m \in 2 .. n /\ Right(m - 1)
                BY <2>3, <3>2
            <4> DEFINE a == f[m - 1]
                       b == ss[m]
            <4>2. a \in Seq(S) /\ b \in Seq(S) /\ f[m] = a \o b
                BY <1>0, <2>1, <4>1
            <4>3. /\ f[m] \in Seq(S)
                  /\ ToSet(f[m]) = ToSet(a) \cup ToSet(b)
                <5> HIDE DEF a, b
                <5> QED
                    BY <4>2, ToSetConcat, ConcatProperties
            <4>4. 1 .. m = (1 .. m - 1) \cup {m}
                BY <4>1
            <4>5. ToSet(f[m]) = UNION {ToSet(ss[i]) : i \in 1 .. m}
                BY <4>1, <4>3, <4>4
            <4>6. ASSUME apart PROVE IsInjective(f[m])
                <5>1. IsInjective(a) /\ IsInjective(b) /\ ToSet(a) \cap ToSet(b) = {}
                    <6>1. \A i \in 1 .. m - 1 : ToSet(ss[i]) \cap ToSet(ss[m]) = {}
                        <7>1. \A i \in 1 .. m - 1 : i \in DOMAIN ss /\ i # m
                            BY <1>0, <4>1
                        <7> QED
                            BY <1>0, <4>6, <7>1
                    <6> QED
                        BY <1>0, <4>1, <4>6, <6>1
                <5> HIDE DEF a, b
                <5>2. /\ DOMAIN a = 1 .. Len(a) /\ DOMAIN b = 1 .. Len(b)
                      /\ Len(a) \in Nat /\ Len(b) \in Nat
                      /\ DOMAIN f[m] = 1 .. Len(a) + Len(b)
                      /\ \A i \in 1 .. Len(a) + Len(b) :
                            f[m][i] = IF i <= Len(a) THEN a[i] ELSE b[i - Len(a)]
                    BY <4>2, LenProperties, ConcatProperties
                <5>3. \A i \in 1 .. Len(a), j \in 1 .. Len(b) : a[i] # b[j]
                    BY <5>1, <5>2 DEF ToSet
                <5>4. ASSUME NEW i \in DOMAIN f[m], NEW j \in DOMAIN f[m], f[m][i] = f[m][j]
                      PROVE  i = j
                    <6>1. CASE i <= Len(a) /\ j <= Len(a)
                        <7>1. i \in DOMAIN a /\ j \in DOMAIN a /\ a[i] = a[j]
                            BY <5>2, <5>4, <6>1
                        <7> QED
                            BY <5>1, <7>1 DEF IsInjective
                    <6>2. CASE ~ (i <= Len(a)) /\ ~ (j <= Len(a))
                        <7>0. /\ i \in 1 .. Len(a) + Len(b) /\ j \in 1 .. Len(a) + Len(b)
                              /\ f[m][i] = b[i - Len(a)] /\ f[m][j] = b[j - Len(a)]
                            BY <5>2, <6>2
                        <7>3. i - Len(a) \in 1 .. Len(b) /\ j - Len(a) \in 1 .. Len(b)
                            BY <5>2, <6>2, <7>0
                        <7>1. i - Len(a) \in DOMAIN b /\ j - Len(a) \in DOMAIN b
                              /\ b[i - Len(a)] = b[j - Len(a)]
                            BY <5>2, <5>4, <7>0, <7>3
                        <7>2. i - Len(a) = j - Len(a)
                            BY <5>1, <7>1 DEF IsInjective
                        <7> QED
                            BY <5>2, <7>2
                    <6>3. CASE i <= Len(a) /\ ~ (j <= Len(a))
                        <7>1. i \in 1 .. Len(a) /\ j - Len(a) \in 1 .. Len(b)
                              /\ a[i] = b[j - Len(a)]
                            BY <5>2, <5>4, <6>3
                        <7> QED
                            BY <5>3, <7>1
                    <6>4. CASE ~ (i <= Len(a)) /\ j <= Len(a)
                        <7>1. j \in 1 .. Len(a) /\ i - Len(a) \in 1 .. Len(b)
                              /\ a[j] = b[i - Len(a)]
                            BY <5>2, <5>4, <6>4
                        <7> QED
                            BY <5>3, <7>1
                    <6> QED
                        BY <6>1, <6>2, <6>3, <6>4
                <5> QED
                    BY <5>4 DEF IsInjective
            <4> HIDE DEF a, b, apart
            <4> QED
                BY <4>3, <4>5, <4>6
        <3> QED
            BY <3>1, <3>2
    <2>4. 0 .. n \subseteq T
        <3> HIDE DEF T
        <3>1. 0 \in T
            BY DEF T
        <3> QED
            BY <1>0, <2>3, <3>1, CountingUp
    <2>5. Right(n)
        <3>1. n \in 0 .. n
            BY <1>0
        <3> QED
            BY <2>2, <2>4, <3>1
    <2> QED
        BY <1>0, <2>1, <2>5
<1> QED
    BY <1>1, <1>2
=============================================================================
