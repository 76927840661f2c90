----------------------------- MODULE RuleProofs -----------------------------
(***************************************************************************)
(* Proofs about the rules of a processor: the tree decides like the        *)
(* filters its rules were given, and the loop over it applies the rules    *)
(* that match once, as RuleLoop promises.                                  *)
(***************************************************************************)
EXTENDS RuleProcessor, SequenceLemmas

(***************************************************************************)
(* Expressions.                                                            *)
(***************************************************************************)
\* The parts of a compound: at least one, and lower than it.
Parted(es, h) ==
    /\ es \in Seq(Expressions) /\ DOMAIN es # {}
    /\ \A i \in DOMAIN es : es[i] \in Expressions /\ Height[es[i]] < h

\* Every expression is of one of the kinds there are, and its parts are lower.
LEMMA Shape ==
    ASSUME NEW e \in Expressions
    PROVE  /\ Height[e] \in Nat
           /\ e.op \in {"always", "exists", "string", "not", "and", "or"}
           /\ KeyBased(e) => e.key \in Keys /\ Leaf("exists", e.key) \in Expressions
           /\ e.op = "not" => e.child \in Expressions /\ Height[e.child] < Height[e]
           /\ IsCompound(e) => Parted(e.children, Height[e])
           /\ IsCompound(Pushed(e)) => Parted(Pushed(e).children, Height[e])
           /\ IsCompound(e) => Pushed(e) = e
<1>1. Closed(e) /\ Height[e] \in Nat
    BY RuleTreeAssumption
<1>2. ASSUME IsCompound(e) PROVE Pushed(e) = e
    BY <1>2 DEF Pushed, IsCompound
<1>3. ASSUME IsCompound(Pushed(e)) PROVE Parted(Pushed(e).children, Height[e])
    <2> DEFINE es == Pushed(e).children
    <2>1. /\ es \in Seq(Expressions) /\ es # <<>>
          /\ \A i \in DOMAIN es : Height[es[i]] < Height[e]
        BY <1>1, <1>3 DEF Closed
    <2> HIDE DEF es
    <2>2. DOMAIN es = 1 .. Len(es) /\ Len(es) \in Nat /\ Len(es) # 0
        BY <2>1, LenProperties, EmptySeq
    <2>3. \A i \in DOMAIN es : es[i] \in Expressions
        BY <2>1, <2>2, ElementOfSeq
    <2>4. DOMAIN es # {}
        BY <2>2
    <2> QED
        BY <2>1, <2>3, <2>4 DEF Parted, es
<1> QED
    BY <1>1, <1>2, <1>3 DEF Closed

\* The definition of the events an expression matches has a solution.
LEMMA MatchedByEquation ==
    /\ MatchedBy \in [Expressions -> SUBSET Events]
    /\ \A e \in Expressions : MatchedBy[e] =
        CASE e.op = "always" -> Events
          [] e.op = "exists" -> {v \in Events : v[e.key] # "absent"}
          [] e.op = "string" -> {v \in Events : v[e.key] = "wanted"}
          [] e.op = "not" -> Events \ MatchedBy[e.child]
          [] e.op = "and" -> {v \in Events : \A i \in DOMAIN e.children : v \in MatchedBy[e.children[i]]}
          [] OTHER -> {v \in Events : \E i \in DOMAIN e.children : v \in MatchedBy[e.children[i]]}
<1> DEFINE D == Expressions
           V == SUBSET Events
           at(f, e) ==
              CASE e.op = "always" -> Events
                [] e.op = "exists" -> {v \in Events : v[e.key] # "absent"}
                [] e.op = "string" -> {v \in Events : v[e.key] = "wanted"}
                [] e.op = "not" -> Events \ f[e.child]
                [] e.op = "and" -> {v \in Events : \A i \in DOMAIN e.children : v \in f[e.children[i]]}
                [] OTHER -> {v \in Events : \E i \in DOMAIN e.children : v \in f[e.children[i]]}
           G == [e \in D |-> [f \in [D -> V] |-> at(f, e)]]
           r == CHOOSE f : f = [e \in D |-> at(f, e)]
<1>1. ASSUME NEW f, NEW e \in D PROVE at(f, e) \in V
    BY Shape
<1>2. ASSUME NEW f \in [D -> V], NEW g \in [D -> V], NEW e \in D,
             \A y \in D : Height[y] < Height[e] => f[y] = g[y]
      PROVE  at(f, e) = at(g, e)
    <2>1. e.op = "not" => f[e.child] = g[e.child]
        BY <1>2, Shape
    <2>2. IsCompound(e) => \A i \in DOMAIN e.children : f[e.children[i]] = g[e.children[i]]
        BY <1>2, Shape DEF Parted
    <2> QED
        BY <2>1, <2>2, Shape DEF IsCompound
<1>3. \E f : f = [e \in D |-> at(f, e)]
    <2> HIDE DEF at
    <2>1. V # {} /\ Height \in [D -> Nat]
        BY RuleTreeAssumption
    <2> HIDE DEF D, V
    <2>2. /\ G \in [D -> [[D -> V] -> V]]
          /\ \A f \in [D -> V], e \in D : G[e][f] = at(f, e)
        BY <1>1
    <2> HIDE DEF G
    <2>5. ASSUME NEW f \in [D -> V], NEW g \in [D -> V], NEW e \in D,
                 \A y \in D : Height[y] < Height[e] => f[y] = g[y]
          PROVE  G[e][f] = G[e][g]
        <3>1. at(f, e) = at(g, e)
            BY <1>2, <2>5
        <3> QED
            BY <2>2, <3>1
    <2>3. Descending(D, V, Height, G)
        BY <2>2, <2>5 DEF Descending
    <2>4. Solvable(D, V, G)
        BY <2>1, <2>3, RecursiveFunction
    <2>6. PICK f \in [D -> V] : \A e \in D : f[e] = G[e][f]
        BY <2>4 DEF Solvable
    <2> QED
        BY <2>2, <2>6
<1>4. MatchedBy = r
    BY DEF MatchedBy
<1>5. r = [e \in D |-> at(r, e)]
    <2> HIDE DEF at
    <2> QED
        BY <1>3
<1>6. r \in [D -> V] /\ \A e \in D : r[e] = at(r, e)
    <2> HIDE DEF at, r
    <2> QED
        BY <1>1, <1>5
<1> QED
    BY <1>4, <1>6

(***************************************************************************)
(* Normal forms.                                                           *)
(***************************************************************************)
\* A sequence of segments holds when the members of one of them all do.
Holds(D, M) == \E s \in ToSet(D) : ToSet(s) \subseteq M

\* The segments of X are those of D, each followed by each of E.
IsProduct(X, D, E) == \A s : s \in ToSet(X) <=> \E d \in ToSet(D), e \in ToSet(E) : s = d \o e

\* Distribute pairs every segment of D with every one of E.
LEMMA DistributeElements ==
    ASSUME NEW S, NEW D \in Seq(Seq(S)), NEW E \in Seq(Seq(S))
    PROVE  Distribute(D, E) \in Seq(Seq(S)) /\ IsProduct(Distribute(D, E), D, E)
<1> DEFINE row(i) == [j \in DOMAIN E |-> D[i] \o E[j]]
           rows == [i \in DOMAIN D |-> row(i)]
<1>1. /\ DOMAIN D = 1 .. Len(D) /\ Len(D) \in Nat
      /\ DOMAIN E = 1 .. Len(E) /\ Len(E) \in Nat
      /\ \A i \in DOMAIN D : D[i] \in Seq(S)
      /\ \A j \in DOMAIN E : E[j] \in Seq(S)
    BY LenProperties, ElementOfSeq
<1>2. ASSUME NEW i \in DOMAIN D
      PROVE  /\ row(i) \in Seq(Seq(S))
             /\ ToSet(row(i)) = {D[i] \o E[j] : j \in DOMAIN E}
    <2>1. \A j \in DOMAIN E : row(i)[j] = D[i] \o E[j] /\ D[i] \o E[j] \in Seq(S)
        BY <1>1, ConcatProperties
    <2>2. DOMAIN row(i) = 1 .. Len(E) /\ row(i) = [j \in 1 .. Len(E) |-> row(i)[j]]
        BY <1>1
    <2>3. row(i) \in Seq(Seq(S))
        BY <1>1, <2>1, IsASeq
    <2> QED
        BY <2>1, <2>2, <2>3, <1>1 DEF ToSet
<1> HIDE DEF row
<1>3. rows \in Seq(Seq(Seq(S))) /\ DOMAIN rows = DOMAIN D /\ \A i \in DOMAIN D : rows[i] = row(i)
    BY <1>1, <1>2, IsASeq
<1> HIDE DEF rows
<1>4. /\ FlattenSeq(rows) \in Seq(Seq(S))
      /\ ToSet(FlattenSeq(rows)) = UNION {ToSet(rows[i]) : i \in DOMAIN rows}
    <2> DEFINE V == Seq(S)
    <2> HIDE DEF V
    <2>1. rows \in Seq(Seq(V))
        BY <1>3 DEF V
    <2>2. /\ FlattenSeq(rows) \in Seq(V)
          /\ ToSet(FlattenSeq(rows)) = UNION {ToSet(rows[i]) : i \in DOMAIN rows}
        BY <2>1, FlattenElements
    <2> QED
        BY <2>2 DEF V
<1>5. ASSUME NEW s
      PROVE  s \in ToSet(FlattenSeq(rows)) <=> \E i \in DOMAIN D, j \in DOMAIN E : s = D[i] \o E[j]
    <2>1. s \in ToSet(FlattenSeq(rows)) <=> \E i \in DOMAIN D : s \in ToSet(row(i))
        BY <1>3, <1>4
    <2>2. \A i \in DOMAIN D : s \in ToSet(row(i)) <=> \E j \in DOMAIN E : s = D[i] \o E[j]
        BY <1>2
    <2> QED
        BY <2>1, <2>2
<1>6. ASSUME NEW s
      PROVE  (\E i \in DOMAIN D, j \in DOMAIN E : s = D[i] \o E[j])
                <=> \E d \in ToSet(D), e \in ToSet(E) : s = d \o e
    BY DEF ToSet
<1>7. Distribute(D, E) = FlattenSeq(rows)
    BY DEF Distribute, rows, row
<1>8. IsProduct(FlattenSeq(rows), D, E)
    BY <1>5, <1>6 DEF IsProduct
<1> QED
    BY <1>4, <1>7, <1>8

\* It holds when both hold ...
LEMMA DistributeHolds ==
    ASSUME NEW S, NEW D \in Seq(Seq(S)), NEW E \in Seq(Seq(S)), NEW M
    PROVE  Holds(Distribute(D, E), M) <=> Holds(D, M) /\ Holds(E, M)
<1>1. /\ \A d \in ToSet(D) : d \in Seq(S)
      /\ \A e \in ToSet(E) : e \in Seq(S)
    BY ToSetType
<1>2. \A d \in ToSet(D), e \in ToSet(E) : ToSet(d \o e) = ToSet(d) \cup ToSet(e)
    BY <1>1, ToSetConcat
<1>3. Holds(Distribute(D, E), M) <=>
        \E d \in ToSet(D), e \in ToSet(E) : ToSet(d \o e) \subseteq M
    <2> DEFINE X == Distribute(D, E)
    <2>1. IsProduct(X, D, E)
        BY DistributeElements
    <2> HIDE DEF X
    <2>2. Holds(X, M) <=> \E d \in ToSet(D), e \in ToSet(E) : ToSet(d \o e) \subseteq M
        BY <2>1 DEF Holds, IsProduct
    <2> QED
        BY <2>2 DEF X
<1> QED
    BY <1>2, <1>3 DEF Holds

\* ... normal forms one after the other when one of them does ...
LEMMA FlattenHolds ==
    ASSUME NEW S, NEW Ds \in Seq(Seq(Seq(S))), NEW M
    PROVE  /\ FlattenSeq(Ds) \in Seq(Seq(S))
           /\ ToSet(FlattenSeq(Ds)) = UNION {ToSet(Ds[i]) : i \in DOMAIN Ds}
           /\ Holds(FlattenSeq(Ds), M) <=> \E i \in DOMAIN Ds : Holds(Ds[i], M)
<1> DEFINE V == Seq(S)
<1> HIDE DEF V
<1>1. Ds \in Seq(Seq(V))
    BY DEF V
<1>2. /\ FlattenSeq(Ds) \in Seq(V)
      /\ ToSet(FlattenSeq(Ds)) = UNION {ToSet(Ds[i]) : i \in DOMAIN Ds}
    BY <1>1, FlattenElements
<1> QED
    BY <1>2 DEF V, Holds

\* The members of a conjunction's segments are members of its parts' segments.
Members(D) == UNION {ToSet(s) : s \in ToSet(D)}

\* ... and their conjunction when all do.
LEMMA ConjunctionHolds ==
    ASSUME NEW S, NEW Ds \in Seq(Seq(Seq(S)))
    PROVE  /\ Conjunction(Ds) \in Seq(Seq(S))
           /\ Members(Conjunction(Ds)) \subseteq UNION {Members(Ds[i]) : i \in DOMAIN Ds}
           /\ \A M : Holds(Conjunction(Ds), M) <=> \A i \in DOMAIN Ds : Holds(Ds[i], M)
<1> DEFINE n == Len(Ds)
           V == Seq(Seq(S))
           a == <<<<>>>>
           step == [i \in 1 .. n |-> [D \in V |-> Distribute(D, Ds[i])]]
           at(f, i) == IF i = 0 THEN a ELSE Distribute(f[i - 1], Ds[i])
           r == CHOOSE f : f = [i \in 0 .. n |-> at(f, i)]
<1>1. n \in Nat /\ DOMAIN Ds = 1 .. n /\ \A i \in 1 .. n : Ds[i] \in V
    BY LenProperties, ElementOfSeq
<1>2. a \in V /\ ToSet(a) = {<<>>}
    <2>1. <<>> \in Seq(S)
        BY EmptySeq
    <2> QED
        BY <2>1 DEF ToSet
<1>3. Conjunction(Ds) = r[n]
    BY DEF Conjunction
<1>4. /\ step \in [1 .. n -> [V -> V]]
      /\ \A i \in 1 .. n, D \in V : step[i][D] = Distribute(D, Ds[i])
    BY <1>1, DistributeElements
<1> HIDE DEF step
<1>5. PICK f \in [0 .. n -> V] :
        \A i \in 0 .. n : f[i] = IF i = 0 THEN a ELSE step[i][f[i - 1]]
    <2> HIDE DEF a, V, n
    <2>1. Loops(V, a, n, step)
        BY <1>1, <1>2, <1>4, Iteration
    <2> QED
        BY <2>1 DEF Loops
<1>6. \A i \in 0 .. n : f[i] = at(f, i)
    <2> SUFFICES ASSUME NEW i \in 0 .. n, i # 0 PROVE f[i] = Distribute(f[i - 1], Ds[i])
        BY <1>5
    <2>1. i \in 1 .. n /\ i - 1 \in 0 .. n
        BY <1>1
    <2> QED
        BY <1>4, <1>5, <2>1
<1>7. f = [i \in 0 .. n |-> at(f, i)]
    <2> HIDE DEF at
    <2> QED
        BY <1>6, <1>5
<1>8. r = [i \in 0 .. n |-> at(r, i)]
    <2> HIDE DEF at
    <2> QED
        BY <1>7
<1> HIDE DEF r
<1>9. \A i \in 0 .. n : r[i] = at(r, i)
    <2> HIDE DEF at
    <2> QED
        BY <1>8
<1> DEFINE T == {i \in 0 .. n :
                    /\ r[i] \in V
                    /\ Members(r[i]) \subseteq UNION {Members(Ds[j]) : j \in 1 .. i}
                    /\ \A M : Holds(r[i], M) <=> \A j \in 1 .. i : Holds(Ds[j], M)}
<1>10. 0 \in T
    <2>1. r[0] = a /\ 1 .. 0 = {}
        BY <1>1, <1>9
    <2>2. Members(a) = {} /\ \A M : Holds(a, M)
        BY <1>2, ToSetEmpty DEF Members, Holds
    <2> HIDE DEF a, V
    <2> QED
        BY <1>1, <1>2, <2>1, <2>2
<1>11. ASSUME NEW i \in 1 .. n, i - 1 \in T PROVE i \in T
    <2>1. i \in 0 .. n /\ i # 0 /\ 1 .. i = (1 .. i - 1) \cup {i}
        BY <1>1
    <2> DEFINE D == r[i - 1]
               E == Ds[i]
    <2>2. r[i] = Distribute(D, E) /\ D \in V /\ E \in V
        <3>1. r[i] = at(r, i)
            BY <1>9, <2>1
        <3> HIDE DEF V
        <3> QED
            BY <1>1, <1>11, <2>1, <3>1
    <2> HIDE DEF D, E
    <2>3. r[i] \in V /\ IsProduct(r[i], D, E)
        BY <2>2, DistributeElements
    <2>4. \A M : Holds(r[i], M) <=> Holds(D, M) /\ Holds(E, M)
        BY <2>2, DistributeHolds
    <2>5. Members(r[i]) \subseteq Members(D) \cup Members(E)
        <3>1. /\ \A d \in ToSet(D) : d \in Seq(S)
              /\ \A e \in ToSet(E) : e \in Seq(S)
            BY <2>2, ToSetType
        <3>2. \A d \in ToSet(D), e \in ToSet(E) : ToSet(d \o e) = ToSet(d) \cup ToSet(e)
            BY <3>1, ToSetConcat
        <3>3. \A d \in ToSet(D), e \in ToSet(E) : ToSet(d \o e) \subseteq Members(D) \cup Members(E)
            BY <3>2 DEF Members
        <3> DEFINE X == r[i]
                   Y == Members(D) \cup Members(E)
        <3>4. \A s \in ToSet(X) : ToSet(s) \subseteq Y
            BY <2>3, <3>3 DEF IsProduct
        <3> HIDE DEF X, Y
        <3>5. Members(X) \subseteq Y
            BY <3>4 DEF Members
        <3> QED
            BY <3>5 DEF X, Y
    <2>6. \A M : Holds(r[i], M) <=> \A j \in 1 .. i : Holds(Ds[j], M)
        BY <1>11, <2>1, <2>4 DEF D, E
    <2>7. Members(r[i]) \subseteq UNION {Members(Ds[j]) : j \in 1 .. i}
        BY <1>11, <2>1, <2>5 DEF D, E
    <2> QED
        BY <2>1, <2>3, <2>6, <2>7
<1>12. n \in T
    <2> HIDE DEF T, n
    <2>1. 0 .. n \subseteq T
        BY <1>1, <1>10, <1>11, CountingUp
    <2> QED
        BY <1>1, <2>1
<1> QED
    BY <1>1, <1>3, <1>12

\* So has that of what is below the negations.
LEMMA CoreEquation ==
    /\ Core \in [Expressions -> Expressions]
    /\ \A e \in Expressions : Core[e] =
        IF e.op = "not" THEN Core[e.child] ELSE e
<1> DEFINE D == Expressions
           V == Expressions
           at(f, e) ==
              IF e.op = "not" THEN f[e.child] ELSE e
           G == [e \in D |-> [f \in [D -> V] |-> at(f, e)]]
           r == CHOOSE f : f = [e \in D |-> at(f, e)]
<1>1. ASSUME NEW f, NEW e \in D, \A y \in D : Height[y] < Height[e] => f[y] \in V
      PROVE  at(f, e) \in V
    BY <1>1, Shape
<1>2. ASSUME NEW f, NEW g, NEW e \in D,
             \A y \in D : Height[y] < Height[e] => f[y] = g[y]
      PROVE  at(f, e) = at(g, e)
    BY <1>2, Shape
<1>3. (D # {} => V # {}) /\ Height \in [D -> Nat]
    BY RuleTreeAssumption
<1>4. Core = r
    BY DEF Core
<1> HIDE DEF at, D, V
<1>5. G \in [D -> [[D -> V] -> V]] /\ \A f \in [D -> V], e \in D : G[e][f] = at(f, e)
    BY <1>1
<1> HIDE DEF G
<1>6. Descending(D, V, Height, G)
    <2>1. ASSUME NEW f \in [D -> V], NEW g \in [D -> V], NEW e \in D,
                 \A y \in D : Height[y] < Height[e] => f[y] = g[y]
          PROVE  G[e][f] = G[e][g]
        <3>1. at(f, e) = at(g, e)
            BY <1>2, <2>1
        <3> QED
            BY <1>5, <3>1
    <2> QED
        BY <1>5, <2>1 DEF Descending
<1>7. \E f : f = [e \in D |-> at(f, e)]
    <2>1. Solvable(D, V, G)
        BY <1>3, <1>6, RecursiveFunction
    <2>2. PICK f \in [D -> V] : \A e \in D : f[e] = G[e][f]
        BY <2>1 DEF Solvable
    <2> QED
        BY <1>5, <2>2
<1>8. r = [e \in D |-> at(r, e)]
    BY <1>7
<1> HIDE DEF r
<1>9. \A e \in D : r[e] = at(r, e)
    BY <1>8
<1> DEFINE T == {e \in D : r[e] \in V}
<1>10. D \subseteq T
    <2>1. ASSUME NEW e \in D, \A y \in D : Height[y] < Height[e] => y \in T
          PROVE  e \in T
        <3>1. at(r, e) \in V
            BY <1>1, <2>1
        <3> QED
            BY <1>9, <3>1
    <2> HIDE DEF T
    <2> QED
        BY <1>3, <2>1, HeightInduction
<1>11. r \in [D -> V]
    BY <1>8, <1>10
<1> QED
    BY <1>4, <1>9, <1>11 DEF D, V, at

\* And that of the places an expression may be at.
LEMMA PlainAtEquation ==
    /\ PlainAt \in [Expressions -> SUBSET Places]
    /\ \A e \in Expressions : PlainAt[e] =
        CASE e.op = "not" ->
                {p \in Places : BelowNegation(p) \in PlainAt[e.child]}
          [] IsCompound(e) ->
                {p \in Places : /\ p.negations <= 1
                                /\ \A i \in DOMAIN e.children :
                                    BelowCompound(p) \in PlainAt[e.children[i]]}
          [] e.op = "always" -> {p \in Places : ~ p.within}
          [] OTHER -> Places
<1> DEFINE D == Expressions
           V == SUBSET Places
           at(f, e) ==
              CASE e.op = "not" ->
                      {p \in Places : BelowNegation(p) \in f[e.child]}
                [] IsCompound(e) ->
                      {p \in Places : /\ p.negations <= 1
                                      /\ \A i \in DOMAIN e.children :
                                          BelowCompound(p) \in f[e.children[i]]}
                [] e.op = "always" -> {p \in Places : ~ p.within}
                [] OTHER -> Places
           G == [e \in D |-> [f \in [D -> V] |-> at(f, e)]]
           r == CHOOSE f : f = [e \in D |-> at(f, e)]
<1>1. ASSUME NEW f, NEW e \in D, \A y \in D : Height[y] < Height[e] => f[y] \in V
      PROVE  at(f, e) \in V
    OBVIOUS
<1>2. ASSUME NEW f, NEW g, NEW e \in D,
             \A y \in D : Height[y] < Height[e] => f[y] = g[y]
      PROVE  at(f, e) = at(g, e)
    <2>1. e.op = "not" => f[e.child] = g[e.child]
        BY <1>2, Shape
    <2>2. IsCompound(e) => \A i \in DOMAIN e.children : f[e.children[i]] = g[e.children[i]]
        BY <1>2, Shape DEF Parted
    <2>3. CASE e.op = "not"
        BY <2>1, <2>3 DEF IsCompound
    <2>4. CASE IsCompound(e)
        BY <2>2, <2>4 DEF IsCompound
    <2> QED
        BY <2>3, <2>4
<1>3. (D # {} => V # {}) /\ Height \in [D -> Nat]
    BY RuleTreeAssumption
<1>4. PlainAt = r
    BY DEF PlainAt
<1> HIDE DEF at, D, V
<1>5. G \in [D -> [[D -> V] -> V]] /\ \A f \in [D -> V], e \in D : G[e][f] = at(f, e)
    BY <1>1
<1> HIDE DEF G
<1>6. Descending(D, V, Height, G)
    <2>1. ASSUME NEW f \in [D -> V], NEW g \in [D -> V], NEW e \in D,
                 \A y \in D : Height[y] < Height[e] => f[y] = g[y]
          PROVE  G[e][f] = G[e][g]
        <3>1. at(f, e) = at(g, e)
            BY <1>2, <2>1
        <3> QED
            BY <1>5, <3>1
    <2> QED
        BY <1>5, <2>1 DEF Descending
<1>7. \E f : f = [e \in D |-> at(f, e)]
    <2>1. Solvable(D, V, G)
        BY <1>3, <1>6, RecursiveFunction
    <2>2. PICK f \in [D -> V] : \A e \in D : f[e] = G[e][f]
        BY <2>1 DEF Solvable
    <2> QED
        BY <1>5, <2>2
<1>8. r = [e \in D |-> at(r, e)]
    BY <1>7
<1> HIDE DEF r
<1>9. \A e \in D : r[e] = at(r, e)
    BY <1>8
<1> DEFINE T == {e \in D : r[e] \in V}
<1>10. D \subseteq T
    <2>1. ASSUME NEW e \in D, \A y \in D : Height[y] < Height[e] => y \in T
          PROVE  e \in T
        <3>1. at(r, e) \in V
            BY <1>1, <2>1
        <3> QED
            BY <1>9, <3>1
    <2> HIDE DEF T
    <2> QED
        BY <1>3, <2>1, HeightInduction
<1>11. r \in [D -> V]
    BY <1>8, <1>10
<1> QED
    BY <1>4, <1>9, <1>11 DEF D, V, at

\* And that of the normal form.
LEMMA SegmentsEquation ==
    /\ Segments \in [Expressions -> Seq(Seq(Expressions))]
    /\ \A e \in Expressions : Segments[e] =
        IF IsCompound(Pushed(e))
        THEN LET parts == [i \in DOMAIN Pushed(e).children |-> Segments[Pushed(e).children[i]]]
             IN  IF Pushed(e).op = "or" THEN FlattenSeq(parts) ELSE Conjunction(parts)
        ELSE <<<<e>>>>
<1> DEFINE D == Expressions
           V == Seq(Seq(Expressions))
           at(f, e) ==
              IF IsCompound(Pushed(e))
              THEN LET parts == [i \in DOMAIN Pushed(e).children |-> f[Pushed(e).children[i]]]
                   IN  IF Pushed(e).op = "or" THEN FlattenSeq(parts) ELSE Conjunction(parts)
              ELSE <<<<e>>>>
           G == [e \in D |-> [f \in [D -> V] |-> at(f, e)]]
           r == CHOOSE f : f = [e \in D |-> at(f, e)]
<1>1. ASSUME NEW f, NEW e \in D, \A y \in D : Height[y] < Height[e] => f[y] \in V
      PROVE  at(f, e) \in V
    <2>1. CASE IsCompound(Pushed(e))
        <3> DEFINE es == Pushed(e).children
                   parts == [i \in DOMAIN es |-> f[es[i]]]
        <3>1. DOMAIN es = 1 .. Len(es) /\ Len(es) \in Nat /\ \A i \in DOMAIN es : f[es[i]] \in V
            BY <1>1, <2>1, Shape, LenProperties DEF Parted
        <3> HIDE DEF es, V
        <3>2. parts \in Seq(V)
            BY <3>1, IsASeq
        <3> HIDE DEF parts
        <3>3. FlattenSeq(parts) \in V /\ Conjunction(parts) \in V
            BY <3>2, FlattenHolds, ConjunctionHolds DEF V
        <3> QED
            BY <2>1, <3>3 DEF parts, es
    <2>2. CASE ~ IsCompound(Pushed(e))
        <3>1. <<e>> \in Seq(Expressions)
            OBVIOUS
        <3> QED
            BY <2>2, <3>1
    <2> QED
        BY <2>1, <2>2
<1>2. ASSUME NEW f, NEW g, NEW e \in D,
             \A y \in D : Height[y] < Height[e] => f[y] = g[y]
      PROVE  at(f, e) = at(g, e)
    <2>1. CASE IsCompound(Pushed(e))
        <3> DEFINE es == Pushed(e).children
        <3>1. \A i \in DOMAIN es : f[es[i]] = g[es[i]]
            BY <1>2, <2>1, Shape DEF Parted
        <3> HIDE DEF es
        <3>2. [i \in DOMAIN es |-> f[es[i]]] = [i \in DOMAIN es |-> g[es[i]]]
            BY <3>1
        <3> QED
            BY <3>2 DEF es
    <2>2. CASE ~ IsCompound(Pushed(e))
        BY <2>2
    <2> QED
        BY <2>1, <2>2
<1>3. (D # {} => V # {}) /\ Height \in [D -> Nat]
    BY RuleTreeAssumption, EmptySeq
<1>4. Segments = r
    BY DEF Segments
<1> HIDE DEF at, D, V
<1>5. G \in [D -> [[D -> V] -> V]] /\ \A f \in [D -> V], e \in D : G[e][f] = at(f, e)
    BY <1>1
<1> HIDE DEF G
<1>6. Descending(D, V, Height, G)
    <2>1. ASSUME NEW f \in [D -> V], NEW g \in [D -> V], NEW e \in D,
                 \A y \in D : Height[y] < Height[e] => f[y] = g[y]
          PROVE  G[e][f] = G[e][g]
        <3>1. at(f, e) = at(g, e)
            BY <1>2, <2>1
        <3> QED
            BY <1>5, <3>1
    <2> QED
        BY <1>5, <2>1 DEF Descending
<1>7. \E f : f = [e \in D |-> at(f, e)]
    <2>1. Solvable(D, V, G)
        BY <1>3, <1>6, RecursiveFunction
    <2>2. PICK f \in [D -> V] : \A e \in D : f[e] = G[e][f]
        BY <2>1 DEF Solvable
    <2> QED
        BY <1>5, <2>2
<1>8. r = [e \in D |-> at(r, e)]
    BY <1>7
<1> HIDE DEF r
<1>9. \A e \in D : r[e] = at(r, e)
    BY <1>8
<1> DEFINE T == {e \in D : r[e] \in V}
<1>10. D \subseteq T
    <2>1. ASSUME NEW e \in D, \A y \in D : Height[y] < Height[e] => y \in T
          PROVE  e \in T
        <3>1. at(r, e) \in V
            BY <1>1, <2>1
        <3> QED
            BY <1>9, <3>1
    <2> HIDE DEF T
    <2> QED
        BY <1>3, <2>1, HeightInduction
<1>11. r \in [D -> V]
    BY <1>8, <1>10
<1> QED
    BY <1>4, <1>9, <1>11 DEF D, V, at

\* The expressions an event matches.
Fulfilled(v) == {x \in Expressions : v \in MatchedBy[x]}

\* A negation that is pushed inwards asks for the same.
LEMMA PushedMatches ==
    ASSUME NEW e \in Expressions, IsCompound(Pushed(e)), NEW v \in Events
    PROVE  v \in MatchedBy[e] <=>
            IF Pushed(e).op = "or"
            THEN \E i \in DOMAIN Pushed(e).children : v \in MatchedBy[Pushed(e).children[i]]
            ELSE \A i \in DOMAIN Pushed(e).children : v \in MatchedBy[Pushed(e).children[i]]
<1> DEFINE es == Pushed(e).children
<1>1. CASE IsCompound(e)
    <2>1. Pushed(e) = e /\ e.op \in {"and", "or"}
        BY <1>1, Shape DEF IsCompound
    <2>2. CASE e.op = "and"
        BY <2>1, <2>2, MatchedByEquation
    <2>3. CASE e.op = "or"
        BY <2>1, <2>3, MatchedByEquation
    <2> QED
        BY <2>1, <2>2, <2>3
<1>2. CASE ~ IsCompound(e)
    <2> DEFINE c == e.child
               cs == c.children
    <2>1. e.op = "not" /\ IsCompound(c)
        BY <1>2 DEF Pushed
    <2>2. c \in Expressions /\ c.op \in {"and", "or"}
        BY <2>1, Shape DEF IsCompound
    <2>3. /\ Pushed(e).op = Dual(c.op)
          /\ es = [i \in DOMAIN cs |-> Negation(cs[i])]
        BY <2>1 DEF Pushed, Compound
    <2>4. Parted(es, Height[e]) /\ Parted(cs, Height[c])
        BY <2>1, <2>2, Shape
    <2> HIDE DEF c, es
    <2>5. ASSUME NEW i \in DOMAIN cs
          PROVE  v \in MatchedBy[es[i]] <=> ~ (v \in MatchedBy[cs[i]])
        <3>1. es[i] \in Expressions /\ es[i] = Negation(cs[i])
            BY <2>3, <2>4 DEF Parted
        <3>2. es[i].op = "not" /\ es[i].child = cs[i]
            BY <3>1 DEF Negation
        <3>3. MatchedBy[es[i]] = Events \ MatchedBy[cs[i]]
            BY <3>1, <3>2, MatchedByEquation
        <3> QED
            BY <3>3
    <2>6. v \in MatchedBy[e] <=> ~ (v \in MatchedBy[c])
        BY <2>1, MatchedByEquation DEF c
    <2>7. DOMAIN es = DOMAIN cs
        BY <2>3
    <2>8. CASE c.op = "and"
        <3>1. v \in MatchedBy[c] <=> \A i \in DOMAIN cs : v \in MatchedBy[cs[i]]
            BY <2>2, <2>8, MatchedByEquation
        <3>2. Pushed(e).op = "or"
            BY <2>3, <2>8 DEF Dual
        <3> QED
            BY <2>5, <2>6, <2>7, <3>1, <3>2 DEF es
    <2>9. CASE c.op = "or"
        <3>1. v \in MatchedBy[c] <=> \E i \in DOMAIN cs : v \in MatchedBy[cs[i]]
            BY <2>2, <2>9, MatchedByEquation
        <3>2. Pushed(e).op # "or"
            BY <2>3, <2>9 DEF Dual
        <3> QED
            BY <2>5, <2>6, <2>7, <3>1, <3>2 DEF es
    <2> QED
        BY <2>2, <2>8, <2>9
<1> QED
    BY <1>1, <1>2

\* The parts of a compound are put together as their segments.
LEMMA SegmentsHold ==
    ASSUME NEW e \in Expressions, IsCompound(Pushed(e))
    PROVE  /\ \A M : Holds(Segments[e], M) <=>
                IF Pushed(e).op = "or"
                THEN \E i \in DOMAIN Pushed(e).children : Holds(Segments[Pushed(e).children[i]], M)
                ELSE \A i \in DOMAIN Pushed(e).children : Holds(Segments[Pushed(e).children[i]], M)
           /\ Members(Segments[e]) \subseteq
                UNION {Members(Segments[Pushed(e).children[i]]) : i \in DOMAIN Pushed(e).children}
<1> DEFINE es == Pushed(e).children
           parts == [i \in DOMAIN es |-> Segments[es[i]]]
           V == Seq(Seq(Expressions))
<1>1. Segments[e] = IF Pushed(e).op = "or" THEN FlattenSeq(parts) ELSE Conjunction(parts)
    BY SegmentsEquation
<1>2. Parted(es, Height[e])
    BY Shape
<1> HIDE DEF es
<1>3. DOMAIN es = 1 .. Len(es) /\ Len(es) \in Nat /\ \A i \in DOMAIN es : Segments[es[i]] \in V
    BY <1>2, SegmentsEquation, LenProperties DEF Parted
<1>4. parts \in Seq(V) /\ DOMAIN parts = DOMAIN es /\ \A i \in DOMAIN es : parts[i] = Segments[es[i]]
    BY <1>3, IsASeq
<1> HIDE DEF parts
<1>5. CASE Pushed(e).op = "or"
    <2>1. ASSUME NEW M
          PROVE  Holds(FlattenSeq(parts), M) <=> \E i \in DOMAIN parts : Holds(parts[i], M)
        BY <1>4, FlattenHolds
    <2>2. ToSet(FlattenSeq(parts)) = UNION {ToSet(parts[i]) : i \in DOMAIN parts}
        BY <1>4, FlattenHolds
    <2>3. Members(FlattenSeq(parts)) \subseteq UNION {Members(parts[i]) : i \in DOMAIN parts}
        BY <2>2 DEF Members
    <2> QED
        BY <1>1, <1>4, <1>5, <2>1, <2>3 DEF es
<1>6. CASE Pushed(e).op # "or"
    <2>1. /\ \A M : Holds(Conjunction(parts), M) <=> \A i \in DOMAIN parts : Holds(parts[i], M)
          /\ Members(Conjunction(parts)) \subseteq UNION {Members(parts[i]) : i \in DOMAIN parts}
        BY <1>4, ConjunctionHolds
    <2> QED
        BY <1>1, <1>4, <1>6, <2>1 DEF es
<1> QED
    BY <1>5, <1>6

\* What cannot be taken apart is its only segment.
LEMMA SegmentsLeaf ==
    ASSUME NEW e \in Expressions, ~ IsCompound(Pushed(e))
    PROVE  /\ Segments[e] = <<<<e>>>> /\ ToSet(Segments[e]) = {<<e>>}
           /\ ToSet(<<e>>) = {e} /\ Members(Segments[e]) = {e}
           /\ \A M : Holds(Segments[e], M) <=> e \in M
<1>1. Segments[e] = <<<<e>>>>
    BY SegmentsEquation
<1>2. ToSet(<<<<e>>>>) = {<<e>>} /\ ToSet(<<e>>) = {e}
    BY DEF ToSet
<1> QED
    BY <1>1, <1>2 DEF Holds, Members

\* Pushing negations inwards and distributing AND over OR change no decision:
\* the normal form matches the events that the filter matches, and has no
\* empty segment (demorgan_resolver.py:20-75, rule_segmenter.py:47-269).
THEOREM SegmentsMatch ==
    ASSUME NEW e \in Expressions
    PROVE  /\ \A v \in Events : Holds(Segments[e], Fulfilled(v)) <=> v \in MatchedBy[e]
           /\ <<>> \notin ToSet(Segments[e])
<1> DEFINE T == {x \in Expressions :
                    /\ \A v \in Events : Holds(Segments[x], Fulfilled(v)) <=> v \in MatchedBy[x]
                    /\ ~ Holds(Segments[x], {})}
<1>1. ASSUME NEW x \in Expressions, \A y \in Expressions : Height[y] < Height[x] => y \in T
      PROVE  x \in T
    <2>1. CASE IsCompound(Pushed(x))
        <3> DEFINE es == Pushed(x).children
        <3>1. Parted(es, Height[x])
            BY <2>1, Shape
        <3>2. \A i \in DOMAIN es : es[i] \in T
            <4> HIDE DEF T, es
            <4> QED
                BY <1>1, <3>1 DEF Parted
        <3>3. ASSUME NEW v \in Events
              PROVE  Holds(Segments[x], Fulfilled(v)) <=> v \in MatchedBy[x]
            BY <2>1, <3>2, PushedMatches, SegmentsHold
        <3>4. ~ Holds(Segments[x], {})
            BY <2>1, <3>1, <3>2, SegmentsHold DEF Parted
        <3> QED
            BY <3>3, <3>4
    <2>2. CASE ~ IsCompound(Pushed(x))
        <3>1. \A M : Holds(Segments[x], M) <=> x \in M
            BY <2>2, SegmentsLeaf
        <3>2. \A v : x \in Fulfilled(v) <=> v \in MatchedBy[x]
            BY DEF Fulfilled
        <3> QED
            BY <3>1, <3>2
    <2> QED
        BY <2>1, <2>2
<1>2. e \in T
    <2> HIDE DEF T
    <2>1. Height \in [Expressions -> Nat]
        BY RuleTreeAssumption
    <2>2. Expressions \subseteq T
        BY <1>1, <2>1, HeightInduction
    <2> QED
        BY <2>2
<1>3. ASSUME <<>> \in ToSet(Segments[e]) PROVE FALSE
    BY <1>2, <1>3, ToSetEmpty DEF Holds
<1> QED
    BY <1>2, <1>3

\* Below two negations, or where the segmenter comes no further, there is
\* neither a compound nor, in a compound, an Always.
LEMMA PlainCore ==
    ASSUME NEW e \in Expressions, NEW p \in PlainAt[e],
           \/ p.negations = 2
           \/ ~ IsCompound(e) /\ (p.negations = 1 \/ ~ IsCompound(Pushed(e)))
    PROVE  ~ IsCompound(Core[e]) /\ (p.within => Core[e].op # "always")
<1> DEFINE Far(q, x) ==
                \/ q.negations = 2
                \/ ~ IsCompound(x) /\ (q.negations = 1 \/ ~ IsCompound(Pushed(x)))
           T == {x \in Expressions : \A q \in PlainAt[x] :
                    Far(q, x) => ~ IsCompound(Core[x]) /\ (q.within => Core[x].op # "always")}
<1>1. ASSUME NEW x \in Expressions, \A y \in Expressions : Height[y] < Height[x] => y \in T
      PROVE  x \in T
    <2> SUFFICES ASSUME NEW q \in PlainAt[x], Far(q, x)
                 PROVE  ~ IsCompound(Core[x]) /\ (q.within => Core[x].op # "always")
        OBVIOUS
    <2>0. q \in Places
        BY PlainAtEquation
    <2>1. CASE x.op = "not"
        <3> DEFINE c == x.child
                   d == BelowNegation(q)
        <3>1. c \in Expressions /\ c \in T
            <4> HIDE DEF T
            <4> QED
                BY <1>1, <2>1, Shape
        <3>2. d \in PlainAt[c]
            BY <2>1, PlainAtEquation DEF IsCompound
        <3>3. d.within = q.within /\ d.negations = IF q.negations = 2 THEN 2 ELSE q.negations + 1
            BY <2>0 DEF BelowNegation, Places
        <3>4. q.negations = 0 => ~ IsCompound(c)
            <4>1. IsCompound(c) => IsCompound(Pushed(x))
                BY <2>1 DEF Pushed, Compound, IsCompound, Dual
            <4> QED
                BY <4>1
        <3>5. Far(d, c)
            BY <2>0, <3>3, <3>4 DEF Places
        <3>6. Core[x] = Core[c]
            BY <2>1, CoreEquation
        <3> HIDE DEF d, Far, c
        <3> QED
            BY <3>1, <3>2, <3>3, <3>5, <3>6
    <2>2. CASE IsCompound(x)
        <3>1. q.negations <= 1
            BY <2>2, PlainAtEquation DEF IsCompound
        <3> QED
            BY <2>2, <3>1
    <2>3. CASE x.op # "not" /\ ~ IsCompound(x)
        <3>1. Core[x] = x
            BY <2>3, CoreEquation
        <3>2. x.op = "always" => ~ q.within
            BY <2>3, PlainAtEquation
        <3> QED
            BY <2>3, <3>1, <3>2
    <2> QED
        BY <2>1, <2>2, <2>3
<1>2. e \in T
    <2> HIDE DEF T
    <2>1. Height \in [Expressions -> Nat]
        BY RuleTreeAssumption
    <2>2. Expressions \subseteq T
        BY <1>1, <2>1, HeightInduction
    <2> QED
        BY <2>2
<1> QED
    BY <1>2

\* A plain filter parses: neither the segmenter nor the sorter raises, so its
\* rule is not left out of the tree (rule_sorter.py:52-99, rule_tree.py:133-157).
THEOREM PlainParses ==
    ASSUME NEW e \in Expressions, Plain(e)
    PROVE  Parses(Segments[e])
<1> DEFINE place(w) == [negations |-> 0, within |-> w]
           Sorts(x, w) == \A s \in ToSet(Segments[x]) : \A y \in ToSet(s) :
                                /\ ~ IsCompound(Core[y])
                                /\ Core[y].op = "always" => ~ w /\ Len(s) = 1
           T == {x \in Expressions : \A w \in BOOLEAN : place(w) \in PlainAt[x] => Sorts(x, w)}
<1>1. ASSUME NEW x \in Expressions, \A y \in Expressions : Height[y] < Height[x] => y \in T,
             NEW w \in BOOLEAN, place(w) \in PlainAt[x]
      PROVE  Sorts(x, w)
    <2> DEFINE es == Pushed(x).children
    <2>0. /\ place(w) \in Places /\ place(w).negations = 0 /\ place(w).within = w
          /\ BelowCompound(place(w)) = place(TRUE)
        BY DEF Places, BelowCompound
    <2>1. CASE IsCompound(Pushed(x))
        <3>1. Parted(es, Height[x])
            BY <2>1, Shape
        <3>2. \A i \in DOMAIN es : es[i] \in Expressions /\ es[i] \in T
            <4> HIDE DEF T, es
            <4> QED
                BY <1>1, <3>1 DEF Parted
        <3>3. \A i \in DOMAIN es : place(TRUE) \in PlainAt[es[i]]
            <4>1. CASE IsCompound(x)
                <5>1. Pushed(x) = x
                    BY <4>1, Shape
                <5>2. \A i \in DOMAIN x.children : BelowCompound(place(w)) \in PlainAt[x.children[i]]
                    <6> HIDE DEF place
                    <6> QED
                        BY <1>1, <4>1, PlainAtEquation DEF IsCompound
                <5> QED
                    BY <2>0, <5>1, <5>2
            <4>2. CASE ~ IsCompound(x)
                <5> DEFINE c == x.child
                           cs == c.children
                           d == BelowNegation(place(w))
                <5>1. x.op = "not" /\ IsCompound(c)
                    BY <2>1, <4>2 DEF Pushed
                <5>2. c \in Expressions
                    BY <5>1, Shape
                <5>3. es = [i \in DOMAIN cs |-> Negation(cs[i])]
                    BY <5>1 DEF Pushed, Compound
                <5>4. d \in PlainAt[c]
                    <6> HIDE DEF place
                    <6> QED
                        BY <1>1, <5>1, PlainAtEquation DEF IsCompound
                <5>5. d = [negations |-> 1, within |-> w] /\ BelowCompound(d) = [negations |-> 1, within |-> TRUE]
                    BY DEF BelowNegation, BelowCompound
                <5>6. \A i \in DOMAIN cs : [negations |-> 1, within |-> TRUE] \in PlainAt[cs[i]]
                    <6>1. \A i \in DOMAIN cs : BelowCompound(d) \in PlainAt[cs[i]]
                        <7> HIDE DEF c, d
                        <7> QED
                            BY <5>1, <5>2, <5>4, PlainAtEquation DEF IsCompound
                    <6> QED
                        BY <5>5, <6>1
                <5>7. BelowNegation(place(TRUE)) = [negations |-> 1, within |-> TRUE] /\ place(TRUE) \in Places
                    BY DEF BelowNegation, Places
                <5> HIDE DEF es, c, place
                <5>8. ASSUME NEW i \in DOMAIN es PROVE place(TRUE) \in PlainAt[es[i]]
                    <6>1. es[i] = Negation(cs[i]) /\ i \in DOMAIN cs
                        BY <5>3
                    <6>2. es[i] \in Expressions /\ es[i].op = "not" /\ es[i].child = cs[i]
                        BY <3>2, <6>1 DEF Negation
                    <6>3. BelowNegation(place(TRUE)) \in PlainAt[es[i].child]
                        BY <5>6, <5>7, <6>1, <6>2
                    <6> QED
                        BY <5>7, <6>2, <6>3, PlainAtEquation DEF IsCompound
                <5> QED
                    BY <5>8
            <4> QED
                BY <4>1, <4>2
        <3>4. \A i \in DOMAIN es : Sorts(es[i], TRUE)
            <4> HIDE DEF es, Sorts, place
            <4> QED
                BY <3>2, <3>3
        <3>5. \A i \in DOMAIN es : \A y \in Members(Segments[es[i]]) :
                    ~ IsCompound(Core[y]) /\ Core[y].op # "always"
            <4> HIDE DEF es
            <4> QED
                BY <3>4 DEF Members
        <3>6. \A y \in Members(Segments[x]) : ~ IsCompound(Core[y]) /\ Core[y].op # "always"
            BY <2>1, <3>5, SegmentsHold
        <3> QED
            BY <3>6 DEF Members
    <2>2. CASE ~ IsCompound(Pushed(x))
        <3>1. ~ IsCompound(x)
            BY <2>2, Shape
        <3>2. ~ IsCompound(Core[x]) /\ (w => Core[x].op # "always")
            <4> HIDE DEF place
            <4> QED
                BY <1>1, <2>0, <2>2, <3>1, PlainCore
        <3>3. ToSet(Segments[x]) = {<<x>>} /\ ToSet(<<x>>) = {x}
            BY <2>2, SegmentsLeaf
        <3> QED
            BY <3>2, <3>3
    <2> QED
        BY <2>1, <2>2
<1>2. e \in T
    <2>1. \A x \in Expressions : (\A y \in Expressions : Height[y] < Height[x] => y \in T) => x \in T
        <3> HIDE DEF Sorts, place
        <3> QED
            BY <1>1
    <2> HIDE DEF T
    <2>2. Height \in [Expressions -> Nat]
        BY RuleTreeAssumption
    <2>3. Expressions \subseteq T
        BY <2>1, <2>2, HeightInduction
    <2> QED
        BY <2>3
<1>3. Sorts(e, FALSE)
    <2> HIDE DEF Sorts
    <2> QED
        BY <1>2 DEF Plain
<1>4. ASSUME NEW s \in ToSet(Segments[e]), NEW y \in ToSet(s)
      PROVE  ~ IsCompound(Core[y]) /\ (Len(s) > 1 => Core[y].op # "always")
    <2>1. ~ IsCompound(Core[y]) /\ (Core[y].op = "always" => Len(s) = 1)
        BY <1>3
    <2>2. Len(s) = 1 => ~ (Len(s) > 1)
        OBVIOUS
    <2> QED
        BY <2>1, <2>2
<1> QED
    BY <1>4 DEF Parses

\* Below the negations is no negation.
LEMMA CoreShape ==
    ASSUME NEW e \in Expressions
    PROVE  Core[e] \in Expressions /\ Core[e].op # "not"
<1> DEFINE T == {x \in Expressions : Core[x].op # "not"}
<1>1. ASSUME NEW x \in Expressions, \A y \in Expressions : Height[y] < Height[x] => y \in T
      PROVE  x \in T
    <2>1. CASE x.op = "not"
        <3>1. x.child \in T /\ Core[x] = Core[x.child]
            <4> HIDE DEF T
            <4> QED
                BY <1>1, <2>1, Shape, CoreEquation
        <3> QED
            BY <3>1
    <2>2. CASE x.op # "not"
        BY <2>2, CoreEquation
    <2> QED
        BY <2>1, <2>2
<1>2. e \in T
    <2> HIDE DEF T
    <2>1. Height \in [Expressions -> Nat]
        BY RuleTreeAssumption
    <2>2. Expressions \subseteq T
        BY <1>1, <2>1, HeightInduction
    <2> QED
        BY <2>2
<1> QED
    BY <1>2, CoreEquation

\* Segments that can be sorted.
Sortable(s) ==
    \A x \in ToSet(s) : ~ IsCompound(Core[x]) /\ (Len(s) > 1 => Core[x].op # "always")

\* Sorting a segment keeps its members.
LEMMA SortedElements ==
    ASSUME treeConfig \in TreeConfigs, NEW s \in Seq(Expressions), Sortable(s)
    PROVE  Sorted(s) \in Seq(Expressions) /\ ToSet(Sorted(s)) = ToSet(s)
<1>1. CASE Len(s) <= 1
    BY <1>1 DEF Sorted
<1>2. CASE ~ (Len(s) <= 1)
    <2> DEFINE n == Len(s)
               k(j) == treeConfig.rank[Core[s[j]]]
               U(i) == SortedUpTo(s, i)
               c == [i \in 1 .. n |-> Cardinality(U(i))]
               at(m) == CHOOSE i \in 1 .. n : Cardinality(U(i)) = m
               t == [m \in 1 .. n |-> s[at(m)]]
    <2>1. n \in Nat /\ DOMAIN s = 1 .. n /\ \A i \in 1 .. n : s[i] \in Expressions /\ s[i] \in ToSet(s)
        BY LenProperties, ElementOfSeq DEF ToSet
    <2>2. ASSUME NEW j \in 1 .. n PROVE k(j) \in Int
        <3>1. s[j] \in Expressions /\ s[j] \in ToSet(s) /\ n > 1
            BY <1>2, <2>1
        <3>2. ~ IsCompound(Core[s[j]]) /\ Core[s[j]].op # "always"
            BY <3>1 DEF Sortable
        <3>3. Core[s[j]] \in Expressions /\ Core[s[j]].op # "not"
            BY <3>1, CoreShape
        <3>4. KeyBased(Core[s[j]])
            BY <3>2, <3>3, Shape DEF IsCompound, KeyBased
        <3> QED
            BY <3>3, <3>4, RuleTreeAssumption
    <2>3. \A i \in 1 .. n : U(i) = {j \in 1 .. n : k(j) < k(i) \/ (k(j) = k(i) /\ j <= i)}
        BY <2>1 DEF SortedUpTo
    <2>4. Sorted(s) = t
        BY <1>2, <2>1 DEF Sorted
    <2> HIDE DEF U, k, n
    <2>5. IsFiniteSet(1 .. n) /\ Cardinality(1 .. n) = n
        BY <2>1, FS_Interval
    <2>6. ASSUME NEW i \in 1 .. n
          PROVE  i \in U(i) /\ U(i) \in SUBSET (1 .. n) /\ IsFiniteSet(U(i)) /\ Cardinality(U(i)) \in 1 .. n
        <3>1. i \in U(i) /\ U(i) \in SUBSET (1 .. n)
            BY <2>1, <2>2, <2>3
        <3>2. IsFiniteSet(U(i)) /\ Cardinality(U(i)) <= n
            BY <2>5, <3>1, FS_Subset
        <3>3. Cardinality(U(i)) \in Nat /\ Cardinality(U(i)) # 0
            BY <3>1, <3>2, FS_EmptySet, FS_CardinalityType
        <3> QED
            BY <2>1, <3>1, <3>2, <3>3
    <2>7. ASSUME NEW i \in 1 .. n, NEW j \in 1 .. n, k(i) < k(j) \/ (k(i) = k(j) /\ i < j)
          PROVE  Cardinality(U(i)) # Cardinality(U(j))
        <3>1. k(i) \in Int /\ k(j) \in Int
            BY <2>2
        <3>2. U(i) \in SUBSET U(j)
            <4> SUFFICES ASSUME NEW m \in 1 .. n, k(m) < k(i) \/ (k(m) = k(i) /\ m <= i)
                         PROVE  k(m) < k(j) \/ (k(m) = k(j) /\ m <= j)
                BY <2>3
            <4>1. k(m) \in Int
                BY <2>2
            <4> QED
                BY <2>1, <2>7, <3>1, <4>1
        <3>3. j \notin U(i)
            <4> SUFFICES ASSUME k(j) < k(i) \/ (k(j) = k(i) /\ j <= i) PROVE FALSE
                BY <2>3
            <4> QED
                BY <2>1, <2>7, <3>1
        <3>4. U(i) # U(j)
            BY <2>6, <3>3
        <3> QED
            BY <2>6, <3>2, <3>4, FS_Subset
    <2>8. ASSUME NEW i \in 1 .. n, NEW j \in 1 .. n, Cardinality(U(i)) = Cardinality(U(j))
          PROVE  i = j
        <3> SUFFICES ASSUME i # j PROVE FALSE
            OBVIOUS
        <3>1. k(i) \in Int /\ k(j) \in Int
            BY <2>2
        <3>2. \/ k(i) < k(j) \/ (k(i) = k(j) /\ i < j)
              \/ k(j) < k(i) \/ (k(j) = k(i) /\ j < i)
            BY <2>1, <3>1
        <3> QED
            BY <2>7, <2>8, <3>2
    <2>9. c \in [1 .. n -> 1 .. n] /\ IsInjective(c)
        BY <2>6, <2>8 DEF IsInjective
    <2> HIDE DEF c
    <2>10. c \in Surjection(1 .. n, 1 .. n)
        <3>1. c \in Injection(1 .. n, 1 .. n)
            BY <2>9 DEF Injection
        <3> QED
            BY <2>5, <3>1, FS_Injection
    <2>11. ASSUME NEW m \in 1 .. n
           PROVE  at(m) \in 1 .. n /\ Cardinality(U(at(m))) = m
        <3>1. \E i \in 1 .. n : c[i] = m
            BY <2>10 DEF Surjection
        <3>2. \E i \in 1 .. n : Cardinality(U(i)) = m
            BY <3>1 DEF c
        <3> QED
            BY <3>2
    <2>12. \A i \in 1 .. n : at(Cardinality(U(i))) = i
        BY <2>6, <2>8, <2>11
    <2> HIDE DEF at
    <2>13. t \in Seq(Expressions) /\ DOMAIN t = 1 .. n
        <3>1. \A m \in 1 .. n : s[at(m)] \in Expressions
            BY <2>1, <2>11
        <3> QED
            BY <2>1, <3>1, IsASeq
    <2>14. ToSet(t) \subseteq ToSet(s)
        BY <2>1, <2>11 DEF ToSet
    <2>15. ASSUME NEW i \in 1 .. n PROVE s[i] \in ToSet(t)
        <3>1. Cardinality(U(i)) \in 1 .. n /\ at(Cardinality(U(i))) = i
            BY <2>6, <2>12
        <3>2. t[Cardinality(U(i))] = s[i]
            BY <3>1
        <3> HIDE DEF t
        <3> QED
            BY <2>13, <3>1, <3>2 DEF ToSet
    <2>16. ToSet(s) \subseteq ToSet(t)
        <3> HIDE DEF t
        <3> QED
            BY <2>1, <2>15 DEF ToSet
    <2> HIDE DEF t
    <2> QED
        BY <2>4, <2>13, <2>14, <2>16
<1> QED
    BY <1>1, <1>2

\* What is added says that the field of a test exists.
ImpliedExists(s) == {Leaf("exists", x.key) : x \in {y \in ToSet(s) : y.op = "string"}}

\* What _add_exists_filter adds is implied by what it is added to.
LEMMA WithExistsElements ==
    ASSUME NEW s \in Seq(Expressions)
    PROVE  /\ WithExists(s) \in Seq(Expressions)
           /\ ToSet(s) \subseteq ToSet(WithExists(s))
           /\ ToSet(WithExists(s)) \subseteq ToSet(s) \cup ImpliedExists(s)
<1> DEFINE n == Len(s)
           first(i) == /\ s[i].op = "string"
                       /\ Leaf("exists", s[i].key) \notin ToSet(s)
                       /\ \A j \in 1 .. i - 1 : s[j] # s[i]
           piece(i) == IF first(i) THEN <<Leaf("exists", s[i].key), s[i]>> ELSE <<s[i]>>
           pieces == [i \in DOMAIN s |-> piece(i)]
<1>1. n \in Nat /\ DOMAIN s = 1 .. n /\ \A i \in 1 .. n : s[i] \in Expressions /\ s[i] \in ToSet(s)
    BY LenProperties, ElementOfSeq DEF ToSet
<1>2. ASSUME NEW i \in 1 .. n
      PROVE  /\ piece(i) \in Seq(Expressions) /\ s[i] \in ToSet(piece(i))
             /\ ToSet(piece(i)) \subseteq ToSet(s) \cup ImpliedExists(s)
    <2>1. CASE first(i)
        <3>1. s[i].op = "string" /\ Leaf("exists", s[i].key) \in Expressions
            BY <1>1, <2>1, Shape DEF KeyBased
        <3> DEFINE l == Leaf("exists", s[i].key)
        <3>2. l \in ImpliedExists(s)
            BY <1>1, <3>1 DEF ImpliedExists
        <3> HIDE DEF l
        <3>3. ToSet(<<l, s[i]>>) = {l, s[i]}
            BY DEF ToSet
        <3>4. <<l, s[i]>> \in Seq(Expressions)
            BY <1>1, <3>1 DEF l
        <3>5. piece(i) = <<l, s[i]>>
            BY <2>1 DEF l
        <3> QED
            BY <1>1, <3>2, <3>3, <3>4, <3>5
    <2>2. CASE ~ first(i)
        <3>1. ToSet(<<s[i]>>) = {s[i]} /\ <<s[i]>> \in Seq(Expressions)
            BY <1>1 DEF ToSet
        <3> QED
            BY <1>1, <2>2, <3>1
    <2> QED
        BY <2>1, <2>2
<1>3. WithExists(s) = FlattenSeq(pieces)
    BY DEF WithExists
<1> HIDE DEF piece
<1>4. pieces \in Seq(Seq(Expressions)) /\ DOMAIN pieces = 1 .. n /\ \A i \in 1 .. n : pieces[i] = piece(i)
    BY <1>1, <1>2, IsASeq
<1> HIDE DEF pieces
<1>5. /\ FlattenSeq(pieces) \in Seq(Expressions)
      /\ ToSet(FlattenSeq(pieces)) = UNION {ToSet(pieces[i]) : i \in DOMAIN pieces}
    BY <1>4, FlattenElements
<1>6. ToSet(s) = {s[i] : i \in 1 .. n}
    BY <1>1 DEF ToSet
<1> QED
    BY <1>2, <1>3, <1>4, <1>5, <1>6

\* The tags that are configured.
Tags == {treeConfig.tags[k] : k \in DOMAIN treeConfig.tags}

\* What RuleTagger adds are configured tags.
LEMMA WithTagsElements ==
    ASSUME treeConfig \in TreeConfigs, NEW s \in Seq(Expressions)
    PROVE  /\ WithTags(s) \in Seq(Expressions)
           /\ ToSet(s) \subseteq ToSet(WithTags(s))
           /\ ToSet(WithTags(s)) \subseteq ToSet(s) \cup Tags
<1> DEFINE n == Len(s)
           new(i) == TagsOf(s[i]) \ (ToSet(s) \cup UNION {TagsOf(s[j]) : j \in 1 .. i - 1})
           pieces == [i \in DOMAIN s |-> SetToSeq(new(n + 1 - i))]
<1>0. Tags \subseteq Expressions
    BY RuleTreeAssumption DEF Tags
<1>1. n \in Nat /\ DOMAIN s = 1 .. n
    BY LenProperties
<1>2. ASSUME NEW x PROVE TagsOf(x) \subseteq Tags /\ IsFiniteSet(TagsOf(x))
    <2>1. TagsOf(x) \subseteq Tags
        BY DEF TagsOf, Tags
    <2>2. TagsOf(x) = {} \/ \E y : TagsOf(x) = {y}
        BY DEF TagsOf
    <2> QED
        BY <2>1, <2>2, FS_EmptySet, FS_Singleton
<1>3. ASSUME NEW i
      PROVE  SetToSeq(new(i)) \in Seq(Expressions) /\ ToSet(SetToSeq(new(i))) \subseteq Tags
    <2>1. new(i) \in SUBSET TagsOf(s[i]) /\ IsFiniteSet(TagsOf(s[i])) /\ TagsOf(s[i]) \subseteq Tags
        BY <1>2
    <2> HIDE DEF new
    <2>2. IsFiniteSet(new(i)) /\ new(i) \subseteq Expressions
        BY <1>0, <2>1, FS_Subset
    <2>3. SetToSeq(new(i)) \in Seq(new(i)) /\ ToSet(SetToSeq(new(i))) = new(i)
        BY <2>2, SetToSeqElements
    <2> QED
        BY <2>1, <2>2, <2>3
<1>4. WithTags(s) = FlattenSeq(pieces) \o s
    BY DEF WithTags
<1> HIDE DEF new
<1>5. /\ pieces \in Seq(Seq(Expressions)) /\ DOMAIN pieces = 1 .. n
      /\ \A i \in 1 .. n : ToSet(pieces[i]) \subseteq Tags
    BY <1>1, <1>3, IsASeq
<1> HIDE DEF pieces
<1>6. /\ FlattenSeq(pieces) \in Seq(Expressions)
      /\ ToSet(FlattenSeq(pieces)) = UNION {ToSet(pieces[i]) : i \in DOMAIN pieces}
    BY <1>5, FlattenElements
<1>7. ToSet(FlattenSeq(pieces)) \subseteq Tags
    BY <1>5, <1>6
<1>8. /\ FlattenSeq(pieces) \o s \in Seq(Expressions)
      /\ ToSet(FlattenSeq(pieces) \o s) = ToSet(FlattenSeq(pieces)) \cup ToSet(s)
    BY <1>6, ToSetConcat, ConcatProperties
<1> QED
    BY <1>4, <1>7, <1>8

\* What the parser adds to a segment changes the events it matches only by
\* the tags.
LEMMA ParsedSegment ==
    ASSUME treeConfig \in TreeConfigs, NEW s \in Seq(Expressions), s # <<>>, Sortable(s)
    PROVE  LET t == WithTags(WithExists(Sorted(s)))
           IN  /\ t \in Seq(Expressions) /\ t # <<>>
               /\ \A v \in Events :
                    /\ ToSet(t) \subseteq Fulfilled(v) => ToSet(s) \subseteq Fulfilled(v)
                    /\ TagsSet(v) /\ ToSet(s) \subseteq Fulfilled(v) => ToSet(t) \subseteq Fulfilled(v)
<1> DEFINE a == Sorted(s)
           b == WithExists(a)
           t == WithTags(b)
<1>1. a \in Seq(Expressions) /\ ToSet(a) = ToSet(s)
    BY SortedElements
<1> HIDE DEF a
<1>2. /\ b \in Seq(Expressions) /\ ToSet(a) \subseteq ToSet(b)
      /\ ToSet(b) \subseteq ToSet(a) \cup ImpliedExists(a)
    BY <1>1, WithExistsElements
<1> HIDE DEF b
<1>3. t \in Seq(Expressions) /\ ToSet(b) \subseteq ToSet(t) /\ ToSet(t) \subseteq ToSet(b) \cup Tags
    BY <1>2, WithTagsElements
<1> HIDE DEF t
<1>4. ToSet(s) # {}
    <2>1. s[1] \in ToSet(s)
        BY ToSetHeadTail, EmptySeq, LenProperties DEF ToSet
    <2> QED
        BY <2>1
<1>5. t # <<>>
    BY <1>1, <1>2, <1>3, <1>4, ToSetEmpty
<1>6. ASSUME NEW v \in Events, ToSet(a) \subseteq Fulfilled(v)
      PROVE  ImpliedExists(a) \subseteq Fulfilled(v)
    <2> SUFFICES ASSUME NEW x \in ToSet(a), x.op = "string"
                 PROVE  Leaf("exists", x.key) \in Fulfilled(v)
        BY DEF ImpliedExists
    <2> DEFINE l == Leaf("exists", x.key)
    <2>1. x \in Expressions /\ v \in MatchedBy[x]
        BY <1>6 DEF Fulfilled
    <2>2. l \in Expressions /\ l.op = "exists" /\ l.key = x.key
        BY <2>1, Shape DEF KeyBased, Leaf
    <2>3. v[x.key] = "wanted"
        BY <2>1, MatchedByEquation
    <2> HIDE DEF l
    <2>4. v \in MatchedBy[l]
        BY <2>2, <2>3, MatchedByEquation
    <2> QED
        BY <2>2, <2>4 DEF Fulfilled, l
<1>7. ASSUME NEW v \in Events, TagsSet(v) PROVE Tags \subseteq Fulfilled(v)
    BY <1>7, RuleTreeAssumption DEF Tags, TagsSet, Matches, Fulfilled
<1>8. ASSUME NEW v \in Events, ToSet(t) \subseteq Fulfilled(v) PROVE ToSet(s) \subseteq Fulfilled(v)
    BY <1>1, <1>2, <1>3, <1>8
<1>9. ASSUME NEW v \in Events, TagsSet(v), ToSet(s) \subseteq Fulfilled(v)
      PROVE  ToSet(t) \subseteq Fulfilled(v)
    <2>1. ToSet(b) \subseteq Fulfilled(v)
        BY <1>1, <1>2, <1>6, <1>9
    <2> QED
        BY <1>3, <1>7, <1>9, <2>1
<1> QED
    BY <1>3, <1>5, <1>8, <1>9 DEF t, b, a

\* A parsed rule matches an event only if its filter does, and, once the tags
\* are set, whenever it does.
LEMMA ParsedRule ==
    ASSUME treeConfig \in TreeConfigs, NEW e \in Expressions, Parses(Segments[e])
    PROVE  LET P == ParseRule(Segments[e])
           IN  /\ P \in Seq(Seq(Expressions))
               /\ \A i \in DOMAIN P : P[i] \in Seq(Expressions) /\ P[i] # <<>>
               /\ \A v \in Events :
                    /\ \A i \in DOMAIN P : ToSet(P[i]) \subseteq Fulfilled(v) => Matches(e, v)
                    /\ TagsSet(v) /\ Matches(e, v) =>
                        \E i \in DOMAIN P : ToSet(P[i]) \subseteq Fulfilled(v)
<1> DEFINE D == Segments[e]
           t(i) == WithTags(WithExists(Sorted(D[i])))
           P == [i \in DOMAIN D |-> t(i)]
<1>1. /\ D \in Seq(Seq(Expressions)) /\ <<>> \notin ToSet(D)
      /\ \A v \in Events : Holds(D, Fulfilled(v)) <=> v \in MatchedBy[e]
    BY SegmentsEquation, SegmentsMatch
<1>2. Parses(D)
    OBVIOUS
<1> HIDE DEF D
<1>3. DOMAIN D = 1 .. Len(D) /\ Len(D) \in Nat /\ \A i \in DOMAIN D : D[i] \in Seq(Expressions) /\ D[i] \in ToSet(D)
    BY <1>1, LenProperties, ElementOfSeq DEF ToSet
<1>4. \A i \in DOMAIN D : D[i] # <<>> /\ Sortable(D[i])
    BY <1>1, <1>2, <1>3 DEF Parses, Sortable
<1>5. ASSUME NEW i \in DOMAIN D
      PROVE  /\ t(i) \in Seq(Expressions) /\ t(i) # <<>>
             /\ \A v \in Events :
                  /\ ToSet(t(i)) \subseteq Fulfilled(v) => ToSet(D[i]) \subseteq Fulfilled(v)
                  /\ TagsSet(v) /\ ToSet(D[i]) \subseteq Fulfilled(v) => ToSet(t(i)) \subseteq Fulfilled(v)
    BY <1>3, <1>4, ParsedSegment
<1>6. ParseRule(D) = P
    BY DEF ParseRule
<1> HIDE DEF t
<1>7. /\ P \in Seq(Seq(Expressions)) /\ DOMAIN P = DOMAIN D
      /\ \A i \in DOMAIN D : P[i] = t(i)
    BY <1>3, <1>5, IsASeq
<1> HIDE DEF P
<1>8. ASSUME NEW v \in Events, NEW i \in DOMAIN D, ToSet(t(i)) \subseteq Fulfilled(v)
      PROVE  v \in MatchedBy[e]
    BY <1>1, <1>3, <1>5, <1>8 DEF Holds
<1>9. ASSUME NEW v \in Events, TagsSet(v), v \in MatchedBy[e]
      PROVE  \E i \in DOMAIN D : ToSet(t(i)) \subseteq Fulfilled(v)
    <2>1. PICK i \in DOMAIN D : ToSet(D[i]) \subseteq Fulfilled(v)
        BY <1>1, <1>9 DEF Holds, ToSet
    <2> QED
        BY <1>5, <1>9, <2>1
<1>10. /\ P \in Seq(Seq(Expressions))
       /\ \A i \in DOMAIN P : P[i] \in Seq(Expressions) /\ P[i] # <<>>
    BY <1>5, <1>7
<1>11. \A v \in Events :
            /\ \A i \in DOMAIN P : ToSet(P[i]) \subseteq Fulfilled(v) => Matches(e, v)
            /\ TagsSet(v) /\ Matches(e, v) =>
                \E i \in DOMAIN P : ToSet(P[i]) \subseteq Fulfilled(v)
    BY <1>7, <1>8, <1>9 DEF Matches
<1> QED
    BY <1>6, <1>10, <1>11 DEF D

(***************************************************************************)
(* The nodes of the tree.                                                  *)
(***************************************************************************)
Node == [parent : Nat, expression : Expressions, matching : Seq(Nat)]
Trees == {nodes \in Seq(Node) : \A n \in DOMAIN nodes : nodes[n].parent < n}

\* The expressions on the way to a node.
AreConditions(C, nodes) ==
    /\ C \in [0 .. Len(nodes) -> SUBSET Expressions]
    /\ \A n \in 0 .. Len(nodes) :
        C[n] = IF n = 0 THEN {} ELSE C[nodes[n].parent] \cup {nodes[n].expression}
Conditions(nodes) == CHOOSE C : AreConditions(C, nodes)

\* The nodes of a tree, and their parents, which are older.
LEMMA TreeShape ==
    ASSUME NEW nodes \in Trees
    PROVE  /\ Len(nodes) \in Nat /\ DOMAIN nodes = 1 .. Len(nodes) /\ nodes \in Seq(Node)
           /\ \A n \in 1 .. Len(nodes) :
                /\ nodes[n] \in Node /\ nodes[n].parent \in 0 .. Len(nodes)
                /\ nodes[n].parent < n /\ nodes[n].expression \in Expressions
                /\ nodes[n].matching \in Seq(Nat)
<1>1. /\ Len(nodes) \in Nat /\ DOMAIN nodes = 1 .. Len(nodes) /\ nodes \in Seq(Node)
      /\ \A n \in 1 .. Len(nodes) : nodes[n].parent < n /\ nodes[n] \in Node
    BY LenProperties, ElementOfSeq DEF Trees
<1>2. ASSUME NEW n \in 1 .. Len(nodes)
      PROVE  /\ nodes[n].parent \in 0 .. Len(nodes)
             /\ nodes[n].expression \in Expressions /\ nodes[n].matching \in Seq(Nat)
    <2>1. /\ nodes[n].parent \in Nat /\ nodes[n].expression \in Expressions
          /\ nodes[n].matching \in Seq(Nat)
        BY <1>1 DEF Node
    <2> QED
        BY <1>1, <2>1
<1> QED
    BY <1>1, <1>2

\* The conditions of a node are its expression and those of its parent.
LEMMA ConditionsEquation ==
    ASSUME NEW nodes \in Trees
    PROVE  AreConditions(Conditions(nodes), nodes)
<1> DEFINE D == 0 .. Len(nodes)
           V == SUBSET Expressions
           at(f, n) == IF n = 0 THEN {} ELSE f[nodes[n].parent] \cup {nodes[n].expression}
           G == [n \in D |-> [f \in [D -> V] |-> at(f, n)]]
           h == [n \in D |-> n]
<1>0. Len(nodes) \in Nat /\ \A n \in D : n # 0 =>
        /\ nodes[n].parent \in D /\ nodes[n].expression \in Expressions
        /\ h[nodes[n].parent] < h[n]
    <2>1. \A n \in D : n # 0 => n \in 1 .. Len(nodes)
        BY TreeShape
    <2> QED
        BY <2>1, TreeShape
<1>1. ASSUME NEW f \in [D -> V], NEW n \in D PROVE at(f, n) \in V
    <2>1. CASE n = 0
        BY <2>1
    <2>2. CASE n # 0
        <3>1. f[nodes[n].parent] \in V /\ {nodes[n].expression} \in V
            BY <1>0, <2>2
        <3> QED
            BY <2>2, <3>1
    <2> QED
        BY <2>1, <2>2
<1>2. ASSUME NEW f \in [D -> V], NEW g \in [D -> V], NEW n \in D,
             \A m \in D : h[m] < h[n] => f[m] = g[m]
      PROVE  at(f, n) = at(g, n)
    BY <1>0, <1>2
<1>3. V # {} /\ h \in [D -> Nat]
    BY <1>0
<1> HIDE DEF at, h, D, V
<1>4. G \in [D -> [[D -> V] -> V]] /\ \A f \in [D -> V], n \in D : G[n][f] = at(f, n)
    BY <1>1
<1> HIDE DEF G
<1>5. ASSUME NEW f \in [D -> V], NEW g \in [D -> V], NEW n \in D,
             \A m \in D : h[m] < h[n] => f[m] = g[m]
      PROVE  G[n][f] = G[n][g]
    <2>1. at(f, n) = at(g, n)
        BY <1>2, <1>5
    <2> QED
        BY <1>4, <2>1
<1>6. Descending(D, V, h, G)
    BY <1>4, <1>5 DEF Descending
<1>7. Solvable(D, V, G)
    BY <1>3, <1>6, RecursiveFunction
<1>8. PICK f \in [D -> V] : \A n \in D : f[n] = G[n][f]
    BY <1>7 DEF Solvable
<1>9. \A n \in D : f[n] = at(f, n)
    BY <1>4, <1>8
<1>10. AreConditions(f, nodes)
    BY <1>9 DEF AreConditions, D, V, at
<1> QED
    BY <1>10 DEF Conditions

\* A tree that has the nodes of another has their conditions.
Kept(a, b) ==
    /\ Len(a) <= Len(b)
    /\ \A n \in DOMAIN a : /\ b[n].parent = a[n].parent /\ b[n].expression = a[n].expression
                           /\ ToSet(a[n].matching) \subseteq ToSet(b[n].matching)

\* A node keeps its conditions when nodes or rules are added.
LEMMA ConditionsKept ==
    ASSUME NEW a \in Trees, NEW b \in Trees, Kept(a, b)
    PROVE  \A n \in 0 .. Len(a) : Conditions(b)[n] = Conditions(a)[n]
<1> DEFINE D == 0 .. Len(a)
           h == [n \in D |-> n]
           T == {n \in D : Conditions(b)[n] = Conditions(a)[n]}
<1>1. /\ Len(a) \in Nat /\ Len(b) \in Nat /\ Len(a) <= Len(b) /\ D \subseteq 0 .. Len(b)
      /\ h \in [D -> Nat]
    BY TreeShape DEF Kept
<1>2. ASSUME NEW n \in D, \A m \in D : h[m] < h[n] => m \in T
      PROVE  n \in T
    <2>1. CASE n = 0
        BY <1>1, <2>1, ConditionsEquation DEF AreConditions
    <2>2. CASE n # 0
        <3>1. n \in 1 .. Len(a) /\ n \in DOMAIN a
            BY <1>1, <2>2, TreeShape
        <3> DEFINE p == a[n].parent
        <3>2. p \in D /\ h[p] < h[n]
            BY <3>1, TreeShape
        <3>3. Conditions(b)[p] = Conditions(a)[p]
            BY <1>2, <3>2
        <3>4. Conditions(a)[n] = Conditions(a)[p] \cup {a[n].expression}
            BY <2>2, ConditionsEquation DEF AreConditions
        <3>5. Conditions(b)[n] = Conditions(b)[b[n].parent] \cup {b[n].expression}
            BY <1>1, <2>2, ConditionsEquation DEF AreConditions
        <3>6. b[n].parent = p /\ b[n].expression = a[n].expression
            BY <3>1 DEF Kept
        <3> QED
            BY <3>3, <3>4, <3>5, <3>6
    <2> QED
        BY <2>1, <2>2
<1> HIDE DEF D, h, T
<1>3. D \subseteq T
    BY <1>1, <1>2, HeightInduction
<1> QED
    BY <1>3 DEF D, T

\* On the way down nodes are added, but no rules.
Paths == {p \in [nodes : Trees, at : Nat] : p.at \in 0 .. Len(p.nodes)}
Grown(a, b) ==
    /\ Kept(a, b)
    /\ \A n \in DOMAIN b : \A r \in ToSet(b[n].matching) :
            n \in DOMAIN a /\ r \in ToSet(a[n].matching)

\* To keep what is there is transitive and reflexive ...
LEMMA KeptTransitive ==
    ASSUME NEW a \in Trees, NEW b \in Trees, NEW c \in Trees, Kept(a, b), Kept(b, c)
    PROVE  Kept(a, c)
<1>1. /\ DOMAIN a = 1 .. Len(a) /\ DOMAIN b = 1 .. Len(b)
      /\ Len(a) \in Nat /\ Len(b) \in Nat /\ Len(c) \in Nat
    BY TreeShape
<1>2. Len(a) <= Len(b) /\ Len(b) <= Len(c)
    BY DEF Kept
<1>3. \A n \in DOMAIN a : n \in DOMAIN b
    BY <1>1, <1>2
<1>4. ASSUME NEW n \in DOMAIN a
      PROVE  /\ c[n].parent = a[n].parent /\ c[n].expression = a[n].expression
             /\ ToSet(a[n].matching) \subseteq ToSet(c[n].matching)
    BY <1>3 DEF Kept
<1>5. Len(a) <= Len(c)
    BY <1>1, <1>2
<1> QED
    BY <1>4, <1>5 DEF Kept

LEMMA KeptReflexive ==
    ASSUME NEW a \in Trees
    PROVE  Kept(a, a)
BY TreeShape DEF Kept

\* One node down.
LEMMA DescendStep ==
    ASSUME NEW p \in Paths, NEW e \in Expressions
    PROVE  LET q == Descend(p, e)
           IN  /\ q \in Paths /\ q.at # 0 /\ Grown(p.nodes, q.nodes)
               /\ Conditions(q.nodes)[q.at] = Conditions(p.nodes)[p.at] \cup {e}
<1> DEFINE a == p.nodes
           at == p.at
           found == {n \in DOMAIN a : a[n].parent = at /\ a[n].expression = e}
           q == Descend(p, e)
<1>1. a \in Trees /\ at \in 0 .. Len(a) /\ Len(a) \in Nat /\ DOMAIN a = 1 .. Len(a)
    BY TreeShape DEF Paths
<1>2. p = [nodes |-> a, at |-> at]
    BY DEF Paths
<1>3. CASE found # {}
    <2> DEFINE n == CHOOSE m \in found : TRUE
    <2>1. n \in found
        BY <1>3
    <2>2. q = [p EXCEPT !.at = n]
        BY <1>3 DEF Descend
    <2> HIDE DEF n
    <2>3. q = [nodes |-> a, at |-> n]
        BY <1>2, <2>2
    <2>4. n \in 1 .. Len(a) /\ n \in Nat /\ n # 0
        BY <1>1, <2>1
    <2> HIDE DEF q
    <2>5. q \in Paths
        BY <1>1, <2>3, <2>4 DEF Paths
    <2>6. Grown(a, a)
        BY <1>1, KeptReflexive DEF Grown
    <2>7. Conditions(a)[n] = Conditions(a)[at] \cup {e}
        <3>1. n \in 0 .. Len(a)
            BY <2>4
        <3>2. Conditions(a)[n] = Conditions(a)[a[n].parent] \cup {a[n].expression}
            BY <1>1, <2>4, <3>1, ConditionsEquation DEF AreConditions
        <3>3. a[n].parent = at /\ a[n].expression = e
            BY <2>1
        <3> QED
            BY <3>2, <3>3
    <2> QED
        BY <2>3, <2>4, <2>5, <2>6, <2>7 DEF q
<1>4. CASE found = {}
    <2> DEFINE node == [parent |-> at, expression |-> e, matching |-> <<>>]
               b == Append(a, node)
               n == Len(a) + 1
    <2>1. q = [nodes |-> b, at |-> n]
        BY <1>4 DEF Descend
    <2>2. node \in Node /\ node.parent = at /\ node.expression = e /\ node.matching = <<>>
        BY <1>1, EmptySeq DEF Node
    <2> HIDE DEF node
    <2>3. /\ b \in Seq(Node) /\ Len(b) = n /\ DOMAIN b = 1 .. n /\ n \in Nat /\ n # 0 /\ b[n] = node
          /\ \A m \in 1 .. Len(a) : b[m] = a[m]
        BY <1>1, <2>2, TreeShape, AppendProperties, LenProperties
    <2> HIDE DEF b
    <2>4. ASSUME NEW m \in 1 .. n, m # n PROVE m \in 1 .. Len(a)
        BY <1>1, <2>4
    <2>5. b \in Trees
        <3>1. \A m \in 1 .. Len(a) : b[m].parent < m
            BY <1>1, <2>3, TreeShape
        <3>2. b[n].parent < n
            BY <1>1, <2>2, <2>3
        <3> QED
            BY <2>3, <2>4, <3>1, <3>2 DEF Trees
    <2>6. Kept(a, b)
        BY <1>1, <2>3 DEF Kept
    <2>7. Grown(a, b)
        <3>1. \A m \in 1 .. Len(a) : m \in DOMAIN a /\ b[m].matching = a[m].matching
            BY <1>1, <2>3
        <3>2. ToSet(b[n].matching) = {}
            BY <2>2, <2>3, ToSetEmpty
        <3> QED
            BY <2>3, <2>4, <2>6, <3>1, <3>2 DEF Grown
    <2>8. Conditions(b)[n] = Conditions(a)[at] \cup {e}
        <3>1. n \in 0 .. Len(b)
            BY <2>3
        <3>2. Conditions(b)[n] = Conditions(b)[b[n].parent] \cup {b[n].expression}
            BY <2>3, <2>5, <3>1, ConditionsEquation DEF AreConditions
        <3>3. Conditions(b)[at] = Conditions(a)[at]
            BY <1>1, <2>5, <2>6, ConditionsKept
        <3> QED
            BY <2>2, <2>3, <3>2, <3>3
    <2>9. n \in 0 .. Len(b)
        BY <2>3
    <2> HIDE DEF n, q
    <2>10. q \in Paths
        BY <2>1, <2>3, <2>5, <2>9 DEF Paths
    <2> QED
        BY <2>1, <2>3, <2>7, <2>8, <2>10 DEF q
<1> HIDE DEF q
<1> QED
    BY <1>3, <1>4 DEF q

\* ... and so is to grow.
LEMMA GrownTransitive ==
    ASSUME NEW a \in Trees, NEW b \in Trees, NEW c \in Trees, Grown(a, b), Grown(b, c)
    PROVE  Grown(a, c)
<1>1. Kept(a, c)
    BY KeptTransitive DEF Grown
<1> QED
    BY <1>1 DEF Grown

LEMMA GrownReflexive ==
    ASSUME NEW a \in Trees
    PROVE  Grown(a, a)
BY KeptReflexive DEF Grown

\* The path of a segment, node by node.
LEMMA SegmentPath ==
    ASSUME NEW nodes \in Trees, NEW s \in Seq(Expressions), s # <<>>
    PROVE  LET path[i \in 0 .. Len(s)] ==
                    IF i = 0 THEN [nodes |-> nodes, at |-> 0] ELSE Descend(path[i - 1], s[i])
               q == path[Len(s)]
           IN  /\ q \in Paths /\ q.at # 0 /\ Grown(nodes, q.nodes)
               /\ Conditions(q.nodes)[q.at] = ToSet(s)
<1> DEFINE k == Len(s)
           start == [nodes |-> nodes, at |-> 0]
           step == [i \in 1 .. k |-> [p \in Paths |-> Descend(p, s[i])]]
           at(f, i) == IF i = 0 THEN start ELSE Descend(f[i - 1], s[i])
           path == CHOOSE f : f = [i \in 0 .. k |-> at(f, i)]
<1>1. k \in Nat /\ k # 0 /\ DOMAIN s = 1 .. k /\ \A i \in 1 .. k : s[i] \in Expressions
    BY LenProperties, ElementOfSeq, EmptySeq
<1>2. start \in Paths
    BY TreeShape DEF Paths
<1>3. \A p \in Paths, i \in 1 .. k : Descend(p, s[i]) \in Paths
    BY <1>1, DescendStep
<1>4. /\ step \in [1 .. k -> [Paths -> Paths]]
      /\ \A i \in 1 .. k, p \in Paths : step[i][p] = Descend(p, s[i])
    BY <1>3
<1> HIDE DEF step, start, k
<1>5. Loops(Paths, start, k, step)
    BY <1>1, <1>2, <1>4, Iteration
<1>6. PICK f \in [0 .. k -> Paths] :
        \A i \in 0 .. k : f[i] = IF i = 0 THEN start ELSE step[i][f[i - 1]]
    BY <1>5 DEF Loops
<1>7. \A i \in 1 .. k : i \in 0 .. k /\ i - 1 \in 0 .. k /\ i # 0
    BY <1>1
<1>8. \A i \in 0 .. k : f[i] = at(f, i)
    <2> SUFFICES ASSUME NEW i \in 0 .. k, i # 0 PROVE f[i] = Descend(f[i - 1], s[i])
        BY <1>6
    <2>1. i \in 1 .. k
        BY <1>1
    <2> QED
        BY <1>4, <1>6, <1>7, <2>1
<1>9. f = [i \in 0 .. k |-> at(f, i)]
    <2> HIDE DEF at
    <2> QED
        BY <1>6, <1>8
<1>10. path = [i \in 0 .. k |-> at(path, i)]
    <2> HIDE DEF at
    <2> QED
        BY <1>9
<1>11. \A i \in 0 .. k : path[i] = at(path, i)
    <2> HIDE DEF at, path
    <2> QED
        BY <1>10
<1> HIDE DEF path
<1>12. path[0] = start /\ \A i \in 1 .. k : path[i] = Descend(path[i - 1], s[i])
    BY <1>1, <1>7, <1>11
<1> DEFINE Members1(i) == {s[j] : j \in 1 .. i}
           T == {i \in 0 .. k :
                    /\ path[i] \in Paths /\ Grown(nodes, path[i].nodes)
                    /\ i # 0 => path[i].at # 0
                    /\ Conditions(path[i].nodes)[path[i].at] = Members1(i)}
<1>13. 0 \in T
    <2>1. path[0].nodes = nodes /\ path[0].at = 0 /\ path[0] \in Paths
        BY <1>2, <1>12 DEF start
    <2>2. Conditions(nodes)[0] = {}
        <3>1. 0 \in 0 .. Len(nodes)
            BY TreeShape
        <3> QED
            BY <3>1, ConditionsEquation DEF AreConditions
    <2>3. Members1(0) = {}
        OBVIOUS
    <2>4. Grown(nodes, nodes)
        BY GrownReflexive
    <2> HIDE DEF Members1
    <2> QED
        BY <1>1, <2>1, <2>2, <2>3, <2>4
<1>14. ASSUME NEW i \in 1 .. k, i - 1 \in T PROVE i \in T
    <2> DEFINE p == path[i - 1]
               q == path[i]
    <2>1. p \in Paths /\ Grown(nodes, p.nodes) /\ Conditions(p.nodes)[p.at] = Members1(i - 1)
        BY <1>14
    <2>2. q = Descend(p, s[i]) /\ s[i] \in Expressions
        BY <1>1, <1>12
    <2>3. Members1(i) = Members1(i - 1) \cup {s[i]}
        <3>1. 1 .. i = (1 .. i - 1) \cup {i}
            BY <1>1
        <3> QED
            BY <3>1
    <2> HIDE DEF p, q, Members1
    <2>4. /\ q \in Paths /\ q.at # 0 /\ Grown(p.nodes, q.nodes)
          /\ Conditions(q.nodes)[q.at] = Conditions(p.nodes)[p.at] \cup {s[i]}
        BY <2>1, <2>2, DescendStep
    <2>5. p.nodes \in Trees /\ q.nodes \in Trees
        BY <2>1, <2>4 DEF Paths
    <2>6. Grown(nodes, q.nodes)
        BY <2>1, <2>4, <2>5, GrownTransitive
    <2> QED
        BY <1>7, <2>1, <2>3, <2>4, <2>6 DEF q
<1>15. k \in T
    <2> HIDE DEF T
    <2>1. 0 .. k \subseteq T
        BY <1>1, <1>13, <1>14, CountingUp
    <2> QED
        BY <1>1, <2>1
<1>16. Members1(k) = ToSet(s)
    BY <1>1 DEF ToSet
<1> DEFINE q == path[k]
<1>17. /\ q \in Paths /\ q.at # 0 /\ Grown(nodes, q.nodes)
       /\ Conditions(q.nodes)[q.at] = ToSet(s)
    BY <1>1, <1>15, <1>16
<1> HIDE DEF q, Members1
<1> QED
    BY <1>17 DEF q, path, k, start

\* The node that segment s leads to has the last of the rules rs in b, or an
\* equal one; no other node has more rules than in a.
Joined(a, b, s, rs) ==
    \E at \in DOMAIN b :
        /\ Conditions(b)[at] = ToSet(s)
        /\ \E m \in ToSet(b[at].matching) : Equal(rs[Len(rs)], rs[m])
        /\ \A n \in DOMAIN b : \A r \in ToSet(b[n].matching) :
             \/ n \in DOMAIN a /\ r \in ToSet(a[n].matching)
             \/ n = at /\ r = Len(rs)

\* Adding a segment does that.
LEMMA SegmentAdded ==
    ASSUME NEW nodes \in Trees, NEW s \in Seq(Expressions), s # <<>>, NEW rs, Len(rs) \in Nat
    PROVE  LET b == AddSegment(nodes, s, rs)
           IN  /\ b \in Trees /\ Kept(nodes, b)
               /\ Joined(nodes, b, s, rs)
<1> DEFINE path == CHOOSE f : f = [i \in 0 .. Len(s) |->
                        IF i = 0 THEN [nodes |-> nodes, at |-> 0] ELSE Descend(f[i - 1], s[i])]
           q == path[Len(s)]
           a == q.nodes
           at == q.at
           last == Len(rs)
           b == JoinNode(a, at, rs)
<1>1. q \in Paths /\ at # 0 /\ Grown(nodes, a) /\ Conditions(a)[at] = ToSet(s)
    BY SegmentPath
<1>2. AddSegment(nodes, s, rs) = b
    BY DEF AddSegment
<1> HIDE DEF q
<1>3. a \in Trees /\ at \in 1 .. Len(a) /\ DOMAIN a = 1 .. Len(a) /\ Len(a) \in Nat
    <2>1. a \in Trees /\ at \in 0 .. Len(a)
        BY <1>1 DEF Paths
    <2>2. Len(a) \in Nat /\ DOMAIN a = 1 .. Len(a)
        BY <2>1, TreeShape
    <2> QED
        BY <1>1, <2>1, <2>2
<1> HIDE DEF a, at
<1>4. \A n \in DOMAIN a : \A r \in ToSet(a[n].matching) :
            n \in DOMAIN nodes /\ r \in ToSet(nodes[n].matching)
    BY <1>1 DEF Grown
<1>5. Kept(nodes, a)
    BY <1>1 DEF Grown
<1>6. CASE \E r \in ToSet(a[at].matching) : Equal(rs[r], rs[last])
    <2>1. b = a
        BY <1>6 DEF JoinNode
    <2>2. \E m \in ToSet(a[at].matching) : Equal(rs[last], rs[m])
        BY <1>6 DEF Equal
    <2> HIDE DEF b
    <2> QED
        BY <1>1, <1>2, <1>3, <1>4, <1>5, <2>1, <2>2 DEF Joined
<1>7. CASE ~ \E r \in ToSet(a[at].matching) : Equal(rs[r], rs[last])
    <2> DEFINE x == a[at]
               y == [x EXCEPT !.matching = Append(@, last)]
    <2>1. b = [a EXCEPT ![at] = y]
        BY <1>7 DEF JoinNode
    <2>2. x \in Node /\ x.matching \in Seq(Nat) /\ a \in Seq(Node)
        BY <1>3, TreeShape
    <2> HIDE DEF x
    <2>3. /\ y.parent = x.parent /\ y.expression = x.expression
          /\ y.matching = Append(x.matching, last)
        BY <2>2 DEF Node
    <2>4. /\ Append(x.matching, last) \in Seq(Nat)
          /\ ToSet(Append(x.matching, last)) = ToSet(x.matching) \cup {last}
        <3> DEFINE ms == x.matching
        <3> HIDE DEF ms, last
        <3>1. ms \in Seq(Nat) /\ last \in Nat
            BY <2>2 DEF ms, last
        <3>2. Append(ms, last) \in Seq(Nat) /\ ToSet(Append(ms, last)) = ToSet(ms) \cup {last}
            BY <3>1, ToSetAppend, AppendProperties
        <3> QED
            BY <3>2 DEF ms
    <2>5. y \in Node
        BY <2>2, <2>4 DEF Node
    <2> HIDE DEF y
    <2>6. /\ b \in Seq(Node) /\ Len(b) = Len(a) /\ DOMAIN b = DOMAIN a
          /\ b[at] = y /\ \A n \in DOMAIN a : n # at => b[n] = a[n]
        <3>1. [a EXCEPT ![at] = y] \in Seq(Node) /\ Len([a EXCEPT ![at] = y]) = Len(a)
            BY <1>3, <2>2, <2>5, ExceptSeq
        <3> QED
            BY <1>3, <2>1, <2>2, <2>5, <3>1
    <2> HIDE DEF b
    <2>7. \A n \in DOMAIN a : /\ b[n].parent = a[n].parent /\ b[n].expression = a[n].expression
                              /\ ToSet(a[n].matching) \subseteq ToSet(b[n].matching)
        BY <2>3, <2>4, <2>6 DEF x
    <2>8. b \in Trees
        BY <1>3, <2>6, <2>7 DEF Trees
    <2>9. Kept(a, b)
        <3>1. Len(a) <= Len(b)
            BY <1>3, <2>6
        <3> QED
            BY <2>7, <3>1 DEF Kept
    <2>10. Kept(nodes, b)
        BY <1>3, <1>5, <2>8, <2>9, KeptTransitive
    <2>11. Conditions(b)[at] = ToSet(s)
        <3>1. at \in 0 .. Len(a)
            BY <1>3
        <3> QED
            BY <1>1, <1>3, <2>8, <2>9, <3>1, ConditionsKept DEF a, at
    <2>12. last \in ToSet(b[at].matching) /\ Equal(rs[last], rs[last])
        BY <2>3, <2>4, <2>6 DEF Equal
    <2>13. ASSUME NEW n \in DOMAIN b, NEW r \in ToSet(b[n].matching)
           PROVE  \/ n \in DOMAIN nodes /\ r \in ToSet(nodes[n].matching)
                  \/ n = at /\ r = last
        <3>1. r \in ToSet(a[n].matching) \/ (n = at /\ r = last)
            BY <2>3, <2>4, <2>6, <2>13 DEF x
        <3> QED
            BY <1>4, <2>6, <3>1
    <2> QED
        BY <1>2, <1>3, <2>6, <2>8, <2>10, <2>11, <2>12, <2>13 DEF Joined
<1> QED
    BY <1>6, <1>7

(***************************************************************************)
(* Rules in the tree.                                                      *)
(***************************************************************************)
\* A rule matches wherever all conditions of a node that has it do.
Sound(nodes, rs) ==
    \A n \in DOMAIN nodes : \A r \in ToSet(nodes[n].matching) :
        /\ r \in DOMAIN rs
        /\ \A v \in Events : Conditions(nodes)[n] \subseteq Fulfilled(v) => Matches(rs[r].given, v)

\* Some node under these conditions has the rule or an equal one.
IsUnder(nodes, rs, c, r) ==
    \E n \in DOMAIN nodes :
        Conditions(nodes)[n] = c /\ \E m \in ToSet(nodes[n].matching) : Equal(rs[r], rs[m])

\* A rule stays where it was found.
LEMMA KeptUnder ==
    ASSUME NEW a \in Trees, NEW b \in Trees, Kept(a, b), NEW rs, NEW c, NEW r, IsUnder(a, rs, c, r)
    PROVE  IsUnder(b, rs, c, r)
<1>1. PICK n \in DOMAIN a : Conditions(a)[n] = c /\ \E m \in ToSet(a[n].matching) : Equal(rs[r], rs[m])
    BY DEF IsUnder
<1>2. n \in 0 .. Len(a) /\ n \in DOMAIN b
    <2>1. /\ DOMAIN a = 1 .. Len(a) /\ DOMAIN b = 1 .. Len(b) /\ Len(a) \in Nat /\ Len(b) \in Nat
          /\ Len(a) <= Len(b)
        BY TreeShape DEF Kept
    <2> QED
        BY <2>1
<1>3. Conditions(b)[n] = c
    BY <1>1, <1>2, ConditionsKept
<1>4. ToSet(a[n].matching) \subseteq ToSet(b[n].matching)
    BY DEF Kept
<1> QED
    BY <1>1, <1>2, <1>3, <1>4 DEF IsUnder

\* All segments of the last rule are added.
LEMMA SegmentsAdded ==
    ASSUME NEW nodes \in Trees, NEW P \in Seq(Seq(Expressions)),
           \A i \in DOMAIN P : P[i] \in Seq(Expressions) /\ P[i] # <<>>,
           NEW rs, Len(rs) \in Nat, Len(rs) \in DOMAIN rs, Sound(nodes, rs),
           \A v \in Events : \A i \in DOMAIN P :
                ToSet(P[i]) \subseteq Fulfilled(v) => Matches(rs[Len(rs)].given, v)
    PROVE  LET b == AddSegments(nodes, P, rs)
           IN  /\ b \in Trees /\ Kept(nodes, b) /\ Sound(b, rs)
               /\ \A i \in DOMAIN P : IsUnder(b, rs, ToSet(P[i]), Len(rs))
<1> DEFINE k == Len(P)
           step == [i \in 1 .. k |-> [a \in Trees |-> AddSegment(a, P[i], rs)]]
           at(f, i) == IF i = 0 THEN nodes ELSE AddSegment(f[i - 1], P[i], rs)
           added == CHOOSE f : f = [i \in 0 .. k |-> at(f, i)]
           last == Len(rs)
<1>1. k \in Nat /\ DOMAIN P = 1 .. k
    BY LenProperties
<1>2. \A a \in Trees, i \in 1 .. k : AddSegment(a, P[i], rs) \in Trees
    BY <1>1, SegmentAdded
<1>3. AddSegments(nodes, P, rs) = added[k]
    BY DEF AddSegments
<1>4. /\ step \in [1 .. k -> [Trees -> Trees]]
      /\ \A i \in 1 .. k, a \in Trees : step[i][a] = AddSegment(a, P[i], rs)
    BY <1>2
<1> HIDE DEF step, k
<1>5. Loops(Trees, nodes, k, step)
    BY <1>1, <1>4, Iteration
<1>6. PICK f \in [0 .. k -> Trees] :
        \A i \in 0 .. k : f[i] = IF i = 0 THEN nodes ELSE step[i][f[i - 1]]
    BY <1>5 DEF Loops
<1>7. \A i \in 1 .. k : i \in 0 .. k /\ i - 1 \in 0 .. k /\ i # 0
    BY <1>1
<1>8. \A i \in 0 .. k : f[i] = at(f, i)
    <2> SUFFICES ASSUME NEW i \in 0 .. k, i # 0 PROVE f[i] = AddSegment(f[i - 1], P[i], rs)
        BY <1>6
    <2>1. i \in 1 .. k
        BY <1>1
    <2> QED
        BY <1>4, <1>6, <1>7, <2>1
<1>9. f = [i \in 0 .. k |-> at(f, i)]
    <2> HIDE DEF at
    <2> QED
        BY <1>6, <1>8
<1>10. added = [i \in 0 .. k |-> at(added, i)]
    <2> HIDE DEF at
    <2> QED
        BY <1>9
<1>11. \A i \in 0 .. k : added[i] = at(added, i)
    <2> HIDE DEF at, added
    <2> QED
        BY <1>10
<1> HIDE DEF added
<1>12. added[0] = nodes /\ \A i \in 1 .. k : added[i] = AddSegment(added[i - 1], P[i], rs)
    BY <1>1, <1>7, <1>11
<1> DEFINE T == {i \in 0 .. k :
                    /\ added[i] \in Trees /\ Kept(nodes, added[i]) /\ Sound(added[i], rs)
                    /\ \A j \in 1 .. i : IsUnder(added[i], rs, ToSet(P[j]), last)}
<1>13. 0 \in T
    <2>1. \A j \in 1 .. 0 : FALSE
        OBVIOUS
    <2> QED
        BY <1>1, <1>12, <2>1, KeptReflexive
<1>14. ASSUME NEW i \in 1 .. k, i - 1 \in T PROVE i \in T
    <2> DEFINE a == added[i - 1]
               b == added[i]
    <2>1. /\ a \in Trees /\ Kept(nodes, a) /\ Sound(a, rs)
          /\ \A j \in 1 .. i - 1 : IsUnder(a, rs, ToSet(P[j]), last)
        BY <1>14
    <2>2. b = AddSegment(a, P[i], rs) /\ i \in DOMAIN P
        BY <1>1, <1>12
    <2> HIDE DEF a, b
    <2>3. b \in Trees /\ Kept(a, b)
        BY <2>1, <2>2, SegmentAdded
    <2>4. PICK at1 \in DOMAIN b :
            /\ Conditions(b)[at1] = ToSet(P[i])
            /\ \E m \in ToSet(b[at1].matching) : Equal(rs[last], rs[m])
            /\ \A n \in DOMAIN b : \A r \in ToSet(b[n].matching) :
                    \/ n \in DOMAIN a /\ r \in ToSet(a[n].matching)
                    \/ n = at1 /\ r = last
        <3>1. Joined(a, b, P[i], rs)
            BY <2>1, <2>2, SegmentAdded
        <3> QED
            BY <3>1 DEF Joined
    <2>5. Kept(nodes, b)
        BY <2>1, <2>3, KeptTransitive
    <2>6. Sound(b, rs)
        <3> SUFFICES ASSUME NEW n \in DOMAIN b, NEW r \in ToSet(b[n].matching)
                     PROVE  /\ r \in DOMAIN rs
                            /\ \A v \in Events : Conditions(b)[n] \subseteq Fulfilled(v)
                                                    => Matches(rs[r].given, v)
            BY DEF Sound
        <3>1. CASE n \in DOMAIN a /\ r \in ToSet(a[n].matching)
            <4>1. n \in 0 .. Len(a)
                BY <2>1, <3>1, TreeShape
            <4>2. Conditions(b)[n] = Conditions(a)[n]
                BY <2>1, <2>3, <4>1, ConditionsKept
            <4> QED
                BY <2>1, <3>1, <4>2 DEF Sound
        <3>2. CASE n = at1 /\ r = last
            BY <2>2, <2>4, <3>2
        <3> QED
            BY <2>4, <3>1, <3>2
    <2>7. IsUnder(b, rs, ToSet(P[i]), last)
        BY <2>4 DEF IsUnder
    <2>8. ASSUME NEW j \in 1 .. i PROVE IsUnder(b, rs, ToSet(P[j]), last)
        <3>1. CASE j = i
            BY <2>7, <3>1
        <3>2. CASE j # i
            <4>1. j \in 1 .. i - 1
                BY <1>1, <3>2
            <4>2. IsUnder(a, rs, ToSet(P[j]), last)
                BY <2>1, <4>1
            <4> QED
                BY <2>1, <2>3, <4>2, KeptUnder
        <3> QED
            BY <3>1, <3>2
    <2> QED
        BY <1>7, <2>3, <2>5, <2>6, <2>8 DEF b
<1>15. k \in T
    <2> HIDE DEF T
    <2>1. 0 .. k \subseteq T
        BY <1>1, <1>13, <1>14, CountingUp
    <2> QED
        BY <1>1, <2>1
<1> DEFINE b == added[k]
<1>16. /\ b \in Trees /\ Kept(nodes, b) /\ Sound(b, rs)
       /\ \A i \in DOMAIN P : IsUnder(b, rs, ToSet(P[i]), last)
    BY <1>1, <1>15
<1>17. AddSegments(nodes, P, rs) = b
    BY <1>3
<1> HIDE DEF b
<1> QED
    BY <1>16, <1>17

\* What is found below a node: the rules of its children that match, and what
\* is found below those.
IsBelow(below, v) ==
    /\ below \in [0 .. Len(tree) -> Seq(Nat)]
    /\ \A n \in 0 .. Len(tree) : \A r : r \in ToSet(below[n]) <=>
            \E k \in DOMAIN tree : /\ tree[k].parent = n /\ v \in MatchedBy[tree[k].expression]
                                   /\ r \in ToSet(tree[k].matching) \/ r \in ToSet(below[k])

\* The recursion of Retrieve has a result.
LEMMA RetrieveBelow ==
    ASSUME tree \in Trees, NEW v \in Events
    PROVE  \E below : IsBelow(below, v) /\ Retrieve(v) = below[0]
<1> DEFINE D == 0 .. Len(tree)
           V == Seq(Nat)
           piece(f, n, k) == IF tree[k].parent = n /\ Matches(tree[k].expression, v)
                             THEN tree[k].matching \o f[k] ELSE <<>>
           at(f, n) == FlattenSeq([k \in DOMAIN tree |-> piece(f, n, k)])
           G == [n \in D |-> [f \in [D -> V] |-> at(f, n)]]
           h == [n \in D |-> Len(tree) - n]
           r == CHOOSE f : f = [n \in D |-> at(f, n)]
<1>0. /\ Len(tree) \in Nat /\ DOMAIN tree = 1 .. Len(tree)
      /\ \A k \in 1 .. Len(tree) :
            /\ tree[k].matching \in Seq(Nat) /\ tree[k].parent \in Nat /\ tree[k].parent < k
            /\ k \in D
    BY TreeShape
<1>00. h \in [D -> Nat] /\ \A k \in 1 .. Len(tree) : tree[k].parent \in D => h[k] < h[tree[k].parent]
    <2>1. \A n \in D : Len(tree) - n \in Nat
        BY <1>0
    <2> QED
        BY <1>0, <2>1
<1>1. ASSUME NEW f, NEW n \in D, \A m \in D : h[m] < h[n] => f[m] \in V
      PROVE  /\ \A k \in DOMAIN tree : piece(f, n, k) \in V
             /\ [k \in DOMAIN tree |-> piece(f, n, k)] \in Seq(V)
             /\ at(f, n) \in V
    <2>1. ASSUME NEW k \in DOMAIN tree PROVE piece(f, n, k) \in V
        <3>1. CASE tree[k].parent = n /\ Matches(tree[k].expression, v)
            <4>1. f[k] \in V
                BY <1>0, <1>00, <1>1, <3>1
            <4> QED
                BY <1>0, <3>1, <4>1, ConcatProperties
        <3>2. CASE ~ (tree[k].parent = n /\ Matches(tree[k].expression, v))
            BY <3>2, EmptySeq
        <3> QED
            BY <3>1, <3>2
    <2> HIDE DEF piece
    <2>2. [k \in DOMAIN tree |-> piece(f, n, k)] \in Seq(V)
        BY <1>0, <2>1, IsASeq
    <2> QED
        BY <2>1, <2>2, FlattenElements
<1>2. ASSUME NEW f, NEW g, NEW n \in D, \A m \in D : h[m] < h[n] => f[m] = g[m]
      PROVE  at(f, n) = at(g, n)
    <2>1. ASSUME NEW k \in DOMAIN tree PROVE piece(f, n, k) = piece(g, n, k)
        <3>1. tree[k].parent = n => f[k] = g[k]
            BY <1>0, <1>00, <1>2
        <3> QED
            BY <3>1
    <2> HIDE DEF piece
    <2>2. [k \in DOMAIN tree |-> piece(f, n, k)] = [k \in DOMAIN tree |-> piece(g, n, k)]
        BY <2>1
    <2> QED
        BY <2>2
<1>3. V # {}
    BY EmptySeq
<1>4. Retrieve(v) = r[0]
    BY DEF Retrieve
<1> HIDE DEF at, h, D
<1>5. G \in [D -> [[D -> V] -> V]] /\ \A f \in [D -> V], n \in D : G[n][f] = at(f, n)
    BY <1>1
<1> HIDE DEF G, V
<1>6. ASSUME NEW f \in [D -> V], NEW g \in [D -> V], NEW n \in D,
             \A m \in D : h[m] < h[n] => f[m] = g[m]
      PROVE  G[n][f] = G[n][g]
    <2>1. at(f, n) = at(g, n)
        BY <1>2, <1>6
    <2> QED
        BY <1>5, <2>1
<1>7. Descending(D, V, h, G)
    BY <1>5, <1>6 DEF Descending
<1>8. Solvable(D, V, G)
    BY <1>00, <1>3, <1>7, RecursiveFunction
<1>9. PICK f \in [D -> V] : \A n \in D : f[n] = G[n][f]
    BY <1>8 DEF Solvable
<1>10. f = [n \in D |-> at(f, n)]
    BY <1>5, <1>9
<1>11. r = [n \in D |-> at(r, n)]
    BY <1>10
<1> HIDE DEF r
<1>12. \A n \in D : r[n] = at(r, n)
    BY <1>11
<1> DEFINE T == {n \in D : r[n] \in V}
<1>13. D \subseteq T
    <2>1. ASSUME NEW n \in D, \A m \in D : h[m] < h[n] => m \in T PROVE n \in T
        <3>1. at(r, n) \in V
            BY <1>1, <2>1
        <3> QED
            BY <1>12, <3>1
    <2> HIDE DEF T
    <2> QED
        BY <1>00, <2>1, HeightInduction
<1>14. r \in [D -> V]
    BY <1>11, <1>13
<1>15. ASSUME NEW n \in D, NEW x
       PROVE  x \in ToSet(r[n]) <=>
            \E k \in DOMAIN tree : /\ tree[k].parent = n /\ v \in MatchedBy[tree[k].expression]
                                   /\ x \in ToSet(tree[k].matching) \/ x \in ToSet(r[k])
    <2> DEFINE pieces == [k \in DOMAIN tree |-> piece(r, n, k)]
    <2>1. pieces \in Seq(V) /\ \A k \in DOMAIN tree : piece(r, n, k) \in V
        BY <1>1, <1>14
    <2>2. DOMAIN pieces = DOMAIN tree /\ \A k \in DOMAIN tree : pieces[k] = piece(r, n, k)
        OBVIOUS
    <2>3. r[n] = FlattenSeq(pieces)
        BY <1>12 DEF at
    <2> HIDE DEF pieces
    <2>4. ToSet(FlattenSeq(pieces)) = UNION {ToSet(pieces[k]) : k \in DOMAIN pieces}
        BY <2>1, FlattenElements DEF V
    <2>5. ASSUME NEW k \in DOMAIN tree
          PROVE  x \in ToSet(pieces[k]) <=>
                    /\ tree[k].parent = n /\ v \in MatchedBy[tree[k].expression]
                    /\ x \in ToSet(tree[k].matching) \/ x \in ToSet(r[k])
        <3>1. CASE tree[k].parent = n /\ Matches(tree[k].expression, v)
            <4>1. pieces[k] = tree[k].matching \o r[k] /\ tree[k].matching \in Seq(Nat) /\ r[k] \in Seq(Nat)
                BY <1>0, <1>14, <2>2, <3>1 DEF V
            <4>2. ToSet(pieces[k]) = ToSet(tree[k].matching) \cup ToSet(r[k])
                BY <4>1, ToSetConcat
            <4> QED
                BY <3>1, <4>2 DEF Matches
        <3>2. CASE ~ (tree[k].parent = n /\ Matches(tree[k].expression, v))
            <4>1. pieces[k] = <<>>
                BY <2>2, <3>2
            <4> QED
                BY <3>2, <4>1, ToSetEmpty DEF Matches
        <3> QED
            BY <3>1, <3>2
    <2> QED
        BY <2>2, <2>3, <2>4, <2>5
<1>16. IsBelow(r, v)
    BY <1>14, <1>15 DEF IsBelow, D, V
<1> QED
    BY <1>4, <1>16

\* The tree yields the rules of the nodes of which all conditions hold.
LEMMA RetrieveElements ==
    ASSUME tree \in Trees, NEW v \in Events
    PROVE  /\ Retrieve(v) \in Seq(Nat)
           /\ \A r : r \in ToSet(Retrieve(v)) <=>
                \E n \in DOMAIN tree : /\ Conditions(tree)[n] \subseteq Fulfilled(v)
                                       /\ r \in ToSet(tree[n].matching)
<1>1. PICK below : IsBelow(below, v) /\ Retrieve(v) = below[0]
    BY RetrieveBelow
<1> DEFINE D == 0 .. Len(tree)
           C == Conditions(tree)
           M == Fulfilled(v)
<1>2. /\ Len(tree) \in Nat /\ DOMAIN tree = 1 .. Len(tree) /\ 0 \in D
      /\ \A k \in 1 .. Len(tree) : /\ k \in D /\ k # 0
                                   /\ tree[k].parent \in D /\ tree[k].parent < k
                                   /\ tree[k].expression \in Expressions
    BY TreeShape
<1>3. C[0] = {} /\ \A k \in 1 .. Len(tree) : C[k] = C[tree[k].parent] \cup {tree[k].expression}
    BY <1>2, ConditionsEquation DEF AreConditions
<1>4. /\ below[0] \in Seq(Nat)
      /\ \A n \in D : \A r : r \in ToSet(below[n]) <=>
            \E k \in DOMAIN tree : /\ tree[k].parent = n /\ v \in MatchedBy[tree[k].expression]
                                   /\ r \in ToSet(tree[k].matching) \/ r \in ToSet(below[k])
    BY <1>1, <1>2 DEF IsBelow
<1>5. \A k \in 1 .. Len(tree) : v \in MatchedBy[tree[k].expression] <=> tree[k].expression \in M
    BY <1>2 DEF Fulfilled
<1> HIDE DEF C, M
<1>6. ASSUME NEW x
      PROVE  x \in ToSet(below[0]) => \E n \in DOMAIN tree : C[n] \subseteq M /\ x \in ToSet(tree[n].matching)
    <2> DEFINE h == [n \in D |-> Len(tree) - n]
               Source(n) == \E k \in DOMAIN tree : /\ x \in ToSet(tree[k].matching)
                                                   /\ C[n] \subseteq M => C[k] \subseteq M
               T == {n \in D : x \in ToSet(below[n]) => Source(n)}
    <2>1. h \in [D -> Nat]
        <3>1. \A n \in D : Len(tree) - n \in Nat
            BY <1>2
        <3> QED
            BY <3>1
    <2>2. ASSUME NEW n \in D, \A m \in D : h[m] < h[n] => m \in T PROVE n \in T
        <3> SUFFICES ASSUME x \in ToSet(below[n]) PROVE Source(n)
            OBVIOUS
        <3>1. PICK k \in DOMAIN tree : /\ tree[k].parent = n /\ v \in MatchedBy[tree[k].expression]
                                       /\ x \in ToSet(tree[k].matching) \/ x \in ToSet(below[k])
            BY <1>4
        <3>2. C[n] \subseteq M => C[k] \subseteq M
            BY <1>2, <1>3, <1>5, <3>1
        <3>3. CASE x \in ToSet(tree[k].matching)
            BY <3>2, <3>3
        <3>4. CASE x \in ToSet(below[k])
            <4>1. k \in D /\ h[k] < h[n]
                BY <1>2, <3>1
            <4>2. Source(k)
                BY <2>2, <3>4, <4>1
            <4> QED
                BY <3>2, <4>2
        <3> QED
            BY <3>1, <3>3, <3>4
    <2>3. D \subseteq T
        <3> HIDE DEF T, h, D
        <3> QED
            BY <2>1, <2>2, HeightInduction
    <2> QED
        BY <1>2, <1>3, <2>3
<1>7. ASSUME NEW x, NEW n \in DOMAIN tree, C[n] \subseteq M, x \in ToSet(tree[n].matching)
      PROVE  x \in ToSet(below[0])
    <2> DEFINE h == [m \in D |-> m]
               T == {m \in D : C[m] \subseteq M => ToSet(below[m]) \subseteq ToSet(below[0])}
    <2>1. h \in [D -> Nat]
        BY <1>2
    <2>2. ASSUME NEW m \in D, \A k \in D : h[k] < h[m] => k \in T PROVE m \in T
        <3> SUFFICES ASSUME C[m] \subseteq M, m # 0 PROVE ToSet(below[m]) \subseteq ToSet(below[0])
            OBVIOUS
        <3>1. m \in 1 .. Len(tree)
            BY <1>2
        <3> DEFINE p == tree[m].parent
        <3>2. p \in D /\ h[p] < h[m]
            BY <1>2, <3>1
        <3>3. C[p] \subseteq M /\ v \in MatchedBy[tree[m].expression]
            BY <1>3, <1>5, <3>1
        <3>4. ToSet(below[p]) \subseteq ToSet(below[0])
            BY <2>2, <3>2, <3>3
        <3>5. ToSet(below[m]) \subseteq ToSet(below[p])
            BY <1>2, <1>4, <3>1, <3>2, <3>3
        <3> QED
            BY <3>4, <3>5
    <2>3. D \subseteq T
        <3> HIDE DEF T, h, D
        <3> QED
            BY <2>1, <2>2, HeightInduction
    <2> DEFINE p == tree[n].parent
    <2>4. p \in D /\ C[p] \subseteq M /\ v \in MatchedBy[tree[n].expression]
        BY <1>2, <1>3, <1>5, <1>7
    <2>5. x \in ToSet(below[p])
        BY <1>4, <1>7, <2>4
    <2> QED
        BY <2>3, <2>4, <2>5
<1> QED
    BY <1>1, <1>4, <1>6, <1>7 DEF C, M

\* Dropping what was there before keeps the elements, each once.
LEMMA DeduplicateElements ==
    ASSUME NEW S, NEW s \in Seq(S)
    PROVE  /\ Deduplicate(s) \in Seq(S) /\ ToSet(Deduplicate(s)) = ToSet(s)
           /\ IsInjective(Deduplicate(s))
<1> DEFINE n == Len(s)
           again(i) == \E j \in 1 .. i - 1 : s[j] = s[i]
           piece(i) == IF again(i) THEN <<>> ELSE <<s[i]>>
           pieces == [i \in DOMAIN s |-> piece(i)]
<1>1. n \in Nat /\ DOMAIN s = 1 .. n /\ \A i \in 1 .. n : s[i] \in S
    BY LenProperties, ElementOfSeq
<1>2. ASSUME NEW i \in 1 .. n
      PROVE  /\ piece(i) \in Seq(S) /\ IsInjective(piece(i))
             /\ ToSet(piece(i)) = IF again(i) THEN {} ELSE {s[i]}
    <2>1. CASE again(i)
        <3>1. piece(i) = <<>>
            BY <2>1
        <3> HIDE DEF piece, again
        <3>2. <<>> \in Seq(S) /\ IsInjective(<<>>) /\ ToSet(<<>>) = {}
            BY EmptySeq, ToSetEmpty DEF IsInjective
        <3> QED
            BY <2>1, <3>1, <3>2
    <2>2. CASE ~ again(i)
        <3>1. /\ <<s[i]>> \in Seq(S) /\ ToSet(<<s[i]>>) = {s[i]} /\ IsInjective(<<s[i]>>)
            BY <1>1 DEF ToSet, IsInjective
        <3> QED
            BY <2>2, <3>1
    <2> QED
        BY <2>1, <2>2
<1>3. Deduplicate(s) = FlattenSeq(pieces)
    BY DEF Deduplicate
<1>4. \A i, j \in 1 .. n : i < j /\ s[i] = s[j] => again(j)
    BY <1>1
<1>5. ASSUME NEW i \in 1 .. n, NEW j \in 1 .. n, i # j, ~ again(i), ~ again(j)
      PROVE  s[i] # s[j]
    <2>1. i < j \/ j < i
        BY <1>1, <1>5
    <2> HIDE DEF again
    <2> QED
        BY <1>4, <1>5, <2>1
<1>6. ASSUME NEW i \in 1 .. n PROVE \E j \in 1 .. n : s[j] = s[i] /\ ~ again(j)
    <2> DEFINE T == {j \in 1 .. n : s[j] = s[i]}
    <2>1. T \in SUBSET Nat /\ T # {}
        BY <1>1
    <2>2. PICK j \in T : \A m \in T : j <= m
        BY <2>1, LeastNumber
    <2>3. ~ again(j)
        <3> SUFFICES ASSUME NEW m \in 1 .. j - 1, s[m] = s[j] PROVE FALSE
            OBVIOUS
        <3>1. m \in T /\ ~ (j <= m)
            BY <1>1, <2>2
        <3> QED
            BY <2>2, <3>1
    <2> QED
        BY <2>2, <2>3
<1> HIDE DEF piece, again
<1>7. pieces \in Seq(Seq(S)) /\ DOMAIN pieces = 1 .. n /\ \A i \in 1 .. n : pieces[i] = piece(i)
    BY <1>1, <1>2, IsASeq
<1> HIDE DEF pieces
<1>8. /\ FlattenSeq(pieces) \in Seq(S)
      /\ ToSet(FlattenSeq(pieces)) = UNION {ToSet(pieces[i]) : i \in DOMAIN pieces}
    BY <1>7, FlattenElements
<1>9. IsInjective(FlattenSeq(pieces))
    <2>1. \A i \in DOMAIN pieces : IsInjective(pieces[i])
        BY <1>2, <1>7
    <2>2. \A i, j \in DOMAIN pieces : i # j => ToSet(pieces[i]) \cap ToSet(pieces[j]) = {}
        <3> SUFFICES ASSUME NEW i \in 1 .. n, NEW j \in 1 .. n, i # j,
                            NEW x \in ToSet(pieces[i]), x \in ToSet(pieces[j])
                     PROVE  FALSE
            BY <1>7
        <3>1. ~ again(i) /\ ~ again(j) /\ x = s[i] /\ x = s[j]
            BY <1>2, <1>7
        <3> QED
            BY <1>5, <3>1
    <2> QED
        BY <1>7, <2>1, <2>2, FlattenElements
<1>10. UNION {ToSet(pieces[i]) : i \in DOMAIN pieces} = {s[i] : i \in 1 .. n}
    <2>1. \A i \in 1 .. n : ToSet(pieces[i]) \subseteq {s[i]}
        BY <1>2, <1>7
    <2>2. \A i \in 1 .. n : \E j \in 1 .. n : s[i] \in ToSet(pieces[j])
        BY <1>2, <1>6, <1>7
    <2>3. DOMAIN pieces = 1 .. n
        BY <1>7
    <2> HIDE DEF n
    <2>4. \A x : x \in UNION {ToSet(pieces[i]) : i \in DOMAIN pieces}
                => x \in {s[i] : i \in 1 .. n}
        BY <2>1, <2>3
    <2>5. \A x : x \in {s[i] : i \in 1 .. n}
                => x \in UNION {ToSet(pieces[i]) : i \in DOMAIN pieces}
        BY <2>2, <2>3
    <2> QED
        BY <2>4, <2>5
<1>11. ToSet(s) = {s[i] : i \in 1 .. n}
    BY <1>1 DEF ToSet
<1> QED
    BY <1>3, <1>8, <1>9, <1>10, <1>11

(***************************************************************************)
(* The invariant of the tree.                                              *)
(***************************************************************************)
\* A rule as the tree keeps it.
Rule == [given : Expressions, filter : {Rewritten(f) : f \in Expressions},
         config : RuleConfigs, kept : BOOLEAN]

\* A rule is found for every event that its filter matches and that has the
\* configured tags: a node that has it or an equal one asks for no more.
Complete(nodes, rs) ==
    \A r \in DOMAIN rs : rs[r].kept =>
        \A v \in Events : TagsSet(v) /\ Matches(rs[r].given, v) =>
            \E c \in SUBSET Fulfilled(v) : IsUnder(nodes, rs, c, r)

\* The inductive invariant of the tree, for any configuration of it.
TreeInv ==
    /\ treeConfig \in TreeConfigs
    /\ rules \in Seq(Rule) /\ Len(rules) <= Len(Filters)
    /\ \A r \in DOMAIN rules : rules[r].kept = Parses(Segments[rules[r].given])
    /\ tree \in Trees
    /\ Sound(tree, rules) /\ Complete(tree, rules)

\* What adding a rule makes of the tree and the rules.
LEMMA RuleAdded ==
    ASSUME TreeInv, NEW new \in Rule, new.kept = Parses(Segments[new.given]),
           NEW rs, rs = Append(rules, new),
           NEW b, b = IF new.kept THEN AddSegments(tree, ParseRule(Segments[new.given]), rs) ELSE tree
    PROVE  /\ rs \in Seq(Rule) /\ Len(rs) = Len(rules) + 1
           /\ \A r \in DOMAIN rs : rs[r].kept = Parses(Segments[rs[r].given])
           /\ b \in Trees /\ Sound(b, rs) /\ Complete(b, rs)
<1> DEFINE k == Len(rules)
           e == new.given
           P == ParseRule(Segments[e])
<1>1. /\ rules \in Seq(Rule) /\ k \in Nat /\ DOMAIN rules = 1 .. k
      /\ rs \in Seq(Rule) /\ Len(rs) = k + 1 /\ DOMAIN rs = 1 .. k + 1
      /\ rs[k + 1] = new /\ \A r \in 1 .. k : rs[r] = rules[r]
    BY AppendProperties, LenProperties DEF TreeInv
<1>2. /\ treeConfig \in TreeConfigs /\ tree \in Trees /\ e \in Expressions
      /\ Sound(tree, rules) /\ Complete(tree, rules)
    BY DEF TreeInv, Rule
<1>3. \A r \in DOMAIN rs : rs[r].kept = Parses(Segments[rs[r].given])
    <2>1. \A r \in DOMAIN rs : r = k + 1 \/ r \in 1 .. k
        BY <1>1
    <2> QED
        BY <1>1, <2>1 DEF TreeInv
<1>4. Sound(tree, rs)
    <2>1. \A r \in DOMAIN rules : r \in DOMAIN rs /\ rs[r] = rules[r]
        BY <1>1
    <2> QED
        BY <1>2, <2>1 DEF Sound
<1> HIDE DEF k
\* What an earlier tree finds for the earlier rules, a tree that keeps its nodes finds.
<1>5. ASSUME b \in Trees, Kept(tree, b), NEW r \in DOMAIN rules, NEW c, IsUnder(tree, rules, c, r)
      PROVE  IsUnder(b, rs, c, r)
    <2>1. \A n \in DOMAIN tree : \A m \in ToSet(tree[n].matching) : m \in DOMAIN rules
        BY <1>2 DEF Sound
    <2>2. \A m \in DOMAIN rules : rs[m] = rules[m]
        BY <1>1
    <2>3. IsUnder(tree, rs, c, r)
        BY <1>5, <2>1, <2>2 DEF IsUnder
    <2> QED
        BY <1>2, <1>5, <2>3, KeptUnder
<1>6. ASSUME b \in Trees, Kept(tree, b), Sound(b, rs),
             new.kept => \A v \in Events : TagsSet(v) /\ Matches(e, v) =>
                            \E c \in SUBSET Fulfilled(v) : IsUnder(b, rs, c, k + 1)
      PROVE  Complete(b, rs)
    <2> SUFFICES ASSUME NEW r \in DOMAIN rs, rs[r].kept, NEW v \in Events,
                        TagsSet(v), Matches(rs[r].given, v)
                 PROVE  \E c \in SUBSET Fulfilled(v) : IsUnder(b, rs, c, r)
        BY DEF Complete
    <2>1. CASE r = k + 1
        BY <1>1, <1>6, <2>1
    <2>2. CASE r # k + 1
        <3>1. r \in DOMAIN rules /\ rs[r] = rules[r]
            BY <1>1, <2>2
        <3>2. PICK c \in SUBSET Fulfilled(v) : IsUnder(tree, rules, c, r)
            BY <1>2, <3>1 DEF Complete
        <3> QED
            BY <1>5, <1>6, <3>1, <3>2
    <2> QED
        BY <2>1, <2>2
<1>7. CASE ~ new.kept
    <2>1. b = tree /\ Kept(tree, b)
        BY <1>7, <1>2, KeptReflexive
    <2> QED
        BY <1>1, <1>2, <1>3, <1>4, <1>6, <1>7, <2>1 DEF k
<1>8. CASE new.kept
    <2>1. Parses(Segments[e])
        BY <1>8
    <2>2. /\ P \in Seq(Seq(Expressions))
          /\ \A i \in DOMAIN P : P[i] \in Seq(Expressions) /\ P[i] # <<>>
          /\ \A v \in Events :
                /\ \A i \in DOMAIN P : ToSet(P[i]) \subseteq Fulfilled(v) => Matches(e, v)
                /\ TagsSet(v) /\ Matches(e, v) =>
                    \E i \in DOMAIN P : ToSet(P[i]) \subseteq Fulfilled(v)
        BY <1>2, <2>1, ParsedRule
    <2>3. b = AddSegments(tree, P, rs)
        BY <1>8
    <2> HIDE DEF P
    <2>4. /\ Len(rs) \in Nat /\ Len(rs) \in DOMAIN rs /\ Len(rs) = k + 1
          /\ \A v \in Events : \A i \in DOMAIN P :
                ToSet(P[i]) \subseteq Fulfilled(v) => Matches(rs[Len(rs)].given, v)
        BY <1>1, <2>2
    <2>5. /\ b \in Trees /\ Kept(tree, b) /\ Sound(b, rs)
          /\ \A i \in DOMAIN P : IsUnder(b, rs, ToSet(P[i]), k + 1)
        BY <1>2, <1>4, <2>2, <2>3, <2>4, SegmentsAdded
    <2>6. \A v \in Events : TagsSet(v) /\ Matches(e, v) =>
            \E c \in SUBSET Fulfilled(v) : IsUnder(b, rs, c, k + 1)
        BY <2>2, <2>5
    <2> QED
        BY <1>1, <1>3, <1>6, <2>5, <2>6 DEF k
<1> QED
    BY <1>7, <1>8

\* The empty tree has it ...
LEMMA TreeInitially == TreeInit => TreeInv
<1> SUFFICES ASSUME TreeInit PROVE TreeInv
    OBVIOUS
<1>1. /\ rules = <<>> /\ tree = <<>> /\ treeConfig \in TreeConfigs
      /\ rules \in Seq(Rule) /\ tree \in Seq(Node) /\ DOMAIN rules = {} /\ DOMAIN tree = {}
      /\ Len(rules) = 0
    BY EmptySeq DEF TreeInit
<1>2. tree \in Trees
    BY <1>1 DEF Trees
<1>3. Len(Filters) \in Nat
    BY RuleTreeAssumption, LenProperties
<1> QED
    BY <1>1, <1>2, <1>3 DEF TreeInv, Sound, Complete

\* ... and loading another rule keeps it.
LEMMA LoadKeeps ==
    ASSUME TreeInv, ~ Loaded, LoadRule
    PROVE  TreeInv'
<1>1. /\ Len(rules) \in Nat /\ Len(Filters) \in Nat /\ Len(rules) + 1 <= Len(Filters)
      /\ Len(rules) + 1 \in 1 .. Len(Filters)
    BY RuleTreeAssumption, LenProperties DEF TreeInv, Loaded
<1>2. PICK f \in Filters[Len(rules) + 1], c \in RuleConfigs : AddRule(f, c)
    BY DEF LoadRule
<1>3. f \in Expressions
    <2>1. Filters \in Seq(SUBSET Expressions)
        BY RuleTreeAssumption
    <2>2. Filters[Len(rules) + 1] \in SUBSET Expressions
        BY <1>1, <2>1, ElementOfSeq
    <2> QED
        BY <2>2
<1> DEFINE kept == Parses(Segments[f])
           new == [given |-> f, filter |-> Rewritten(f), config |-> c, kept |-> kept]
<1>4. kept \in BOOLEAN
    BY DEF Parses
<1>5. /\ new \in Rule /\ new.given = f /\ new.kept = kept
    <2> HIDE DEF kept
    <2> QED
        BY <1>3, <1>4 DEF Rule
<1>6. /\ rules' = Append(rules, new) /\ treeConfig' = treeConfig
      /\ tree' = IF new.kept THEN AddSegments(tree, ParseRule(Segments[new.given]), rules') ELSE tree
    BY <1>2 DEF AddRule
<1> HIDE DEF new, kept
<1>7. new.kept = Parses(Segments[new.given])
    BY <1>5 DEF kept
<1>8. /\ rules' \in Seq(Rule) /\ Len(rules') = Len(rules) + 1
      /\ \A r \in DOMAIN rules' : rules'[r].kept = Parses(Segments[rules'[r].given])
      /\ tree' \in Trees /\ Sound(tree', rules') /\ Complete(tree', rules')
    BY <1>5, <1>6, <1>7, RuleAdded
<1>9. Complete(tree, rules)'
    BY <1>6, <1>8 DEF Complete, TagsSet, Matches
<1> QED
    BY <1>1, <1>6, <1>8, <1>9 DEF TreeInv, Trees

\* The rules of an event: each once, those that match and no other.
LEMMA MatchingRulesFound ==
    ASSUME TreeInv, NEW v \in Events
    PROVE  /\ MatchingRules(v) \in Seq(DOMAIN rules) /\ IsInjective(MatchingRules(v))
           /\ OnlyMatching(v) /\ AllMatching(v)
<1> DEFINE a == Retrieve(v)
           s == MatchingRules(v)
<1>1. tree \in Trees /\ Sound(tree, rules) /\ Complete(tree, rules)
    BY DEF TreeInv
<1>2. /\ a \in Seq(Nat)
      /\ \A r : r \in ToSet(a) <=>
            \E n \in DOMAIN tree : /\ Conditions(tree)[n] \subseteq Fulfilled(v)
                                   /\ r \in ToSet(tree[n].matching)
    BY <1>1, RetrieveElements
<1>3. s = Deduplicate(a)
    BY DEF MatchingRules
<1> HIDE DEF a
<1>4. ToSet(s) = ToSet(a) /\ IsInjective(s) /\ s \in Seq(Nat)
    BY <1>2, <1>3, DeduplicateElements
<1> HIDE DEF s
<1>5. \A r \in ToSet(s) : r \in DOMAIN rules /\ Matches(rules[r].given, v)
    BY <1>1, <1>2, <1>4 DEF Sound
<1>6. s \in Seq(DOMAIN rules)
    <2>1. /\ Len(s) \in Nat /\ DOMAIN s = 1 .. Len(s) /\ s = [i \in 1 .. Len(s) |-> s[i]]
          /\ \A i \in 1 .. Len(s) : s[i] \in ToSet(s)
        BY <1>4, LenProperties DEF ToSet
    <2>2. \A i \in 1 .. Len(s) : s[i] \in DOMAIN rules
        BY <1>5, <2>1
    <2> QED
        BY <2>1, <2>2, IsASeq
<1>7. OnlyMatching(v)
    BY <1>5 DEF OnlyMatching, s
<1>8. AllMatching(v)
    <2> SUFFICES ASSUME TagsSet(v), NEW r \in DOMAIN rules, rules[r].kept,
                        Matches(rules[r].given, v)
                 PROVE  \E m \in ToSet(s) : Equal(rules[r], rules[m])
        BY DEF AllMatching, s
    <2>1. PICK c \in SUBSET Fulfilled(v) : IsUnder(tree, rules, c, r)
        BY <1>1 DEF Complete
    <2>2. PICK n \in DOMAIN tree : /\ Conditions(tree)[n] = c
                                   /\ \E m \in ToSet(tree[n].matching) : Equal(rules[r], rules[m])
        BY <2>1 DEF IsUnder
    <2> QED
        BY <1>2, <1>4, <2>1, <2>2
<1> QED
    BY <1>4, <1>6, <1>7, <1>8 DEF s

\* Past the tree, each rule of the tree once.
LEMMA KeptRulesFound ==
    ASSUME TreeInv
    PROVE  KeptRules \in Seq(DOMAIN rules) /\ IsInjective(KeptRules)
<1> DEFINE n == Len(rules)
           S == DOMAIN rules
           piece(r) == IF rules[r].kept THEN <<r>> ELSE <<>>
           pieces == [r \in DOMAIN rules |-> piece(r)]
<1>1. n \in Nat /\ S = 1 .. n
    BY LenProperties DEF TreeInv
<1>2. ASSUME NEW r \in S
      PROVE  /\ piece(r) \in Seq(S) /\ IsInjective(piece(r))
             /\ ToSet(piece(r)) \subseteq {r}
    <2>1. CASE rules[r].kept
        <3>1. <<r>> \in Seq(S) /\ IsInjective(<<r>>) /\ ToSet(<<r>>) = {r}
            BY DEF ToSet, IsInjective
        <3> QED
            BY <2>1, <3>1
    <2>2. CASE ~ rules[r].kept
        <3>1. <<>> \in Seq(S) /\ IsInjective(<<>>) /\ ToSet(<<>>) = {}
            BY EmptySeq, ToSetEmpty DEF IsInjective
        <3> QED
            BY <2>2, <3>1
    <2> QED
        BY <2>1, <2>2
<1>3. KeptRules = FlattenSeq(pieces)
    BY DEF KeptRules
<1> HIDE DEF piece
<1>4. /\ pieces \in Seq(Seq(S)) /\ DOMAIN pieces = S
      /\ \A r \in S : pieces[r] = piece(r)
    BY <1>1, <1>2, IsASeq
<1> HIDE DEF pieces, S
<1>5. \A i \in S : IsInjective(pieces[i])
    BY <1>2, <1>4
<1>6. \A i, j \in S : i # j => ToSet(pieces[i]) \cap ToSet(pieces[j]) = {}
    <2>1. \A i \in S : ToSet(pieces[i]) \subseteq {i}
        BY <1>2, <1>4
    <2> QED
        BY <2>1
<1>7. /\ \A i \in DOMAIN pieces : IsInjective(pieces[i])
      /\ \A i, j \in DOMAIN pieces : i # j => ToSet(pieces[i]) \cap ToSet(pieces[j]) = {}
    BY <1>4, <1>5, <1>6
<1>8. FlattenSeq(pieces) \in Seq(S) /\ IsInjective(FlattenSeq(pieces))
    BY <1>4, <1>7, FlattenElements
<1> QED
    BY <1>3, <1>8 DEF S

(***************************************************************************)
(* The rule loop, whatever the tree answers.                               *)
(***************************************************************************)
\* The inductive invariant: what is left to do was not applied.
LoopInv ==
    /\ todo \in Loop!Orders /\ applied \in Loop!Orders
    /\ ToSet(todo) \cap ToSet(applied) = {}

\* The empty order.
LEMMA EmptyOrder == <<>> \in Loop!Orders /\ ToSet(<<>>) = {}
BY EmptySeq, ToSetEmpty DEF Loop!Orders, Loop!IsInjective

\* The head of an order is not in its tail, which is an order.
LEMMA OrderTail ==
    ASSUME NEW s \in Loop!Orders, s # <<>>
    PROVE  /\ Tail(s) \in Loop!Orders /\ Head(s) \in RuleIds
           /\ ToSet(Tail(s)) = ToSet(s) \ {Head(s)} /\ Head(s) \in ToSet(s)
<1>1. /\ s \in Seq(RuleIds) /\ DOMAIN s = 1 .. Len(s) /\ Len(s) \in Nat
      /\ \A i, j \in 1 .. Len(s) : s[i] = s[j] => i = j
    BY LenProperties DEF Loop!Orders, Loop!IsInjective
<1>2. /\ Tail(s) \in Seq(RuleIds) /\ Len(Tail(s)) = Len(s) - 1 /\ Head(s) = s[1]
      /\ \A i \in 1 .. Len(Tail(s)) : Tail(s)[i] = s[i + 1]
      /\ DOMAIN Tail(s) = 1 .. Len(s) - 1 /\ Len(s) > 0
    BY <1>1, HeadTailProperties, EmptySeq
<1>3. /\ ToSet(s) = {Head(s)} \cup ToSet(Tail(s)) /\ Head(s) \in RuleIds
    BY <1>1, ToSetHeadTail
<1> DEFINE t == Tail(s)
<1> HIDE DEF t
<1>4. ASSUME NEW i \in DOMAIN t, NEW j \in DOMAIN t, t[i] = t[j]
      PROVE  i = j
    <2>1. i + 1 \in 1 .. Len(s) /\ j + 1 \in 1 .. Len(s) /\ s[i + 1] = s[j + 1]
        BY <1>1, <1>2, <1>4 DEF t
    <2>2. i + 1 = j + 1
        BY <1>1, <2>1
    <2> QED
        BY <1>1, <1>2, <2>2 DEF t
<1>5. ASSUME NEW i \in DOMAIN t
      PROVE  t[i] # s[1]
    <2>1. i + 1 \in 1 .. Len(s) /\ 1 \in 1 .. Len(s) /\ t[i] = s[i + 1] /\ i + 1 # 1
        BY <1>1, <1>2 DEF t
    <2> QED
        BY <1>1, <2>1
<1>6. Head(s) \notin ToSet(t)
    BY <1>2, <1>5 DEF ToSet
<1>7. t \in Loop!Orders
    BY <1>2, <1>4 DEF Loop!Orders, Loop!IsInjective, t
<1> QED
    BY <1>3, <1>6, <1>7 DEF t

\* A rule that is not in an order can be appended to it.
LEMMA OrderAppend ==
    ASSUME NEW s \in Loop!Orders, NEW r \in RuleIds, r \notin ToSet(s)
    PROVE  Append(s, r) \in Loop!Orders /\ ToSet(Append(s, r)) = ToSet(s) \cup {r}
<1>1. /\ s \in Seq(RuleIds) /\ DOMAIN s = 1 .. Len(s) /\ Len(s) \in Nat
      /\ \A i, j \in 1 .. Len(s) : s[i] = s[j] => i = j
      /\ \A i \in 1 .. Len(s) : s[i] # r
    BY LenProperties DEF Loop!Orders, Loop!IsInjective, ToSet
<1> DEFINE t == Append(s, r)
<1>2. /\ t \in Seq(RuleIds) /\ DOMAIN t = 1 .. Len(s) + 1
      /\ \A i \in 1 .. Len(s) : t[i] = s[i]
      /\ t[Len(s) + 1] = r
    BY <1>1, AppendProperties, LenProperties
<1> HIDE DEF t
<1>3. ASSUME NEW i \in DOMAIN t, NEW j \in DOMAIN t, t[i] = t[j]
      PROVE  i = j
    <2>1. CASE i \in 1 .. Len(s) /\ j \in 1 .. Len(s)
        BY <2>1, <1>1, <1>2, <1>3
    <2>2. CASE i = Len(s) + 1 \/ j = Len(s) + 1
        BY <2>2, <1>1, <1>2, <1>3
    <2> QED
        BY <2>1, <2>2, <1>1, <1>2
<1>4. t \in Loop!Orders
    BY <1>2, <1>3 DEF Loop!Orders, Loop!IsInjective
<1> QED
    BY <1>1, <1>4, ToSetAppend DEF t

\* It holds initially ...
LEMMA LoopInit == Loop!Init => LoopInv
BY EmptyOrder DEF Loop!Init, LoopInv

\* ... when a rule is applied ...
LEMMA LoopApplies ==
    ASSUME LoopInv, Loop!ApplyRule
    PROVE  LoopInv'
<1>1. /\ todo \in Loop!Orders /\ todo # <<>> /\ todo' = Tail(todo) /\ applied \in Loop!Orders
      /\ applied' = Append(applied, Head(todo)) \/ applied' = applied
    BY DEF Loop!ApplyRule, LoopInv
<1>2. /\ todo' \in Loop!Orders /\ Head(todo) \in RuleIds /\ Head(todo) \in ToSet(todo)
      /\ ToSet(todo') = ToSet(todo) \ {Head(todo)}
    BY <1>1, OrderTail
<1>3. Head(todo) \notin ToSet(applied)
    BY <1>2 DEF LoopInv
<1>4. applied' \in Loop!Orders /\ ToSet(applied') \subseteq ToSet(applied) \cup {Head(todo)}
    <2> DEFINE r == Head(todo)
    <2> HIDE DEF r
    <2>1. r \in RuleIds /\ r \notin ToSet(applied)
        BY <1>2, <1>3 DEF r
    <2>2. /\ Append(applied, r) \in Loop!Orders
          /\ ToSet(Append(applied, r)) = ToSet(applied) \cup {r}
        BY <1>1, <2>1, OrderAppend
    <2> QED
        BY <1>1, <2>2 DEF r
<1>5. ToSet(todo') \cap ToSet(applied') = {}
    BY <1>2, <1>4 DEF LoopInv
<1> QED
    BY <1>2, <1>4, <1>5 DEF LoopInv, Loop!Orders, RuleIds

\* ... and after every other step.
LEMMA LoopNext == LoopInv /\ [Loop!Next]_(Loop!loopVars) => LoopInv'
<1> SUFFICES ASSUME LoopInv, [Loop!Next]_(Loop!loopVars) PROVE LoopInv'
    OBVIOUS
<1>1. CASE Loop!LoadEnds
    BY <1>1 DEF Loop!LoadEnds, LoopInv, Loop!Orders, RuleIds
<1>2. CASE Loop!Process
    BY <1>2, EmptyOrder DEF Loop!Process, LoopInv, Loop!Orders, RuleIds
<1>3. CASE Loop!ApplyRule
    BY <1>3, LoopApplies
<1>4. CASE Loop!Again
    BY <1>4 DEF Loop!Again, Loop!ToSet, ToSet, LoopInv, Loop!Orders, RuleIds
<1>5. CASE Loop!Finish
    BY <1>5 DEF Loop!Finish, LoopInv, Loop!Orders, RuleIds
<1>6. CASE UNCHANGED Loop!loopVars
    BY <1>6 DEF Loop!loopVars, LoopInv, Loop!Orders, RuleIds
<1> QED
    BY <1>1, <1>2, <1>3, <1>4, <1>5, <1>6 DEF Loop!Next

\* Whatever the tree answers, whatever the rules make of the event and however
\* often the loop goes round: a rule is applied to an event at most once
\* (processor.py:203-226).
THEOREM NoRuleTwice == Loop!Spec => []Loop!EachRuleOnce
<1>1. LoopInv => Loop!EachRuleOnce
    BY DEF LoopInv, Loop!Orders, Loop!EachRuleOnce
<1> QED
    BY <1>1, LoopInit, LoopNext, PTL DEF Loop!Spec

(***************************************************************************)
(* The processor: its tree and its loop.                                   *)
(***************************************************************************)
\* The inductive invariant.
ProcessorInv ==
    /\ TreeInv /\ LoopInv
    /\ event \in Events
    /\ phase = "done" /\ mode = "multiple" => Remaining = {}

\* The rules are among those to load.
LEMMA RulesAreIds ==
    ASSUME TreeInv
    PROVE  /\ DOMAIN rules \subseteq RuleIds
           /\ \A s \in Seq(DOMAIN rules) : IsInjective(s) => s \in Loop!Orders
<1>1. /\ Len(rules) \in Nat /\ DOMAIN rules = 1 .. Len(rules)
      /\ Len(Filters) \in Nat /\ Len(rules) <= Len(Filters)
    BY RuleTreeAssumption, LenProperties DEF TreeInv
<1>2. DOMAIN rules \subseteq RuleIds
    BY <1>1 DEF RuleIds
<1>3. ASSUME NEW s \in Seq(DOMAIN rules), IsInjective(s)
      PROVE  s \in Loop!Orders
    <2>1. /\ Len(s) \in Nat /\ DOMAIN s = 1 .. Len(s) /\ s = [i \in 1 .. Len(s) |-> s[i]]
          /\ \A i \in 1 .. Len(s) : s[i] \in RuleIds
        BY <1>2, LenProperties, ElementOfSeq
    <2>2. s \in Seq(RuleIds)
        BY <2>1, IsASeq
    <2> QED
        BY <1>3, <2>2 DEF Loop!Orders, Loop!IsInjective, IsInjective
<1> QED
    BY <1>2, <1>3

\* The rules that remain are some of the rules, none of them applied.
LEMMA RemainingOrders ==
    ASSUME TreeInv, event \in Events, Remaining # {}, NEW s \in SetToSeqs(Remaining)
    PROVE  s \in Loop!Orders /\ s # <<>> /\ ToSet(s) \cap ToSet(applied) = {}
<1> DEFINE R == Remaining
           n == Cardinality(R)
<1>1. R \subseteq DOMAIN rules /\ R \cap ToSet(applied) = {}
    <2>1. MatchingRules(event) \in Seq(DOMAIN rules)
        BY MatchingRulesFound
    <2> QED
        BY <2>1, ToSetType DEF Remaining
<1>2. DOMAIN rules = 1 .. Len(rules) /\ Len(rules) \in Nat
    BY LenProperties DEF TreeInv
<1>3. IsFiniteSet(R)
    <2>1. IsFiniteSet(1 .. Len(rules))
        BY <1>2, FS_Interval
    <2> HIDE DEF R
    <2>2. IsFiniteSet(DOMAIN rules) /\ R \subseteq DOMAIN rules
        BY <1>1, <1>2, <2>1
    <2> QED
        BY <2>2, FS_Subset
<1>4. n \in Nat /\ n # 0
    BY <1>3, FS_CardinalityType, FS_EmptySet
<1>5. s \in [1 .. n -> R] /\ \A i, j \in 1 .. n : i # j => s[i] # s[j]
    BY DEF SetToSeqs
<1> HIDE DEF R, n
<1>6. \A i \in 1 .. n : s[i] \in DOMAIN rules /\ s[i] \in R
    BY <1>1, <1>5
<1>7. s = [i \in 1 .. n |-> s[i]] /\ DOMAIN s = 1 .. n
    BY <1>5
<1>8. s \in Seq(DOMAIN rules)
    <2>1. [i \in 1 .. n |-> s[i]] \in Seq(DOMAIN rules)
        BY <1>4, <1>6, IsASeq
    <2> QED
        BY <1>7, <2>1
<1>9. IsInjective(s)
    BY <1>5, <1>7 DEF IsInjective
<1>10. s # <<>>
    <2>1. 1 \in DOMAIN s
        BY <1>4, <1>7
    <2> QED
        BY <2>1
<1>11. ToSet(s) \subseteq R
    BY <1>6, <1>7 DEF ToSet
<1> QED
    BY <1>1, <1>8, <1>9, <1>10, <1>11, RulesAreIds

\* A step of the processor is a step of the loop, or nothing to it.
LEMMA StepRefines ==
    ASSUME ProcessorInv, [Next]_vars
    PROVE  [Loop!Next]_(Loop!loopVars)
<1>0. TreeInv /\ event \in Events
    BY DEF ProcessorInv
<1>1. CASE Load
    BY <1>1 DEF Load, runVars, Loop!loopVars
<1>2. CASE LoadEnds
    BY <1>2 DEF LoadEnds, Loop!LoadEnds, Loop!Next
<1>3. CASE ApplyRule
    BY <1>3 DEF ApplyRule, Loop!ApplyRule, Loop!Next
<1>4. CASE Again
    <2>1. /\ Remaining # {} /\ todo' \in SetToSeqs(Remaining) /\ applied' = applied
        BY <1>4 DEF Again
    <2>2. todo' \in Loop!Orders /\ todo' # <<>> /\ ToSet(todo') \cap ToSet(applied) = {}
        BY <1>0, <2>1, RemainingOrders
    <2> QED
        BY <1>4, <2>2 DEF Again, Loop!Again, Loop!ToSet, ToSet, Loop!Next
<1>5. CASE Finish
    BY <1>5 DEF Finish, Loop!Finish, Loop!Next
<1>6. ASSUME NEW e \in Events, Process(e)
      PROVE  Loop!Next
    <2>1. MatchingRules(e) \in Loop!Orders /\ KeptRules \in Loop!Orders
        BY <1>0, MatchingRulesFound, KeptRulesFound, RulesAreIds
    <2>2. todo' \in Loop!Orders
        BY <1>6, <2>1 DEF Process
    <2> QED
        BY <1>6, <2>2 DEF Process, Loop!Process, Loop!Next
<1>7. CASE UNCHANGED vars
    BY <1>7 DEF vars, runVars, Loop!loopVars
<1> QED
    BY <1>1, <1>2, <1>3, <1>4, <1>5, <1>6, <1>7 DEF Next

\* The initial states of the processor are initial states of the loop.
LEMMA ProcessorInit == Init => ProcessorInv /\ Loop!Init
<1> SUFFICES ASSUME Init PROVE ProcessorInv /\ Loop!Init
    OBVIOUS
<1>1. Loop!Init
    BY DEF Init, Loop!Init
<1>2. event \in Events
    BY DEF Init, NoEvent, Events
<1> QED
    BY <1>1, <1>2, LoopInit, TreeInitially DEF Init, ProcessorInv

\* What a rule makes of an event is an event.
LEMMA OutcomesAreEvents ==
    ASSUME NEW e \in Events
    PROVE  Outcomes(e) \subseteq Events
BY DEF Outcomes, Events, NoEvent

\* The tree, once loaded, stays as it is.
LEMMA TreeStays ==
    ASSUME TreeInv, UNCHANGED treeVars
    PROVE  /\ TreeInv'
           /\ \A v : MatchingRules(v)' = MatchingRules(v)
<1>1. treeConfig' = treeConfig /\ rules' = rules /\ tree' = tree
    BY DEF treeVars
<1> QED
    BY <1>1 DEF TreeInv, Complete, TagsSet, MatchingRules, Retrieve

\* Every step of the processor keeps the invariant.
LEMMA ProcessorNext == ProcessorInv /\ [Next]_vars => ProcessorInv'
<1> SUFFICES ASSUME ProcessorInv, [Next]_vars PROVE ProcessorInv'
    OBVIOUS
<1>1. TreeInv /\ LoopInv /\ event \in Events
    BY DEF ProcessorInv
<1>2. LoopInv'
    BY <1>1, StepRefines, LoopNext
<1>3. TreeInv'
    <2>1. CASE Load
        BY <1>1, <2>1, LoadKeeps DEF Load
    <2>2. CASE UNCHANGED treeVars
        BY <1>1, <2>2, TreeStays
    <2> QED
        BY <2>1, <2>2 DEF Next, LoadEnds, ApplyRule, Again, Finish, Process, vars
<1>4. event' \in Events
    <2>1. \A e : e \in Outcomes(event) => e \in Events
        BY <1>1, OutcomesAreEvents
    <2>2. ASSUME ApplyRule PROVE event' \in Events
        BY <1>1, <2>1, <2>2 DEF ApplyRule
    <2> QED
        BY <1>1, <2>2 DEF Next, Load, LoadEnds, Again, Finish, Process, vars, runVars
<1>5. phase' = "done" /\ mode' = "multiple" => Remaining' = {}
    <2>1. CASE Finish \/ UNCHANGED vars
        <3>1. /\ UNCHANGED treeVars /\ event' = event /\ applied' = applied
              /\ phase' = "done" /\ mode' = "multiple" => Remaining = {}
            BY <2>1 DEF Finish, ProcessorInv, vars, runVars
        <3>2. \A v : MatchingRules(v)' = MatchingRules(v)
            BY <1>1, <3>1, TreeStays
        <3> QED
            BY <3>1, <3>2 DEF Remaining, ToSet
    <2>2. CASE ~ Finish /\ ~ UNCHANGED vars
        <3>1. phase' # "done"
            BY <2>2 DEF Next, Load, LoadEnds, ApplyRule, Again, Process, vars, runVars
        <3> QED
            BY <3>1
    <2> QED
        BY <2>1, <2>2
<1> QED
    BY <1>2, <1>3, <1>4, <1>5 DEF ProcessorInv

\* The tree and the loop over it stay consistent, whatever rules are loaded and
\* whatever they make of the events (rule_tree.py:122-222, processor.py:197-226).
THEOREM ProcessorInvariant == Spec => []ProcessorInv
BY ProcessorInit, ProcessorNext, PTL DEF Spec

\* The loop over the tree keeps the promise of RuleLoop: the tree names no rule
\* twice, and what is asked again was not applied (processor.py:197-226).
THEOREM RefinesRuleLoop == Spec => ImplementsRuleLoop
<1>1. Init => Loop!Init
    BY ProcessorInit
<1>2. ProcessorInv /\ [Next]_vars => [Loop!Next]_(Loop!loopVars)
    BY StepRefines
<1> QED
    BY <1>1, <1>2, ProcessorInvariant, PTL DEF Spec, Loop!Spec, ImplementsRuleLoop

\* For filters of any depth, any priorities and tags: the loaded tree yields
\* only rules whose filter the event matches; once the tags are set, each of
\* them or its equal; and every rule with a plain filter is in it
\* (rule_parser.py:47-134, rule_tree.py:122-222).
THEOREM DecidesLikeFilters == Spec => []MatchesLikeItsFilter
<1>1. ProcessorInv => MatchesLikeItsFilter
    <2> SUFFICES ASSUME ProcessorInv PROVE MatchesLikeItsFilter
        OBVIOUS
    <2>1. TreeInv
        BY DEF ProcessorInv
    <2>2. \A e \in Events : OnlyMatching(e) /\ AllMatching(e)
        BY <2>1, MatchingRulesFound
    <2>3. ASSUME NEW r \in DOMAIN rules, Plain(rules[r].given) PROVE rules[r].kept
        <3>1. rules[r].given \in Expressions /\ rules[r].kept = Parses(Segments[rules[r].given])
            <4>1. /\ rules \in Seq(Rule) /\ DOMAIN rules = 1 .. Len(rules)
                  /\ rules[r].kept = Parses(Segments[rules[r].given])
                BY <2>1, LenProperties DEF TreeInv
            <4>2. rules[r] \in Rule
                BY <4>1, ElementOfSeq
            <4> QED
                BY <4>1, <4>2 DEF Rule
        <3> QED
            BY <2>3, <3>1, PlainParses
    <2> QED
        BY <2>2, <2>3 DEF MatchesLikeItsFilter
<1> QED
    BY <1>1, ProcessorInvariant, PTL

\* No rule is applied to an event twice; with apply_multiple_times every rule that
\* the processed event matches was applied, or its equal (processor.py:203-226).
THEOREM AppliesOnce == Spec => []AppliedOnce
<1>1. ProcessorInv => AppliedOnce
    <2> SUFFICES ASSUME ProcessorInv PROVE AppliedOnce
        OBVIOUS
    <2>1. \A i, j \in DOMAIN applied : applied[i] = applied[j] => i = j
        BY DEF ProcessorInv, LoopInv, Loop!Orders, Loop!IsInjective
    <2>2. ASSUME phase = "done", mode = "multiple", TagsSet(event),
                 NEW r \in DOMAIN rules, rules[r].kept, Matches(rules[r].given, event)
          PROVE  \E i \in DOMAIN applied : Equal(rules[r], rules[applied[i]])
        <3>1. AllMatching(event) /\ ToSet(MatchingRules(event)) \subseteq ToSet(applied)
            BY <2>2, MatchingRulesFound DEF ProcessorInv, Remaining
        <3>2. PICK m \in ToSet(MatchingRules(event)) : Equal(rules[r], rules[m])
            BY <2>2, <3>1 DEF AllMatching
        <3>3. PICK i \in DOMAIN applied : applied[i] = m
            BY <3>1 DEF ToSet
        <3> QED
            BY <3>2, <3>3
    <2> QED
        BY <2>1, <2>2 DEF AppliedOnce
<1> QED
    BY <1>1, ProcessorInvariant, PTL
=============================================================================
