---------------------------- MODULE GraphProofs -----------------------------
(***************************************************************************)
(* The algorithms of steps 7 and 8, for any PLs, names and files: the      *)
(* passes over the concurrent pairs, the transitive closure and reduction, *)
(* and the solver.                                                         *)
(***************************************************************************)
EXTENDS Orders, FiniteSetTheorems, NaturalsInduction, TLAPS

-----------------------------------------------------------------------------
(***************************************************************************)
(* Recursion over the positions of a file.                                 *)
(***************************************************************************)
\* A nonempty set of numbers has a least one.
LEMMA Least ==
  ASSUME NEW S, S \subseteq Nat, S # {}
  PROVE  \E n \in S : \A m \in S : n <= m
PROOF
<1>1. PICK n \in S : \A m \in S : ~ (<<m, n>> \in OpToRel(<, Nat))
  BY NatLessThanWellFounded, WFMin
<1>2. \A m \in S : ~ (m < n)
  BY <1>1 DEF OpToRel
<1> QED BY <1>2

\* What holds at 0 and of n + 1 if of n holds of all the numbers up to N.
LEMMA UpTo ==
  ASSUME NEW N \in Nat, NEW S, 0 \in S, \A n \in 0 .. N - 1 : n \in S => n + 1 \in S
  PROVE  0 .. N \subseteq S
PROOF
<1> SUFFICES ASSUME (0 .. N) \ S # {} PROVE FALSE
  OBVIOUS
<1>0. (0 .. N) \ S \subseteq Nat
  OBVIOUS
<1>1. PICK n \in (0 .. N) \ S : \A m \in (0 .. N) \ S : n <= m
  BY <1>0, Least
<1>2. n # 0 /\ n - 1 \in 0 .. N - 1
  BY <1>1
<1>3. n - 1 \in S
  BY <1>1, <1>2
<1>4. (n - 1) + 1 \in S
  BY <1>2, <1>3
<1> QED BY <1>1, <1>2, <1>4

\* A function that is given by its value at 0 and by a step exists.
Recurs(f, V, v, N, F) ==
    f \in [0 .. N -> V] /\ f[0] = v /\ \A i \in 1 .. N : f[i] = F[i][f[i-1]]

LEMMA Recursion ==
  ASSUME NEW V, NEW v \in V, NEW N \in Nat, NEW F \in [1 .. N -> [V -> V]]
  PROVE  \E f : Recurs(f, V, v, N, F)
PROOF
<1> DEFINE Good(n, f) == f \in [0 .. n -> V] /\ f[0] = v /\ \A i \in 1 .. n : f[i] = F[i][f[i-1]]
           S == {n \in 0 .. N : \E f : Good(n, f)}
<1>1. 0 \in S
  <2>1. Good(0, [i \in 0 .. 0 |-> v])
    OBVIOUS
  <2> HIDE DEF Good
  <2>2. 0 \in 0 .. N
    OBVIOUS
  <2> QED BY <2>1, <2>2
<1>2. ASSUME NEW n \in 0 .. N - 1, n \in S PROVE n + 1 \in S
  <2>1. PICK f : Good(n, f)
    BY <1>2
  <2> DEFINE g == [i \in 0 .. n + 1 |-> IF i = n + 1 THEN F[n+1][f[n]] ELSE f[i]]
  <2>2. F[n+1][f[n]] \in V
    BY <2>1
  <2>3. g \in [0 .. n + 1 -> V] /\ g[0] = v
    BY <2>1, <2>2
  <2>4. ASSUME NEW i \in 1 .. n + 1 PROVE g[i] = F[i][g[i-1]]
    <3>1. CASE i = n + 1
      BY <3>1
    <3>2. CASE i # n + 1
      <4>1. i \in 1 .. n /\ i - 1 \in 0 .. n /\ i - 1 # n + 1
        BY <3>2
      <4> QED BY <2>1, <4>1
    <3> QED BY <3>1, <3>2
  <2>5. Good(n + 1, g)
    BY <2>3, <2>4
  <2> HIDE DEF Good
  <2> QED BY <2>5
<1> HIDE DEF S
<1>3. N \in S
  <2>1. 0 .. N \subseteq S
    BY <1>1, <1>2, UpTo
  <2> QED BY <2>1
<1> QED BY <1>3 DEF S, Recurs

-----------------------------------------------------------------------------
(***************************************************************************)
(* The concurrent pairs.                                                   *)
(***************************************************************************)
\* A pair of nodes that takes over the edges of its ends adds edges between nodes.
LEMMA PropagateType ==
  ASSUME NEW N, NEW E \in SUBSET (N \X N), NEW x, x[1] \in N, x[2] \in N
  PROVE  Propagate(E, x) \in SUBSET (N \X N)
PROOF
<1>1. ASSUME NEW X \in SUBSET (N \X N), NEW a \in N, NEW b \in N
      PROVE  ShareIn(X, a, b) \in SUBSET (N \X N) /\ ShareOut(X, a, b) \in SUBSET (N \X N)
  BY DEF ShareIn, ShareOut
<1> DEFINE E1 == ShareIn(E, x[1], x[2])
           E2 == ShareIn(E1, x[2], x[1])
           E3 == ShareOut(E2, x[1], x[2])
<1>2. E1 \in SUBSET (N \X N)
  BY <1>1
<1> HIDE DEF E1
<1>3. E2 \in SUBSET (N \X N)
  BY <1>1, <1>2
<1> HIDE DEF E2
<1>4. E3 \in SUBSET (N \X N)
  BY <1>1, <1>3
<1> HIDE DEF E3
<1>5. ShareOut(E3, x[2], x[1]) \in SUBSET (N \X N)
  BY <1>1, <1>4
<1> QED BY <1>5 DEF Propagate, E1, E2, E3

\* The passes are what their recursive definition says.
ArePasses(g, d, E, rels, C) ==
    /\ g \in [0 .. Len(rels) -> SUBSET (Nodes(d) \X Nodes(d))]
    /\ g[0] = E
    /\ \A i \in 1 .. Len(rels) :
          g[i] = IF Takes(d, C, rels[i]) THEN Propagate(g[i-1], Ends(rels[i])) ELSE g[i-1]

LEMMA PassesStep ==
  ASSUME NEW d, NEW E \in SUBSET (Nodes(d) \X Nodes(d)), NEW rels, Len(rels) \in Nat, NEW C
  PROVE  ArePasses(Passes(d, E, rels, C), d, E, rels, C)
PROOF
<1> DEFINE n == Len(rels)
           V == SUBSET (Nodes(d) \X Nodes(d))
           F == [i \in 1 .. n |-> [X \in V |-> IF Takes(d, C, rels[i])
                                              THEN Propagate(X, Ends(rels[i])) ELSE X]]
           IsPasses(f) == f = [i \in 0 .. n |->
                                 IF i = 0 THEN E
                                 ELSE IF Takes(d, C, rels[i])
                                 THEN Propagate(f[i-1], Ends(rels[i])) ELSE f[i-1]]
<1>1. F \in [1 .. n -> [V -> V]]
  <2>1. ASSUME NEW i \in 1 .. n, NEW X \in V, Takes(d, C, rels[i])
        PROVE  Propagate(X, Ends(rels[i])) \in V
    BY <2>1, PropagateType DEF Takes
  <2> QED BY <2>1
<1>2a. PICK f : Recurs(f, V, E, n, F)
  <2>1. E \in V /\ n \in Nat
    OBVIOUS
  <2> HIDE DEF F, V, n
  <2> QED BY <1>1, <2>1, Recursion
<1>2. f \in [0 .. n -> V] /\ f[0] = E /\ \A i \in 1 .. n : f[i] = F[i][f[i-1]]
  BY <1>2a DEF Recurs
<1>3. \A i \in 1 .. n : f[i-1] \in V
  BY <1>2
<1>4. \A i \in 1 .. n : f[i] = IF Takes(d, C, rels[i])
                               THEN Propagate(f[i-1], Ends(rels[i])) ELSE f[i-1]
  BY <1>2, <1>3
<1>5. IsPasses(f)
  BY <1>2, <1>4
<1>6. Passes(d, E, rels, C) = CHOOSE g : IsPasses(g)
  BY DEF Passes
<1> HIDE DEF IsPasses
<1>7. IsPasses(Passes(d, E, rels, C))
  BY <1>5, <1>6
<1> DEFINE g == Passes(d, E, rels, C)
<1> HIDE DEF g
<1>8. IsPasses(g)
  BY <1>7 DEF g
<1>9. /\ DOMAIN g = 0 .. n /\ g[0] = E
      /\ \A i \in 1 .. n : g[i] = IF Takes(d, C, rels[i])
                                  THEN Propagate(g[i-1], Ends(rels[i])) ELSE g[i-1]
      /\ g = [i \in 0 .. n |-> g[i]]
  BY <1>8 DEF IsPasses
<1>10. 0 .. n \subseteq {i \in 0 .. n : g[i] \in V}
  <2>1. 0 \in {i \in 0 .. n : g[i] \in V}
    BY <1>9
  <2>2. ASSUME NEW i \in 0 .. n - 1, g[i] \in V PROVE g[i+1] \in V
    <3>1. i + 1 \in 1 .. n /\ (i + 1) - 1 = i
      OBVIOUS
    <3>2. g[i+1] = IF Takes(d, C, rels[i+1]) THEN Propagate(g[i], Ends(rels[i+1])) ELSE g[i]
      BY <1>9, <3>1
    <3> DEFINE x == Ends(rels[i+1])
    <3>3. Takes(d, C, rels[i+1]) => x[1] \in Nodes(d) /\ x[2] \in Nodes(d)
      BY Zenon DEF Takes
    <3> HIDE DEF x
    <3>4. Takes(d, C, rels[i+1]) => Propagate(g[i], x) \in V
      BY <2>2, <3>3, PropagateType
    <3> QED BY <2>2, <3>2, <3>4 DEF x
  <2> DEFINE S == {i \in 0 .. n : g[i] \in V}
  <2>3. ASSUME NEW i \in 0 .. n - 1, i \in S PROVE i + 1 \in S
    BY <2>2, <2>3
  <2>4. 0 \in S
    BY <2>1
  <2> HIDE DEF S
  <2>5. 0 .. n \subseteq S
    BY <2>3, <2>4, UpTo
  <2> QED BY <2>5 DEF S
<1>11. g \in [0 .. n -> V]
  BY <1>9, <1>10
<1>12. ArePasses(g, d, E, rels, C)
  BY <1>9, <1>11 DEF ArePasses
<1> QED BY <1>12 DEF g

\* A step of the passes.
LEMMA PassesAt ==
  ASSUME NEW d, NEW E, NEW rels, Len(rels) \in Nat, NEW C, NEW g,
         ArePasses(g, d, E, rels, C), NEW i \in 0 .. Len(rels) - 1
  PROVE  /\ i \in 0 .. Len(rels) /\ i + 1 \in 0 .. Len(rels) /\ i + 1 \in 1 .. Len(rels)
         /\ Takes(d, C, rels[i+1]) => g[i+1] = Propagate(g[i], Ends(rels[i+1]))
         /\ ~Takes(d, C, rels[i+1]) => g[i+1] = g[i]
PROOF
<1>1. i \in 0 .. Len(rels) /\ i + 1 \in 0 .. Len(rels) /\ i + 1 \in 1 .. Len(rels) /\ (i + 1) - 1 = i
  OBVIOUS
<1>2. g[i+1] = IF Takes(d, C, rels[i+1]) THEN Propagate(g[(i+1)-1], Ends(rels[i+1])) ELSE g[(i+1)-1]
  BY <1>1 DEF ArePasses
<1> QED BY <1>1, <1>2

\* A pass keeps to the nodes, and over no pairs it changes nothing.
LEMMA PassType ==
  ASSUME NEW d, NEW E \in SUBSET (Nodes(d) \X Nodes(d)), NEW rels, Len(rels) \in Nat, NEW C
  PROVE  Pass(d, E, rels, C) \in SUBSET (Nodes(d) \X Nodes(d))
PROOF
<1> DEFINE g == Passes(d, E, rels, C)
<1>1. ArePasses(g, d, E, rels, C)
  BY PassesStep
<1> HIDE DEF g
<1>2. Len(rels) \in 0 .. Len(rels)
  OBVIOUS
<1>3. g[Len(rels)] \in SUBSET (Nodes(d) \X Nodes(d))
  BY <1>1, <1>2 DEF ArePasses
<1> QED BY <1>3 DEF Pass, g

LEMMA PassNone ==
  ASSUME NEW d, NEW E \in SUBSET (Nodes(d) \X Nodes(d)), NEW rels, Len(rels) \in Nat
  PROVE  Pass(d, E, rels, {}) = E
PROOF
<1> DEFINE n == Len(rels)
           g == Passes(d, E, rels, {})
           S == {i \in 0 .. n : g[i] = E}
<1>1. ArePasses(g, d, E, rels, {})
  BY PassesStep
<1> HIDE DEF g
<1>2. n \in 0 .. n /\ n \in Nat /\ 0 \in S
  BY <1>1 DEF ArePasses
<1>3. ASSUME NEW i \in 0 .. n - 1, i \in S PROVE i + 1 \in S
  <2>1. ~Takes(d, {}, rels[i+1])
    BY DEF Takes
  <2>2. i + 1 \in 0 .. n /\ g[i+1] = g[i]
    BY <1>1, <2>1, PassesAt
  <2> QED BY <1>3, <2>2
<1> HIDE DEF S
<1>4. 0 .. n \subseteq S
  BY <1>2, <1>3, UpTo
<1>5. g[n] = E
  BY <1>2, <1>4 DEF S
<1> QED BY <1>5 DEF Pass, g

\* One pair, and hence a pass, treats the edges one by one.
LEMMA PropagateUnion ==
  ASSUME NEW E, NEW F, NEW x
  PROVE  Propagate(E \cup F, x) = Propagate(E, x) \cup Propagate(F, x)
PROOF
<1>1. ASSUME NEW X, NEW Y, NEW Z, Z = X \cup Y, NEW a, NEW b
      PROVE  ShareIn(Z, a, b) = ShareIn(X, a, b) \cup ShareIn(Y, a, b)
  BY <1>1 DEF ShareIn
<1>2. ASSUME NEW X, NEW Y, NEW Z, Z = X \cup Y, NEW a, NEW b
      PROVE  ShareOut(Z, a, b) = ShareOut(X, a, b) \cup ShareOut(Y, a, b)
  BY <1>2 DEF ShareOut
<1> DEFINE P1(X) == ShareIn(X, x[1], x[2])
           P2(X) == ShareIn(P1(X), x[2], x[1])
           P3(X) == ShareOut(P2(X), x[1], x[2])
           P4(X) == ShareOut(P3(X), x[2], x[1])
<1>3. P1(E \cup F) = P1(E) \cup P1(F)
  BY <1>1
<1> HIDE DEF P1
<1>4. P2(E \cup F) = P2(E) \cup P2(F)
  <2> DEFINE X == P1(E)
             Y == P1(F)
             Z == P1(E \cup F)
  <2>1. Z = X \cup Y
    BY <1>3
  <2> HIDE DEF X, Y, Z
  <2>2. ShareIn(Z, x[2], x[1]) = ShareIn(X, x[2], x[1]) \cup ShareIn(Y, x[2], x[1])
    BY <1>1, <2>1
  <2> QED BY <2>2 DEF X, Y, Z
<1> HIDE DEF P2
<1>5. P3(E \cup F) = P3(E) \cup P3(F)
  <2> DEFINE X == P2(E)
             Y == P2(F)
             Z == P2(E \cup F)
  <2>1. Z = X \cup Y
    BY <1>4
  <2> HIDE DEF X, Y, Z
  <2>2. ShareOut(Z, x[1], x[2]) = ShareOut(X, x[1], x[2]) \cup ShareOut(Y, x[1], x[2])
    BY <1>2, <2>1
  <2> QED BY <2>2 DEF X, Y, Z
<1> HIDE DEF P3
<1>6. P4(E \cup F) = P4(E) \cup P4(F)
  <2> DEFINE X == P3(E)
             Y == P3(F)
             Z == P3(E \cup F)
  <2>1. Z = X \cup Y
    BY <1>5
  <2> HIDE DEF X, Y, Z
  <2>2. ShareOut(Z, x[2], x[1]) = ShareOut(X, x[2], x[1]) \cup ShareOut(Y, x[2], x[1])
    BY <1>2, <2>1
  <2> QED BY <2>2 DEF X, Y, Z
<1> QED BY <1>6 DEF Propagate, P1, P2, P3

LEMMA PassUnion ==
  ASSUME NEW d, NEW E \in SUBSET (Nodes(d) \X Nodes(d)), NEW F \in SUBSET (Nodes(d) \X Nodes(d)),
         NEW rels, Len(rels) \in Nat, NEW C
  PROVE  Pass(d, E \cup F, rels, C) = Pass(d, E, rels, C) \cup Pass(d, F, rels, C)
PROOF
<1> DEFINE n == Len(rels)
           g == Passes(d, E, rels, C)
           h == Passes(d, F, rels, C)
           b == Passes(d, E \cup F, rels, C)
           S == {i \in 0 .. n : b[i] = g[i] \cup h[i]}
<1>1. ArePasses(g, d, E, rels, C) /\ ArePasses(h, d, F, rels, C)
  BY PassesStep
<1>2. ArePasses(b, d, E \cup F, rels, C)
  <2>1. E \cup F \in SUBSET (Nodes(d) \X Nodes(d))
    OBVIOUS
  <2> QED BY <2>1, PassesStep
<1> HIDE DEF g, h, b
<1>3. n \in Nat /\ n \in 0 .. n /\ 0 \in S
  BY <1>1, <1>2 DEF ArePasses
<1>4. ASSUME NEW i \in 0 .. n - 1, i \in S PROVE i + 1 \in S
  <2> DEFINE x == Ends(rels[i+1])
             tk == Takes(d, C, rels[i+1])
  <2>1. b[i] = g[i] \cup h[i]
    BY <1>4
  <2>2. i + 1 \in 0 .. n /\ (tk => g[i+1] = Propagate(g[i], x)) /\ (~tk => g[i+1] = g[i])
    BY <1>1, PassesAt
  <2>3. (tk => h[i+1] = Propagate(h[i], x)) /\ (~tk => h[i+1] = h[i])
    BY <1>1, PassesAt
  <2>4. (tk => b[i+1] = Propagate(b[i], x)) /\ (~tk => b[i+1] = b[i])
    BY <1>2, PassesAt
  <2>5. Propagate(g[i] \cup h[i], x) = Propagate(g[i], x) \cup Propagate(h[i], x)
    BY PropagateUnion
  <2> HIDE DEF x, tk
  <2>6. b[i+1] = g[i+1] \cup h[i+1]
    BY <2>1, <2>2, <2>3, <2>4, <2>5
  <2> QED BY <2>2, <2>6
<1> HIDE DEF S
<1>5. 0 .. n \subseteq S
  BY <1>3, <1>4, UpTo
<1>6. n \in S
  BY <1>3, <1>5
<1> QED BY <1>6 DEF S, Pass, g, h, b

\* A set of edges that has, with an edge, what the pair x makes of it.
Shares(R, x) == \A e \in R : /\ e[2] = x[1] => <<e[1], x[2]>> \in R
                             /\ e[2] = x[2] => <<e[1], x[1]>> \in R
                             /\ e[1] = x[1] => <<x[2], e[2]>> \in R
                             /\ e[1] = x[2] => <<x[1], e[2]>> \in R

LEMMA PropagateWithin ==
  ASSUME NEW R, NEW X, X \subseteq R, NEW x, Shares(R, x)
  PROVE  Propagate(X, x) \subseteq R
PROOF
<1>1. ASSUME NEW Y, Y \subseteq R
      PROVE  /\ ShareIn(Y, x[1], x[2]) \subseteq R /\ ShareIn(Y, x[2], x[1]) \subseteq R
             /\ ShareOut(Y, x[1], x[2]) \subseteq R /\ ShareOut(Y, x[2], x[1]) \subseteq R
  BY <1>1 DEF Shares, ShareIn, ShareOut
<1>2. ShareIn(ShareIn(X, x[1], x[2]), x[2], x[1]) \subseteq R
  BY <1>1
<1>3. ShareOut(ShareIn(ShareIn(X, x[1], x[2]), x[2], x[1]), x[1], x[2]) \subseteq R
  BY <1>1, <1>2
<1> QED BY <1>1, <1>3 DEF Propagate

\* A pass over such pairs stays in the set.
LEMMA PassWithin ==
  ASSUME NEW d, NEW E \in SUBSET (Nodes(d) \X Nodes(d)), NEW rels, Len(rels) \in Nat, NEW C,
         NEW R, E \subseteq R,
         \A i \in 1 .. Len(rels) : Takes(d, C, rels[i]) => Shares(R, Ends(rels[i]))
  PROVE  Pass(d, E, rels, C) \subseteq R
PROOF
<1> DEFINE n == Len(rels)
           g == Passes(d, E, rels, C)
           S == {i \in 0 .. n : g[i] \subseteq R}
<1>1. ArePasses(g, d, E, rels, C)
  BY PassesStep
<1> HIDE DEF g
<1>2. n \in Nat /\ n \in 0 .. n /\ 0 \in S
  BY <1>1 DEF ArePasses
<1>3. ASSUME NEW i \in 0 .. n - 1, i \in S PROVE i + 1 \in S
  <2> DEFINE x == Ends(rels[i+1])
             tk == Takes(d, C, rels[i+1])
  <2>1. /\ i + 1 \in 0 .. n /\ i + 1 \in 1 .. n
        /\ (tk => g[i+1] = Propagate(g[i], x)) /\ (~tk => g[i+1] = g[i])
    BY <1>1, PassesAt
  <2>2. g[i] \subseteq R /\ (tk => Shares(R, x))
    BY <1>3, <2>1
  <2> HIDE DEF x, tk
  <2>3. g[i+1] \subseteq R
    BY <2>1, <2>2, PropagateWithin
  <2> QED BY <2>1, <2>3
<1> HIDE DEF S
<1>4. 0 .. n \subseteq S
  BY <1>2, <1>3, UpTo
<1>5. n \in S
  BY <1>2, <1>4
<1> QED BY <1>5 DEF S, Pass, g

-----------------------------------------------------------------------------
(***************************************************************************)
(* The transitive closure and the transitive reduction.                    *)
(***************************************************************************)
AllNodes == {0, 1} \X PL
Edges == SUBSET (AllNodes \X AllNodes)
Has(X, a, b) == <<a, b>> \in X
ClosedAt(X, n) == \A a, b \in AllNodes : Has(X, a, n) /\ Has(X, n, b) => Has(X, a, b)
Transitive(R) == \A n \in AllNodes : ClosedAt(R, n)
Splits(X, E) == \A a, b \in AllNodes :
                   Has(X, a, b) => Has(E, a, b) \/ \E w \in AllNodes : Has(X, a, w) /\ Has(X, w, b)

LEMMA ThroughHas ==
  ASSUME NEW X \in Edges, NEW n \in AllNodes
  PROVE  /\ Through(n, X) \in Edges
         /\ \A a, b \in AllNodes :
               Has(Through(n, X), a, b) <=> Has(X, a, b) \/ (Has(X, a, n) /\ Has(X, n, b))
PROOF
<1>1. \A e \in X : e = <<e[1], e[2]>> /\ e[1] \in AllNodes /\ e[2] \in AllNodes
  BY DEF Edges
<1>2. Through(n, X) \in Edges
  <2>1. ASSUME NEW z \in Through(n, X) PROVE z \in AllNodes \X AllNodes
    <3>1. z \in X \/ \E e, x \in X : z = <<e[1], x[2]>>
      BY <2>1 DEF Through
    <3> QED BY <1>1, <3>1
  <2> QED BY <2>1 DEF Edges
<1>3. ASSUME NEW a \in AllNodes, NEW b \in AllNodes, Has(Through(n, X), a, b)
      PROVE  Has(X, a, b) \/ (Has(X, a, n) /\ Has(X, n, b))
  <2>1. <<a, b>> \in X \/ \E e, x \in X : e[2] = n /\ x[1] = n /\ <<a, b>> = <<e[1], x[2]>>
    BY <1>3 DEF Has, Through
  <2>2. ASSUME NEW e \in X, NEW x \in X, e[2] = n, x[1] = n, <<a, b>> = <<e[1], x[2]>>
        PROVE  Has(X, a, n) /\ Has(X, n, b)
    <3>1. e = <<a, n>> /\ x = <<n, b>>
      BY <1>1, <2>2
    <3> QED BY <3>1 DEF Has
  <2> QED BY <2>1, <2>2 DEF Has
<1>4. ASSUME NEW a \in AllNodes, NEW b \in AllNodes, Has(X, a, b) PROVE Has(Through(n, X), a, b)
  BY <1>4 DEF Has, Through
<1>5. ASSUME NEW a \in AllNodes, NEW b \in AllNodes, Has(X, a, n), Has(X, n, b)
      PROVE  Has(Through(n, X), a, b)
  <2>1. <<a, n>> \in {y \in X : y[2] = n} /\ <<n, b>> \in {y \in X : y[1] = n}
    BY <1>5 DEF Has
  <2>2. <<(<<a, n>>)[1], (<<n, b>>)[2]>>
           \in {<<e[1], x[2]>> : e \in {y \in X : y[2] = n}, x \in {y \in X : y[1] = n}}
    BY <2>1
  <2> QED BY <2>2 DEF Has, Through
<1> QED BY <1>2, <1>3, <1>4, <1>5

\* What one node of the closure adds: paths through it, and no more.
LEMMA ThroughStep ==
  ASSUME NEW X \in Edges, NEW n \in AllNodes, NEW Y, Y = Through(n, X)
  PROVE  /\ Y \in Edges
         /\ \A a, b \in AllNodes : Has(X, a, b) => Has(Y, a, b)
         /\ ClosedAt(Y, n)
         /\ \A m \in AllNodes : ClosedAt(X, m) => ClosedAt(Y, m)
         /\ \A E : Splits(X, E) => Splits(Y, E)
         /\ \A R : Transitive(R) /\ (\A a, b \in AllNodes : Has(X, a, b) => Has(R, a, b))
                   => \A a, b \in AllNodes : Has(Y, a, b) => Has(R, a, b)
PROOF
<1>1. /\ Y \in Edges
      /\ \A a, b \in AllNodes : Has(Y, a, b) <=> Has(X, a, b) \/ (Has(X, a, n) /\ Has(X, n, b))
  BY ThroughHas
<1>2. \A a, b \in AllNodes : Has(X, a, b) => Has(Y, a, b)
  BY <1>1
<1>3. ClosedAt(Y, n)
  BY <1>1 DEF ClosedAt
<1>4. ASSUME NEW m \in AllNodes, ClosedAt(X, m) PROVE ClosedAt(Y, m)
  BY <1>1, <1>4 DEF ClosedAt
<1>5. ASSUME NEW E, Splits(X, E) PROVE Splits(Y, E)
  BY <1>1, <1>5 DEF Splits
<1>6. ASSUME NEW R, Transitive(R), \A a, b \in AllNodes : Has(X, a, b) => Has(R, a, b)
      PROVE  \A a, b \in AllNodes : Has(Y, a, b) => Has(R, a, b)
  BY <1>1, <1>6 DEF Transitive, ClosedAt
<1> QED BY <1>1, <1>2, <1>3, <1>4, <1>5, <1>6

\* The closures are what their recursive definition says.
AreClosures(g, E) ==
    /\ g \in [0 .. Len(pl_names) -> Edges]
    /\ g[0] = E
    /\ \A i \in 1 .. Len(pl_names) :
          g[i] = Through(<<1, pl_names[i]>>, Through(<<0, pl_names[i]>>, g[i-1]))

LEMMA NamesLen == /\ Len(pl_names) \in Nat
                  /\ \A i \in 1 .. Len(pl_names) : <<0, pl_names[i]>> \in AllNodes
                                                   /\ <<1, pl_names[i]>> \in AllNodes
                  /\ \A n \in AllNodes : \E i \in 1 .. Len(pl_names) :
                        n = <<0, pl_names[i]>> \/ n = <<1, pl_names[i]>>
BY NameAssumption DEF AllNodes

LEMMA ClosuresStep ==
  ASSUME NEW E \in Edges
  PROVE  AreClosures(Closures(E), E)
PROOF
<1> DEFINE n == Len(pl_names)
           Step(i, X) == Through(<<1, pl_names[i]>>, Through(<<0, pl_names[i]>>, X))
           F == [i \in 1 .. n |-> [X \in Edges |-> Step(i, X)]]
           IsIt(f) == f = [i \in 0 .. n |-> IF i = 0 THEN E ELSE Step(i, f[i-1])]
<1>0. ASSUME NEW i \in 1 .. n, NEW X \in Edges PROVE Step(i, X) \in Edges
  <2>1. Through(<<0, pl_names[i]>>, X) \in Edges
    BY NamesLen, ThroughHas
  <2> QED BY <2>1, NamesLen, ThroughHas
<1> HIDE DEF Step
<1>1. F \in [1 .. n -> [Edges -> Edges]]
  BY <1>0
<1>2a. PICK f : Recurs(f, Edges, E, n, F)
  <2>1. n \in Nat
    BY NamesLen
  <2> HIDE DEF F, n
  <2> QED BY <1>1, <2>1, Recursion
<1>2. f \in [0 .. n -> Edges] /\ f[0] = E /\ \A i \in 1 .. n : f[i] = F[i][f[i-1]]
  BY <1>2a DEF Recurs
<1>3. \A i \in 1 .. n : f[i-1] \in Edges
  BY <1>2, NamesLen
<1>4. \A i \in 1 .. n : f[i] = Step(i, f[i-1])
  BY <1>2, <1>3
<1>5. IsIt(f)
  BY <1>2, <1>4, NamesLen
<1>6. Closures(E) = CHOOSE g : IsIt(g)
  BY DEF Closures, Step
<1> HIDE DEF IsIt
<1> DEFINE g == Closures(E)
<1>7. IsIt(g)
  BY <1>5, <1>6
<1> HIDE DEF g
<1>8. /\ DOMAIN g = 0 .. n /\ g[0] = E
      /\ \A i \in 1 .. n : g[i] = Step(i, g[i-1])
      /\ g = [i \in 0 .. n |-> g[i]]
  BY <1>7, NamesLen DEF IsIt
<1> DEFINE S == {i \in 0 .. n : g[i] \in Edges}
<1>9. 0 \in S /\ n \in Nat
  BY <1>8, NamesLen
<1>10. ASSUME NEW i \in 0 .. n - 1, i \in S PROVE i + 1 \in S
  <2>1. i + 1 \in 1 .. n /\ (i + 1) - 1 = i /\ i + 1 \in 0 .. n
    BY NamesLen
  <2>2. g[i+1] = Step(i + 1, g[i])
    BY <1>8, <2>1
  <2> QED BY <1>0, <1>10, <2>1, <2>2
<1> HIDE DEF S
<1>11. 0 .. n \subseteq S
  BY <1>9, <1>10, UpTo
<1>12. g \in [0 .. n -> Edges]
  BY <1>8, <1>11 DEF S
<1> QED BY <1>8, <1>12 DEF g, AreClosures, Step

\* A step of the closures: the two nodes of one name.
LEMMA ClosuresAt ==
  ASSUME NEW E \in Edges, NEW g, AreClosures(g, E), NEW i \in 0 .. Len(pl_names) - 1
  PROVE  /\ i + 1 \in 0 .. Len(pl_names)
         /\ \A a, b \in AllNodes : Has(g[i], a, b) => Has(g[i+1], a, b)
         /\ ClosedAt(g[i+1], <<0, pl_names[i+1]>>) /\ ClosedAt(g[i+1], <<1, pl_names[i+1]>>)
         /\ \A m \in AllNodes : ClosedAt(g[i], m) => ClosedAt(g[i+1], m)
         /\ Splits(g[i], E) => Splits(g[i+1], E)
         /\ \A R : Transitive(R) /\ (\A a, b \in AllNodes : Has(g[i], a, b) => Has(R, a, b))
                   => \A a, b \in AllNodes : Has(g[i+1], a, b) => Has(R, a, b)
PROOF
<1> DEFINE p == <<0, pl_names[i+1]>>
           q == <<1, pl_names[i+1]>>
           X == g[i]
           Y == Through(p, X)
           Z == Through(q, Y)
<1>1. i \in 0 .. Len(pl_names) /\ i + 1 \in 0 .. Len(pl_names)
      /\ i + 1 \in 1 .. Len(pl_names) /\ (i + 1) - 1 = i
  BY NamesLen
<1>2. X \in Edges /\ p \in AllNodes /\ q \in AllNodes
  BY <1>1, NamesLen DEF AreClosures
<1>3. g[i+1] = Z
  <2>1. g[i+1] = Through(q, Through(p, g[(i+1)-1]))
    BY <1>1 DEF AreClosures
  <2> QED BY <1>1, <2>1
<1> HIDE DEF X, p, q
<1>4. /\ Y \in Edges
      /\ \A a, b \in AllNodes : Has(X, a, b) => Has(Y, a, b)
      /\ ClosedAt(Y, p)
      /\ \A m \in AllNodes : ClosedAt(X, m) => ClosedAt(Y, m)
      /\ Splits(X, E) => Splits(Y, E)
  BY <1>2, ThroughStep
<1>5. \A R : Transitive(R) /\ (\A a, b \in AllNodes : Has(X, a, b) => Has(R, a, b))
             => \A a, b \in AllNodes : Has(Y, a, b) => Has(R, a, b)
  BY <1>2, ThroughStep
<1> HIDE DEF Y
<1>6. /\ \A a, b \in AllNodes : Has(Y, a, b) => Has(Z, a, b)
      /\ ClosedAt(Z, q)
      /\ \A m \in AllNodes : ClosedAt(Y, m) => ClosedAt(Z, m)
      /\ Splits(Y, E) => Splits(Z, E)
  BY <1>2, <1>4, ThroughStep
<1>7. \A R : Transitive(R) /\ (\A a, b \in AllNodes : Has(Y, a, b) => Has(R, a, b))
             => \A a, b \in AllNodes : Has(Z, a, b) => Has(R, a, b)
  BY <1>2, <1>4, ThroughStep
<1> HIDE DEF Z
<1>8. /\ \A a, b \in AllNodes : Has(X, a, b) => Has(Z, a, b)
      /\ ClosedAt(Z, p) /\ ClosedAt(Z, q)
      /\ \A m \in AllNodes : ClosedAt(X, m) => ClosedAt(Z, m)
      /\ Splits(X, E) => Splits(Z, E)
  BY <1>2, <1>4, <1>6
<1>9. \A R : Transitive(R) /\ (\A a, b \in AllNodes : Has(X, a, b) => Has(R, a, b))
             => \A a, b \in AllNodes : Has(Z, a, b) => Has(R, a, b)
  BY <1>5, <1>7
<1> QED BY <1>1, <1>3, <1>8, <1>9, Zenon DEF X, p, q

\* The closure is the least transitive set with the edges, and what it adds comes
\* from two of its own edges.
LEMMA Closure ==
  ASSUME NEW E \in Edges
  PROVE  /\ TC(E) \in Edges
         /\ \A a, b \in AllNodes : Has(E, a, b) => Has(TC(E), a, b)
         /\ Transitive(TC(E))
         /\ Splits(TC(E), E)
         /\ \A R : Transitive(R) /\ (\A a, b \in AllNodes : Has(E, a, b) => Has(R, a, b))
                   => \A a, b \in AllNodes : Has(TC(E), a, b) => Has(R, a, b)
PROOF
<1> DEFINE n == Len(pl_names)
           g == Closures(E)
           Below(i) == \A j \in 1 .. i :
                          ClosedAt(g[i], <<0, pl_names[j]>>) /\ ClosedAt(g[i], <<1, pl_names[j]>>)
           S == {i \in 0 .. n : /\ \A a, b \in AllNodes : Has(E, a, b) => Has(g[i], a, b)
                                /\ Splits(g[i], E)
                                /\ Below(i)}
<1>1. AreClosures(g, E)
  BY ClosuresStep
<1>2. TC(E) = g[n]
  BY DEF TC
<1> HIDE DEF g
<1>3. n \in Nat /\ n \in 0 .. n /\ 0 \in 0 .. n /\ g[0] = E /\ g[n] \in Edges
  BY <1>1, NamesLen DEF AreClosures
<1>4. 0 \in S
  BY <1>3 DEF Splits
<1>5. ASSUME NEW i \in 0 .. n - 1, i \in S PROVE i + 1 \in S
  <2>1. /\ i + 1 \in 0 .. n
        /\ \A a, b \in AllNodes : Has(g[i], a, b) => Has(g[i+1], a, b)
        /\ ClosedAt(g[i+1], <<0, pl_names[i+1]>>) /\ ClosedAt(g[i+1], <<1, pl_names[i+1]>>)
        /\ \A m \in AllNodes : ClosedAt(g[i], m) => ClosedAt(g[i+1], m)
        /\ Splits(g[i], E) => Splits(g[i+1], E)
    BY <1>1, ClosuresAt
  <2>2. ASSUME NEW j \in 1 .. i + 1
        PROVE  ClosedAt(g[i+1], <<0, pl_names[j]>>) /\ ClosedAt(g[i+1], <<1, pl_names[j]>>)
    <3>1. CASE j = i + 1
      BY <2>1, <3>1
    <3>2. CASE j # i + 1
      <4>1. j \in 1 .. i /\ j \in 1 .. n
        BY <1>3, <3>2
      <4>2. ClosedAt(g[i], <<0, pl_names[j]>>) /\ ClosedAt(g[i], <<1, pl_names[j]>>)
        BY <1>5, <4>1
      <4>3. <<0, pl_names[j]>> \in AllNodes /\ <<1, pl_names[j]>> \in AllNodes
        BY <4>1, NamesLen
      <4> QED BY <2>1, <4>2, <4>3
    <3> QED BY <3>1, <3>2
  <2>3. /\ \A a, b \in AllNodes : Has(E, a, b) => Has(g[i], a, b)
        /\ Splits(g[i], E)
    BY <1>5
  <2>4. Below(i + 1)
    BY <2>2
  <2> HIDE DEF Below
  <2> QED BY <2>1, <2>3, <2>4
<1> HIDE DEF S
<1>6. 0 .. n \subseteq S
  BY <1>3, <1>4, <1>5, UpTo
<1>7. /\ \A a, b \in AllNodes : Has(E, a, b) => Has(g[n], a, b)
      /\ Splits(g[n], E)
      /\ Below(n)
  BY <1>3, <1>6 DEF S
<1>8. Transitive(g[n])
  BY <1>7, NamesLen DEF Transitive
<1>9. ASSUME NEW R, Transitive(R), \A a, b \in AllNodes : Has(E, a, b) => Has(R, a, b)
      PROVE  \A a, b \in AllNodes : Has(g[n], a, b) => Has(R, a, b)
  <2> DEFINE Q == {i \in 0 .. n : \A a, b \in AllNodes : Has(g[i], a, b) => Has(R, a, b)}
  <2>1. 0 \in Q
    BY <1>3, <1>9
  <2>2. ASSUME NEW i \in 0 .. n - 1, i \in Q PROVE i + 1 \in Q
    BY <1>1, <1>9, <2>2, ClosuresAt
  <2> HIDE DEF Q
  <2>3. 0 .. n \subseteq Q
    BY <1>3, <2>1, <2>2, UpTo
  <2> QED BY <1>3, <2>3 DEF Q
<1> QED BY <1>2, <1>3, <1>7, <1>8, <1>9

\* The names make the PLs, and hence the nodes, finitely many.
LEMMA NodesFinite == IsFiniteSet(AllNodes)
PROOF
<1>1. pl_names \in [1 .. Len(pl_names) -> PL] /\ Len(pl_names) \in Nat
      /\ \A s \in PL : \E i \in 1 .. Len(pl_names) : pl_names[i] = s
  BY NameAssumption
<1>2. pl_names \in Surjection(1 .. Len(pl_names), PL)
  BY <1>1 DEF Surjection
<1>3. IsFiniteSet(PL)
  BY <1>1, <1>2, FS_NatSurjection DEF ExistsSurjection
<1>4. IsFiniteSet({0, 1})
  <2>1. IsFiniteSet({0})
    BY FS_Singleton
  <2>2. IsFiniteSet({0} \cup {1})
    BY <2>1, FS_AddElement
  <2>3. {0} \cup {1} = {0, 1}
    OBVIOUS
  <2> QED BY <2>2, <2>3
<1> QED BY <1>3, <1>4, FS_Product DEF AllNodes

\* A graph between nodes.
IsGraph(G) == G.node \subseteq AllNodes /\ G.edge \in SUBSET (G.node \X G.node)

\* The closure of a graph keeps to its nodes.
LEMMA ClosureInside ==
  ASSUME NEW G, IsGraph(G)
  PROVE  /\ G.edge \in Edges
         /\ \A a, b \in AllNodes : Has(TC(G.edge), a, b) => a \in G.node /\ b \in G.node
PROOF
<1>1. G.edge \in Edges
  BY DEF IsGraph, Edges
<1> DEFINE R == G.node \X G.node
<1>2. Transitive(R)
  BY DEF Transitive, ClosedAt, Has
<1>3. \A a, b \in AllNodes : Has(G.edge, a, b) => Has(R, a, b)
  BY DEF IsGraph, Has
<1>4. \A a, b \in AllNodes : Has(TC(G.edge), a, b) => Has(R, a, b)
  <2> HIDE DEF R
  <2> QED BY <1>1, <1>2, <1>3, Closure
<1> QED BY <1>1, <1>4 DEF Has

\* Of a graph without a cycle the reduction loses no order: what is transitive and has
\* its edges has those of the graph.
LEMMA Reduction ==
  ASSUME NEW G, IsGraph(G), ~Cyclic(G), NEW R, Transitive(R),
         \A a, b \in AllNodes : Has(TR(G), a, b) => Has(R, a, b)
  PROVE  \A a, b \in AllNodes : Has(TC(G.edge), a, b) => Has(R, a, b)
PROOF
<1> DEFINE tc == TC(G.edge)
           Between(a, b) == {w \in AllNodes : Has(tc, a, w) /\ Has(tc, w, b)}
           Bad == {x \in AllNodes \X AllNodes : Has(tc, x[1], x[2]) /\ ~Has(R, x[1], x[2])}
           K == {Cardinality(Between(x[1], x[2])) : x \in Bad}
<1>1. G.edge \in Edges
  BY ClosureInside
<1>2. Transitive(tc) /\ Splits(tc, G.edge)
  BY <1>1, Closure
<1>3. \A a, b \in AllNodes : Has(tc, a, b) => a \in G.node /\ b \in G.node
  BY ClosureInside
<1>4. \A n \in AllNodes : ~Has(tc, n, n)
  BY <1>3 DEF Cyclic, Has
<1>5. \A a, b \in AllNodes : /\ IsFiniteSet(Between(a, b))
                            /\ Cardinality(Between(a, b)) \in Nat
  BY NodesFinite, FS_Subset, FS_CardinalityType
<1>6. ASSUME NEW a \in AllNodes, NEW b \in AllNodes,
             Has(G.edge, a, b), \A w \in AllNodes : ~(Has(tc, a, w) /\ Has(tc, w, b))
      PROVE  Has(TR(G), a, b)
  <2>1. <<a, b>> \in G.edge
    BY <1>6 DEF Has
  <2>2. \A w \in G.node : <<a, w>> \notin tc \/ <<w, b>> \notin tc
    BY <1>6 DEF Has, IsGraph
  <2> QED BY <2>1, <2>2 DEF TR, Has
<1> HIDE DEF tc
<1> SUFFICES ASSUME Bad # {} PROVE FALSE
  <2>1. ASSUME NEW a \in AllNodes, NEW b \in AllNodes, Has(tc, a, b), ~Has(R, a, b)
        PROVE  <<a, b>> \in Bad
    BY <2>1
  <2> QED BY <2>1 DEF tc
<1>7. K \subseteq Nat /\ K # {}
  <2>1. ASSUME NEW y \in Bad PROVE Cardinality(Between(y[1], y[2])) \in Nat
    BY <1>5
  <2> HIDE DEF Between, Bad
  <2> QED BY <2>1
<1>8. PICK k \in K : \A m \in K : k <= m
  <2> HIDE DEF K
  <2> QED BY <1>7, Least
<1>9. PICK x \in Bad : k = Cardinality(Between(x[1], x[2]))
  BY <1>8
<1> DEFINE a == x[1]
           b == x[2]
<1>10. a \in AllNodes /\ b \in AllNodes /\ Has(tc, a, b) /\ ~Has(R, a, b)
       /\ k = Cardinality(Between(a, b))
  BY <1>9
<1>11. ASSUME NEW y \in Bad PROVE k <= Cardinality(Between(y[1], y[2]))
  <2> HIDE DEF Between, Bad
  <2> QED BY <1>8
<1>12. ASSUME NEW u \in AllNodes, NEW v \in AllNodes, Has(tc, u, v),
              k > Cardinality(Between(u, v))
       PROVE  Has(R, u, v)
  <2>1. SUFFICES ASSUME ~Has(R, u, v) PROVE FALSE
    OBVIOUS
  <2>2. <<u, v>> \in Bad
    BY <1>12, <2>1
  <2>3. k <= Cardinality(Between(u, v))
    BY <1>11, <2>2
  <2>4. k \in Nat /\ Cardinality(Between(u, v)) \in Nat
    BY <1>5, <1>7, <1>8
  <2> HIDE DEF Between
  <2> QED BY <1>12, <2>3, <2>4
<1> HIDE DEF a, b, Bad, K
<1>13. PICK w \in AllNodes : Has(tc, a, w) /\ Has(tc, w, b)
  BY <1>2, <1>6, <1>10 DEF Splits
<1>14. w \in Between(a, b) /\ w \notin Between(a, w) /\ w \notin Between(w, b)
  BY <1>4, <1>13
<1>15. Between(a, w) \subseteq Between(a, b) /\ Between(w, b) \subseteq Between(a, b)
  BY <1>2, <1>10, <1>13 DEF Transitive, ClosedAt
<1>16. /\ Cardinality(Between(a, w)) \in Nat /\ Cardinality(Between(w, b)) \in Nat
       /\ IsFiniteSet(Between(a, b)) /\ Cardinality(Between(a, b)) \in Nat
  BY <1>5, <1>10
<1> HIDE DEF Between
<1>17. Cardinality(Between(a, w)) < k /\ Cardinality(Between(w, b)) < k
  <2>1. /\ Cardinality(Between(a, w)) <= Cardinality(Between(a, b))
        /\ Cardinality(Between(a, w)) # Cardinality(Between(a, b))
    BY <1>14, <1>15, <1>16, FS_Subset
  <2>2. /\ Cardinality(Between(w, b)) <= Cardinality(Between(a, b))
        /\ Cardinality(Between(w, b)) # Cardinality(Between(a, b))
    BY <1>14, <1>15, <1>16, FS_Subset
  <2> QED BY <1>10, <1>16, <2>1, <2>2
<1>18. Has(R, a, w) /\ Has(R, w, b)
  BY <1>10, <1>12, <1>13, <1>16, <1>17
<1> QED BY <1>10, <1>18 DEF Transitive, ClosedAt

-----------------------------------------------------------------------------
(***************************************************************************)
(* The solver.                                                             *)
(***************************************************************************)
\* A constraint between nodes of N holds of the times tm.
Bounding(N) == N \X N \X Int
Bound(tm, c) == tm[c[2]] >= tm[c[1]] + c[3]
SoundSets(N, tm) == {B \in SUBSET Bounding(N) : \A c \in B : Bound(tm, c)}

LEMMA ChainSound ==
  ASSUME NEW N, NEW tm \in [N -> Int], NEW n, NEW B \in SoundSets(N, tm)
  PROVE  Strongest(B) \in SoundSets(N, tm) /\ Chain(n, B) \in SoundSets(N, tm)
PROOF
<1> DEFINE new == {<<c[1], x[2], c[3] + x[3]>> : c \in {y \in B : y[2] = n}, x \in {y \in B : y[1] = n}}
<1>1. ASSUME NEW c \in B, NEW x \in B, c[2] = n, x[1] = n
      PROVE  /\ <<c[1], x[2], c[3] + x[3]>> \in Bounding(N)
             /\ Bound(tm, <<c[1], x[2], c[3] + x[3]>>)
  <2>1. c \in Bounding(N) /\ x \in Bounding(N) /\ Bound(tm, c) /\ Bound(tm, x)
    BY DEF SoundSets
  <2>2. /\ c[1] \in N /\ c[2] \in N /\ c[3] \in Int /\ x[1] \in N /\ x[2] \in N /\ x[3] \in Int
        /\ tm[c[1]] \in Int /\ tm[c[2]] \in Int /\ tm[x[2]] \in Int
    BY <2>1 DEF Bounding
  <2>3. tm[x[2]] >= tm[c[1]] + (c[3] + x[3])
    BY <1>1, <2>1, <2>2 DEF Bound
  <2> QED BY <2>2, <2>3 DEF Bounding, Bound
<1>2. \A z \in new : z \in Bounding(N) /\ Bound(tm, z)
  BY <1>1
<1> HIDE DEF new
<1>3. B \cup new \in SoundSets(N, tm)
  BY <1>2 DEF SoundSets
<1>4. ASSUME NEW X \in SoundSets(N, tm) PROVE Strongest(X) \in SoundSets(N, tm)
  BY DEF Strongest, SoundSets
<1>5. Chain(n, B) = Strongest(B \cup new)
  BY DEF Chain, new
<1> QED BY <1>3, <1>4, <1>5

\* What every step of the solver keeps, its result keeps.
LEMMA SolveWithin ==
  ASSUME NEW V, NEW B, Strongest(B) \in V, \A n \in AllNodes, X \in V : Chain(n, X) \in V
  PROVE  Solve(B) \in V
PROOF
<1> DEFINE n == Len(pl_names)
           v0 == Strongest(B)
           Step(i, X) == Chain(<<1, pl_names[i]>>, Chain(<<0, pl_names[i]>>, X))
           F == [i \in 1 .. n |-> [X \in V |-> Step(i, X)]]
           IsIt(f) == f = [i \in 0 .. n |-> IF i = 0 THEN v0 ELSE Step(i, f[i-1])]
<1>0. ASSUME NEW i \in 1 .. n, NEW X \in V PROVE Step(i, X) \in V
  <2>1. Chain(<<0, pl_names[i]>>, X) \in V
    BY NamesLen
  <2> QED BY <2>1, NamesLen
<1>1. v0 \in V /\ n \in Nat
  BY NamesLen
<1> HIDE DEF Step, v0
<1>2. F \in [1 .. n -> [V -> V]]
  BY <1>0
<1>3a. PICK f : Recurs(f, V, v0, n, F)
  <2>1. v0 \in V
    BY <1>1
  <2>2. n \in Nat
    BY <1>1
  <2> HIDE DEF F, n
  <2> QED BY <1>2, <2>1, <2>2, Recursion
<1>3. f \in [0 .. n -> V] /\ f[0] = v0 /\ \A i \in 1 .. n : f[i] = F[i][f[i-1]]
  BY <1>3a DEF Recurs
<1>4. \A i \in 1 .. n : f[i-1] \in V
  BY <1>1, <1>3
<1>5. \A i \in 1 .. n : f[i] = Step(i, f[i-1])
  BY <1>3, <1>4
<1>6. IsIt(f)
  BY <1>1, <1>3, <1>5
<1>7. Bounds(B) = CHOOSE g : IsIt(g)
  BY DEF Bounds, Step, v0
<1> HIDE DEF IsIt
<1> DEFINE g == Bounds(B)
<1>8. IsIt(g)
  BY <1>6, <1>7
<1> HIDE DEF g
<1>9. g[0] = v0 /\ \A i \in 1 .. n : g[i] = Step(i, g[i-1])
  <2>1. ASSUME NEW i \in 0 .. n PROVE g[i] = IF i = 0 THEN v0 ELSE Step(i, g[i-1])
    BY <1>8, Zenon DEF IsIt
  <2>2. 0 \in 0 .. n /\ \A i \in 1 .. n : i \in 0 .. n /\ i # 0
    BY <1>1
  <2> HIDE DEF n
  <2> QED BY <2>1, <2>2, Zenon
<1> DEFINE S == {i \in 0 .. n : g[i] \in V}
<1>10. 0 \in S
  BY <1>1, <1>9
<1>11. ASSUME NEW i \in 0 .. n - 1, i \in S PROVE i + 1 \in S
  <2>1. i + 1 \in 1 .. n /\ (i + 1) - 1 = i /\ i + 1 \in 0 .. n
    BY <1>1
  <2>2. g[i+1] = Step(i + 1, g[i])
    BY <1>9, <2>1
  <2> QED BY <1>0, <1>11, <2>1, <2>2
<1> HIDE DEF S
<1>12. 0 .. n \subseteq S
  BY <1>1, <1>10, <1>11, UpTo
<1>13. g[n] \in V
  BY <1>1, <1>12 DEF S
<1> QED BY <1>13 DEF Solve, g

\* The solver derives only what every solution satisfies.
LEMMA SolveSound ==
  ASSUME NEW N, NEW tm \in [N -> Int], NEW B \in SoundSets(N, tm)
  PROVE  Solve(B) \in SoundSets(N, tm)
BY ChainSound, SolveWithin
=============================================================================
