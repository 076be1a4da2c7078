----------------------------- MODULE LoopProofs -----------------------------
(* The closed forms LeagueBracket is written in give, on every bracket the *)
(* league can come to, what the recursions and sweeps of LeagueLoops give. *)
(*                                                                         *)
(* A recursive function is a CHOOSE; that it obeys its own equation is a   *)
(* theorem here (Recursion), for a rule that asks the function only for    *)
(* arguments of a smaller measure.  What it computes is then shown by      *)
(* induction on the measure, in the first-order form of MeasureInduction.  *)
EXTENDS LeagueLoops, LeagueProofs, FiniteSetTheorems

-----------------------------------------------------------------------------
(* Induction on a measure, about the set of what has the property.         *)

LEMMA MeasureInduction ==
    ASSUME NEW D, NEW measure \in [D -> Nat], NEW Good,
           \A x \in D : (\A y \in D : measure[y] < measure[x] => y \in Good) => x \in Good
    PROVE  D \subseteq Good
  <1> DEFINE S == {k \in Nat : \E y \in D : y \notin Good /\ k = measure[y]}
  <1>1. SUFFICES ASSUME NEW x \in D, x \notin Good PROVE FALSE
    OBVIOUS
  <1>2. S \in SUBSET Nat /\ S # {}
    BY <1>1
  <1>3. PICK k \in S : \A j \in S : k <= j
    <2> HIDE DEF S
    <2> QED
      BY <1>2, LeastNumber, Zenon
  <1>4. PICK y \in D : y \notin Good /\ k = measure[y]
    BY <1>3
  <1>5. ASSUME NEW z \in D, measure[z] < measure[y]
        PROVE  z \in Good
    <2>1. SUFFICES ASSUME z \notin Good PROVE FALSE
      OBVIOUS
    <2>2. measure[z] \in S /\ measure[z] \in Nat /\ measure[y] \in Nat
      BY <2>1
    <2> QED
      BY <1>3, <1>4, <1>5, <2>2
  <1> QED
    BY <1>4, <1>5

-----------------------------------------------------------------------------
(* Recursive functions.  A rule that asks a function only for arguments of *)
(* a smaller measure has a solution.                                       *)

Solves(f, rule, D) == \A x \in D : f[x] = rule[<<f, x>>]

SolvesUpTo(f, rule, D, measure, n) == \A x \in D : measure[x] < n => f[x] = rule[<<f, x>>]

LooksBelow(rule, D, B, measure) ==
    \A f, g \in [D -> B] : \A x \in D :
        (\A y \in D : measure[y] < measure[x] => f[y] = g[y]) => rule[<<f, x>>] = rule[<<g, x>>]

LEMMA Recursion ==
    ASSUME NEW D, NEW B, NEW any \in B, NEW measure \in [D -> Nat],
           NEW rule \in [[D -> B] \X D -> B],
           LooksBelow(rule, D, B, measure)
    PROVE  \E f \in [D -> B] : Solves(f, rule, D)
  <1>0. ASSUME NEW m \in Nat, NEW n \in Nat, NEW g \in [D -> B], NEW h \in [D -> B], NEW x \in D,
               SolvesUpTo(g, rule, D, measure, m), SolvesUpTo(h, rule, D, measure, n),
               measure[x] < m, measure[x] < n
        PROVE  g[x] = h[x]
    <2> DEFINE Good == {y \in D : measure[y] < m /\ measure[y] < n => g[y] = h[y]}
    <2>1. ASSUME NEW y \in D, \A z \in D : measure[z] < measure[y] => z \in Good,
                 measure[y] < m, measure[y] < n
          PROVE  g[y] = h[y]
      <3>1. ASSUME NEW z \in D, measure[z] < measure[y]
            PROVE  g[z] = h[z]
        <4>1. measure[z] \in Nat /\ measure[y] \in Nat
          OBVIOUS
        <4> QED
          BY <2>1, <3>1, <4>1
      <3>2. rule[<<g, y>>] = rule[<<h, y>>]
        BY <3>1 DEF LooksBelow
      <3> QED
        BY <1>0, <2>1, <3>2 DEF SolvesUpTo
    <2>2. \A y \in D : (\A z \in D : measure[z] < measure[y] => z \in Good) => y \in Good
      BY <2>1
    <2> HIDE DEF Good
    <2>3. x \in Good
      BY <2>2, MeasureInduction
    <2> QED
      BY <1>0, <2>3 DEF Good
  <1> DEFINE A(n) == {g \in [D -> B] : SolvesUpTo(g, rule, D, measure, n)}
             S == {n \in Nat : A(n) = {}}
  <1>1. S = {}
    <2>1. SUFFICES ASSUME S # {} PROVE FALSE
      OBVIOUS
    <2>2. PICK n \in S : \A j \in S : n <= j
      <3>1. S \in SUBSET Nat
        OBVIOUS
      <3> HIDE DEF S
      <3> QED
        BY <2>1, <3>1, LeastNumber, Zenon
    <2>3. n # 0
      <3>1. \A x \in D : measure[x] \in Nat /\ ~ (measure[x] < 0)
        OBVIOUS
      <3>2. [x \in D |-> any] \in A(0)
        BY <3>1 DEF SolvesUpTo
      <3> QED
        BY <3>2
    <2>4. n - 1 \in Nat /\ n - 1 \notin S
      BY <2>2, <2>3
    <2>5. PICK g \in [D -> B] : SolvesUpTo(g, rule, D, measure, n - 1)
      BY <2>4
    <2> DEFINE h == [x \in D |-> rule[<<g, x>>]]
    <2>6. h \in [D -> B]
      OBVIOUS
    <2>7. ASSUME NEW x \in D, measure[x] < n
          PROVE  h[x] = rule[<<h, x>>]
      <3>1. ASSUME NEW y \in D, measure[y] < measure[x]
            PROVE  g[y] = h[y]
        <4>1. measure[y] < n - 1
          <5>1. measure[y] \in Nat /\ measure[x] \in Nat /\ n \in Nat
            OBVIOUS
          <5> QED
            BY <2>7, <3>1, <5>1
        <4> QED
          BY <2>5, <4>1 DEF SolvesUpTo
      <3> HIDE DEF h
      <3>2. rule[<<g, x>>] = rule[<<h, x>>]
        BY <2>6, <3>1 DEF LooksBelow
      <3> QED
        BY <3>2 DEF h
    <2>8. h \in A(n)
      <3> HIDE DEF h
      <3> QED
        BY <2>6, <2>7 DEF SolvesUpTo
    <2> QED
      BY <2>8
  <1> DEFINE G(n) == CHOOSE g \in A(n) : TRUE
             f == [x \in D |-> G(measure[x] + 1)[x]]
  <1>2. ASSUME NEW n \in Nat
        PROVE  G(n) \in [D -> B] /\ SolvesUpTo(G(n), rule, D, measure, n)
    <2>1. A(n) # {}
      BY <1>1
    <2>2. G(n) \in A(n)
      <3> HIDE DEF A
      <3> QED
        BY <2>1, Zenon
    <2> QED
      BY <2>2
  <1> HIDE DEF G
  <1>3. f \in [D -> B]
    BY <1>2
  <1>4. ASSUME NEW x \in D
        PROVE  f[x] = rule[<<f, x>>]
    <2> DEFINE n == measure[x] + 1
               g == G(n)
    <2>1. n \in Nat /\ measure[x] < n /\ measure[x] \in Nat
      OBVIOUS
    <2>2. g \in [D -> B] /\ SolvesUpTo(g, rule, D, measure, n)
      BY <1>2, <2>1
    <2>3. ASSUME NEW y \in D, measure[y] < measure[x]
          PROVE  f[y] = g[y]
      <3> DEFINE k == measure[y] + 1
                 j == G(k)
      <3>1. k \in Nat /\ measure[y] < k /\ measure[y] < n
        <4>1. measure[y] \in Nat
          OBVIOUS
        <4> QED
          BY <2>1, <2>3, <4>1
      <3>2. j \in [D -> B] /\ SolvesUpTo(j, rule, D, measure, k)
        BY <1>2, <3>1
      <3>3. f[y] = j[y]
        OBVIOUS
      <3> HIDE DEF j, k, g, n, f
      <3>4. j[y] = g[y]
        BY <1>0, <2>1, <2>2, <3>1, <3>2
      <3> QED
        BY <3>3, <3>4
    <2>4. f[x] = g[x]
      OBVIOUS
    <2>5. g[x] = rule[<<g, x>>]
      <3> HIDE DEF g, n
      <3> QED
        BY <2>1, <2>2 DEF SolvesUpTo
    <2> HIDE DEF f, g, n
    <2>6. rule[<<f, x>>] = rule[<<g, x>>]
      BY <1>3, <2>2, <2>3 DEF LooksBelow
    <2> QED
      BY <2>4, <2>5, <2>6
  <1> HIDE DEF f
  <1> QED
    BY <1>3, <1>4 DEF Solves

-----------------------------------------------------------------------------
(* Coordinates.                                                            *)

SlotStep(f, p) == IF p = <<>> THEN 0 ELSE 2 * f[Front(p)] + Digit(Last(p))

(* A path other than the empty one, whether or not it is one of Path. *)
LEMMA PathParts ==
    ASSUME NEW p \in Seq(Side), p # <<>>
    PROVE  /\ Front(p) \in Seq(Side) /\ Len(Front(p)) = Len(p) - 1
           /\ Last(p) \in Side
           /\ Append(Front(p), Last(p)) = p
           /\ Len(p) \in Nat \ {0} /\ Len(p) - 1 \in Nat
  <1>1. Len(p) \in Nat \ {0} /\ Len(p) - 1 \in Nat
    BY EmptySeq
  <1>2. Last(p) \in Side
    BY <1>1 DEF Last
  <1> DEFINE l == Len(p) - 1
  <1>3. Front(p) \in Seq(Side) /\ Len(Front(p)) = Len(p) - 1
    <2>1. l \in 0..Len(p) /\ l \in Nat
      BY <1>1
    <2> HIDE DEF l
    <2>2. SubSeq(p, 1, l) \in Seq(Side) /\ Len(SubSeq(p, 1, l)) = l
      BY <1>1, <2>1
    <2> QED
      BY <2>2 DEF l, Front
  <1>4. Append(Front(p), Last(p)) = p
    BY <1>1 DEF Front, Last
  <1> QED
    BY <1>1, <1>2, <1>3, <1>4

LEMMA PathEnd ==
    ASSUME NEW p \in Seq(Side), NEW s \in Side
    PROVE  /\ Append(p, s) \in Seq(Side) /\ Append(p, s) # <<>>
           /\ Front(Append(p, s)) = p /\ Last(Append(p, s)) = s
  <1> DEFINE c == Append(p, s)
  <1>1. /\ c \in Seq(Side)
        /\ Len(c) = Len(p) + 1 /\ Len(p) \in Nat
        /\ c[Len(p) + 1] = s
        /\ \A i \in 1..Len(p) : c[i] = p[i]
    OBVIOUS
  <1> HIDE DEF c
  <1>2. /\ SubSeq(c, 1, Len(p)) \in Seq(Side)
        /\ Len(SubSeq(c, 1, Len(p))) = Len(p)
        /\ \A i \in 1..Len(p) : SubSeq(c, 1, Len(p))[i] = c[i]
    BY <1>1
  <1>3. SubSeq(c, 1, Len(p)) = p
    BY <1>1, <1>2, SeqEqual
  <1>4. Front(c) = p /\ Last(c) = s /\ c # <<>>
    BY <1>1, <1>3 DEF Front, Last
  <1> QED
    BY <1>1, <1>4 DEF c

LEMMA SlotOfPathRule ==
    /\ SlotOfPath \in [Seq(Side) -> Nat]
    /\ \A p \in Seq(Side) : SlotOfPath[p] = SlotStep(SlotOfPath, p)
  <1> DEFINE D == Seq(Side)
             measure == [p \in D |-> Len(p)]
             rule == [z \in [D -> Nat] \X D |-> SlotStep(z[1], z[2])]
  <1>1. \A s : Digit(s) \in {0, 1}
    BY DEF Digit
  <1>2. measure \in [D -> Nat]
    OBVIOUS
  <1>3. rule \in [[D -> Nat] \X D -> Nat]
    <2>1. ASSUME NEW f \in [D -> Nat], NEW p \in D
          PROVE  SlotStep(f, p) \in Nat
      <3>1. CASE p = <<>>
        BY <3>1 DEF SlotStep
      <3>2. CASE p # <<>>
        <4>1. f[Front(p)] \in Nat
          BY <3>2, PathParts
        <4> QED
          BY <1>1, <3>2, <4>1 DEF SlotStep
      <3> QED
        BY <3>1, <3>2
    <2> QED
      BY <2>1
  <1>4. LooksBelow(rule, D, Nat, measure)
    <2>1. ASSUME NEW f \in [D -> Nat], NEW g \in [D -> Nat], NEW p \in D,
                 \A q \in D : measure[q] < measure[p] => f[q] = g[q]
          PROVE  SlotStep(f, p) = SlotStep(g, p)
      <3>1. CASE p # <<>>
        <4>1. f[Front(p)] = g[Front(p)]
          BY <2>1, <3>1, PathParts
        <4> QED
          BY <4>1 DEF SlotStep
      <3> QED
        BY <3>1 DEF SlotStep
    <2> QED
      BY <2>1 DEF LooksBelow
  <1>5. PICK f \in [D -> Nat] : Solves(f, rule, D)
    <2> HIDE DEF D, measure, rule
    <2>1. 0 \in Nat
      OBVIOUS
    <2> QED
      BY <1>2, <1>3, <1>4, <2>1, Recursion
  <1>6. f = [p \in D |-> SlotStep(f, p)]
    BY <1>5 DEF Solves
  <1>7. SlotOfPath = CHOOSE g : g = [p \in D |-> SlotStep(g, p)]
    BY DEF SlotOfPath, SlotStep
  <1>8. SlotOfPath = [p \in D |-> SlotStep(SlotOfPath, p)]
    BY <1>6, <1>7, Zenon
  <1>9. \A p \in D : SlotOfPath[p] = SlotStep(SlotOfPath, p)
    BY <1>8
  <1>10. SlotOfPath \in [D -> Nat]
    <2> DEFINE Good == {p \in D : SlotOfPath[p] \in Nat}
    <2>1. ASSUME NEW p \in D, \A q \in D : measure[q] < measure[p] => q \in Good
          PROVE  SlotOfPath[p] \in Nat
      <3>1. CASE p = <<>>
        <4>1. SlotStep(SlotOfPath, p) = 0
          BY <3>1 DEF SlotStep
        <4> QED
          BY <1>9, <4>1
      <3>2. CASE p # <<>>
        <4>1. Front(p) \in D /\ Len(Front(p)) < Len(p)
          BY <3>2, PathParts
        <4>2. SlotOfPath[Front(p)] \in Nat
          BY <2>1, <4>1
        <4> QED
          BY <1>1, <1>9, <3>2, <4>2 DEF SlotStep
      <3> QED
        BY <3>1, <3>2
    <2>2. \A p \in D : (\A q \in D : measure[q] < measure[p] => q \in Good) => p \in Good
      BY <2>1
    <2>3. D \subseteq Good
      <3> HIDE DEF D, measure, Good
      <3> QED
        BY <1>2, <2>2, MeasureInduction
    <2> QED
      BY <1>8, <2>3
  <1> QED
    BY <1>9, <1>10

PathStep(f, depth) ==
    [n \in Nat |->
        IF depth = 0 THEN <<>>
        ELSE Append(f[depth - 1][n \div 2], IF n % 2 = 0 THEN "a" ELSE "b")]

LEMMA PathOfRule == \A depth \in Nat : PathOf[depth] = PathStep(PathOf, depth)
  <1> DEFINE D == Nat
             B == [Nat -> Seq(Side)]
             measure == [n \in D |-> n]
             rule == [z \in [D -> B] \X D |-> PathStep(z[1], z[2])]
  <1>1. measure \in [D -> Nat]
    OBVIOUS
  <1>2. rule \in [[D -> B] \X D -> B]
    <2>1. ASSUME NEW f \in [D -> B], NEW d \in D
          PROVE  PathStep(f, d) \in B
      <3>1. CASE d = 0
        BY <3>1 DEF PathStep
      <3>2. CASE d # 0
        <4>1. d - 1 \in Nat /\ f[d - 1] \in B
          BY <3>2
        <4>2. ASSUME NEW n \in Nat
              PROVE  Append(f[d - 1][n \div 2], IF n % 2 = 0 THEN "a" ELSE "b") \in Seq(Side)
          <5>1. n \div 2 \in Nat
            OBVIOUS
          <5>2. f[d - 1][n \div 2] \in Seq(Side)
            BY <4>1, <5>1
          <5>3. (IF n % 2 = 0 THEN "a" ELSE "b") \in Side
            BY DEF Side
          <5> QED
            BY <5>2, <5>3
        <4> QED
          BY <3>2, <4>2 DEF PathStep
      <3> QED
        BY <3>1, <3>2
    <2> QED
      BY <2>1
  <1>3. LooksBelow(rule, D, B, measure)
    <2>1. ASSUME NEW f \in [D -> B], NEW g \in [D -> B], NEW d \in D,
                 \A k \in D : measure[k] < measure[d] => f[k] = g[k]
          PROVE  PathStep(f, d) = PathStep(g, d)
      <3>1. CASE d # 0
        <4>1. d - 1 \in D /\ measure[d - 1] < measure[d]
          BY <3>1
        <4>2. f[d - 1] = g[d - 1]
          BY <2>1, <4>1
        <4> QED
          BY <4>2 DEF PathStep
      <3> QED
        BY <3>1 DEF PathStep
    <2> QED
      BY <2>1 DEF LooksBelow
  <1>4. [n \in Nat |-> <<>>] \in B
    OBVIOUS
  <1>5. PICK f \in [D -> B] : Solves(f, rule, D)
    <2> HIDE DEF D, B, measure, rule
    <2> QED
      BY <1>1, <1>2, <1>3, <1>4, Recursion
  <1>6. f = [d \in D |-> PathStep(f, d)]
    BY <1>5 DEF Solves
  <1>7. PathOf = CHOOSE g : g = [d \in D |-> PathStep(g, d)]
    BY DEF PathOf, PathStep
  <1>8. PathOf = [d \in D |-> PathStep(PathOf, d)]
    BY <1>6, <1>7, Zenon
  <1> QED
    BY <1>8

(* Halving the slot of a match gives the slot of the match above, and the  *)
(* rest tells the side.                                                    *)
LEMMA HalfSlot ==
    ASSUME NEW p \in Seq(Side), p # <<>>
    PROVE  /\ SlotOfPath[p] \in Nat /\ SlotOfPath[Front(p)] \in Nat
           /\ SlotOfPath[p] \div 2 = SlotOfPath[Front(p)]
           /\ (IF SlotOfPath[p] % 2 = 0 THEN "a" ELSE "b") = Last(p)
  <1>1. Front(p) \in Seq(Side) /\ Last(p) \in Side
    BY PathParts
  <1>2. /\ SlotOfPath[p] \in Nat /\ SlotOfPath[Front(p)] \in Nat
        /\ SlotOfPath[p] = 2 * SlotOfPath[Front(p)] + Digit(Last(p))
    BY <1>1, SlotOfPathRule DEF SlotStep
  <1>3. \/ Last(p) = "a" /\ Digit(Last(p)) = 0
        \/ Last(p) = "b" /\ Digit(Last(p)) = 1
    BY <1>1 DEF Side, Digit
  <1>4. ASSUME NEW n \in Nat, NEW k \in Nat, NEW d \in {0, 1}, n = 2 * k + d
        PROVE  n \div 2 = k /\ n % 2 = d
    BY <1>4
  <1> QED
    BY <1>2, <1>3, <1>4

(* A path is recovered from its depth and its slot. *)
LEMMA PathOfSlot ==
    ASSUME NEW p \in Seq(Side)
    PROVE  PathOf[Len(p)][SlotOfPath[p]] = p
  <1> DEFINE D == Seq(Side)
             measure == [q \in D |-> Len(q)]
             Good == {q \in D : PathOf[Len(q)][SlotOfPath[q]] = q}
  <1>1. measure \in [D -> Nat]
    OBVIOUS
  <1>2. ASSUME NEW q \in D, \A r \in D : measure[r] < measure[q] => r \in Good
        PROVE  PathOf[Len(q)][SlotOfPath[q]] = q
    <2>1. Len(q) \in Nat /\ SlotOfPath[q] \in Nat
      BY SlotOfPathRule
    <2>2. PathOf[Len(q)] = PathStep(PathOf, Len(q))
      BY <2>1, PathOfRule
    <2>3. CASE q = <<>>
      <3>1. Len(q) = 0
        BY <2>3
      <3>2. PathStep(PathOf, Len(q))[SlotOfPath[q]] = <<>>
        BY <2>1, <3>1 DEF PathStep
      <3> QED
        BY <2>2, <2>3, <3>2
    <2>4. CASE q # <<>>
      <3> DEFINE n == SlotOfPath[q]
      <3>1. /\ Front(q) \in D /\ Len(Front(q)) = Len(q) - 1 /\ Len(q) # 0
            /\ Append(Front(q), Last(q)) = q
        BY <2>4, PathParts
      <3>2. n \div 2 = SlotOfPath[Front(q)] /\ (IF n % 2 = 0 THEN "a" ELSE "b") = Last(q)
        BY <2>4, HalfSlot
      <3>3. PathOf[Len(q) - 1][SlotOfPath[Front(q)]] = Front(q)
        <4>1. measure[Front(q)] < measure[q]
          BY <2>1, <3>1
        <4>2. Front(q) \in Good
          BY <1>2, <3>1, <4>1
        <4> QED
          BY <3>1, <4>2
      <3>4. PathStep(PathOf, Len(q))[n]
              = Append(PathOf[Len(q) - 1][n \div 2], IF n % 2 = 0 THEN "a" ELSE "b")
        <4> HIDE DEF n
        <4>1. n \in Nat
          BY <2>1 DEF n
        <4> QED
          BY <3>1, <4>1 DEF PathStep
      <3> HIDE DEF n
      <3>5. PathStep(PathOf, Len(q))[n] = Append(Front(q), Last(q))
        BY <3>2, <3>3, <3>4
      <3> QED
        BY <2>2, <3>1, <3>5 DEF n
    <2> QED
      BY <2>3, <2>4
  <1>3. \A q \in D : (\A r \in D : measure[r] < measure[q] => r \in Good) => q \in Good
    BY <1>2
  <1>4. D \subseteq Good
    <2> HIDE DEF D, measure, Good
    <2> QED
      BY <1>1, <1>3, MeasureInduction
  <1> QED
    BY <1>4

LEMMA TotalRoundsOfTree ==
    ASSUME PlaceInv, tree # {}
    PROVE  TotalRounds(tree) \in Nat /\ \A p \in tree : Len(p) \in Nat /\ Len(p) < TotalRounds(tree)
  <1> DEFINE S == {Len(p) : p \in tree}
  <1>1. \A p \in tree : Len(p) \in Nat /\ Len(p) <= MaxDepth
    <2>1. \A p \in tree : Len(p) \in Nat
      BY TreePaths DEF PlaceInv
    <2> QED
      BY <2>1, SizeAssumption DEF PlaceInv, DepthBounded
  <1>2. \E n \in S : \A k \in S : k <= n
    <2>1. S \in SUBSET Nat /\ S # {} /\ MaxDepth \in Nat /\ \A k \in S : k <= MaxDepth
      BY <1>1, SizeAssumption
    <2> HIDE DEF S
    <2> QED
      BY <2>1, GreatestNumber
  <1>3. \E n \in S : \A q \in tree : Len(q) <= n
    BY <1>2
  <1> DEFINE m == CHOOSE n \in S : \A q \in tree : Len(q) <= n
  <1>4. m \in S /\ \A q \in tree : Len(q) <= m
    <2> HIDE DEF S
    <2> QED
      BY <1>3, Zenon
  <1>5. TotalRounds(tree) = 1 + m
    BY DEF TotalRounds
  <1> HIDE DEF m
  <1> QED
    BY <1>1, <1>4, <1>5

LEMMA CoordinatesDo == PlaceInv => CoordinatesAgree
  <1> SUFFICES ASSUME PlaceInv, NEW p \in tree
               PROVE  /\ PathOf[TotalRounds(tree) - Coord(tree, p)[1]][Coord(tree, p)[2]] = p
                      /\ \A s \in Side : ChildKey(Coord(tree, p), s)
                                           = <<Round(tree, p) - 1, SlotOfPath[Append(p, s)]>>
                      /\ p # <<>> => /\ NextKey(Coord(tree, p)) = Coord(tree, Front(p))
                                     /\ NextSide(Coord(tree, p)) = Last(p)
    BY DEF CoordinatesAgree
  <1>1. /\ TotalRounds(tree) \in Nat /\ Len(p) \in Nat
        /\ p \in Seq(Side) /\ SlotOfPath[p] \in Nat
        /\ Coord(tree, p) = <<TotalRounds(tree) - Len(p), SlotOfPath[p]>>
    BY TotalRoundsOfTree, TreePaths, SlotOfPathRule DEF PlaceInv, Coord, Round
  <1>2. TotalRounds(tree) - (TotalRounds(tree) - Len(p)) = Len(p)
    BY <1>1
  <1>3. PathOf[TotalRounds(tree) - Coord(tree, p)[1]][Coord(tree, p)[2]] = p
    BY <1>1, <1>2, PathOfSlot
  <1>4. ASSUME NEW s \in Side
        PROVE  ChildKey(Coord(tree, p), s) = <<Round(tree, p) - 1, SlotOfPath[Append(p, s)]>>
    <2>1. SlotOfPath[Append(p, s)] = 2 * SlotOfPath[p] + Digit(s)
      BY <1>1, PathEnd, SlotOfPathRule DEF SlotStep
    <2> QED
      BY <1>1, <2>1 DEF ChildKey, Round
  <1>5. ASSUME p # <<>>
        PROVE  /\ NextKey(Coord(tree, p)) = Coord(tree, Front(p))
               /\ NextSide(Coord(tree, p)) = Last(p)
    <2>1. Len(Front(p)) = Len(p) - 1
      BY <1>1, <1>5, PathParts
    <2>2. TotalRounds(tree) - Len(Front(p)) = (TotalRounds(tree) - Len(p)) + 1
      BY <1>1, <2>1
    <2>3. SlotOfPath[p] \div 2 = SlotOfPath[Front(p)]
      BY <1>1, <1>5, HalfSlot
    <2>4. (IF SlotOfPath[p] % 2 = 0 THEN "a" ELSE "b") = Last(p)
      BY <1>1, <1>5, HalfSlot
    <2>5. NextKey(Coord(tree, p)) = <<(TotalRounds(tree) - Len(p)) + 1, SlotOfPath[p] \div 2>>
      BY <1>1 DEF NextKey
    <2>6. NextSide(Coord(tree, p)) = Last(p)
      BY <1>1, <2>4 DEF NextSide
    <2> QED
      BY <2>2, <2>3, <2>5, <2>6 DEF Coord, Round
  <1> QED
    BY <1>3, <1>4, <1>5

-----------------------------------------------------------------------------
(* Undoing.                                                                *)

-----------------------------------------------------------------------------
(* Climbing: the matches from p up that a recursion comes to when it goes  *)
(* on only through the matches of M.                                       *)

Climb(p, M) ==
    {q \in Above(p) : \A r \in Above(p) : IsPrefix(q, r) /\ r # p => r \in M}

LEMMA AboveStep ==
    ASSUME NEW p \in Path, p # <<>>
    PROVE  /\ Front(p) \in Path /\ Front(p) # p
           /\ p \in Above(p) /\ p \notin Above(Front(p))
           /\ Front(p) \in Above(p) /\ Front(p) \in Above(Front(p))
           /\ \A q : q \in Above(p) <=> q = p \/ q \in Above(Front(p))
           /\ \A q \in Above(Front(p)) : /\ IsPrefix(q, Front(p))
                                         /\ ~ IsPrefix(p, q)
                                         /\ q # Front(p) => SideToward(q, p) = SideToward(q, Front(p))
           /\ SideToward(Front(p), p) = Last(p)
  <1>1. /\ Front(p) \in Path /\ Last(p) \in Side /\ Append(Front(p), Last(p)) = p
        /\ p \in Seq(Side) /\ Len(p) \in Nat \ {0}
        /\ Front(p) \in Seq(Side) /\ Len(Front(p)) = Len(p) - 1
    BY FeedsType, PathType, PathParts
  <1>2. /\ Front(p) \in Above(p)
        /\ \A q \in Above(p) : q = p \/ q \in Above(Front(p))
        /\ \A q \in Above(Front(p)) : q \in Above(p)
    <2> DEFINE f == Front(p)
               s == Last(p)
    <2>1. f \in Path /\ s \in Side /\ Append(f, s) \in Path /\ Append(f, s) = p
      BY <1>1
    <2> HIDE DEF f, s
    <2>2. /\ f \in Above(Append(f, s))
          /\ \A q \in Above(Append(f, s)) : q = Append(f, s) \/ q \in Above(f)
          /\ \A q \in Above(f) : q \in Above(Append(f, s))
      BY <2>1, AboveAppend
    <2> QED
      BY <2>1, <2>2 DEF f
  <1>3. p \in Above(p) /\ Front(p) \in Above(Front(p)) /\ Front(p) # p
    BY <1>1, SelfAbove
  <1>4. ASSUME NEW q \in Above(Front(p))
        PROVE  /\ IsPrefix(q, Front(p)) /\ ~ IsPrefix(p, q) /\ q # p
               /\ q # Front(p) => SideToward(q, p) = SideToward(q, Front(p))
    <2>1. Len(q) \in 0..Len(p) - 1 /\ q \in Above(p)
      BY <1>1, <1>2, AboveType
    <2>2. ~ IsPrefix(p, q) /\ q # p
      <3>1. ~ (Len(p) <= Len(q))
        BY <1>1, <2>1
      <3>2. IsPrefix(p, q) <=> Len(p) <= Len(q)
        BY <1>3, <2>1, AboveByLength
      <3> QED
        BY <1>1, <3>1, <3>2
    <2>3. IsPrefix(q, Front(p))
      <3>1. IsPrefix(q, Front(p)) <=> Len(q) <= Len(Front(p))
        BY <1>1, <1>3, AboveByLength
      <3> QED
        BY <1>1, <2>1, <3>1
    <2>4. ASSUME q # Front(p)
          PROVE  SideToward(q, p) = SideToward(q, Front(p))
      <3>1. Len(q) # Len(Front(p))
        BY <1>1, <2>4, AboveByLength
      <3>2. Len(q) + 1 \in 1..Len(Front(p))
        BY <1>1, <2>1, <3>1
      <3>3. \A i \in 1..Len(Front(p)) : Front(p)[i] = p[i]
        BY <1>1, <1>2, AboveType
      <3> QED
        BY <3>2, <3>3 DEF SideToward
    <2> QED
      BY <2>2, <2>3, <2>4
  <1>5. SideToward(Front(p), p) = Last(p)
    <2>1. Len(Front(p)) + 1 = Len(p)
      BY <1>1
    <2> QED
      BY <2>1 DEF SideToward, Last
  <1> QED
    BY <1>1, <1>2, <1>3, <1>4, <1>5

LEMMA ClimbFinal ==
    ASSUME NEW M
    PROVE  Climb(<<>>, M) = {<<>>}
  <1>1. <<>> \in Path /\ <<>> \in Above(<<>>)
    BY PathAssumption, SelfAbove
  <1>2. \A q \in Above(<<>>) : q = <<>>
    <2>1. ASSUME NEW q \in Above(<<>>)
          PROVE  q = <<>>
      <3>1. q \in Seq(Side) /\ Len(q) \in 0..Len(<<>>)
        BY <1>1, AboveType
      <3>2. Len(q) = 0
        BY <3>1
      <3> QED
        BY <3>1, <3>2, EmptySeq
    <2> QED
      BY <2>1
  <1> QED
    BY <1>1, <1>2 DEF Climb

(* One step of a climb, and the rest of it; N need agree with M only above *)
(* the match the rest starts from.                                         *)
LEMMA ClimbStep ==
    ASSUME NEW p \in Path, p # <<>>, NEW M, NEW N,
           \A q \in Above(Front(p)) : q # Front(p) => (q \in M <=> q \in N)
    PROVE  Climb(p, M) = IF Front(p) \in M THEN {p} \cup Climb(Front(p), N) ELSE {p}
  <1> DEFINE f == Front(p)
  <1>1. /\ f # p /\ p \in Above(p) /\ p \notin Above(f)
        /\ f \in Above(p) /\ f \in Above(f)
        /\ \A q : q \in Above(p) <=> q = p \/ q \in Above(f)
        /\ \A q \in Above(f) : IsPrefix(q, f) /\ ~ IsPrefix(p, q)
        /\ \A q \in Above(f) : q # f => (q \in M <=> q \in N)
    BY AboveStep
  <1> HIDE DEF f
  <1>2. p \in Climb(p, M)
    BY <1>1 DEF Climb
  <1>3. ASSUME NEW q \in Climb(p, M), q # p
        PROVE  f \in M /\ q \in Climb(f, N)
    BY <1>1, <1>3 DEF Climb
  <1>4. ASSUME f \in M, NEW q \in Climb(f, N)
        PROVE  q \in Climb(p, M)
    BY <1>1, <1>4 DEF Climb
  <1> QED
    BY <1>2, <1>3, <1>4 DEF f

LEMMA ClimbSame ==
    ASSUME NEW p \in Path, NEW M, NEW N,
           \A q \in Above(p) : q # p => (q \in M <=> q \in N)
    PROVE  Climb(p, M) = Climb(p, N)
  BY DEF Climb

-----------------------------------------------------------------------------
(* Undoing.                                                                *)

LEMMA BoardTypes ==
    ASSUME NEW b \in Boards, NEW p \in Path
    PROVE  /\ b.slot \in [Slot -> Team \cup {None}]
           /\ b.winner \in [Path -> Team \cup {None}]
           /\ b.sets \in [Path -> (Nat \X Nat) \cup {None}]
           /\ b.dead \in SUBSET Path
           /\ Undecide(b, p) \in Boards
           /\ \A t \in Team \cup {None} :
                 /\ Decide(b, p, t) \in Boards
                 /\ p # <<>> => Put(b, Feeds(p), t) \in Boards
  <1>1. /\ b.slot \in [Slot -> Team \cup {None}]
        /\ b.winner \in [Path -> Team \cup {None}]
        /\ b.sets \in [Path -> (Nat \X Nat) \cup {None}]
        /\ b.dead \in SUBSET Path
    BY DEF Boards
  <1>2. ASSUME NEW t \in Team \cup {None}
        PROVE  /\ [b.winner EXCEPT ![p] = t] \in [Path -> Team \cup {None}]
               /\ [b.slot EXCEPT ![Feeds(p)] = t] \in [Slot -> Team \cup {None}]
    BY <1>1
  <1>3. [b.sets EXCEPT ![p] = None] \in [Path -> (Nat \X Nat) \cup {None}]
    BY <1>1
  <1>4. Undecide(b, p) \in Boards
    BY <1>1, <1>2, <1>3 DEF Undecide, Boards
  <1>5. ASSUME NEW t \in Team \cup {None}
        PROVE  Decide(b, p, t) \in Boards /\ Put(b, Feeds(p), t) \in Boards
    BY <1>1, <1>2 DEF Decide, Put, Boards
  <1> QED
    BY <1>1, <1>4, <1>5

UndoStep(f, p) ==
    [b \in Boards |->
        IF p = <<>> \/ Front(p) \notin tree THEN Undecide(b, p)
        ELSE LET d == Put(Undecide(b, p), Feeds(p), None)
             IN  IF d.winner[Front(p)] # None THEN f[Front(p)][d] ELSE d]

LEMMA UndoDecidedRule == \A p \in Path : UndoDecided[p] = UndoStep(UndoDecided, p)
  <1> DEFINE D == Path
             B == [Boards -> Boards]
             measure == [p \in D |-> Len(p)]
             rule == [z \in [D -> B] \X D |-> UndoStep(z[1], z[2])]
  <1>1. measure \in [D -> Nat]
    BY PathType
  <1>2. rule \in [[D -> B] \X D -> B]
    <2>1. ASSUME NEW f \in [D -> B], NEW p \in D
          PROVE  UndoStep(f, p) \in B
      <3>1. ASSUME NEW b \in Boards
            PROVE  /\ Undecide(b, p) \in Boards
                   /\ p # <<>> => /\ Put(Undecide(b, p), Feeds(p), None) \in Boards
                                  /\ f[Front(p)][Put(Undecide(b, p), Feeds(p), None)] \in Boards
        <4>1. Undecide(b, p) \in Boards
          BY BoardTypes
        <4> DEFINE c == Undecide(b, p)
                   d == Put(c, Feeds(p), None)
        <4>2. ASSUME p # <<>>
              PROVE  d \in Boards /\ f[Front(p)][d] \in Boards
          <5>1. Front(p) \in D
            BY <4>2, PathAssumption
          <5>2. d \in Boards
            <6> HIDE DEF c
            <6> QED
              BY <4>1, <4>2, BoardTypes DEF c
          <5> HIDE DEF d
          <5> QED
            BY <5>1, <5>2
        <4> QED
          BY <4>1, <4>2
      <3>2. CASE p = <<>>
        BY <3>1, <3>2 DEF UndoStep
      <3>3. CASE p # <<>>
        BY <3>1, <3>3 DEF UndoStep
      <3> QED
        BY <3>2, <3>3
    <2> QED
      BY <2>1
  <1>3. LooksBelow(rule, D, B, measure)
    <2>1. ASSUME NEW f \in [D -> B], NEW g \in [D -> B], NEW p \in D,
                 \A q \in D : measure[q] < measure[p] => f[q] = g[q]
          PROVE  UndoStep(f, p) = UndoStep(g, p)
      <3>1. CASE p # <<>>
        <4>1. Front(p) \in D /\ measure[Front(p)] < measure[p]
          BY <3>1, PathType, PathAssumption, PathParts
        <4>2. f[Front(p)] = g[Front(p)]
          BY <2>1, <4>1
        <4> QED
          BY <4>2 DEF UndoStep
      <3> QED
        BY <3>1 DEF UndoStep
    <2> QED
      BY <2>1 DEF LooksBelow
  <1>4. [b \in Boards |-> b] \in B
    OBVIOUS
  <1>5. PICK f \in [D -> B] : Solves(f, rule, D)
    <2> HIDE DEF D, B, measure, rule
    <2> QED
      BY <1>1, <1>2, <1>3, <1>4, Recursion
  <1>6. f = [p \in D |-> UndoStep(f, p)]
    BY <1>5 DEF Solves
  <1>7. UndoDecided = CHOOSE g : g = [p \in D |-> UndoStep(g, p)]
    BY DEF UndoDecided, UndoStep
  <1>8. UndoDecided = [p \in D |-> UndoStep(UndoDecided, p)]
    BY <1>6, <1>7, Zenon
  <1> QED
    BY <1>8

(* The matches through which undoing goes on. *)
Decided(b) == {r \in tree : b.winner[r] # None}

LEMMA UndoClimbs ==
    ASSUME NEW b, NEW p \in Path
    PROVE  UndoChain(b, p) = Climb(p, Decided(b))
  BY DEF UndoChain, Climb, Decided

(* Undo takes its first step and goes on from the match above. *)
LEMMA UndoByStep ==
    ASSUME TreeClosed, NEW b \in Boards, NEW p \in tree, p # <<>>
    PROVE  LET d == Put(Undecide(b, p), Feeds(p), None)
           IN  /\ d \in Boards
               /\ d.winner[Front(p)] = b.winner[Front(p)]
               /\ b.winner[Front(p)] # None => Undo(b, p) = Undo(d, Front(p))
               /\ b.winner[Front(p)] = None => Undo(b, p) = Columns(d)
  <1> DEFINE f == Front(p)
             d == Put(Undecide(b, p), Feeds(p), None)
  <1>1. /\ p \in Path /\ f \in Path /\ f \in tree /\ f # p
        /\ Feeds(p) \in Slot
        /\ \A q \in Above(f) : ~ IsPrefix(p, q) /\ q # p
        /\ p \notin Above(f)
    BY AboveStep, FeedsType DEF TreeClosed
  <1>2. /\ b.slot \in [Slot -> Team \cup {None}]
        /\ b.winner \in [Path -> Team \cup {None}]
        /\ b.sets \in [Path -> (Nat \X Nat) \cup {None}]
    BY <1>1, BoardTypes
  <1>3. d \in Boards
    <2> DEFINE c == Undecide(b, p)
    <2>1. c \in Boards
      BY <1>1, BoardTypes
    <2> HIDE DEF c
    <2>2. Put(c, Feeds(p), None) \in Boards
      BY <1>1, <2>1, BoardTypes
    <2> QED
      BY <2>2 DEF c
  <1>4. /\ d.slot = [b.slot EXCEPT ![Feeds(p)] = None]
        /\ d.winner = [b.winner EXCEPT ![p] = None]
        /\ d.sets = [b.sets EXCEPT ![p] = None]
    BY DEF Put, Undecide
  <1> HIDE DEF d
  <1>5. d.winner[f] = b.winner[f]
    BY <1>1, <1>2, <1>4
  <1>6. \A q \in Above(f) : q # f => (q \in Decided(b) <=> q \in Decided(d))
    BY <1>1, <1>2, <1>4 DEF Decided, TreeClosed
  <1>7. UndoChain(b, p) = IF f \in Decided(b) THEN {p} \cup UndoChain(d, f) ELSE {p}
    <2>1. Climb(p, Decided(b)) = IF f \in Decided(b) THEN {p} \cup Climb(f, Decided(d)) ELSE {p}
      BY <1>1, <1>6, ClimbStep
    <2> QED
      BY <1>1, <2>1, UndoClimbs
  <1>8. f \in Decided(b) <=> b.winner[f] # None
    BY <1>1 DEF Decided
  <1>9. ASSUME b.winner[f] # None
        PROVE  Undo(b, p) = Undo(d, f)
    <2> DEFINE C == UndoChain(b, p)
               E == UndoChain(d, f)
    <2>1. C = {p} \cup E
      BY <1>7, <1>8, <1>9
    <2> HIDE DEF C, E
    <2>2. \A x \in Slot :
              (IF \E q \in C : q # <<>> /\ x = Feeds(q) THEN None ELSE b.slot[x])
            = (IF \E q \in E : q # <<>> /\ x = Feeds(q) THEN None ELSE d.slot[x])
      BY <1>1, <1>2, <1>4, <2>1
    <2>3. \A q \in Path :
              /\ (IF q \in C THEN None ELSE b.winner[q]) = (IF q \in E THEN None ELSE d.winner[q])
              /\ (IF q \in C THEN None ELSE b.sets[q]) = (IF q \in E THEN None ELSE d.sets[q])
      BY <1>1, <1>2, <1>4, <2>1
    <2> QED
      BY <2>2, <2>3 DEF Undo, C, E
  <1>10. ASSUME b.winner[f] = None
         PROVE  Undo(b, p) = Columns(d)
    <2> DEFINE C == UndoChain(b, p)
    <2>1. C = {p}
      BY <1>7, <1>8, <1>10
    <2> HIDE DEF C
    <2>2. [x \in Slot |-> IF \E q \in C : q # <<>> /\ x = Feeds(q) THEN None ELSE b.slot[x]] = d.slot
      BY <1>1, <1>2, <1>4, <2>1
    <2>3. /\ [q \in Path |-> IF q \in C THEN None ELSE b.winner[q]] = d.winner
          /\ [q \in Path |-> IF q \in C THEN None ELSE b.sets[q]] = d.sets
      BY <1>1, <1>2, <1>4, <2>1
    <2> QED
      BY <2>2, <2>3 DEF Undo, C, Columns
  <1> QED
    BY <1>3, <1>5, <1>9, <1>10 DEF d

(* The recursion of _undo_decided comes to what Undo tells at once. *)
LEMMA UndoIsUndo ==
    ASSUME TreeClosed, NEW p \in tree, NEW b \in Boards
    PROVE  Undo(b, p) = Columns(UndoDecided[p][b])
  <1> DEFINE measure == [q \in tree |-> Len(q)]
             Good == {q \in tree : \A c \in Boards : Undo(c, q) = Columns(UndoDecided[q][c])}
  <1>1. \A q \in tree : q \in Path /\ Len(q) \in Nat
    BY PathType DEF TreeClosed
  <1>2. measure \in [tree -> Nat]
    BY <1>1
  <1>3. ASSUME NEW q \in tree, \A r \in tree : measure[r] < measure[q] => r \in Good,
               NEW c \in Boards
        PROVE  Undo(c, q) = Columns(UndoDecided[q][c])
    <2>1. q \in Path /\ UndoDecided[q] = UndoStep(UndoDecided, q)
      BY <1>1, UndoDecidedRule
    <2>2. CASE q = <<>>
      <3>1. UndoDecided[q][c] = Undecide(c, q)
        BY <2>1, <2>2 DEF UndoStep
      <3>2. UndoChain(c, q) = {<<>>}
        BY <2>1, <2>2, UndoClimbs, ClimbFinal
      <3>3. /\ c.slot \in [Slot -> Team \cup {None}]
            /\ c.winner \in [Path -> Team \cup {None}]
            /\ c.sets \in [Path -> (Nat \X Nat) \cup {None}]
        BY <2>1, BoardTypes
      <3> DEFINE C == UndoChain(c, q)
      <3>4. C = {<<>>}
        BY <3>2
      <3> HIDE DEF C
      <3>5. [x \in Slot |-> IF \E r \in C : r # <<>> /\ x = Feeds(r) THEN None ELSE c.slot[x]] = c.slot
        BY <3>3, <3>4
      <3>6. /\ [r \in Path |-> IF r \in C THEN None ELSE c.winner[r]] = [c.winner EXCEPT ![q] = None]
            /\ [r \in Path |-> IF r \in C THEN None ELSE c.sets[r]] = [c.sets EXCEPT ![q] = None]
        BY <2>1, <2>2, <3>3, <3>4
      <3>7. Columns(Undecide(c, q)) = [slot |-> c.slot, winner |-> [c.winner EXCEPT ![q] = None],
                                       sets |-> [c.sets EXCEPT ![q] = None]]
        BY DEF Columns, Undecide
      <3> QED
        BY <3>1, <3>5, <3>6, <3>7 DEF Undo, C
    <2>3. CASE q # <<>>
      <3> DEFINE d == Put(Undecide(c, q), Feeds(q), None)
                 f == Front(q)
      <3>1. f \in tree /\ f \in Path /\ Len(f) < Len(q)
        BY <1>1, <2>1, <2>3, PathType, PathParts DEF TreeClosed
      <3>2. /\ d \in Boards /\ d.winner[f] = c.winner[f]
            /\ c.winner[f] # None => Undo(c, q) = Undo(d, f)
            /\ c.winner[f] = None => Undo(c, q) = Columns(d)
        BY <2>3, UndoByStep
      <3>3. UndoDecided[q][c] = IF d.winner[f] # None THEN UndoDecided[f][d] ELSE d
        BY <2>1, <2>3, <3>1 DEF UndoStep
      <3> HIDE DEF d, f
      <3>4. Undo(d, f) = Columns(UndoDecided[f][d])
        BY <1>1, <1>3, <3>1, <3>2
      <3> QED
        BY <3>2, <3>3, <3>4
    <2> QED
      BY <2>2, <2>3
  <1>4. \A q \in tree : (\A r \in tree : measure[r] < measure[q] => r \in Good) => q \in Good
    BY <1>3
  <1>5. tree \subseteq Good
    <2> HIDE DEF measure, Good
    <2> QED
      BY <1>2, <1>4, MeasureInduction
  <1> QED
    BY <1>5

(* The columns of the bracket are a board. *)
LEMMA RowsAreBoard ==
    ASSUME IInv
    PROVE  TreeClosed /\ Rows \in Boards /\ Board = Columns(Rows)
  <1>1. TypeOK /\ TreeClosed
    BY DEF IInv, TypeOK, TreeClosed
  <1>2. InLineup \subseteq Team
    BY <1>1 DEF TypeOK, InLineup
  <1>3. /\ slot \in [Slot -> Team \cup {None}] /\ winner \in [Path -> Team \cup {None}]
        /\ sets \in [Path -> (Nat \X Nat) \cup {None}] /\ dead \subseteq Path
    BY <1>1, <1>2 DEF TypeOK
  <1>4. Rows \in Boards
    BY <1>3 DEF Rows, Boards
  <1>5. Board = Columns(Rows)
    BY DEF Board, Columns, Rows
  <1> QED
    BY <1>1, <1>4, <1>5

(* Undo looks only at the columns. *)
LEMMA UndoOfColumns ==
    ASSUME NEW b, NEW p
    PROVE  Undo(Columns(b), p) = Undo(b, p)
  BY DEF Undo, UndoChain, Columns

LEMMA UndoLoopDoes == PlaceInv => UndoLoopAgrees
  <1> SUFFICES ASSUME PlaceInv, NEW p \in tree
               PROVE  Undo(Board, p) = Columns(UndoDecided[p][Rows])
    BY DEF UndoLoopAgrees
  <1>1. TreeClosed /\ Rows \in Boards /\ Board = Columns(Rows)
    BY RowsAreBoard DEF PlaceInv
  <1>2. Undo(Rows, p) = Columns(UndoDecided[p][Rows])
    BY <1>1, UndoIsUndo
  <1> QED
    BY <1>1, <1>2, UndoOfColumns

-----------------------------------------------------------------------------
(* Propagating.                                                            *)

PropagateStep(f, p) ==
    [b \in Boards |-> [w \in Team |->
        IF p = <<>> \/ Front(p) \notin tree THEN b
        ELSE LET r == Front(p)
                 c == Put(b, Feeds(p), w)
             IN  IF Round(tree, r) # 1 /\ WalksOver(c, r)
                 THEN f[r][Decide(c, r, TheFilled(c, r))][TheFilled(c, r)]
                 ELSE c]]

(* Who goes on unopposed is a team. *)
LEMMA FilledTeam ==
    ASSUME NEW b \in Boards, NEW p \in Path, NEW s \in Side, Filled(b, p) = {s}
    PROVE  TheFilled(b, p) = b.slot[<<p, s>>] /\ TheFilled(b, p) \in Team
  <1>1. (CHOOSE u \in Side : u \in Filled(b, p)) = s
    BY DEF Filled
  <1>2. TheFilled(b, p) = b.slot[<<p, s>>]
    BY <1>1 DEF TheFilled
  <1>3. b.slot[<<p, s>>] \in Team \cup {None} /\ b.slot[<<p, s>>] # None
    <2>1. b.slot[<<p, s>>] # None
      BY DEF Filled
    <2>2. b.slot \in [Slot -> Team \cup {None}] /\ <<p, s>> \in Slot
      BY BoardTypes DEF Slot
    <2> QED
      BY <2>1, <2>2
  <1> QED
    BY <1>2, <1>3

LEMMA PropagateStepType ==
    ASSUME NEW f \in [Path -> [Boards -> [Team -> Boards]]], NEW p \in Path
    PROVE  PropagateStep(f, p) \in [Boards -> [Team -> Boards]]
  <1>1. CASE p = <<>>
    BY <1>1 DEF PropagateStep
  <1>2. CASE p # <<>>
    <2> DEFINE r == Front(p)
    <2>1. r \in Path
      BY <1>2, PathAssumption
    <2>2. ASSUME NEW b \in Boards, NEW w \in Team
          PROVE  /\ Put(b, Feeds(p), w) \in Boards
                 /\ WalksOver(Put(b, Feeds(p), w), r) =>
                       f[r][Decide(Put(b, Feeds(p), w), r, TheFilled(Put(b, Feeds(p), w), r))]
                           [TheFilled(Put(b, Feeds(p), w), r)] \in Boards
      <3> DEFINE c == Put(b, Feeds(p), w)
                 v == TheFilled(c, r)
      <3>1. c \in Boards
        BY <1>2, BoardTypes
      <3> HIDE DEF c
      <3>2. ASSUME WalksOver(c, r)
            PROVE  f[r][Decide(c, r, v)][v] \in Boards
        <4>1. PICK s \in Side : Filled(c, r) = {s}
          BY <3>2 DEF WalksOver
        <4>2. v \in Team
          BY <2>1, <3>1, <4>1, FilledTeam
        <4>3. Decide(c, r, v) \in Boards
          BY <2>1, <3>1, <4>2, BoardTypes
        <4> HIDE DEF v, r
        <4> QED
          BY <2>1, <4>2, <4>3
      <3> QED
        BY <3>1, <3>2 DEF c
    <2> HIDE DEF r
    <2>3. ASSUME NEW b \in Boards, NEW w \in Team
          PROVE  (IF p = <<>> \/ r \notin tree THEN b
                  ELSE IF Round(tree, r) # 1 /\ WalksOver(Put(b, Feeds(p), w), r)
                       THEN f[r][Decide(Put(b, Feeds(p), w), r, TheFilled(Put(b, Feeds(p), w), r))]
                                [TheFilled(Put(b, Feeds(p), w), r)]
                       ELSE Put(b, Feeds(p), w)) \in Boards
      BY <2>2
    <2> QED
      BY <2>3 DEF PropagateStep, r
  <1> QED
    BY <1>1, <1>2

LEMMA PropagateRule == \A p \in Path : PropagateWinner[p] = PropagateStep(PropagateWinner, p)
  <1> DEFINE D == Path
             B == [Boards -> [Team -> Boards]]
             measure == [p \in D |-> Len(p)]
             rule == [z \in [D -> B] \X D |-> PropagateStep(z[1], z[2])]
  <1>1. measure \in [D -> Nat]
    BY PathType
  <1>2. rule \in [[D -> B] \X D -> B]
    BY PropagateStepType
  <1>3. LooksBelow(rule, D, B, measure)
    <2>1. ASSUME NEW f \in [D -> B], NEW g \in [D -> B], NEW p \in D,
                 \A q \in D : measure[q] < measure[p] => f[q] = g[q]
          PROVE  PropagateStep(f, p) = PropagateStep(g, p)
      <3>1. CASE p # <<>>
        <4>1. Front(p) \in D /\ measure[Front(p)] < measure[p]
          BY <3>1, PathType, PathAssumption, PathParts
        <4>2. f[Front(p)] = g[Front(p)]
          BY <2>1, <4>1
        <4> QED
          BY <4>2 DEF PropagateStep
      <3> QED
        BY <3>1 DEF PropagateStep
    <2> QED
      BY <2>1 DEF LooksBelow
  <1>4. [b \in Boards |-> [w \in Team |-> b]] \in B
    OBVIOUS
  <1>5. PICK f \in [D -> B] : Solves(f, rule, D)
    <2> HIDE DEF D, B, measure, rule
    <2> QED
      BY <1>1, <1>2, <1>3, <1>4, Recursion
  <1>6. f = [p \in D |-> PropagateStep(f, p)]
    BY <1>5 DEF Solves
  <1>7. PropagateWinner = CHOOSE g : g = [p \in D |-> PropagateStep(g, p)]
    BY DEF PropagateWinner, PropagateStep
  <1>8. PropagateWinner = [p \in D |-> PropagateStep(PropagateWinner, p)]
    BY <1>6, <1>7, Zenon
  <1> QED
    BY <1>8

(* Bye on a board with dead matches of its own. *)
ByeOn(b, r, s) ==
    /\ r \in tree \ b.dead
    /\ b.winner[r] = None
    /\ b.slot[<<r, Other(s)>>] = None
    /\ Append(r, Other(s)) \notin tree \ b.dead

(* The matches above p through which a winner of p goes on. *)
Byes(b, p) == {r \in tree : ByeOn(b, r, SideToward(r, p))}

(* What becomes of a board when the winner w of p is carried up. *)
Carried(b, p, w) ==
    LET C == Climb(p, Byes(b, p))
    IN  [slot   |-> [x \in Slot |-> IF \E q \in C : q # <<>> /\ x = Feeds(q) THEN w ELSE b.slot[x]],
         winner |-> [q \in Path |-> IF q \in C /\ q # p THEN w ELSE b.winner[q]],
         sets   |-> b.sets,
         dead   |-> b.dead]

(* A match that a team has just come up to is walked over exactly when it  *)
(* is a bye for the side the team came up on.                              *)
LEMMA WalkoverIsBye ==
    ASSUME NEW b \in Boards, NEW r \in tree, r \in Path, NEW s \in Side, b.slot[<<r, s>>] # None
    PROVE  /\ WalksOver(b, r) <=> ByeOn(b, r, s)
           /\ WalksOver(b, r) => TheFilled(b, r) = b.slot[<<r, s>>]
  <1>1. Other(s) \in Side /\ Other(s) # s /\ \A t \in Side : t = s \/ t = Other(s)
    BY OtherSide
  <1>2. s \in Filled(b, r) /\ (Other(s) \in Filled(b, r) <=> b.slot[<<r, Other(s)>>] # None)
    BY <1>1 DEF Filled
  <1>3. Filled(b, r) \subseteq Side
    BY DEF Filled
  <1>4. \A u \in Side : Filled(b, r) = {u} <=> u = s /\ b.slot[<<r, Other(s)>>] = None
    BY <1>1, <1>2, <1>3
  <1>5. WalksOver(b, r) <=> ByeOn(b, r, s)
    BY <1>4 DEF WalksOver, ByeOn
  <1>6. ASSUME WalksOver(b, r)
        PROVE  TheFilled(b, r) = b.slot[<<r, s>>]
    BY <1>4, <1>5, <1>6, FilledTeam DEF ByeOn
  <1> QED
    BY <1>5, <1>6

(* Carrying a winner up takes its first step and goes on from there. *)
LEMMA CarriedByStep ==
    ASSUME TreeClosed, NEW b \in Boards, NEW p \in tree, p # <<>>, NEW w \in Team
    PROVE  LET f == Front(p)
               c == Put(b, Feeds(p), w)
           IN  /\ f \in tree /\ c \in Boards
               /\ Decide(c, f, w) \in Boards
               /\ WalksOver(c, f) => /\ TheFilled(c, f) = w
                                     /\ Carried(b, p, w) = Carried(Decide(c, f, w), f, w)
               /\ ~ WalksOver(c, f) => Carried(b, p, w) = c
  <1> DEFINE f == Front(p)
             c == Put(b, Feeds(p), w)
             d == Decide(c, f, w)
             s == Last(p)
  <1>1. /\ p \in Path /\ f \in Path /\ f \in tree /\ f # p
        /\ Feeds(p) \in Slot /\ s \in Side /\ Feeds(p) = <<f, s>>
        /\ \A q \in Above(f) : q # p
        /\ \A q \in Above(f) : q # f => SideToward(q, p) = SideToward(q, f)
        /\ p \notin Above(f) /\ f \in Above(f)
        /\ SideToward(f, p) = s
    BY AboveStep, FeedsType DEF TreeClosed, Feeds
  <1>2. /\ b.slot \in [Slot -> Team \cup {None}]
        /\ b.winner \in [Path -> Team \cup {None}]
        /\ \A u \in Side : u # s => <<f, u>> # Feeds(p)
        /\ w # None
    BY <1>1, BoardTypes, TeamAssumption
  <1>3. c \in Boards
    BY <1>1, BoardTypes
  <1>4. d \in Boards
    <2> HIDE DEF c
    <2> QED
      BY <1>1, <1>3, BoardTypes
  <1>5. /\ c.slot = [b.slot EXCEPT ![Feeds(p)] = w]
        /\ c.winner = b.winner /\ c.sets = b.sets /\ c.dead = b.dead
        /\ d.slot = [b.slot EXCEPT ![Feeds(p)] = w]
        /\ d.winner = [b.winner EXCEPT ![f] = w] /\ d.sets = b.sets /\ d.dead = b.dead
        /\ c = [slot |-> [b.slot EXCEPT ![Feeds(p)] = w], winner |-> b.winner,
                sets |-> b.sets, dead |-> b.dead]
    BY DEF Put, Decide
  <1> HIDE DEF c, d
  <1>6. Other(s) \in Side /\ Other(s) # s
    BY <1>1, OtherSide
  <1>7. /\ WalksOver(c, f) <=> f \in Byes(b, p)
        /\ WalksOver(c, f) => TheFilled(c, f) = w
    <2>1. c.slot[<<f, s>>] = w
      BY <1>1, <1>2, <1>5
    <2>2. c.slot[<<f, Other(s)>>] = b.slot[<<f, Other(s)>>]
      <3>1. <<f, Other(s)>> \in Slot /\ <<f, Other(s)>> # Feeds(p)
        BY <1>1, <1>2, <1>6 DEF Slot
      <3> QED
        BY <1>2, <1>5, <3>1
    <2>3. ByeOn(c, f, s) <=> ByeOn(b, f, s)
      BY <1>5, <2>2 DEF ByeOn
    <2>4. f \in Byes(b, p) <=> ByeOn(b, f, s)
      BY <1>1 DEF Byes
    <2>5. /\ WalksOver(c, f) <=> ByeOn(c, f, s)
          /\ WalksOver(c, f) => TheFilled(c, f) = c.slot[<<f, s>>]
      <3> HIDE DEF f, s
      <3> QED
        BY <1>1, <1>2, <1>3, <2>1, WalkoverIsBye
    <2> QED
      BY <2>1, <2>3, <2>4, <2>5
  <1>8. \A q \in Above(f) : q # f => (q \in Byes(b, p) <=> q \in Byes(d, f))
    <2>1. ASSUME NEW q \in Above(f), q # f, q \in tree
          PROVE  ByeOn(b, q, SideToward(q, p)) <=> ByeOn(d, q, SideToward(q, f))
      <3>1. SideToward(q, p) = SideToward(q, f) /\ q \in Path
        BY <1>1, <2>1 DEF TreeClosed
      <3> DEFINE u == SideToward(q, f)
      <3>2. d.winner[q] = b.winner[q]
        BY <1>2, <1>5, <2>1, <3>1
      <3>3. d.slot[<<q, Other(u)>>] = b.slot[<<q, Other(u)>>]
        <4>1. <<q, Other(u)>> # Feeds(p)
          BY <1>1, <2>1
        <4>2. <<q, Other(u)>> \in Slot
          BY <3>1 DEF Other, Side, Slot
        <4> QED
          BY <1>2, <1>5, <4>1, <4>2
      <3> HIDE DEF u
      <3> QED
        BY <1>5, <3>1, <3>2, <3>3 DEF ByeOn, u
    <2> QED
      BY <2>1 DEF Byes
  <1>9. Climb(p, Byes(b, p)) = IF f \in Byes(b, p) THEN {p} \cup Climb(f, Byes(d, f)) ELSE {p}
    BY <1>1, <1>8, ClimbStep
  <1>10. ASSUME WalksOver(c, f)
         PROVE  Carried(b, p, w) = Carried(d, f, w)
    <2> DEFINE C == Climb(p, Byes(b, p))
               E == Climb(f, Byes(d, f))
    <2>1. C = {p} \cup E /\ f \in E /\ p \notin E
      <3>1. C = {p} \cup E
        BY <1>7, <1>9, <1>10
      <3>2. f \in E
        BY <1>1, AboveByLength, AboveType, PathType DEF Climb
      <3>3. p \notin E
        BY <1>1 DEF Climb
      <3> QED
        BY <3>1, <3>2, <3>3
    <2> HIDE DEF C, E
    <2>2. \A x \in Slot :
              (IF \E q \in C : q # <<>> /\ x = Feeds(q) THEN w ELSE b.slot[x])
            = (IF \E q \in E : q # <<>> /\ x = Feeds(q) THEN w ELSE d.slot[x])
      BY <1>1, <1>2, <1>5, <2>1
    <2>3. \A q \in Path :
              (IF q \in C /\ q # p THEN w ELSE b.winner[q])
            = (IF q \in E /\ q # f THEN w ELSE d.winner[q])
      BY <1>1, <1>2, <1>5, <2>1
    <2> QED
      BY <1>5, <2>2, <2>3 DEF Carried, C, E
  <1>11. ASSUME ~ WalksOver(c, f)
         PROVE  Carried(b, p, w) = c
    <2> DEFINE C == Climb(p, Byes(b, p))
    <2>1. C = {p}
      BY <1>7, <1>9, <1>11
    <2> HIDE DEF C
    <2>2. [x \in Slot |-> IF \E q \in C : q # <<>> /\ x = Feeds(q) THEN w ELSE b.slot[x]]
            = [b.slot EXCEPT ![Feeds(p)] = w]
      BY <1>1, <1>2, <2>1
    <2>3. [q \in Path |-> IF q \in C /\ q # p THEN w ELSE b.winner[q]] = b.winner
      BY <1>1, <1>2, <2>1
    <2> QED
      BY <1>5, <2>2, <2>3 DEF Carried, C
  <1> QED
    BY <1>1, <1>3, <1>4, <1>7, <1>10, <1>11 DEF c, d

(* The first round is the deepest one: no match above another is in it. *)
LEMMA AboveFirstRound ==
    ASSUME PlaceInv, NEW p \in tree, p # <<>>
    PROVE  Round(tree, Front(p)) # 1
  <1>1. /\ p \in Path /\ Len(p) \in Nat /\ TotalRounds(tree) \in Nat
        /\ Len(p) < TotalRounds(tree)
    BY TotalRoundsOfTree, TreePaths DEF PlaceInv
  <1>2. Len(Front(p)) = Len(p) - 1 /\ Len(p) # 0
    BY <1>1, PathType, PathParts
  <1> QED
    BY <1>1, <1>2 DEF Round

(* The recursion of _propagate_winner and _maybe_auto_resolve comes to     *)
(* what Carried tells at once.                                             *)
LEMMA PropagateIsCarried ==
    ASSUME PlaceInv, NEW p \in tree, NEW b \in Boards, NEW w \in Team
    PROVE  PropagateWinner[p][b][w] = Carried(b, p, w)
  <1> DEFINE measure == [q \in tree |-> Len(q)]
             Good == {q \in tree : \A c \in Boards : \A v \in Team :
                         PropagateWinner[q][c][v] = Carried(c, q, v)}
  <1>0. TreeClosed
    BY RowsAreBoard DEF PlaceInv
  <1>1. \A q \in tree : q \in Path /\ Len(q) \in Nat
    BY <1>0, PathType DEF TreeClosed
  <1>2. measure \in [tree -> Nat]
    BY <1>1
  <1>3. ASSUME NEW q \in tree, \A r \in tree : measure[r] < measure[q] => r \in Good,
               NEW c \in Boards, NEW v \in Team
        PROVE  PropagateWinner[q][c][v] = Carried(c, q, v)
    <2>1. q \in Path /\ PropagateWinner[q] = PropagateStep(PropagateWinner, q)
      BY <1>1, PropagateRule
    <2>2. CASE q = <<>>
      <3>1. PropagateWinner[q][c][v] = c
        BY <2>1, <2>2 DEF PropagateStep
      <3> DEFINE C == Climb(q, Byes(c, q))
      <3>2. C = {<<>>}
        BY <2>2, ClimbFinal
      <3> HIDE DEF C
      <3>3. /\ c.slot \in [Slot -> Team \cup {None}] /\ c.winner \in [Path -> Team \cup {None}]
            /\ c = [slot |-> c.slot, winner |-> c.winner, sets |-> c.sets, dead |-> c.dead]
        BY <2>1, BoardTypes DEF Boards
      <3>4. /\ [x \in Slot |-> IF \E r \in C : r # <<>> /\ x = Feeds(r) THEN v ELSE c.slot[x]] = c.slot
            /\ [r \in Path |-> IF r \in C /\ r # q THEN v ELSE c.winner[r]] = c.winner
        BY <2>2, <3>2, <3>3
      <3> QED
        BY <3>1, <3>3, <3>4 DEF Carried, C
    <2>3. CASE q # <<>>
      <3> DEFINE f == Front(q)
                 d == Put(c, Feeds(q), v)
                 e == Decide(d, f, v)
      <3>1. /\ f \in tree /\ d \in Boards /\ e \in Boards
            /\ WalksOver(d, f) => TheFilled(d, f) = v /\ Carried(c, q, v) = Carried(e, f, v)
            /\ ~ WalksOver(d, f) => Carried(c, q, v) = d
        BY <1>0, <2>3, CarriedByStep
      <3>2. Len(f) < Len(q)
        BY <1>1, <2>1, <2>3, PathType, PathParts
      <3>3. PropagateWinner[q][c][v] = IF Round(tree, f) # 1 /\ WalksOver(d, f)
                                       THEN PropagateWinner[f][Decide(d, f, TheFilled(d, f))][TheFilled(d, f)]
                                       ELSE d
        BY <2>1, <2>3, <3>1 DEF PropagateStep
      <3>4. Round(tree, f) # 1
        BY <2>3, AboveFirstRound
      <3> HIDE DEF f, d
      <3>5. WalksOver(d, f) => PropagateWinner[q][c][v] = PropagateWinner[f][e][v]
        BY <3>1, <3>3, <3>4
      <3> HIDE DEF e
      <3>6. PropagateWinner[f][e][v] = Carried(e, f, v)
        BY <1>1, <1>3, <3>1, <3>2
      <3> QED
        BY <3>1, <3>3, <3>5, <3>6
    <2> QED
      BY <2>2, <2>3
  <1>4. \A q \in tree : (\A r \in tree : measure[r] < measure[q] => r \in Good) => q \in Good
    BY <1>3
  <1>5. tree \subseteq Good
    <2> HIDE DEF measure, Good
    <2> QED
      BY <1>2, <1>4, MeasureInduction
  <1> QED
    BY <1>5

(* Propagate is Carried, with the winner written first. *)
LEMMA PropagateIsCarriedOn ==
    ASSUME TreeClosed, NEW b \in Boards, b.dead = dead, NEW p \in tree, NEW w \in Team
    PROVE  Propagate(b, p, w) = Columns(Carried(Decide(b, p, w), p, w))
  <1> DEFINE c == Decide(b, p, w)
  <1>1. p \in Path /\ p \in Above(p)
    BY SelfAbove DEF TreeClosed
  <1>2. /\ c.slot = b.slot /\ c.winner = [b.winner EXCEPT ![p] = w]
        /\ c.sets = b.sets /\ c.dead = dead
        /\ b.winner \in [Path -> Team \cup {None}]
    BY <1>1, BoardTypes DEF Decide
  <1> HIDE DEF c
  <1> DEFINE M == {r \in Above(p) : Bye(b, r, SideToward(r, p))}
             C == Climb(p, M)
             E == Climb(p, Byes(c, p))
  <1>3. ByeChain(b, p) = C
    BY DEF ByeChain, Climb
  <1>4. \A q \in Above(p) : q # p => (q \in M <=> q \in Byes(c, p))
    BY <1>2 DEF Byes, ByeOn, Bye, TreeClosed
  <1>5. C = E
    <2> HIDE DEF M
    <2> QED
      BY <1>1, <1>4, ClimbSame
  <1>6. p \in C
    BY <1>1, ByeChainSelf, <1>3
  <1> HIDE DEF C, E
  <1>7. [q \in Path |-> IF q \in C THEN w ELSE b.winner[q]]
          = [q \in Path |-> IF q \in E /\ q # p THEN w ELSE c.winner[q]]
    BY <1>1, <1>2, <1>5, <1>6
  <1>8. Propagate(b, p, w) = [slot |-> [x \in Slot |-> IF \E q \in C : q # <<>> /\ x = Feeds(q)
                                                       THEN w ELSE b.slot[x]],
                              winner |-> [q \in Path |-> IF q \in C THEN w ELSE b.winner[q]],
                              sets |-> b.sets]
    BY <1>3 DEF Propagate
  <1>9. Columns(Carried(c, p, w))
          = [slot |-> [x \in Slot |-> IF \E q \in E : q # <<>> /\ x = Feeds(q)
                                      THEN w ELSE c.slot[x]],
             winner |-> [q \in Path |-> IF q \in E /\ q # p THEN w ELSE c.winner[q]],
             sets |-> c.sets]
    BY DEF Columns, Carried, E
  <1> QED
    BY <1>2, <1>5, <1>7, <1>8, <1>9 DEF c

(* Propagate looks at the slots, the winners and the scores of its board. *)
LEMMA PropagateOfColumns ==
    ASSUME NEW u, NEW b, NEW p, NEW w,
           b.slot = u.slot, b.winner = u.winner, b.sets = u.sets
    PROVE  Propagate(b, p, w) = Propagate(u, p, w)
  BY DEF Propagate, ByeChain, Bye

LEMMA UndoneType ==
    ASSUME IInv, NEW p \in tree
    PROVE  /\ Undo(Board, p).slot \in [Slot -> Team \cup {None}]
           /\ Undo(Board, p).winner \in [Path -> Team \cup {None}]
           /\ Undo(Board, p).sets \in [Path -> (Nat \X Nat) \cup {None}]
  <1>1. /\ slot \in [Slot -> Team \cup {None}] /\ winner \in [Path -> Team \cup {None}]
        /\ sets \in [Path -> (Nat \X Nat) \cup {None}]
    BY DEF IInv, TypeOK, InLineup
  <1> QED
    BY <1>1 DEF Undo, Board

LEMMA AdvanceLoopDoes == PlaceInv => AdvanceLoopAgrees
  <1> SUFFICES ASSUME PlaceInv, NEW p \in tree, NEW s \in Side,
                      \A u \in Side : slot[<<p, u>>] # None,
                      NEW u, u = (IF sets[p] # None THEN Undo(Board, p) ELSE Board),
                      NEW b, b = [slot |-> u.slot, winner |-> u.winner, sets |-> u.sets, dead |-> dead]
               PROVE  Propagate(u, p, slot[<<p, s>>])
                        = Columns(PropagateWinner[p][Decide(b, p, slot[<<p, s>>])][slot[<<p, s>>]])
    BY DEF AdvanceLoopAgrees
  <1> DEFINE w == slot[<<p, s>>]
  <1>1. IInv /\ TreeClosed /\ p \in Path /\ dead \in SUBSET Path
    BY RowsAreBoard DEF PlaceInv, TreeClosed
  <1>2. w \in Team
    <2>1. slot \in [Slot -> Team \cup {None}]
      BY <1>1 DEF IInv, TypeOK, InLineup
    <2>2. <<p, s>> \in Slot /\ slot[<<p, s>>] # None
      BY <1>1 DEF Slot
    <2> QED
      BY <2>1, <2>2
  <1> HIDE DEF w
  <1>3. /\ u.slot \in [Slot -> Team \cup {None}]
        /\ u.winner \in [Path -> Team \cup {None}]
        /\ u.sets \in [Path -> (Nat \X Nat) \cup {None}]
    <2>1. /\ Board.slot \in [Slot -> Team \cup {None}]
          /\ Board.winner \in [Path -> Team \cup {None}]
          /\ Board.sets \in [Path -> (Nat \X Nat) \cup {None}]
      BY <1>1 DEF IInv, TypeOK, InLineup, Board
    <2> QED
      BY <1>1, <2>1, UndoneType
  <1>4. b \in Boards /\ b.dead = dead /\ b.slot = u.slot /\ b.winner = u.winner /\ b.sets = u.sets
    BY <1>1, <1>3 DEF Boards
  <1>5. Propagate(u, p, w) = Propagate(b, p, w)
    BY <1>4, PropagateOfColumns
  <1>6. Propagate(b, p, w) = Columns(Carried(Decide(b, p, w), p, w))
    BY <1>1, <1>2, <1>4, PropagateIsCarriedOn
  <1>7. Decide(b, p, w) \in Boards
    BY <1>1, <1>2, <1>4, BoardTypes
  <1>8. PropagateWinner[p][Decide(b, p, w)][w] = Carried(Decide(b, p, w), p, w)
    BY <1>2, <1>7, PropagateIsCarried
  <1> QED
    BY <1>5, <1>6, <1>8 DEF w

-----------------------------------------------------------------------------
(* The order in which the sweeps go over the matches.                      *)

LEMMA SlotsBounded ==
    \A n \in Nat : \E N \in Nat : \A p \in Seq(Side) : Len(p) <= n => SlotOfPath[p] <= N
  <1> DEFINE Good == {n \in Nat : \E N \in Nat : \A p \in Seq(Side) : Len(p) <= n => SlotOfPath[p] <= N}
             measure == [n \in Nat |-> n]
  <1>1. \A p \in Seq(Side) : Len(p) \in Nat /\ SlotOfPath[p] \in Nat
    BY SlotOfPathRule
  <1>2. SlotOfPath[<<>>] = 0
    <2>1. <<>> \in Seq(Side)
      OBVIOUS
    <2> QED
      BY <2>1, SlotOfPathRule DEF SlotStep
  <1>3. ASSUME NEW n \in Nat, \A k \in Nat : measure[k] < measure[n] => k \in Good
        PROVE  \E N \in Nat : \A p \in Seq(Side) : Len(p) <= n => SlotOfPath[p] <= N
    <2>1. CASE n = 0
      <3>1. \A p \in Seq(Side) : Len(p) <= 0 => SlotOfPath[p] <= 0
        BY <1>1, <1>2, EmptySeq
      <3> QED
        BY <2>1, <3>1
    <2>2. CASE n # 0
      <3>1. n - 1 \in Nat /\ n - 1 < n
        BY <2>2
      <3>2. PICK N \in Nat : \A p \in Seq(Side) : Len(p) <= n - 1 => SlotOfPath[p] <= N
        BY <1>3, <3>1
      <3>3. ASSUME NEW p \in Seq(Side), Len(p) <= n
            PROVE  SlotOfPath[p] <= 2 * N + 1
        <4>1. CASE p = <<>>
          BY <1>2, <4>1
        <4>2. CASE p # <<>>
          <5>1. Front(p) \in Seq(Side) /\ Len(Front(p)) = Len(p) - 1
            BY <4>2, PathParts
          <5>2. SlotOfPath[Front(p)] <= N /\ SlotOfPath[Front(p)] \in Nat
            BY <1>1, <3>2, <3>3, <5>1
          <5>3. SlotOfPath[p] = 2 * SlotOfPath[Front(p)] + Digit(Last(p))
            BY <4>2, SlotOfPathRule DEF SlotStep
          <5>4. Digit(Last(p)) \in {0, 1}
            BY DEF Digit
          <5> QED
            BY <5>2, <5>3, <5>4
        <4> QED
          BY <4>1, <4>2
      <3>4. 2 * N + 1 \in Nat
        OBVIOUS
      <3> QED
        BY <3>3, <3>4
    <2> QED
      BY <2>1, <2>2
  <1>4. \A n \in Nat : (\A k \in Nat : measure[k] < measure[n] => k \in Good) => n \in Good
    BY <1>3
  <1>5. measure \in [Nat -> Nat]
    OBVIOUS
  <1>6. Nat \subseteq Good
    <2> HIDE DEF Good, measure
    <2> QED
      BY <1>4, <1>5, MeasureInduction
  <1> QED
    BY <1>6

(* Two paths of one length with one slot are the same path. *)
LEMMA SlotTells ==
    ASSUME NEW p \in Seq(Side), NEW q \in Seq(Side),
           Len(p) = Len(q), SlotOfPath[p] = SlotOfPath[q]
    PROVE  p = q
  BY PathOfSlot

LEMMA TreeFinite == PlaceInv => IsFiniteSet(tree)
  <1> SUFFICES ASSUME PlaceInv PROVE IsFiniteSet(tree)
    OBVIOUS
  <1>1. \A p \in tree : /\ p \in Seq(Side) /\ Len(p) \in Nat /\ Len(p) <= MaxDepth
                        /\ SlotOfPath[p] \in Nat
    <2>1. \A p \in tree : p \in Seq(Side) /\ Len(p) \in Nat
      BY TreePaths DEF PlaceInv
    <2> QED
      BY <2>1, SlotOfPathRule, SizeAssumption DEF PlaceInv, DepthBounded
  <1>2. PICK N \in Nat : \A p \in Seq(Side) : Len(p) <= MaxDepth => SlotOfPath[p] <= N
    BY SlotsBounded, SizeAssumption
  <1> DEFINE T == (0..MaxDepth) \X (0..N)
             f == [p \in tree |-> <<Len(p), SlotOfPath[p]>>]
  <1>3. IsFiniteSet(T)
    <2>1. IsFiniteSet(0..MaxDepth) /\ IsFiniteSet(0..N)
      BY FS_Interval, SizeAssumption
    <2> QED
      BY <2>1, FS_Product
  <1>4. f \in Injection(tree, T)
    <2>1. f \in [tree -> T]
      BY <1>1, <1>2, SizeAssumption
    <2>2. \A p, q \in tree : f[p] = f[q] => p = q
      BY <1>1, SlotTells
    <2> QED
      BY <2>1, <2>2 DEF Injection, IsInjective
  <1> HIDE DEF T, f
  <1> QED
    BY <1>3, <1>4, FS_Injection

LEMMA BeforeOrder ==
    ASSUME PlaceInv
    PROVE  /\ \A p, q \in tree : ~ (Before(p, q) /\ Before(q, p))
           /\ \A p \in tree : \A s \in Side : Append(p, s) \in tree => Before(Append(p, s), p)
           /\ \A p, q \in tree : Before(p, q) <=> \/ Len(q) < Len(p)
                                                  \/ Len(p) = Len(q) /\ SlotOfPath[p] < SlotOfPath[q]
  <1>1. \A p \in tree : /\ p \in Path /\ p \in Seq(Side) /\ Len(p) \in Nat /\ SlotOfPath[p] \in Nat
                        /\ TotalRounds(tree) \in Nat
    BY TreePaths, SlotOfPathRule, TotalRoundsOfTree DEF PlaceInv
  <1>2. \A p, q \in tree : Before(p, q) <=> \/ Len(q) < Len(p)
                                            \/ Len(p) = Len(q) /\ SlotOfPath[p] < SlotOfPath[q]
    BY <1>1 DEF Before, Round
  <1>3. ASSUME NEW p \in tree, NEW s \in Side, Append(p, s) \in tree
        PROVE  Len(p) < Len(Append(p, s))
    BY <1>1, <1>3, AboveAppend
  <1>4. \A p, q \in tree : ~ (Before(p, q) /\ Before(q, p))
    BY <1>1, <1>2
  <1>5. ASSUME NEW p \in tree, NEW s \in Side, Append(p, s) \in tree
        PROVE  Before(Append(p, s), p)
    <2> DEFINE c == Append(p, s)
    <2>1. c \in tree /\ Len(p) < Len(c)
      BY <1>3, <1>5
    <2> HIDE DEF c
    <2>2. Before(c, p)
      BY <1>2, <2>1
    <2> QED
      BY <2>2 DEF c
  <1> QED
    BY <1>2, <1>4, <1>5

(* Of any matches one is the last. *)
LEMMA LastIs ==
    ASSUME PlaceInv, NEW S \in SUBSET tree, S # {}
    PROVE  LastOf(S) \in S /\ \A q \in S \ {LastOf(S)} : Before(q, LastOf(S))
  <1>1. \A p \in S : /\ p \in Seq(Side) /\ Len(p) \in Nat /\ SlotOfPath[p] \in Nat
                     /\ Len(p) <= MaxDepth
    <2>1. \A p \in S : p \in Seq(Side) /\ Len(p) \in Nat
      BY TreePaths DEF PlaceInv
    <2> QED
      BY <2>1, SlotOfPathRule, SizeAssumption DEF PlaceInv, DepthBounded
  <1> DEFINE L == {Len(p) : p \in S}
  <1>2. PICK l \in L : \A k \in L : l <= k
    <2>1. L \in SUBSET Nat /\ L # {}
      BY <1>1
    <2> HIDE DEF L
    <2> QED
      BY <2>1, LeastNumber, Zenon
  <1> DEFINE M == {SlotOfPath[p] : p \in {q \in S : Len(q) = l}}
  <1>3. PICK m \in M : \A k \in M : k <= m
    <2>1. M \in SUBSET Nat /\ M # {}
      BY <1>1, <1>2
    <2>2. PICK N \in Nat : \A p \in Seq(Side) : Len(p) <= MaxDepth => SlotOfPath[p] <= N
      BY SlotsBounded, SizeAssumption
    <2>3. \A k \in M : k <= N
      BY <1>1, <2>2
    <2> HIDE DEF M
    <2> QED
      BY <2>1, <2>3, GreatestNumber
  <1>4. PICK p \in S : Len(p) = l /\ SlotOfPath[p] = m
    BY <1>3
  <1>5. ASSUME NEW q \in S \ {p}
        PROVE  Before(q, p)
    <2>1. l <= Len(q) /\ l \in Nat /\ m \in Nat
      BY <1>1, <1>2, <1>4
    <2>2. Len(q) = l => SlotOfPath[q] <= m
      BY <1>3
    <2>3. Len(q) = l => SlotOfPath[q] # m
      BY <1>1, <1>4, <1>5, SlotTells
    <2>4. Len(p) < Len(q) \/ (Len(q) = Len(p) /\ SlotOfPath[q] < SlotOfPath[p])
      BY <1>1, <1>4, <2>1, <2>2, <2>3
    <2> QED
      BY <2>4, BeforeOrder
  <1>6. \E q \in S : \A r \in S \ {q} : Before(r, q)
    BY <1>5
  <1> HIDE DEF L, M
  <1> QED
    BY <1>6, Zenon DEF LastOf

(* Matches a sweep may have been over: all that come before one of them    *)
(* are among them.                                                         *)
Segment(S) == S \subseteq tree /\ \A p \in S : \A q \in tree : Before(q, p) => q \in S

LEMMA SegmentLess ==
    ASSUME PlaceInv, NEW S, Segment(S), S # {}
    PROVE  /\ LastOf(S) \in S /\ LastOf(S) \in tree
           /\ Segment(S \ {LastOf(S)})
           /\ \A s \in Side : Append(LastOf(S), s) \in tree => Append(LastOf(S), s) \in S \ {LastOf(S)}
  <1> DEFINE l == LastOf(S)
  <1>1. S \in SUBSET tree
    BY DEF Segment
  <1>2. l \in S /\ l \in tree /\ \A q \in S \ {l} : Before(q, l)
    BY <1>1, LastIs
  <1> HIDE DEF l
  <1>3. Segment(S \ {l})
    BY <1>1, <1>2, BeforeOrder DEF Segment
  <1>4. ASSUME NEW s \in Side, Append(l, s) \in tree
        PROVE  Append(l, s) \in S \ {l}
    <2>1. Before(Append(l, s), l)
      BY <1>2, <1>4, BeforeOrder
    <2>2. Append(l, s) # l
      BY <1>2, <1>4, <2>1, BeforeOrder
    <2> QED
      BY <1>2, <1>4, <2>1, <2>2 DEF Segment
  <1> QED
    BY <1>2, <1>3, <1>4 DEF l

LEMMA AllSegment == Segment(tree)
  BY DEF Segment

(* Sets of matches are measured by how many they hold. *)
LEMMA SizeMeasure ==
    ASSUME PlaceInv
    PROVE  /\ [S \in SUBSET tree |-> Cardinality(S)] \in [SUBSET tree -> Nat]
           /\ \A S \in SUBSET tree : S # {} =>
                 Cardinality(S \ {LastOf(S)}) < Cardinality(S)
  <1>1. IsFiniteSet(tree)
    BY TreeFinite
  <1>2. \A S \in SUBSET tree : IsFiniteSet(S) /\ Cardinality(S) \in Nat
    BY <1>1, FS_Subset, FS_CardinalityType
  <1>3. ASSUME NEW S \in SUBSET tree, S # {}
        PROVE  Cardinality(S \ {LastOf(S)}) < Cardinality(S)
    <2> DEFINE l == LastOf(S)
    <2>1. l \in S
      BY <1>3, LastIs
    <2> HIDE DEF l
    <2>2. Cardinality(S \ {l}) = Cardinality(S) - 1
      BY <1>2, <2>1, FS_RemoveElement
    <2> QED
      BY <1>2, <2>2 DEF l
  <1> QED
    BY <1>2, <1>3

-----------------------------------------------------------------------------
(* The first sweep.                                                        *)

LiveStep(f, S) ==
    IF S = {} THEN {}
    ELSE LET p == LastOf(S)
             L == f[S \ {p}]
         IN  IF (\E s \in Side : slot[<<p, s>>] # None) \/ (\E s \in Side : Append(p, s) \in L)
             THEN L \cup {p} ELSE L

LEMMA LiveRule ==
    ASSUME PlaceInv
    PROVE  \A S \in SUBSET tree : Live[S] = LiveStep(Live, S)
  <1> DEFINE D == SUBSET tree
             measure == [S \in D |-> Cardinality(S)]
             rule == [z \in [D -> D] \X D |-> LiveStep(z[1], z[2])]
  <1>1. measure \in [D -> Nat]
    BY SizeMeasure
  <1>2. \A S \in D : S # {} => /\ LastOf(S) \in S /\ S \ {LastOf(S)} \in D
                               /\ measure[S \ {LastOf(S)}] < measure[S]
    BY SizeMeasure, LastIs
  <1>3. rule \in [[D -> D] \X D -> D]
    <2>1. ASSUME NEW f \in [D -> D], NEW S \in D
          PROVE  LiveStep(f, S) \in D
      <3>1. CASE S # {}
        <4> DEFINE p == LastOf(S)
                   L == f[S \ {p}]
        <4>1. p \in tree /\ L \in D
          BY <1>2, <3>1
        <4> HIDE DEF p, L
        <4>2. L \cup {p} \in D
          BY <4>1
        <4> QED
          BY <3>1, <4>1, <4>2 DEF LiveStep, p, L
      <3> QED
        BY <3>1 DEF LiveStep
    <2> QED
      BY <2>1
  <1>4. LooksBelow(rule, D, D, measure)
    <2>1. ASSUME NEW f \in [D -> D], NEW g \in [D -> D], NEW S \in D,
                 \A T \in D : measure[T] < measure[S] => f[T] = g[T]
          PROVE  LiveStep(f, S) = LiveStep(g, S)
      <3>1. CASE S # {}
        <4>1. f[S \ {LastOf(S)}] = g[S \ {LastOf(S)}]
          BY <1>2, <2>1, <3>1
        <4> QED
          BY <4>1 DEF LiveStep
      <3> QED
        BY <3>1 DEF LiveStep
    <2> QED
      BY <2>1 DEF LooksBelow
  <1>5. PICK f \in [D -> D] : Solves(f, rule, D)
    <2>1. {} \in D
      OBVIOUS
    <2> HIDE DEF D, measure, rule
    <2> QED
      BY <1>1, <1>3, <1>4, <2>1, Recursion
  <1>6. f = [S \in D |-> LiveStep(f, S)]
    BY <1>5 DEF Solves
  <1>7. Live = CHOOSE g : g = [S \in D |-> LiveStep(g, S)]
    BY DEF Live, LiveStep
  <1>8. Live = [S \in D |-> LiveStep(Live, S)]
    BY <1>6, <1>7, Zenon
  <1> QED
    BY <1>8

(* A match has a seat of its own taken, or a match below it is entered. *)
LEMMA SeatedByStep ==
    ASSUME IInv, NEW p \in tree
    PROVE  SeatedBelow(p) # {} <=>
              \/ \E s \in Side : slot[<<p, s>>] # None
              \/ \E s \in Side : Append(p, s) \in tree /\ SeatedBelow(Append(p, s)) # {}
  <1>1. ASSUME NEW x \in SeatedBelow(p), x[1] = p
        PROVE  \E s \in Side : slot[<<p, s>>] # None
    <2>1. x = <<p, x[2]>> /\ x[2] \in Side /\ slot[x] # None
      BY <1>1 DEF SeatedBelow
    <2> QED
      BY <2>1
  <1> QED
    BY <1>1, SeatsBelow

(* The first sweep finds alive the matches somebody is seated below. *)
LEMMA LiveIs ==
    ASSUME PlaceInv
    PROVE  \A S : Segment(S) => Live[S] = {p \in S : SeatedBelow(p) # {}}
  <1> DEFINE D == SUBSET tree
             measure == [S \in D |-> Cardinality(S)]
             Good == {S \in D : Segment(S) => Live[S] = {p \in S : SeatedBelow(p) # {}}}
  <1>0. IInv
    BY DEF PlaceInv
  <1>1. measure \in [D -> Nat]
    BY SizeMeasure
  <1>2. ASSUME NEW S \in D, \A T \in D : measure[T] < measure[S] => T \in Good, Segment(S)
        PROVE  Live[S] = {p \in S : SeatedBelow(p) # {}}
    <2>1. Live[S] = LiveStep(Live, S)
      BY LiveRule
    <2>2. CASE S = {}
      BY <2>1, <2>2 DEF LiveStep
    <2>3. CASE S # {}
      <3> DEFINE l == LastOf(S)
                 T == S \ {l}
      <3>1. /\ l \in S /\ l \in tree /\ Segment(T)
            /\ \A s \in Side : Append(l, s) \in tree => Append(l, s) \in T
        BY <1>2, <2>3, SegmentLess
      <3>2. T \in D /\ measure[T] < measure[S]
        BY <2>3, SizeMeasure
      <3>3. Live[T] = {p \in T : SeatedBelow(p) # {}}
        BY <1>2, <3>1, <3>2
      <3>4. Live[S] = IF (\E s \in Side : slot[<<l, s>>] # None)
                         \/ (\E s \in Side : Append(l, s) \in Live[T])
                      THEN Live[T] \cup {l} ELSE Live[T]
        BY <2>1, <2>3 DEF LiveStep
      <3>5. T \subseteq tree /\ S = T \cup {l}
        BY <3>1
      <3> HIDE DEF l, T
      <3>6. SeatedBelow(l) # {} <=> \/ \E s \in Side : slot[<<l, s>>] # None
                                    \/ \E s \in Side : Append(l, s) \in Live[T]
        BY <1>0, <3>1, <3>3, <3>5, SeatedByStep
      <3> QED
        BY <3>3, <3>4, <3>5, <3>6
    <2> QED
      BY <2>2, <2>3
  <1>3. \A S \in D : (\A T \in D : measure[T] < measure[S] => T \in Good) => S \in Good
    BY <1>2
  <1>4. D \subseteq Good
    <2> HIDE DEF D, measure, Good
    <2> QED
      BY <1>1, <1>3, MeasureInduction
  <1> QED
    BY <1>4 DEF Segment

LEMMA PrunedByLoop == PlaceInv => tree \ Live[tree] = Pruned
  BY LiveIs, AllSegment DEF Pruned

-----------------------------------------------------------------------------
(* The second sweep.                                                       *)

Start == [slot |-> slot, winner |-> winner, sets |-> sets, dead |-> tree \ Live[tree]]

ResolvedStep(f, S) == IF S = {} THEN Start ELSE ResolveOne(f[S \ {LastOf(S)}], LastOf(S))

LEMMA PropagateType ==
    ASSUME PlaceInv, NEW p \in tree, NEW b \in Boards, NEW w \in Team
    PROVE  Carried(b, p, w) \in Boards /\ PropagateWinner[p][b][w] \in Boards
  <1>1. p \in Path
    BY TreePaths DEF PlaceInv
  <1>2. /\ b.slot \in [Slot -> Team \cup {None}]
        /\ b.winner \in [Path -> Team \cup {None}]
        /\ b.sets \in [Path -> (Nat \X Nat) \cup {None}]
        /\ b.dead \in SUBSET Path
    BY <1>1, BoardTypes
  <1> DEFINE C == Climb(p, Byes(b, p))
  <1> HIDE DEF C
  <1>3. /\ [x \in Slot |-> IF \E q \in C : q # <<>> /\ x = Feeds(q) THEN w ELSE b.slot[x]]
              \in [Slot -> Team \cup {None}]
        /\ [q \in Path |-> IF q \in C /\ q # p THEN w ELSE b.winner[q]] \in [Path -> Team \cup {None}]
    BY <1>2
  <1>4. Carried(b, p, w) \in Boards
    BY <1>2, <1>3 DEF Carried, Boards, C
  <1> QED
    BY <1>4, PropagateIsCarried

LEMMA ResolveOneType ==
    ASSUME PlaceInv, NEW p \in tree, NEW b \in Boards
    PROVE  /\ ResolveOne(b, p) \in Boards
           /\ WalksOver(b, p) =>
                 /\ TheFilled(b, p) \in Team
                 /\ Decide(b, p, TheFilled(b, p)) \in Boards
                 /\ ResolveOne(b, p) = Carried(Decide(b, p, TheFilled(b, p)), p, TheFilled(b, p))
  <1> DEFINE v == TheFilled(b, p)
  <1>1. p \in Path
    BY TreePaths DEF PlaceInv
  <1>2. ASSUME WalksOver(b, p)
        PROVE  /\ v \in Team /\ Decide(b, p, v) \in Boards
               /\ ResolveOne(b, p) = Carried(Decide(b, p, v), p, v)
               /\ ResolveOne(b, p) \in Boards
    <2>1. PICK s \in Side : Filled(b, p) = {s}
      BY <1>2 DEF WalksOver
    <2>2. v \in Team
      BY <1>1, <2>1, FilledTeam
    <2>3. ResolveOne(b, p) = PropagateWinner[p][Decide(b, p, v)][v]
      BY <1>2 DEF ResolveOne
    <2> HIDE DEF v
    <2>4. Decide(b, p, v) \in Boards
      BY <1>1, <2>2, BoardTypes
    <2> QED
      BY <2>2, <2>3, <2>4, PropagateIsCarried, PropagateType
  <1> QED
    BY <1>2 DEF ResolveOne

LEMMA StartType == PlaceInv => Start \in Boards /\ Start.dead = Pruned
  <1> SUFFICES ASSUME PlaceInv PROVE Start \in Boards /\ Start.dead = Pruned
    OBVIOUS
  <1>1. Rows \in Boards /\ TreeClosed
    BY RowsAreBoard DEF PlaceInv
  <1>2. tree \ Live[tree] = Pruned
    BY PrunedByLoop
  <1>3. Pruned \subseteq Path
    BY <1>1 DEF Pruned, TreeClosed
  <1> QED
    BY <1>1, <1>2, <1>3 DEF Start, Rows, Boards

LEMMA ResolvedRule ==
    ASSUME PlaceInv
    PROVE  \A S \in SUBSET tree : Resolved[S] = ResolvedStep(Resolved, S)
  <1> DEFINE D == SUBSET tree
             measure == [S \in D |-> Cardinality(S)]
             rule == [z \in [D -> Boards] \X D |-> ResolvedStep(z[1], z[2])]
  <1>1. measure \in [D -> Nat]
    BY SizeMeasure
  <1>2. \A S \in D : S # {} => /\ LastOf(S) \in tree /\ S \ {LastOf(S)} \in D
                               /\ measure[S \ {LastOf(S)}] < measure[S]
    BY SizeMeasure, LastIs
  <1>3. rule \in [[D -> Boards] \X D -> Boards]
    <2>1. ASSUME NEW f \in [D -> Boards], NEW S \in D
          PROVE  ResolvedStep(f, S) \in Boards
      <3>1. CASE S # {}
        <4>1. LastOf(S) \in tree /\ f[S \ {LastOf(S)}] \in Boards
          BY <1>2, <3>1
        <4>2. ResolveOne(f[S \ {LastOf(S)}], LastOf(S)) \in Boards
          BY <4>1, ResolveOneType
        <4> QED
          BY <3>1, <4>2 DEF ResolvedStep
      <3> QED
        BY <3>1, StartType DEF ResolvedStep
    <2> QED
      BY <2>1
  <1>4. LooksBelow(rule, D, Boards, measure)
    <2>1. ASSUME NEW f \in [D -> Boards], NEW g \in [D -> Boards], NEW S \in D,
                 \A T \in D : measure[T] < measure[S] => f[T] = g[T]
          PROVE  ResolvedStep(f, S) = ResolvedStep(g, S)
      <3>1. CASE S # {}
        <4>1. f[S \ {LastOf(S)}] = g[S \ {LastOf(S)}]
          BY <1>2, <2>1, <3>1
        <4> QED
          BY <4>1 DEF ResolvedStep
      <3> QED
        BY <3>1 DEF ResolvedStep
    <2> QED
      BY <2>1 DEF LooksBelow
  <1>5. PICK f \in [D -> Boards] : Solves(f, rule, D)
    <2>1. Start \in Boards
      BY StartType
    <2> HIDE DEF D, measure, rule
    <2> QED
      BY <1>1, <1>3, <1>4, <2>1, Recursion
  <1>6. f = [S \in D |-> ResolvedStep(f, S)]
    BY <1>5 DEF Solves
  <1>7. Resolved = CHOOSE g : g = [S \in D |-> ResolvedStep(g, S)]
    BY DEF Resolved, ResolvedStep, Start
  <1>8. Resolved = [S \in D |-> ResolvedStep(Resolved, S)]
    BY <1>6, <1>7, Zenon
  <1> QED
    BY <1>8

(* What the board looks like while the second sweep goes on.  A match may  *)
(* be decided before the sweep is over it, by a walkover below; then it is *)
(* decided for good.                                                       *)
SweptOver(b, S) ==
    /\ b \in Boards /\ b.dead = Pruned
    /\ \A p \in tree : b.winner[p] = None \/ b.winner[p] = Lone(p)
    /\ \A p \in S : b.winner[p] = Lone(p)
    /\ \A p \in tree : \A s \in Side :
          b.slot[<<p, s>>] = IF Append(p, s) \in tree THEN b.winner[Append(p, s)] ELSE slot[<<p, s>>]

LEMMA DraftSeats ==
    ASSUME IInv, ~locked
    PROVE  /\ \A p \in tree : \A s \in Side : Append(p, s) \in tree => slot[<<p, s>>] = None
           /\ \A p \in Path : winner[p] = None
  <1>1. \A x \in Slot : slot[x] # None => x \in Seats(tree)
    BY DEF IInv, DraftIsClean
  <1>2. \A p \in tree : \A s \in Side : <<p, s>> \in Slot
    BY TreePaths
  <1> QED
    BY <1>1, <1>2 DEF Seats, IInv, DraftIsClean

(* When nobody can come to one side of p, whoever comes to the other side  *)
(* alone comes to p alone.                                                 *)
LEMMA LoneFromBelow ==
    ASSUME IInv, ~locked, NEW p \in tree, NEW s \in Side,
           Append(p, Other(s)) \in tree => Append(p, Other(s)) \in Pruned,
           Append(p, Other(s)) \notin tree => slot[<<p, Other(s)>>] = None
    PROVE  /\ Append(p, s) \in tree => Lone(p) = Lone(Append(p, s))
           /\ Append(p, s) \notin tree /\ slot[<<p, s>>] # None => Lone(p) = slot[<<p, s>>]
  <1>1. Other(s) \in Side /\ Other(s) # s /\ \A t \in Side : t = s \/ t = Other(s)
    BY OtherSide
  <1>2. \A x \in SeatedBelow(p) : x[1] = p => x = <<p, x[2]>> /\ x[2] \in Side /\ slot[x] # None
    BY DEF SeatedBelow
  <1>3. ASSUME NEW x \in SeatedBelow(p)
        PROVE  IF Append(p, s) \in tree THEN x \in SeatedBelow(Append(p, s)) ELSE x = <<p, s>>
    <2>1. CASE x[1] = p
      <3>1. x = <<p, x[2]>> /\ x[2] \in Side /\ slot[x] # None
        BY <1>2, <1>3, <2>1
      <3>2. x[2] # Other(s) /\ Append(p, x[2]) \notin tree
        BY <1>1, <3>1, DraftSeats
      <3> QED
        BY <1>1, <3>1, <3>2
    <2>2. CASE x[1] # p
      <3>1. PICK u \in Side : Append(p, u) \in tree /\ x \in SeatedBelow(Append(p, u))
        BY <1>3, <2>2, SeatsBelow
      <3>2. u # Other(s)
        BY <3>1 DEF Pruned
      <3> QED
        BY <1>1, <3>1, <3>2
    <2> QED
      BY <2>1, <2>2
  <1>4. ASSUME Append(p, s) \in tree
        PROVE  Lone(p) = Lone(Append(p, s))
    <2> DEFINE c == Append(p, s)
    <2>1. SeatedBelow(p) = SeatedBelow(c)
      BY <1>3, <1>4, SeatsBelow
    <2> HIDE DEF c
    <2>2. Lone(p) = Lone(c)
      BY <2>1 DEF Lone
    <2> QED
      BY <2>2 DEF c
  <1>5. ASSUME Append(p, s) \notin tree, slot[<<p, s>>] # None
        PROVE  Lone(p) = slot[<<p, s>>]
    <2>1. SeatedBelow(p) = {<<p, s>>}
      BY <1>3, <1>5, SeatsBelow
    <2>2. <<p, s>> \in Slot /\ TypeOK
      BY TreePaths DEF IInv
    <2> QED
      BY <2>1, <2>2, LoneValue
  <1> QED
    BY <1>4, <1>5

LEMMA StartSwept == PlaceInv /\ ~locked => SweptOver(Start, {})
  <1> SUFFICES ASSUME PlaceInv, ~locked PROVE SweptOver(Start, {})
    OBVIOUS
  <1>1. Start \in Boards /\ Start.dead = Pruned
    BY StartType
  <1>2. Start.slot = slot /\ Start.winner = winner
    BY DEF Start
  <1>3. IInv /\ tree \subseteq Path
    BY TreePaths DEF PlaceInv
  <1>4. \A p \in tree : winner[p] = None
    BY <1>3, DraftSeats
  <1>5. \A p \in tree : \A s \in Side :
            slot[<<p, s>>] = IF Append(p, s) \in tree THEN winner[Append(p, s)] ELSE slot[<<p, s>>]
    BY <1>3, <1>4, DraftSeats
  <1> QED
    BY <1>1, <1>2, <1>4, <1>5 DEF SweptOver

(* A climb comes to q from the match below it. *)
LEMMA ClimbDown ==
    ASSUME NEW p \in Path, NEW M, NEW q \in Climb(p, M), q # p
    PROVE  /\ q \in Above(p) /\ q \in M /\ SideToward(q, p) \in Side
           /\ \E c \in Climb(p, M) : /\ c # <<>> /\ Len(c) = Len(q) + 1
                                     /\ Feeds(c) = <<q, SideToward(q, p)>>
  <1>1. q \in Above(p) /\ Len(q) \in Nat
    BY AboveType DEF Climb
  <1>2. IsPrefix(q, q)
    BY <1>1, AboveByLength
  <1>3. q \in M
    BY <1>1, <1>2 DEF Climb
  <1>4. SideToward(q, p) \in Side
    BY <1>1, StepDown
  <1>5. PICK c \in Above(p) : c # <<>> /\ Len(c) = Len(q) + 1 /\ Feeds(c) = <<q, SideToward(q, p)>>
    BY <1>1, StepDown
  <1>6. ASSUME NEW r \in Above(p), IsPrefix(c, r)
        PROVE  IsPrefix(q, r)
    <2>1. Len(c) <= Len(r) /\ Len(r) \in Nat
      BY <1>6, AboveByLength, AboveType
    <2>2. Len(q) <= Len(r)
      BY <1>1, <1>5, <2>1
    <2> QED
      BY <1>1, <2>2, AboveByLength
  <1>7. c \in Climb(p, M)
    BY <1>6 DEF Climb
  <1> QED
    BY <1>1, <1>3, <1>4, <1>5, <1>7

LEMMA ClimbSelf ==
    ASSUME NEW p \in Path, NEW M
    PROVE  p \in Climb(p, M)
  BY SelfAbove, AboveByLength, AboveType, PathType DEF Climb

(* A walkover decides p, and the matches it is carried up through, for the *)
(* one team seated below them.                                             *)
LEMMA WalkoverIsLone ==
    ASSUME IInv, ~locked, NEW b, NEW S, SweptOver(b, S), NEW p \in tree, WalksOver(b, p)
    PROVE  TheFilled(b, p) = Lone(p)
  <1>1. PICK s \in Side : Filled(b, p) = {s} /\ Append(p, Other(s)) \notin tree \ b.dead
    BY DEF WalksOver
  <1>2. p \in Path /\ b \in Boards /\ b.dead = Pruned
    BY TreePaths DEF SweptOver
  <1>3. TheFilled(b, p) = b.slot[<<p, s>>]
    BY <1>1, <1>2, FilledTeam
  <1>4. b.slot[<<p, s>>] # None /\ b.slot[<<p, Other(s)>>] = None /\ Other(s) \in Side
    BY <1>1, OtherSide DEF Filled
  <1>5. Append(p, Other(s)) \notin tree => slot[<<p, Other(s)>>] = None
    BY <1>4 DEF SweptOver
  <1>6. Append(p, Other(s)) \in tree => Append(p, Other(s)) \in Pruned
    BY <1>1, <1>2
  <1>7. /\ Append(p, s) \in tree => Lone(p) = Lone(Append(p, s))
        /\ Append(p, s) \notin tree /\ slot[<<p, s>>] # None => Lone(p) = slot[<<p, s>>]
    BY <1>5, <1>6, LoneFromBelow
  <1>8. CASE Append(p, s) \in tree
    <2>1. b.slot[<<p, s>>] = b.winner[Append(p, s)]
      BY <1>8 DEF SweptOver
    <2>2. b.winner[Append(p, s)] = None \/ b.winner[Append(p, s)] = Lone(Append(p, s))
      BY <1>8 DEF SweptOver
    <2> QED
      BY <1>3, <1>4, <1>7, <1>8, <2>1, <2>2
  <1>9. CASE Append(p, s) \notin tree
    <2>1. b.slot[<<p, s>>] = slot[<<p, s>>]
      BY <1>9 DEF SweptOver
    <2> QED
      BY <1>3, <1>4, <1>7, <1>9, <2>1
  <1> QED
    BY <1>8, <1>9

LEMMA CarriedIsLone ==
    ASSUME IInv, ~locked, NEW b, NEW S, SweptOver(b, S), NEW p \in tree, WalksOver(b, p)
    PROVE  LET C == Climb(p, Byes(Decide(b, p, Lone(p)), p))
           IN  p \in C /\ \A q \in C : q \in tree /\ Lone(q) = Lone(p)
  <1> DEFINE d == Decide(b, p, Lone(p))
             C == Climb(p, Byes(d, p))
             measure == [q \in C |-> Len(p) - Len(q)]
             Good == {q \in C : Lone(q) = Lone(p)}
  <1>1. p \in Path /\ Len(p) \in Nat /\ TreeClosed /\ tree \subseteq Path
    BY TreePaths, RowsAreBoard DEF TreeClosed
  <1>2. d.slot = b.slot /\ d.dead = Pruned
    BY DEF Decide, SweptOver
  <1> HIDE DEF d
  <1>3. p \in C
    BY <1>1, ClimbSelf
  <1>4. \A q \in C : /\ q \in Above(p) /\ q \in tree
                     /\ Len(q) \in 0..Len(p)
    BY <1>1, TreePaths, AboveType DEF Climb
  <1>5. measure \in [C -> Nat]
    BY <1>1, <1>4
  <1>6. ASSUME NEW q \in C, \A r \in C : measure[r] < measure[q] => r \in Good
        PROVE  Lone(q) = Lone(p)
    <2>1. CASE q # p
      <3> DEFINE s == SideToward(q, p)
      <3>1. /\ q \in Byes(d, p) /\ s \in Side
            /\ \E c \in C : c # <<>> /\ Len(c) = Len(q) + 1 /\ Feeds(c) = <<q, s>>
        BY <1>1, <2>1, ClimbDown
      <3>2. PICK c \in C : c # <<>> /\ Len(c) = Len(q) + 1 /\ Feeds(c) = <<q, s>>
        BY <3>1
      <3>3. ByeOn(d, q, s)
        BY <3>1 DEF Byes
      <3> HIDE DEF s
      <3>4. Append(q, s) = c /\ c \in tree /\ q \in tree
        BY <1>1, <1>4, <3>2, BelowSlot
      <3>5. Lone(c) = Lone(p)
        <4>1. measure[c] < measure[q]
          BY <1>1, <1>4, <3>2
        <4> QED
          BY <1>6, <4>1
      <3>6. /\ Append(q, Other(s)) \in tree => Append(q, Other(s)) \in Pruned
            /\ b.slot[<<q, Other(s)>>] = None /\ Other(s) \in Side
        BY <1>2, <3>1, <3>3, OtherSide DEF ByeOn
      <3>7. Append(q, Other(s)) \notin tree => slot[<<q, Other(s)>>] = None
        BY <3>4, <3>6 DEF SweptOver
      <3>8. Append(q, s) \in tree => Lone(q) = Lone(Append(q, s))
        BY <3>1, <3>4, <3>6, <3>7, LoneFromBelow
      <3> QED
        BY <3>4, <3>5, <3>8
    <2> QED
      BY <2>1
  <1>7. \A q \in C : (\A r \in C : measure[r] < measure[q] => r \in Good) => q \in Good
    BY <1>6
  <1>8. C \subseteq Good
    <2> HIDE DEF C, measure, Good
    <2> QED
      BY <1>5, <1>7, MeasureInduction
  <1> QED
    BY <1>3, <1>4, <1>8 DEF d

(* One match of the second sweep. *)
LEMMA SweepWalkover ==
    ASSUME PlaceInv, ~locked, NEW b, NEW S, SweptOver(b, S), S \subseteq tree,
           NEW p \in tree, WalksOver(b, p)
    PROVE  SweptOver(ResolveOne(b, p), S \cup {p})
  <1> DEFINE v == Lone(p)
             d == Decide(b, p, v)
             C == Climb(p, Byes(d, p))
             e == Carried(d, p, v)
  <1>1. IInv /\ TreeClosed /\ tree \subseteq Path /\ b \in Boards
    BY RowsAreBoard DEF PlaceInv, TreeClosed, SweptOver
  <1>2. TheFilled(b, p) = v
    BY <1>1, WalkoverIsLone
  <1>3. v \in Team /\ e = ResolveOne(b, p) /\ e \in Boards
    BY <1>1, <1>2, ResolveOneType
  <1>4. p \in C /\ \A q \in C : q \in tree /\ Lone(q) = v
    BY <1>1, CarriedIsLone
  <1>5. /\ d.slot = b.slot /\ d.winner = [b.winner EXCEPT ![p] = v] /\ d.dead = b.dead
        /\ b.slot \in [Slot -> Team \cup {None}]
        /\ b.winner \in [Path -> Team \cup {None}]
    BY <1>1, BoardTypes DEF Decide
  <1>6. /\ e.slot = [x \in Slot |-> IF \E q \in C : q # <<>> /\ x = Feeds(q) THEN v ELSE d.slot[x]]
        /\ e.winner = [q \in Path |-> IF q \in C /\ q # p THEN v ELSE d.winner[q]]
        /\ e.dead = d.dead
    BY DEF Carried
  <1> HIDE DEF v, d, C, e
  <1>7. \A q \in Path : e.winner[q] = IF q \in C THEN v ELSE b.winner[q]
    BY <1>1, <1>4, <1>5, <1>6
  <1>8. \A q \in tree : e.winner[q] = None \/ e.winner[q] = Lone(q)
    BY <1>1, <1>4, <1>7 DEF SweptOver
  <1>9. \A q \in S \cup {p} : e.winner[q] = Lone(q)
    <2>1. ASSUME NEW q \in S \cup {p}
          PROVE  e.winner[q] = Lone(q)
      <3>1. CASE q \in C
        BY <1>1, <1>4, <1>7, <3>1
      <3>2. CASE q \notin C /\ q \in Path
        BY <1>4, <1>7, <2>1, <3>2 DEF SweptOver
      <3> QED
        BY <1>1, <2>1, <3>1, <3>2
    <2> QED
      BY <2>1
  <1>10. ASSUME NEW q \in tree, NEW s \in Side
         PROVE  e.slot[<<q, s>>] = IF Append(q, s) \in tree THEN e.winner[Append(q, s)] ELSE slot[<<q, s>>]
    <2> DEFINE c == Append(q, s)
               x == <<q, s>>
    <2>1. x \in Slot /\ e.slot[x] = IF \E r \in C : r # <<>> /\ x = Feeds(r) THEN v ELSE b.slot[x]
      BY <1>1, <1>5, <1>6, TreePaths
    <2>2. \A r \in C : r # <<>> /\ x = Feeds(r) => r = c
      <3>1. ASSUME NEW r \in C, r # <<>>, x = Feeds(r)
            PROVE  r = c
        <4>1. r \in Path
          BY <1>1, <1>4
        <4> QED
          BY <3>1, <4>1, BelowSlot
      <3> QED
        BY <3>1
    <2>3. c # <<>> /\ Feeds(c) = x
      BY <1>1, AppendFeeds
    <2>4. b.slot[x] = IF c \in tree THEN b.winner[c] ELSE slot[x]
      BY DEF SweptOver
    <2> HIDE DEF c, x
    <2>5. e.slot[x] = IF c \in tree THEN e.winner[c] ELSE slot[x]
      BY <1>1, <1>4, <1>7, <2>1, <2>2, <2>3, <2>4
    <2> QED
      BY <2>5 DEF c, x
  <1> QED
    BY <1>3, <1>5, <1>6, <1>8, <1>9, <1>10 DEF SweptOver

(* Where the second sweep decides nothing there is nothing to decide. *)
LEMMA SweepElse ==
    ASSUME PlaceInv, ~locked, NEW b, NEW S, SweptOver(b, S), NEW p \in tree, ~ WalksOver(b, p),
           \A s \in Side : Append(p, s) \in tree => Append(p, s) \in S
    PROVE  b.winner[p] = Lone(p)
  <1>1. SUFFICES ASSUME b.winner[p] = None, Lone(p) # None PROVE FALSE
    BY DEF SweptOver
  <1>2. IInv /\ TypeOK /\ b.dead = Pruned /\ \A s \in Side : <<p, s>> \in Slot
    BY TreePaths DEF PlaceInv, IInv, SweptOver
  <1>3. PICK x \in Slot : SeatedBelow(p) = {x}
    BY <1>1, <1>2, LoneValue
  <1>4. Lone(p) = slot[x] /\ slot[x] # None
    BY <1>1, <1>2, <1>3, LoneValue
  (* Only the side s through which the team comes up is filled. *)
  <1>5. ASSUME NEW s \in Side, b.slot[<<p, s>>] # None,
               Append(p, Other(s)) \in tree => x \notin SeatedBelow(Append(p, Other(s))),
               x # <<p, Other(s)>>
        PROVE  FALSE
    <2> DEFINE o == Append(p, Other(s))
    <2>1. Other(s) \in Side /\ Other(s) # s /\ \A t \in Side : t = s \/ t = Other(s)
      BY OtherSide
    <2>2. o \in tree => SeatedBelow(o) = {}
      <3>1. o \in tree => SeatedBelow(o) \subseteq SeatedBelow(p)
        BY <1>2, <2>1, SeatsBelow
      <3> HIDE DEF o
      <3>2. o \in tree => x \notin SeatedBelow(o)
        BY <1>5 DEF o
      <3> QED
        BY <1>3, <3>1, <3>2
    <2>3. o \notin tree \ b.dead
      BY <1>2, <2>2 DEF Pruned
    <2>4. b.slot[<<p, Other(s)>>] = None
      <3>1. CASE o \in tree
        <4>1. o \in S
          BY <2>1, <3>1
        <4>2. b.slot[<<p, Other(s)>>] = b.winner[o] /\ b.winner[o] = Lone(o)
          BY <2>1, <3>1, <4>1 DEF SweptOver
        <4>3. Lone(o) = None
          <5> HIDE DEF o
          <5> QED
            BY <1>2, <2>2, <3>1, LoneValue
        <4> QED
          BY <4>2, <4>3
      <3>2. CASE o \notin tree
        <4>1. b.slot[<<p, Other(s)>>] = slot[<<p, Other(s)>>]
          BY <2>1, <3>2 DEF SweptOver
        <4>2. slot[<<p, Other(s)>>] # None => <<p, Other(s)>> \in SeatedBelow(p)
          BY <1>2, <2>1, SeatsBelow
        <4> QED
          BY <1>3, <1>5, <4>1, <4>2
      <3> QED
        BY <3>1, <3>2
    <2>5. Filled(b, p) = {s}
      BY <1>5, <2>1, <2>4 DEF Filled
    <2>6. p \notin b.dead
      BY <1>2, <1>3 DEF Pruned
    <2> QED
      BY <1>1, <2>3, <2>5, <2>6 DEF WalksOver
  <1>6. CASE x[1] = p
    <2>1. x = <<p, x[2]>> /\ x[2] \in Side /\ Append(p, x[2]) \notin tree
      <3>1. x \in SeatedBelow(p)
        BY <1>3
      <3>2. x = <<p, x[2]>> /\ x[2] \in Side
        BY <1>6, <3>1 DEF SeatedBelow
      <3> QED
        BY <1>2, <1>4, <3>2, DraftSeats
    <2> DEFINE s == x[2]
    <2>2. s \in Side /\ x = <<p, s>> /\ Append(p, s) \notin tree /\ Other(s) # s /\ Other(s) \in Side
      BY <2>1, OtherSide
    <2>3. b.slot[<<p, s>>] = slot[<<p, s>>]
      BY <2>2 DEF SweptOver
    <2>4. Append(p, Other(s)) \in tree => x \notin SeatedBelow(Append(p, Other(s)))
      <3>1. Other(Other(s)) = s
        BY <2>2 DEF Other, Side
      <3> QED
        BY <1>2, <1>6, <2>2, SeatsBelow
    <2> HIDE DEF s
    <2> QED
      BY <1>4, <1>5, <2>2, <2>3, <2>4
  <1>7. CASE x[1] # p
    <2>1. PICK s \in Side : Append(p, s) \in tree /\ x \in SeatedBelow(Append(p, s))
      BY <1>2, <1>3, <1>7, SeatsBelow
    <2> DEFINE c == Append(p, s)
    <2>2. SeatedBelow(c) = {x}
      BY <1>2, <1>3, <2>1, SeatsBelow
    <2>3. Lone(c) = slot[x]
      <3> HIDE DEF c
      <3> QED
        BY <1>2, <2>2, LoneValue
    <2>4. b.slot[<<p, s>>] = b.winner[c] /\ b.winner[c] = Lone(c)
      BY <2>1 DEF SweptOver
    <2>5. Append(p, Other(s)) \in tree => x \notin SeatedBelow(Append(p, Other(s)))
      BY <1>2, <2>1, SeatsBelow
    <2>6. x # <<p, Other(s)>>
      BY <1>7
    <2> QED
      BY <1>4, <1>5, <2>3, <2>4, <2>5, <2>6
  <1> QED
    BY <1>6, <1>7

LEMMA SweepStep ==
    ASSUME PlaceInv, ~locked, NEW b, NEW S, SweptOver(b, S), NEW p \in tree, S \subseteq tree,
           \A s \in Side : Append(p, s) \in tree => Append(p, s) \in S
    PROVE  SweptOver(ResolveOne(b, p), S \cup {p})
  <1>1. CASE WalksOver(b, p)
    BY <1>1, SweepWalkover
  <1>2. CASE ~ WalksOver(b, p)
    <2>1. b.winner[p] = Lone(p) /\ ResolveOne(b, p) = b
      BY <1>2, SweepElse DEF ResolveOne
    <2> QED
      BY <2>1 DEF SweptOver
  <1> QED
    BY <1>1, <1>2

LEMMA ResolvedSwept ==
    ASSUME PlaceInv, ~locked
    PROVE  \A S : Segment(S) => SweptOver(Resolved[S], S)
  <1> DEFINE D == SUBSET tree
             measure == [S \in D |-> Cardinality(S)]
             Good == {S \in D : Segment(S) => SweptOver(Resolved[S], S)}
  <1>1. measure \in [D -> Nat]
    BY SizeMeasure
  <1>2. ASSUME NEW S \in D, \A T \in D : measure[T] < measure[S] => T \in Good, Segment(S)
        PROVE  SweptOver(Resolved[S], S)
    <2>1. Resolved[S] = ResolvedStep(Resolved, S)
      BY ResolvedRule
    <2>2. CASE S = {}
      BY <2>1, <2>2, StartSwept DEF ResolvedStep
    <2>3. CASE S # {}
      <3> DEFINE l == LastOf(S)
                 T == S \ {l}
      <3>1. /\ l \in S /\ l \in tree /\ Segment(T)
            /\ \A s \in Side : Append(l, s) \in tree => Append(l, s) \in T
        BY <1>2, <2>3, SegmentLess
      <3>2. T \in D /\ measure[T] < measure[S]
        BY <2>3, SizeMeasure
      <3>3. SweptOver(Resolved[T], T)
        BY <1>2, <3>1, <3>2
      <3>4. Resolved[S] = ResolveOne(Resolved[T], l)
        BY <2>1, <2>3 DEF ResolvedStep
      <3>5. T \subseteq tree /\ S = T \cup {l}
        BY <3>1
      <3> HIDE DEF l, T
      <3>6. SweptOver(ResolveOne(Resolved[T], l), T \cup {l})
        BY <3>1, <3>3, <3>5, SweepStep
      <3> QED
        BY <3>4, <3>5, <3>6
    <2> QED
      BY <2>2, <2>3
  <1>3. \A S \in D : (\A T \in D : measure[T] < measure[S] => T \in Good) => S \in Good
    BY <1>2
  <1>4. D \subseteq Good
    <2> HIDE DEF D, measure, Good
    <2> QED
      BY <1>1, <1>3, MeasureInduction
  <1> QED
    BY <1>4 DEF Segment

LEMMA PruneLoopDoes == PlaceInv => PruneLoopAgrees
  <1> SUFFICES ASSUME PlaceInv, ~locked
               PROVE  /\ PruneAndResolve.dead = Pruned
                      /\ \A p \in tree : PruneAndResolve.winner[p] = Lone(p)
                      /\ \A x \in tree \X Side : PruneAndResolve.slot[x] = AdvanceLone(x)
    BY DEF PruneLoopAgrees
  <1>1. SweptOver(PruneAndResolve, tree)
    BY AllSegment, ResolvedSwept DEF PruneAndResolve
  <1>2. ASSUME NEW p \in tree, NEW s \in Side
        PROVE  PruneAndResolve.slot[<<p, s>>] = AdvanceLone(<<p, s>>)
    BY <1>1 DEF SweptOver, AdvanceLone
  <1> QED
    BY <1>1, <1>2 DEF SweptOver

-----------------------------------------------------------------------------
(* In every reachable state the closed forms of LeagueBracket (Undo,       *)
(* Propagate, Lone, Pruned) give what the recursions of _undo_decided and  *)
(* _propagate_winner and the two sweeps of _prune_and_resolve give, and a  *)
(* match and its (round, slot_in_round) determine each other: for every    *)
(* bracket of any shape and depth.                                         *)
THEOREM LoopsDoAgree == Spec => []LoopsAgree
  <1>1. PlaceInv => LoopsAgree
    BY CoordinatesDo, UndoLoopDoes, AdvanceLoopDoes, PruneLoopDoes DEF LoopsAgree
  <1> QED
    BY <1>1, PlaceInit, PlaceNext, PTL DEF Spec

=============================================================================
