--------------------------- MODULE CoordinatorProofs ---------------------------
(***************************************************************************)
(* Theorems about Coordinator, for all signals and thresholds and signal   *)
(* lists of any length: the type invariant, the floor, and that evidence   *)
(* never weakens an answer.  They rest on the monotonicity of rounding,    *)
(* clamping, the bump and the ladder.                                      *)
(***************************************************************************)
EXTENDS Coordinator, SequenceTheorems, WellFoundedInduction, TLAPS

LEMMA WeightRange ==
    ASSUME NEW a \in DOMAIN DefaultWeights
    PROVE  DefaultWeights[a] \in 0..35
  BY DEF DefaultWeights

LEMMA ContributionNat ==
    ASSUME NEW s \in Signal
    PROVE  Contribution(s) \in Nat
<1>1. /\ s.score \in Nat
      /\ 100 + s.conf \in Nat
      /\ DefaultWeights[s.agent] \in Nat
  BY WeightRange DEF Signal
<1>2. ASSUME NEW x \in Nat, NEW y \in Nat PROVE x * y \in Nat
  OBVIOUS
<1>3. s.score * DefaultWeights[s.agent] \in Nat
  BY <1>1, <1>2
<1> QED
  BY <1>1, <1>2, <1>3 DEF Contribution

LEMMA BumpMonotone ==
    ASSUME NEW m \in Nat, NEW n \in Nat, m <= n
    PROVE  /\ Bump(m) \in 0..15
           /\ Bump(m) <= Bump(n)
  BY DEF Bump

\* Quotients and remainders.
LEMMA Parts ==
    ASSUME NEW a \in Nat, NEW c \in Nat \ {0}
    PROVE  a \div c \in Nat /\ a % c \in Nat /\ a = c * (a \div c) + (a % c)
  OBVIOUS

LEMMA Quotients ==
    ASSUME NEW a \in Nat, NEW b \in Nat, NEW c \in Nat \ {0}, a <= b
    PROVE  a \div c <= b \div c
  OBVIOUS

LEMMA PointSize == Point \in Nat \ {0}
  BY DEF Point

LEMMA RoundedMonotone ==
    ASSUME NEW u \in Nat, NEW v \in Nat, u <= v
    PROVE  /\ Rounded(u) \in Nat
           /\ Rounded(u) <= Rounded(v)
<1>1. /\ u \div Point \in Nat /\ u % Point \in Nat
      /\ u = Point * (u \div Point) + (u % Point)
  BY PointSize, Parts
<1>2. /\ v \div Point \in Nat /\ v % Point \in Nat
      /\ v = Point * (v \div Point) + (v % Point)
  BY PointSize, Parts
<1>3. u \div Point <= v \div Point
  BY PointSize, Quotients
<1>4. /\ Rounded(u) \in Nat /\ Rounded(v) \in Nat
      /\ Rounded(u) <= u \div Point + 1 /\ v \div Point <= Rounded(v)
  BY <1>1, <1>2 DEF Rounded
<1>5. CASE u \div Point = v \div Point
  <2>1. u % Point <= v % Point
    <3>1. Point * (u \div Point) \in Nat
      BY <1>1, PointSize
    <3> QED
      BY <1>1, <1>2, <1>5, <3>1
  <2> QED
    BY <1>1, <1>2, <1>4, <1>5, <2>1, PointSize DEF Rounded
<1>6. CASE u \div Point < v \div Point
  BY <1>1, <1>2, <1>4, <1>6
<1> QED
  BY <1>1, <1>2, <1>3, <1>4, <1>5, <1>6

\* Whole points are not rounded away.
LEMMA RoundedKeepsPoints ==
    ASSUME NEW u \in Nat, NEW p \in Nat, Point * p <= u
    PROVE  p <= Rounded(u)
<1>1. ASSUME NEW c \in Nat \ {0}, c * p <= u
      PROVE  p <= u \div c
  <2>1. /\ u \div c \in Nat /\ u < (u \div c + 1) * c
    OBVIOUS
  <2>2. \A x \in Nat, y \in Nat : x < y => (x + 1) * c <= y * c
    OBVIOUS
  <2>3. (u \div c) < p => (u \div c + 1) * c <= p * c
    BY <2>1, <2>2
  <2>4. p * c = c * p /\ p * c \in Nat /\ (u \div c + 1) * c \in Nat
    BY <2>1
  <2> QED
    BY <1>1, <2>1, <2>3, <2>4
<1>2. p <= u \div Point /\ u \div Point \in Nat
  BY <1>1, PointSize, Parts
<1> QED
  BY <1>2 DEF Rounded

LEMMA RiskMonotone ==
    ASSUME NEW e \in Evidence, NEW f \in Evidence,
           e.total <= f.total, e.strong <= f.strong, e.floor <= f.floor
    PROVE  /\ RiskOf(e) \in 0..100
           /\ RiskOf(e) <= RiskOf(f)
<1> DEFINE U(x) == x.total + Point * (Bump(x.strong) + x.floor)
<1>1. /\ Bump(e.strong) \in 0..15 /\ Bump(f.strong) \in 0..15
      /\ Bump(e.strong) <= Bump(f.strong)
  BY BumpMonotone DEF Evidence
<1>2. U(e) \in Nat /\ U(f) \in Nat /\ U(e) <= U(f)
  BY <1>1 DEF Evidence, Point
<1>3. Rounded(U(e)) \in Nat /\ Rounded(U(f)) \in Nat /\ Rounded(U(e)) <= Rounded(U(f))
  BY <1>2, RoundedMonotone
<1> QED
  BY <1>3 DEF RiskOf, ClampInt

LEMMA FloorReached ==
    ASSUME NEW e \in Evidence, e.floor = 50
    PROVE  RiskOf(e) >= 50
<1> DEFINE U == e.total + Point * (Bump(e.strong) + e.floor)
<1>1. Bump(e.strong) \in 0..15
  BY BumpMonotone DEF Evidence
<1>2. U \in Nat /\ Point * 50 <= U
  BY <1>1 DEF Evidence, Point
<1>3. 50 <= Rounded(U) /\ Rounded(U) \in Nat
  BY <1>2, RoundedKeepsPoints, RoundedMonotone
<1> QED
  BY <1>3 DEF RiskOf, ClampInt

LEMMA LadderMonotone ==
    ASSUME NEW t \in Thresholds, NEW p \in Int, NEW q \in Int, p <= q
    PROVE  /\ ActionFor(p, t) \in Action
           /\ Rank(ActionFor(q, t)) >= Rank(ActionFor(p, t))
  BY DEF Thresholds, ActionFor, Rank, Action

LEMMA WeighGrows ==
    ASSUME NEW e \in Evidence, NEW s \in Signal
    PROVE  LET f == Weigh(e, s)
           IN  /\ f \in Evidence
               /\ e.total <= f.total /\ e.strong <= f.strong /\ e.floor <= f.floor
  BY ContributionNat DEF Weigh, Evidence

-------------------------------------------------------------------------------
(***************************************************************************)
(* Induction.  A property is passed as the set of the numbers that have    *)
(* it: a set without a least element is empty.                             *)
(***************************************************************************)
LEMMA InductiveSet ==
    ASSUME NEW P, 0 \in P, \A i \in Nat : i \in P => i + 1 \in P
    PROVE  Nat \subseteq P
<1> SUFFICES ASSUME Nat \ P # {} PROVE FALSE
  OBVIOUS
<1>1. PICK x \in Nat \ P : \A y \in Nat \ P : ~ (<<y, x>> \in OpToRel(<, Nat))
  BY WFMin, NatLessThanWellFounded
<1>2. \A y \in Nat \ P : ~ (y < x)
  BY <1>1 DEF OpToRel
<1>3. x # 0 /\ x - 1 \in Nat /\ x - 1 < x
  OBVIOUS
<1>4. x - 1 \in P
  BY <1>2, <1>3
<1> QED
  BY <1>3, <1>4

LEMMA InductionUpTo ==
    ASSUME NEW n \in Nat, NEW P, 0 \in P,
           \A i \in Nat : i < n /\ i \in P => i + 1 \in P
    PROVE  0..n \subseteq P
<1> DEFINE Q == {i \in Nat : i <= n => i \in P}
<1>1. 0 \in Q /\ \A i \in Nat : i \in Q => i + 1 \in Q
  OBVIOUS
<1> HIDE DEF Q
<1>2. Nat \subseteq Q
  BY <1>1, InductiveSet
<1> QED
  BY <1>2 DEF Q

\* A nonempty set of numbers has a least one.
LEMMA LeastNumber ==
    ASSUME NEW S \in SUBSET Nat, S # {}
    PROVE  \E x \in S : \A y \in S : x <= y
<1>1. PICK x \in S : \A y \in S : ~ (<<y, x>> \in OpToRel(<, Nat))
  BY WFMin, NatLessThanWellFounded
<1>2. \A y \in S : ~ (y < x)
  BY <1>1 DEF OpToRel
<1> QED
  BY <1>2

(***************************************************************************)
(* A recursion over 0..n whose step depends on the value before it has a   *)
(* solution.                                                               *)
(***************************************************************************)
Solves(f, m, S, base, step) ==
    /\ f \in [0..m -> S]
    /\ f[0] = base
    /\ \A i \in 1..m : f[i] = step[i][f[i-1]]

LEMMA RecursionSolved ==
    ASSUME NEW n \in Nat, NEW S, NEW base \in S, NEW step \in [1..n -> [S -> S]]
    PROVE  \E f : Solves(f, n, S, base, step)
<1> DEFINE P == {m \in Nat : \E f : Solves(f, m, S, base, step)}
<1>1. 0 \in P
  <2>1. Solves([i \in 0..0 |-> base], 0, S, base, step)
    BY DEF Solves
  <2> QED
    BY <2>1
<1>2. ASSUME NEW m \in Nat, m < n, m \in P
      PROVE  m + 1 \in P
  <2>1. PICK f : Solves(f, m, S, base, step)
    BY <1>2
  <2> DEFINE g == [i \in 0..(m+1) |-> IF i <= m THEN f[i] ELSE step[m+1][f[m]]]
  <2>2. step[m+1] \in [S -> S] /\ f[m] \in S
    BY <1>2, <2>1 DEF Solves
  <2>3. g \in [0..(m+1) -> S]
    BY <2>1, <2>2 DEF Solves
  <2>4. g[0] = base
    BY <2>1 DEF Solves
  <2>5. ASSUME NEW i \in 1..(m+1) PROVE g[i] = step[i][g[i-1]]
    BY <2>1, <2>5 DEF Solves
  <2>6. Solves(g, m + 1, S, base, step)
    BY <2>3, <2>4, <2>5 DEF Solves
  <2> QED
    BY <2>6
<1> HIDE DEF P
<1>3. 0..n \subseteq P
  BY <1>1, <1>2, InductionUpTo
<1>4. n \in P
  BY <1>3
<1> QED
  BY <1>4 DEF P

-------------------------------------------------------------------------------
(***************************************************************************)
(* The evidence of a list, one signal after the other.                     *)
(***************************************************************************)
Weighing(f, signals) ==
    /\ f \in [0..Len(signals) -> Evidence]
    /\ f[0] = NoEvidence
    /\ \A i \in 1..Len(signals) : f[i] = Weigh(f[i-1], signals[i])

LEMMA GatheredIsWeighed ==
    ASSUME NEW signals \in Seq(Signal)
    PROVE  \E f : Weighing(f, signals) /\ Gathered(signals) = f[Len(signals)]
<1> DEFINE n == Len(signals)
           Recursion(f) ==
               f = [i \in 0..n |-> IF i = 0 THEN NoEvidence
                                   ELSE Weigh(f[i-1], signals[i])]
           step == [i \in 1..n |-> [e \in Evidence |-> Weigh(e, signals[i])]]
<1>1. n \in Nat /\ \A i \in 1..n : signals[i] \in Signal
  OBVIOUS
<1>2. NoEvidence \in Evidence
  BY DEF NoEvidence, Evidence
<1>3. step \in [1..n -> [Evidence -> Evidence]]
  BY <1>1, WeighGrows
<1> HIDE DEF n, step
<1>4. PICK g : Solves(g, n, Evidence, NoEvidence, step)
  BY <1>1, <1>2, <1>3, RecursionSolved
<1>5. /\ g \in [0..n -> Evidence]
      /\ g[0] = NoEvidence
      /\ \A i \in 1..n : g[i] = Weigh(g[i-1], signals[i])
  <2>1. /\ g \in [0..n -> Evidence]
        /\ g[0] = NoEvidence
        /\ \A i \in 1..n : g[i] = step[i][g[i-1]]
    BY <1>4 DEF Solves
  <2>2. \A i \in 1..n, e \in Evidence : step[i][e] = Weigh(e, signals[i])
    BY DEF step
  <2>3. ASSUME NEW i \in 1..n PROVE g[i-1] \in Evidence
    BY <1>1, <2>1
  <2> QED
    BY <2>1, <2>2, <2>3
<1>6. Recursion(g)
  BY <1>1, <1>5
<1> DEFINE f == CHOOSE h : Recursion(h)
<1>7. Recursion(f)
  BY <1>6
<1>8. Gathered(signals) = f[n]
  BY DEF Gathered, n
<1> HIDE DEF f
<1>9. /\ f[0] = NoEvidence
      /\ \A i \in 1..n : f[i] = Weigh(f[i-1], signals[i])
  BY <1>1, <1>7
<1>10. \A i \in 0..n : f[i] \in Evidence
  <2> DEFINE P == {i \in Nat : i <= n => f[i] \in Evidence}
  <2>1. 0 \in P
    BY <1>2, <1>9
  <2>2. ASSUME NEW i \in Nat, i < n, i \in P PROVE i + 1 \in P
    <3>1. i + 1 \in 1..n /\ f[i] \in Evidence
      BY <1>1, <2>2
    <3>2. f[i+1] = Weigh(f[i], signals[i+1]) /\ signals[i+1] \in Signal
      BY <1>1, <1>9, <3>1
    <3> QED
      BY <3>1, <3>2, WeighGrows
  <2> HIDE DEF P
  <2>3. 0..n \subseteq P
    BY <1>1, <2>1, <2>2, InductionUpTo
  <2> QED
    BY <2>3 DEF P
<1>11. f \in [0..n -> Evidence]
  BY <1>7, <1>10
<1> QED
  BY <1>8, <1>9, <1>11 DEF Weighing, n

(***************************************************************************)
(* Two bodies of evidence together, and one that is at least another.      *)
(***************************************************************************)
Together(e, f) == [total  |-> e.total + f.total,
                   strong |-> e.strong + f.strong,
                   floor  |-> IF f.floor = 50 THEN 50 ELSE e.floor]

AtLeast(e, f) ==
    e.total >= f.total /\ e.strong >= f.strong /\ e.floor >= f.floor

LEMMA TogetherType ==
    ASSUME NEW e \in Evidence, NEW f \in Evidence
    PROVE  /\ Together(e, f) \in Evidence
           /\ AtLeast(Together(e, f), e)
           /\ AtLeast(Together(e, f), f)
  BY DEF Together, AtLeast, Evidence

LEMMA TogetherMonotone ==
    ASSUME NEW e \in Evidence, NEW f \in Evidence,
           NEW g \in Evidence, NEW h \in Evidence,
           AtLeast(e, g), AtLeast(f, h)
    PROVE  AtLeast(Together(e, f), Together(g, h))
  BY DEF Together, AtLeast, Evidence

LEMMA TogetherNothing ==
    ASSUME NEW e \in Evidence
    PROVE  Together(e, NoEvidence) = e
  BY DEF Together, NoEvidence, Evidence

LEMMA TogetherWeigh ==
    ASSUME NEW e \in Evidence, NEW f \in Evidence, NEW s \in Signal
    PROVE  Together(e, Weigh(f, s)) = Weigh(Together(e, f), s)
  BY ContributionNat DEF Together, Weigh, Evidence

LEMMA AtLeastTransitive ==
    ASSUME NEW e \in Evidence, NEW f \in Evidence, NEW g \in Evidence,
           AtLeast(e, f), AtLeast(f, g)
    PROVE  AtLeast(e, g)
  BY DEF AtLeast, Evidence

LEMMA GatheredType ==
    ASSUME NEW signals \in Seq(Signal)
    PROVE  Gathered(signals) \in Evidence
<1>1. PICK f : Weighing(f, signals) /\ Gathered(signals) = f[Len(signals)]
  BY GatheredIsWeighed
<1>2. Len(signals) \in 0..Len(signals)
  BY LenProperties
<1> QED
  BY <1>1, <1>2 DEF Weighing

LEMMA GatheredNothing == Gathered(<<>>) = NoEvidence
<1>1. <<>> \in Seq(Signal) /\ Len(<<>>) = 0
  OBVIOUS
<1> QED
  BY <1>1, GatheredIsWeighed DEF Weighing

LEMMA GatheredOne ==
    ASSUME NEW s \in Signal
    PROVE  Gathered(<<s>>) = Weigh(NoEvidence, s)
<1>1. <<s>> \in Seq(Signal) /\ Len(<<s>>) = 1 /\ <<s>>[1] = s
  OBVIOUS
<1>2. PICK f : Weighing(f, <<s>>) /\ Gathered(<<s>>) = f[1]
  BY <1>1, GatheredIsWeighed
<1>3. f[1] = Weigh(f[0], s) /\ f[0] = NoEvidence
  BY <1>1, <1>2 DEF Weighing
<1> QED
  BY <1>2, <1>3

(***************************************************************************)
(* The evidence of a concatenation is that of its parts together: it does  *)
(* not depend on which agent's signals come first, except in name.         *)
(***************************************************************************)
LEMMA GatheredConcat ==
    ASSUME NEW s \in Seq(Signal), NEW t \in Seq(Signal)
    PROVE  Gathered(s \o t) = Together(Gathered(s), Gathered(t))
<1> DEFINE m == Len(s)
           n == Len(t)
<1>1. /\ m \in Nat /\ n \in Nat
      /\ s \o t \in Seq(Signal) /\ Len(s \o t) = m + n
  BY LenProperties, ConcatProperties
<1>2. /\ \A i \in 1..m : (s \o t)[i] = s[i]
      /\ \A i \in 1..n : (s \o t)[m + i] = t[i] /\ t[i] \in Signal
  BY <1>1, ConcatProperties, LenProperties
<1>3. PICK f : Weighing(f, s \o t) /\ Gathered(s \o t) = f[m + n]
  BY <1>1, GatheredIsWeighed
<1>4. PICK g : Weighing(g, s) /\ Gathered(s) = g[m]
  BY GatheredIsWeighed
<1>5. PICK h : Weighing(h, t) /\ Gathered(t) = h[n]
  BY GatheredIsWeighed
<1> HIDE DEF m, n
<1>6. /\ f[0] = NoEvidence
      /\ \A i \in 1..(m + n) : f[i] = Weigh(f[i-1], (s \o t)[i])
  BY <1>1, <1>3 DEF Weighing
<1>7. /\ g \in [0..m -> Evidence] /\ g[0] = NoEvidence
      /\ \A i \in 1..m : g[i] = Weigh(g[i-1], s[i])
  BY <1>4 DEF Weighing, m
<1>8. /\ h \in [0..n -> Evidence] /\ h[0] = NoEvidence
      /\ \A i \in 1..n : h[i] = Weigh(h[i-1], t[i])
  BY <1>5 DEF Weighing, n
<1>9. f[m] = g[m]
  <2> DEFINE P == {i \in Nat : i <= m => f[i] = g[i]}
  <2>1. 0 \in P
    BY <1>6, <1>7
  <2>2. ASSUME NEW i \in Nat, i < m, i \in P PROVE i + 1 \in P
    <3>1. i + 1 \in 1..m /\ i + 1 \in 1..(m + n) /\ f[i] = g[i]
      BY <1>1, <2>2
    <3>2. (i + 1) - 1 = i
      BY <2>2
    <3>3. f[i+1] = Weigh(f[i], s[i+1]) /\ g[i+1] = Weigh(g[i], s[i+1])
      BY <1>2, <1>6, <1>7, <3>1, <3>2 DEF m
    <3> QED
      BY <3>1, <3>3
  <2> HIDE DEF P
  <2>3. 0..m \subseteq P
    BY <1>1, <2>1, <2>2, InductionUpTo
  <2>4. m \in P
    BY <1>1, <2>3
  <2> QED
    BY <1>1, <2>4 DEF P
<1>10. f[m + n] = Together(g[m], h[n])
  <2> DEFINE P == {i \in Nat : i <= n => f[m + i] = Together(g[m], h[i])}
  <2>1. g[m] \in Evidence
    BY <1>1, <1>7
  <2>2. 0 \in P
    BY <1>1, <1>8, <1>9, <2>1, TogetherNothing
  <2>3. ASSUME NEW i \in Nat, i < n, i \in P PROVE i + 1 \in P
    <3>1. /\ i + 1 \in 1..n /\ m + (i + 1) \in 1..(m + n)
          /\ m + (i + 1) - 1 = m + i
          /\ f[m + i] = Together(g[m], h[i])
      BY <1>1, <2>3
    <3>2. h[i] \in Evidence /\ t[i+1] \in Signal
      BY <1>1, <1>2, <1>8, <3>1
    <3>3. f[m + (i + 1)] = Weigh(f[m + i], t[i+1])
      <4>1. (s \o t)[m + (i + 1)] = t[i+1]
        BY <1>2, <3>1
      <4>2. PICK j \in 1..(m + n) : j = m + (i + 1)
        BY <3>1
      <4>3. j - 1 = m + i
        BY <1>1, <4>2
      <4>4. (s \o t)[j] = t[i+1]
        BY <4>1, <4>2, Zenon
      <4>5. f[j] = Weigh(f[j - 1], (s \o t)[j])
        BY <1>6, <4>2
      <4>6. f[j] = Weigh(f[m + i], t[i+1])
        BY <4>3, <4>4, <4>5, Zenon
      <4> QED
        BY <4>2, <4>6, Zenon
    <3>4. h[i+1] = Weigh(h[i], t[i+1])
      BY <1>8, <3>1
    <3> QED
      BY <2>1, <3>1, <3>2, <3>3, <3>4, TogetherWeigh
  <2> HIDE DEF P
  <2>4. 0..n \subseteq P
    BY <1>1, <2>2, <2>3, InductionUpTo
  <2>5. n \in P
    BY <1>1, <2>4
  <2> QED
    BY <1>1, <2>5 DEF P
<1> QED
  BY <1>3, <1>4, <1>5, <1>10 DEF m, n

(***************************************************************************)
(* A signal anywhere in a list counts: its weight is in the total, and its *)
(* threat's floor holds.                                                   *)
(***************************************************************************)
LEMMA SignalCounts ==
    ASSUME NEW signals \in Seq(Signal), NEW k \in 1..Len(signals)
    PROVE  /\ Gathered(signals).total >= Contribution(signals[k])
           /\ signals[k].threat \in Floored => Gathered(signals).floor = 50
<1> DEFINE n == Len(signals)
<1>1. /\ n \in Nat /\ k \in 1..n /\ n \in 0..n
      /\ \A i \in 1..n : signals[i] \in Signal
  BY LenProperties
<1>2. PICK f : Weighing(f, signals) /\ Gathered(signals) = f[n]
  BY GatheredIsWeighed
<1>3. /\ f \in [0..n -> Evidence]
      /\ \A i \in 1..n : f[i] = Weigh(f[i-1], signals[i])
  BY <1>2 DEF Weighing
<1> HIDE DEF n
<1> DEFINE Counted(e) == /\ e.total >= Contribution(signals[k])
                         /\ signals[k].threat \in Floored => e.floor = 50
           P == {i \in Nat : k <= i /\ i <= n => Counted(f[i])}
<1>4. Contribution(signals[k]) \in Nat
  BY <1>1, ContributionNat
<1>5. 0 \in P
  BY <1>1
<1>6. ASSUME NEW i \in Nat, i < n, i \in P PROVE i + 1 \in P
  <2>1. /\ i + 1 \in 1..n /\ f[i] \in Evidence
        /\ f[i+1] = Weigh(f[i], signals[i+1])
    BY <1>1, <1>3, <1>6
  <2>2. signals[i+1] \in Signal /\ Contribution(signals[i+1]) \in Nat
    BY <1>1, <2>1, ContributionNat
  <2>3. CASE i + 1 = k
    <3>1. Counted(f[i+1])
      BY <1>4, <2>1, <2>2, <2>3 DEF Weigh, Evidence
    <3> QED
      BY <3>1
  <2>4. CASE k <= i
    <3>1. Counted(f[i])
      BY <1>1, <1>6, <2>4
    <3>2. Counted(f[i+1])
      BY <1>4, <2>1, <2>2, <3>1 DEF Weigh, Evidence
    <3> QED
      BY <3>2
  <2>5. CASE i + 1 < k
    BY <1>1, <2>5
  <2> QED
    BY <1>1, <2>3, <2>4, <2>5
<1> HIDE DEF P
<1>7. 0..n \subseteq P
  BY <1>1, <1>5, <1>6, InductionUpTo
<1>8. n \in P
  BY <1>1, <1>7
<1>9. Counted(f[n])
  BY <1>1, <1>8 DEF P
<1> QED
  BY <1>2, <1>9

\* More evidence, at least the risk; and the risk is a percentage.
LEMMA RiskAtLeast ==
    ASSUME NEW e \in Evidence, NEW f \in Evidence, AtLeast(e, f)
    PROVE  /\ RiskOf(e) \in 0..100 /\ RiskOf(f) \in 0..100
           /\ RiskOf(e) >= RiskOf(f)
<1>1. f.total <= e.total /\ f.strong <= e.strong /\ f.floor <= e.floor
  BY DEF AtLeast, Evidence
<1>2. RiskOf(e) \in 0..100
  BY RiskMonotone DEF Evidence
<1>3. RiskOf(f) \in 0..100 /\ RiskOf(f) <= RiskOf(e)
  BY <1>1, RiskMonotone
<1> QED
  BY <1>2, <1>3

(***************************************************************************)
(* aggregate_risk of whole lists: a percentage, that does not depend on    *)
(* which of two agents' signals come first, and that no signals added      *)
(* before or after can lower.                                              *)
(***************************************************************************)
THEOREM RiskOfLists ==
    ASSUME NEW s \in Seq(Signal), NEW t \in Seq(Signal)
    PROVE  /\ AggregateRisk(s \o t) \in 0..100
           /\ AggregateRisk(s \o t) = AggregateRisk(t \o s)
           /\ AggregateRisk(s \o t) >= AggregateRisk(s)
<1> DEFINE e == Gathered(s)
           f == Gathered(t)
<1>1. e \in Evidence /\ f \in Evidence
  BY GatheredType
<1>2. Gathered(s \o t) = Together(e, f) /\ Gathered(t \o s) = Together(f, e)
  BY GatheredConcat
<1> HIDE DEF e, f
<1>3. Together(e, f) = Together(f, e)
  BY <1>1 DEF Together, Evidence
<1>4. Together(e, f) \in Evidence /\ AtLeast(Together(e, f), e)
  BY <1>1, TogetherType
<1>5. RiskOf(Together(e, f)) \in 0..100 /\ RiskOf(Together(e, f)) >= RiskOf(e)
  BY <1>1, <1>4, RiskAtLeast
<1> QED
  BY <1>2, <1>3, <1>5 DEF AggregateRisk, e

-------------------------------------------------------------------------------
(***************************************************************************)
(* The type invariant, with the risk between 0 and 100 whatever signals    *)
(* add up to.                                                              *)
(***************************************************************************)
THEOREM DecisionTypeCorrect == DecisionSpec => []DecisionTypeOK
<1>1. ASSUME NEW e \in Evidence PROVE RiskOf(e) \in 0..100
  BY RiskMonotone DEF Evidence
<1>2. DecisionInit => DecisionTypeOK
  <2>1. NoEvidence \in Evidence
    BY DEF NoEvidence, Evidence
  <2> QED
    BY <1>1, <2>1, CoordinatorAssumption DEF DecisionInit, DecisionTypeOK
<1>3. ASSUME DecisionTypeOK, [DecisionNext]_decisionVars PROVE DecisionTypeOK'
  <2>1. ASSUME NEW s \in AgentSignals, Take(s) PROVE DecisionTypeOK'
    <3>1. s \in Signal /\ Weigh(evidence, s) \in Evidence
      BY WeighGrows, CoordinatorAssumption, <1>3 DEF DecisionTypeOK
    <3>2. s.threat \in Threats
      BY <3>1 DEF Signal
    <3> QED
      BY <1>1, <1>3, <2>1, <3>1, <3>2, CoordinatorAssumption DEF DecisionTypeOK, Take
  <2>2. CASE ChooseAction
    <3>1. ActionFor(RiskOf(evidence), thresholds) \in Action
      BY LadderMonotone, <1>3 DEF DecisionTypeOK
    <3> QED
      BY <1>3, <2>2, <3>1 DEF DecisionTypeOK, ChooseAction
  <2>3. CASE Apply
    <3>1. ActionFor(RiskOf(evidence), thresholds) \in Action
      BY LadderMonotone, <1>3 DEF DecisionTypeOK
    <3> QED
      BY <1>3, <2>3, <3>1 DEF DecisionTypeOK, Apply, Enforced
  <2>4. CASE UNCHANGED decisionVars
    BY <1>3, <2>4 DEF DecisionTypeOK, decisionVars
  <2> QED
    BY <1>3, <2>1, <2>2, <2>3, <2>4 DEF DecisionNext
<1> QED
  BY <1>2, <1>3, PTL DEF DecisionSpec

(***************************************************************************)
(* No signal, wherever it comes in the list, weakens the action the risk   *)
(* calls for: for any thresholds, even unordered ones.                     *)
(***************************************************************************)
THEOREM MoreEvidenceIsStricter == DecisionSpec => EvidenceNeverWeakens
<1> DEFINE Stricter ==
        Rank(ActionFor(RiskOf(evidence'), thresholds'))
            >= Rank(ActionFor(RiskOf(evidence), thresholds))
<1>1. ASSUME DecisionTypeOK, [DecisionNext]_decisionVars PROVE Stricter
  <2>1. ASSUME NEW s \in AgentSignals, Take(s) PROVE Stricter
    <3>1. /\ s \in Signal
          /\ evidence \in Evidence /\ evidence' = Weigh(evidence, s)
          /\ thresholds' = thresholds /\ thresholds \in Thresholds
      BY <1>1, <2>1, CoordinatorAssumption DEF DecisionTypeOK, Take
    <3>2. /\ evidence' \in Evidence
          /\ evidence.total <= evidence'.total
          /\ evidence.strong <= evidence'.strong
          /\ evidence.floor <= evidence'.floor
      BY <3>1, WeighGrows
    <3>3. /\ RiskOf(evidence) \in Int /\ RiskOf(evidence') \in Int
          /\ RiskOf(evidence) <= RiskOf(evidence')
      BY <3>1, <3>2, RiskMonotone DEF Evidence
    <3> QED
      BY <3>1, <3>3, LadderMonotone
  <2>2. CASE ChooseAction \/ Apply \/ UNCHANGED decisionVars
    <3>1. evidence' = evidence /\ thresholds' = thresholds
      BY <2>2 DEF ChooseAction, Apply, decisionVars
    <3>2. RiskOf(evidence) \in Int /\ thresholds \in Thresholds
      BY <1>1 DEF DecisionTypeOK
    <3> QED
      BY <3>1, <3>2, LadderMonotone
  <2> QED
    BY <1>1, <2>1, <2>2 DEF DecisionNext
<1>2. [DecisionNext]_decisionVars /\ DecisionTypeOK => [Stricter]_decisionVars
  BY <1>1
<1> QED
  BY <1>2, DecisionTypeCorrect, PTL DEF DecisionSpec, EvidenceNeverWeakens

(***************************************************************************)
(* The floor holds for signal lists of any length.  The inductive part is  *)
(* that evidence.floor remembers every floored threat named so far, and    *)
(* that the decision is still the one the evidence calls for.              *)
(***************************************************************************)
THEOREM FloorHolds == DecisionSpec => []ThreatsNeverAllowed
<1> DEFINE IInv == /\ threats \intersect Floored # {} => evidence.floor = 50
                   /\ decision # "none" =>
                        decision = ActionFor(RiskOf(evidence), thresholds)
<1>1. DecisionInit => IInv
  BY DEF DecisionInit
<1>2. ASSUME DecisionTypeOK, IInv, [DecisionNext]_decisionVars PROVE IInv'
  <2>1. ASSUME NEW s \in AgentSignals, Take(s) PROVE IInv'
    <3>1. evidence'.floor = IF s.threat \in Floored THEN 50 ELSE evidence.floor
      BY <2>1 DEF Take, Weigh
    <3> QED
      BY <1>2, <2>1, <3>1 DEF Take
  <2>2. CASE ChooseAction
    BY <1>2, <2>2 DEF ChooseAction
  <2>3. CASE Apply
    BY <1>2, <2>3 DEF Apply
  <2>4. CASE UNCHANGED decisionVars
    BY <1>2, <2>4 DEF decisionVars
  <2> QED
    BY <1>2, <2>1, <2>2, <2>3, <2>4 DEF DecisionNext
<1>3. ASSUME DecisionTypeOK, IInv PROVE ThreatsNeverAllowed
  <2> SUFFICES ASSUME threats \intersect Floored # {}
               PROVE  /\ RiskOf(evidence) >= 50
                      /\ decision = "allow" => thresholds.allow >= 50
    BY DEF ThreatsNeverAllowed
  <2>1. RiskOf(evidence) >= 50
    BY <1>3, FloorReached DEF DecisionTypeOK
  <2>2. decision = "allow" => RiskOf(evidence) <= thresholds.allow
    BY <1>3 DEF ActionFor
  <2> QED
    BY <1>3, <2>1, <2>2 DEF DecisionTypeOK, Thresholds
<1> QED
  BY <1>1, <1>2, <1>3, DecisionTypeCorrect, PTL DEF DecisionSpec
===============================================================================
