--------------------------- MODULE CalendarProofs ---------------------------
(***************************************************************************)
(* Business hours on every calendar, and the deadlines of submissions on   *)
(* it.                                                                     *)
(*                                                                         *)
(* TimeBetween sums over days and Advance recurses, so both need induction *)
(* over data; it is done by hand, by least counterexamples (LeastOf).      *)
(* First that a recursion which ends has a solution (Recursion) and that a *)
(* fold over a finite set is a sum (FoldIsSum); then that working time is  *)
(* additive (TimeAdds), that the loop of addBusinessHours ends (AdvanceIs) *)
(* and that it adds what workingMinutesBetween counts (AddTimeMeets).  The *)
(* deadlines of submissions follow, from the invariants of OpdProofs and   *)
(* one more, Dated: a due date is that of the target and of some of the    *)
(* time of correction.                                                     *)
(***************************************************************************)
EXTENDS OpdCalendar, OpdProofs, WellFoundedInduction

-----------------------------------------------------------------------------
(* Recursion that ends.                                                     *)

\* A set of numbers has a least one.
LEMMA LeastOf ==
  ASSUME NEW S \in SUBSET Nat, S # {}
  PROVE  \E n \in S : \A m \in S : n <= m
<1> DEFINE R == {ss \in Nat \X Nat : ss[1] < ss[2]}
<1>1. IsWellFoundedOn(R, Nat)
  BY NatLessThanWellFounded DEF OpToRel
<1>2. \E n \in S : \A m \in S : ~ (<<m, n>> \in R)
  <2> HIDE DEF R
  <2> QED BY <1>1, WFMin
<1>3. PICK n \in S : \A m \in S : ~ (<<m, n>> \in R)
  BY <1>2
<1>4. ASSUME NEW m \in S PROVE n <= m
  <2>1. m \in Nat /\ n \in Nat /\ ~ (<<m, n>> \in R)
    BY <1>3
  <2>2. ~ (m < n)
    BY <2>1
  <2> QED BY <2>1, <2>2
<1> QED BY <1>4

\* A function next on S that cannot be followed for ever outside Stop.
Founded(S, Stop, next) ==
  \A T \in SUBSET S : T # {} => \E x \in T : x \in Stop \/ next[x] \notin T

(* f is what recursion along next computes, with out at its end and add at  *)
(* each step.                                                               *)
Solves(f, S, Stop, out, add, next) ==
  \A x \in S : f[x] = IF x \in Stop THEN out[x] ELSE add[x] + f[next[x]]

(* A recursion that ends has a solution: what a recursive definition chooses *)
(* exists.                                                                  *)
LEMMA Recursion ==
  ASSUME NEW S, NEW Stop \in SUBSET S, NEW out \in [S -> Int],
         NEW next \in [S -> S], NEW add \in [S -> Int], Founded(S, Stop, next)
  PROVE  \E f \in [S -> Int] : Solves(f, S, Stop, out, add, next)
<1> DEFINE Closed(R) ==
             /\ \A x \in Stop : <<x, out[x]>> \in R
             /\ \A x \in S \ Stop, v \in Int : <<next[x], v>> \in R => <<x, add[x] + v>> \in R
           G == {p \in S \X Int : \A R \in SUBSET (S \X Int) : Closed(R) => p \in R}
           Only(x, v) == <<x, v>> \in G /\ \A w \in Int : <<x, w>> \in G => w = v
           Bad == {x \in S : ~ \E v \in Int : Only(x, v)}
<1>1. Closed(G)
  <2>1. \A x \in Stop : <<x, out[x]>> \in G
    OBVIOUS
  <2>2. ASSUME NEW x \in S \ Stop, NEW v \in Int, <<next[x], v>> \in G
        PROVE  <<x, add[x] + v>> \in G
    BY <2>2
  <2> QED BY <2>1, <2>2
<1>2. \A R \in SUBSET (S \X Int) : Closed(R) => G \subseteq R
  OBVIOUS
<1>3. ASSUME NEW x \in S, NEW v \in Int, <<x, v>> \in G,
             x \in Stop => v = out[x],
             x \notin Stop => \A w \in Int : <<next[x], w>> \in G => add[x] + w = v
      PROVE  Only(x, v)
  <2> DEFINE H == {p \in G : p[1] = x => p[2] = v}
  <2>1. H \in SUBSET (S \X Int)
    OBVIOUS
  <2>2. Closed(H)
    <3>1. \A y \in Stop : <<y, out[y]>> \in H
      BY <1>1, <1>3
    <3>2. ASSUME NEW y \in S \ Stop, NEW w \in Int, <<next[y], w>> \in H
          PROVE  <<y, add[y] + w>> \in H
      <4>1. <<next[y], w>> \in G
        BY <3>2
      <4>2. <<y, add[y] + w>> \in G
        BY <1>1, <4>1
      <4>3. y = x => add[y] + w = v
        BY <1>3, <4>1
      <4> HIDE DEF G
      <4> QED BY <4>2, <4>3
    <3> QED BY <3>1, <3>2
  <2>3. G \subseteq H
    <3> HIDE DEF G, H, Closed
    <3> QED BY <2>1, <2>2, <1>2
  <2> HIDE DEF G
  <2> QED BY <2>3, <1>3
<1>4. Bad = {}
  <2> SUFFICES ASSUME Bad # {} PROVE FALSE
    OBVIOUS
  <2>1. PICK x \in Bad : x \in Stop \/ next[x] \notin Bad
    <3> Bad \in SUBSET S
      OBVIOUS
    <3> HIDE DEF Bad
    <3> QED BY DEF Founded
  <2> HIDE DEF G
  <2>2. CASE x \in Stop
    <3> <<x, out[x]>> \in G /\ out[x] \in Int
      BY <1>1, <2>2
    <3>1. Only(x, out[x])
      BY <1>3, <2>2
    <3> QED BY <3>1
  <2>3. CASE x \notin Stop
    <3>1. PICK v \in Int : Only(next[x], v)
      BY <2>1, <2>3
    <3>2. <<x, add[x] + v>> \in G /\ add[x] + v \in Int
      BY <1>1, <2>3, <3>1
    <3>3. Only(x, add[x] + v)
      BY <1>3, <2>3, <3>1, <3>2
    <3> QED BY <3>2, <3>3
  <2> QED BY <2>2, <2>3
<1> DEFINE pick(x) == CHOOSE v \in Int : Only(x, v)
           f == [x \in S |-> pick(x)]
<1> HIDE DEF G
<1>5. \A x \in S : pick(x) \in Int /\ Only(x, pick(x))
  <2> SUFFICES ASSUME NEW x \in S PROVE pick(x) \in Int /\ Only(x, pick(x))
    OBVIOUS
  <2> \E v \in Int : Only(x, v)
    BY <1>4
  <2> HIDE DEF Only
  <2> QED OBVIOUS
<1> HIDE DEF pick
<1>6. f \in [S -> Int] /\ \A x \in S : f[x] \in Int /\ Only(x, f[x])
  <2> HIDE DEF Only
  <2> QED BY <1>5
<1> HIDE DEF f
<1>7. ASSUME NEW x \in S
      PROVE  f[x] = IF x \in Stop THEN out[x] ELSE add[x] + f[next[x]]
  <2>1. CASE x \in Stop
    <3> out[x] \in Int /\ <<x, out[x]>> \in G
      BY <2>1, <1>1
    <3> QED BY <1>6, <2>1
  <2>2. CASE x \notin Stop
    <3>1. next[x] \in S /\ add[x] \in Int
      OBVIOUS
    <3>2. f[next[x]] \in Int /\ <<next[x], f[next[x]]>> \in G
      BY <1>6, <3>1
    <3>3. <<x, add[x] + f[next[x]]>> \in G /\ add[x] + f[next[x]] \in Int
      BY <1>1, <2>2, <3>1, <3>2
    <3> QED BY <1>6, <2>2, <3>3
  <2> QED BY <2>1, <2>2
<1> QED BY <1>6, <1>7 DEF Solves

-----------------------------------------------------------------------------
(* Sums over finite sets.                                                   *)

\* f sums w over the subsets of D.
IsSum(f, D, w) ==
  /\ f \in [SUBSET D -> Int]
  /\ f[{}] = 0
  /\ \A T \in SUBSET D : \A x \in T : f[T] = w[x] + f[T \ {x}]

\* A collection of subsets of a finite set has a smallest member.
LEMMA Smallest ==
  ASSUME NEW D, IsFiniteSet(D), NEW C \in SUBSET SUBSET D, C # {}
  PROVE  \E T \in C : \A x \in T : T \ {x} \notin C
<1> DEFINE N == {n \in Nat : \E T \in C : Cardinality(T) = n}
<1>1. \A T \in SUBSET D : IsFiniteSet(T) /\ Cardinality(T) \in Nat
  BY FS_Subset, FS_CardinalityType
<1>2. N # {}
  BY <1>1
<1>3. PICK n \in N : \A m \in N : n <= m
  <2> N \in SUBSET Nat
    OBVIOUS
  <2> HIDE DEF N
  <2> QED BY <1>2, LeastOf
<1>4. PICK T \in C : Cardinality(T) = n
  OBVIOUS
<1>5. ASSUME NEW x \in T PROVE T \ {x} \notin C
  <2>1. Cardinality(T \ {x}) = n - 1
    BY <1>1, <1>4, FS_RemoveElement
  <2>2. T \ {x} \in C => n - 1 \in N
    BY <1>1, <2>1
  <2> HIDE DEF N
  <2>3. n \in Nat
    BY <1>4, <1>1
  <2> QED BY <2>2, <2>3, <1>3
<1> QED BY <1>5

\* f is the fold over the subsets of D that adds w, an element at a time.
IsFold(f, D, w) ==
  f = [s \in SUBSET D |->
         IF s = {} THEN 0
         ELSE LET x == CHOOSE x \in s : TRUE IN w[x] + f[s \ {x}]]

\* The fold that MapThenSumSet is made of exists
LEMMA Fold ==
  ASSUME NEW D, IsFiniteSet(D), NEW w \in [D -> Int]
  PROVE  \E f \in [SUBSET D -> Int] : IsFold(f, D, w)
<1> DEFINE One(s) == CHOOSE x \in s : TRUE
           next == [s \in SUBSET D |-> s \ {One(s)}]
           add == [s \in SUBSET D |-> IF s = {} THEN 0 ELSE w[One(s)]]
           out == [s \in SUBSET D |-> 0]
<1>1. \A s \in SUBSET D : s # {} => One(s) \in s
  OBVIOUS
<1> HIDE DEF One
<1>2. /\ next \in [SUBSET D -> SUBSET D] /\ add \in [SUBSET D -> Int]
      /\ out \in [SUBSET D -> Int] /\ {{}} \in SUBSET SUBSET D
  BY <1>1
<1>3. Founded(SUBSET D, {{}}, next)
  <2> SUFFICES ASSUME NEW C \in SUBSET SUBSET D, C # {}
               PROVE  \E T \in C : T \in {{}} \/ next[T] \notin C
    BY DEF Founded
  <2>1. PICK T \in C : \A x \in T : T \ {x} \notin C
    BY Smallest
  <2> QED BY <2>1, <1>1
<1>4. \E f \in [SUBSET D -> Int] : Solves(f, SUBSET D, {{}}, out, add, next)
  <2> HIDE DEF next, add, out
  <2> QED BY <1>2, <1>3, Recursion
<1>5. ASSUME NEW f \in [SUBSET D -> Int],
             Solves(f, SUBSET D, {{}}, out, add, next)
      PROVE  f = [s \in SUBSET D |-> IF s = {} THEN 0 ELSE w[One(s)] + f[s \ {One(s)}]]
  <2>1. \A s \in SUBSET D : f[s] = IF s = {} THEN 0 ELSE w[One(s)] + f[s \ {One(s)}]
    BY <1>5 DEF Solves
  <2> QED BY <2>1
<1>6. \E f \in [SUBSET D -> Int] :
        f = [s \in SUBSET D |-> IF s = {} THEN 0 ELSE w[One(s)] + f[s \ {One(s)}]]
  BY <1>4, <1>5
<1> QED BY <1>6 DEF One, IsFold

\* and takes its summands in any order.
LEMMA FoldIsSum ==
  ASSUME NEW D, IsFiniteSet(D), NEW w \in [D -> Int], NEW f \in [SUBSET D -> Int],
         IsFold(f, D, w)
  PROVE  IsSum(f, D, w)
<1> DEFINE One(s) == CHOOSE x \in s : TRUE
           Bad == {T \in SUBSET D : \E x \in T : f[T] # w[x] + f[T \ {x}]}
<1>1. \A s \in SUBSET D : s # {} => One(s) \in s
  OBVIOUS
<1>2. \A s \in SUBSET D : s # {} => f[s] = w[One(s)] + f[s \ {One(s)}]
  BY DEF IsFold
<1>3. f[{}] = 0
  BY DEF IsFold
<1> HIDE DEF One
<1>4. Bad = {}
  <2> SUFFICES ASSUME Bad # {} PROVE FALSE
    OBVIOUS
  <2>1. PICK T \in Bad : \A x \in T : T \ {x} \notin Bad
    <3> Bad \in SUBSET SUBSET D
      OBVIOUS
    <3> HIDE DEF Bad
    <3> QED BY Smallest
  <2>2. PICK x \in T : f[T] # w[x] + f[T \ {x}]
    OBVIOUS
  <2> DEFINE y == One(T)
  <2>3. y \in T /\ f[T] = w[y] + f[T \ {y}] /\ x # y
    BY <1>1, <1>2, <2>2
  <2> HIDE DEF y
  <2>4. x \in T \ {y} /\ y \in T \ {x}
    BY <2>3
  <2>5. f[T \ {y}] = w[x] + f[(T \ {y}) \ {x}]
    BY <2>1, <2>3, <2>4
  <2>6. f[T \ {x}] = w[y] + f[(T \ {x}) \ {y}]
    BY <2>1, <2>3, <2>4
  <2>7. (T \ {x}) \ {y} = (T \ {y}) \ {x}
    OBVIOUS
  <2> DEFINE rest == f[(T \ {y}) \ {x}]
  <2>8. w[x] \in Int /\ w[y] \in Int /\ rest \in Int
    BY <2>3
  <2>9. f[T] = w[y] + (w[x] + rest) /\ f[T \ {x}] = w[y] + rest
    BY <2>3, <2>5, <2>6, <2>7
  <2> HIDE DEF Bad, rest
  <2> QED BY <2>2, <2>8, <2>9
<1> QED BY <1>3, <1>4 DEF IsSum

-----------------------------------------------------------------------------
(* Days, minutes and the time between two instants.                         *)

\* There is one fold.
LEMMA FoldUnique ==
  ASSUME NEW D, IsFiniteSet(D), NEW w, NEW f, NEW g,
         IsFold(f, D, w), IsFold(g, D, w)
  PROVE  f = g
<1> DEFINE One(s) == CHOOSE x \in s : TRUE
           Bad == {T \in SUBSET D : f[T] # g[T]}
<1>1. \A s \in SUBSET D : s # {} => One(s) \in s
  OBVIOUS
<1>2. \A s \in SUBSET D : /\ s # {} => f[s] = w[One(s)] + f[s \ {One(s)}]
                          /\ s # {} => g[s] = w[One(s)] + g[s \ {One(s)}]
                          /\ s = {} => f[s] = 0 /\ g[s] = 0
  BY DEF IsFold
<1> HIDE DEF One
<1>3. Bad = {}
  <2> SUFFICES ASSUME Bad # {} PROVE FALSE
    OBVIOUS
  <2>1. PICK T \in Bad : \A x \in T : T \ {x} \notin Bad
    <3> Bad \in SUBSET SUBSET D
      OBVIOUS
    <3> HIDE DEF Bad
    <3> QED BY Smallest
  <2>2. T # {} /\ One(T) \in T
    BY <1>1, <1>2
  <2>3. f[T \ {One(T)}] = g[T \ {One(T)}]
    BY <2>1, <2>2
  <2> QED BY <1>2, <2>2, <2>3
<1>4. \A T \in SUBSET D : f[T] = g[T]
  BY <1>3
<1> QED BY <1>4 DEF IsFold

\* Max and Min of two.
LEMMA Larger ==
  ASSUME NEW a \in Int, NEW b \in Int
  PROVE  /\ Max({a, b}) = IF a >= b THEN a ELSE b
         /\ Min({a, b}) = IF a <= b THEN a ELSE b
<1>1. \E x \in {a, b} : \A y \in {a, b} : x >= y
  BY SMT
<1>2. Max({a, b}) \in {a, b} /\ \A y \in {a, b} : Max({a, b}) >= y
  BY <1>1 DEF Max
<1>3. \E x \in {a, b} : \A y \in {a, b} : x <= y
  BY SMT
<1>4. Min({a, b}) \in {a, b} /\ \A y \in {a, b} : Min({a, b}) <= y
  BY <1>3 DEF Min
<1> QED BY <1>2, <1>4

\* Overlap of two stretches of time, case by case.
LEMMA OverlapIs ==
  ASSUME NEW a \in Int, NEW b \in Int, NEW c \in Int, NEW d \in Int
  PROVE  /\ Overlap(a, b, c, d) \in Nat
         /\ b <= a \/ b <= c \/ d <= a \/ d <= c => Overlap(a, b, c, d) = 0
         /\ a <= c /\ c <= b /\ b <= d => Overlap(a, b, c, d) = b - c
         /\ a <= c /\ c <= d /\ d <= b => Overlap(a, b, c, d) = d - c
         /\ c <= a /\ a <= b /\ b <= d => Overlap(a, b, c, d) = b - a
         /\ c <= a /\ a <= d /\ d <= b => Overlap(a, b, c, d) = d - a
<1> DEFINE from == IF a >= c THEN a ELSE c
           to == IF b <= d THEN b ELSE d
<1>1. from \in Int /\ to \in Int /\ Max({a, c}) = from /\ Min({b, d}) = to
  BY Larger
<1>2. Overlap(a, b, c, d) = Max({0, to - from})
  BY <1>1 DEF Overlap
<1> HIDE DEF from, to
<1>3. Max({0, to - from}) = IF 0 >= to - from THEN 0 ELSE to - from
  BY <1>1, Larger
<1>4. Overlap(a, b, c, d) = IF 0 >= to - from THEN 0 ELSE to - from
  BY <1>2, <1>3
<1> QED BY <1>1, <1>4 DEF from, to

\* Instants by day and minute.
LEMMA AtIs ==
  ASSUME NEW d \in Int, NEW m \in Int
  PROVE  /\ At(d, m) \in Int
         /\ At(d, m) = At(d, 0) + 2 * m
         /\ At(d + 1, m) = At(d, m) + 2 * DayLength
         /\ At(0, 0) = 0
         /\ d >= 0 => At(d, 0) >= 0
BY CalendarAssumption DEF At

\* Days follow one another.
LEMMA DaysInOrder ==
  ASSUME NEW d \in Int, NEW e \in Int, d < e
  PROVE  At(d + 1, 0) <= At(e, 0)
BY CalendarAssumption DEF At

\* Quotient and remainder.
LEMMA Division ==
  ASSUME NEW a \in Nat, NEW b \in Nat, b > 0
  PROVE  /\ a \div b \in Nat /\ a % b \in Nat
         /\ b * (a \div b) <= a /\ a < b * (a \div b) + b
         /\ a % b = a - b * (a \div b)
<1>1. a \div b \in Nat
  OBVIOUS
<1>2. a % b \in 0 .. (b - 1)
  OBVIOUS
<1>3. a = b * (a \div b) + (a % b)
  OBVIOUS
<1> DEFINE p == b * (a \div b)
           r == a % b
<1>4. p \in Int /\ r \in 0 .. (b - 1) /\ a = p + r
  BY <1>1, <1>2, <1>3
<1>5. p <= a /\ a < p + b /\ r = a - p /\ r \in Nat
  <2> HIDE DEF p, r
  <2> QED BY <1>4
<1> QED BY <1>1, <1>5

\* An instant lies in its day, and in no other.
LEMMA DayIs ==
  ASSUME NEW t \in Nat
  PROVE  /\ DayOf(t) \in Nat
         /\ At(DayOf(t), 0) <= t /\ t < At(DayOf(t) + 1, 0)
         /\ \A d \in Nat : At(d, 0) <= t /\ t < At(d + 1, 0) => d = DayOf(t)
         /\ MinuteOf(t) = (t - At(DayOf(t), 0)) \div 2
<1>1. At(1, 0) = 2 * DayLength /\ At(1, 0) \in Nat /\ At(1, 0) > 0
  BY CalendarAssumption DEF At
<1>2. PICK L \in Nat : L = At(1, 0) /\ L = 2 * DayLength /\ L > 0
  BY <1>1
<1>3. PICK q \in Nat : /\ q = t \div L
                       /\ L * q <= t /\ t < L * q + L /\ t % L = t - L * q
  BY <1>2, Division
<1>4. At(q, 0) = L * q /\ At(q + 1, 0) = L * q + L
  BY <1>2, CalendarAssumption DEF At
<1>5. At(q, 0) <= t /\ t < At(q + 1, 0) /\ MinuteOf(t) = (t - At(q, 0)) \div 2
  BY <1>2, <1>3, <1>4 DEF MinuteOf
<1>6. ASSUME NEW d \in Nat, At(d, 0) <= t, t < At(d + 1, 0) PROVE d = q
  <2>0. q \in Int /\ At(d, 0) \in Int /\ At(q, 0) \in Int /\ At(d + 1, 0) \in Int /\ At(q + 1, 0) \in Int
    BY AtIs
  <2>1. ~ (d < q)
    BY <2>0, <1>5, <1>6, DaysInOrder
  <2>2. ~ (q < d)
    BY <2>0, <1>5, <1>6, DaysInOrder
  <2> QED BY <2>1, <2>2
<1>7. q = DayOf(t)
  BY <1>2, <1>3 DEF DayOf
<1> QED BY <1>5, <1>6, <1>7

\* The days TimeBetween counts, and what each has.
Days(s, e) == {d \in DayOf(s) .. DayOf(e) : IsWorkingDay(d)}
Part(s, e) == [d \in Days(s, e) |-> Worked(s, e, d)]

\* Type of Worked.
LEMMA WorkedType ==
  ASSUME NEW s \in Int, NEW e \in Int, NEW d \in Int
  PROVE  Worked(s, e, d) \in Int
<1>1. {WorkStart, BreakStart, BreakEnd, WorkEnd} \subseteq Int
  BY CalendarAssumption
<1>2. /\ At(d, WorkStart) \in Int /\ At(d, WorkEnd) \in Int
      /\ At(d, BreakStart) \in Int /\ At(d, BreakEnd) \in Int
  BY <1>1, AtIs
<1>3. \A a, b \in Int : Overlap(s, e, a, b) \in Int
  BY OverlapIs
<1>4. /\ Overlap(s, e, At(d, WorkStart), At(d, WorkEnd)) \in Int
      /\ Overlap(s, e, At(d, BreakStart), At(d, BreakEnd)) \in Int
  BY <1>2, <1>3
<1> QED BY <1>4 DEF Worked

\* TimeBetween is the sum over the days it counts.
LEMMA Counted ==
  ASSUME NEW s \in Nat, NEW e \in Nat, s < e
  PROVE  \E f : IsSum(f, Days(s, e), Part(s, e)) /\ TimeBetween(s, e) = f[Days(s, e)]
<1> DEFINE D == Days(s, e)
           w == Part(s, e)
           P(f) == f = [T \in SUBSET D |->
                          IF T = {} THEN 0
                          ELSE LET x == CHOOSE x \in T : TRUE
                               IN Worked(s, e, x) + f[T \ {x}]]
<1>1. IsFiniteSet(D) /\ D \in SUBSET Int
  <2> DayOf(s) \in Int /\ DayOf(e) \in Int
    BY DayIs
  <2>1. IsFiniteSet(DayOf(s) .. DayOf(e))
    BY FS_Interval
  <2> QED BY <2>1, FS_Subset DEF Days
<1>2. w \in [D -> Int] /\ \A d \in D : w[d] = Worked(s, e, d)
  BY <1>1, WorkedType DEF Part
<1>3. PICK g \in [SUBSET D -> Int] : IsFold(g, D, w)
  <2> w \in [D -> Int]
    BY <1>2
  <2> HIDE DEF D, w
  <2> QED BY <1>1, Fold
<1>4. P(g)
  BY <1>2, <1>3 DEF IsFold
<1>5. TimeBetween(s, e) = (CHOOSE f : P(f))[D]
  BY DEF TimeBetween, MapThenSumSet, MapThenFoldSet, Days
<1>6. P(CHOOSE f : P(f))
  <2> HIDE DEF P
  <2> QED BY <1>4
<1>7. PICK f : P(f) /\ TimeBetween(s, e) = f[D]
  <2> HIDE DEF P
  <2> QED BY <1>5, <1>6
<1>8. f = g
  <2>1. IsFold(f, D, w)
    BY <1>2, <1>7 DEF IsFold
  <2> w \in [D -> Int]
    BY <1>2
  <2> HIDE DEF D, w
  <2> QED BY <1>1, <1>3, <2>1, FoldUnique
<1>9. IsSum(g, D, w)
  <2> w \in [D -> Int]
    BY <1>2
  <2> HIDE DEF D, w
  <2> QED BY <1>1, <1>3, FoldIsSum
<1> QED BY <1>7, <1>8, <1>9

-----------------------------------------------------------------------------
(* Sums, put together.                                                      *)

\* Sums over a set, cut to a subset.
LEMMA SumWithin ==
  ASSUME NEW D, NEW A \in SUBSET D, NEW w \in [A -> Int], NEW f, IsSum(f, A, w)
  PROVE  \A T \in SUBSET D : \A x \in T :
           f[T \cap A] = (IF x \in A THEN w[x] ELSE 0) + f[(T \ {x}) \cap A]
<1> SUFFICES ASSUME NEW T \in SUBSET D, NEW x \in T
             PROVE  f[T \cap A] = (IF x \in A THEN w[x] ELSE 0) + f[(T \ {x}) \cap A]
  OBVIOUS
<1>1. T \cap A \in SUBSET A
  OBVIOUS
<1>2. CASE x \in A
  <2>1. x \in T \cap A /\ (T \cap A) \ {x} = (T \ {x}) \cap A
    BY <1>2
  <2>2. f[T \cap A] = w[x] + f[(T \cap A) \ {x}]
    BY <1>1, <2>1 DEF IsSum
  <2> QED BY <1>2, <2>1, <2>2
<1>3. CASE x \notin A
  <2>1. T \cap A = (T \ {x}) \cap A
    BY <1>3
  <2>2. f[(T \ {x}) \cap A] \in Int
    BY <1>1, <2>1 DEF IsSum
  <2>3. f[T \cap A] = f[(T \ {x}) \cap A]
    BY <2>1, Zenon
  <2> DEFINE rest == f[(T \ {x}) \cap A]
  <2> HIDE DEF rest
  <2>4. f[T \cap A] = rest /\ rest \in Int
    BY <2>2, <2>3 DEF rest
  <2> QED BY <1>3, <2>4 DEF rest
<1> QED BY <1>2, <1>3

\* A sum of sums is the sum of both.
LEMMA SumsAdd ==
  ASSUME NEW D, IsFiniteSet(D), NEW A \in SUBSET D, NEW B \in SUBSET D,
         NEW v \in [D -> Int], NEW wa \in [A -> Int], NEW wb \in [B -> Int],
         NEW h, IsSum(h, D, v), NEW f, IsSum(f, A, wa), NEW g, IsSum(g, B, wb),
         \A d \in D : v[d] = (IF d \in A THEN wa[d] ELSE 0) + (IF d \in B THEN wb[d] ELSE 0)
  PROVE  h[D] = f[A] + g[B]
<1> DEFINE Bad == {T \in SUBSET D : h[T] # f[T \cap A] + g[T \cap B]}
<1>1. /\ h[{}] = 0 /\ f[{}] = 0 /\ g[{}] = 0
      /\ \A T \in SUBSET D : h[T] \in Int /\ f[T \cap A] \in Int /\ g[T \cap B] \in Int
  BY DEF IsSum
<1>4. \A T \in SUBSET D : \A x \in T :
        f[T \cap A] = (IF x \in A THEN wa[x] ELSE 0) + f[(T \ {x}) \cap A]
  BY SumWithin
<1>5. \A T \in SUBSET D : \A x \in T :
        g[T \cap B] = (IF x \in B THEN wb[x] ELSE 0) + g[(T \ {x}) \cap B]
  BY SumWithin
<1>2. Bad = {}
  <2> SUFFICES ASSUME Bad # {} PROVE FALSE
    OBVIOUS
  <2>1. PICK T \in Bad : \A x \in T : T \ {x} \notin Bad
    <3> Bad \in SUBSET SUBSET D
      OBVIOUS
    <3> HIDE DEF Bad
    <3> QED BY Smallest
  <2>2. CASE T = {}
    <3>1. T \cap A = {} /\ T \cap B = {}
      BY <2>2
    <3> QED BY <3>1, <1>1, <2>2
  <2>3. CASE T # {}
    <3>1. PICK x \in T : TRUE
      BY <2>3
    <3> DEFINE U == T \ {x}
    <3>2. h[U] = f[U \cap A] + g[U \cap B]
      BY <2>1
    <3>3. h[T] = v[x] + h[U]
      BY DEF IsSum
    <3>0. T \in SUBSET D /\ x \in T
      OBVIOUS
    <3>4. f[T \cap A] = (IF x \in A THEN wa[x] ELSE 0) + f[U \cap A]
      <4> HIDE DEF Bad
      <4> QED BY <3>0, <1>4, <1>5
    <3>5. g[T \cap B] = (IF x \in B THEN wb[x] ELSE 0) + g[U \cap B]
      <4> HIDE DEF Bad
      <4> QED BY <3>0, <1>4, <1>5
    <3> DEFINE a == IF x \in A THEN wa[x] ELSE 0
               b == IF x \in B THEN wb[x] ELSE 0
    <3>6. a \in Int /\ b \in Int /\ v[x] = a + b
      OBVIOUS
    <3>7. f[U \cap A] \in Int /\ g[U \cap B] \in Int
      BY <1>1
    <3>8. h[T] = f[T \cap A] + g[T \cap B]
      <4>1. f[T \cap A] = a + f[U \cap A] /\ g[T \cap B] = b + g[U \cap B]
        BY <3>4, <3>5
      <4> HIDE DEF a, b, U
      <4> QED BY <3>2, <3>3, <3>6, <3>7, <4>1
    <3> QED BY <3>8
  <2> QED BY <2>2, <2>3
<1>3. D \cap A = A /\ D \cap B = B
  OBVIOUS
<1> QED BY <1>2, <1>3

\* Sums of natural numbers are natural.
LEMMA SumIsNat ==
  ASSUME NEW D, IsFiniteSet(D), NEW v \in [D -> Nat], NEW h, IsSum(h, D, v)
  PROVE  h[D] \in Nat
<1> DEFINE Bad == {T \in SUBSET D : h[T] \notin Nat}
<1>1. Bad = {}
  <2> SUFFICES ASSUME Bad # {} PROVE FALSE
    OBVIOUS
  <2>1. PICK T \in Bad : \A x \in T : T \ {x} \notin Bad
    <3> Bad \in SUBSET SUBSET D
      OBVIOUS
    <3> HIDE DEF Bad
    <3> QED BY Smallest
  <2>2. T # {}
    <3>1. h[{}] = 0 /\ h[T] \notin Nat
      BY DEF IsSum
    <3> QED BY <3>1
  <2>3. PICK x \in T : TRUE
    BY <2>2
  <2>4. h[T] = v[x] + h[T \ {x}] /\ v[x] \in Nat /\ h[T \ {x}] \in Nat
    BY <2>1 DEF IsSum
  <2> QED BY <2>4
<1> QED BY <1>1

\* A sum of zeros is zero.
LEMMA SumOfZeros ==
  ASSUME NEW D, IsFiniteSet(D), NEW v \in [D -> Int], NEW h, IsSum(h, D, v),
         \A d \in D : v[d] = 0
  PROVE  h[D] = 0
<1>1. h[D] = h[D] + h[D]
  BY SumsAdd
<1>2. PICK n \in Int : n = h[D]
  BY DEF IsSum
<1>3. n = n + n
  BY <1>1, <1>2
<1>4. n = 0
  BY <1>3
<1> QED BY <1>2, <1>4

\* The days counted, and what each adds.
LEMMA DaysAre ==
  ASSUME NEW s \in Nat, NEW e \in Nat
  PROVE  /\ IsFiniteSet(Days(s, e)) /\ Days(s, e) \subseteq Nat
         /\ Part(s, e) \in [Days(s, e) -> Int]
         /\ \A d \in Days(s, e) : Part(s, e)[d] = Worked(s, e, d)
<1>1. DayOf(s) \in Nat /\ DayOf(e) \in Nat
  BY DayIs
<1>2. IsFiniteSet(DayOf(s) .. DayOf(e))
  BY <1>1, FS_Interval
<1>3. IsFiniteSet(Days(s, e)) /\ Days(s, e) \subseteq Nat
  BY <1>1, <1>2, FS_Subset DEF Days
<1>4. \A d \in Days(s, e) : Worked(s, e, d) \in Int
  BY <1>3, WorkedType
<1> QED BY <1>3, <1>4 DEF Part

\* Later instants have later days.
LEMMA LaterDay ==
  ASSUME NEW s \in Nat, NEW e \in Nat, s <= e
  PROVE  DayOf(s) <= DayOf(e)
<1>1. /\ DayOf(s) \in Nat /\ At(DayOf(s), 0) <= s
      /\ DayOf(e) \in Nat /\ e < At(DayOf(e) + 1, 0)
  BY DayIs
<1>2. At(DayOf(e) + 1, 0) \in Int /\ At(DayOf(s), 0) \in Int
  BY <1>1, AtIs
<1>3. ~ (DayOf(e) < DayOf(s))
  BY <1>1, <1>2, DaysInOrder
<1> QED BY <1>1, <1>3

-----------------------------------------------------------------------------
(* Working time is additive.                                                *)

\* Overlap is additive.
LEMMA OverlapsAdd ==
  ASSUME NEW s \in Int, NEW m \in Int, NEW e \in Int, NEW c \in Int, NEW d \in Int,
         s <= m, m <= e, c <= d
  PROVE  Overlap(s, e, c, d) = Overlap(s, m, c, d) + Overlap(m, e, c, d)
<1> DEFINE whole == Overlap(s, e, c, d)
           left == Overlap(s, m, c, d)
           right == Overlap(m, e, c, d)
<1>1. /\ s <= c /\ c <= e /\ e <= d => whole = e - c
      /\ s <= c /\ d <= e => whole = d - c
      /\ c <= s /\ e <= d => whole = e - s
      /\ c <= s /\ s <= d /\ d <= e => whole = d - s
      /\ e <= c \/ d <= s => whole = 0
  BY OverlapIs
<1>2. /\ s <= c /\ c <= m /\ m <= d => left = m - c
      /\ s <= c /\ d <= m => left = d - c
      /\ c <= s /\ m <= d => left = m - s
      /\ c <= s /\ s <= d /\ d <= m => left = d - s
      /\ m <= c \/ d <= s => left = 0
  BY OverlapIs
<1>3. /\ m <= c /\ c <= e /\ e <= d => right = e - c
      /\ m <= c /\ d <= e => right = d - c
      /\ c <= m /\ e <= d => right = e - m
      /\ c <= m /\ m <= d /\ d <= e => right = d - m
      /\ e <= c \/ d <= m => right = 0
  BY OverlapIs
<1>4. whole \in Nat /\ left \in Nat /\ right \in Nat
  BY OverlapIs
<1> HIDE DEF whole, left, right
<1>5. whole = left + right
  BY <1>1, <1>2, <1>3, <1>4
<1> QED BY <1>5 DEF whole, left, right

\* The marks of a day in their order.
LEMMA WorkHours ==
  ASSUME NEW d \in Nat
  PROVE  /\ At(d, 0) \in Nat /\ At(d + 1, 0) \in Nat
         /\ At(d, WorkStart) \in Nat /\ At(d, WorkEnd) \in Nat
         /\ At(d, BreakStart) \in Nat /\ At(d, BreakEnd) \in Nat
         /\ At(d, 0) <= At(d, WorkStart) /\ At(d, WorkStart) < At(d, BreakStart)
         /\ At(d, BreakStart) <= At(d, BreakEnd) /\ At(d, BreakEnd) <= At(d, WorkEnd)
         /\ At(d, WorkEnd) < At(d + 1, 0)
<1>1. /\ WorkStart \in Nat /\ BreakStart \in Nat /\ BreakEnd \in Nat /\ WorkEnd \in Nat
      /\ DayLength \in Nat
  BY CalendarAssumption
<1>2. /\ At(d, 0) \in Int /\ At(d, 0) >= 0 /\ At(d + 1, 0) = At(d, 0) + 2 * DayLength
      /\ At(d, WorkStart) = At(d, 0) + 2 * WorkStart
      /\ At(d, BreakStart) = At(d, 0) + 2 * BreakStart
      /\ At(d, BreakEnd) = At(d, 0) + 2 * BreakEnd
      /\ At(d, WorkEnd) = At(d, 0) + 2 * WorkEnd
  BY <1>1, AtIs
<1> QED BY <1>1, <1>2, CalendarAssumption

(* What a day has of a stretch of time: it is additive, and known within    *)
(* each part of the day.                                                    *)
LEMMA WorkedIs ==
  ASSUME NEW s \in Int, NEW m \in Int, NEW e \in Int, s <= m, m <= e, NEW d \in Nat
  PROVE  /\ Worked(s, e, d) \in Nat
         /\ Worked(s, e, d) = Worked(s, m, d) + Worked(m, e, d)
         /\ e <= At(d, WorkStart) => Worked(s, e, d) = 0
         /\ At(d, WorkEnd) <= s => Worked(s, e, d) = 0
         /\ At(d, BreakStart) <= s /\ e <= At(d, BreakEnd) => Worked(s, e, d) = 0
         /\ At(d, WorkStart) <= s /\ e <= At(d, BreakStart) => Worked(s, e, d) = e - s
         /\ At(d, BreakEnd) <= s /\ e <= At(d, WorkEnd) => Worked(s, e, d) = e - s
<1> DEFINE a == At(d, WorkStart)
           b == At(d, BreakStart)
           c == At(d, BreakEnd)
           z == At(d, WorkEnd)
<1>1. /\ a \in Int /\ b \in Int /\ c \in Int /\ z \in Int
      /\ a < b /\ b <= c /\ c <= z
  BY WorkHours
<1>2. Worked(s, e, d) = Overlap(s, e, a, z) - Overlap(s, e, b, c)
  BY DEF Worked
<1>3. Worked(s, m, d) = Overlap(s, m, a, z) - Overlap(s, m, b, c)
  BY DEF Worked
<1>4. Worked(m, e, d) = Overlap(m, e, a, z) - Overlap(m, e, b, c)
  BY DEF Worked
<1> HIDE DEF a, b, c, z
<1>5. /\ Overlap(s, e, a, z) = Overlap(s, m, a, z) + Overlap(m, e, a, z)
      /\ Overlap(s, e, b, c) = Overlap(s, m, b, c) + Overlap(m, e, b, c)
  BY <1>1, OverlapsAdd
<1>6. /\ Overlap(s, m, a, z) \in Int /\ Overlap(m, e, a, z) \in Int
      /\ Overlap(s, m, b, c) \in Int /\ Overlap(m, e, b, c) \in Int
  BY <1>1, OverlapIs
<1>7. Worked(s, e, d) = Worked(s, m, d) + Worked(m, e, d)
  BY <1>2, <1>3, <1>4, <1>5, <1>6
<1> DEFINE hours == Overlap(s, e, a, z)
           pause == Overlap(s, e, b, c)
<1>8. /\ hours \in Nat
      /\ e <= a \/ z <= s => hours = 0
      /\ s <= a /\ a <= e /\ e <= z => hours = e - a
      /\ s <= a /\ z <= e => hours = z - a
      /\ a <= s /\ e <= z => hours = e - s
      /\ a <= s /\ s <= z /\ z <= e => hours = z - s
  BY <1>1, OverlapIs
<1>9. /\ pause \in Nat
      /\ e <= b \/ c <= s => pause = 0
      /\ s <= b /\ b <= e /\ e <= c => pause = e - b
      /\ s <= b /\ c <= e => pause = c - b
      /\ b <= s /\ e <= c => pause = e - s
      /\ b <= s /\ s <= c /\ c <= e => pause = c - s
  BY <1>1, OverlapIs
<1>10. Worked(s, e, d) = hours - pause
  BY <1>2
<1> HIDE DEF hours, pause
<1>11. /\ Worked(s, e, d) \in Nat
       /\ e <= a => Worked(s, e, d) = 0
       /\ z <= s => Worked(s, e, d) = 0
       /\ b <= s /\ e <= c => Worked(s, e, d) = 0
       /\ a <= s /\ e <= b => Worked(s, e, d) = e - s
       /\ c <= s /\ e <= z => Worked(s, e, d) = e - s
  BY <1>1, <1>8, <1>9, <1>10
<1> QED BY <1>7, <1>11 DEF a, b, c, z

\* Days before and after a stretch have nothing of it.
LEMMA NoWork ==
  ASSUME NEW s \in Nat, NEW e \in Nat, s <= e, NEW d \in Nat,
         d < DayOf(s) \/ DayOf(e) < d
  PROVE  Worked(s, e, d) = 0
<1>1. DayOf(s) \in Nat /\ At(DayOf(s), 0) <= s /\ DayOf(e) \in Nat /\ e < At(DayOf(e) + 1, 0)
  BY DayIs
<1>2. /\ At(DayOf(s), 0) \in Nat /\ At(d + 1, 0) \in Nat /\ At(d, WorkEnd) \in Nat
      /\ At(d, WorkEnd) < At(d + 1, 0)
      /\ At(DayOf(e) + 1, 0) \in Nat /\ At(d, 0) \in Nat /\ At(d, WorkStart) \in Nat
      /\ At(d, 0) <= At(d, WorkStart)
  BY <1>1, WorkHours
<1>3. CASE d < DayOf(s)
  <2>1. At(d + 1, 0) <= At(DayOf(s), 0)
    BY <1>1, <1>3, DaysInOrder
  <2>2. At(d, WorkEnd) <= s
    BY <1>1, <1>2, <2>1
  <2> QED BY <2>2, WorkedIs
<1>4. CASE DayOf(e) < d
  <2>1. At(DayOf(e) + 1, 0) <= At(d, 0)
    BY <1>1, <1>4, DaysInOrder
  <2>2. e <= At(d, WorkStart)
    BY <1>1, <1>2, <2>1
  <2> QED BY <2>2, WorkedIs
<1> QED BY <1>3, <1>4

(* Working time is additive: from s to e passes what passes from s to m and *)
(* from m to e, on every calendar, over nights, breaks and holidays         *)
(* (workingMinutesBetween).                                                 *)
THEOREM TimeAdds ==
  ASSUME NEW s \in Nat, NEW m \in Nat, NEW e \in Nat, s <= m, m <= e
  PROVE  TimeBetween(s, e) = TimeBetween(s, m) + TimeBetween(m, e)
<1>1. \A x \in Nat : TimeBetween(x, x) = 0
  BY DEF TimeBetween
<1>2. \A x, y \in Nat : x < y => TimeBetween(x, y) \in Int
  <2> SUFFICES ASSUME NEW x \in Nat, NEW y \in Nat, x < y PROVE TimeBetween(x, y) \in Int
    OBVIOUS
  <2>1. PICK f : IsSum(f, Days(x, y), Part(x, y)) /\ TimeBetween(x, y) = f[Days(x, y)]
    BY Counted
  <2> QED BY <2>1 DEF IsSum
<1>3. CASE s = m \/ m = e
  <2>1. s = e => TimeBetween(s, e) = 0
    BY <1>1
  <2> QED BY <1>1, <1>2, <1>3, <2>1
<1>4. CASE s < m /\ m < e
  <2> DEFINE D == Days(s, e)
             A == Days(s, m)
             B == Days(m, e)
  <2>0. s < e
    BY <1>4
  <2>1. PICK h : IsSum(h, D, Part(s, e)) /\ TimeBetween(s, e) = h[D]
    BY <2>0, Counted
  <2>2. PICK f : IsSum(f, A, Part(s, m)) /\ TimeBetween(s, m) = f[A]
    BY <1>4, Counted
  <2>3. PICK g : IsSum(g, B, Part(m, e)) /\ TimeBetween(m, e) = g[B]
    BY <1>4, Counted
  <2>4. /\ DayOf(s) \in Nat /\ DayOf(m) \in Nat /\ DayOf(e) \in Nat
        /\ DayOf(s) <= DayOf(m) /\ DayOf(m) <= DayOf(e)
    BY DayIs, LaterDay
  <2>5. /\ IsFiniteSet(D) /\ A \in SUBSET D /\ B \in SUBSET D
        /\ Part(s, e) \in [D -> Int] /\ Part(s, m) \in [A -> Int] /\ Part(m, e) \in [B -> Int]
    <3>1. A \in SUBSET D /\ B \in SUBSET D
      BY <2>4 DEF Days
    <3> QED BY <3>1, DaysAre
  <2>6. ASSUME NEW d \in D
        PROVE  Part(s, e)[d] = (IF d \in A THEN Part(s, m)[d] ELSE 0)
                                 + (IF d \in B THEN Part(m, e)[d] ELSE 0)
    <3>1. d \in Nat /\ Part(s, e)[d] = Worked(s, e, d)
      BY DaysAre
    <3>2. (IF d \in A THEN Part(s, m)[d] ELSE 0) = Worked(s, m, d)
      <4>1. CASE d \in A
        BY <4>1, DaysAre
      <4>2. CASE d \notin A
        <5>1. DayOf(m) < d
          BY <2>4, <3>1, <4>2 DEF Days
        <5>2. Worked(s, m, d) = 0
          BY <3>1, <5>1, NoWork
        <5> QED BY <4>2, <5>2
      <4> QED BY <4>1, <4>2
    <3>3. (IF d \in B THEN Part(m, e)[d] ELSE 0) = Worked(m, e, d)
      <4>1. CASE d \in B
        BY <4>1, DaysAre
      <4>2. CASE d \notin B
        <5>1. d < DayOf(m)
          BY <2>4, <3>1, <4>2 DEF Days
        <5>2. Worked(m, e, d) = 0
          BY <3>1, <5>1, NoWork
        <5> QED BY <4>2, <5>2
      <4> QED BY <4>1, <4>2
    <3>4. Worked(s, e, d) = Worked(s, m, d) + Worked(m, e, d)
      BY <3>1, WorkedIs
    <3> QED BY <3>1, <3>2, <3>3, <3>4
  <2>7. h[D] = f[A] + g[B]
    <3> HIDE DEF D, A, B
    <3> QED BY <2>1, <2>2, <2>3, <2>5, <2>6, SumsAdd
  <2> QED BY <2>1, <2>2, <2>3, <2>7
<1> QED BY <1>3, <1>4

-----------------------------------------------------------------------------
(* Working time within a day.                                               *)

\* Type of TimeBetween.
LEMMA TimeIsNat ==
  ASSUME NEW s \in Nat, NEW e \in Nat
  PROVE  TimeBetween(s, e) \in Nat
<1>1. CASE e <= s
  BY <1>1 DEF TimeBetween
<1>2. CASE s < e
  <2>1. PICK f : IsSum(f, Days(s, e), Part(s, e)) /\ TimeBetween(s, e) = f[Days(s, e)]
    BY <1>2, Counted
  <2>2. Part(s, e) \in [Days(s, e) -> Nat]
    <3>1. \A d \in Days(s, e) : Worked(s, e, d) \in Nat
      BY <1>2, DaysAre, WorkedIs
    <3> QED BY <3>1 DEF Part
  <2>3. IsFiniteSet(Days(s, e))
    BY DaysAre
  <2> DEFINE D == Days(s, e)
             w == Part(s, e)
  <2>4. IsFiniteSet(D) /\ w \in [D -> Nat] /\ IsSum(f, D, w) /\ TimeBetween(s, e) = f[D]
    BY <2>1, <2>2, <2>3
  <2> HIDE DEF D, w
  <2>5. f[D] \in Nat
    BY <2>4, SumIsNat
  <2> QED BY <2>4, <2>5
<1> QED BY <1>1, <1>2

\* When no day has anything, no time has passed.
LEMMA Quiet ==
  ASSUME NEW s \in Nat, NEW e \in Nat, \A d \in Days(s, e) : Worked(s, e, d) = 0
  PROVE  TimeBetween(s, e) = 0
<1>1. CASE e <= s
  BY <1>1 DEF TimeBetween
<1>2. CASE s < e
  <2>1. PICK f : IsSum(f, Days(s, e), Part(s, e)) /\ TimeBetween(s, e) = f[Days(s, e)]
    BY <1>2, Counted
  <2> DEFINE D == Days(s, e)
             w == Part(s, e)
  <2>2. IsFiniteSet(D) /\ w \in [D -> Int] /\ \A d \in D : w[d] = 0
    BY DaysAre
  <2>3. IsSum(f, D, w) /\ TimeBetween(s, e) = f[D]
    BY <2>1
  <2> HIDE DEF D, w
  <2>4. f[D] = 0
    BY <2>2, <2>3, SumOfZeros
  <2> QED BY <2>3, <2>4
<1> QED BY <1>1, <1>2

\* Within a working day, the time is what the day has of it.
LEMMA WithinDay ==
  ASSUME NEW s \in Nat, NEW e \in Nat, s <= e, DayOf(s) = DayOf(e), IsWorkingDay(DayOf(s))
  PROVE  TimeBetween(s, e) = Worked(s, e, DayOf(s))
<1> DEFINE d == DayOf(s)
<1>1. d \in Nat
  BY DayIs
<1>2. CASE s = e
  <2>1. Worked(s, s, d) = Worked(s, s, d) + Worked(s, s, d) /\ Worked(s, s, d) \in Nat
    BY <1>1, WorkedIs
  <2>2. TimeBetween(s, e) = 0
    BY <1>2 DEF TimeBetween
  <2>3. PICK n \in Nat : n = Worked(s, s, d)
    BY <2>1
  <2>4. n = n + n
    BY <2>1, <2>3
  <2>5. n = 0
    BY <2>4
  <2>6. Worked(s, e, d) = 0
    BY <1>2, <2>3, <2>5
  <2> QED BY <2>2, <2>6
<1>3. CASE s < e
  <2>1. Days(s, e) = {d}
    BY <1>1 DEF Days
  <2>2. PICK f : IsSum(f, {d}, Part(s, e)) /\ TimeBetween(s, e) = f[{d}]
    BY <1>3, <2>1, Counted, Zenon
  <2>3. f[{d}] = Part(s, e)[d] + f[{d} \ {d}]
    BY <2>2 DEF IsSum
  <2>4. f[{d} \ {d}] = 0
    <3>1. {d} \ {d} = {}
      OBVIOUS
    <3>2. f[{}] = 0
      BY <2>2 DEF IsSum
    <3> QED BY <3>1, <3>2, Zenon
  <2>5. Part(s, e)[d] = Worked(s, e, d)
    BY <2>1, DaysAre
  <2>6. Worked(s, e, d) \in Nat
    BY <1>1, <1>3, WorkedIs
  <2> QED BY <2>2, <2>3, <2>4, <2>5, <2>6
<1> QED BY <1>2, <1>3

\* An instant is its day, its minute and its half minute
LEMMA ClockIs ==
  ASSUME NEW t \in Nat
  PROVE  /\ MinuteOf(t) \in Nat /\ MinuteOf(t) < DayLength
         /\ t % 2 \in {0, 1} /\ t = At(DayOf(t), MinuteOf(t)) + (t % 2)
<1>1. PICK d \in Nat : d = DayOf(t)
  BY DayIs
<1>2. PICK k \in Nat : At(d, 0) = 2 * k
  BY <1>1, CalendarAssumption DEF At
<1>3. DayLength \in Nat /\ At(d + 1, 0) = At(d, 0) + 2 * DayLength
  BY AtIs, CalendarAssumption
<1>4. 2 * k <= t /\ t < 2 * k + 2 * DayLength /\ MinuteOf(t) = (t - 2 * k) \div 2
  BY <1>1, <1>2, <1>3, DayIs
<1>5. /\ MinuteOf(t) \in Nat /\ MinuteOf(t) < DayLength /\ t % 2 \in {0, 1}
      /\ t = 2 * k + 2 * MinuteOf(t) + (t % 2)
  BY <1>3, <1>4
<1>6. At(d, MinuteOf(t)) = 2 * k + 2 * MinuteOf(t)
  BY <1>2, <1>5, AtIs
<1> QED BY <1>1, <1>5, <1>6

\* and they determine it.
LEMMA AtClock ==
  ASSUME NEW d \in Nat, NEW m \in Nat, m < DayLength, NEW o \in {0, 1}
  PROVE  /\ At(d, m) + o \in Nat
         /\ DayOf(At(d, m) + o) = d /\ MinuteOf(At(d, m) + o) = m
         /\ (At(d, m) + o) % 2 = o
<1>1. PICK k \in Nat : At(d, 0) = 2 * k
  BY CalendarAssumption DEF At
<1>2. /\ DayLength \in Nat /\ At(d + 1, 0) = 2 * k + 2 * DayLength
      /\ At(d, m) = 2 * k + 2 * m
  BY <1>1, AtIs, CalendarAssumption
<1>3. PICK t \in Nat : t = 2 * k + 2 * m + o /\ t = At(d, m) + o
  BY <1>2
<1>4. At(d, 0) <= t /\ t < At(d + 1, 0)
  BY <1>1, <1>2, <1>3
<1>5. DayOf(t) = d
  BY <1>4, DayIs
<1>6. MinuteOf(t) = (t - 2 * k) \div 2
  BY <1>1, <1>5, DayIs
<1>7. MinuteOf(t) = m /\ t % 2 = o
  BY <1>3, <1>6
<1> QED BY <1>3, <1>5, <1>7

(* FirstWorkingDay is well-defined: there is a working day within a week    *)
(* after the last holiday.                                                  *)
LEMMA FirstIs ==
  ASSUME NEW d \in Nat
  PROVE  /\ FirstWorkingDay(d) \in Nat /\ d <= FirstWorkingDay(d)
         /\ IsWorkingDay(FirstWorkingDay(d))
         /\ \A x \in d .. (FirstWorkingDay(d) - 1) : ~ IsWorkingDay(x)
<1> DEFINE horizon == d + LastHoliday + 7
           W == {e \in d .. horizon : IsWorkingDay(e)}
<1>1. LastHoliday \in Nat /\ Holidays \subseteq 0 .. LastHoliday
  BY CalendarAssumption
<1>2. PICK k \in 0 .. 6 : k \in WorkDays
  BY CalendarAssumption
<1>3. PICK e \in (d + LastHoliday + 1) .. horizon : e % 7 = k
  <2> DEFINE b == d + LastHoliday + 1
  <2>1. b \in Nat
    BY <1>1
  <2> HIDE DEF b
  <2>2. \E e \in b .. (b + 6) : e % 7 = k
    <3>1. b % 7 \in 0 .. 6 /\ b = 7 * (b \div 7) + (b % 7) /\ b \div 7 \in Nat
      BY <2>1
    <3>2. CASE b % 7 <= k
      <4> DEFINE e == b + (k - (b % 7))
      <4>1. e \in b .. (b + 6) /\ e % 7 = k
        BY <2>1, <3>1, <3>2
      <4> QED BY <4>1
    <3>3. CASE k < b % 7
      <4> DEFINE e == b + 7 + (k - (b % 7))
      <4>1. e \in b .. (b + 6) /\ e % 7 = k
        BY <2>1, <3>1, <3>3
      <4> QED BY <4>1
    <3> QED BY <3>1, <3>2, <3>3
  <2> QED BY <2>2, <1>1 DEF b
<1>4. e \in W
  <2>1. e \notin Holidays /\ e \in d .. horizon
    BY <1>1, <1>3
  <2> QED BY <1>2, <1>3, <2>1 DEF IsWorkingDay
<1>5. PICK n \in W : \A x \in W : n <= x
  <2> W \in SUBSET Nat
    BY <1>1
  <2> HIDE DEF W
  <2> QED BY <1>4, LeastOf
<1>6. n \in d .. horizon /\ IsWorkingDay(n) /\ \A x \in d .. (n - 1) : ~ IsWorkingDay(x)
  <2>1. ASSUME NEW x \in d .. (n - 1), IsWorkingDay(x) PROVE FALSE
    <3>1. x \in W
      BY <1>1, <2>1
    <3> QED BY <1>1, <1>5, <2>1, <3>1
  <2> QED BY <2>1
<1> DEFINE P(x) == IsWorkingDay(x) /\ \A y \in d .. (x - 1) : ~ IsWorkingDay(y)
<1>7. FirstWorkingDay(d) = CHOOSE x \in d .. horizon : P(x)
  BY DEF FirstWorkingDay
<1>8. FirstWorkingDay(d) \in d .. horizon /\ P(FirstWorkingDay(d))
  <2>1. P(n)
    BY <1>6
  <2> HIDE DEF P
  <2> QED BY <1>6, <1>7, <2>1
<1> QED BY <1>1, <1>8

-----------------------------------------------------------------------------
(* Openings and normalizeToWorkingTime.                                     *)

(* Instants the loop counts from: in the hours of a working day, or at its  *)
(* very end.                                                                *)
AtWork(t) ==
  /\ t \in Nat /\ IsWorkingDay(DayOf(t)) /\ ~ InBreak(MinuteOf(t))
  /\ At(DayOf(t), WorkStart) <= t /\ t <= At(DayOf(t), WorkEnd)

\* The opening of a working day.
LEMMA OpeningIs ==
  ASSUME NEW d \in Nat
  PROVE  /\ Opening(d) \in Nat /\ Opening(d) = At(FirstWorkingDay(d), WorkStart)
         /\ DayOf(Opening(d)) = FirstWorkingDay(d) /\ MinuteOf(Opening(d)) = WorkStart
         /\ Opening(d) % 2 = 0 /\ AtWork(Opening(d)) /\ At(d, 0) <= Opening(d)
<1> DEFINE f == FirstWorkingDay(d)
<1>1. f \in Nat /\ d <= f /\ IsWorkingDay(f)
  BY FirstIs
<1>2. WorkStart \in Nat /\ WorkStart < BreakStart /\ WorkStart < DayLength
  BY CalendarAssumption
<1>3. Opening(d) = At(f, WorkStart)
  BY DEF Opening
<1> HIDE DEF f
<1>4. /\ At(f, WorkStart) + 0 \in Nat
      /\ DayOf(At(f, WorkStart) + 0) = f /\ MinuteOf(At(f, WorkStart) + 0) = WorkStart
      /\ (At(f, WorkStart) + 0) % 2 = 0
  BY <1>1, <1>2, AtClock
<1>5. /\ At(f, WorkStart) \in Nat /\ At(f, 0) <= At(f, WorkStart)
      /\ At(f, WorkStart) <= At(f, WorkEnd)
      /\ At(d, 0) \in Nat /\ At(f, 0) \in Nat /\ At(d + 1, 0) \in Nat /\ At(d, 0) < At(d + 1, 0)
      /\ At(f, WorkEnd) \in Nat
  <2>1. /\ At(f, WorkStart) \in Nat /\ At(f, 0) <= At(f, WorkStart)
        /\ At(f, WorkStart) <= At(f, WorkEnd) /\ At(f, 0) \in Nat /\ At(f, WorkEnd) \in Nat
    BY <1>1, WorkHours
  <2>2. At(d, 0) \in Nat /\ At(d + 1, 0) \in Nat /\ At(d, 0) < At(d + 1, 0)
    BY WorkHours
  <2> QED BY <2>1, <2>2
<1>6. At(f, WorkStart) + 0 = At(f, WorkStart)
  BY <1>5
<1>7. /\ DayOf(At(f, WorkStart)) = f /\ MinuteOf(At(f, WorkStart)) = WorkStart
      /\ At(f, WorkStart) % 2 = 0
  BY <1>4, <1>6
<1>8. ~ InBreak(WorkStart)
  BY <1>2, CalendarAssumption DEF InBreak
<1>9. At(d, 0) <= At(f, WorkStart)
  <2>1. CASE d = f
    BY <2>1, <1>5
  <2>2. CASE d < f
    BY <2>2, <1>1, <1>5, DaysInOrder
  <2> QED BY <1>1, <2>1, <2>2
<1>10. AtWork(At(f, WorkStart))
  BY <1>1, <1>5, <1>7, <1>8 DEF AtWork
<1> QED BY <1>3, <1>5, <1>7, <1>9, <1>10 DEF f

\* Minutes compare as instants of the day do.
LEMMA MinuteOrder ==
  ASSUME NEW t \in Nat, NEW m \in Nat, m <= DayLength
  PROVE  /\ MinuteOf(t) < m <=> t < At(DayOf(t), m)
         /\ At(DayOf(t), m) \in Nat
<1>0. PICK d \in Nat : d = DayOf(t)
  BY DayIs
<1>1. PICK k \in Nat : At(d, 0) = 2 * k
  BY <1>0, CalendarAssumption DEF At
<1>2. PICK n \in Nat : n = MinuteOf(t)
  BY ClockIs
<1>3. At(d, m) = 2 * k + 2 * m /\ At(d, n) = 2 * k + 2 * n
  BY <1>1, <1>2, AtIs
<1>4. PICK o \in {0, 1} : o = t % 2
  BY ClockIs
<1>5. t = 2 * k + 2 * n + o
  BY <1>0, <1>2, <1>3, <1>4, ClockIs
<1> QED BY <1>0, <1>2, <1>3, <1>4, <1>5

\* No work passes until the next opening.
LEMMA Shut ==
  ASSUME NEW t \in Nat, NEW d \in Nat,
         \/ d = DayOf(t) /\ (~ IsWorkingDay(d) \/ MinuteOf(t) < WorkStart)
         \/ d = DayOf(t) + 1 /\ (~ IsWorkingDay(DayOf(t)) \/ ~ (MinuteOf(t) < WorkEnd))
  PROVE  t < Opening(d) /\ TimeBetween(t, Opening(d)) = 0
<1> DEFINE f == FirstWorkingDay(d)
           o == Opening(d)
<1>1. f \in Nat /\ d <= f /\ IsWorkingDay(f) /\ \A x \in d .. (f - 1) : ~ IsWorkingDay(x)
  BY FirstIs
<1>2. o \in Nat /\ o = At(f, WorkStart) /\ DayOf(o) = f /\ At(d, 0) <= o
  BY OpeningIs
<1>3. DayOf(t) \in Nat /\ t < At(DayOf(t) + 1, 0)
  BY DayIs
<1>4. /\ WorkStart \in Nat /\ WorkEnd \in Nat /\ DayLength \in Nat
      /\ WorkStart <= DayLength /\ WorkEnd <= DayLength
  BY CalendarAssumption
<1> HIDE DEF f, o
<1>5. t < o
  <2>1. CASE d = DayOf(t) + 1
    <3>1. At(d, 0) \in Nat
      BY WorkHours
    <3> QED BY <2>1, <3>1, <1>2, <1>3
  <2>2. CASE d = DayOf(t) /\ ~ IsWorkingDay(d)
    <3>1. d # f /\ d < f
      BY <1>1, <2>2
    <3>0. At(d + 1, 0) <= At(f, 0)
      BY <1>1, <3>1, DaysInOrder
    <3>2. At(d + 1, 0) <= At(f, 0) /\ At(d + 1, 0) \in Nat /\ At(f, 0) \in Nat
      BY <1>1, <3>0, WorkHours
    <3>3. At(f, 0) <= At(f, WorkStart)
      BY <1>1, WorkHours
    <3> QED BY <1>2, <1>3, <2>2, <3>2, <3>3
  <2>3. CASE d = DayOf(t) /\ IsWorkingDay(d) /\ MinuteOf(t) < WorkStart
    <3>1. f = d
      <4>1. CASE d < f
        BY <1>1, <2>3, <4>1
      <4> QED BY <1>1, <4>1
    <3>2. t < At(d, WorkStart)
      BY <1>4, <2>3, MinuteOrder
    <3> QED BY <1>2, <3>1, <3>2
  <2> QED BY <2>1, <2>2, <2>3
<1>6. ASSUME NEW x \in Days(t, o) PROVE Worked(t, o, x) = 0
  <2>1. x \in Nat /\ DayOf(t) <= x /\ x <= f /\ IsWorkingDay(x)
    BY <1>1, <1>2, <1>3 DEF Days
  <2>2. CASE x = f
    <3>1. o <= At(x, WorkStart)
      BY <1>2, <2>2
    <3> QED BY <1>2, <1>5, <2>1, <3>1, WorkedIs
  <2>3. CASE x # f
    <3>1. x < f /\ ~ (d <= x)
      BY <1>1, <2>1, <2>3
    <3>2. x = DayOf(t) /\ ~ (MinuteOf(t) < WorkEnd)
      <4>1. d = DayOf(t) + 1
        BY <1>3, <2>1, <3>1
      <4>2. x = DayOf(t)
        BY <1>3, <2>1, <3>1, <4>1
      <4>3. d # DayOf(t)
        BY <1>3, <4>1
      <4> QED BY <2>1, <4>2, <4>3
    <3>3. ~ (t < At(x, WorkEnd)) /\ At(x, WorkEnd) \in Nat
      BY <1>4, <3>2, MinuteOrder
    <3>4. At(x, WorkEnd) <= t
      BY <3>3
    <3> QED BY <1>2, <1>5, <2>1, <3>4, WorkedIs
  <2> QED BY <2>2, <2>3
<1>7. TimeBetween(t, o) = 0
  BY <1>2, <1>6, Quiet
<1> QED BY <1>5, <1>7 DEF o

\* normalizeToWorkingTime goes to the next working time, and skips no work.
LEMMA NormalizedIs ==
  ASSUME NEW t \in Nat
  PROVE  /\ Normalized(t) \in Nat /\ t <= Normalized(t)
         /\ AtWork(Normalized(t)) /\ TimeBetween(t, Normalized(t)) = 0
         /\ Normalized(t) = t \/ Normalized(t) % 2 = 0
<1> DEFINE d == DayOf(t)
           m == MinuteOf(t)
<1>1. d \in Nat /\ d + 1 \in Nat
  BY DayIs
<1>2. m \in Nat
  BY ClockIs
<1>3. /\ WorkStart \in Nat /\ WorkEnd \in Nat /\ DayLength \in Nat
      /\ BreakStart \in Nat /\ BreakEnd \in Nat
      /\ WorkStart < BreakStart /\ BreakStart <= BreakEnd
      /\ BreakEnd <= WorkEnd /\ WorkEnd < DayLength
  BY CalendarAssumption
<1>4. TimeBetween(t, t) = 0
  BY DEF TimeBetween
<1>5. CASE ~ IsWorkingDay(d) \/ m < WorkStart
  <2>1. Normalized(t) = Opening(d)
    BY <1>5 DEF Normalized
  <2>2. t < Opening(d) /\ TimeBetween(t, Opening(d)) = 0
    BY <1>1, <1>5, Shut
  <2>3. Opening(d) \in Nat /\ AtWork(Opening(d)) /\ Opening(d) % 2 = 0
    BY <1>1, OpeningIs
  <2> QED BY <2>1, <2>2, <2>3
<1>6. CASE IsWorkingDay(d) /\ ~ (m < WorkStart) /\ m >= WorkEnd
  <2>1. Normalized(t) = Opening(d + 1)
    BY <1>6 DEF Normalized
  <2>2. ~ (m < WorkEnd)
    BY <1>2, <1>3, <1>6
  <2>3. t < Opening(d + 1) /\ TimeBetween(t, Opening(d + 1)) = 0
    BY <1>1, <2>2, Shut
  <2>4. Opening(d + 1) \in Nat /\ AtWork(Opening(d + 1)) /\ Opening(d + 1) % 2 = 0
    BY <1>1, OpeningIs
  <2> QED BY <2>1, <2>3, <2>4
<1>7. CASE IsWorkingDay(d) /\ ~ (m < WorkStart) /\ m < WorkEnd /\ InBreak(m)
  <2> DEFINE n == At(d, BreakEnd)
  <2>1. Normalized(t) = n
    BY <1>2, <1>3, <1>7 DEF Normalized
  <2>2. /\ n + 0 \in Nat /\ DayOf(n + 0) = d /\ MinuteOf(n + 0) = BreakEnd
        /\ (n + 0) % 2 = 0
    BY <1>1, <1>3, AtClock
  <2>3. n \in Nat /\ n + 0 = n
    BY <1>1, WorkHours
  <2>4. DayOf(n) = d /\ MinuteOf(n) = BreakEnd /\ n % 2 = 0
    BY <2>2, <2>3
  <2>5. ~ (m < BreakStart) /\ m < BreakEnd
    BY <1>2, <1>3, <1>7 DEF InBreak
  <2>6. ~ (t < At(d, BreakStart)) /\ At(d, BreakStart) \in Nat
    BY <1>3, <2>5, MinuteOrder
  <2>7. t < n
    BY <1>3, <2>5, MinuteOrder
  <2>8. /\ At(d, BreakStart) <= t /\ t <= n
        /\ At(d, WorkStart) < At(d, BreakStart) /\ At(d, WorkStart) \in Nat
        /\ n <= At(d, WorkEnd)
    <3>1. /\ At(d, WorkStart) < At(d, BreakStart) /\ At(d, WorkStart) \in Nat
          /\ At(d, BreakEnd) <= At(d, WorkEnd)
      BY <1>1, WorkHours
    <3>2. At(d, BreakStart) <= t
      BY <2>6
    <3>3. t <= n
      BY <2>3, <2>7
    <3> QED BY <3>1, <3>2, <3>3
  <2>9. ~ InBreak(BreakEnd)
    BY <1>3 DEF InBreak
  <2>10. AtWork(n)
    <3>1. At(d, WorkStart) <= n
      BY <2>3, <2>6, <2>8
    <3> HIDE DEF n
    <3> QED BY <1>7, <2>3, <2>4, <2>8, <2>9, <3>1 DEF AtWork
  <2>11. TimeBetween(t, n) = 0
    <3>1. Worked(t, n, d) = 0
      <4> HIDE DEF n, d
      <4>1. n <= At(d, BreakEnd)
        BY <2>3 DEF n
      <4> QED BY <1>1, <2>3, <2>8, <4>1, WorkedIs
    <3> HIDE DEF n
    <3> QED BY <1>7, <2>3, <2>4, <2>8, <3>1, WithinDay
  <2> HIDE DEF n
  <2> QED BY <2>1, <2>3, <2>4, <2>8, <2>10, <2>11
<1>8. CASE IsWorkingDay(d) /\ ~ (m < WorkStart) /\ m < WorkEnd /\ ~ InBreak(m)
  <2>1. Normalized(t) = t
    BY <1>2, <1>3, <1>8 DEF Normalized
  <2>2. ~ (t < At(d, WorkStart)) /\ At(d, WorkStart) \in Nat
    BY <1>3, <1>8, MinuteOrder
  <2>3. t < At(d, WorkEnd) /\ At(d, WorkEnd) \in Nat
    BY <1>3, <1>8, MinuteOrder
  <2>4. AtWork(t)
    BY <1>8, <2>2, <2>3 DEF AtWork
  <2> QED BY <1>4, <2>1, <2>4
<1>9. m >= WorkEnd \/ m < WorkEnd
  BY <1>2, <1>3
<1> QED BY <1>5, <1>6, <1>7, <1>8, <1>9

-----------------------------------------------------------------------------
(* The loop of addBusinessHours ends.                                       *)

\* The time a minute leaves of its day.
LEMMA AvailableIs ==
  ASSUME NEW m \in Nat
  PROVE  /\ Available(m) \in Nat
         /\ m < BreakStart => Available(m) = 2 * (BreakStart - m + WorkEnd - BreakEnd)
         /\ BreakEnd <= m /\ m <= WorkEnd => Available(m) = 2 * (WorkEnd - m)
         /\ Available(WorkStart) > 0
<1>1. /\ WorkStart \in Nat /\ WorkEnd \in Nat /\ BreakStart \in Nat /\ BreakEnd \in Nat
      /\ WorkStart < BreakStart /\ BreakStart <= BreakEnd /\ BreakEnd <= WorkEnd
  BY CalendarAssumption
<1> DEFINE left(n) == IF n >= BreakEnd THEN WorkEnd - n ELSE BreakStart - n + WorkEnd - BreakEnd
<1>2. \A n \in Nat : left(n) \in Int /\ Available(n) = 2 * (IF 0 >= left(n) THEN 0 ELSE left(n))
  <2> SUFFICES ASSUME NEW n \in Nat
               PROVE  left(n) \in Int /\ Available(n) = 2 * (IF 0 >= left(n) THEN 0 ELSE left(n))
    OBVIOUS
  <2>1. left(n) \in Int
    BY <1>1
  <2>2. Available(n) = 2 * Max({0, left(n)})
    BY DEF Available
  <2> HIDE DEF left
  <2>3. Max({0, left(n)}) = IF 0 >= left(n) THEN 0 ELSE left(n)
    BY <2>1, Larger
  <2> QED BY <2>1, <2>2, <2>3
<1>3. /\ left(m) \in Int /\ Available(m) = 2 * (IF 0 >= left(m) THEN 0 ELSE left(m))
      /\ Available(WorkStart) = 2 * (IF 0 >= left(WorkStart) THEN 0 ELSE left(WorkStart))
  BY <1>1, <1>2
<1> QED BY <1>1, <1>3

\* The body of the loop, for a function g in the place of Advance.
Body(g, c) ==
  LET t == c[1]
      left == c[2]
      m == MinuteOf(t)
  IN
  IF left = 0 THEN t
  ELSE IF ~IsWorkingDay(DayOf(t)) THEN g[<<At(DayOf(t) + 1, WorkStart), left>>]
  ELSE IF InBreak(m) THEN g[<<At(DayOf(t), BreakEnd), left>>]
  ELSE IF left > Available(m) THEN g[<<Opening(DayOf(t) + 1), left - Available(m)>>]
  ELSE IF CrossesBreak(m, left) THEN t + left + 2 * (BreakEnd - BreakStart)
  ELSE t + left

(* The cases of the loop: a day off, the break, more time than the day has  *)
(* left.                                                                    *)
Closed(c) == ~ IsWorkingDay(DayOf(c[1]))
Broken(c) == ~ Closed(c) /\ InBreak(MinuteOf(c[1]))
Long(c) == ~ Closed(c) /\ ~ InBreak(MinuteOf(c[1])) /\ c[2] > Available(MinuteOf(c[1]))

\* Where the loop ends,
Last == {c \in Nat \X Nat : c[2] = 0 \/ (~ Closed(c) /\ ~ Broken(c) /\ ~ Long(c))}

\* where it goes otherwise,
After(c) ==
  IF c \in Last THEN c
  ELSE IF Closed(c) THEN <<At(DayOf(c[1]) + 1, WorkStart), c[2]>>
  ELSE IF Broken(c) THEN <<At(DayOf(c[1]), BreakEnd), c[2]>>
  ELSE <<Opening(DayOf(c[1]) + 1), c[2] - Available(MinuteOf(c[1]))>>

\* and what it returns.
Reached(c) ==
  IF c[2] = 0 THEN c[1]
  ELSE IF CrossesBreak(MinuteOf(c[1]), c[2]) THEN c[1] + c[2] + 2 * (BreakEnd - BreakStart)
  ELSE c[1] + c[2]

\* What a turn of the loop leads to.
LEMMA AfterIs ==
  ASSUME NEW c \in Nat \X Nat
  PROVE  /\ After(c) \in Nat \X Nat /\ Reached(c) \in Int
         /\ c \notin Last /\ Closed(c) =>
              After(c)[2] = c[2] /\ DayOf(After(c)[1]) = DayOf(c[1]) + 1
         /\ c \notin Last /\ Broken(c) =>
              /\ After(c)[2] = c[2]
              /\ ~ Closed(After(c)) /\ ~ Broken(After(c))
         /\ c \notin Last /\ ~ Closed(c) /\ ~ Broken(c) =>
              /\ Long(c) /\ After(c)[2] = c[2] - Available(MinuteOf(c[1]))
              /\ ~ Closed(After(c)) /\ ~ Broken(After(c))
              /\ MinuteOf(After(c)[1]) = WorkStart
<1>1. PICK t \in Nat, left \in Nat : c = <<t, left>>
  OBVIOUS
<1>2. PICK d \in Nat : d = DayOf(t)
  BY DayIs
<1>3. PICK m \in Nat : m = MinuteOf(t)
  BY ClockIs
<1>4. /\ WorkStart \in Nat /\ WorkEnd \in Nat /\ DayLength \in Nat
      /\ BreakStart \in Nat /\ BreakEnd \in Nat
      /\ WorkStart < BreakStart /\ BreakStart <= BreakEnd
      /\ BreakEnd <= WorkEnd /\ WorkEnd < DayLength
      /\ WorkStart < DayLength /\ BreakEnd < DayLength
  BY CalendarAssumption
<1>5. PICK a \in Nat : a = Available(m)
  BY AvailableIs
<1>6. /\ Closed(c) <=> ~ IsWorkingDay(d)
      /\ Broken(c) <=> ~ Closed(c) /\ InBreak(m)
      /\ Long(c) <=> ~ Closed(c) /\ ~ InBreak(m) /\ left > a
      /\ c \in Last <=> left = 0 \/ (~ Closed(c) /\ ~ Broken(c) /\ ~ Long(c))
  BY <1>1, <1>2, <1>3, <1>5 DEF Closed, Broken, Long, Last
<1>7. Reached(c) \in Int
  <2>1. c[1] \in Nat /\ c[2] \in Nat
    BY <1>1
  <2> QED BY <1>4, <2>1 DEF Reached
<1>8. CASE c \in Last
  BY <1>7, <1>8 DEF After
<1>9. CASE c \notin Last /\ Closed(c)
  <2>1. After(c) = <<At(d + 1, WorkStart), left>>
    BY <1>1, <1>2, <1>9 DEF After
  <2>2. At(d + 1, WorkStart) + 0 \in Nat /\ DayOf(At(d + 1, WorkStart) + 0) = d + 1
    BY <1>2, <1>4, AtClock
  <2>3. At(d + 1, WorkStart) + 0 = At(d + 1, WorkStart) /\ At(d + 1, WorkStart) \in Nat
    <3>1. d + 1 \in Nat
      BY <1>2
    <3>2. At(d + 1, WorkStart) \in Nat
      BY <3>1, WorkHours
    <3> QED BY <3>2
  <2>4. DayOf(At(d + 1, WorkStart)) = d + 1
    BY <2>2, <2>3
  <2>5. ~ Broken(c)
    BY <1>6, <1>9
  <2> QED BY <1>1, <1>2, <1>7, <1>9, <2>1, <2>3, <2>4, <2>5
<1>10. CASE c \notin Last /\ Broken(c)
  <2>1. ~ Closed(c)
    BY <1>6, <1>10
  <2>2. After(c) = <<At(d, BreakEnd), left>>
    BY <1>1, <1>2, <1>10, <2>1 DEF After
  <2>3. /\ At(d, BreakEnd) + 0 \in Nat /\ DayOf(At(d, BreakEnd) + 0) = d
        /\ MinuteOf(At(d, BreakEnd) + 0) = BreakEnd
    BY <1>2, <1>4, AtClock
  <2>4. At(d, BreakEnd) + 0 = At(d, BreakEnd) /\ At(d, BreakEnd) \in Nat
    <3>1. At(d, BreakEnd) \in Nat
      BY <1>2, WorkHours
    <3> QED BY <3>1
  <2>5. DayOf(At(d, BreakEnd)) = d /\ MinuteOf(At(d, BreakEnd)) = BreakEnd
    BY <2>3, <2>4
  <2>6. ~ InBreak(BreakEnd)
    BY <1>4 DEF InBreak
  <2>7. After(c)[1] = At(d, BreakEnd) /\ After(c)[2] = left /\ After(c) \in Nat \X Nat
    BY <2>2, <2>4
  <2>8. ~ Closed(After(c)) /\ ~ Broken(After(c))
    BY <1>6, <2>1, <2>5, <2>6, <2>7 DEF Closed, Broken
  <2> QED BY <1>1, <1>7, <1>10, <2>1, <2>7, <2>8
<1>11. CASE c \notin Last /\ ~ Closed(c) /\ ~ Broken(c)
  <2>1. Long(c) /\ left > a
    BY <1>6, <1>11
  <2>2. After(c) = <<Opening(d + 1), left - a>>
    BY <1>1, <1>2, <1>3, <1>5, <1>11 DEF After
  <2>3. d + 1 \in Nat
    BY <1>2
  <2>4. /\ Opening(d + 1) \in Nat /\ MinuteOf(Opening(d + 1)) = WorkStart
        /\ AtWork(Opening(d + 1))
    BY <2>3, OpeningIs
  <2>5. After(c)[1] = Opening(d + 1) /\ After(c)[2] = left - a /\ After(c) \in Nat \X Nat
    BY <1>5, <2>1, <2>2, <2>4
  <2>6. ~ Closed(After(c)) /\ ~ Broken(After(c))
    BY <2>4, <2>5 DEF Closed, Broken, AtWork
  <2> QED BY <1>1, <1>3, <1>5, <1>7, <1>11, <2>1, <2>4, <2>5, <2>6
<1> QED BY <1>8, <1>9, <1>10, <1>11

(* There is no set of instants the loop can run in for ever: the time left  *)
(* falls until it stays, then the days to the next working day do, and from *)
(* an opening the time left falls again.                                    *)
LEMMA LoopEnds ==
  ASSUME NEW T \in SUBSET (Nat \X Nat), T # {}
  PROVE  \E c \in T : c \in Last \/ After(c) \notin T
<1> SUFFICES ASSUME \A c \in T : c \notin Last /\ After(c) \in T
             PROVE  FALSE
  OBVIOUS
<1> DEFINE Lefts == {c[2] : c \in T}
<1>1. PICK least \in Lefts : \A n \in Lefts : least <= n
  <2> Lefts \in SUBSET Nat /\ Lefts # {}
    OBVIOUS
  <2> HIDE DEF Lefts
  <2> QED BY LeastOf
<1>2. least \in Nat /\ \A c \in T : least <= c[2] /\ c[2] \in Nat /\ c[1] \in Nat
  BY <1>1
<1> DEFINE U == {c \in T : c[2] = least}
<1>3. U # {}
  BY <1>1
<1>4. ASSUME \A c \in U : Closed(c) PROVE FALSE
  <2> DEFINE wait(c) == FirstWorkingDay(DayOf(c[1])) - DayOf(c[1])
             Waits == {wait(c) : c \in U}
  <2>1. \A c \in U : /\ DayOf(c[1]) \in Nat /\ FirstWorkingDay(DayOf(c[1])) \in Nat
                     /\ wait(c) \in Nat
    <3> SUFFICES ASSUME NEW c \in U
                 PROVE  /\ DayOf(c[1]) \in Nat /\ FirstWorkingDay(DayOf(c[1])) \in Nat
                        /\ wait(c) \in Nat
      OBVIOUS
    <3>1. DayOf(c[1]) \in Nat
      BY <1>2, DayIs
    <3> QED BY <3>1, FirstIs
  <2>2. PICK w \in Waits : \A x \in Waits : w <= x
    <3> Waits \in SUBSET Nat /\ Waits # {}
      BY <1>3, <2>1
    <3> HIDE DEF Waits
    <3> QED BY LeastOf
  <2>3. PICK c \in U : w = wait(c)
    BY <2>2
  <2>4. PICK d \in Nat : d = DayOf(c[1])
    BY <2>1
  <2>5. c \in Nat \X Nat /\ c \notin Last /\ Closed(c)
    BY <1>4
  <2>6. After(c)[2] = c[2] /\ DayOf(After(c)[1]) = d + 1
    BY <2>4, <2>5, AfterIs
  <2>7. After(c) \in U
    BY <2>6
  <2>8. wait(c) <= wait(After(c))
    BY <2>2, <2>3, <2>7
  <2>9. ~ IsWorkingDay(d)
    BY <2>4, <2>5 DEF Closed
  <2>10. PICK f \in Nat : f = FirstWorkingDay(d) /\ d <= f /\ IsWorkingDay(f)
    BY FirstIs
  <2>11. PICK g \in Nat : g = FirstWorkingDay(d + 1) /\ \A x \in (d + 1) .. (g - 1) : ~ IsWorkingDay(x)
    <3>1. d + 1 \in Nat
      BY <2>4
    <3> QED BY <3>1, FirstIs
  <2>12. f # d
    BY <2>9, <2>10
  <2>13. g <= f
    <3>1. CASE f < g
      BY <2>4, <2>10, <2>11, <2>12, <3>1
    <3> QED BY <3>1
  <2>14. f - d <= g - (d + 1)
    BY <2>4, <2>6, <2>8, <2>10, <2>11
  <2> QED BY <2>4, <2>10, <2>11, <2>13, <2>14
<1>5. PICK c \in U : ~ Closed(c)
  BY <1>4
<1>6. PICK b \in U : ~ Closed(b) /\ ~ Broken(b)
  <2>1. CASE Broken(c)
    <3>1. c \in Nat \X Nat /\ c \notin Last /\ After(c) \in T
      BY <1>5
    <3>2. After(c)[2] = c[2] /\ ~ Closed(After(c)) /\ ~ Broken(After(c))
      BY <2>1, <3>1, AfterIs
    <3>3. After(c) \in U
      BY <3>1, <3>2
    <3> QED BY <3>2, <3>3
  <2> QED BY <1>5, <2>1
<1>7. b \in Nat \X Nat /\ b \notin Last /\ After(b) \in T /\ b[2] = least /\ b[1] \in Nat
  BY <1>2
<1>8. /\ After(b)[2] = b[2] - Available(MinuteOf(b[1])) /\ MinuteOf(After(b)[1]) = WorkStart
      /\ ~ Closed(After(b)) /\ ~ Broken(After(b))
  BY <1>6, <1>7, AfterIs
<1>9. PICK a \in T : a = After(b)
  BY <1>7
<1>10. PICK n \in Nat : n = Available(MinuteOf(b[1]))
  <2> MinuteOf(b[1]) \in Nat
    BY <1>7, ClockIs
  <2> QED BY AvailableIs
<1>11. a[2] = least
  BY <1>2, <1>7, <1>8, <1>9, <1>10
<1>12. a \in Nat \X Nat /\ a \notin Last /\ After(a) \in T
  BY <1>9
<1>13. After(a)[2] = a[2] - Available(MinuteOf(a[1]))
  BY <1>8, <1>9, <1>12, AfterIs
<1>14. PICK k \in Nat : k = Available(WorkStart) /\ k > 0
  <2> WorkStart \in Nat
    BY CalendarAssumption
  <2> QED BY AvailableIs
<1>15. After(a)[2] = least - k
  BY <1>8, <1>9, <1>11, <1>13, <1>14
<1>16. least <= After(a)[2]
  BY <1>2, <1>12
<1> QED BY <1>2, <1>14, <1>15, <1>16

\* The body, by its cases.
LEMMA BodyIs ==
  ASSUME NEW g, NEW c \in Nat \X Nat
  PROVE  Body(g, c) = IF c \in Last THEN Reached(c) ELSE g[After(c)]
<1>1. PICK t \in Nat, left \in Nat : c = <<t, left>>
  OBVIOUS
<1>2. c[1] = t /\ c[2] = left
  BY <1>1
<1>3. CASE left = 0
  <2>1. Body(g, c) = c[1]
    BY <1>2, <1>3 DEF Body
  <2>2. c \in Last
    BY <1>2, <1>3 DEF Last
  <2>3. Reached(c) = c[1]
    BY <1>2, <1>3 DEF Reached
  <2> QED BY <2>1, <2>2, <2>3
<1>4. CASE left # 0 /\ Closed(c)
  <2>1. Body(g, c) = g[<<At(DayOf(c[1]) + 1, WorkStart), c[2]>>]
    BY <1>2, <1>4 DEF Body, Closed
  <2>2. c \notin Last
    BY <1>2, <1>4 DEF Last
  <2>3. After(c) = <<At(DayOf(c[1]) + 1, WorkStart), c[2]>>
    BY <1>4, <2>2 DEF After
  <2> QED BY <2>1, <2>2, <2>3
<1>5. CASE left # 0 /\ ~ Closed(c) /\ InBreak(MinuteOf(c[1]))
  <2>1. Body(g, c) = g[<<At(DayOf(c[1]), BreakEnd), c[2]>>]
    BY <1>2, <1>5 DEF Body, Closed
  <2>2. c \notin Last /\ Broken(c)
    BY <1>2, <1>5 DEF Last, Broken
  <2>3. After(c) = <<At(DayOf(c[1]), BreakEnd), c[2]>>
    BY <1>5, <2>2 DEF After
  <2> QED BY <2>1, <2>2, <2>3
<1>6. CASE left # 0 /\ ~ Closed(c) /\ ~ InBreak(MinuteOf(c[1])) /\ c[2] > Available(MinuteOf(c[1]))
  <2>1. Body(g, c) = g[<<Opening(DayOf(c[1]) + 1), c[2] - Available(MinuteOf(c[1]))>>]
    BY <1>2, <1>6 DEF Body, Closed
  <2>2. c \notin Last /\ ~ Broken(c)
    BY <1>2, <1>6 DEF Last, Broken, Long
  <2>3. After(c) = <<Opening(DayOf(c[1]) + 1), c[2] - Available(MinuteOf(c[1]))>>
    BY <1>6, <2>2 DEF After
  <2> QED BY <2>1, <2>2, <2>3
<1>7. CASE left # 0 /\ ~ Closed(c) /\ ~ InBreak(MinuteOf(c[1])) /\ ~ (c[2] > Available(MinuteOf(c[1])))
  <2>1. Body(g, c) = IF CrossesBreak(MinuteOf(c[1]), c[2])
                     THEN c[1] + c[2] + 2 * (BreakEnd - BreakStart) ELSE c[1] + c[2]
    BY <1>2, <1>7 DEF Body, Closed
  <2>2. c \in Last
    BY <1>2, <1>7 DEF Last, Broken, Long
  <2>3. Reached(c) = IF CrossesBreak(MinuteOf(c[1]), c[2])
                     THEN c[1] + c[2] + 2 * (BreakEnd - BreakStart) ELSE c[1] + c[2]
    BY <1>2, <1>7 DEF Reached
  <2> QED BY <2>1, <2>2, <2>3
<1> QED BY <1>3, <1>4, <1>5, <1>6, <1>7

(* The loop of addBusinessHours ends, on every calendar and for every time  *)
(* to add: Advance is the function its recursive definition describes.      *)
THEOREM AdvanceIs ==
  /\ Advance \in [Nat \X Nat -> Int]
  /\ \A c \in Nat \X Nat : Advance[c] = IF c \in Last THEN Reached(c) ELSE Advance[After(c)]
<1> DEFINE S == Nat \X Nat
           IsLoop(g) == g = [c \in S |-> Body(g, c)]
<1>1. Advance = CHOOSE g : IsLoop(g)
  BY DEF Advance, Body
<1>2. \E g : IsLoop(g) /\ g \in [S -> Int]
  <2> DEFINE out == [c \in S |-> Reached(c)]
             next == [c \in S |-> After(c)]
             add == [c \in S |-> 0]
  <2>1. \A c \in S : After(c) \in S /\ Reached(c) \in Int
    BY AfterIs
  <2>2. out \in [S -> Int] /\ next \in [S -> S] /\ add \in [S -> Int] /\ Last \in SUBSET S
    BY <2>1 DEF Last
  <2>3. Founded(S, Last, next)
    <3> SUFFICES ASSUME NEW T \in SUBSET S, T # {}
                 PROVE  \E x \in T : x \in Last \/ next[x] \notin T
      BY DEF Founded
    <3>1. PICK x \in T : x \in Last \/ After(x) \notin T
      BY LoopEnds
    <3>2. next[x] = After(x)
      OBVIOUS
    <3> QED BY <3>1, <3>2
  <2>4. PICK f \in [S -> Int] : Solves(f, S, Last, out, add, next)
    <3> HIDE DEF S, out, next, add
    <3> QED BY <2>2, <2>3, Recursion
  <2>5. ASSUME NEW c \in S PROVE f[c] = Body(f, c)
    <3>1. f[c] = IF c \in Last THEN out[c] ELSE add[c] + f[next[c]]
      BY <2>4 DEF Solves
    <3>2. out[c] = Reached(c) /\ add[c] = 0 /\ next[c] = After(c) /\ f[After(c)] \in Int
      BY <2>1
    <3>3. f[c] = IF c \in Last THEN Reached(c) ELSE f[After(c)]
      BY <3>1, <3>2
    <3> QED BY <3>3, BodyIs
  <2>6. f = [c \in S |-> f[c]]
    OBVIOUS
  <2>7. IsLoop(f)
    BY <2>5, <2>6
  <2> QED BY <2>7
<1>3. IsLoop(Advance)
  <2> HIDE DEF IsLoop
  <2> QED BY <1>1, <1>2
<1>4. \A c \in S : Advance[c] = Body(Advance, c)
  <2> DEFINE F == [c \in S |-> Body(Advance, c)]
  <2>1. Advance = F
    BY <1>3
  <2>2. \A c \in S : F[c] = Body(Advance, c)
    OBVIOUS
  <2> HIDE DEF F
  <2> QED BY <2>1, <2>2, Zenon
<1>5. \A c \in S : Advance[c] = IF c \in Last THEN Reached(c) ELSE Advance[After(c)]
  BY <1>4, BodyIs
<1>6. \A c \in S : Advance[c] \in Int
  <2> DEFINE T == {c \in S : Advance[c] \notin Int}
  <2> SUFFICES ASSUME T # {} PROVE FALSE
    OBVIOUS
  <2>1. PICK c \in T : c \in Last \/ After(c) \notin T
    <3> T \in SUBSET S
      OBVIOUS
    <3> HIDE DEF T
    <3> QED BY LoopEnds
  <2>2. After(c) \in S /\ Reached(c) \in Int
    BY AfterIs
  <2> QED BY <1>5, <2>1, <2>2
<1>7. Advance = [c \in S |-> Advance[c]]
  <2> DEFINE F == [c \in S |-> Body(Advance, c)]
  <2>1. Advance = F /\ F = [c \in S |-> F[c]]
    BY <1>3
  <2> HIDE DEF F
  <2> QED BY <2>1, Zenon
<1> QED BY <1>5, <1>6, <1>7

-----------------------------------------------------------------------------
(* The loop adds what is counted.                                           *)

\* The loop from an instant at work.
LEMMA Loop ==
  ASSUME NEW t, AtWork(t), NEW left \in Nat
  PROVE  /\ Advance[<<t, left>>] \in Int
         /\ left = 0 => Advance[<<t, left>>] = t
         /\ left > Available(MinuteOf(t)) =>
              Advance[<<t, left>>] = Advance[<<Opening(DayOf(t) + 1), left - Available(MinuteOf(t))>>]
         /\ left # 0 /\ left <= Available(MinuteOf(t)) /\ CrossesBreak(MinuteOf(t), left) =>
              Advance[<<t, left>>] = t + left + 2 * (BreakEnd - BreakStart)
         /\ left # 0 /\ left <= Available(MinuteOf(t)) /\ ~ CrossesBreak(MinuteOf(t), left) =>
              Advance[<<t, left>>] = t + left
<1> DEFINE c == <<t, left>>
<1>1. t \in Nat /\ c \in Nat \X Nat /\ c[1] = t /\ c[2] = left
  BY DEF AtWork
<1>2. ~ Closed(c) /\ ~ Broken(c)
  BY <1>1 DEF AtWork, Closed, Broken
<1>3. Long(c) <=> left > Available(MinuteOf(t))
  BY <1>1, <1>2 DEF Long, AtWork
<1>4. c \in Last <=> left = 0 \/ ~ Long(c)
  BY <1>1, <1>2 DEF Last
<1>5. Advance[c] \in Int /\ Advance[c] = IF c \in Last THEN Reached(c) ELSE Advance[After(c)]
  BY <1>1, AdvanceIs
<1>6. PICK a \in Nat : a = Available(MinuteOf(t))
  <2>1. MinuteOf(t) \in Nat
    BY <1>1, ClockIs
  <2> QED BY <2>1, AvailableIs
<1>7. CASE left = 0
  <2>1. Advance[c] = Reached(c)
    BY <1>4, <1>5, <1>7
  <2>2. Reached(c) = t
    BY <1>1, <1>7 DEF Reached
  <2>3. ~ (left > a)
    BY <1>6, <1>7
  <2> QED BY <1>5, <1>6, <1>7, <2>1, <2>2, <2>3
<1>8. CASE left # 0 /\ left > a
  <2>1. c \notin Last
    BY <1>3, <1>4, <1>6, <1>8
  <2>2. After(c) = <<Opening(DayOf(t) + 1), left - Available(MinuteOf(t))>>
    BY <1>1, <1>2, <2>1 DEF After
  <2>3. Advance[c] = Advance[After(c)]
    BY <1>5, <2>1
  <2>4. ~ (left <= a)
    BY <1>6, <1>8
  <2> QED BY <1>5, <1>6, <1>8, <2>2, <2>3, <2>4
<1>9. CASE left # 0 /\ ~ (left > a)
  <2>1. c \in Last
    BY <1>3, <1>4, <1>6, <1>9
  <2>2. Reached(c) = IF CrossesBreak(MinuteOf(t), left) THEN t + left + 2 * (BreakEnd - BreakStart)
                     ELSE t + left
    BY <1>1, <1>9 DEF Reached
  <2>3. Advance[c] = Reached(c)
    BY <1>5, <2>1
  <2> QED BY <1>5, <1>6, <1>9, <2>2, <2>3
<1> QED BY <1>7, <1>8, <1>9

\* The marks of a working day, and where an instant of it lies.
LEMMA Marks ==
  ASSUME NEW t, AtWork(t)
  PROVE  \E d \in Nat, m \in Nat, o \in {0, 1}, k \in Nat :
           /\ d = DayOf(t) /\ m = MinuteOf(t) /\ o = t % 2 /\ IsWorkingDay(d)
           /\ t = k + 2 * m + o /\ k + 2 * WorkStart <= t /\ t <= k + 2 * WorkEnd
           /\ ~ (BreakStart <= m /\ m < BreakEnd)
           /\ At(d, 0) = k /\ At(d, WorkStart) = k + 2 * WorkStart
           /\ At(d, BreakStart) = k + 2 * BreakStart
           /\ At(d, BreakEnd) = k + 2 * BreakEnd /\ At(d, WorkEnd) = k + 2 * WorkEnd
           /\ At(d + 1, 0) = k + 2 * DayLength
<1>1. t \in Nat /\ IsWorkingDay(DayOf(t)) /\ ~ InBreak(MinuteOf(t))
      /\ At(DayOf(t), WorkStart) <= t /\ t <= At(DayOf(t), WorkEnd)
  BY DEF AtWork
<1>2. PICK d \in Nat : d = DayOf(t)
  BY <1>1, DayIs
<1>3. PICK m \in Nat, o \in {0, 1} : m = MinuteOf(t) /\ o = t % 2 /\ t = At(d, m) + o
  BY <1>1, <1>2, ClockIs
<1>4. PICK k \in Nat : k = At(d, 0)
  BY <1>2, WorkHours
<1>5. {WorkStart, BreakStart, BreakEnd, WorkEnd, DayLength} \subseteq Nat
  BY CalendarAssumption
<1>6. At(d, m) = k + 2 * m
  BY <1>4, AtIs
<1>7. /\ At(d, WorkStart) = k + 2 * WorkStart
      /\ At(d, BreakStart) = k + 2 * BreakStart
      /\ At(d, BreakEnd) = k + 2 * BreakEnd /\ At(d, WorkEnd) = k + 2 * WorkEnd
      /\ At(d + 1, 0) = k + 2 * DayLength
  <2>1. \A n \in Nat : At(d, n) = k + 2 * n
    BY <1>4, AtIs
  <2>2. At(d + 1, 0) = At(d, 0) + 2 * DayLength
    BY AtIs
  <2> QED BY <1>4, <1>5, <2>1, <2>2
<1>8. ~ (BreakStart <= m /\ m < BreakEnd)
  BY <1>1, <1>3 DEF InBreak
<1>9. /\ t = k + 2 * m + o /\ k + 2 * WorkStart <= t /\ t <= k + 2 * WorkEnd
  BY <1>1, <1>2, <1>3, <1>6, <1>7
<1> QED BY <1>1, <1>2, <1>3, <1>4, <1>7, <1>8, <1>9

\* The time between two instants of one working day.
LEMMA InDay ==
  ASSUME NEW d \in Nat, IsWorkingDay(d), NEW s \in Nat, NEW e \in Nat, s <= e,
         At(d, 0) <= s, e < At(d + 1, 0)
  PROVE  /\ TimeBetween(s, e) \in Nat
         /\ At(d, WorkEnd) <= s => TimeBetween(s, e) = 0
         /\ At(d, BreakStart) <= s /\ e <= At(d, BreakEnd) => TimeBetween(s, e) = 0
         /\ At(d, WorkStart) <= s /\ e <= At(d, BreakStart) => TimeBetween(s, e) = e - s
         /\ At(d, BreakEnd) <= s /\ e <= At(d, WorkEnd) => TimeBetween(s, e) = e - s
<1>1. At(d, 0) \in Nat /\ At(d + 1, 0) \in Nat
  BY WorkHours
<1>2. At(d, 0) <= e /\ s < At(d + 1, 0)
  BY <1>1
<1>3. DayOf(s) = d
  BY <1>2, DayIs
<1>4. DayOf(e) = d
  BY <1>2, DayIs
<1>5. TimeBetween(s, e) = Worked(s, e, d)
  BY <1>3, <1>4, WithinDay
<1>6. s \in Int /\ e \in Int /\ s <= s
  OBVIOUS
<1>7. /\ Worked(s, e, d) \in Nat
      /\ At(d, WorkEnd) <= s => Worked(s, e, d) = 0
      /\ At(d, BreakStart) <= s /\ e <= At(d, BreakEnd) => Worked(s, e, d) = 0
      /\ At(d, WorkStart) <= s /\ e <= At(d, BreakStart) => Worked(s, e, d) = e - s
      /\ At(d, BreakEnd) <= s /\ e <= At(d, WorkEnd) => Worked(s, e, d) = e - s
  BY <1>6, WorkedIs
<1> QED BY <1>5, <1>7

\* Of the time from t to e, in the day of t, what counts.
LEMMA DayTime ==
  ASSUME NEW d \in Nat, IsWorkingDay(d), NEW t \in Nat, NEW e \in Nat, t <= e,
         At(d, WorkStart) <= t, e < At(d + 1, 0)
  PROVE  /\ At(d, BreakEnd) <= t /\ t <= At(d, WorkEnd) =>
              /\ e <= At(d, WorkEnd) => TimeBetween(t, e) = e - t
              /\ At(d, WorkEnd) <= e => TimeBetween(t, e) = At(d, WorkEnd) - t
         /\ t <= At(d, BreakStart) =>
              /\ e <= At(d, BreakStart) => TimeBetween(t, e) = e - t
              /\ At(d, BreakStart) <= e /\ e <= At(d, BreakEnd) =>
                   TimeBetween(t, e) = At(d, BreakStart) - t
              /\ At(d, BreakEnd) <= e /\ e <= At(d, WorkEnd) =>
                   TimeBetween(t, e) = e - t - (At(d, BreakEnd) - At(d, BreakStart))
              /\ At(d, WorkEnd) <= e =>
                   TimeBetween(t, e) = At(d, WorkEnd) - t - (At(d, BreakEnd) - At(d, BreakStart))
<1>1. PICK a \in Nat, b \in Nat, c \in Nat, z \in Nat, k \in Nat, n \in Nat :
        /\ a = At(d, WorkStart) /\ b = At(d, BreakStart) /\ c = At(d, BreakEnd)
        /\ z = At(d, WorkEnd) /\ k = At(d, 0) /\ n = At(d + 1, 0)
        /\ k <= a /\ a < b /\ b <= c /\ c <= z /\ z < n
  BY WorkHours
<1>2. \A s \in Nat, f \in Nat : s <= f /\ k <= s /\ f < n =>
        /\ TimeBetween(s, f) \in Nat
        /\ z <= s => TimeBetween(s, f) = 0
        /\ b <= s /\ f <= c => TimeBetween(s, f) = 0
        /\ a <= s /\ f <= b => TimeBetween(s, f) = f - s
        /\ c <= s /\ f <= z => TimeBetween(s, f) = f - s
  BY <1>1, InDay
<1>3. \A s \in Nat, y \in Nat, f \in Nat : s <= y /\ y <= f =>
        TimeBetween(s, f) = TimeBetween(s, y) + TimeBetween(y, f)
  BY TimeAdds
<1>4. CASE c <= t /\ t <= z
  <2>1. e <= z => TimeBetween(t, e) = e - t
    BY <1>1, <1>2, <1>4
  <2>2. CASE z <= e
    <3>1. TimeBetween(t, e) = TimeBetween(t, z) + TimeBetween(z, e)
      BY <1>3, <1>4, <2>2
    <3>2. TimeBetween(t, z) = z - t
      BY <1>1, <1>2, <1>4
    <3>3. TimeBetween(z, e) = 0
      BY <1>1, <1>2, <1>4, <2>2
    <3>4. TimeBetween(t, e) = z - t
      BY <3>1, <3>2, <3>3
    <3>5. e <= z => e = z
      BY <2>2
    <3>6. ~ (t <= b) \/ (t = b /\ b = c)
      BY <1>1, <1>4
    <3> QED BY <1>1, <1>4, <2>1, <2>2, <3>4, <3>5, <3>6
  <2>3. e <= z \/ z <= e
    OBVIOUS
  <2>4. ~ (t <= b) \/ (t = b /\ b = c)
    BY <1>1, <1>4
  <2> QED BY <1>1, <1>4, <2>1, <2>2, <2>3, <2>4
<1>5. CASE t <= b
  <2>1. e <= b => TimeBetween(t, e) = e - t
    BY <1>1, <1>2, <1>5
  <2>2. b <= e => TimeBetween(t, e) = TimeBetween(t, b) + TimeBetween(b, e) /\ TimeBetween(t, b) = b - t
    <3>1. TimeBetween(t, b) = b - t
      BY <1>1, <1>2, <1>5
    <3>2. b <= e => TimeBetween(t, e) = TimeBetween(t, b) + TimeBetween(b, e)
      BY <1>3, <1>5
    <3> QED BY <3>1, <3>2
  <2>3. b <= e /\ e <= c => TimeBetween(b, e) = 0
    BY <1>1, <1>2
  <2>4. c <= e => TimeBetween(b, e) = TimeBetween(c, e)
    <3> SUFFICES ASSUME c <= e PROVE TimeBetween(b, e) = TimeBetween(c, e)
      OBVIOUS
    <3>1. TimeBetween(b, e) = TimeBetween(b, c) + TimeBetween(c, e)
      BY <1>1, <1>3
    <3>2. TimeBetween(b, c) = 0
      BY <1>1, <1>2
    <3>3. TimeBetween(c, e) \in Nat
      BY <1>1, <1>2
    <3> QED BY <3>1, <3>2, <3>3
  <2>5. c <= e /\ e <= z => TimeBetween(c, e) = e - c
    BY <1>1, <1>2
  <2>6. z <= e => TimeBetween(c, e) = z - c
    <3> SUFFICES ASSUME z <= e PROVE TimeBetween(c, e) = z - c
      OBVIOUS
    <3>1. TimeBetween(c, e) = TimeBetween(c, z) + TimeBetween(z, e)
      BY <1>1, <1>3
    <3>2. TimeBetween(c, z) = z - c
      BY <1>1, <1>2
    <3>3. TimeBetween(z, e) = 0
      BY <1>1, <1>2
    <3> QED BY <3>1, <3>2, <3>3
  <2>7. b <= e /\ e <= c => TimeBetween(t, e) = b - t
    BY <1>1, <2>2, <2>3
  <2>8. c <= e /\ e <= z => TimeBetween(t, e) = e - t - (c - b)
    BY <1>1, <2>2, <2>4, <2>5
  <2>9. z <= e => TimeBetween(t, e) = z - t - (c - b)
    BY <1>1, <2>2, <2>4, <2>6
  <2>10. ~ (c <= t) \/ (t = b /\ b = c)
    BY <1>1, <1>5
  <2> QED BY <1>1, <2>1, <2>7, <2>8, <2>9, <2>10
<1> QED BY <1>1, <1>4, <1>5

\* Of a day with a break from b to c and an end z, what counts from t to e.
Counts(b, c, z, t, e) ==
  IF c <= t
  THEN IF e <= z THEN e - t ELSE z - t
  ELSE IF e <= b THEN e - t
       ELSE IF e <= c THEN b - t
       ELSE IF e <= z THEN e - t - (c - b) ELSE z - t - (c - b)

\* The marks of the day of t: its break, its end and the next midnight; o is
\* the half minute of t.
DayMarks(t, o, b, c, z, n) ==
  /\ t \in Nat /\ o = t % 2 /\ n = At(DayOf(t) + 1, 0)
  /\ b <= c /\ c <= z /\ z + 1 < n /\ t <= z /\ (o = 0 \/ t < z)
  /\ z = At(DayOf(t), WorkEnd) /\ c - b = 2 * (BreakEnd - BreakStart)
  /\ \A e \in Nat : t <= e /\ e < n => TimeBetween(t, e) = Counts(b, c, z, t, e)
  /\ \/ /\ t < b /\ Available(MinuteOf(t)) = b - t + o + z - c
        /\ \A left \in Nat : CrossesBreak(MinuteOf(t), left) <=> left > b - t + o
     \/ /\ c <= t /\ Available(MinuteOf(t)) = z - t + o
        /\ \A left \in Nat : ~ CrossesBreak(MinuteOf(t), left)

\* Every instant at work has such marks.
LEMMA WorkLeft ==
  ASSUME NEW t, AtWork(t)
  PROVE  \E o \in {0, 1}, b \in Nat, c \in Nat, z \in Nat, n \in Nat : DayMarks(t, o, b, c, z, n)
<1>1. PICK d \in Nat, m \in Nat, o \in {0, 1}, k \in Nat :
        /\ d = DayOf(t) /\ m = MinuteOf(t) /\ o = t % 2 /\ IsWorkingDay(d)
        /\ t = k + 2 * m + o /\ k + 2 * WorkStart <= t /\ t <= k + 2 * WorkEnd
        /\ ~ (BreakStart <= m /\ m < BreakEnd)
        /\ At(d, 0) = k /\ At(d, WorkStart) = k + 2 * WorkStart
        /\ At(d, BreakStart) = k + 2 * BreakStart
        /\ At(d, BreakEnd) = k + 2 * BreakEnd /\ At(d, WorkEnd) = k + 2 * WorkEnd
        /\ At(d + 1, 0) = k + 2 * DayLength
  BY Marks
<1>2. t \in Nat
  BY DEF AtWork
<1>3. PICK ws \in Nat, bs \in Nat, be \in Nat, we \in Nat, dl \in Nat :
        /\ ws = WorkStart /\ bs = BreakStart /\ be = BreakEnd /\ we = WorkEnd /\ dl = DayLength
        /\ ws < bs /\ bs <= be /\ be <= we /\ we < dl
  BY CalendarAssumption
<1>4. /\ t = k + 2 * m + o /\ k + 2 * ws <= t /\ t <= k + 2 * we
      /\ ~ (bs <= m /\ m < be)
  BY <1>1, <1>2, <1>3
<1>5. PICK b \in Nat, c \in Nat, z \in Nat, n \in Nat :
        b = k + 2 * bs /\ c = k + 2 * be /\ z = k + 2 * we /\ n = k + 2 * dl
  OBVIOUS
<1>6. At(d, BreakStart) = b /\ At(d, BreakEnd) = c /\ At(d, WorkEnd) = z /\ At(d + 1, 0) = n
  BY <1>1, <1>3, <1>5
<1>7. At(d, WorkStart) <= t
  BY <1>1, <1>2
<1>8. b <= c /\ c <= z /\ z + 1 < n /\ t <= z /\ (o = 0 \/ t < z)
  BY <1>3, <1>4, <1>5
<1>9. (t < b /\ m < bs) \/ (c <= t /\ be <= m /\ m <= we)
  BY <1>3, <1>4, <1>5
<1>10. ASSUME NEW e \in Nat, t <= e, e < n
       PROVE  TimeBetween(t, e) = Counts(b, c, z, t, e)
  <2>1. /\ c <= t /\ t <= z =>
             /\ e <= z => TimeBetween(t, e) = e - t
             /\ z <= e => TimeBetween(t, e) = z - t
        /\ t <= b =>
             /\ e <= b => TimeBetween(t, e) = e - t
             /\ b <= e /\ e <= c => TimeBetween(t, e) = b - t
             /\ c <= e /\ e <= z => TimeBetween(t, e) = e - t - (c - b)
             /\ z <= e => TimeBetween(t, e) = z - t - (c - b)
    <3>1. e < At(d + 1, 0) /\ IsWorkingDay(d)
      BY <1>1, <1>6, <1>10
    <3>2. /\ At(d, BreakEnd) <= t /\ t <= At(d, WorkEnd) =>
               /\ e <= At(d, WorkEnd) => TimeBetween(t, e) = e - t
               /\ At(d, WorkEnd) <= e => TimeBetween(t, e) = At(d, WorkEnd) - t
          /\ t <= At(d, BreakStart) =>
               /\ e <= At(d, BreakStart) => TimeBetween(t, e) = e - t
               /\ At(d, BreakStart) <= e /\ e <= At(d, BreakEnd) =>
                    TimeBetween(t, e) = At(d, BreakStart) - t
               /\ At(d, BreakEnd) <= e /\ e <= At(d, WorkEnd) =>
                    TimeBetween(t, e) = e - t - (At(d, BreakEnd) - At(d, BreakStart))
               /\ At(d, WorkEnd) <= e =>
                    TimeBetween(t, e) = At(d, WorkEnd) - t - (At(d, BreakEnd) - At(d, BreakStart))
      BY <1>2, <1>7, <1>10, <3>1, DayTime
    <3> QED BY <1>6, <3>2
  <2> QED BY <1>2, <1>8, <1>9, <2>1 DEF Counts
<1>11. CASE t < b /\ m < bs
  <2>1. Available(m) = 2 * (bs - m + we - be)
    BY <1>3, <1>11, AvailableIs
  <2>2. 2 * (bs - m + we - be) = b - t + o + z - c
    BY <1>4, <1>5
  <2>3. ASSUME NEW left \in Nat PROVE CrossesBreak(m, left) <=> left > b - t + o
    <3>1. CrossesBreak(m, left) <=> 2 * m + left > 2 * bs
      BY <1>3, <1>11 DEF CrossesBreak
    <3> QED BY <1>4, <1>5, <3>1
  <2>4. c - b = 2 * (be - bs)
    BY <1>5
  <2>5. Available(m) = b - t + o + z - c
    BY <2>1, <2>2
  <2> QED
    <3>1. /\ t \in Nat /\ o = t % 2 /\ n = At(DayOf(t) + 1, 0)
          /\ b <= c /\ c <= z /\ z + 1 < n /\ t <= z /\ (o = 0 \/ t < z)
          /\ z = At(DayOf(t), WorkEnd) /\ c - b = 2 * (BreakEnd - BreakStart)
      BY <1>1, <1>2, <1>3, <1>6, <1>8, <2>4
    <3>2. \A e \in Nat : t <= e /\ e < n => TimeBetween(t, e) = Counts(b, c, z, t, e)
      BY <1>10
    <3>3. /\ t < b /\ Available(MinuteOf(t)) = b - t + o + z - c
          /\ \A left \in Nat : CrossesBreak(MinuteOf(t), left) <=> left > b - t + o
      BY <1>1, <1>11, <2>3, <2>5
    <3>4. DayMarks(t, o, b, c, z, n)
      BY <3>1, <3>2, <3>3, Zenon DEF DayMarks
    <3> QED BY <3>4
<1>12. CASE c <= t /\ be <= m /\ m <= we
  <2>1. Available(m) = 2 * (we - m)
    BY <1>3, <1>12, AvailableIs
  <2>2. Available(m) = z - t + o
    BY <1>4, <1>5, <2>1
  <2>3. ASSUME NEW left \in Nat PROVE ~ CrossesBreak(m, left)
    BY <1>3, <1>12 DEF CrossesBreak
  <2>4. c - b = 2 * (be - bs)
    BY <1>5
  <2> QED
    <3>1. /\ t \in Nat /\ o = t % 2 /\ n = At(DayOf(t) + 1, 0)
          /\ b <= c /\ c <= z /\ z + 1 < n /\ t <= z /\ (o = 0 \/ t < z)
          /\ z = At(DayOf(t), WorkEnd) /\ c - b = 2 * (BreakEnd - BreakStart)
      BY <1>1, <1>2, <1>3, <1>6, <1>8, <2>4
    <3>2. \A e \in Nat : t <= e /\ e < n => TimeBetween(t, e) = Counts(b, c, z, t, e)
      BY <1>10
    <3>3. /\ c <= t /\ Available(MinuteOf(t)) = z - t + o
          /\ \A left \in Nat : ~ CrossesBreak(MinuteOf(t), left)
      BY <1>1, <1>12, <2>2, <2>3
    <3>4. DayMarks(t, o, b, c, z, n)
      BY <3>1, <3>2, <3>3, Zenon DEF DayMarks
    <3> QED BY <3>4
<1> QED BY <1>9, <1>11, <1>12

\* What an instant at work leaves of its day is the time to the next opening.
LEMMA RestOfDay ==
  ASSUME NEW t, AtWork(t)
  PROVE  /\ t \in Nat /\ DayOf(t) + 1 \in Nat /\ Opening(DayOf(t) + 1) \in Nat
         /\ t < Opening(DayOf(t) + 1)
         /\ Available(MinuteOf(t)) \in Nat
         /\ TimeBetween(t, Opening(DayOf(t) + 1)) = Available(MinuteOf(t)) - (t % 2)
         /\ t % 2 \in {0, 1} /\ (t % 2 = 1 => Available(MinuteOf(t)) >= 2)
<1>1. PICK o \in {0, 1}, b \in Nat, c \in Nat, z \in Nat, n \in Nat : DayMarks(t, o, b, c, z, n)
  BY WorkLeft
<1>2. PICK d \in Nat : d = DayOf(t)
  BY <1>1, DayIs DEF DayMarks
<1>3. PICK a \in Nat : a = Available(MinuteOf(t))
  <2> MinuteOf(t) \in Nat
    BY <1>1, ClockIs DEF DayMarks
  <2> QED BY AvailableIs
<1>4. WorkEnd \in Nat /\ WorkEnd < DayLength
  BY CalendarAssumption
<1>5. PICK y \in Nat : y = Opening(d + 1)
  <2> d + 1 \in Nat
    OBVIOUS
  <2> QED BY OpeningIs
<1>6. DayOf(z) = d /\ MinuteOf(z) = WorkEnd
  <2>1. DayOf(At(d, WorkEnd) + 0) = d /\ MinuteOf(At(d, WorkEnd) + 0) = WorkEnd
    BY <1>4, AtClock
  <2>2. At(d, WorkEnd) + 0 = z
    BY <1>1, <1>2 DEF DayMarks
  <2> QED BY <2>1, <2>2
<1>7. z < y /\ TimeBetween(z, y) = 0
  <2>1. d + 1 \in Nat /\ d + 1 = DayOf(z) + 1 /\ ~ (MinuteOf(z) < WorkEnd)
    BY <1>4, <1>6
  <2>2. z < Opening(d + 1) /\ TimeBetween(z, Opening(d + 1)) = 0
    BY <2>1, Shut
  <2> QED BY <1>5, <2>2
<1>8. TimeBetween(t, y) = TimeBetween(t, z) + TimeBetween(z, y)
  BY <1>1, <1>7, TimeAdds DEF DayMarks
<1>9. TimeBetween(t, z) = Counts(b, c, z, t, z)
  BY <1>1 DEF DayMarks
<1>10. TimeBetween(t, z) = a - o /\ (o = 1 => a >= 2)
  BY <1>1, <1>3, <1>9 DEF Counts, DayMarks
<1> QED BY <1>1, <1>2, <1>3, <1>5, <1>7, <1>8, <1>10 DEF DayMarks

\* What due has of the time left, from t: short of it by a half minute at
\* most, not at all when t is on the minute, and less before due.
Meets(t, left, due) ==
  /\ due \in Nat /\ t < due
  /\ TimeBetween(t, due) \in {left - 1, left}
  /\ t % 2 = 0 => TimeBetween(t, due) = left
  /\ TimeBetween(t, due - 1) < left

\* The last leg, within the day.
LEMMA LastLeg ==
  ASSUME NEW t, AtWork(t), NEW left \in Nat \ {0}, left <= Available(MinuteOf(t))
  PROVE  Meets(t, left, Advance[<<t, left>>])
<1>1. PICK o \in {0, 1}, b \in Nat, c \in Nat, z \in Nat, n \in Nat : DayMarks(t, o, b, c, z, n)
  BY WorkLeft
<1>2. /\ t \in Nat /\ o = t % 2 /\ b <= c /\ c <= z /\ z + 1 < n /\ t <= z
      /\ \A e \in Nat : t <= e /\ e < n => TimeBetween(t, e) = Counts(b, c, z, t, e)
  BY <1>1 DEF DayMarks
<1> DEFINE due == Advance[<<t, left>>]
<1>3. left \in Nat /\ left # 0
  OBVIOUS
<1>4. /\ CrossesBreak(MinuteOf(t), left) => due = t + left + (c - b)
      /\ ~ CrossesBreak(MinuteOf(t), left) => due = t + left
  <2>1. c - b = 2 * (BreakEnd - BreakStart)
    BY <1>1 DEF DayMarks
  <2>2. /\ CrossesBreak(MinuteOf(t), left) => due = t + left + 2 * (BreakEnd - BreakStart)
        /\ ~ CrossesBreak(MinuteOf(t), left) => due = t + left
    BY <1>3, Loop
  <2> QED BY <2>1, <2>2
<1>5. /\ due \in Nat /\ due - 1 \in Nat /\ t < due /\ t <= due - 1 /\ due < n /\ due - 1 < n
      /\ Counts(b, c, z, t, due) \in {left - 1, left}
      /\ o = 0 => Counts(b, c, z, t, due) = left
      /\ Counts(b, c, z, t, due - 1) < left
  <2>1. CASE t < b /\ left > b - t + o
    <3>1. Available(MinuteOf(t)) = b - t + o + z - c /\ CrossesBreak(MinuteOf(t), left)
      BY <1>1, <1>2, <1>3, <2>1 DEF DayMarks
    <3>2. due = t + left + (c - b) /\ left <= b - t + o + z - c
      BY <1>4, <3>1
    <3> HIDE DEF due
    <3> QED BY <1>2, <1>3, <2>1, <3>2 DEF Counts
  <2>2. CASE t < b /\ ~ (left > b - t + o)
    <3>1. ~ CrossesBreak(MinuteOf(t), left)
      BY <1>1, <1>2, <1>3, <2>2 DEF DayMarks
    <3>2. due = t + left
      BY <1>4, <3>1
    <3> HIDE DEF due
    <3> QED BY <1>2, <1>3, <2>2, <3>2 DEF Counts
  <2>3. CASE c <= t
    <3>1. Available(MinuteOf(t)) = z - t + o /\ ~ CrossesBreak(MinuteOf(t), left)
      BY <1>1, <1>2, <1>3, <2>3 DEF DayMarks
    <3>2. due = t + left /\ left <= z - t + o
      BY <1>4, <3>1
    <3> HIDE DEF due
    <3> QED BY <1>2, <1>3, <2>3, <3>2 DEF Counts
  <2> QED BY <1>1, <2>1, <2>2, <2>3 DEF DayMarks
<1> HIDE DEF due
<1>6. /\ TimeBetween(t, due) = Counts(b, c, z, t, due)
      /\ TimeBetween(t, due - 1) = Counts(b, c, z, t, due - 1)
  BY <1>2, <1>5
<1>7. Meets(t, left, due)
  BY <1>2, <1>5, <1>6 DEF Meets
<1> QED BY <1>7 DEF due

\* A leg that uses up the day: what holds from the next opening holds from t.
LEMMA FirstLegs ==
  ASSUME NEW t, AtWork(t), NEW left \in Nat, left > Available(MinuteOf(t)),
         Meets(Opening(DayOf(t) + 1), left - Available(MinuteOf(t)), Advance[<<t, left>>])
  PROVE  Meets(t, left, Advance[<<t, left>>])
<1> DEFINE due == Advance[<<t, left>>]
<1>1. PICK y \in Nat, a \in Nat, o \in {0, 1} :
        /\ y = Opening(DayOf(t) + 1) /\ a = Available(MinuteOf(t)) /\ o = t % 2
        /\ t \in Nat /\ t < y /\ TimeBetween(t, y) = a - o /\ DayOf(t) + 1 \in Nat
  BY RestOfDay
<1>2. y % 2 = 0
  BY <1>1, OpeningIs
<1>3. /\ due \in Nat /\ y < due
      /\ TimeBetween(y, due) = left - a
      /\ TimeBetween(y, due - 1) < left - a
  BY <1>1, <1>2 DEF Meets
<1> HIDE DEF due
<1>4. due - 1 \in Nat /\ y <= due - 1 /\ y <= due /\ t <= y
  BY <1>1, <1>3
<1>5. /\ TimeBetween(t, due) = TimeBetween(t, y) + TimeBetween(y, due)
      /\ TimeBetween(t, due - 1) = TimeBetween(t, y) + TimeBetween(y, due - 1)
  BY <1>1, <1>3, <1>4, TimeAdds
<1>6. TimeBetween(y, due - 1) \in Nat
  BY <1>4, TimeIsNat
<1>7. /\ TimeBetween(t, due) = left - o
      /\ TimeBetween(t, due - 1) < left
  BY <1>1, <1>3, <1>5, <1>6
<1>8. Meets(t, left, due)
  BY <1>1, <1>3, <1>4, <1>7 DEF Meets
<1> QED BY <1>8 DEF due

(* The loop adds the time it is asked to add: by the least time for which it *)
(* would not, and, when the day is used up, the next opening.               *)
LEMMA AdvanceMeets ==
  ASSUME NEW t, AtWork(t), NEW left \in Nat \ {0}
  PROVE  Meets(t, left, Advance[<<t, left>>])
<1> DEFINE Fails(n) == \E s : AtWork(s) /\ ~ Meets(s, n, Advance[<<s, n>>])
           Bad == {n \in Nat \ {0} : Fails(n)}
<1> SUFFICES Bad = {}
  OBVIOUS
<1> SUFFICES ASSUME Bad # {} PROVE FALSE
  OBVIOUS
<1>1. PICK n \in Bad : \A k \in Bad : n <= k
  <2> Bad \in SUBSET Nat
    OBVIOUS
  <2> HIDE DEF Bad
  <2> QED BY LeastOf
<1>2. n \in Nat \ {0} /\ n \in Nat /\ n # 0
  OBVIOUS
<1>3. ASSUME NEW s, AtWork(s), NEW k \in Nat \ {0}, k < n
      PROVE  Meets(s, k, Advance[<<s, k>>])
  <2>1. k \notin Bad
    <3> HIDE DEF Bad
    <3> QED BY <1>1, <1>2, <1>3
  <2> QED BY <1>3, <2>1
<1>4. ASSUME NEW s, AtWork(s) PROVE /\ DayOf(s) + 1 \in Nat
                                    /\ AtWork(Opening(DayOf(s) + 1))
                                    /\ MinuteOf(Opening(DayOf(s) + 1)) = WorkStart
                                    /\ Available(MinuteOf(s)) \in Nat
  <2>1. DayOf(s) + 1 \in Nat /\ Available(MinuteOf(s)) \in Nat
    BY <1>4, RestOfDay
  <2> QED BY <2>1, OpeningIs
\* A day that has time left.
<1>5. ASSUME NEW s, AtWork(s), Available(MinuteOf(s)) > 0
      PROVE  Meets(s, n, Advance[<<s, n>>])
  <2>1. PICK a \in Nat : a = Available(MinuteOf(s))
    BY <1>4, <1>5
  <2>2. CASE n <= a
    BY <1>2, <1>5, <2>1, <2>2, LastLeg
  <2>3. CASE n > a
    <3>1. Advance[<<s, n>>] = Advance[<<Opening(DayOf(s) + 1), n - a>>]
      BY <1>2, <1>5, <2>1, <2>3, Loop
    <3>2. n - a \in Nat \ {0} /\ n - a < n
      BY <1>2, <1>5, <2>1, <2>3
    <3>3. Meets(Opening(DayOf(s) + 1), n - a, Advance[<<Opening(DayOf(s) + 1), n - a>>])
      BY <1>3, <1>4, <1>5, <3>2
    <3> QED BY <1>2, <1>5, <2>1, <2>3, <3>1, <3>3, FirstLegs
  <2> QED BY <1>2, <2>1, <2>2, <2>3
\* Any day: the next opening has.
<1>6. ASSUME NEW s, AtWork(s) PROVE Meets(s, n, Advance[<<s, n>>])
  <2>1. PICK a \in Nat : a = Available(MinuteOf(s))
    BY <1>4, <1>6
  <2>2. CASE a > 0
    BY <1>5, <1>6, <2>1, <2>2
  <2>3. CASE a = 0
    <3>1. n > a /\ n - a = n
      BY <1>2, <2>3
    <3>2. Advance[<<s, n>>] = Advance[<<Opening(DayOf(s) + 1), n>>]
      BY <1>2, <1>6, <2>1, <3>1, Loop
    <3>3. Available(WorkStart) > 0
      <4> WorkStart \in Nat
        BY CalendarAssumption
      <4> QED BY AvailableIs
    <3>4. Meets(Opening(DayOf(s) + 1), n, Advance[<<Opening(DayOf(s) + 1), n>>])
      BY <1>4, <1>5, <1>6, <3>3
    <3> QED BY <1>2, <1>6, <2>1, <3>1, <3>2, <3>4, FirstLegs
  <2> QED BY <2>1, <2>2, <2>3
<1> QED BY <1>6

(* addBusinessHours is the inverse of workingMinutesBetween, on every       *)
(* calendar: what it adds is what has passed, or a half minute less when it *)
(* starts off the minute, and any earlier instant is too early.             *)
THEOREM AddTimeMeets ==
  ASSUME NEW t \in Nat, NEW left \in Nat
  PROVE  /\ AddTime(t, left) \in Nat /\ t <= AddTime(t, left)
         /\ TimeBetween(t, AddTime(t, left)) \in {left - 1, left}
         /\ left = 0 \/ t % 2 = 0 => TimeBetween(t, AddTime(t, left)) = left
         /\ left # 0 => t < AddTime(t, left) /\ TimeBetween(t, AddTime(t, left) - 1) < left
<1>1. PICK n \in Nat : /\ n = Normalized(t) /\ t <= n /\ AtWork(n)
                       /\ TimeBetween(t, n) = 0 /\ (n = t \/ n % 2 = 0)
  BY NormalizedIs
<1> DEFINE due == AddTime(t, left)
<1>2. due = Advance[<<n, left>>]
  BY <1>1 DEF AddTime
<1>3. CASE left = 0
  <2>1. due = n
    BY <1>1, <1>2, <1>3, Loop
  <2> QED BY <1>1, <1>3, <2>1
<1>4. CASE left # 0
  <2>1. Meets(n, left, due)
    BY <1>1, <1>2, <1>4, AdvanceMeets
  <2> HIDE DEF due
  <2>2. /\ due \in Nat /\ n < due
        /\ TimeBetween(n, due) \in {left - 1, left}
        /\ n % 2 = 0 => TimeBetween(n, due) = left
        /\ TimeBetween(n, due - 1) < left
    BY <2>1 DEF Meets
  <2>3. due - 1 \in Nat /\ n <= due - 1 /\ n <= due
    BY <2>2
  <2>4. /\ TimeBetween(t, due) = TimeBetween(t, n) + TimeBetween(n, due)
        /\ TimeBetween(t, due - 1) = TimeBetween(t, n) + TimeBetween(n, due - 1)
    BY <1>1, <2>2, <2>3, TimeAdds
  <2>5. TimeBetween(n, due - 1) \in Nat
    BY <2>3, TimeIsNat
  <2>6. TimeBetween(t, due) = TimeBetween(n, due) /\ TimeBetween(t, due - 1) = TimeBetween(n, due - 1)
    BY <1>1, <2>2, <2>4, <2>5
  <2>7. t % 2 = 0 => n % 2 = 0
    BY <1>1
  <2>8. /\ due \in Nat /\ t <= due /\ t < due
        /\ TimeBetween(t, due) \in {left - 1, left}
        /\ left = 0 \/ t % 2 = 0 => TimeBetween(t, due) = left
        /\ TimeBetween(t, due - 1) < left
    BY <1>1, <1>4, <2>2, <2>6, <2>7
  <2> QED BY <2>8 DEF due
<1> QED BY <1>3, <1>4

-----------------------------------------------------------------------------
(* The deadlines of submissions.                                            *)

\* Type of Steps.
LEMMA StepsType ==
  ASSUME NEW n \in Nat
  PROVE  Steps(n) \in Nat /\ (n # 0 => Steps(n) # 0)
<1>1. 2 * Minutes \in Nat /\ 2 * Minutes > 0
  BY ReadingAssumption
<1> DEFINE k == 2 * Minutes
<1>2. k \in Nat /\ k > 0 /\ Steps(n) = k * n
  BY <1>1 DEF Steps
<1> HIDE DEF k
<1>3. k * n \in Nat /\ (n # 0 => k * n # 0)
  BY <1>2
<1> QED BY <1>2, <1>3

(* The due date is reached when the time has passed and not before, for     *)
(* every calendar, every instant and every stretch of time: what addTime    *)
(* adds is what the working time between counts, but for the seconds.       *)
THEOREM TimesFallDue ==
  ASSUME NEW n \in Nat \ {0}
  PROVE  IsDue(n)
<1> SUFFICES ASSUME NEW t \in SentIn
             PROVE  LET due == AddTime(t, Steps(n)) IN
                    /\ Close(TimeBetween(t, due), Steps(n))
                    /\ t % 2 = 0 => TimeBetween(t, due) = Steps(n)
                    /\ TimeBetween(t, due - 1) < Steps(n)
  BY DEF IsDue
<1>1. t \in Nat
  BY ReadingAssumption
<1>2. PICK left \in Nat : left = Steps(n) /\ left # 0
  BY StepsType
<1> DEFINE due == AddTime(t, left)
<1>3. /\ TimeBetween(t, due) \in {left - 1, left}
      /\ left = 0 \/ t % 2 = 0 => TimeBetween(t, due) = left
      /\ left # 0 => t < due /\ TimeBetween(t, due - 1) < left
  BY <1>1, AddTimeMeets
<1> HIDE DEF due
<1>4. Close(TimeBetween(t, due), left)
  BY <1>3 DEF Close
<1> QED BY <1>2, <1>3, <1>4 DEF due

\* The time between two instants, by what has passed since the first day.
LEMMA Difference ==
  ASSUME NEW a \in Nat, NEW b \in Nat
  PROVE  /\ TimeBetween(0, a) \in Nat /\ TimeBetween(0, b) \in Nat
         /\ a <= b => TimeBetween(a, b) = TimeBetween(0, b) - TimeBetween(0, a)
         /\ b <= a => TimeBetween(a, b) = 0 /\ TimeBetween(0, b) <= TimeBetween(0, a)
<1>1. TimeBetween(0, a) \in Nat /\ TimeBetween(0, b) \in Nat
  BY TimeIsNat
<1>2. TimeBetween(a, b) \in Nat /\ TimeBetween(b, a) \in Nat
  BY TimeIsNat
<1>3. a <= b => TimeBetween(0, b) = TimeBetween(0, a) + TimeBetween(a, b)
  BY TimeAdds
<1>4. b <= a => TimeBetween(0, a) = TimeBetween(0, b) + TimeBetween(b, a)
  BY TimeAdds
<1>5. b <= a => TimeBetween(a, b) = 0
  BY DEF TimeBetween
<1> QED BY <1>1, <1>2, <1>3, <1>4, <1>5

(* A pause costs the desk nothing, for every calendar, whenever the pause   *)
(* begins and ends: by day, by night or after the due date.                 *)
THEOREM PausesCostNothing ==
  ASSUME NEW p \in Nat, NEW n \in Nat, NEW d \in Nat
  PROVE  KeepsRest(p, n, d)
<1> SUFFICES ASSUME NEW t \in SentIn, NEW from \in Reading(t, p), NEW to \in Reading(t, n),
                    from <= to
             PROVE  LET due == AddTime(t, Steps(d))
                        moved == AddTime(due, TimeBetween(from, to))
                    IN  Close(TimeBetween(to, moved), TimeBetween(from, due))
  BY DEF KeepsRest
<1>1. t \in Nat /\ from \in Nat /\ to \in Nat
  BY ReadingAssumption DEF Reading
<1>2. PICK due \in Nat : due = AddTime(t, Steps(d))
  BY <1>1, StepsType, AddTimeMeets
<1>3. PICK pause \in Nat : pause = TimeBetween(from, to)
  BY <1>1, TimeIsNat
<1>4. PICK moved \in Nat : /\ moved = AddTime(due, pause) /\ due <= moved
                           /\ TimeBetween(due, moved) \in {pause - 1, pause}
                           /\ pause = 0 => TimeBetween(due, moved) = pause
  BY AddTimeMeets
<1> DEFINE C(x) == TimeBetween(0, x)
<1>5. C(due) \in Nat /\ C(moved) \in Nat /\ C(from) \in Nat /\ C(to) \in Nat
  BY <1>1, TimeIsNat
<1>6. C(moved) = C(due) + TimeBetween(due, moved)
  <2>1. TimeBetween(due, moved) = C(moved) - C(due)
    BY <1>4, Difference
  <2> HIDE DEF C
  <2> QED BY <1>4, <1>5, <2>1
<1>7. C(to) = C(from) + pause
  <2>1. TimeBetween(from, to) = C(to) - C(from)
    BY <1>1, Difference
  <2> HIDE DEF C
  <2> QED BY <1>3, <1>5, <2>1
<1>8. /\ to <= moved => TimeBetween(to, moved) = C(moved) - C(to)
      /\ moved <= to => TimeBetween(to, moved) = 0 /\ C(moved) <= C(to)
  BY <1>1, Difference
<1>9. /\ from <= due => TimeBetween(from, due) = C(due) - C(from)
      /\ due <= from => TimeBetween(from, due) = 0 /\ C(due) <= C(from)
  BY <1>1, Difference
<1>10. TimeBetween(to, moved) \in Nat /\ TimeBetween(from, due) \in Nat
  BY <1>1, TimeIsNat
<1> HIDE DEF C
<1>11. Close(TimeBetween(to, moved), TimeBetween(from, due))
  BY <1>1, <1>4, <1>5, <1>6, <1>7, <1>8, <1>9, <1>10 DEF Close
<1> QED BY <1>2, <1>3, <1>4, <1>11

-----------------------------------------------------------------------------
\* The corrections fit into the time since the start, and a due date is that
\* of the target and of some of the time of correction.
Dated ==
  \A s \in Submission :
    /\ row[s].startedAt + held[s] <= clock
    /\ row[s].dueAt # Never =>
         /\ row[s].startedAt # Never
         /\ row[s].startedAt + Allowance <= row[s].dueAt
         /\ row[s].dueAt <= row[s].startedAt + Allowance + held[s]

\* A step brings a submission to the desk, or leaves its dates as they are;
\* and no correction takes more time than passes.
Kept(s) ==
  /\ \/ row'[s].status \in AtDesk
     \/ /\ row'[s].dueAt = row[s].dueAt /\ row'[s].startedAt = row[s].startedAt
        /\ held'[s] >= held[s]
  /\ \/ row'[s].startedAt + held'[s] <= clock'
     \/ row'[s].startedAt = row[s].startedAt /\ held'[s] - held[s] <= clock' - clock

\* A step that writes one row.
LEMMA OneRowKept ==
  ASSUME TypeOK, NEW s \in Submission, NEW new, row' = [row EXCEPT ![s] = new], held' = held,
         clock' = clock,
         \/ new.status \in AtDesk
         \/ new.dueAt = row[s].dueAt /\ new.startedAt = row[s].startedAt,
         new.startedAt = row[s].startedAt \/ new.startedAt + held[s] <= clock
  PROVE  \A t \in Submission : Kept(t)
<1> SUFFICES ASSUME NEW t \in Submission PROVE Kept(t)
  OBVIOUS
<1>1. row'[t] = (IF t = s THEN new ELSE row[t]) /\ held'[t] = held[t] /\ held[t] \in Nat
  BY DEF TypeOK
<1>2. held'[t] >= held[t] /\ held'[t] - held[t] <= clock' - clock
  <2>1. clock \in Nat
    BY BoundAssumption DEF TypeOK
  <2> QED BY <1>1, <2>1
<1> QED BY <1>1, <1>2 DEF Kept

\* Every step does so.
LEMMA DatesKept ==
  ASSUME Types, Clocked, [Next]_vars
  PROVE  \A s \in Submission : Kept(s)
<1>1. /\ TypeOK /\ row \in [Submission -> Row] /\ held \in [Submission -> Nat]
      /\ clock \in Nat
  BY BoundAssumption DEF Types, TypeOK
<1>2. \A r \in Request : job[r].op # "idle" => job[r].sub \in Submission
  BY <1>1, JobFields
<1>3. ASSUME row' = row, held' = held, clock' = clock PROVE \A s \in Submission : Kept(s)
  <2>1. \A s \in Submission : held[s] >= held[s] /\ held[s] - held[s] <= clock - clock
    BY <1>1
  <2> QED BY <1>3, <2>1 DEF Kept
<1>4. ASSUME NEW s \in Submission, CreateDraft(s) PROVE \A q \in Submission : Kept(q)
  <2>1. PICK v \in Service :
          row' = [row EXCEPT ![s] = [row[s] EXCEPT !.status = "DRAFT", !.service = v]]
    BY <1>1, <1>4 DEF CreateDraft, Row
  <2> DEFINE new == [row[s] EXCEPT !.status = "DRAFT", !.service = v]
  <2>2. new.dueAt = row[s].dueAt /\ new.startedAt = row[s].startedAt
    BY <1>1 DEF Row
  <2>3. row' = [row EXCEPT ![s] = new] /\ held' = held /\ clock' = clock
    BY <1>4, <2>1 DEF CreateDraft
  <2> HIDE DEF new
  <2> QED BY <1>1, <2>2, <2>3, OneRowKept
<1>5. ASSUME NEW r \in Request, Submit(r) PROVE \A q \in Submission : Kept(q)
  <2> DEFINE s == job[r].sub
             number == job[r].number
  <2>1. s \in Submission /\ row[s] \in Row
    BY <1>1, <1>2, <1>5 DEF Submit
  <2>2. PICK d : Write(r, s, [row[s] EXCEPT
                       !.status = "SUBMITTED", !.number = number, !.submittedOn = d,
                       !.startedAt = clock, !.dueAt = clock + Allowance,
                       !.elapsed = 0, !.pausedHours = 0,
                       !.pausedAt = Never, !.stoppedAt = Never, !.sla = "RUNNING"])
    BY <1>5 DEF Submit
  <2> DEFINE new == [row[s] EXCEPT
                       !.status = "SUBMITTED", !.number = number, !.submittedOn = d,
                       !.startedAt = clock, !.dueAt = clock + Allowance,
                       !.elapsed = 0, !.pausedHours = 0,
                       !.pausedAt = Never, !.stoppedAt = Never, !.sla = "RUNNING"]
  <2>3. new.status \in AtDesk /\ new.startedAt = clock
    <3> HIDE DEF s, number
    <3> QED BY <2>1 DEF Row, AtDesk
  <2>4. held[s] = 0
    <3>1. row[s].status = "DRAFT" /\ GoodRow(row[s], held[s])
      BY <1>5, <2>1 DEF Submit, Clocked
    <3> QED BY <3>1 DEF GoodRow, Unsent
  <2>5. clock + held[s] <= clock
    BY <1>1, <2>4
  <2>6. row' = [row EXCEPT ![s] = new] /\ held' = held /\ clock' = clock
    BY <2>2 DEF Write
  <2> HIDE DEF new, s
  <2> QED BY <1>1, <2>1, <2>3, <2>5, <2>6, OneRowKept
<1>6. ASSUME NEW r \in Request, Cancel(r) PROVE \A q \in Submission : Kept(q)
  <2> DEFINE s == job[r].sub
             new == [row[s] EXCEPT !.status = "CANCELLED", !.stoppedAt = clock,
                                   !.sla = "CANCELLED"]
  <2>1. s \in Submission /\ row[s] \in Row /\ Write(r, s, new)
    BY <1>1, <1>2, <1>6 DEF Cancel
  <2>2. new.dueAt = row[s].dueAt /\ new.startedAt = row[s].startedAt
    <3> HIDE DEF s
    <3> QED BY <2>1 DEF Row
  <2>3. row' = [row EXCEPT ![s] = new] /\ held' = held /\ clock' = clock
    BY <2>1 DEF Write
  <2> HIDE DEF new, s
  <2> QED BY <1>1, <2>1, <2>2, <2>3, OneRowKept
<1>7. ASSUME NEW r \in Request, SubmitCorrection(r) PROVE \A q \in Submission : Kept(q)
  <2> DEFINE s == job[r].sub
             before == job[r].before
             pause == IF before.pausedAt = Never THEN 0 ELSE clock - before.pausedAt
             due == IF before.dueAt = Never THEN Never ELSE before.dueAt + pause
             run == SlaAtDesk([before EXCEPT !.pausedAt = Never, !.dueAt = due])
             hours == before.pausedHours + WholeHours(pause)
             new == [row[s] EXCEPT
                       !.status = "CORRECTION_SUBMITTED", !.pausedAt = Never,
                       !.pausedHours = hours, !.dueAt = due, !.sla = run]
  <2>1. s \in Submission /\ row[s] \in Row /\ Write(r, s, new)
    BY <1>1, <1>2, <1>7 DEF SubmitCorrection
  <2>2. new.status \in AtDesk /\ new.startedAt = row[s].startedAt
    <3> HIDE DEF s, due, hours, run
    <3> QED BY <2>1 DEF Row, AtDesk
  <2>3. row' = [row EXCEPT ![s] = new] /\ held' = held /\ clock' = clock
    BY <2>1 DEF Write
  <2> HIDE DEF new, s
  <2> QED BY <1>1, <2>1, <2>2, <2>3, OneRowKept
<1>8. ASSUME NEW r \in Request, Update(r) PROVE \A q \in Submission : Kept(q)
  <2> DEFINE s == job[r].sub
             new == [row[s] EXCEPT !.service = job[r].service]
  <2>1. s \in Submission /\ row[s] \in Row /\ Write(r, s, new)
    BY <1>1, <1>2, <1>8 DEF Update
  <2>2. new.dueAt = row[s].dueAt /\ new.startedAt = row[s].startedAt
    <3> HIDE DEF s
    <3> QED BY <2>1 DEF Row
  <2>3. row' = [row EXCEPT ![s] = new] /\ held' = held /\ clock' = clock
    BY <2>1 DEF Write
  <2> HIDE DEF new, s
  <2> QED BY <1>1, <2>1, <2>2, <2>3, OneRowKept
<1>9. ASSUME NEW r \in Request, Decide(r) PROVE \A q \in Submission : Kept(q)
  <2> DEFINE s == job[r].sub
             a == job[r].op
             before == job[r].before
             hours == Elapsed(before)
             new == Decided(a, row[s], before)
  <2>1. s \in Submission /\ row[s] \in Row
    BY <1>1, <1>2, <1>9 DEF Decide, Desk
  <2>2. new.dueAt = row[s].dueAt /\ new.startedAt = row[s].startedAt
    <3> HIDE DEF s, a, before
    <3> QED BY <2>1 DEF Decided, Row
  <2>3. row' = [row EXCEPT ![s] = new] /\ held' = held /\ clock' = clock
    BY <1>9 DEF Decide
  <2> HIDE DEF new, s
  <2> QED BY <1>1, <2>1, <2>2, <2>3, OneRowKept
<1>10. CASE Tick
  <2>1. row' = row /\ clock' = clock + 1
    BY <1>10 DEF Tick
  <2>2. ASSUME NEW s \in Submission
        PROVE  held'[s] >= held[s] /\ held'[s] - held[s] <= clock' - clock
    <3>1. /\ held[s] \in Nat
          /\ held'[s] = IF row[s].status = "NEEDS_CORRECTION" THEN held[s] + 1 ELSE held[s]
      BY <1>1, <1>10 DEF Tick
    <3> QED BY <1>1, <2>1, <3>1
  <2> QED BY <2>1, <2>2 DEF Kept
<1>11. ASSUME NEW r \in Request,
              BeginComplete(r) \/ GenerateCandidate(r) \/ Refused(r) \/ RequestFails(r) \/ Upload(r)
       PROVE  \A q \in Submission : Kept(q)
  BY <1>3, <1>11 DEF BeginComplete, GenerateCandidate, Refused, RequestFails, Upload
<1>12. ASSUME NEW r \in Request, NEW s \in Submission, Begins(r, s)
       PROVE  \A q \in Submission : Kept(q)
  <2>1. row' = row /\ held' = held /\ clock' = clock
    BY <1>12 DEF Begins, BeginSubmit, BeginCancel, BeginCorrection, BeginUpdate, Assess,
                 BeginUpload, BeginDesk, Begin
  <2> QED BY <1>3, <2>1
<1>13. ASSUME NEW s \in Submission, UploadInternal(s) \/ ReviewDocument(s)
       PROVE  \A q \in Submission : Kept(q)
  BY <1>3, <1>13 DEF UploadInternal, ReviewDocument
<1>14. CASE Midnight \/ UNCHANGED vars
  BY <1>3, <1>14 DEF Midnight, vars
<1> QED
  BY <1>4, <1>5, <1>6, <1>7, <1>8, <1>9, <1>10, <1>11, <1>12, <1>13, <1>14 DEF Next, Ends

\* Dates stay within the time of correction.
LEMMA DatedStep == Types /\ Types' /\ Clocked /\ Clocked' /\ Dated /\ [Next]_vars => Dated'
<1> SUFFICES ASSUME Types, Types', Clocked, Clocked', Dated, [Next]_vars PROVE Dated'
  OBVIOUS
<1> SUFFICES ASSUME NEW s \in Submission
             PROVE  /\ row'[s].startedAt + held'[s] <= clock'
                    /\ row'[s].dueAt # Never =>
                         /\ row'[s].startedAt # Never
                         /\ row'[s].startedAt + Allowance <= row'[s].dueAt
                         /\ row'[s].dueAt <= row'[s].startedAt + Allowance + held'[s]
  BY DEF Dated
<1>1. /\ row[s] \in Row /\ row'[s] \in Row /\ held[s] \in Nat /\ held'[s] \in Nat
      /\ Allowance \in Nat /\ clock \in Nat /\ clock' \in Nat
  BY AllowanceType, BoundAssumption DEF Types, TypeOK
<1>2. /\ row'[s].startedAt \in Int /\ row'[s].dueAt \in Int
      /\ row[s].startedAt \in Int /\ row[s].dueAt \in Int
  BY <1>1, RowFields DEF Time, Never
<1>3. row'[s].startedAt + held'[s] <= clock'
  <2>1. \/ row'[s].startedAt + held'[s] <= clock'
        \/ row'[s].startedAt = row[s].startedAt /\ held'[s] - held[s] <= clock' - clock
    BY DatesKept DEF Kept
  <2> QED BY <1>1, <1>2, <2>1 DEF Dated
<1>4. ASSUME row'[s].dueAt # Never
      PROVE  /\ row'[s].startedAt # Never
             /\ row'[s].startedAt + Allowance <= row'[s].dueAt
             /\ row'[s].dueAt <= row'[s].startedAt + Allowance + held'[s]
  <2>1. CASE row'[s].status \in AtDesk
    <3>1. GoodRow(row[s], held[s])'
      BY DEF Clocked
    <3>2. row'[s].startedAt # Never /\ row'[s].dueAt = row'[s].startedAt + Allowance + held'[s]
      BY <2>1, <3>1 DEF GoodRow, Sound
    <3> QED BY <1>1, <1>2, <3>2
  <2>2. CASE row'[s].status \notin AtDesk
    <3>1. /\ row'[s].dueAt = row[s].dueAt /\ row'[s].startedAt = row[s].startedAt
          /\ held'[s] >= held[s]
      BY <2>2, DatesKept DEF Kept
    <3> QED BY <1>1, <1>2, <1>4, <3>1 DEF Dated
  <2> QED BY <2>1, <2>2
<1> QED BY <1>3, <1>4

\* All invariants together.
LEMMA DatesAlways == Spec => [](Types /\ Clocked /\ Dated)
<1>1. Init => Dated
  <2>1. EmptyRow.startedAt = Never /\ EmptyRow.dueAt = Never
    BY DEF EmptyRow
  <2> QED BY <2>1 DEF Init, Dated, Never
<1> QED BY <1>1, ClockedAlways, TypesStep, ClockedStep, DatedStep, PTL DEF Spec

\* The times of a row are in the tables.
LEMMA InTables ==
  ASSUME Types, Clocked, Dated, NEW s \in Submission, row[s].dueAt # Never
  PROVE  /\ row[s].dueAt - row[s].startedAt \in Allowed
         /\ clock - row[s].startedAt \in 0 .. MaxClock
         /\ row[s].status = "NEEDS_CORRECTION" /\ row[s].pausedAt # Never =>
              row[s].pausedAt - row[s].startedAt \in 0 .. MaxClock
<1>1. /\ row[s] \in Row /\ held[s] \in Nat /\ Allowance \in Nat /\ MaxClock \in Nat
      /\ clock \in Nat /\ clock <= MaxClock /\ row[s].pausedAt <= clock
  BY AllowanceType, BoundAssumption DEF Types, TypeOK, PastPauses
<1>2. /\ row[s].startedAt \in Int /\ row[s].dueAt \in Int /\ row[s].pausedAt \in Int
      /\ row[s].startedAt # Never => row[s].startedAt \in Nat
  BY <1>1, RowFields DEF Time, Never
<1>3. /\ row[s].startedAt # Never
      /\ row[s].startedAt + Allowance <= row[s].dueAt
      /\ row[s].dueAt <= row[s].startedAt + Allowance + held[s]
  BY DEF Dated
<1>4. row[s].startedAt + held[s] <= clock
  BY DEF Dated
<1>5. row[s].dueAt - row[s].startedAt \in Allowance .. (Allowance + MaxClock)
  BY <1>1, <1>2, <1>3, <1>4
<1>6. clock - row[s].startedAt \in 0 .. MaxClock
  BY <1>1, <1>2, <1>3, <1>4
<1>7. ASSUME row[s].status = "NEEDS_CORRECTION"
      PROVE  row[s].pausedAt - row[s].startedAt \in 0 .. MaxClock
  <2>1. row[s].dueAt + (clock - row[s].pausedAt) = row[s].startedAt + Allowance + held[s]
    BY <1>7 DEF Clocked, GoodRow, Accounts
  <2> QED BY <1>1, <1>2, <1>3, <1>4, <2>1
<1> QED BY <1>5, <1>6, <1>7 DEF Allowed

(* The deadline of every submission is the end of its working hours, on     *)
(* every calendar: DeadlineIsWorkingTime of the run opd.                    *)
THEOREM DeadlinesAreRight == Spec => []DeadlineIsWorkingTime
<1>1. Types /\ Clocked /\ Dated => DeadlineIsWorkingTime
  <2> SUFFICES ASSUME Types, Clocked, Dated, NEW s \in Submission, row[s].dueAt # Never
               PROVE  DueTable[row[s].dueAt - row[s].startedAt]
    BY DEF DeadlineIsWorkingTime
  <2> DEFINE d == row[s].dueAt - row[s].startedAt
  <2>1. d \in Allowed
    BY InTables
  <2> HIDE DEF d
  <2>2. d \in Nat \ {0}
    <3>1. Allowance # 0
      <4>1. /\ Target \in Nat /\ Target # 0 /\ Hour \in Nat /\ Hour # 0
        BY BoundAssumption, ReadingAssumption
      <4>2. Target >= 1 /\ Hour >= 1 => Target * Hour >= 1
        BY <4>1
      <4> QED BY <4>1, <4>2 DEF Allowance
    <3> QED BY <2>1, <3>1, AllowanceType, BoundAssumption DEF Allowed
  <2>3. IsDue(d)
    BY <2>2, TimesFallDue
  <2>4. DueTable[d] = IsDue(d)
    BY <2>1 DEF DueTable
  <2>5. DueTable[d]
    BY <2>3, <2>4
  <2> QED BY <2>5 DEF d
<1> QED BY <1>1, DatesAlways, PTL

(* When the OPD answers a correction the desk has the working time it had   *)
(* when the pause began, on every calendar: PauseKeepsTheRest of the run    *)
(* opd.                                                                     *)
THEOREM RestIsKept == Spec => []PauseKeepsTheRest
<1>1. Types /\ Clocked /\ Dated => PauseKeepsTheRest
  <2> SUFFICES ASSUME Types, Clocked, Dated, NEW s \in Submission,
                      row[s].status = "NEEDS_CORRECTION", row[s].pausedAt # Never,
                      row[s].dueAt # Never
               PROVE  RestTable[row[s].pausedAt - row[s].startedAt][clock - row[s].startedAt]
                       [row[s].dueAt - row[s].startedAt]
    BY DEF PauseKeepsTheRest
  <2> DEFINE p == row[s].pausedAt - row[s].startedAt
             n == clock - row[s].startedAt
             d == row[s].dueAt - row[s].startedAt
  <2>1. p \in 0 .. MaxClock /\ n \in 0 .. MaxClock /\ d \in Allowed
    BY InTables
  <2> HIDE DEF p, n, d
  <2>2. p \in Nat /\ n \in Nat /\ d \in Nat
    BY <2>1, AllowanceType, BoundAssumption DEF Allowed
  <2>3. KeepsRest(p, n, d)
    BY <2>2, PausesCostNothing
  <2>4. RestTable[p][n][d] = (p <= n /\ d <= Allowance + p => KeepsRest(p, n, d))
    BY <2>1 DEF RestTable
  <2>5. RestTable[p][n][d]
    BY <2>3, <2>4
  <2> QED BY <2>5 DEF p, n, d
<1> QED BY <1>1, DatesAlways, PTL

=============================================================================
