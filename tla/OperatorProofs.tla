--------------------------- MODULE OperatorProofs ---------------------------
(***************************************************************************)
(* What the other proofs need of sets, numbers and recursive functions,    *)
(* and what the calendar of the number formatter returns.                  *)
(*                                                                         *)
(* Least and greatest elements, and induction over a finite set, are facts *)
(* about sets here.  The library states them for a predicate P(_), which   *)
(* the provers cannot instantiate; here P is the set of what satisfies it. *)
(* All three come from one fact: strict inclusion is well founded on the   *)
(* finite subsets of a set.                                                *)
(***************************************************************************)
EXTENDS NfCalendar, CivilCalendar, Ascending, FiniteSetTheorems, WellFoundedInduction, TLAPS

(* A set of natural numbers that is not empty has a least element.           *)
LEMMA LeastExists ==
    ASSUME NEW T \in SUBSET Nat, T # {}
    PROVE  \E n \in T : \A m \in T : n <= m
<1> DEFINE Prefixes == {0 .. n : n \in T}
<1>1. Prefixes \subseteq FiniteSubsetsOf(Nat)
  <2> SUFFICES ASSUME NEW n \in T PROVE 0 .. n \in FiniteSubsetsOf(Nat)
    OBVIOUS
  <2>1. IsFiniteSet(0 .. n)
    BY FS_Interval
  <2> QED
    BY <2>1 DEF FiniteSubsetsOf
<1>2. PICK P \in Prefixes : \A Q \in Prefixes : <<Q, P>> \notin StrictSubsetOrdering(Nat)
  <2>1. Prefixes # {}
    OBVIOUS
  <2> HIDE DEF Prefixes
  <2> QED
    BY <1>1, <2>1, FS_StrictSubsetOrderingWellFounded, WFMin
<1>3. PICK n \in T : P = 0 .. n
  BY <1>2
<1>4. ASSUME NEW m \in T, m < n PROVE FALSE
  <2>1. 0 .. m \in Prefixes
    OBVIOUS
  <2>2. 0 .. m \subseteq 0 .. n /\ n \in 0 .. n /\ n \notin 0 .. m
    BY <1>4
  <2>3. <<0 .. m, P>> \in StrictSubsetOrdering(Nat)
    <3>1. 0 .. m \in SUBSET Nat /\ 0 .. n \in SUBSET Nat
      OBVIOUS
    <3>2. 0 .. m # 0 .. n
      BY <2>2
    <3> QED
      BY <1>3, <2>2, <3>1, <3>2, Zenon DEF StrictSubsetOrdering
  <2> QED
    BY <1>2, <2>1, <2>3
<1> QED
  BY <1>4

(* A finite set of integers that is not empty has a greatest element.        *)
LEMMA GreatestExists ==
    ASSUME NEW T \in SUBSET Int, IsFiniteSet(T), T # {}
    PROVE  \E n \in T : \A m \in T : m <= n
<1> DEFINE Above(n) == {m \in T : n <= m}
           Tails == {Above(n) : n \in T}
<1>1. Tails \subseteq FiniteSubsetsOf(T)
  BY FS_Subset DEF FiniteSubsetsOf
<1>2. PICK P \in Tails : \A Q \in Tails : <<Q, P>> \notin StrictSubsetOrdering(T)
  <2>1. Tails # {}
    OBVIOUS
  <2> HIDE DEF Tails
  <2> QED
    BY <1>1, <2>1, FS_StrictSubsetOrderingWellFounded, WFMin
<1>3. PICK n \in T : P = Above(n)
  BY <1>2
<1>4. ASSUME NEW m \in T, n < m PROVE FALSE
  <2>1. Above(m) \in Tails
    OBVIOUS
  <2>2. Above(m) \subseteq Above(n) /\ n \in Above(n) /\ n \notin Above(m)
    <3>1. \A k \in T : k \in Int
      OBVIOUS
    <3>2. n \in Above(n) /\ n \notin Above(m)
      BY <1>4, <3>1
    <3>3. ASSUME NEW k \in T, m <= k PROVE n <= k
      BY <1>4, <3>1, <3>3
    <3> QED
      BY <3>2, <3>3
  <2>3. <<Above(m), P>> \in StrictSubsetOrdering(T)
    <3>1. Above(m) \in SUBSET T /\ Above(n) \in SUBSET T
      OBVIOUS
    <3>2. Above(m) # Above(n)
      BY <2>2, Zenon
    <3> HIDE DEF Above
    <3> QED
      BY <1>3, <2>2, <3>1, <3>2, Zenon DEF StrictSubsetOrdering
  <2> QED
    BY <1>2, <2>1, <2>3
<1> QED
  BY <1>4

(* Induction over a finite set S: a family of sets that contains {} and is   *)
(* closed under adding one more element of S contains S.                     *)
LEMMA FiniteSetInduction ==
    ASSUME NEW S, IsFiniteSet(S), NEW G, {} \in G,
           \A U \in SUBSET S : \A x \in S \ U : U \in G => U \cup {x} \in G
    PROVE  S \in G
<1> SUFFICES ASSUME S \notin G PROVE FALSE
  OBVIOUS
<1> DEFINE Bad == {U \in SUBSET S : U \notin G}
<1>1. Bad \subseteq FiniteSubsetsOf(S) /\ Bad # {}
  BY FS_Subset DEF FiniteSubsetsOf
<1>2. PICK U \in Bad : \A V \in Bad : <<V, U>> \notin StrictSubsetOrdering(S)
  <2> HIDE DEF Bad
  <2> QED
    BY <1>1, FS_StrictSubsetOrderingWellFounded, WFMin
<1>3. U # {} /\ U \in SUBSET S
  BY <1>2
<1>4. PICK x \in U : TRUE
  BY <1>3
<1>5. U \ {x} \in SUBSET S /\ x \in S \ (U \ {x}) /\ (U \ {x}) \cup {x} = U
  BY <1>3, <1>4
<1>6. <<U \ {x}, U>> \in StrictSubsetOrdering(S)
  <2>1. U \ {x} # U /\ U \ {x} \subseteq U
    BY <1>4
  <2> QED
    BY <1>3, <1>5, <2>1, Zenon DEF StrictSubsetOrdering
<1>7. U \ {x} \in G
  BY <1>2, <1>5, <1>6
<1> QED
  BY <1>2, <1>5, <1>7

(* Induction over the natural numbers: a set that contains 0 and the         *)
(* successor of each of its numbers contains every natural number.           *)
LEMMA NaturalInduction ==
    ASSUME NEW S, 0 \in S, \A n \in Nat : n \in S => n + 1 \in S
    PROVE  Nat \subseteq S
<1> SUFFICES ASSUME Nat \ S # {} PROVE FALSE
  OBVIOUS
<1>1. PICK n \in Nat \ S : \A m \in Nat \ S : n <= m
  BY LeastExists
<1>2. n # 0 /\ n - 1 \in Nat /\ n - 1 \in S
  BY <1>1
<1> QED
  BY <1>2

(* A function takes finitely many values on a finite set.  The library's     *)
(* FS_Image says it of an operator, which the provers cannot instantiate.    *)
LEMMA ImageFinite ==
    ASSUME NEW S, IsFiniteSet(S), NEW f, f = [x \in S |-> f[x]]
    PROVE  IsFiniteSet({f[x] : x \in S})
<1> DEFINE T == {f[x] : x \in S}
<1>1. f \in Surjection(S, T)
  BY DEF Surjection
<1> QED
  BY <1>1, FS_Surjection

(* A function defined by recursion over 0 .. n exists: the equation that     *)
(* f[k \in 0 .. n] == ... abbreviates has a solution.  step is a function of *)
(* functions where the library has an operator.                              *)
IsRun(n, S, base, step) ==
    \E f \in [0 .. n -> S] : f[0] = base /\ \A k \in 1 .. n : f[k] = step[k][f[k - 1]]

LEMMA RecursionExists ==
    ASSUME NEW n \in Nat, NEW S, NEW base \in S, NEW step, step \in [1 .. n -> [S -> S]]
    PROVE  IsRun(n, S, base, step)
<1> DEFINE Good(f, m) == f[0] = base /\ \A k \in 1 .. m : f[k] = step[k][f[k - 1]]
           G == {m \in Nat : m <= n => \E f \in [0 .. m -> S] : Good(f, m)}
<1>1. 0 \in G
  <2>1. Good([k \in 0 .. 0 |-> base], 0) /\ [k \in 0 .. 0 |-> base] \in [0 .. 0 -> S]
    OBVIOUS
  <2> HIDE DEF Good
  <2> QED
    BY <2>1
<1>2. ASSUME NEW m \in Nat, m \in G PROVE m + 1 \in G
  <2> SUFFICES ASSUME m + 1 <= n PROVE \E f \in [0 .. m + 1 -> S] : Good(f, m + 1)
    OBVIOUS
  <2>1. PICK f \in [0 .. m -> S] : Good(f, m)
    BY <1>2
  <2> DEFINE g == [k \in 0 .. m + 1 |-> IF k = m + 1 THEN step[m + 1][f[m]] ELSE f[k]]
  <2>2. step[m + 1] \in [S -> S] /\ f[m] \in S
    OBVIOUS
  <2>3. g \in [0 .. m + 1 -> S]
    <3> SUFFICES ASSUME NEW k \in 0 .. m + 1
                 PROVE  (IF k = m + 1 THEN step[m + 1][f[m]] ELSE f[k]) \in S
      OBVIOUS
    <3>1. k = m + 1 \/ k \in 0 .. m
      OBVIOUS
    <3> QED
      BY <2>2, <3>1
  <2>4. \A k \in 0 .. m : g[k] = f[k]
    OBVIOUS
  <2>5. g[m + 1] = step[m + 1][f[m]] /\ g[m] = f[m] /\ g[0] = base
    BY <2>1, <2>4
  <2>6. ASSUME NEW k \in 1 .. m + 1 PROVE g[k] = step[k][g[k - 1]]
    <3>1. CASE k = m + 1
      BY <2>5, <3>1
    <3>2. CASE k \in 1 .. m
      <4>1. k \in 0 .. m /\ k - 1 \in 0 .. m
        BY <3>2
      <4> QED
        BY <2>1, <2>4, <3>2, <4>1
    <3> QED
      BY <3>1, <3>2
  <2>7. Good(g, m + 1)
    BY <2>5, <2>6
  <2> HIDE DEF g, Good
  <2> QED
    BY <2>3, <2>7
<1>3. n \in G
  <2> HIDE DEF G
  <2> QED
    BY <1>1, <1>2, NaturalInduction
<1> QED
  BY <1>3 DEF IsRun

(* A function defined by recursion over the subsets of a finite set exists:  *)
(* the equation behind MapThenFoldSet has a solution.  choose and step are   *)
(* functions where the library has operators.                                *)
IsFold(S, V, base, choose, step) ==
    \E f \in [SUBSET S -> V] :
       /\ f[{}] = base
       /\ \A T \in SUBSET S : T # {} => f[T] = step[choose[T]][f[T \ {choose[T]}]]

LEMMA FoldExists ==
    ASSUME NEW S, IsFiniteSet(S), NEW V, NEW base \in V,
           NEW choose, \A T \in SUBSET S : T # {} => choose[T] \in T,
           NEW step, step \in [S -> [V -> V]]
    PROVE  IsFold(S, V, base, choose, step)
<1> DEFINE Small(n) == {T \in SUBSET S : Cardinality(T) <= n}
           Good(f, n) == /\ f[{}] = base
                         /\ \A T \in Small(n) : T # {} => f[T] = step[choose[T]][f[T \ {choose[T]}]]
           G == {n \in Nat : \E f \in [Small(n) -> V] : Good(f, n)}
<1>1. \A T \in SUBSET S : IsFiniteSet(T) /\ Cardinality(T) \in Nat
  BY FS_Subset, FS_CardinalityType
<1>2. {} \in SUBSET S /\ Cardinality({}) = 0 /\ \A T \in SUBSET S : Cardinality(T) = 0 => T = {}
  BY <1>1, FS_EmptySet
<1>3. 0 \in G
  <2>1. Small(0) = {{}}
    <3>1. ASSUME NEW T \in SUBSET S, Cardinality(T) <= 0 PROVE T = {}
      <4>1. Cardinality(T) = 0
        BY <1>1, <3>1
      <4> QED
        BY <1>2, <4>1
    <3> QED
      BY <1>2, <3>1
  <2>2. [T \in Small(0) |-> base] \in [Small(0) -> V] /\ Good([T \in Small(0) |-> base], 0)
    BY <2>1
  <2> HIDE DEF Good, Small
  <2> QED
    BY <2>2
<1>4. ASSUME NEW n \in Nat, n \in G PROVE n + 1 \in G
  <2>1. PICK f \in [Small(n) -> V] : Good(f, n)
    BY <1>4
  <2> DEFINE g == [T \in Small(n + 1) |->
                     IF T \in Small(n) THEN f[T] ELSE step[choose[T]][f[T \ {choose[T]}]]]
  <2>2. ASSUME NEW T \in Small(n + 1), T # {}
        PROVE  choose[T] \in T /\ choose[T] \in S /\ T \ {choose[T]} \in Small(n)
    <3>1. choose[T] \in T /\ choose[T] \in S /\ IsFiniteSet(T) /\ Cardinality(T) \in Nat
      BY <1>1, <2>2
    <3>2. Cardinality(T \ {choose[T]}) = Cardinality(T) - 1
      BY <3>1, FS_RemoveElement
    <3> QED
      BY <3>1, <3>2
  <2>3. {} \in Small(n) /\ Small(n) \subseteq Small(n + 1)
    BY <1>1, <1>2
  <2> HIDE DEF Small
  <2>4. g \in [Small(n + 1) -> V]
    <3> SUFFICES ASSUME NEW T \in Small(n + 1)
                 PROVE  (IF T \in Small(n) THEN f[T] ELSE step[choose[T]][f[T \ {choose[T]}]]) \in V
      OBVIOUS
    <3>1. CASE T \in Small(n)
      BY <3>1
    <3>2. CASE T \notin Small(n)
      <4>1. T # {}
        BY <2>3, <3>2
      <4>2. choose[T] \in S /\ f[T \ {choose[T]}] \in V
        BY <2>2, <4>1
      <4> QED
        BY <3>2, <4>2
    <3> QED
      BY <3>1, <3>2
  <2>5. \A T \in Small(n) : g[T] = f[T]
    BY <2>3
  <2>6. ASSUME NEW T \in Small(n + 1), T # {}
        PROVE  g[T] = step[choose[T]][g[T \ {choose[T]}]]
    <3>1. g[T \ {choose[T]}] = f[T \ {choose[T]}]
      BY <2>2, <2>5, <2>6
    <3>2. CASE T \in Small(n)
      <4>1. f[T] = step[choose[T]][f[T \ {choose[T]}]]
        BY <2>1, <2>6, <3>2
      <4> QED
        BY <2>5, <3>1, <3>2, <4>1
    <3>3. CASE T \notin Small(n)
      <4>1. g[T] = step[choose[T]][f[T \ {choose[T]}]]
        BY <3>3
      <4> QED
        BY <3>1, <4>1
    <3> QED
      BY <3>2, <3>3
  <2>7. Good(g, n + 1)
    BY <2>1, <2>3, <2>5, <2>6
  <2> HIDE DEF g, Good
  <2> QED
    BY <2>4, <2>7
<1>5. Cardinality(S) \in G
  <2>1. Cardinality(S) \in Nat
    BY FS_CardinalityType
  <2> HIDE DEF G
  <2> QED
    BY <1>3, <1>4, <2>1, NaturalInduction
<1>6. Small(Cardinality(S)) = SUBSET S
  BY FS_Subset
<1>7. PICK f \in [Small(Cardinality(S)) -> V] : Good(f, Cardinality(S))
  BY <1>5
<1> QED
  BY <1>6, <1>7 DEF IsFold

(* Ascending enumerates a finite set of integers, each element once and in   *)
(* order.                                                                    *)
LEMMA AscendingFacts ==
    ASSUME NEW S \in SUBSET Int, IsFiniteSet(S)
    PROVE  /\ Cardinality(S) \in Nat /\ Len(Ascending(S)) = Cardinality(S)
           /\ Ascending(S) \in Seq(S) /\ DOMAIN Ascending(S) = 1 .. Cardinality(S)
           /\ \A j, k \in 1 .. Cardinality(S) : j < k => Ascending(S)[j] < Ascending(S)[k]
           /\ \A x \in S : \E k \in 1 .. Cardinality(S) : Ascending(S)[k] = x
<1> DEFINE Below(x) == {y \in S : y < x}
           n == Cardinality(S)
           rank == [x \in S |-> Cardinality(Below(x))]
<1>1. n \in Nat
  BY FS_CardinalityType
<1>2. \A x \in S : IsFiniteSet(Below(x)) /\ Cardinality(Below(x)) \in Nat
  BY FS_Subset, FS_CardinalityType
<1>3. ASSUME NEW x \in S, NEW T \in SUBSET S, Below(x) \subseteq T, x \in T
      PROVE  Cardinality(Below(x)) + 1 <= Cardinality(T)
  <2>1. Cardinality(Below(x) \cup {x}) = Cardinality(Below(x)) + 1
    BY <1>2, FS_AddElement
  <2>2. IsFiniteSet(T)
    BY FS_Subset
  <2>3. Below(x) \cup {x} \in SUBSET T
    BY <1>3
  <2>4. Cardinality(Below(x) \cup {x}) <= Cardinality(T)
    BY <2>2, <2>3, FS_Subset
  <2> QED
    BY <2>1, <2>4
<1>4. \A x \in S : rank[x] \in 0 .. n - 1
  <2> SUFFICES ASSUME NEW x \in S PROVE rank[x] \in 0 .. n - 1
    OBVIOUS
  <2>1. Cardinality(Below(x)) + 1 <= n
    BY <1>3
  <2> QED
    <3>1. rank[x] = Cardinality(Below(x)) /\ Cardinality(Below(x)) \in Nat
      BY <1>2
    <3> HIDE DEF rank, Below, n
    <3> QED
      BY <1>1, <2>1, <3>1
<1>5. ASSUME NEW x \in S, NEW y \in S, x < y
      PROVE  rank[x] < rank[y]
  <2>1. Below(x) \subseteq Below(y) /\ x \in Below(y) /\ Below(y) \in SUBSET S
    <3>1. \A z \in S : z \in Int
      OBVIOUS
    <3>2. \A z \in S : z < x => z < y
      BY <1>5, <3>1
    <3> QED
      BY <1>5, <3>2
  <2>2. Cardinality(Below(x)) + 1 <= Cardinality(Below(y))
    BY <1>3, <2>1
  <2> QED
    BY <1>2, <2>2
<1> HIDE DEF Below
<1>6. rank \in Surjection(S, 0 .. n - 1)
  <2>1. rank \in Injection(S, 0 .. n - 1)
    <3>1. \A x, y \in S : x < y \/ y < x \/ x = y
      OBVIOUS
    <3>2. \A x, y \in S : rank[x] = rank[y] => x = y
      <4> HIDE DEF rank
      <4> QED
        BY <1>4, <1>5, <3>1
    <3>3. rank \in [S -> 0 .. n - 1]
      BY <1>4
    <3> HIDE DEF rank
    <3> QED
      BY <3>2, <3>3 DEF Injection, IsInjective
  <2>2. IsFiniteSet(0 .. n - 1) /\ Cardinality(0 .. n - 1) = n
    BY <1>1, FS_Interval
  <2> HIDE DEF rank
  <2> QED
    BY <2>1, <2>2, FS_Injection
<1>7. \A k \in 1 .. n : \E x \in S : rank[x] = k - 1
  <2> HIDE DEF rank
  <2> QED
    BY <1>1, <1>6 DEF Surjection
<1>8. \A k \in 1 .. n : Ascending(S)[k] \in S /\ rank[Ascending(S)[k]] = k - 1
  <2> SUFFICES ASSUME NEW k \in 1 .. n
               PROVE  Ascending(S)[k] \in S /\ rank[Ascending(S)[k]] = k - 1
    OBVIOUS
  <2>1. Ascending(S)[k] = CHOOSE x \in S : Cardinality({y \in S : y < x}) = k - 1
    BY DEF Ascending
  <2>2. \E x \in S : Cardinality({y \in S : y < x}) = k - 1
    BY <1>7 DEF Below
  <2> QED
    BY <2>1, <2>2 DEF Below
<1>9. DOMAIN Ascending(S) = 1 .. n /\ Ascending(S) \in [1 .. n -> S]
  BY <1>8 DEF Ascending
<1> HIDE DEF rank, n
<1>10. Ascending(S) \in Seq(S) /\ Len(Ascending(S)) = n
  BY <1>1, <1>9
<1>11. ASSUME NEW j \in 1 .. n, NEW k \in 1 .. n, j < k
       PROVE  Ascending(S)[j] < Ascending(S)[k]
  <2> DEFINE x == Ascending(S)[j]
             y == Ascending(S)[k]
  <2>1. x \in S /\ y \in S /\ rank[x] = j - 1 /\ rank[y] = k - 1
    BY <1>8
  <2> HIDE DEF x, y
  <2>2. x < y \/ x = y \/ y < x
    BY <2>1
  <2>3. rank[x] < rank[y]
    BY <1>1, <1>11, <2>1
  <2>4. x # y /\ ~(y < x)
    BY <1>1, <1>5, <1>11, <2>1
  <2> QED
    BY <2>2, <2>4 DEF x, y
<1>12. ASSUME NEW x \in S PROVE \E k \in 1 .. n : Ascending(S)[k] = x
  <2>1. rank[x] + 1 \in 1 .. n
    BY <1>1, <1>4
  <2> DEFINE k == rank[x] + 1
             y == Ascending(S)[k]
  <2>2. y \in S /\ rank[y] = rank[x]
    BY <1>1, <1>4, <1>8, <2>1
  <2> HIDE DEF y
  <2>3. y < x \/ x < y \/ y = x
    BY <2>2
  <2>4. y = x
    BY <1>1, <1>4, <1>5, <2>2, <2>3
  <2> QED
    BY <2>1, <2>4 DEF y
<1> QED
  BY <1>1, <1>9, <1>10, <1>11, <1>12 DEF n

(* The remainder and the quotient of a division.                             *)
LEMMA DivisionFacts ==
    ASSUME NEW a \in Int, NEW b \in Nat \ {0}
    PROVE  /\ a \div b \in Int /\ a % b \in 0 .. b - 1
           /\ a = (a \div b) * b + (a % b)
OBVIOUS

(***************************************************************************)
(* The calendar of the number formatter.                                   *)
(***************************************************************************)
(* The divisions of a year and the next.                                     *)
LEMMA NextQuotients ==
    ASSUME NEW y \in Nat \ {0}
    PROVE  /\ y \div 4   = (y - 1) \div 4   + (IF y % 4 = 0 THEN 1 ELSE 0)
           /\ y \div 100 = (y - 1) \div 100 + (IF y % 100 = 0 THEN 1 ELSE 0)
           /\ y \div 400 = (y - 1) \div 400 + (IF y % 400 = 0 THEN 1 ELSE 0)
OBVIOUS

(* A year that a longer period divides, the shorter one divides.             *)
LEMMA LeapFacts ==
    ASSUME NEW y \in Nat
    PROVE  /\ y % 400 = 0 => y % 100 = 0
           /\ y % 100 = 0 => y % 4 = 0
OBVIOUS

(* A year starts where the one before it ends.                               *)
LEMMA YearGrows ==
    ASSUME NEW y \in Nat \ {0}
    PROVE  /\ DaysBeforeYear(y) \in Int /\ DaysInYear(y) \in {365, 366}
           /\ DaysBeforeYear(y + 1) = DaysBeforeYear(y) + DaysInYear(y)
<1>1. PICK q4 \in Int, q100 \in Int, q400 \in Int :
         q4 = (y - 1) \div 4 /\ q100 = (y - 1) \div 100 /\ q400 = (y - 1) \div 400
  OBVIOUS
<1>2. DaysBeforeYear(y) = (y - 1) * 365 + (q4 - q100 + q400)
  BY <1>1 DEF DaysBeforeYear, LeapDaysBefore
<1>3. DaysBeforeYear(y + 1) = y * 365 + (y \div 4 - y \div 100 + y \div 400)
  <2>1. (y + 1) - 1 = y /\ y + 1 # 0
    OBVIOUS
  <2> QED
    BY <2>1 DEF DaysBeforeYear, LeapDaysBefore
<1>4. DaysInYear(y) = 365 + ((IF y % 4 = 0 THEN 1 ELSE 0) - (IF y % 100 = 0 THEN 1 ELSE 0)
                              + (IF y % 400 = 0 THEN 1 ELSE 0))
  BY LeapFacts DEF DaysInYear, ImpIsLeapYear
<1>5. DaysInYear(y) \in {365, 366}
  BY DEF DaysInYear
<1> QED
  BY <1>1, <1>2, <1>3, <1>4, <1>5, NextQuotients

(* Years do not overlap.                                                     *)
LEMMA YearsAreApart ==
    ASSUME NEW y \in Nat \ {0}
    PROVE  \A z \in Nat : z > y => DaysBeforeYear(z) >= DaysBeforeYear(y) + DaysInYear(y)
<1>1. PICK a \in Int : a = DaysBeforeYear(y) + DaysInYear(y)
  BY YearGrows
<1> DEFINE G == {k \in Nat : DaysBeforeYear(y + 1 + k) >= a}
<1>2. 0 \in G
  <2>1. DaysBeforeYear(y + 1) = a /\ y + 1 + 0 = y + 1
    BY <1>1, YearGrows
  <2> QED
    BY <2>1
<1>3. ASSUME NEW k \in Nat, k \in G PROVE k + 1 \in G
  <2>1. PICK z \in Nat \ {0} : z = y + 1 + k /\ y + 1 + (k + 1) = z + 1
    OBVIOUS
  <2>2. PICK b \in Int, c \in Int : b = DaysBeforeYear(z) /\ c = DaysInYear(z) /\ c \in {365, 366}
    BY YearGrows
  <2>3. DaysBeforeYear(z + 1) = b + c
    BY <2>2, YearGrows
  <2>4. b >= a
    BY <1>3, <2>1, <2>2
  <2>5. DaysBeforeYear(z + 1) >= a
    BY <2>2, <2>3, <2>4
  <2> QED
    BY <2>1, <2>5
<1>4. Nat \subseteq G
  <2> HIDE DEF G
  <2> QED
    BY <1>2, <1>3, NaturalInduction
<1> SUFFICES ASSUME NEW z \in Nat, z > y PROVE DaysBeforeYear(z) >= a
  BY <1>1
<1>5. z - y - 1 \in Nat /\ y + 1 + (z - y - 1) = z
  OBVIOUS
<1>6. z - y - 1 \in G
  BY <1>4, <1>5
<1> QED
  BY <1>5, <1>6

(* How many days there are before a year, to a day in four hundred years.    *)
LEMMA YearBounds ==
    ASSUME NEW y \in Nat \ {0}
    PROVE  /\ DaysBeforeYear(y) >= (y - 1) * 365
           /\ DaysBeforeYear(y) * 400 <= (y - 1) * 146097 + 400
<1>1. PICK q4 \in Int, q100 \in Int, q400 \in Int :
         q4 = (y - 1) \div 4 /\ q100 = (y - 1) \div 100 /\ q400 = (y - 1) \div 400
  OBVIOUS
<1>2. DaysBeforeYear(y) = (y - 1) * 365 + (q4 - q100 + q400)
  BY <1>1 DEF DaysBeforeYear, LeapDaysBefore
<1>3. /\ q4 * 4 <= y - 1 /\ y - 1 <= q4 * 4 + 3
      /\ q100 * 100 <= y - 1 /\ y - 1 <= q100 * 100 + 99
      /\ q400 * 400 <= y - 1 /\ y - 1 <= q400 * 400 + 399
  BY <1>1
<1> QED
  BY <1>2, <1>3, SMT

(* No day is in two years.                                                   *)
LEMMA OneYear ==
    ASSUME NEW n \in Int, NEW y \in Nat \ {0}, NEW z \in Nat \ {0}, FitsYear(n, y), FitsYear(n, z)
    PROVE  y = z
<1>1. PICK a \in Int, b \in Int : a = DaysBeforeYear(y) /\ b = DaysInYear(y)
  BY YearGrows
<1>2. PICK c \in Int, d \in Int : c = DaysBeforeYear(z) /\ d = DaysInYear(z)
  BY YearGrows
<1>3. a < n /\ n <= a + b /\ c < n /\ n <= c + d
  BY <1>1, <1>2 DEF FitsYear
<1>4. CASE z > y
  <2>1. c >= a + b
    BY <1>1, <1>2, <1>4, YearsAreApart
  <2> QED
    BY <1>3, <2>1
<1>5. CASE y > z
  <2>1. a >= c + d
    BY <1>1, <1>2, <1>5, YearsAreApart
  <2> QED
    BY <1>3, <2>1
<1> QED
  BY <1>4, <1>5

(* MAX_DAYS is a day of the year 9957: the search never leaves the years of  *)
(* four digits.                                                              *)
LEMMA DaysBound == MaxDays \in Nat /\ MaxDays < 3636540 /\ 3636500 < MaxDays
BY SMT DEF MaxDays

(* Of the days of the calendar each is in one year, which the search         *)
(* reaches.                                                                  *)
LEMMA YearFound ==
    ASSUME NEW n \in 2 .. MaxDays + 366
    PROVE  /\ YearOf(n) \in Nat \ {0} /\ YearOf(n) <= 9998 /\ FitsYear(n, YearOf(n))
           /\ \A y \in Nat \ {0} : FitsYear(n, y) => y = YearOf(n)
<1>1. n \in Nat
  BY DaysBound, SMT
<1> DEFINE T == {y \in Nat : n <= DaysBeforeYear(y + 1)}
<1>2. PICK y \in T : \A z \in T : y <= z
  <2>1. n \in T
    <3>1. DaysBeforeYear(n + 1) >= n * 365
      <4>1. n + 1 \in Nat \ {0} /\ (n + 1) - 1 = n
        BY <1>1
      <4> QED
        BY <4>1, YearBounds, SMT
    <3>2. DaysBeforeYear(n + 1) \in Int
      BY <1>1, YearGrows
    <3> QED
      BY <1>1, <3>1, <3>2
  <2>2. T \in SUBSET Nat
    OBVIOUS
  <2> HIDE DEF T
  <2> QED
    BY <2>1, <2>2, LeastExists
<1>3. y \in Nat /\ n <= DaysBeforeYear(y + 1) /\ \A z \in Nat : z < y => ~(n <= DaysBeforeYear(z + 1))
  BY <1>2
<1>4. y # 0
  <2>1. DaysBeforeYear(1) = 0
    BY DEF DaysBeforeYear, LeapDaysBefore
  <2> QED
    BY <1>3, <2>1
<1>5. PICK a \in Int, b \in Int : a = DaysBeforeYear(y) /\ b = DaysInYear(y) /\ a + b = DaysBeforeYear(y + 1)
  <2>1. y \in Nat \ {0}
    BY <1>3, <1>4
  <2> HIDE DEF T
  <2>2. DaysBeforeYear(y) \in Int /\ DaysInYear(y) \in Int /\ DaysBeforeYear(y + 1) = DaysBeforeYear(y) + DaysInYear(y)
    BY <2>1, YearGrows
  <2> QED
    BY <2>2
<1>6. a < n /\ n <= a + b
  <2>1. y - 1 \in Nat /\ y - 1 < y /\ (y - 1) + 1 = y
    BY <1>3, <1>4
  <2>2. ~(n <= a)
    BY <1>3, <1>5, <2>1
  <2> QED
    BY <1>1, <1>3, <1>5, <2>2
<1>7. FitsYear(n, y)
  BY <1>1, <1>5, <1>6 DEF FitsYear
<1>8. ASSUME NEW z \in Nat \ {0}, FitsYear(n, z) PROVE z = y
  <2>1. y \in Nat \ {0} /\ n \in Int
    BY <1>1, <1>3, <1>4
  <2> QED
    BY <1>7, <1>8, <2>1, OneYear
<1>9. PICK q \in Nat : q = n \div 365 /\ q * 365 <= n /\ n < q * 365 + 365
  BY <1>1
<1>10. y \in q - 8 .. q + 1
  <2>1. (y - 1) * 365 < n
    BY <1>1, <1>3, <1>4, <1>5, <1>6, YearBounds, SMT
  <2>2. n * 400 <= y * 146097 + 400
    <3>1. y + 1 \in Nat \ {0} /\ (y + 1) - 1 = y
      BY <1>3
    <3>2. DaysBeforeYear(y + 1) * 400 <= y * 146097 + 400
      BY <3>1, YearBounds, SMT
    <3> QED
      BY <1>1, <1>3, <1>5, <3>2, SMT
  <2>3. n <= 3636910
    BY DaysBound, SMT
  <2> QED
    BY <1>1, <1>3, <1>9, <2>1, <2>2, <2>3, SMT
<1>11. y <= 9998
  <2>1. (y - 1) * 365 < n
    BY <1>1, <1>3, <1>4, <1>5, <1>6, YearBounds, SMT
  <2>2. n <= 3636910
    BY DaysBound, SMT
  <2> QED
    BY <1>1, <1>3, <2>1, <2>2, SMT
<1>12. \A z \in Int : z >= 0 /\ FitsYear(n, z) => z = y
  <2>1. ~FitsYear(n, 0)
    <3>1. DaysBeforeYear(0) = 0 - 365 /\ DaysInYear(0) <= 366
      BY DEF DaysBeforeYear, LeapDaysBefore, DaysInYear
    <3> QED
      BY <1>1, <3>1 DEF FitsYear, DaysInYear
  <2> QED
    BY <1>8, <2>1
<1>13. YearOf(n) = y
  <2>1. CASE FitsYear(n, n \div 365)
    BY <1>9, <1>12, <2>1 DEF YearOf
  <2>2. CASE ~FitsYear(n, n \div 365)
    <3>1. \A z \in q - 8 .. q + 1 : (z >= 0 /\ FitsYear(n, z)) <=> z = y
      BY <1>3, <1>7, <1>9, <1>12
    <3>2. (CHOOSE z \in q - 8 .. q + 1 : z >= 0 /\ FitsYear(n, z)) = y
      BY <1>10, <3>1
    <3> QED
      BY <1>9, <2>2, <3>2 DEF YearOf
  <2> QED
    BY <2>1, <2>2
<1> QED
  BY <1>3, <1>4, <1>7, <1>8, <1>11, <1>13

(* The first day of a month, from zero, as a table.                          *)
MonthStart(m, y) ==
    <<0, 31, 59, 90, 120, 151, 181, 212, 243, 273, 304, 334>>[m]
        + (IF m > 2 /\ ImpIsLeapYear(y) THEN 1 ELSE 0)

(* The months of a year follow on each other and fill it.                    *)
LEMMA MonthStep ==
    ASSUME NEW y
    PROVE  /\ MonthStart(1, y) = 0
           /\ \A m \in 1 .. 12 : MonthStart(m, y) \in 0 .. 335 /\ DaysInMonth(m, y) \in 28 .. 31
           /\ \A m \in 2 .. 12 : MonthStart(m, y) = MonthStart(m - 1, y) + DaysInMonth(m - 1, y)
           /\ MonthStart(12, y) + DaysInMonth(12, y) = DaysInYear(y)
<1>1. PICK leap \in BOOLEAN : leap = ImpIsLeapYear(y)
  BY DEF ImpIsLeapYear
<1>2. \A m \in 1 .. 12 : MonthStart(m, y) = <<0, 31, 59, 90, 120, 151, 181, 212, 243, 273, 304, 334>>[m]
                                              + (IF m > 2 /\ leap THEN 1 ELSE 0)
  BY <1>1 DEF MonthStart
<1>3. \A m \in 1 .. 12 : DaysInMonth(m, y) = <<31, 28, 31, 30, 31, 30, 31, 31, 30, 31, 30, 31>>[m]
                                               + (IF m = 2 /\ leap THEN 1 ELSE 0)
  BY <1>1 DEF DaysInMonth, MonthLengths
<1>4. \A m \in 1 .. 12 : m = 1 \/ m = 2 \/ m = 3 \/ m = 4 \/ m = 5 \/ m = 6 \/ m = 7 \/ m = 8 \/ m = 9
                         \/ m = 10 \/ m = 11 \/ m = 12
  OBVIOUS
<1>5. DaysInYear(y) = IF leap THEN 366 ELSE 365
  BY <1>1 DEF DaysInYear
<1> QED
  BY <1>2, <1>3, <1>4, <1>5

(* The loop over the months before m sums up to the first day of m. The      *)
(* recursive function is what its equation says because MonthStart           *)
(* satisfies it.                                                             *)
LEMMA MonthStarts ==
    ASSUME NEW y
    PROVE  \A m \in 1 .. 12 : DaysBeforeMonth(m, y) = MonthStart(m, y)
<1> DEFINE P(f) == f = [i \in 1 .. 12 |-> IF i = 1 THEN 0 ELSE f[i - 1] + DaysInMonth(i - 1, y)]
           B == CHOOSE f : P(f)
           F == [i \in 1 .. 12 |-> MonthStart(i, y)]
<1>1. P(F)
  <2>1. \A i \in 1 .. 12 : F[i] = IF i = 1 THEN 0 ELSE F[i - 1] + DaysInMonth(i - 1, y)
    <3>1. \A i \in 1 .. 12 : i # 1 => i - 1 \in 1 .. 12 /\ i \in 2 .. 12
      OBVIOUS
    <3> QED
      BY <3>1, MonthStep
  <2> QED
    BY <2>1
<1>2. P(B)
  BY <1>1
<1>3. B[1] = 0 /\ \A i \in 2 .. 12 : B[i] = B[i - 1] + DaysInMonth(i - 1, y)
  <2>1. B = [i \in 1 .. 12 |-> IF i = 1 THEN 0 ELSE B[i - 1] + DaysInMonth(i - 1, y)]
    BY <1>2
  <2> HIDE DEF B
  <2> QED
    BY <2>1
<1> HIDE DEF B
<1>4. B[1] = MonthStart(1, y)
  BY <1>3, MonthStep
<1>5. \A i \in 2 .. 12 : B[i - 1] = MonthStart(i - 1, y) => B[i] = MonthStart(i, y)
  BY <1>3, MonthStep
<1>6. \A m \in 1 .. 12 : B[m] = MonthStart(m, y)
  BY <1>4, <1>5
<1>7. \A m \in 1 .. 12 : DaysBeforeMonth(m, y) = B[m]
  BY DEF DaysBeforeMonth, B
<1> QED
  BY <1>6, <1>7

(* A day of a year is in one month.                                          *)
LEMMA MonthFound ==
    ASSUME NEW y, NEW rest \in 1 .. DaysInYear(y)
    PROVE  /\ \E m \in 1 .. 12 : /\ DaysBeforeMonth(m, y) < rest
                                 /\ rest <= DaysBeforeMonth(m, y) + DaysInMonth(m, y)
           /\ \A m, k \in 1 .. 12 :
                 /\ DaysBeforeMonth(m, y) < rest /\ rest <= DaysBeforeMonth(m, y) + DaysInMonth(m, y)
                 /\ DaysBeforeMonth(k, y) < rest /\ rest <= DaysBeforeMonth(k, y) + DaysInMonth(k, y)
                 => m = k
<1> DEFINE S(m) == MonthStart(m, y)
           D(m) == DaysInMonth(m, y)
<1>1. rest \in Int /\ 0 < rest /\ rest <= S(12) + D(12)
  BY MonthStep DEF DaysInYear
<1>2. \E m \in 1 .. 12 : S(m) < rest /\ rest <= S(m) + D(m)
  <2> SUFFICES ASSUME \A m \in 1 .. 12 : ~(S(m) < rest /\ rest <= S(m) + D(m)) PROVE FALSE
    OBVIOUS
  <2>1. S(1) < rest
    BY <1>1, MonthStep
  <2>2. \A m \in 2 .. 12 : S(m - 1) < rest => S(m) < rest
    BY <1>1, MonthStep
  <2>3. S(12) < rest
    BY <2>1, <2>2
  <2> QED
    BY <1>1, <2>3
<1>3. \A m, k \in 1 .. 12 : m < k => S(m) + D(m) <= S(k)
  <2>1. PICK l \in {0, 1} :
          /\ S(1) = 0 /\ S(2) = 31 /\ S(3) = 59 + l /\ S(4) = 90 + l /\ S(5) = 120 + l /\ S(6) = 151 + l
          /\ S(7) = 181 + l /\ S(8) = 212 + l /\ S(9) = 243 + l /\ S(10) = 273 + l /\ S(11) = 304 + l
          /\ S(12) = 334 + l
    BY DEF MonthStart
  <2>2. \A m \in 1 .. 11 : S(m) + D(m) = S(m + 1)
    <3>1. \A m \in 1 .. 11 : m + 1 \in 2 .. 12 /\ (m + 1) - 1 = m
      OBVIOUS
    <3> QED
      BY <3>1, MonthStep
  <2>3. \A m \in 1 .. 12 : m = 1 \/ m = 2 \/ m = 3 \/ m = 4 \/ m = 5 \/ m = 6 \/ m = 7 \/ m = 8 \/ m = 9
                           \/ m = 10 \/ m = 11 \/ m = 12
    OBVIOUS
  <2> HIDE DEF S, D
  <2>4. \A m \in 1 .. 11 : \A k \in 1 .. 12 : m < k => S(m + 1) <= S(k)
    BY <2>1, <2>3
  <2> QED
    <3>1. \A m, k \in 1 .. 12 : m < k => m \in 1 .. 11
      OBVIOUS
    <3> QED
      BY <2>2, <2>4, <3>1
<1> QED
  <2>1. \A m \in 1 .. 12 : S(m) \in Int /\ D(m) \in Int /\ DaysBeforeMonth(m, y) = S(m)
    BY MonthStep, MonthStarts
  <2>2. \A m, k \in 1 .. 12 : m < k \/ k < m \/ m = k
    OBVIOUS
  <2> HIDE DEF S, D
  <2>3. \A m, k \in 1 .. 12 : S(m) < rest /\ rest <= S(m) + D(m) /\ S(k) < rest /\ rest <= S(k) + D(k) => m = k
    BY <1>1, <1>3, <2>1, <2>2
  <2> QED
    BY <1>2, <2>1, <2>3 DEF D

(* A day, a month and a year of the calendar.                                *)
IsDate(date) ==
    /\ date = [day |-> date.day, month |-> date.month, year |-> date.year]
    /\ date.year \in Nat \ {0} /\ date.month \in 1 .. 12
    /\ date.day \in 1 .. DaysInMonth(date.month, date.year)

(* The day number of a date lies in its year.                                *)
LEMMA DateIsInItsYear ==
    ASSUME NEW date, IsDate(date)
    PROVE  /\ DateToDays(date) \in Nat \ {0}
           /\ DateToDays(date) = DaysBeforeYear(date.year) + GetDayOfYear(date)
           /\ FitsYear(DateToDays(date), date.year)
           /\ GetDayOfYear(date) \in 1 .. DaysInYear(date.year)
<1>1. PICK y \in Nat \ {0}, m \in 1 .. 12, d \in Nat \ {0} : y = date.year /\ m = date.month /\ d = date.day
                                         /\ d <= DaysInMonth(m, y)
  BY MonthStep DEF IsDate
<1>2. PICK s \in Int, e \in Int, b \in Int, t \in Int :
        /\ s = DaysBeforeMonth(m, y) /\ e = DaysInMonth(m, y) /\ b = DaysBeforeYear(y) /\ t = DaysInYear(y)
        /\ 0 <= s /\ s + e <= t /\ 0 <= b
  <2>1. DaysBeforeMonth(m, y) = MonthStart(m, y)
    BY MonthStarts
  <2>2. MonthStart(m, y) + DaysInMonth(m, y) <= DaysInYear(y)
    <3>1. CASE m = 12
      <4>1. MonthStart(12, y) + DaysInMonth(12, y) = DaysInYear(y)
        BY MonthStep
      <4>2. DaysInYear(y) \in Int
        BY YearGrows
      <4> QED
        BY <3>1, <4>1, <4>2
    <3>2. CASE m # 12
      <4>1. m + 1 \in 2 .. 12 /\ (m + 1) - 1 = m
        BY <3>2
      <4>2. MonthStart(m + 1, y) = MonthStart(m, y) + DaysInMonth(m, y)
        BY <4>1, MonthStep
      <4>3. MonthStart(m + 1, y) <= 335 /\ MonthStart(m + 1, y) \in Int
        BY <4>1, MonthStep
      <4>4. DaysInYear(y) >= 365
        BY YearGrows
      <4>5. DaysInYear(y) \in Int
        BY YearGrows
      <4> QED
        BY <4>2, <4>3, <4>4, <4>5
    <3> QED
      BY <3>1, <3>2
  <2>3. DaysBeforeYear(y) >= 0 /\ DaysBeforeYear(y) \in Int
    BY YearBounds, YearGrows, SMT
  <2>4. DaysInYear(y) \in Int
    BY YearGrows
  <2> QED
    <3>1. MonthStart(m, y) \in 0 .. 335 /\ DaysInMonth(m, y) \in 28 .. 31
      BY MonthStep
    <3>2. DaysBeforeMonth(m, y) \in Int /\ 0 <= DaysBeforeMonth(m, y) /\ DaysInMonth(m, y) \in Int
      BY <2>1, <3>1
    <3>3. DaysBeforeMonth(m, y) + DaysInMonth(m, y) <= DaysInYear(y)
      BY <2>1, <2>2
    <3> QED
      BY <2>3, <2>4, <3>2, <3>3
<1>3. GetDayOfYear(date) = s + d /\ DateToDays(date) = b + s + d
  BY <1>1, <1>2 DEF GetDayOfYear, DateToDays
<1> QED
  BY <1>1, <1>2, <1>3 DEF FitsYear

(* DaysToDate returns the year and the month a day lies in.                  *)
LEMMA DaysToDateIs ==
    ASSUME NEW n \in 2 .. MaxDays + 366,
           NEW y \in Nat \ {0}, NEW m \in 1 .. 12, NEW rest \in 1 .. DaysInYear(y),
           n = DaysBeforeYear(y) + rest,
           DaysBeforeMonth(m, y) < rest, rest <= DaysBeforeMonth(m, y) + DaysInMonth(m, y)
    PROVE  DaysToDate(n) = [day |-> rest - DaysBeforeMonth(m, y), month |-> m, year |-> y]
<1>1. n \in Int /\ rest \in Int /\ DaysBeforeYear(y) \in Int
  BY DaysBound, YearGrows, SMT
<1>2. n - DaysBeforeYear(y) = rest
  BY <1>1
<1>3. YearOf(n) = y
  BY <1>2, YearFound DEF FitsYear
<1>4. (CHOOSE i \in 1 .. 12 : /\ DaysBeforeMonth(i, y) < rest
                              /\ rest <= DaysBeforeMonth(i, y) + DaysInMonth(i, y)) = m
  BY MonthFound
<1> QED
  BY <1>2, <1>3, <1>4 DEF DaysToDate

(* Every day number of the calendar has a date, and the number of that date  *)
(* is the day again: Date::operator+= and its inverse lose no day, in no     *)
(* month and no year (DaysToDate and DateToDays of nf_calendar.cpp). Day 1   *)
(* is the exception: the search finds it at the end of a year 0.             *)
THEOREM DaysAreDates ==
    ASSUME NEW n \in 2 .. MaxDays + 366
    PROVE  IsDate(DaysToDate(n)) /\ DateToDays(DaysToDate(n)) = n
<1>1. n \in Int
  BY DaysBound, SMT
<1>2. PICK y \in Nat \ {0} : FitsYear(n, y)
  BY YearFound
<1>3. PICK b \in Int : b = DaysBeforeYear(y)
  BY YearGrows
<1>4. PICK rest \in 1 .. DaysInYear(y) : rest = n - b /\ rest \in Int /\ n = b + rest
  <2>1. n - b \in 1 .. DaysInYear(y)
    BY <1>2, <1>3 DEF FitsYear
  <2>2. n - b \in Int /\ n = b + (n - b)
    BY <1>1
  <2> QED
    BY <2>1, <2>2
<1>5. PICK m \in 1 .. 12 : DaysBeforeMonth(m, y) < rest /\ rest <= DaysBeforeMonth(m, y) + DaysInMonth(m, y)
  BY MonthFound
<1>6. PICK s \in Int, e \in Int : s = DaysBeforeMonth(m, y) /\ e = DaysInMonth(m, y)
  BY MonthStarts, MonthStep
<1>7. DaysToDate(n) = [day |-> rest - s, month |-> m, year |-> y]
  BY <1>3, <1>4, <1>5, <1>6, DaysToDateIs
<1>8. rest - s \in 1 .. e
  BY <1>4, <1>5, <1>6
<1>9. DateToDays(DaysToDate(n)) = b + s + (rest - s)
  BY <1>3, <1>6, <1>7 DEF DateToDays
<1> QED
  BY <1>4, <1>6, <1>7, <1>8, <1>9 DEF IsDate

(* Every date of the calendar comes back from its day number: with           *)
(* DaysAreDates the two functions are inverse to each other.                 *)
THEOREM DatesAreDays ==
    ASSUME NEW date, IsDate(date), DateToDays(date) \in 2 .. MaxDays + 366
    PROVE  DaysToDate(DateToDays(date)) = date
<1>1. PICK y \in Nat \ {0}, m \in 1 .. 12, d \in Nat \ {0} :
        y = date.year /\ m = date.month /\ d = date.day /\ d <= DaysInMonth(m, y)
  BY MonthStep DEF IsDate
<1>2. date = [day |-> d, month |-> m, year |-> y]
  BY <1>1 DEF IsDate
<1>3. PICK s \in Int, e \in Int : s = DaysBeforeMonth(m, y) /\ e = DaysInMonth(m, y)
  BY MonthStarts, MonthStep
<1>4. GetDayOfYear(date) = s + d /\ s + d \in 1 .. DaysInYear(y)
  BY <1>1, <1>3, DateIsInItsYear DEF GetDayOfYear
<1>5. DateToDays(date) = DaysBeforeYear(y) + (s + d)
  BY <1>1, <1>4, DateIsInItsYear
<1>6. DaysToDate(DateToDays(date)) = [day |-> (s + d) - s, month |-> m, year |-> y]
  <2>1. PICK n \in 2 .. MaxDays + 366 : n = DateToDays(date)
    OBVIOUS
  <2>2. PICK rest \in 1 .. DaysInYear(y) : rest = s + d
    BY <1>4
  <2>3. n = DaysBeforeYear(y) + rest
    BY <1>5, <2>1, <2>2
  <2>4. DaysBeforeMonth(m, y) < rest /\ rest <= DaysBeforeMonth(m, y) + DaysInMonth(m, y)
    BY <1>1, <1>3, <2>2
  <2>5. DaysToDate(n) = [day |-> rest - DaysBeforeMonth(m, y), month |-> m, year |-> y]
    BY <2>3, <2>4, DaysToDateIs
  <2> QED
    BY <1>3, <2>1, <2>2, <2>5
<1> QED
  BY <1>1, <1>2, <1>3, <1>6

(* The null date is day 693594, a Saturday.                                  *)
Origin == DateToDays(NullDate)

LEMMA OriginIs == Origin = 693594 /\ MarchDays(1899, 12, 30) = Origin + 306
<1>1. DaysBeforeMonth(12, 1899) = 334
  <2>1. DaysBeforeMonth(12, 1899) = MonthStart(12, 1899)
    BY MonthStarts
  <2>2. MonthStart(12, 1899) = 334
    BY SMT DEF MonthStart, ImpIsLeapYear
  <2> QED
    BY <2>1, <2>2
<1>2. DaysBeforeYear(1899) = 693230
  BY SMT DEF DaysBeforeYear, LeapDaysBefore
<1>3. Origin = 693594
  BY <1>1, <1>2, SMT DEF Origin, NullDate, DateToDays
<1>4. MarchDays(1899, 12, 30) = 693900
  BY SMT DEF MarchDays
<1> QED
  BY <1>3, <1>4, SMT

(* The two ways to count the days of a date, the formatter's and the one in  *)
(* years from March, are the same but for their origin.                      *)
LEMMA MarchIsCivil ==
    ASSUME NEW y \in Nat \ {0}, NEW m \in 1 .. 12, NEW d \in Int
    PROVE  SerialDay(y, m, d) = DaysBeforeYear(y) + DaysBeforeMonth(m, y) + d - Origin
<1>1. PICK p4 \in Int, p100 \in Int, p400 \in Int :
         p4 = (y - 1) \div 4 /\ p100 = (y - 1) \div 100 /\ p400 = (y - 1) \div 400
  OBVIOUS
<1>2. PICK q4 \in Int, q100 \in Int, q400 \in Int :
         q4 = y \div 4 /\ q100 = y \div 100 /\ q400 = y \div 400
  OBVIOUS
<1>3. DaysBeforeYear(y) = (y - 1) * 365 + (p4 - p100 + p400)
  BY <1>1 DEF DaysBeforeYear, LeapDaysBefore
<1>4. y * 365 + (q4 - q100 + q400) = (y - 1) * 365 + (p4 - p100 + p400) + DaysInYear(y)
  <2>1. DaysBeforeYear(y + 1) = y * 365 + (q4 - q100 + q400)
    <3>1. (y + 1) - 1 = y /\ y + 1 # 0
      OBVIOUS
    <3> QED
      BY <1>2, <3>1 DEF DaysBeforeYear, LeapDaysBefore
  <2> QED
    BY <1>3, <2>1, YearGrows
<1>5. PICK l \in {0, 1} : /\ DaysInYear(y) = 365 + l
                          /\ \A k \in 1 .. 12 : DaysBeforeMonth(k, y) =
                               <<0, 31, 59, 90, 120, 151, 181, 212, 243, 273, 304, 334>>[k] + (IF k > 2 THEN l ELSE 0)
  <2>1. CASE ImpIsLeapYear(y)
    BY <2>1, MonthStarts DEF MonthStart, DaysInYear
  <2>2. CASE ~ImpIsLeapYear(y)
    BY <2>2, MonthStarts DEF MonthStart, DaysInYear
  <2> QED
    BY <2>1, <2>2
<1>6. m = 1 \/ m = 2 \/ m = 3 \/ m = 4 \/ m = 5 \/ m = 6 \/ m = 7 \/ m = 8 \/ m = 9
      \/ m = 10 \/ m = 11 \/ m = 12
  OBVIOUS
<1>7. MarchDays(y, m, d) = DaysBeforeYear(y) + DaysBeforeMonth(m, y) + d + 306
  <2>1. CASE m <= 2
    <3>1. MarchDays(y, m, d) = 365 * (y - 1) + p4 - p100 + p400 + (153 * (m + 9) + 2) \div 5 + d
      <4>1. (m + 9) % 12 = m + 9
        BY <2>1
      <4> QED
        BY <1>1, <2>1, <4>1 DEF MarchDays
    <3>2. (153 * (m + 9) + 2) \div 5 = IF m = 1 THEN 306 ELSE 337
      BY <2>1
    <3> QED
      BY <1>3, <1>5, <1>6, <2>1, <3>1, <3>2
  <2>2. CASE m > 2
    <3>1. (m + 9) % 12 = m - 3
      BY <2>2
    <3>2. MarchDays(y, m, d) = 365 * y + q4 - q100 + q400 + (153 * (m - 3) + 2) \div 5 + d
      BY <1>2, <2>2, <3>1 DEF MarchDays
    <3>3. (153 * (m - 3) + 2) \div 5
            = <<0, 0, 0, 31, 61, 92, 122, 153, 184, 214, 245, 275>>[m]
      BY <1>6, <2>2
    <3> QED
      BY <1>3, <1>4, <1>5, <1>6, <2>2, <3>2, <3>3
  <2> QED
    BY <2>1, <2>2
<1>8. DaysBeforeYear(y) \in Int /\ DaysBeforeMonth(m, y) \in Int /\ Origin \in Int
  BY <1>5, <1>6, YearGrows, OriginIs, SMT
<1> QED
  BY <1>7, <1>8, OriginIs, SMT DEF SerialDay

(* The serial numbers of the model: a sign, whole days and a fraction.       *)
IsSerial(v) == v.neg \in BOOLEAN /\ v.whole \in Nat /\ v.num \in Nat

(* The date of a serial number is that of the whole days below it:           *)
(* operator+= cuts the days off towards zero, and a negative time of day     *)
(* steps back to the day before.                                             *)
LEMMA SerialIsDay ==
    ASSUME NEW v, IsSerial(v), Origin + DayOf(v) \in 2 .. MaxDays
    PROVE  DateOfSerial(v) = DaysToDate(Origin + DayOf(v)) /\ DayOf(v) \in Int
<1>1. PICK w \in Nat, k \in Nat : w = v.whole /\ k = v.num
  BY DEF IsSerial
<1>2. Origin \in Nat /\ Origin <= MaxDays /\ Origin > 1
  BY OriginIs, DaysBound, SMT
<1>3. MaxDays \in Nat
  BY DaysBound
<1>4. DateToDays(NullDate) = Origin
  BY DEF Origin
<1>5. ASSUME NEW days \in Int, Origin + days \in 2 .. MaxDays
      PROVE  AddDays(NullDate, days) = DaysToDate(Origin + days)
  <2>1. ~(Origin + days > MaxDays) /\ ~(Origin + days <= 0)
    BY <1>2, <1>3, <1>5
  <2> QED
    BY <1>4, <2>1 DEF AddDays
<1>6. CASE ~v.neg
  <2>1. DayOf(v) = w
    BY <1>1, <1>6 DEF DayOf
  <2>2. DateOfSerial(v) = AddDays(NullDate, w)
    BY <1>1, <1>6 DEF DateOfSerial
  <2> QED
    BY <1>5, <2>1, <2>2
<1>7. CASE v.neg /\ ~(k > 0)
  <2>1. DayOf(v) = -w
    BY <1>1, <1>7 DEF DayOf
  <2>2. DateOfSerial(v) = AddDays(NullDate, -w)
    BY <1>1, <1>7 DEF DateOfSerial
  <2>3. -w \in Int
    OBVIOUS
  <2> QED
    BY <1>5, <2>1, <2>2, <2>3
<1>8. CASE v.neg /\ k > 0
  <2>1. DayOf(v) = -w - 1
    BY <1>1, <1>8 DEF DayOf
  <2>2. DateOfSerial(v) = PreviousDay(AddDays(NullDate, -w))
    BY <1>1, <1>8 DEF DateOfSerial
  <2>3. PICK n \in Int : n = Origin - w /\ n = Origin + (-w) /\ n - 1 = Origin + (-w - 1)
    BY <1>2
  <2>4. n - 1 \in 2 .. MaxDays /\ n \in 2 .. MaxDays /\ n \in 2 .. MaxDays + 366 /\ n > 1
    BY <1>2, <1>3, <2>1, <2>3
  <2>5. AddDays(NullDate, -w) = DaysToDate(n)
    <3>1. -w \in Int
      OBVIOUS
    <3> QED
      BY <1>5, <2>3, <2>4, <3>1
  <2>6. DateToDays(DaysToDate(n)) = n
    BY <2>4, DaysAreDates
  <2>7. PreviousDay(DaysToDate(n)) = DaysToDate(n - 1)
    BY <2>4, <2>6 DEF PreviousDay
  <2>8. -w - 1 \in Int
    OBVIOUS
  <2> QED
    BY <2>1, <2>2, <2>3, <2>5, <2>7, <2>8
<1> QED
  BY <1>1, <1>6, <1>7, <1>8 DEF IsSerial

(* The formatter counts the days of a date as the Gregorian calendar does.   *)
LEMMA DayOfDate ==
    ASSUME NEW date, IsDate(date)
    PROVE  SerialDay(date.year, date.month, date.day) = DateToDays(date) - Origin
<1>1. PICK y \in Nat \ {0}, m \in 1 .. 12, d \in Int : y = date.year /\ m = date.month /\ d = date.day
  BY MonthStep DEF IsDate
<1>2. SerialDay(y, m, d) = DaysBeforeYear(y) + DaysBeforeMonth(m, y) + d - Origin
  BY MarchIsCivil
<1> QED
  <2>1. DateToDays(date) = DaysBeforeYear(y) + DaysBeforeMonth(m, y) + d
    BY <1>1 DEF DateToDays
  <2>2. SerialDay(date.year, date.month, date.day) = SerialDay(y, m, d)
    BY <1>1
  <2>3. DaysBeforeYear(y) \in Int /\ DaysBeforeMonth(m, y) \in Int
    <3>1. DaysBeforeYear(y) \in Int
      BY YearGrows
    <3>2. DaysBeforeMonth(m, y) = MonthStart(m, y)
      BY MonthStarts
    <3>3. MonthStart(m, y) \in 0 .. 335
      BY MonthStep
    <3> QED
      BY <3>1, <3>2, <3>3
  <2>4. Origin \in Int
    BY OriginIs, SMT
  <2> QED
    BY <1>2, <2>1, <2>2, <2>3, <2>4

(* The date the formatter has for a serial number is the date of the         *)
(* Gregorian calendar, counted in years from March by another formula, that  *)
(* lies that many days after 30.12.1899, for whole serials and fractions,    *)
(* before the null date and after (DateTime::operator+= of                   *)
(* nf_calendar.cpp).                                                         *)
THEOREM SerialsAreDates ==
    ASSUME NEW v, IsSerial(v), Origin + DayOf(v) \in 2 .. MaxDays
    PROVE  LET date == DateOfSerial(v)
           IN  IsDate(date) /\ SerialDay(date.year, date.month, date.day) = DayOf(v)
<1> DEFINE date == DateOfSerial(v)
<1>1. PICK n \in 2 .. MaxDays + 366 : n = Origin + DayOf(v)
  <2>1. Origin + DayOf(v) \in 2 .. MaxDays + 366
    BY DaysBound
  <2> QED
    BY <2>1
<1>2. date = DaysToDate(n) /\ DayOf(v) \in Int
  BY <1>1, SerialIsDay
<1>3. IsDate(date) /\ DateToDays(date) = n
  BY <1>2, DaysAreDates
<1>4. SerialDay(date.year, date.month, date.day) = n - Origin
  BY <1>3, DayOfDate
<1>5. Origin \in Int
  BY OriginIs, SMT
<1> HIDE DEF date
<1>6. SerialDay(date.year, date.month, date.day) = DayOf(v)
  BY <1>1, <1>2, <1>4, <1>5
<1> QED
  BY <1>3, <1>6 DEF date

(* Day n is day r, from zero, of the year y, which starts on weekday f.       *)
Placed(n, y, a, f, r) ==
    /\ y \in Nat \ {0} /\ a \in Nat /\ f \in 0 .. 6 /\ r \in Nat /\ r < DaysInYear(y)
    /\ DaysBeforeYear(y) = 7 * a + f
    /\ n = 7 * a + f + r + 1

(* What GetWeekOfYear says of the first days of a year that belong to the one *)
(* before.                                                                   *)
OldWeek(f, y) == IF f = 4 \/ (f = 5 /\ ImpIsLeapYear(y - 1)) THEN 53 ELSE 52

(* Every day has its place.                                                  *)
LEMMA PlacedExists ==
    ASSUME NEW n \in 2 .. MaxDays + 366
    PROVE  \E y \in Nat \ {0} : y <= 9998 /\ \E a \in Nat, f \in 0 .. 6, r \in Nat : Placed(n, y, a, f, r)
<1>1. n \in Int
  BY DaysBound, SMT
<1>2. PICK y \in Nat \ {0} : y <= 9998 /\ FitsYear(n, y)
  BY YearFound
<1>3. PICK b \in Nat, t \in Int : b = DaysBeforeYear(y) /\ t = DaysInYear(y)
  <2>1. DaysBeforeYear(y) \in Int /\ DaysInYear(y) \in Int
    BY YearGrows
  <2>2. DaysBeforeYear(y) >= (y - 1) * 365
    BY YearBounds
  <2>3. DaysBeforeYear(y) \in Nat
    BY <2>1, <2>2
  <2> QED
    BY <2>1, <2>3
<1>4. PICK a \in Nat, f \in 0 .. 6 : b = 7 * a + f
  <2>1. b \div 7 \in Int /\ b % 7 \in Int /\ 0 <= b % 7 /\ b % 7 <= 6 /\ b = 7 * (b \div 7) + (b % 7)
    OBVIOUS
  <2>2. PICK c \in Int, f \in Int : c = b \div 7 /\ f = b % 7
    BY <2>1
  <2>3. c \in Nat /\ f \in 0 .. 6 /\ b = 7 * c + f
    BY <2>1, <2>2
  <2> QED
    BY <2>3
<1>5. PICK r \in Nat : r = n - b - 1 /\ r < t /\ n = b + r + 1
  <2>1. n - b >= 1 /\ n - b <= t
    BY <1>1, <1>2, <1>3 DEF FitsYear
  <2>2. n - b - 1 \in Nat /\ n - b - 1 < t /\ n = b + (n - b - 1) + 1
    BY <1>1, <2>1
  <2> QED
    BY <2>2
<1>6. Placed(n, y, a, f, r)
  BY <1>3, <1>4, <1>5 DEF Placed
<1> QED
  BY <1>2, <1>6

(* GetDayOfWeek and GetWeekOfYear before its last test, by the place of the  *)
(* day.                                                                      *)
LEMMA PlacedWeek ==
    ASSUME NEW n \in 2 .. MaxDays + 366, NEW y, NEW a, NEW f, NEW r, Placed(n, y, a, f, r)
    PROVE  /\ GetDayOfWeek(DaysToDate(n)) = (r + f) % 7
           /\ StartsInOldWeek(DaysToDate(n)) <=> f >= 4 /\ r + f <= 6
           /\ EarlyWeek(DaysToDate(n)) = IF f < 4 THEN 1 + (r + f) \div 7
                                         ELSE IF r + f > 6 THEN (r + f) \div 7 ELSE OldWeek(f, y)
<1> DEFINE date == DaysToDate(n)
           newYear == [day |-> 1, month |-> 1, year |-> y]
<1>1. IsDate(date) /\ DateToDays(date) = n
  BY DaysAreDates
<1> HIDE DEF date
<1>2. /\ y \in Nat \ {0} /\ a \in Nat /\ f \in 0 .. 6 /\ r \in Nat /\ r < DaysInYear(y)
      /\ DaysBeforeYear(y) = 7 * a + f /\ n = 7 * a + f + r + 1
  BY DEF Placed
<1>3. FitsYear(n, y)
  BY <1>2, YearGrows DEF FitsYear
<1>4. date.year = y
  <2>1. FitsYear(n, date.year) /\ date.year \in Nat \ {0}
    BY <1>1, DateIsInItsYear DEF IsDate
  <2>2. n \in Int
    BY DaysBound, SMT
  <2> QED
    BY <1>2, <1>3, <2>1, <2>2, OneYear
<1>5. GetDayOfYear(date) = r + 1
  <2>1. n = 7 * a + f + GetDayOfYear(date)
    BY <1>1, <1>2, <1>4, DateIsInItsYear
  <2>2. GetDayOfYear(date) \in Int
    <3>1. GetDayOfYear(date) \in 1 .. DaysInYear(y)
      BY <1>1, <1>4, DateIsInItsYear
    <3> QED
      BY <1>2, <3>1, YearGrows
  <2> QED
    BY <1>2, <2>1, <2>2
<1>6. GetDayOfWeek(newYear) = f
  <2>1. DaysBeforeMonth(1, y) = 0
    BY MonthStarts, MonthStep
  <2>2. DateToDays(newYear) = 7 * a + f + 1
    BY <1>2, <2>1 DEF DateToDays
  <2> QED
    BY <1>2, <2>2 DEF GetDayOfWeek
<1>7. GetDayOfWeek(date) = (r + f) % 7
  <2>1. GetDayOfWeek(date) = (7 * a + f + r + 1 - 1) % 7
    BY <1>1, <1>2 DEF GetDayOfWeek
  <2>2. (7 * a + f + r + 1 - 1) % 7 = (r + f) % 7
    BY <1>2
  <2> QED
    BY <2>1, <2>2
<1>8. GetDayOfYear(date) - 1 + f = r + f
  BY <1>2, <1>5
<1>9. StartsInOldWeek(date) <=> f >= 4 /\ r + f <= 6
  BY <1>4, <1>6, <1>8 DEF StartsInOldWeek
<1>10. EarlyWeek(date) = IF f < 4 THEN 1 + (r + f) \div 7
                         ELSE IF r + f > 6 THEN (r + f) \div 7 ELSE OldWeek(f, y)
  <2> DEFINE old == CASE f = 4 -> 53
                      [] f = 5 /\ ImpIsLeapYear(y - 1) -> 53
                      [] OTHER -> 52
  <2>1. old = OldWeek(f, y)
    BY <1>2 DEF OldWeek
  <2>2. EarlyWeek(date) = IF f < 4 THEN 1 + (r + f) \div 7 ELSE IF r + f > 6 THEN (r + f) \div 7 ELSE old
    BY <1>4, <1>6, <1>8 DEF EarlyWeek
  <2> QED
    BY <2>1, <2>2
<1> QED
  BY <1>7, <1>9, <1>10 DEF date

(* The Thursday of a day, counted from 1.1.0001, a Monday.                   *)
LEMMA ThursdayIs ==
    ASSUME NEW n \in Int
    PROVE  ThursdayOf(n - Origin) + Origin = n - ((n - 1) % 7) + 3 /\ ThursdayOf(n - Origin) \in Int
<1>1. PICK c \in Int, w \in 0 .. 6 : n - 1 = 7 * c + w
  <2>1. n - 1 = ((n - 1) \div 7) * 7 + ((n - 1) % 7) /\ (n - 1) \div 7 \in Int /\ (n - 1) % 7 \in 0 .. 6
    BY DivisionFacts
  <2>2. PICK c \in Int, w \in 0 .. 6 : c = (n - 1) \div 7 /\ w = (n - 1) % 7
    BY <2>1
  <2> QED
    BY <2>1, <2>2
<1>2. (n - 1) % 7 = w
  BY <1>1
<1>3. PICK o \in Int : o = Origin /\ o = 7 * 99084 + 6
  BY OriginIs, SMT
<1>4. (n - o + 5) % 7 = w
  <2>1. n - o + 5 = 7 * (c - 99084) + w
    BY <1>1, <1>3
  <2> QED
    BY <1>1, <2>1
<1>5. ThursdayOf(n - o) = (n - o) - w + 3
  BY <1>4 DEF ThursdayOf
<1> QED
  BY <1>2, <1>3, <1>5

(* The last year of four digits.                                             *)
LEMMA LastYearIs == LastYear \in Nat /\ LastYear = 9999
BY SMT DEF LastYear

(* The year of a Thursday, and with it the week.                             *)
LEMMA IsoWeekIs ==
    ASSUME NEW day \in Int, NEW y \in Nat \ {0}, y <= 9999,
           FitsYear(ThursdayOf(day) + Origin, y), ThursdayOf(day) \in Int
    PROVE  IsoWeek(day) = (ThursdayOf(day) + Origin - DaysBeforeYear(y) - 1) \div 7 + 1
<1>1. PICK t \in Int, o \in Int : t = ThursdayOf(day) /\ o = Origin
  BY OriginIs, SMT
<1>2. \A z \in Nat \ {0} : SerialDay(z, 1, 1) = DaysBeforeYear(z) + 1 - o
  <2> SUFFICES ASSUME NEW z \in Nat \ {0} PROVE SerialDay(z, 1, 1) = DaysBeforeYear(z) + 1 - o
    OBVIOUS
  <2>1. DaysBeforeMonth(1, z) = 0
    BY MonthStarts, MonthStep
  <2>2. SerialDay(z, 1, 1) = DaysBeforeYear(z) + DaysBeforeMonth(1, z) + 1 - Origin
    BY MarchIsCivil
  <2>3. DaysBeforeYear(z) \in Int
    BY YearGrows
  <2> QED
    BY <1>1, <2>1, <2>2, <2>3
<1>3. \A z \in Nat \ {0} :
         (SerialDay(z, 1, 1) <= t /\ t < SerialDay(z + 1, 1, 1)) <=> FitsYear(t + o, z)
  <2> SUFFICES ASSUME NEW z \in Nat \ {0}
               PROVE  (SerialDay(z, 1, 1) <= t /\ t < SerialDay(z + 1, 1, 1)) <=> FitsYear(t + o, z)
    OBVIOUS
  <2>1. PICK b \in Int, d \in Int : b = DaysBeforeYear(z) /\ d = DaysInYear(z) /\ DaysBeforeYear(z + 1) = b + d
    <3>1. DaysBeforeYear(z) \in Int /\ DaysInYear(z) \in Int
      BY YearGrows
    <3>2. DaysBeforeYear(z + 1) = DaysBeforeYear(z) + DaysInYear(z)
      BY YearGrows
    <3> QED
      BY <3>1, <3>2
  <2>2. SerialDay(z, 1, 1) = b + 1 - o /\ SerialDay(z + 1, 1, 1) = b + d + 1 - o
    BY <1>2, <2>1
  <2> QED
    BY <1>1, <2>1, <2>2 DEF FitsYear
<1>4. \A z \in Nat \ {0} : FitsYear(t + o, z) => z = y
  BY <1>1, OneYear
<1>5. y \in 1 .. LastYear /\ \A z \in 1 .. LastYear : z \in Nat \ {0}
  BY LastYearIs, SMT
<1>6. \A z \in 1 .. LastYear :
         (SerialDay(z, 1, 1) <= ThursdayOf(day) /\ ThursdayOf(day) < SerialDay(z + 1, 1, 1)) <=> z = y
  BY <1>1, <1>3, <1>4, <1>5
<1>7. (CHOOSE z \in 1 .. LastYear : /\ SerialDay(z, 1, 1) <= ThursdayOf(day)
                                    /\ ThursdayOf(day) < SerialDay(z + 1, 1, 1)) = y
  BY <1>5, <1>6
<1>8. IsoWeek(day) = (t - SerialDay(y, 1, 1)) \div 7 + 1
  <2> DEFINE year == CHOOSE z \in 1 .. LastYear : /\ SerialDay(z, 1, 1) <= ThursdayOf(day)
                                                 /\ ThursdayOf(day) < SerialDay(z + 1, 1, 1)
  <2>1. IsoWeek(day) = (ThursdayOf(day) - SerialDay(year, 1, 1)) \div 7 + 1
    BY DEF IsoWeek, year
  <2>2. year = y
    BY <1>7
  <2> HIDE DEF year
  <2> QED
    BY <1>1, <2>1, <2>2
<1>9. PICK b \in Int : b = DaysBeforeYear(y)
  BY YearGrows
<1>10. SerialDay(y, 1, 1) = b + 1 - o
  BY <1>2, <1>9
<1>11. t - (b + 1 - o) = t + o - b - 1
  BY <1>1, <1>9
<1> QED
  BY <1>1, <1>8, <1>9, <1>10, <1>11

(* Day r of a year that starts on weekday f is weekday w of the row k of its  *)
(* sheet of weeks.                                                           *)
InWeekRow(r, f, k, w) == k \in Nat /\ w \in 0 .. 6 /\ r + f = 7 * k + w

(* The row and the weekday of a day.                                         *)
LEMMA RowExists ==
    ASSUME NEW q \in Nat
    PROVE  \E k \in Nat, w \in 0 .. 6 : q = 7 * k + w /\ k = q \div 7 /\ w = q % 7
<1>1. q = 7 * (q \div 7) + (q % 7) /\ q \div 7 \in Nat /\ q % 7 \in 0 .. 6
  OBVIOUS
<1> QED
  BY <1>1

(* The week of ISO 8601, by the place of the day: the Thursday is in the     *)
(* year itself, in the next or in the one before.                            *)
LEMMA PlacedIso ==
    ASSUME NEW n \in 2 .. MaxDays, NEW y, NEW a, NEW f, NEW r, Placed(n, y, a, f, r), y <= 9998,
           NEW k, NEW w, InWeekRow(r, f, k, w)
    PROVE  /\ 7 * k + 4 - f \in 1 .. DaysInYear(y) =>
                IsoWeek(n - Origin) = IF f < 4 THEN k + 1 ELSE k
           /\ 7 * k + 4 - f > DaysInYear(y) => IsoWeek(n - Origin) = 1
           /\ 7 * k + 4 - f < 1 => IsoWeek(n - Origin) = OldWeek(f, y)
<1>1. PICK t \in {365, 366} : t = DaysInYear(y)
  BY YearGrows DEF Placed
<1>2. /\ y \in Nat \ {0} /\ a \in Nat /\ f \in 0 .. 6 /\ r \in Nat /\ r < t
      /\ DaysBeforeYear(y) = 7 * a + f /\ n = 7 * a + f + r + 1
      /\ k \in Nat /\ w \in 0 .. 6 /\ r + f = 7 * k + w
  BY <1>1 DEF Placed, InWeekRow
<1>3. n \in Int /\ Origin \in Int /\ n - Origin \in Int
  BY DaysBound, OriginIs, SMT
<1>4. (n - 1) % 7 = w
  <2>1. n - 1 = 7 * (a + k) + w
    BY <1>2, <1>3
  <2> QED
    BY <1>2, <2>1
<1>5. ThursdayOf(n - Origin) + Origin = 7 * a + f + 7 * k + 4 - f /\ ThursdayOf(n - Origin) \in Int
  <2>1. ThursdayOf(n - Origin) + Origin = n - w + 3 /\ ThursdayOf(n - Origin) \in Int
    BY <1>3, <1>4, ThursdayIs
  <2> QED
    BY <1>2, <1>3, <2>1
<1> DEFINE T == ThursdayOf(n - Origin) + Origin
<1>6. ASSUME NEW z \in Nat \ {0}, z <= 9999, FitsYear(T, z)
      PROVE  IsoWeek(n - Origin) = (T - DaysBeforeYear(z) - 1) \div 7 + 1
  <2>1. IsoWeek(n - Origin) = (ThursdayOf(n - Origin) + Origin - DaysBeforeYear(z) - 1) \div 7 + 1
    BY <1>3, <1>5, <1>6, IsoWeekIs
  <2>2. PICK b \in Int, o \in Int, h \in Int : b = DaysBeforeYear(z) /\ o = Origin /\ h = ThursdayOf(n - Origin)
    BY <1>3, <1>5, <1>6, YearGrows
  <2>3. h + o - b - 1 = (h + o) - b - 1
    OBVIOUS
  <2> QED
    BY <2>1, <2>2, <2>3
<1>7. ASSUME 7 * k + 4 - f \in 1 .. t PROVE IsoWeek(n - Origin) = IF f < 4 THEN k + 1 ELSE k
  <2>1. FitsYear(T, y)
    BY <1>1, <1>2, <1>5, <1>7 DEF FitsYear
  <2>2. T - DaysBeforeYear(y) - 1 = 7 * k + 3 - f
    BY <1>2, <1>5
  <2>3. (7 * k + 3 - f) \div 7 + 1 = IF f < 4 THEN k + 1 ELSE k
    BY <1>2
  <2> HIDE DEF T
  <2> QED
    BY <1>2, <1>6, <2>1, <2>2, <2>3
<1>8. ASSUME 7 * k + 4 - f > t PROVE IsoWeek(n - Origin) = 1
  <2>1. y + 1 \in Nat \ {0} /\ y + 1 <= 9999 /\ DaysBeforeYear(y + 1) = 7 * a + f + t
    BY <1>1, <1>2, YearGrows
  <2>2. DaysInYear(y + 1) \in {365, 366}
    BY <2>1, YearGrows
  <2>3. PICK x \in 1 .. 7 : x = 7 * k + 4 - f - t
    BY <1>2, <1>8
  <2>4. T - DaysBeforeYear(y + 1) = x /\ T - DaysBeforeYear(y + 1) - 1 = x - 1
    BY <1>2, <1>5, <2>1, <2>3
  <2>5. FitsYear(T, y + 1)
    BY <2>2, <2>4 DEF FitsYear
  <2>6. (x - 1) \div 7 + 1 = 1
    OBVIOUS
  <2> HIDE DEF T
  <2> QED
    BY <1>6, <2>1, <2>4, <2>5, <2>6
<1>9. ASSUME 7 * k + 4 - f < 1 PROVE IsoWeek(n - Origin) = OldWeek(f, y)
  <2>1. k = 0 /\ f >= 4
    BY <1>2, <1>9
  <2>2. y # 1
    <3>1. DaysBeforeYear(1) = 0
      BY DEF DaysBeforeYear, LeapDaysBefore
    <3> QED
      BY <1>2, <2>1, <3>1
  <2>3. y - 1 \in Nat \ {0} /\ y - 1 <= 9999 /\ (y - 1) + 1 = y
    BY <1>2, <2>2
  <2>4. PICK l \in {0, 1} : DaysInYear(y - 1) = 365 + l /\ (l = 1 <=> ImpIsLeapYear(y - 1))
    BY DEF DaysInYear
  <2>5. DaysBeforeYear(y - 1) = 7 * a + f - 365 - l
    <3>1. DaysBeforeYear((y - 1) + 1) = DaysBeforeYear(y - 1) + (365 + l) /\ DaysBeforeYear(y - 1) \in Int
      BY <2>3, <2>4, YearGrows
    <3>2. DaysBeforeYear(y) = DaysBeforeYear(y - 1) + (365 + l)
      BY <2>3, <3>1
    <3> QED
      BY <1>2, <3>1, <3>2
  <2>6. T - DaysBeforeYear(y - 1) = 369 + l - f
    BY <1>2, <1>5, <2>1, <2>5
  <2>7. FitsYear(T, y - 1)
    BY <1>2, <2>1, <2>4, <2>6 DEF FitsYear
  <2>8. (369 + l - f - 1) \div 7 + 1 = OldWeek(f, y)
    <3>1. f = 4 \/ f = 5 \/ f = 6
      BY <1>2, <2>1
    <3> QED
      BY <2>4, <3>1 DEF OldWeek
  <2>9. T - DaysBeforeYear(y - 1) - 1 = 369 + l - f - 1
    BY <1>2, <1>5, <2>1, <2>5
  <2> HIDE DEF T
  <2> QED
    BY <1>6, <2>3, <2>7, <2>8, <2>9
<1> QED
  BY <1>1, <1>2, <1>5, <1>7, <1>8, <1>9

(* GetWeekOfYear of a date, with the default arguments, is the week of ISO   *)
(* 8601: the one its Thursday has in the Thursday's own year. The code       *)
(* never looks at the Thursday; it counts rows from the weekday of the       *)
(* first of January and asks the next Sunday when it counts 53 of them.      *)
THEOREM WeeksAreIso ==
    ASSUME NEW n \in 2 .. MaxDays
    PROVE  GetWeekOfYear(DaysToDate(n)) = IsoWeek(n - Origin)
<1>1. n \in Int /\ n \in 2 .. MaxDays + 366
  BY DaysBound, SMT
<1>2. PICK y \in Nat \ {0} : y <= 9998 /\ \E a \in Nat, f \in 0 .. 6, r \in Nat : Placed(n, y, a, f, r)
  BY <1>1, PlacedExists
<1>3. PICK a \in Nat, f \in 0 .. 6, r \in Nat : Placed(n, y, a, f, r)
  BY <1>2
<1>4. PICK t \in {365, 366} : t = DaysInYear(y)
  BY YearGrows
<1>5. r < t /\ DaysBeforeYear(y) = 7 * a + f /\ n = 7 * a + f + r + 1
  BY <1>3, <1>4 DEF Placed
<1>6. PICK k \in Nat, w \in 0 .. 6 : r + f = 7 * k + w /\ k = (r + f) \div 7 /\ w = (r + f) % 7
  <2>1. r + f \in Nat
    OBVIOUS
  <2> QED
    BY <2>1, RowExists
<1> DEFINE date == DaysToDate(n)
           week == EarlyWeek(date)
           sunday == n + 6 - w
           iso == IsoWeek(n - Origin)
<1>7. /\ DateToDays(date) + 6 - GetDayOfWeek(date) = sunday
      /\ StartsInOldWeek(date) <=> f >= 4 /\ r + f <= 6
      /\ week = IF f < 4 THEN 1 + k ELSE IF r + f > 6 THEN k ELSE OldWeek(f, y)
  <2>1. DateToDays(date) = n
    BY <1>1, DaysAreDates
  <2>2. GetDayOfWeek(date) = w
    BY <1>1, <1>3, <1>6, PlacedWeek
  <2>3. week = IF f < 4 THEN 1 + (r + f) \div 7 ELSE IF r + f > 6 THEN (r + f) \div 7 ELSE OldWeek(f, y)
    BY <1>1, <1>3, PlacedWeek
  <2>4. StartsInOldWeek(date) <=> f >= 4 /\ r + f <= 6
    BY <1>1, <1>3, PlacedWeek
  <2> HIDE DEF date
  <2> QED
    BY <1>6, <2>1, <2>2, <2>3, <2>4
<1>8. GetWeekOfYear(date) = IF week = 53 /\ ~StartsInOldWeek(date) THEN EarlyWeek(DaysToDate(sunday)) ELSE week
  <2> HIDE DEF date, sunday
  <2> QED
    BY <1>7 DEF GetWeekOfYear
<1>9. /\ 7 * k + 4 - f \in 1 .. t => iso = IF f < 4 THEN k + 1 ELSE k
      /\ 7 * k + 4 - f > t => iso = 1
      /\ 7 * k + 4 - f < 1 => iso = OldWeek(f, y)
  <2>1. InWeekRow(r, f, k, w)
    BY <1>6 DEF InWeekRow
  <2>2. /\ 7 * k + 4 - f \in 1 .. DaysInYear(y) => IsoWeek(n - Origin) = IF f < 4 THEN k + 1 ELSE k
        /\ 7 * k + 4 - f > DaysInYear(y) => IsoWeek(n - Origin) = 1
        /\ 7 * k + 4 - f < 1 => IsoWeek(n - Origin) = OldWeek(f, y)
    BY <1>2, <1>3, <2>1, PlacedIso
  <2> QED
    BY <1>4, <2>2
<1>10. sunday \in 2 .. MaxDays + 366 /\ sunday \in Int
  BY <1>1, DaysBound, SMT
\* The sunday of the week, in the year y or the next.
<1>11. ASSUME r + 6 - w < t
       PROVE  /\ f < 4 => EarlyWeek(DaysToDate(sunday)) = 1 + k
  <2>1. PICK s \in Nat : s = r + 6 - w
    BY <1>6
  <2>2. Placed(sunday, y, a, f, s)
    BY <1>1, <1>4, <1>5, <1>11, <2>1 DEF Placed
  <2>3. (s + f) \div 7 = k
    BY <1>6, <2>1
  <2> HIDE DEF sunday
  <2>4. f < 4 => EarlyWeek(DaysToDate(sunday)) = 1 + (s + f) \div 7
    BY <1>10, <2>2, PlacedWeek
  <2> QED
    BY <2>3, <2>4
<1>12. ASSUME NEW g \in 0 .. 6, NEW b \in Nat, 7 * b + g = 7 * a + f + t,
              r + 6 - w >= t, r + 6 - w - t + g = 6
       PROVE  EarlyWeek(DaysToDate(sunday)) = IF g < 4 THEN 1 ELSE OldWeek(g, y + 1)
  <2>1. PICK s \in Nat : s = r + 6 - w - t /\ s + g = 6
    BY <1>4, <1>6, <1>12
  <2>2. y + 1 \in Nat \ {0} /\ DaysBeforeYear(y + 1) = 7 * b + g
    BY <1>4, <1>5, <1>12, YearGrows
  <2>3. s < DaysInYear(y + 1)
    <3>1. DaysInYear(y + 1) \in {365, 366}
      BY <2>2, YearGrows
    <3> QED
      BY <2>1, <3>1
  <2>4. sunday = 7 * b + g + s + 1
    BY <1>1, <1>4, <1>5, <1>12, <2>1
  <2>5. Placed(sunday, y + 1, b, g, s)
    BY <1>12, <2>1, <2>2, <2>3, <2>4 DEF Placed
  <2>6. (s + g) \div 7 = 0
    BY <2>1
  <2> HIDE DEF sunday
  <2>7. EarlyWeek(DaysToDate(sunday)) = IF g < 4 THEN 1 + (s + g) \div 7
                                        ELSE IF s + g > 6 THEN (s + g) \div 7 ELSE OldWeek(g, y + 1)
    BY <1>10, <2>5, PlacedWeek
  <2> QED
    BY <2>1, <2>6, <2>7
<1> HIDE DEF date, week, sunday, iso
<1>13. CASE f < 4 /\ k # 52
  <2>1. k < 52
    BY <1>4, <1>5, <1>6, <1>13
  <2>2. 7 * k + 4 - f \in 1 .. t
    BY <1>4, <1>13, <2>1
  <2> QED
    BY <1>7, <1>8, <1>9, <1>13, <2>1, <2>2 DEF date, iso
<1>14. CASE f < 4 /\ k = 52
  <2>1. week = 53 /\ ~StartsInOldWeek(date)
    BY <1>7, <1>14
  <2>2. CASE r + 6 - w < t
    <3>1. 7 * k + 4 - f \in 1 .. t
      BY <1>4, <1>6, <1>14, <2>2
    <3> QED
      BY <1>8, <1>9, <1>11, <1>14, <2>1, <2>2, <3>1 DEF date, iso
  <2>3. CASE r + 6 - w >= t
    <3>1. PICK g \in 0 .. 6, b \in Nat : g = f + t - 364 /\ b = a + 52
      BY <1>4, <1>14
    <3>2. 7 * b + g = 7 * a + f + t /\ r + 6 - w - t + g = 6
      BY <1>4, <1>6, <1>14, <3>1
    <3>3. EarlyWeek(DaysToDate(sunday)) = IF g < 4 THEN 1 ELSE OldWeek(g, y + 1)
      BY <1>12, <2>3, <3>2
    <3>4. CASE g < 4
      <4>1. 7 * k + 4 - f > t
        BY <1>4, <1>14, <3>1, <3>4
      <4> QED
        BY <1>8, <1>9, <2>1, <3>3, <3>4, <4>1 DEF date, iso
    <3>5. CASE g >= 4
      <4>1. 7 * k + 4 - f \in 1 .. t
        BY <1>4, <1>14, <3>1, <3>5
      <4>2. g = 4 \/ (g = 5 /\ t = 366)
        BY <1>4, <1>14, <3>1, <3>5
      <4>3. t = 366 => ImpIsLeapYear((y + 1) - 1)
        <5>1. (y + 1) - 1 = y
          OBVIOUS
        <5> QED
          BY <1>4, <5>1 DEF DaysInYear
      <4>4. OldWeek(g, y + 1) = 53
        BY <4>2, <4>3 DEF OldWeek
      <4> QED
        BY <1>8, <1>9, <1>14, <2>1, <3>3, <3>5, <4>1, <4>4 DEF date, iso
    <3> QED
      BY <3>1, <3>4, <3>5
  <2> QED
    BY <1>4, <1>6, <2>2, <2>3
<1>15. CASE f >= 4 /\ k = 0
  <2>1. StartsInOldWeek(date) /\ week = OldWeek(f, y)
    BY <1>6, <1>7, <1>15
  <2>2. 7 * k + 4 - f < 1
    BY <1>15
  <2> QED
    BY <1>8, <1>9, <2>1, <2>2 DEF date, iso
<1>16. CASE f >= 4 /\ k # 0 /\ k # 53
  <2>1. k < 53 /\ r + f > 6
    BY <1>4, <1>5, <1>6, <1>16
  <2>2. 7 * k + 4 - f \in 1 .. t
    BY <1>4, <1>16, <2>1
  <2>3. week = k
    BY <1>7, <1>16, <2>1
  <2> QED
    BY <1>8, <1>9, <1>16, <2>2, <2>3 DEF date, iso
<1>17. CASE f >= 4 /\ k = 53
  <2>1. f = 6 /\ r = 365 /\ t = 366 /\ w = 0
    BY <1>4, <1>5, <1>6, <1>17
  <2>2. week = 53 /\ ~StartsInOldWeek(date)
    BY <1>7, <1>17, <2>1
  <2>3. PICK g \in 0 .. 6, b \in Nat : g = 1 /\ b = a + 53
    OBVIOUS
  <2>6. 7 * b + g = 7 * a + f + t /\ r + 6 - w >= t /\ r + 6 - w - t + g = 6
    BY <2>1, <2>3
  <2>7. EarlyWeek(DaysToDate(sunday)) = IF g < 4 THEN 1 ELSE OldWeek(g, y + 1)
    BY <1>12, <2>6
  <2>4. EarlyWeek(DaysToDate(sunday)) = 1
    BY <2>3, <2>7
  <2>5. 7 * k + 4 - f > t
    BY <1>17, <2>1
  <2> QED
    BY <1>8, <1>9, <2>2, <2>4, <2>5 DEF date, iso
<1> QED
  BY <1>13, <1>14, <1>15, <1>16, <1>17 DEF date, iso

(* What TEXT(v, "WW") shows is the week of ISO 8601 of the day of v: what    *)
(* WeekIsIso says of the serials of a run, for every serial of the           *)
(* calendar.                                                                 *)
THEOREM SerialWeeksAreIso ==
    ASSUME NEW v, IsSerial(v), Origin + DayOf(v) \in 2 .. MaxDays
    PROVE  GetWeekOfYear(DateOfSerial(v)) = IsoWeek(DayOf(v))
<1>1. DateOfSerial(v) = DaysToDate(Origin + DayOf(v)) /\ DayOf(v) \in Int
  BY SerialIsDay
<1>2. Origin \in Int
  BY OriginIs, SMT
<1>3. (Origin + DayOf(v)) - Origin = DayOf(v)
  BY <1>1, <1>2
<1> QED
  BY <1>1, <1>3, WeeksAreIso
=============================================================================
