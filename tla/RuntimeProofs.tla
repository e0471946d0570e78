--------------------------- MODULE RuntimeProofs ----------------------------
(***************************************************************************)
(* Proofs about the schedule of the runtime loop, for every monitoring and *)
(* poll interval, every float precision and however far the clock runs.    *)
(*                                                                         *)
(* None of the properties is inductive. AtMostOneLateRequest needs   *)
(* to know that after a late request the loop is on its way to the cycle   *)
(* with a reading that shows it due; StopWithinOneIteration, what an       *)
(* iteration can still begin from each point of the loop;                  *)
(* NeverTwiceAtOneInstant, that a deadline lies after the completion it    *)
(* was computed from, and TypeOK, that it is a float. Both rest on the     *)
(* floats below: a reading has one exponent, whose grid it lies on, and    *)
(* rounding a sum gives one of its two neighbours on the grid. The powers  *)
(* of two they are made of are counted as sets of subsets.                 *)
(***************************************************************************)
EXTENDS Runtime, FiniteSetTheorems, WellFoundedInduction, TLAPS

-----------------------------------------------------------------------------
(* Floats.                                                                 *)

(* A power of two exceeds its exponent: a set has more subsets than        *)
(* elements.                                                               *)
LEMMA PowerAbove ==
    ASSUME NEW k \in Nat
    PROVE  2^k \in Nat /\ 2^k > 0 /\ 2^k >= k
<1> DEFINE S == 1..k
           f == [i \in S |-> {i}]
<1>1. IsFiniteSet(S) /\ Cardinality(S) = k
    BY FS_Interval
<1>2. IsFiniteSet(SUBSET S) /\ Cardinality(SUBSET S) = 2^k
    BY <1>1, FS_SUBSET
<1>3. 2^k \in Nat
    BY <1>2, FS_CardinalityType
<1>4. f \in Injection(S, SUBSET S)
    BY DEF Injection, IsInjective
<1>5. k <= 2^k
    BY <1>1, <1>2, <1>4, FS_Injection
<1>6. 2^k # 0
    <2>1. Cardinality(SUBSET S) = 0 <=> SUBSET S = {}
        BY <1>2, FS_EmptySet
    <2>2. {} \in SUBSET S
        OBVIOUS
    <2> QED BY <1>2, <2>1, <2>2
<1> QED BY <1>3, <1>5, <1>6

(* Every nonempty set of naturals has a least element.                     *)
LEMMA LeastNatural ==
    ASSUME NEW S \in SUBSET Nat, S # {}
    PROVE  \E x \in S : \A y \in S : x <= y
<1>1. PICK x \in S : \A y \in S : ~(<<y, x>> \in OpToRel(<, Nat))
    BY NatLessThanWellFounded, WFMin
<1>2. \A y \in S : ~(y < x)
    BY <1>1 DEF OpToRel
<1> QED BY <1>2

(* Powers of two multiply: a set of a + b elements has as many subsets as  *)
(* there are pairs of subsets of its two parts.                            *)
LEMMA PowerSum ==
    ASSUME NEW a \in Nat, NEW b \in Nat
    PROVE  2^(a + b) = 2^a * 2^b
<1> DEFINE A == 1..a
           B == (a + 1)..(a + b)
           S == 1..(a + b)
           pair == [X \in SUBSET S |-> <<X \cap A, X \cap B>>]
<1>1. /\ IsFiniteSet(A) /\ Cardinality(A) = a
      /\ IsFiniteSet(B) /\ Cardinality(B) = b
      /\ IsFiniteSet(S) /\ Cardinality(S) = a + b
    <2>1. IsFiniteSet(A) /\ Cardinality(A) = a
        BY FS_Interval
    <2>2. IsFiniteSet(B) /\ Cardinality(B) = b
        <3>1. a + 1 \in Int /\ a + b \in Int
            OBVIOUS
        <3>2. /\ IsFiniteSet(B)
              /\ Cardinality(B) = IF a + 1 > a + b THEN 0
                                  ELSE a + b - (a + 1) + 1
            BY <3>1, FS_Interval
        <3> QED BY <3>2
    <2>3. IsFiniteSet(S) /\ Cardinality(S) = a + b
        <3>1. a + b \in Nat
            OBVIOUS
        <3> HIDE DEF S
        <3>2. /\ IsFiniteSet(S)
              /\ Cardinality(S) = IF 1 > a + b THEN 0 ELSE a + b - 1 + 1
            BY <3>1, FS_Interval DEF S
        <3> QED BY <3>1, <3>2
    <2> QED BY <2>1, <2>2, <2>3
<1>2. S = A \cup B /\ A \cap B = {}
    OBVIOUS
<1> HIDE DEF A, B, S
<1>3. /\ IsFiniteSet(SUBSET A) /\ Cardinality(SUBSET A) = 2^a
      /\ IsFiniteSet(SUBSET B) /\ Cardinality(SUBSET B) = 2^b
      /\ IsFiniteSet(SUBSET S) /\ Cardinality(SUBSET S) = 2^(a + b)
    BY <1>1, FS_SUBSET
<1>4. Cardinality((SUBSET A) \X (SUBSET B)) = 2^a * 2^b
    <2>1. Cardinality((SUBSET A) \X (SUBSET B)) =
            Cardinality(SUBSET A) * Cardinality(SUBSET B)
        BY <1>3, FS_Product, Zenon
    <2> QED BY <1>3, <2>1
<1>5. pair \in Bijection(SUBSET S, (SUBSET A) \X (SUBSET B))
    <2>1. pair \in [SUBSET S -> (SUBSET A) \X (SUBSET B)]
        OBVIOUS
    <2>2. ASSUME NEW X \in SUBSET S, NEW Y \in SUBSET S, pair[X] = pair[Y]
          PROVE  X = Y
        <3>1. X \cap A = Y \cap A /\ X \cap B = Y \cap B
            BY <2>2
        <3> QED BY <1>2, <3>1
    <2>3. ASSUME NEW X \in SUBSET A, NEW Y \in SUBSET B
          PROVE  \E Z \in SUBSET S : pair[Z] = <<X, Y>>
        <3>1. X \cup Y \in SUBSET S
            BY <1>2
        <3>2. (X \cup Y) \cap A = X /\ (X \cup Y) \cap B = Y
            BY <1>2
        <3> QED BY <3>1, <3>2
    <2>4. \A z \in (SUBSET A) \X (SUBSET B) :
            \E Z \in SUBSET S : pair[Z] = z
        <3> SUFFICES ASSUME NEW z \in (SUBSET A) \X (SUBSET B)
                     PROVE  \E Z \in SUBSET S : pair[Z] = z
            OBVIOUS
        <3>1. PICK X \in SUBSET A, Y \in SUBSET B : z = <<X, Y>>
            OBVIOUS
        <3> HIDE DEF pair
        <3> QED BY <2>3, <3>1
    <2> HIDE DEF pair
    <2> QED BY <2>1, <2>2, <2>4
            DEF Bijection, Injection, Surjection, IsInjective
<1>6. Cardinality((SUBSET A) \X (SUBSET B)) = Cardinality(SUBSET S)
    BY <1>3, <1>5, FS_Bijection DEF ExistsBijection
<1> QED BY <1>3, <1>4, <1>6

(* A greater exponent at least doubles the power.                          *)
LEMMA PowerGrows ==
    ASSUME NEW a \in Nat, NEW b \in Nat, a < b
    PROVE  2 * 2^a <= 2^b
<1>1. 2^1 = 2
    <2>1. SUBSET {1} = {{}, {1}}
        OBVIOUS
    <2>2. Cardinality(SUBSET {1}) = 2^1
        BY FS_Singleton, FS_SUBSET
    <2> DEFINE none == {{}}
               all == {1}
    <2>3. IsFiniteSet(none) /\ Cardinality(none) = 1 /\ all \notin none
        BY FS_Singleton
    <2>4. Cardinality({{}, {1}}) = 2
        <3>1. {{}, {1}} = none \cup {all}
            OBVIOUS
        <3> HIDE DEF none, all
        <3>2. Cardinality(none \cup {all}) = 2
            BY <2>3, FS_AddElement
        <3> QED BY <3>1, <3>2, Zenon
    <2> QED BY <2>1, <2>2, <2>4
<1>2. b - a \in Nat /\ b - a >= 1 /\ b = a + (b - a)
    OBVIOUS
<1>3. 2^(b - a) \in Nat /\ 2^(b - a) >= 2
    <2>1. 2^(b - a) \in Nat /\ 2^(b - a) >= b - a
        BY <1>2, PowerAbove
    <2>2. CASE b - a = 1
        BY <1>1, <2>2
    <2>3. CASE b - a # 1
        <3>1. b - a >= 2
            BY <1>2, <2>3
        <3> QED BY <2>1, <3>1
    <2> QED BY <2>2, <2>3
<1>4. 2^a \in Nat
    BY PowerAbove
<1>5. 2^b = 2^a * 2^(b - a)
    BY <1>2, PowerSum
<1>6. \A x, y \in Nat : y >= 2 => 2 * x <= x * y
    OBVIOUS
<1> QED BY <1>3, <1>4, <1>5, <1>6

\* The floats of exponent e: 2^Precision of them at a distance of 2^e, the
\* lower half of which only for the least exponent.
HasExponent(n, e) ==
    /\ n < 2^(Precision + e)
    /\ e = 0 \/ 2^(Precision + e - 1) <= n

(* The distance between the floats around a reading is a power of two,     *)
(* that of the reading's exponent.                                         *)
LEMMA UlpExponent ==
    ASSUME NEW n \in Nat
    PROVE  \E e \in Nat : Ulp(n) = 2^e /\ HasExponent(n, e)
<1> DEFINE fits(e) == n < 2^(Precision + e)
           S == {e \in 0..n : fits(e)}
           First(e) == fits(e) /\ \A d \in 0..(e - 1) : ~fits(d)
           e0 == CHOOSE e \in 0..n : First(e)
<1>1. Precision \in Nat /\ Precision >= 1
    BY RuntimeAssumption
<1>2. n \in S
    <2>1. Precision + n \in Nat /\ Precision + n > n
        BY <1>1
    <2>2. /\ 2^(Precision + n) \in Nat
          /\ 2^(Precision + n) >= Precision + n
        BY <2>1, PowerAbove
    <2> QED BY <1>1, <2>1, <2>2
<1> HIDE DEF fits
<1>3. PICK e \in S : \A d \in S : e <= d
    <2>1. S \in SUBSET Nat /\ S # {}
        BY <1>2
    <2> HIDE DEF S
    <2> QED BY <2>1, LeastNatural
<1>4. First(e)
    <2>1. ASSUME NEW d \in 0..(e - 1) PROVE ~fits(d)
        <3>1. d \in 0..n /\ ~(e <= d)
            BY <1>3
        <3> QED BY <1>3, <3>1
    <2> QED BY <1>3, <2>1
<1>5. e0 \in 0..n /\ First(e0)
    <2> HIDE DEF First
    <2> QED BY <1>3, <1>4
<1>6. Ulp(n) = 2^e0
    BY DEF Ulp, fits
<1> HIDE DEF e0
<1>7. HasExponent(n, e0)
    <2>1. CASE e0 = 0
        BY <1>5, <2>1 DEF HasExponent, fits
    <2>2. CASE e0 # 0
        <3>1. ~fits(e0 - 1)
            BY <1>5, <2>2
        <3>2. Precision + (e0 - 1) = Precision + e0 - 1
            BY <1>1, <1>5
        <3>3. 2^(Precision + e0 - 1) \in Nat
            BY <1>1, <1>5, <2>2, PowerAbove
        <3> QED BY <1>5, <3>1, <3>2, <3>3 DEF HasExponent, fits
    <2> QED BY <2>1, <2>2
<1> QED BY <1>5, <1>6, <1>7

(* There is only one such exponent.                                        *)
LEMMA UlpOf ==
    ASSUME NEW n \in Nat, NEW e \in Nat, HasExponent(n, e)
    PROVE  Ulp(n) = 2^e
<1>1. Precision \in Nat /\ Precision >= 1
    BY RuntimeAssumption
<1>2. ASSUME NEW d \in Nat, NEW f \in Nat, d < f,
             HasExponent(n, d), HasExponent(n, f)
      PROVE  FALSE
    <2>1. Precision + d \in Nat /\ Precision + f - 1 \in Nat
        BY <1>1
    <2>2. 2^(Precision + d) \in Nat /\ 2^(Precision + f - 1) \in Nat
        BY <2>1, PowerAbove
    <2>3. 2^(Precision + d) <= 2^(Precision + f - 1)
        <3>1. CASE Precision + d = Precision + f - 1
            BY <2>2, <3>1
        <3>2. CASE Precision + d < Precision + f - 1
            BY <2>1, <2>2, <3>2, PowerGrows
        <3> QED BY <1>1, <1>2, <3>1, <3>2
    <2> QED BY <1>2, <2>2, <2>3 DEF HasExponent
<1>3. PICK f \in Nat : Ulp(n) = 2^f /\ HasExponent(n, f)
    BY UlpExponent
<1>4. ~(e < f) /\ ~(f < e)
    BY <1>2, <1>3
<1> QED BY <1>3, <1>4

(* The distance between the floats around a reading is positive.           *)
LEMMA UlpPositive ==
    ASSUME NEW n \in Nat
    PROVE  Ulp(n) \in Nat /\ Ulp(n) > 0
BY UlpExponent, PowerAbove

IsFloat(n) == n % Ulp(n) = 0

(* A multiple leaves no remainder, and what leaves none is a multiple.     *)
LEMMA Multiples ==
    ASSUME NEW u \in Nat, u > 0, NEW n \in Nat
    PROVE  /\ n \div u \in Nat /\ n % u \in 0..(u - 1)
           /\ n = u * (n \div u) + (n % u)
           /\ (u * n) % u = 0
<1>1. /\ n \div u \in Nat /\ n % u \in 0..(u - 1)
      /\ n = u * (n \div u) + (n % u)
    OBVIOUS
<1>2. (u * n) % u = 0
    OBVIOUS
<1> QED BY <1>1, <1>2

(* What lies on the grid of an exponent, its upper end included, is a      *)
(* float.                                                                  *)
LEMMA OnGrid ==
    ASSUME NEW e \in Nat, NEW k \in Nat, k <= 2^Precision,
           e = 0 \/ 2^(Precision - 1) <= k
    PROVE  2^e * k \in Nat /\ IsFloat(2^e * k)
<1> DEFINE p == Precision - 1
           u == 2^e
           half == 2^p
           m == u * k
<1>1. /\ p \in Nat /\ Precision = p + 1 /\ Precision + e - 1 = e + p
      /\ Precision + e = e + Precision /\ Precision \in Nat
    BY RuntimeAssumption
<1>2. u \in Nat /\ u > 0 /\ half \in Nat /\ half > 0 /\ 2^Precision \in Nat
    BY <1>1, PowerAbove
<1>3. 2^(Precision + e) = u * 2^Precision /\ 2^(Precision + e - 1) = u * half
    BY <1>1, PowerSum
<1>4. \A x, y, z \in Nat : /\ x * y \in Nat
                           /\ y <= z => x * y <= x * z
                           /\ x > 0 /\ y < z => x * y < x * z
    OBVIOUS
<1>5. m \in Nat
    BY <1>2, <1>4
<1>6. CASE k < 2^Precision
    <2>1. m < 2^(Precision + e)
        BY <1>2, <1>3, <1>4, <1>6
    <2>2. e = 0 \/ 2^(Precision + e - 1) <= m
        BY <1>2, <1>3, <1>4
    <2>3. Ulp(m) = u
        <3>1. HasExponent(m, e)
            BY <2>1, <2>2 DEF HasExponent
        <3> QED BY <1>5, <3>1, UlpOf
    <2> QED BY <1>2, <1>5, <2>3, Multiples DEF IsFloat
<1>7. CASE k = 2^Precision
    <2>1. m = 2^(Precision + e)
        BY <1>3, <1>7
    <2>2. /\ e + 1 \in Nat /\ Precision + (e + 1) - 1 = Precision + e
          /\ Precision + e \in Nat /\ Precision + (e + 1) \in Nat
          /\ Precision + e < Precision + (e + 1)
          /\ Precision + e = (e + 1) + p
        BY <1>1
    <2>3. m < 2^(Precision + (e + 1))
        <3>1. 2 * m <= 2^(Precision + (e + 1))
            BY <2>1, <2>2, PowerGrows
        <3>2. m > 0
            BY <2>1, <2>2, PowerAbove
        <3>3. 2^(Precision + (e + 1)) \in Nat
            BY <2>2, PowerAbove
        <3> HIDE DEF m
        <3> QED BY <1>5, <3>1, <3>2, <3>3
    <2>4. Ulp(m) = 2^(e + 1)
        <3>1. HasExponent(m, e + 1)
            BY <1>5, <2>1, <2>2, <2>3 DEF HasExponent
        <3> QED BY <1>5, <2>2, <3>1, UlpOf
    <2>5. m = 2^(e + 1) * half
        BY <1>1, <2>1, <2>2, PowerSum
    <2>6. 2^(e + 1) \in Nat /\ 2^(e + 1) > 0
        BY <2>2, PowerAbove
    <2> HIDE DEF m, half
    <2>7. m % 2^(e + 1) = 0
        BY <1>2, <2>5, <2>6, Multiples
    <2> QED BY <1>5, <2>4, <2>7 DEF IsFloat, m
<1> QED BY <1>2, <1>6, <1>7

(* The grid around a reading: the reading lies between two neighbours that *)
(* are both floats.                                                        *)
LEMMA Neighbours ==
    ASSUME NEW n \in Nat
    PROVE  LET below == n - (n % Ulp(n))
           IN  /\ below \in Nat /\ below <= n /\ n < below + Ulp(n)
               /\ IsFloat(below) /\ IsFloat(below + Ulp(n))
<1>1. PICK e \in Nat : Ulp(n) = 2^e /\ HasExponent(n, e)
    BY UlpExponent
<1> DEFINE u == 2^e
           q == n \div u
           p == Precision - 1
           half == 2^p
           whole == 2^Precision
<1>2. /\ p \in Nat /\ Precision + e - 1 = e + p /\ Precision \in Nat
      /\ Precision + e = e + Precision
    BY RuntimeAssumption
<1>3. u \in Nat /\ u > 0 /\ half \in Nat /\ whole \in Nat
    BY <1>2, PowerAbove
<1>4. 2^(Precision + e) = u * whole /\ 2^(Precision + e - 1) = u * half
    BY <1>2, PowerSum
<1>5. n < u * whole /\ (e = 0 \/ u * half <= n)
    BY <1>1, <1>4 DEF HasExponent
<1> HIDE DEF u, half, whole
<1>6. q \in Nat /\ n % u \in 0..(u - 1) /\ n = u * q + (n % u)
    BY <1>3, Multiples
<1> HIDE DEF q
<1>7. \A x, y, z \in Nat : /\ x * y \in Nat
                           /\ y <= z => x * y <= x * z
                           /\ x * (y + 1) = x * y + x
    OBVIOUS
<1>8. u * q \in Nat /\ u * q <= n /\ n < u * (q + 1) /\ n - (n % u) = u * q
    BY <1>3, <1>6, <1>7
<1>9. q + 1 <= whole
    <2>1. ASSUME whole <= q PROVE FALSE
        BY <1>3, <1>5, <1>6, <1>7, <1>8, <2>1
    <2> QED BY <1>3, <1>6, <2>1
<1>10. e = 0 \/ half <= q
    <2>1. ASSUME e # 0, q + 1 <= half PROVE FALSE
        <3>1. u * (q + 1) <= u * half
            BY <1>3, <1>6, <1>7, <2>1
        <3>2. u * (q + 1) \in Nat /\ u * half \in Nat
            BY <1>3, <1>6, <1>7
        <3> QED BY <1>5, <1>8, <2>1, <3>1, <3>2
    <2> QED BY <1>3, <1>6, <2>1
<1>11. IsFloat(u * q) /\ IsFloat(u * (q + 1))
    <2>1. q <= whole /\ q + 1 \in Nat /\ (e = 0 \/ half <= q + 1)
        BY <1>3, <1>6, <1>9, <1>10
    <2> QED BY <1>6, <1>9, <1>10, <2>1, OnGrid DEF u, half, whole
<1>12. u * (q + 1) = u * q + u
    BY <1>3, <1>6, <1>7
<1> QED BY <1>1, <1>8, <1>11, <1>12 DEF u

(* Rounding gives one of the two: a float no farther than half their       *)
(* distance.                                                               *)
LEMMA RoundedIsFloat ==
    ASSUME NEW n \in Nat
    PROVE  /\ RoundToFloat(n) \in Nat
           /\ IsFloat(RoundToFloat(n))
           /\ 2 * (RoundToFloat(n) - n) <= Ulp(n)
           /\ 2 * (n - RoundToFloat(n)) <= Ulp(n)
<1> DEFINE u == Ulp(n)
           below == n - (n % u)
           m == RoundToFloat(n)
<1>1. u \in Nat /\ u > 0
    BY UlpPositive
<1>2. /\ below \in Nat /\ below <= n /\ n < below + u
      /\ IsFloat(below) /\ IsFloat(below + u)
    BY Neighbours
<1>3. n % u \in Nat
    <2> HIDE DEF u
    <2> QED BY <1>1
<1>4. \/ m = below /\ 2 * (n % u) <= u
      \/ m = below + u /\ 2 * (n % u) >= u
    <2> HIDE DEF u, below
    <2>1. \/ m = below /\ (2 * (n % u) < u \/ 2 * (n % u) = u)
          \/ m = below + u /\ ~(2 * (n % u) < u)
        BY DEF RoundToFloat, u, below
    <2> HIDE DEF m
    <2> QED BY <1>1, <1>3, <2>1
<1>5. n = below + (n % u)
    <2> HIDE DEF u
    <2> QED BY <1>3
<1> HIDE DEF m, u, below
<1>6. m \in Nat /\ IsFloat(m)
    BY <1>1, <1>2, <1>4
<1>7. 2 * (m - n) <= u /\ 2 * (n - m) <= u
    BY <1>1, <1>2, <1>3, <1>4, <1>5
<1> QED BY <1>6, <1>7 DEF m, u

(* nextafter gives the next float.                                         *)
LEMMA NextIsFloat ==
    ASSUME NEW n \in Nat, IsFloat(n)
    PROVE  nextafter(n) \in Nat /\ nextafter(n) > n /\ IsFloat(nextafter(n))
<1>1. Ulp(n) \in Nat /\ Ulp(n) > 0
    BY UlpPositive
<1>2. IsFloat((n - (n % Ulp(n))) + Ulp(n))
    BY Neighbours
<1>3. n - (n % Ulp(n)) = n
    BY DEF IsFloat
<1>4. IsFloat(n + Ulp(n))
    BY <1>2, <1>3, Zenon
<1> QED BY <1>1, <1>4 DEF nextafter

(* A deadline lies after the completion it is computed from, even where    *)
(* the interval is lost in the rounding of the sum, and is a float: the    *)
(* sum rounded to nearest, or else the float after the completion.         *)
THEOREM DeadlineAfter ==
    ASSUME NEW completion \in Nat, IsFloat(completion),
           NEW interval \in Nat
    PROVE  LET deadline == deadline_after(completion, interval)
               sum == completion + interval
           IN  /\ deadline \in Nat
               /\ deadline > completion
               /\ IsFloat(deadline)
               /\ \/ deadline = nextafter(completion)
                  \/ /\ 2 * (deadline - sum) <= Ulp(sum)
                     /\ 2 * (sum - deadline) <= Ulp(sum)
<1> DEFINE sum == completion + interval
           rounded == RoundToFloat(sum)
<1>1. sum \in Nat
    OBVIOUS
<1>2. /\ rounded \in Nat /\ IsFloat(rounded)
      /\ 2 * (rounded - sum) <= Ulp(sum)
      /\ 2 * (sum - rounded) <= Ulp(sum)
    BY <1>1, RoundedIsFloat
<1>3. /\ nextafter(completion) \in Nat /\ nextafter(completion) > completion
      /\ IsFloat(nextafter(completion))
    BY NextIsFloat
<1>4. deadline_after(completion, interval) =
        IF rounded <= completion THEN nextafter(completion) ELSE rounded
    BY DEF deadline_after
<1> HIDE DEF rounded
<1>5. CASE rounded <= completion
    BY <1>3, <1>4, <1>5
<1>6. CASE ~(rounded <= completion)
    <2>1. rounded > completion
        BY <1>2, <1>6
    <2> QED BY <1>2, <1>4, <1>6, <2>1
<1> QED BY <1>5, <1>6

-----------------------------------------------------------------------------
(* The inductive invariant.                                                *)

\* What the steps need of the types.
ReadingsTyped ==
    /\ clock \in Nat /\ now \in Nat
    /\ next_due \in Nat \cup {Unscheduled}
    /\ completed \in Nat \cup {Unscheduled}
    /\ pc \in {"boundary", "schedule", "cycle", "bound", "accept", "client",
              "returned"}
    /\ stop \in BOOLEAN

\* What the loop keeps exists as a float, and the accept wait is bounded.
FloatsKept ==
    /\ clock \in Float /\ now \in Float /\ waitStart \in Float
    /\ completed \in Float \cup {Unscheduled}
    /\ next_due \in Nat \cup {Unscheduled}
    /\ next_due # Unscheduled => IsFloat(next_due)
    /\ timeout \in 0..PollInterval

\* After a late request the loop comes back to the schedule check with a
\* reading that shows the cycle due.
LateSeen ==
    /\ late \in {0, 1}
    /\ late = 1 => \/ pc \in {"client", "boundary", "returned"}
                      /\ next_due <= clock
                   \/ pc = "schedule" /\ next_due <= now

\* What has been begun since the stop, by the point of the loop.
StopSeen ==
    /\ afterStop \in [cycles : {0, 1}, requests : {0, 1}]
    /\ ~stop => afterStop.cycles = 0 /\ afterStop.requests = 0
    /\ pc = "schedule" => afterStop.cycles = 0
    /\ pc \in {"schedule", "cycle", "bound", "accept"} =>
            afterStop.requests = 0

\* The deadline lies after the last completion.
DeadlineAhead == completed # Unscheduled => next_due > completed

LoopInv ==
    /\ ReadingsTyped
    /\ LateSeen
    /\ StopSeen
    /\ DeadlineAhead
    /\ NeverTwiceAtOneInstant

-----------------------------------------------------------------------------
(* The steps.                                                              *)

(* Readings are naturals.                                                  *)
LEMMA FloatFacts ==
    /\ 0 \in Float
    /\ \A t \in Float : t \in Nat /\ IsFloat(t)
<1>1. 0 % Ulp(0) = 0
    BY UlpPositive
<1> QED BY <1>1, RuntimeAssumption DEF Float, Clock, IsFloat

(* Nothing has been rounded yet.                                           *)
LEMMA InitFloats == Init => FloatsKept
BY FloatFacts, RuntimeAssumption DEF Init, FloatsKept

(* A deadline is rounded to a float; everything else is a reading.         *)
LEMMA NextFloats == FloatsKept /\ [Next]_vars => FloatsKept'
<1> SUFFICES ASSUME FloatsKept, [Next]_vars PROVE FloatsKept'
    OBVIOUS
<1>1. CASE Tick
    BY <1>1 DEF Tick, FloatsKept
<1>2. CASE ReadClock
    <2>1. clock \in Nat /\ IsFloat(clock)
        BY FloatFacts DEF FloatsKept
    <2>2. /\ next_due' \in Nat \cup {Unscheduled}
          /\ next_due' # Unscheduled => IsFloat(next_due')
        BY <1>2, <2>1 DEF ReadClock, FloatsKept
    <2> QED BY <1>2, <2>2 DEF ReadClock, FloatsKept
<1>3. CASE EndCycle
    <2>1. /\ clock \in Nat /\ IsFloat(clock) /\ MonitorInterval \in Nat
        BY FloatFacts, RuntimeAssumption DEF FloatsKept
    <2>2. next_due' = deadline_after(clock, MonitorInterval)
        BY <1>3 DEF EndCycle
    <2>3. next_due' \in Nat /\ IsFloat(next_due')
        BY <2>1, <2>2, DeadlineAfter
    <2> QED BY <1>3, <2>3 DEF EndCycle, FloatsKept
<1>4. CASE BeginWait
    <2>1. now \in Nat /\ next_due \in Int
        BY FloatFacts DEF FloatsKept, Unscheduled
    <2>2. AcceptBound \in 0..PollInterval
        BY <2>1, RuntimeAssumption DEF AcceptBound
    <2> QED BY <1>4, <2>2 DEF BeginWait, FloatsKept
<1>5. CASE \/ Return \/ BeginCycle \/ SkipCycle \/ WaitExpires \/ Accept
           \/ ClientDone \/ RequestStop \/ UNCHANGED vars
    <2>1. UNCHANGED <<clock, now, waitStart, completed, next_due, timeout>>
        BY <1>5 DEF Return, BeginCycle, SkipCycle, WaitExpires, Accept,
                    ClientDone, RequestStop, vars
    <2> QED BY <2>1 DEF FloatsKept
<1> QED BY <1>1, <1>2, <1>3, <1>4, <1>5 DEF Next, LoopStep

(* The loop has begun nothing yet.                                         *)
LEMMA InitLoop == Init => LoopInv
<1> SUFFICES ASSUME Init PROVE LoopInv
    OBVIOUS
<1>1. clock \in Nat
    BY RuntimeAssumption DEF Init, Float, Clock
<1>2. ReadingsTyped
    BY <1>1 DEF Init, ReadingsTyped
<1>3. LateSeen /\ StopSeen
    BY DEF Init, LateSeen, StopSeen
<1>4. DeadlineAhead /\ NeverTwiceAtOneInstant
    BY DEF Init, DeadlineAhead, NeverTwiceAtOneInstant
<1> QED BY <1>2, <1>3, <1>4 DEF LoopInv

(* Time passing, and the stop signal, whatever the loop is doing.          *)
LEMMA OutsideKeeps ==
    ASSUME LoopInv, Tick \/ RequestStop
    PROVE  LoopInv'
<1> USE DEF LoopInv
<1>1. CASE Tick
    <2>1. PICK t \in Float : t > clock /\ clock' = t
        BY <1>1 DEF Tick
    <2>2. t \in Nat
        BY RuntimeAssumption DEF Float, Clock
    <2>3. /\ pc' = pc /\ now' = now /\ next_due' = next_due /\ stop' = stop
          /\ completed' = completed /\ late' = late /\ afterStop' = afterStop
        BY <1>1 DEF Tick
    <2>4. ReadingsTyped'
        BY <2>1, <2>2, <2>3 DEF ReadingsTyped
    <2>5. LateSeen'
        BY <2>1, <2>2, <2>3 DEF ReadingsTyped, LateSeen, Unscheduled
    <2>6. StopSeen' /\ DeadlineAhead' /\ NeverTwiceAtOneInstant'
        BY <2>3 DEF StopSeen, DeadlineAhead, NeverTwiceAtOneInstant
    <2> QED BY <2>4, <2>5, <2>6
<1>2. CASE RequestStop
    <2>1. /\ stop' = TRUE /\ clock' = clock
          /\ pc' = pc /\ now' = now /\ next_due' = next_due
          /\ completed' = completed /\ late' = late /\ afterStop' = afterStop
        BY <1>2 DEF RequestStop
    <2> QED BY <2>1 DEF ReadingsTyped, LateSeen, StopSeen, DeadlineAhead,
                        NeverTwiceAtOneInstant
<1> QED BY <1>1, <1>2

(* The boundary and the schedule check.                                    *)
LEMMA ScheduleKeeps ==
    ASSUME LoopInv, Return \/ ReadClock \/ BeginCycle \/ SkipCycle
    PROVE  LoopInv'
<1> USE DEF LoopInv
<1>1. CASE Return
    <2>1. /\ pc = "boundary" /\ pc' = "returned" /\ clock' = clock
          /\ now' = now /\ next_due' = next_due /\ stop' = stop
          /\ completed' = completed /\ late' = late /\ afterStop' = afterStop
        BY <1>1 DEF Return
    <2> QED BY <2>1 DEF ReadingsTyped, LateSeen, StopSeen, DeadlineAhead,
                        NeverTwiceAtOneInstant
<1>2. CASE ReadClock
    <2>1. /\ pc = "boundary" /\ ~stop /\ pc' = "schedule" /\ now' = clock
          /\ next_due' = IF next_due = Unscheduled THEN clock ELSE next_due
          /\ clock' = clock /\ stop' = stop
          /\ completed' = completed /\ late' = late /\ afterStop' = afterStop
        BY <1>2 DEF ReadClock
    <2>2. ReadingsTyped'
        BY <2>1 DEF ReadingsTyped
    <2>3. LateSeen'
        BY <2>1 DEF ReadingsTyped, LateSeen, Unscheduled
    <2>4. StopSeen'
        BY <2>1 DEF StopSeen
    <2>5. DeadlineAhead' /\ NeverTwiceAtOneInstant'
        BY <2>1 DEF ReadingsTyped, DeadlineAhead, NeverTwiceAtOneInstant,
                    Unscheduled
    <2> QED BY <2>2, <2>3, <2>4, <2>5
<1>3. CASE BeginCycle
    <2>1. /\ pc = "schedule" /\ now >= next_due /\ pc' = "cycle" /\ late' = 0
          /\ afterStop' = IF stop
                          THEN [afterStop EXCEPT !.cycles = Counted(@)]
                          ELSE afterStop
          /\ clock' = clock /\ now' = now /\ next_due' = next_due
          /\ stop' = stop /\ completed' = completed
        BY <1>3 DEF BeginCycle
    <2>2. ReadingsTyped' /\ LateSeen'
        BY <2>1 DEF ReadingsTyped, LateSeen
    <2>3. StopSeen'
        BY <2>1 DEF StopSeen, Counted
    <2>4. DeadlineAhead' /\ NeverTwiceAtOneInstant'
        BY <2>1 DEF ReadingsTyped, DeadlineAhead, NeverTwiceAtOneInstant,
                    Unscheduled
    <2> QED BY <2>2, <2>3, <2>4
<1>4. CASE SkipCycle
    <2>1. /\ pc = "schedule" /\ now < next_due /\ pc' = "bound"
          /\ clock' = clock /\ now' = now /\ next_due' = next_due
          /\ stop' = stop /\ completed' = completed /\ late' = late
          /\ afterStop' = afterStop
        BY <1>4 DEF SkipCycle
    <2>2. late = 0
        BY <2>1 DEF ReadingsTyped, LateSeen, Unscheduled
    <2> QED BY <2>1, <2>2 DEF ReadingsTyped, LateSeen, StopSeen, DeadlineAhead,
                              NeverTwiceAtOneInstant
<1> QED BY <1>1, <1>2, <1>3, <1>4

(* The end of a cycle, the accept wait and the request.                    *)
LEMMA ServeKeeps ==
    ASSUME FloatsKept, LoopInv,
           EndCycle \/ BeginWait \/ WaitExpires \/ Accept \/ ClientDone
    PROVE  LoopInv'
<1> USE DEF LoopInv
<1>1. CASE EndCycle
    <2>1. /\ pc = "cycle" /\ pc' = "bound" /\ now' = clock
          /\ completed' = clock /\ clock' = clock /\ stop' = stop
          /\ next_due' = deadline_after(clock, MonitorInterval)
          /\ late' = late /\ afterStop' = afterStop
        BY <1>1 DEF EndCycle
    <2>2. /\ next_due' \in Nat /\ next_due' > clock /\ IsFloat(next_due')
        <3>1. clock \in Nat /\ IsFloat(clock) /\ MonitorInterval \in Nat
            BY FloatFacts, RuntimeAssumption DEF FloatsKept
        <3> QED BY <2>1, <3>1, DeadlineAfter
    <2>3. ReadingsTyped'
        BY <2>1, <2>2 DEF ReadingsTyped
    <2>4. LateSeen' /\ StopSeen'
        BY <2>1 DEF LateSeen, StopSeen
    <2>5. DeadlineAhead' /\ NeverTwiceAtOneInstant'
        BY <2>1, <2>2 DEF DeadlineAhead, NeverTwiceAtOneInstant
    <2> QED BY <2>3, <2>4, <2>5
<1>2. CASE BeginWait \/ WaitExpires \/ ClientDone
    <2>1. /\ \/ pc = "bound" /\ pc' = "accept"
             \/ pc \in {"accept", "client"} /\ pc' = "boundary"
          /\ clock' = clock /\ now' = now /\ next_due' = next_due
          /\ stop' = stop /\ completed' = completed /\ late' = late
          /\ afterStop' = afterStop
        BY <1>2 DEF BeginWait, WaitExpires, ClientDone
    <2>2. ReadingsTyped' /\ LateSeen'
        BY <2>1 DEF ReadingsTyped, LateSeen
    <2>3. StopSeen' /\ DeadlineAhead' /\ NeverTwiceAtOneInstant'
        BY <2>1 DEF StopSeen, DeadlineAhead, NeverTwiceAtOneInstant
    <2> QED BY <2>2, <2>3
<1>3. CASE Accept
    <2>1. /\ pc = "accept" /\ pc' = "client"
          /\ late' = IF clock >= next_due THEN Counted(late) ELSE late
          /\ afterStop' = IF stop
                          THEN [afterStop EXCEPT !.requests = Counted(@)]
                          ELSE afterStop
          /\ clock' = clock /\ now' = now /\ next_due' = next_due
          /\ stop' = stop /\ completed' = completed
        BY <1>3 DEF Accept
    <2>2. late = 0
        BY <2>1 DEF LateSeen
    <2>3. ReadingsTyped' /\ LateSeen'
        BY <2>1, <2>2 DEF ReadingsTyped, LateSeen, Counted, Unscheduled
    <2>4. StopSeen'
        BY <2>1 DEF StopSeen, Counted
    <2>5. DeadlineAhead' /\ NeverTwiceAtOneInstant'
        BY <2>1 DEF DeadlineAhead, NeverTwiceAtOneInstant
    <2> QED BY <2>3, <2>4, <2>5
<1> QED BY <1>1, <1>2, <1>3

(* Every step keeps the invariant.                                         *)
LEMMA NextLoop == FloatsKept /\ LoopInv /\ [Next]_vars => LoopInv'
<1> SUFFICES ASSUME FloatsKept, LoopInv, [Next]_vars PROVE LoopInv'
    OBVIOUS
<1>1. CASE Next
    BY <1>1, OutsideKeeps, ScheduleKeeps, ServeKeeps DEF Next, LoopStep
<1>2. CASE UNCHANGED vars
    BY <1>2 DEF vars, LoopInv, ReadingsTyped, LateSeen, StopSeen,
                DeadlineAhead, NeverTwiceAtOneInstant
<1> QED BY <1>1, <1>2

(* The invariant always holds.                                             *)
LEMMA LoopAlways == Spec => [](FloatsKept /\ LoopInv)
BY InitFloats, NextFloats, InitLoop, NextLoop, PTL DEF Spec

-----------------------------------------------------------------------------
(* The theorems.                                                           *)

(* Every clock value the loop keeps is a reading or a sum that exists as a *)
(* float, at every precision: rounding never leaves the grid, not even     *)
(* where the sum crosses to a greater exponent.                            *)
THEOREM LoopTypeCorrect == Spec => []TypeOK
<1>1. FloatsKept /\ LoopInv => TypeOK
    <2> SUFFICES ASSUME FloatsKept, LoopInv PROVE TypeOK
        OBVIOUS
    <2>1. late \in 0..2 /\ afterStop \in [cycles : 0..2, requests : 0..2]
        BY DEF LoopInv, LateSeen, StopSeen
    <2> QED BY <2>1 DEF LoopInv, ReadingsTyped, FloatsKept, IsFloat, TypeOK
<1> QED BY <1>1, LoopAlways, PTL

(* Continuous heartbeat traffic delays a due cycle by at most one request, *)
(* whatever the intervals and however long every step takes.               *)
THEOREM MonitoringNotStarved == Spec => []AtMostOneLateRequest
<1>1. LoopInv => AtMostOneLateRequest
    BY DEF LoopInv, LateSeen, AtMostOneLateRequest
<1> QED BY <1>1, LoopAlways, PTL

(* A stop signal, at whatever point of the loop it arrives, lets at most   *)
(* one more cycle and one more request begin.                              *)
THEOREM StopEndsIteration == Spec => []StopWithinOneIteration
<1>1. LoopInv => StopWithinOneIteration
    BY DEF LoopInv, StopSeen, StopWithinOneIteration
<1> QED BY <1>1, LoopAlways, PTL

(* At every precision and every clock reading a deadline is in the future  *)
(* of the completion it restarts from: no cycle runs twice at one instant. *)
THEOREM CyclesApart == Spec => []NeverTwiceAtOneInstant
<1>1. LoopInv => NeverTwiceAtOneInstant
    BY DEF LoopInv
<1> QED BY <1>1, LoopAlways, PTL
=============================================================================
