------------------------- MODULE HeartbeatApiProofs -------------------------
(***************************************************************************)
(* Proofs about the heartbeat API for every configuration of hosts and     *)
(* credentials, every set of requests and every clock.                     *)
(*                                                                         *)
(* The inductive invariant says of the table that each of its rows is that *)
(* of a request which passed every check (Committable), and of the handler *)
(* which stages the request has passed where it is. What holds of a stored *)
(* row then follows from the checks alone: the lemmas on FirstRefusal give *)
(* what each stage lets through and with which status it refuses, and      *)
(* those on the columns follow a record into its row and back.             *)
(*                                                                         *)
(* The least element of a set of naturals, from the library's proof that   *)
(* they are well-founded, stands in for induction: it is the first check   *)
(* that fails, it finds the newest row, and it proves what the value of    *)
(* digits is, prefix by prefix.                                            *)
(***************************************************************************)
EXTENDS HeartbeatApi, WellFoundedInduction, SequenceTheorems, TLAPS

(* Every nonempty set of naturals has a least element.                     *)
LEMMA LeastNatural ==
    ASSUME NEW S \in SUBSET Nat, S # {}
    PROVE  /\ Min(S) \in S
           /\ \A n \in S : Min(S) <= n
<1>1. \E x \in S : \A y \in S : ~(<<y, x>> \in OpToRel(<, Nat))
    BY NatLessThanWellFounded, WFMin
<1>2. PICK x \in S : \A y \in S : ~(<<y, x>> \in OpToRel(<, Nat))
    BY <1>1
<1>3. \A y \in S : ~(y < x)
    BY <1>2 DEF OpToRel
<1>4. \A y \in S : x <= y
    BY <1>3
<1> QED BY <1>4 DEF Min

(* Induction: a set with zero and the successors of its members holds      *)
(* every natural.                                                          *)
LEMMA AllNaturals ==
    ASSUME NEW S, 0 \in S, \A n \in Nat : n \in S => n + 1 \in S
    PROVE  \A n \in Nat : n \in S
<1> SUFFICES ASSUME Nat \ S # {} PROVE FALSE
    OBVIOUS
<1> DEFINE m == Min(Nat \ S)
<1>1. m \in Nat \ S /\ \A n \in Nat \ S : m <= n
    BY LeastNatural
<1> HIDE DEF m
<1>2. m # 0 /\ m - 1 \in Nat
    BY <1>1
<1>3. m - 1 \in S
    BY <1>1, <1>2
<1> QED BY <1>1, <1>2, <1>3

(* FirstRefusal is the first check that does not let the request through.  *)
LEMMA FirstRefusalIsFirst ==
    ASSUME NEW checks \in Seq(Nat)
    PROVE  \/ /\ FirstRefusal(checks) = Proceed
              /\ \A i \in 1..Len(checks) : checks[i] = Proceed
           \/ \E i \in 1..Len(checks) :
                /\ checks[i] # Proceed
                /\ FirstRefusal(checks) = checks[i]
                /\ \A j \in 1..(i - 1) : checks[j] = Proceed
<1> DEFINE failed == {i \in 1..Len(checks) : checks[i] # Proceed}
<1>1. FirstRefusal(checks) =
        IF failed # {} THEN (IF Min(failed) = 0 THEN Proceed ELSE checks[Min(failed)]) ELSE Proceed
    BY DEF FirstRefusal, SelectInSeq
<1>2. failed \in SUBSET Nat
    OBVIOUS
<1>3. CASE failed = {}
    <2>1. \A i \in 1..Len(checks) : checks[i] = Proceed
        BY <1>3
    <2> QED BY <1>1, <1>3, <2>1
<1>4. CASE failed # {}
    <2> DEFINE first == Min(failed)
    <2>1. /\ first \in failed
          /\ \A n \in failed : first <= n
        BY <1>2, <1>4, LeastNatural
    <2>2. first \in 1..Len(checks) /\ checks[first] # Proceed
        BY <2>1
    <2>3. FirstRefusal(checks) = checks[first]
        BY <1>1, <1>4, <2>2
    <2>4. ASSUME NEW j \in 1..(first - 1) PROVE checks[j] = Proceed
        <3>1. j \in 1..Len(checks) /\ ~(first <= j)
            BY <2>2
        <3> QED BY <2>1, <3>1
    <2> HIDE DEF first
    <2> QED BY <2>2, <2>3, <2>4
<1> QED BY <1>3, <1>4

(* The same, as it is used: what an index and its predecessors say.        *)
LEMMA FirstRefusalOf ==
    ASSUME NEW checks \in Seq(Nat)
    PROVE  /\ \/ FirstRefusal(checks) = Proceed
              \/ \E i \in 1..Len(checks) : FirstRefusal(checks) = checks[i]
           /\ FirstRefusal(checks) = Proceed =>
                    \A i \in 1..Len(checks) : checks[i] = Proceed
           /\ \A i \in 1..Len(checks) :
                    /\ checks[i] # Proceed
                    /\ \A j \in 1..(i - 1) : checks[j] = Proceed
                    => FirstRefusal(checks) = checks[i]
<1>1. CASE /\ FirstRefusal(checks) = Proceed
           /\ \A i \in 1..Len(checks) : checks[i] = Proceed
    BY <1>1
<1>2. ASSUME NEW i \in 1..Len(checks),
             checks[i] # Proceed, FirstRefusal(checks) = checks[i],
             \A j \in 1..(i - 1) : checks[j] = Proceed
      PROVE  /\ FirstRefusal(checks) # Proceed
             /\ \E k \in 1..Len(checks) : FirstRefusal(checks) = checks[k]
             /\ \A k \in 1..Len(checks) :
                    /\ checks[k] # Proceed
                    /\ \A j \in 1..(k - 1) : checks[j] = Proceed
                    => FirstRefusal(checks) = checks[k]
    <2>1. ASSUME NEW k \in 1..Len(checks), checks[k] # Proceed,
                 \A j \in 1..(k - 1) : checks[j] = Proceed
          PROVE  k = i
        <3>1. ~(k < i)
            BY <1>2, <2>1
        <3>2. ~(i < k)
            BY <1>2, <2>1
        <3> QED BY <3>1, <3>2
    <2> QED BY <1>2, <2>1
<1> QED BY <1>1, <1>2, FirstRefusalIsFirst

-----------------------------------------------------------------------------
(* The value of digits.                                                    *)

Digits == Seq(0..9)

\* v is the value of every prefix of d.
PrefixValues(v, d) ==
    /\ v \in [0..Len(d) -> Nat]
    /\ v[0] = 0
    /\ \A n \in 1..Len(d) : v[n] = 10 * v[n - 1] + d[n]

(* The recursive function that Value is defined by exists.                 *)
LEMMA ValueOf ==
    ASSUME NEW d \in Digits
    PROVE  \E v : PrefixValues(v, d) /\ Value(d) = v[Len(d)]
<1> DEFINE L == Len(d)
           Step(v) == [n \in 0..L |-> IF n = 0 THEN 0
                                      ELSE 10 * v[n - 1] + d[n]]
<1>1. L \in Nat /\ \A n \in 1..L : d[n] \in 0..9
    BY DEF Digits
<1> DEFINE S == {n \in Nat : n <= L =>
                    \E f \in [0..n -> Nat] :
                        /\ f[0] = 0
                        /\ \A k \in 1..n : f[k] = 10 * f[k - 1] + d[k]}
<1> HIDE DEF L
<1>2. 0 \in S
    <2> DEFINE f == [k \in 0..0 |-> 0]
    <2>1. f \in [0..0 -> Nat] /\ f[0] = 0
        OBVIOUS
    <2> HIDE DEF f
    <2>2. \A k \in 1..0 : f[k] = 10 * f[k - 1] + d[k]
        OBVIOUS
    <2> QED BY <2>1, <2>2
<1>3. ASSUME NEW n \in Nat, n \in S PROVE n + 1 \in S
    <2> SUFFICES ASSUME n + 1 <= L
                 PROVE  \E g \in [0..(n + 1) -> Nat] :
                          /\ g[0] = 0
                          /\ \A k \in 1..(n + 1) : g[k] = 10 * g[k - 1] + d[k]
        OBVIOUS
    <2>1. n <= L
        BY <1>1
    <2>2. PICK f \in [0..n -> Nat] :
            /\ f[0] = 0
            /\ \A k \in 1..n : f[k] = 10 * f[k - 1] + d[k]
        BY <1>3, <2>1
    <2> DEFINE g == [k \in 0..(n + 1) |-> IF k = n + 1 THEN 10 * f[n] + d[n + 1]
                                          ELSE f[k]]
    <2>3. d[n + 1] \in Nat /\ f[n] \in Nat
        BY <1>1
    <2>4. g \in [0..(n + 1) -> Nat]
        BY <2>3
    <2>5. g[0] = 0
        BY <2>2
    <2>6. ASSUME NEW k \in 1..(n + 1) PROVE g[k] = 10 * g[k - 1] + d[k]
        BY <2>2
    <2> HIDE DEF g
    <2> QED BY <2>4, <2>5, <2>6
<1>4. L \in S
    BY <1>1, <1>2, <1>3, AllNaturals
<1>5. PICK f \in [0..L -> Nat] :
        /\ f[0] = 0
        /\ \A k \in 1..L : f[k] = 10 * f[k - 1] + d[k]
    BY <1>1, <1>4
<1>6. f = Step(f)
    BY <1>1, <1>5
<1> DEFINE v == CHOOSE v : v = Step(v)
<1>7. v = Step(v)
    BY <1>6
<1>8. Value(d) = v[L]
    BY DEF Value, L
<1> HIDE DEF v
<1>9. DOMAIN v = 0..L /\ v[0] = 0 /\ \A n \in 1..L : v[n] = 10 * v[n - 1] + d[n]
    BY <1>1, <1>7
<1> DEFINE N == {n \in Nat : n <= L => v[n] \in Nat}
<1>10. \A n \in Nat : n \in N
    <2>1. 0 \in N
        BY <1>9
    <2>2. ASSUME NEW n \in Nat, n \in N PROVE n + 1 \in N
        <3> SUFFICES ASSUME n + 1 <= L PROVE v[n + 1] \in Nat
            OBVIOUS
        <3>1. v[n] \in Nat /\ n + 1 \in 1..L /\ (n + 1) - 1 = n
            BY <1>1, <2>2
        <3>2. v[n + 1] = 10 * v[n] + d[n + 1] /\ d[n + 1] \in 0..9
            BY <1>1, <1>9, <3>1
        <3> QED BY <3>1, <3>2
    <2> HIDE DEF N
    <2> QED BY <2>1, <2>2, AllNaturals
<1>11. v \in [0..L -> Nat]
    BY <1>1, <1>7, <1>10
<1> QED BY <1>8, <1>9, <1>11 DEF PrefixValues, L

(* The value of digits is a natural.                                       *)
LEMMA ValueNatural ==
    ASSUME NEW d \in Digits
    PROVE  Value(d) \in Nat
<1>1. PICK v : PrefixValues(v, d) /\ Value(d) = v[Len(d)]
    BY ValueOf
<1>2. Len(d) \in 0..Len(d)
    BY DEF Digits
<1> QED BY <1>1, <1>2 DEF PrefixValues

(* What is known of the values of prefixes.                                *)
LEMMA PrefixFacts ==
    ASSUME NEW d \in Digits, NEW v, PrefixValues(v, d)
    PROVE  /\ Len(d) \in Nat
           /\ v[0] = 0
           /\ \A n \in 0..Len(d) : v[n] \in Nat
           /\ \A n \in 1..Len(d) : d[n] \in 0..9
           /\ \A n \in 1..Len(d) : v[n] = 10 * v[n - 1] + d[n]
<1>1. Len(d) \in Nat /\ \A n \in 1..Len(d) : d[n] \in 0..9
    BY DEF Digits
<1>2. v \in [0..Len(d) -> Nat]
    BY DEF PrefixValues
<1> QED BY <1>1, <1>2 DEF PrefixValues

(* One more digit keeps the order of different values, and decides between *)
(* equal ones.                                                             *)
LEMMA NextDigit ==
    ASSUME NEW x \in Nat, NEW y \in Nat, NEW d \in 0..9, NEW e \in 0..9,
           x < y \/ (x = y /\ d < e)
    PROVE  10 * x + d < 10 * y + e
OBVIOUS

(* The values of equal prefixes are equal, and once a digit is smaller the *)
(* values stay smaller whatever follows.                                   *)
LEMMA SmallerDigit ==
    ASSUME NEW a \in Digits, NEW b \in Digits, NEW v, NEW w,
           PrefixValues(v, a), PrefixValues(w, b), Len(a) = Len(b)
    PROVE  /\ \A i \in 1..Len(a) :
                /\ \A j \in 1..(i - 1) : a[j] = b[j]
                /\ a[i] < b[i]
                => v[Len(a)] < w[Len(a)]
           /\ (\A j \in 1..Len(a) : a[j] = b[j]) => v[Len(a)] = w[Len(a)]
<1> DEFINE L == Len(a)
<1>1. /\ L \in Nat /\ \A n \in 1..L : a[n] \in 0..9 /\ b[n] \in 0..9
      /\ \A n \in 0..L : v[n] \in Nat /\ w[n] \in Nat
      /\ v[0] = 0 /\ w[0] = 0
      /\ \A n \in 1..L : /\ v[n] = 10 * v[n - 1] + a[n]
                         /\ w[n] = 10 * w[n - 1] + b[n]
    BY PrefixFacts
<1> HIDE DEF L
<1>2. ASSUME NEW m \in 0..L, \A j \in 1..m : a[j] = b[j]
      PROVE  v[m] = w[m]
    <2> DEFINE S == {n \in Nat : n <= m => v[n] = w[n]}
    <2>1. 0 \in S
        BY <1>1
    <2>2. ASSUME NEW n \in Nat, n \in S PROVE n + 1 \in S
        <3> SUFFICES ASSUME n + 1 <= m PROVE v[n + 1] = w[n + 1]
            OBVIOUS
        <3>1. v[n] = w[n] /\ n + 1 \in 1..L /\ (n + 1) - 1 = n
            BY <1>1, <2>2
        <3>2. a[n + 1] = b[n + 1]
            BY <1>2
        <3> QED BY <1>1, <3>1, <3>2
    <2> HIDE DEF S
    <2>3. m \in S
        BY <2>1, <2>2, AllNaturals
    <2> QED BY <2>3 DEF S
<1>3. ASSUME NEW i \in 1..L, \A j \in 1..(i - 1) : a[j] = b[j], a[i] < b[i]
      PROVE  v[L] < w[L]
    <2>1. v[i - 1] = w[i - 1]
        <3>1. i - 1 \in 0..L
            BY <1>1
        <3> QED BY <1>2, <1>3, <3>1
    <2>2. v[i] < w[i]
        <3>1. i - 1 \in 0..L /\ i \in 0..L
            BY <1>1
        <3>2. /\ v[i] = 10 * v[i - 1] + a[i] /\ w[i] = 10 * w[i - 1] + b[i]
              /\ a[i] \in 0..9 /\ b[i] \in 0..9
              /\ v[i - 1] \in Nat /\ w[i - 1] \in Nat
            BY <1>1, <3>1
        <3> QED BY <1>3, <2>1, <3>2, NextDigit
    <2> DEFINE S == {n \in Nat : i + n <= L => v[i + n] < w[i + n]}
    <2>3. 0 \in S
        BY <2>2
    <2>4. ASSUME NEW n \in Nat, n \in S PROVE n + 1 \in S
        <3> DEFINE k == i + (n + 1)
        <3> SUFFICES ASSUME k <= L PROVE v[k] < w[k]
            OBVIOUS
        <3>1. k - 1 = i + n /\ k \in 1..L /\ k - 1 \in 0..L
            BY <1>1
        <3>2. v[k - 1] < w[k - 1]
            BY <1>1, <2>4, <3>1
        <3> HIDE DEF k
        <3>3. /\ v[k] = 10 * v[k - 1] + a[k] /\ w[k] = 10 * w[k - 1] + b[k]
              /\ a[k] \in 0..9 /\ b[k] \in 0..9
              /\ v[k - 1] \in Nat /\ w[k - 1] \in Nat
            BY <1>1, <3>1
        <3> QED BY <3>2, <3>3, NextDigit
    <2> HIDE DEF S
    <2>5. \A n \in Nat : n \in S
        BY <2>3, <2>4, AllNaturals
    <2>6. L - i \in Nat /\ i + (L - i) = L /\ i + (L - i) <= L
        BY <1>1
    <2> QED BY <2>5, <2>6 DEF S
<1>4. L \in 0..L
    BY <1>1
<1> QED BY <1>2, <1>3, <1>4 DEF L

(* Of digits that do not begin with zero, the longer are worth more.       *)
LEMMA LongerIsMore ==
    ASSUME NEW a \in Digits, NEW b \in Digits, NEW v, NEW w,
           PrefixValues(v, a), PrefixValues(w, b), Len(a) < Len(b),
           b[1] # 0
    PROVE  v[Len(a)] < w[Len(b)]
<1> DEFINE L == Len(a)
           D == Len(b) - Len(a)
<1>1. /\ L \in Nat /\ D \in Nat /\ D > 0 /\ Len(b) = D + L
      /\ \A n \in 1..L : a[n] \in 0..9 /\ v[n] = 10 * v[n - 1] + a[n]
      /\ \A n \in 1..(D + L) : b[n] \in 0..9 /\ w[n] = 10 * w[n - 1] + b[n]
      /\ \A n \in 0..L : v[n] \in Nat
      /\ \A n \in 0..(D + L) : w[n] \in Nat
      /\ v[0] = 0 /\ w[0] = 0 /\ b[1] # 0
    <2>1. Len(a) \in Nat /\ Len(b) \in Nat
        BY PrefixFacts
    <2>2. L \in Nat /\ D \in Nat /\ D > 0 /\ Len(b) = D + L
        BY <2>1
    <2> HIDE DEF D
    <2> QED BY <2>2, PrefixFacts
<1> HIDE DEF L, D
<1>2. w[D] > 0
    <2> DEFINE S == {n \in Nat : n + 1 <= D => w[n + 1] > 0}
    <2>1. 0 \in S
        <3>1. 1 \in 1..(D + L) /\ 1 - 1 = 0
            BY <1>1
        <3>2. w[1] = 10 * w[0] + b[1] /\ b[1] \in 0..9
            BY <1>1, <3>1
        <3>3. w[1] > 0
            BY <1>1, <3>2
        <3> QED BY <3>3
    <2>2. ASSUME NEW n \in Nat, n \in S PROVE n + 1 \in S
        <3> DEFINE k == (n + 1) + 1
        <3> SUFFICES ASSUME k <= D PROVE w[k] > 0
            OBVIOUS
        <3>1. k - 1 = n + 1 /\ k \in 1..(D + L) /\ k - 1 \in 0..(D + L)
            BY <1>1
        <3>2. w[k - 1] > 0
            BY <1>1, <2>2, <3>1
        <3> HIDE DEF k
        <3>3. w[k] = 10 * w[k - 1] + b[k] /\ b[k] \in 0..9 /\ w[k - 1] \in Nat
            BY <1>1, <3>1
        <3> QED BY <3>2, <3>3
    <2> HIDE DEF S
    <2>3. \A n \in Nat : n \in S
        BY <2>1, <2>2, AllNaturals
    <2>4. D - 1 \in Nat /\ (D - 1) + 1 = D
        BY <1>1
    <2>5. (D - 1) + 1 <= D => w[(D - 1) + 1] > 0
        BY <2>3, <2>4 DEF S
    <2> QED BY <1>1, <2>4, <2>5
<1> DEFINE S == {n \in Nat : n <= L => v[n] < w[D + n]}
<1>3. 0 \in S
    BY <1>1, <1>2
<1>4. ASSUME NEW n \in Nat, n \in S PROVE n + 1 \in S
    <2> DEFINE k == n + 1
               l == D + k
    <2> SUFFICES ASSUME k <= L PROVE v[k] < w[l]
        OBVIOUS
    <2>1. /\ k - 1 = n /\ k \in 1..L /\ k - 1 \in 0..L
          /\ l - 1 = D + n /\ l \in 1..(D + L) /\ l - 1 \in 0..(D + L)
        BY <1>1
    <2>2. v[k - 1] < w[l - 1]
        BY <1>1, <1>4, <2>1
    <2> HIDE DEF k, l
    <2>3. /\ v[k] = 10 * v[k - 1] + a[k] /\ w[l] = 10 * w[l - 1] + b[l]
          /\ a[k] \in 0..9 /\ b[l] \in 0..9
          /\ v[k - 1] \in Nat /\ w[l - 1] \in Nat
        BY <1>1, <2>1
    <2> QED BY <2>2, <2>3, NextDigit
<1> HIDE DEF S
<1>5. L \in S
    BY <1>1, <1>3, <1>4, AllNaturals
<1> QED BY <1>1, <1>5 DEF S, L

(* Leading zeroes do not count.                                            *)
LEMMA ZeroesStripped ==
    ASSUME NEW d \in Digits, NEW s, s = StripZeroes(d)
    PROVE  /\ s \in Digits
           /\ s = <<>> \/ s[1] # 0
           /\ Value(s) = Value(d)
<1> DEFINE L == Len(d)
           nonzero == {i \in 1..Len(d) : d[i] # 0}
<1>1. PICK v : PrefixValues(v, d) /\ Value(d) = v[Len(d)]
    BY ValueOf
<1>2. /\ L \in Nat /\ v[0] = 0
      /\ \A n \in 0..L : v[n] \in Nat
      /\ \A n \in 1..L : d[n] \in 0..9 /\ v[n] = 10 * v[n - 1] + d[n]
    BY <1>1, PrefixFacts
<1>3. ASSUME NEW m \in 0..L, \A j \in 1..m : d[j] = 0
      PROVE  v[m] = 0
    <2> DEFINE S == {n \in Nat : n <= m => v[n] = 0}
    <2>1. 0 \in S
        BY <1>2
    <2>2. ASSUME NEW n \in Nat, n \in S PROVE n + 1 \in S
        <3> SUFFICES ASSUME n + 1 <= m PROVE v[n + 1] = 0
            OBVIOUS
        <3>1. v[n] = 0 /\ n + 1 \in 1..L /\ (n + 1) - 1 = n /\ d[n + 1] = 0
            BY <1>2, <1>3, <2>2
        <3>2. v[n + 1] = 10 * v[n] + d[n + 1]
            BY <1>2, <3>1
        <3> QED BY <3>1, <3>2
    <2> HIDE DEF S
    <2>3. m \in S
        BY <2>1, <2>2, AllNaturals
    <2> QED BY <2>3 DEF S
<1>4. s = IF nonzero = {} THEN <<>>
          ELSE IF Min(nonzero) = 0 THEN <<>>
          ELSE SubSeq(d, Min(nonzero), L)
    BY DEF StripZeroes, SelectInSeq
<1>5. CASE nonzero = {}
    <2>1. s = <<>> /\ s \in Digits /\ Len(s) = 0
        BY <1>4, <1>5 DEF Digits
    <2>2. PICK w : PrefixValues(w, s) /\ Value(s) = w[Len(s)]
        BY <2>1, ValueOf
    <2>3. Value(s) = 0
        BY <2>1, <2>2, PrefixFacts
    <2>4. \A j \in 1..L : d[j] = 0
        BY <1>5
    <2>5. Value(d) = 0
        BY <1>1, <1>2, <1>3, <2>4
    <2> QED BY <2>1, <2>3, <2>5
<1>6. CASE nonzero # {}
    <2> DEFINE f == Min(nonzero)
               M == L - f + 1
    <2>1. f \in nonzero /\ \A n \in nonzero : f <= n
        <3>1. nonzero \in SUBSET Nat
            OBVIOUS
        <3> HIDE DEF nonzero
        <3> QED BY <1>6, <3>1, LeastNatural
    <2>2. f \in 1..L /\ d[f] # 0 /\ s = SubSeq(d, f, L)
        <3>1. f \in 1..L /\ d[f] # 0
            BY <2>1
        <3> HIDE DEF nonzero
        <3> QED BY <1>4, <1>6, <3>1
    <2>3. \A j \in 1..(f - 1) : d[j] = 0
        <3> SUFFICES ASSUME NEW j \in 1..(f - 1), d[j] # 0 PROVE FALSE
            OBVIOUS
        <3>1. j \in nonzero /\ ~(f <= j)
            BY <2>2
        <3> QED BY <2>1, <3>1
    <2> HIDE DEF f
    <2>4. /\ M \in Nat /\ M > 0 /\ s \in Digits /\ Len(s) = M
          /\ \A j \in 1..M : s[j] = d[f + j - 1]
        BY <1>2, <2>2 DEF Digits
    <2>5. s[1] # 0
        <3>1. 1 \in 1..M /\ f + 1 - 1 = f
            BY <2>2, <2>4
        <3> QED BY <2>2, <2>4, <3>1
    <2>6. PICK w : PrefixValues(w, s) /\ Value(s) = w[Len(s)]
        BY <2>4, ValueOf
    <2>7. /\ w[0] = 0
          /\ \A n \in 1..M : w[n] = 10 * w[n - 1] + s[n]
        BY <2>4, <2>6, PrefixFacts
    <2>8. v[f - 1] = 0
        <3>1. f - 1 \in 0..L
            BY <1>2, <2>2
        <3> QED BY <1>3, <2>3, <3>1
    <2> HIDE DEF M
    <2> DEFINE S == {n \in Nat : n <= M => w[n] = v[(f - 1) + n]}
    <2>9. 0 \in S
        <3>1. (f - 1) + 0 = f - 1
            BY <2>2
        <3> QED BY <2>7, <2>8, <3>1
    <2>10. ASSUME NEW n \in Nat, n \in S PROVE n + 1 \in S
        <3> DEFINE k == n + 1
                   l == (f - 1) + k
        <3> SUFFICES ASSUME k <= M PROVE w[k] = v[l]
            OBVIOUS
        <3>1. /\ k \in 1..M /\ k - 1 = n /\ l \in 1..L
              /\ l - 1 = (f - 1) + n /\ f + k - 1 = l
            BY <1>2, <2>2, <2>4 DEF M
        <3>2. w[k - 1] = v[l - 1]
            BY <2>4, <2>10, <3>1
        <3> HIDE DEF k, l
        <3>3. w[k] = 10 * w[k - 1] + s[k] /\ v[l] = 10 * v[l - 1] + d[l]
            BY <1>2, <2>7, <3>1
        <3>4. s[k] = d[l]
            BY <2>4, <3>1
        <3> QED BY <3>2, <3>3, <3>4
    <2> HIDE DEF S
    <2>11. M \in S
        BY <2>4, <2>9, <2>10, AllNaturals
    <2>12. (f - 1) + M = L
        BY <1>2, <2>2 DEF M
    <2>13. w[M] = v[L]
        BY <2>4, <2>11, <2>12 DEF S
    <2> QED BY <1>1, <2>4, <2>5, <2>6, <2>13
<1> QED BY <1>5, <1>6

(* The declared length is judged by its value: the comparison of its       *)
(* significant digits, length first and text second, refuses with 413      *)
(* exactly what is worth more than the limit.                              *)
THEOREM LengthByValue ==
    ASSUME NEW raw \in Digits
    PROVE  declared_length_status(raw)
                = IF Value(raw) > MAX_CONTENT_LENGTH THEN 413 ELSE Proceed
<1> DEFINE s == StripZeroes(raw)
           oversized == \/ Len(s) > Len(MaxText)
                        \/ /\ Len(s) = Len(MaxText)
                           /\ TextBefore(MaxText, s)
<1>1. declared_length_status(raw) = IF oversized THEN 413 ELSE Proceed
    BY DEF declared_length_status, Require
<1>2. /\ s \in Digits
      /\ s = <<>> \/ s[1] # 0
      /\ Value(s) = Value(raw)
    BY ZeroesStripped
<1>3. MaxText \in Digits /\ MaxText # <<>> /\ MaxText[1] # 0
    BY ApiAssumption DEF Digits
<1> HIDE DEF s
<1>4. PICK v : PrefixValues(v, s) /\ Value(s) = v[Len(s)]
    BY <1>2, ValueOf
<1>5. PICK w : PrefixValues(w, MaxText) /\ Value(MaxText) = w[Len(MaxText)]
    BY <1>3, ValueOf
<1> DEFINE L == Len(s)
           M == Len(MaxText)
<1>6. /\ L \in Nat /\ M \in Nat /\ v[L] \in Nat /\ w[M] \in Nat
      /\ \A n \in 1..L : s[n] \in 0..9
      /\ \A n \in 1..M : MaxText[n] \in 0..9
    <2>1. L \in 0..L /\ M \in 0..M
        BY <1>2, <1>3 DEF Digits
    <2> QED BY <1>2, <1>3, <1>4, <1>5, <2>1, PrefixFacts
<1>7. oversized <=> v[L] > w[M]
    <2>1. CASE L > M
        <3>1. s[1] # 0
            BY <1>2, <1>6, <2>1
        <3>2. w[M] < v[L]
            BY <1>2, <1>3, <1>4, <1>5, <1>6, <2>1, <3>1, LongerIsMore
        <3> QED BY <1>6, <2>1, <3>2
    <2>2. CASE L < M
        <3>1. v[L] < w[M]
            BY <1>2, <1>3, <1>4, <1>5, <1>6, <2>2, LongerIsMore
        <3> QED BY <1>6, <2>2, <3>1
    <2>3. CASE L = M
        <3>1. CASE TextBefore(MaxText, s)
            <4>1. PICK i \in 1..L :
                    /\ \A j \in 1..(i - 1) : MaxText[j] = s[j]
                    /\ i > M \/ MaxText[i] < s[i]
                BY <3>1 DEF TextBefore
            <4>2. MaxText[i] < s[i]
                BY <1>6, <2>3, <4>1
            <4>3. w[M] < v[M]
                BY <1>2, <1>3, <1>4, <1>5, <2>3, <4>1, <4>2, SmallerDigit
            <4> QED BY <1>6, <2>3, <3>1, <4>3
        <3>2. CASE ~TextBefore(MaxText, s)
            <4> DEFINE differ == {i \in 1..L : s[i] # MaxText[i]}
            <4>1. CASE differ = {}
                <5>1. \A j \in 1..L : s[j] = MaxText[j]
                    BY <4>1
                <5>2. v[L] = w[L]
                    BY <1>2, <1>3, <1>4, <1>5, <2>3, <5>1, SmallerDigit
                <5> QED BY <1>6, <2>3, <3>2, <5>2
            <4>2. CASE differ # {}
                <5> DEFINE i == Min(differ)
                <5>1. i \in differ /\ \A n \in differ : i <= n
                    <6>1. differ \in SUBSET Nat
                        OBVIOUS
                    <6> HIDE DEF differ
                    <6> QED BY <4>2, <6>1, LeastNatural
                <5>2. i \in 1..L /\ s[i] # MaxText[i]
                    BY <5>1
                <5>3. \A j \in 1..(i - 1) : s[j] = MaxText[j]
                    <6> SUFFICES ASSUME NEW j \in 1..(i - 1),
                                        s[j] # MaxText[j]
                                 PROVE  FALSE
                        OBVIOUS
                    <6>1. j \in differ /\ ~(i <= j)
                        BY <1>6, <5>2
                    <6> QED BY <5>1, <6>1
                <5> HIDE DEF i
                <5>4. ~(MaxText[i] < s[i])
                    BY <1>6, <2>3, <3>2, <5>2, <5>3 DEF TextBefore
                <5>5. s[i] < MaxText[i]
                    BY <1>6, <2>3, <5>2, <5>4
                <5>6. v[L] < w[L]
                    BY <1>2, <1>3, <1>4, <1>5, <2>3, <5>2, <5>3, <5>5,
                       SmallerDigit
                <5> QED BY <1>6, <2>3, <3>2, <5>6
            <4> QED BY <4>1, <4>2
        <3> QED BY <3>1, <3>2
    <2> QED BY <1>6, <2>1, <2>2, <2>3
<1> HIDE DEF oversized
<1> QED BY <1>1, <1>2, <1>4, <1>5, <1>7 DEF MAX_CONTENT_LENGTH

-----------------------------------------------------------------------------
(* What the three stages of checks may answer.                             *)

(* A check either passes or gives its status.                              *)
LEMMA RequireStatus ==
    ASSUME NEW condition, NEW status \in Nat \ {0}
    PROVE  /\ Require(condition, status) \in {Proceed, status}
           /\ condition => Require(condition, status) = Proceed
           /\ ~condition => Require(condition, status) = status
BY DEF Require, Proceed

(* Framing refuses with 400, 411, 413 or 417, and only a heartbeat POST.   *)
LEMMA FramingStatuses ==
    ASSUME NEW r
    PROVE  /\ FramingStatus(r) \in {Proceed, 400, 411, 413, 417}
           /\ ~IsHeartbeatPost(r) => FramingStatus(r) = Proceed
<1>1. CASE ~IsHeartbeatPost(r)
    BY <1>1 DEF FramingStatus
<1>2. CASE IsHeartbeatPost(r)
    <2> DEFINE c1 == Require(~r.expect, 417)
               c2 == Require(~r.transfer_encoding, 400)
               c3 == content_length_status(r.content_length)
               c4 == Require(r.sent >= DeclaredLength(r), 400)
               checks == <<c1, c2, c3, c4>>
    <2>1. /\ c1 \in {Proceed, 417} /\ c2 \in {Proceed, 400}
          /\ c4 \in {Proceed, 400}
        BY RequireStatus
    <2>2. c3 \in {Proceed, 400, 411, 413}
        BY RequireStatus DEF content_length_status, declared_length_status,
                             Require, Proceed
    <2>3. FramingStatus(r) = FirstRefusal(checks)
        BY <1>2 DEF FramingStatus
    <2> HIDE DEF c1, c2, c3, c4
    <2>4. /\ checks \in Seq(Nat) /\ Len(checks) = 4
          /\ checks[1] = c1 /\ checks[2] = c2 /\ checks[3] = c3
          /\ checks[4] = c4
        BY <2>1, <2>2 DEF Proceed
    <2> HIDE DEF checks
    <2>5. FirstRefusal(checks) \in {Proceed, c1, c2, c3, c4}
        BY <2>4, FirstRefusalOf
    <2> QED BY <1>2, <2>1, <2>2, <2>3, <2>5
<1> QED BY <1>1, <1>2

(* One declared length is refused with 413 exactly if it is worth more     *)
(* than the limit, and what framing lets through declares one length that  *)
(* is not.                                                                 *)
LEMMA FramingJudgesValue ==
    ASSUME NEW r \in Requests, IsHeartbeatPost(r)
    PROVE  /\ /\ ~r.expect /\ ~r.transfer_encoding
              /\ Len(r.content_length) = 1 /\ r.content_length[1] # <<>>
              => (FramingStatus(r) = 413 <=>
                    Value(r.content_length[1]) > MAX_CONTENT_LENGTH)
           /\ FramingStatus(r) = Proceed =>
                /\ Len(r.content_length) = 1
                /\ DeclaredLength(r) = Value(r.content_length[1])
                /\ DeclaredLength(r) \in 0..MAX_CONTENT_LENGTH
           /\ BytesRead(r) \in 0..MAX_CONTENT_LENGTH
           /\ /\ ~r.expect /\ ~r.transfer_encoding
              /\ Len(r.content_length) = 1 /\ r.content_length[1] # <<>>
              => LET declared == Value(r.content_length[1])
                 IN  BytesRead(r) = IF declared > MAX_CONTENT_LENGTH THEN 0
                                    ELSE IF r.sent < declared THEN r.sent
                                    ELSE declared
<1> DEFINE values == r.content_length
           raw == values[1]
           c1 == Require(~r.expect, 417)
           c2 == Require(~r.transfer_encoding, 400)
           c3 == content_length_status(values)
           c4 == Require(r.sent >= DeclaredLength(r), 400)
           checks == <<c1, c2, c3, c4>>
<1>1. /\ values \in Seq(Digits) /\ Len(values) \in Nat
      /\ Len(values) = 1 => raw \in Digits
    BY RequestsAssumption DEF Digits
<1>2. /\ c1 \in {Proceed, 417} /\ c2 \in {Proceed, 400}
      /\ c4 \in {Proceed, 400}
      /\ ~r.expect => c1 = Proceed
      /\ ~r.transfer_encoding => c2 = Proceed
    BY DEF Require
<1>3. FramingStatus(r) = FirstRefusal(checks)
    BY DEF FramingStatus
<1>4. Len(values) = 1 /\ raw # <<>> =>
        c3 = IF Value(raw) > MAX_CONTENT_LENGTH THEN 413 ELSE Proceed
    <2> SUFFICES ASSUME Len(values) = 1, raw # <<>>
                 PROVE  c3 = IF Value(raw) > MAX_CONTENT_LENGTH THEN 413
                             ELSE Proceed
        OBVIOUS
    <2>1. c3 = declared_length_status(raw)
        BY DEF content_length_status
    <2> QED BY <1>1, <2>1, LengthByValue
<1>5. ~(Len(values) = 1 /\ raw # <<>>) => c3 \in {400, 411}
    BY DEF content_length_status
<1>6. Len(values) = 1 =>
        /\ DeclaredLength(r) = Value(raw)
        /\ Value(raw) \in Nat
    <2> SUFFICES ASSUME Len(values) = 1
                 PROVE  DeclaredLength(r) = Value(raw) /\ Value(raw) \in Nat
        OBVIOUS
    <2>1. DeclaredLength(r) = Value(StripZeroes(raw))
        BY DEF DeclaredLength
    <2>2. Value(StripZeroes(raw)) = Value(raw)
        BY <1>1, ZeroesStripped
    <2> QED BY <1>1, <2>1, <2>2, ValueNatural
<1>7. MAX_CONTENT_LENGTH \in Nat
    BY ApiAssumption, ValueNatural DEF MAX_CONTENT_LENGTH, Digits
<1>16. AwaitsBody(r) <=> /\ ~r.expect /\ ~r.transfer_encoding
                         /\ c3 = Proceed
    BY DEF AwaitsBody
<1>17. r.sent \in Nat
    BY RequestsAssumption
<1> HIDE DEF c1, c2, c3, c4, values, raw
<1>18. BytesRead(r) \in 0..MAX_CONTENT_LENGTH
    BY <1>4, <1>5, <1>6, <1>7, <1>16, <1>17 DEF BytesRead, Proceed
<1>19. /\ ~r.expect /\ ~r.transfer_encoding
       /\ Len(values) = 1 /\ raw # <<>>
       => BytesRead(r) = IF Value(raw) > MAX_CONTENT_LENGTH THEN 0
                         ELSE IF r.sent < Value(raw) THEN r.sent
                         ELSE Value(raw)
    BY <1>4, <1>6, <1>7, <1>16 DEF BytesRead, Proceed
<1>8. c3 \in {Proceed, 400, 411, 413}
    BY <1>4, <1>5
<1>9. /\ checks \in Seq(Nat) /\ Len(checks) = 4
      /\ checks[1] = c1 /\ checks[2] = c2 /\ checks[3] = c3
      /\ checks[4] = c4
    BY <1>2, <1>8 DEF Proceed
<1> HIDE DEF checks
<1>10. 3 \in 1..Len(checks) /\ 1..(3 - 1) = {1, 2}
    BY <1>9
<1>11. FirstRefusal(checks) = Proceed => c3 = Proceed
    BY <1>9, <1>10, FirstRefusalOf
<1>12. c1 = Proceed /\ c2 = Proceed /\ c3 # Proceed =>
            FirstRefusal(checks) = c3
    BY <1>9, <1>10, FirstRefusalOf
<1>13. FirstRefusal(checks) \in {Proceed, c1, c2, c3, c4}
    BY <1>9, FirstRefusalOf
<1>14. /\ ~r.expect /\ ~r.transfer_encoding
       /\ Len(values) = 1 /\ raw # <<>>
       => (FirstRefusal(checks) = 413 <=> Value(raw) > MAX_CONTENT_LENGTH)
    BY <1>2, <1>4, <1>12, <1>13 DEF Proceed
<1>15. FirstRefusal(checks) = Proceed =>
        /\ Len(values) = 1
        /\ DeclaredLength(r) = Value(raw)
        /\ DeclaredLength(r) \in 0..MAX_CONTENT_LENGTH
    BY <1>4, <1>5, <1>6, <1>7, <1>11 DEF Proceed
<1> QED BY <1>3, <1>14, <1>15, <1>18, <1>19 DEF values, raw

(* The Content-Type header passes or is refused with 400 or 415.           *)
LEMMA ContentTypeStatuses ==
    ASSUME NEW values \in Seq({"json", "unsupported", "malformed"})
    PROVE  ContentTypeStatus(values) \in {Proceed, 400, 415}
<1> DEFINE n == Len(values)
           first == values[1]
<1>1. n \in Nat /\ (values = <<>> <=> n = 0)
    OBVIOUS
<1>2. n = 1 => content_type_rejection(first) \in {Proceed, 400, 415}
    <2>1. n = 1 => first \in {"json", "unsupported", "malformed"}
        OBVIOUS
    <2> QED BY <2>1 DEF content_type_rejection
<1>3. ContentTypeStatus(values) = CASE n > 1 -> 400
                                    [] n = 0 -> 415
                                    [] n = 1 -> content_type_rejection(first)
    BY <1>1 DEF ContentTypeStatus
<1> HIDE DEF n, first
<1> QED BY <1>1, <1>2, <1>3

(* The adapter lets through heartbeat POSTs with one token only; a request *)
(* of the heartbeat path gets 405 exactly if it is well formed and no      *)
(* POST.                                                                   *)
LEMMA AdapterStatuses ==
    ASSUME NEW r \in Requests, NEW read
    PROVE  /\ AdapterStatus(r, read) \in
                    {Proceed, 400, 401, 404, 405, 413, 415}
           /\ AdapterStatus(r, read) = Proceed => Len(r.tokens) = 1
           /\ read <= MAX_CONTENT_LENGTH => AdapterStatus(r, read) # 413
           /\ IsHeartbeatPost(r) => AdapterStatus(r, read) # 405
           /\ r.wellformed /\ r.path = "/v1/heartbeat" /\ r.command # "POST" =>
                    AdapterStatus(r, read) = 405
<1> DEFINE c1 == Require(~has_malformed_structure(r), 400)
           c2 == Require(r.path = "/v1/heartbeat", 404)
           c3 == Require(r.command = "POST", 405)
           c4 == Require(read <= MAX_CONTENT_LENGTH, 413)
           c5 == Require(read > 0, 400)
           c6 == ContentTypeStatus(r.content_type)
           c7 == Require(Len(r.tokens) = 1, 401)
           c8 == Require(decodes_strict_json(r, read), 400)
           checks == <<c1, c2, c3, c4, c5, c6, c7, c8>>
<1>1. /\ c1 \in {Proceed, 400} /\ c2 \in {Proceed, 404}
      /\ c3 \in {Proceed, 405} /\ c4 \in {Proceed, 413}
      /\ c5 \in {Proceed, 400} /\ c7 \in {Proceed, 401}
      /\ c8 \in {Proceed, 400}
    BY RequireStatus
<1>2. c6 \in {Proceed, 400, 415}
    BY RequestsAssumption, ContentTypeStatuses
<1>3. /\ c7 = Proceed => Len(r.tokens) = 1
      /\ read <= MAX_CONTENT_LENGTH => c4 = Proceed
      /\ IsHeartbeatPost(r) => c3 = Proceed
      /\ r.wellformed => c1 = Proceed
      /\ r.path = "/v1/heartbeat" => c2 = Proceed
      /\ r.command # "POST" => c3 = 405
    BY DEF Require, has_malformed_structure, IsHeartbeatPost, Proceed
<1>4. AdapterStatus(r, read) = FirstRefusal(checks)
    BY DEF AdapterStatus
<1> HIDE DEF c1, c2, c3, c4, c5, c6, c7, c8
<1>5. /\ checks \in Seq(Nat) /\ Len(checks) = 8
      /\ checks[1] = c1 /\ checks[2] = c2 /\ checks[3] = c3
      /\ checks[4] = c4 /\ checks[5] = c5 /\ checks[6] = c6
      /\ checks[7] = c7 /\ checks[8] = c8
    BY <1>1, <1>2 DEF Proceed
<1> HIDE DEF checks
<1>6. /\ FirstRefusal(checks) \in {Proceed, c1, c2, c3, c4, c5, c6, c7, c8}
      /\ FirstRefusal(checks) = Proceed => c7 = Proceed
      /\ FirstRefusal(checks) = Proceed => c3 = Proceed
      /\ c1 = Proceed /\ c2 = Proceed /\ c3 # Proceed =>
            FirstRefusal(checks) = c3
    <2>1. FirstRefusal(checks) \in {Proceed, c1, c2, c3, c4, c5, c6, c7, c8}
        <3>1. CASE FirstRefusal(checks) = Proceed
            BY <3>1
        <3>2. ASSUME NEW i \in 1..8, FirstRefusal(checks) = checks[i]
              PROVE  FirstRefusal(checks) \in {c1, c2, c3, c4, c5, c6, c7, c8}
            <4>1. i \in {1, 2, 3, 4, 5, 6, 7, 8}
                OBVIOUS
            <4> QED BY <1>5, <3>2, <4>1
        <3> QED BY <1>5, <3>1, <3>2, FirstRefusalOf
    <2>2. FirstRefusal(checks) = Proceed => c7 = Proceed /\ c3 = Proceed
        <3>1. 3 \in 1..Len(checks) /\ 7 \in 1..Len(checks)
            BY <1>5
        <3> QED BY <1>5, <3>1, FirstRefusalOf
    <2>3. c1 = Proceed /\ c2 = Proceed /\ c3 # Proceed =>
                FirstRefusal(checks) = c3
        <3>1. 3 \in 1..Len(checks) /\ 1..(3 - 1) = {1, 2}
            BY <1>5
        <3> QED BY <1>5, <3>1, FirstRefusalOf
    <2> QED BY <2>1, <2>2, <2>3
<1> QED BY <1>1, <1>2, <1>3, <1>4, <1>6 DEF Proceed

(* The wire boundary lets a request through only authenticated and         *)
(* decoded, and answers 401 whatever the authentication failed on.         *)
LEMMA WireStatuses ==
    ASSUME NEW r
    PROVE  /\ WireStatus(r) \in {Proceed, 400, 401}
           /\ WireStatus(r) = Proceed =>
                    Authenticated(r) /\ decodes_payload(r.payload)
           /\ claims_node(r) /\ ~Authenticated(r) => WireStatus(r) = 401
<1> DEFINE c1 == Require(claims_node(r), 400)
           c2 == Require(Authenticated(r), 401)
           c3 == Require(decodes_payload(r.payload), 400)
           checks == <<c1, c2, c3>>
<1>1. /\ c1 \in {Proceed, 400} /\ c2 \in {Proceed, 401}
      /\ c3 \in {Proceed, 400}
      /\ claims_node(r) => c1 = Proceed
      /\ ~Authenticated(r) => c2 = 401
      /\ c2 = Proceed => Authenticated(r)
      /\ c3 = Proceed => decodes_payload(r.payload)
    BY DEF Require, Proceed
<1>2. WireStatus(r) = FirstRefusal(checks)
    BY DEF WireStatus
<1> HIDE DEF c1, c2, c3
<1>3. /\ checks \in Seq(Nat) /\ Len(checks) = 3
      /\ checks[1] = c1 /\ checks[2] = c2 /\ checks[3] = c3
    BY <1>1 DEF Proceed
<1> HIDE DEF checks
<1>4. /\ FirstRefusal(checks) \in {Proceed, c1, c2, c3}
      /\ FirstRefusal(checks) = Proceed => c2 = Proceed /\ c3 = Proceed
      /\ c1 = Proceed /\ c2 # Proceed => FirstRefusal(checks) = c2
    <2>1. FirstRefusal(checks) \in {Proceed, c1, c2, c3}
        BY <1>3, FirstRefusalOf
    <2>2. FirstRefusal(checks) = Proceed => c2 = Proceed /\ c3 = Proceed
        <3>1. 2 \in 1..Len(checks) /\ 3 \in 1..Len(checks)
            BY <1>3
        <3> QED BY <1>3, <3>1, FirstRefusalOf
    <2>3. c1 = Proceed /\ c2 # Proceed => FirstRefusal(checks) = c2
        <3>1. 2 \in 1..Len(checks) /\ 1..(2 - 1) = {1}
            BY <1>3
        <3> QED BY <1>3, <3>1, FirstRefusalOf
    <2> QED BY <2>1, <2>2, <2>3
<1> QED BY <1>1, <1>2, <1>4 DEF Proceed

-----------------------------------------------------------------------------
(* The columns of a row.                                                   *)

(* Three more columns.                                                     *)
LEMMA ThreeColumns ==
    ASSUME NEW S, NEW s \in Seq(S), NEW a \in S, NEW b \in S, NEW c \in S,
           NEW t, t = s \o <<a, b, c>>
    PROVE  /\ t \in Seq(S)
           /\ Len(t) = Len(s) + 3
           /\ \A i \in 1..Len(s) : t[i] = s[i]
           /\ t[Len(s) + 1] = a
           /\ t[Len(s) + 2] = b
           /\ t[Len(s) + 3] = c
<1> DEFINE u == <<a, b, c>>
<1>1. /\ u \in Seq(S) /\ Len(u) = 3 /\ Len(s) \in Nat
      /\ u[1] = a /\ u[2] = b /\ u[3] = c
    OBVIOUS
<1> HIDE DEF u
<1>2. /\ s \o u \in Seq(S)
      /\ Len(s \o u) = Len(s) + Len(u)
      /\ \A i \in 1..Len(s) + Len(u) :
            (s \o u)[i] = IF i <= Len(s) THEN s[i] ELSE u[i - Len(s)]
    BY <1>1, ConcatProperties
<1>3. (s \o u)[Len(s) + 1] = a
    BY <1>1, <1>2
<1>4. (s \o u)[Len(s) + 2] = b
    BY <1>1, <1>2
<1>5. (s \o u)[Len(s) + 3] = c
    BY <1>1, <1>2
<1>6. \A i \in 1..Len(s) : (s \o u)[i] = s[i]
    BY <1>1, <1>2
<1>7. /\ s \o u \in Seq(S)
      /\ Len(s \o u) = Len(s) + 3
      /\ \A i \in 1..Len(s) : (s \o u)[i] = s[i]
      /\ (s \o u)[Len(s) + 1] = a
      /\ (s \o u)[Len(s) + 2] = b
      /\ (s \o u)[Len(s) + 3] = c
    BY <1>1, <1>2, <1>3, <1>4, <1>5, <1>6
<1> QED BY <1>7 DEF u

(* A timestamp comes back from its text as the same instant, in UTC.       *)
LEMMA TimestampRoundTrip ==
    ASSUME NEW d, HasUtcForm(d)
    PROVE  LET back == parse_timestamp(serialize_timestamp(d))
           IN  back.aware = TRUE /\ InstantOf(back) = InstantOf(d)
<1> DEFINE instant == InstantOf(d)
           second == instant \div Resolution
           micros == instant % Resolution
           text == serialize_timestamp(d)
<1>1. instant \in Nat /\ Resolution \in Nat /\ Resolution > 0
    BY TelemetryAssumption DEF HasUtcForm
<1> HIDE DEF instant
<1>2. /\ second \in Nat /\ micros \in Nat
      /\ second * Resolution + micros = instant
    BY <1>1
<1>3. text = IF micros = 0 THEN <<second, 43>> ELSE <<second, 46, micros, 43>>
    BY DEF serialize_timestamp, instant
<1> HIDE DEF second, micros, text
<1>4. text[1] = second /\ (IF Len(text) = 4 THEN text[3] ELSE 0) = micros
    <2>1. CASE micros = 0
        BY <1>3, <2>1
    <2>2. CASE micros # 0
        BY <1>3, <2>2
    <2> QED BY <2>1, <2>2
<1>5. /\ parse_timestamp(text).aware = TRUE
      /\ parse_timestamp(text).local = instant
      /\ parse_timestamp(text).offset = 0
    BY <1>2, <1>4 DEF parse_timestamp, Datetime
<1>6. InstantOf(parse_timestamp(text)) = instant
    BY <1>1, <1>5 DEF InstantOf
<1> QED BY <1>5, <1>6 DEF instant, text

(* Where every value of a record goes, by position.                        *)
LEMMA ColumnsOf ==
    ASSUME NEW record, NEW row, row = Parameters(record)
    PROVE  LET t == record.telemetry
           IN  /\ row[1] = record.node
               /\ row[2] = serialize_timestamp(t.timestamp)
               /\ row[3] = serialize_timestamp(record.received_at)
               /\ row[4] = t.uptime_seconds
               /\ row[5] = t.load.one /\ row[6] = t.load.five
               /\ row[7] = t.load.fifteen /\ row[8] = t.cpu_percent
               /\ row[9] = t.ram.used /\ row[10] = t.ram.total
               /\ row[11] = t.ram.percent
               /\ row[12] = t.swap.used /\ row[13] = t.swap.total
               /\ row[14] = t.swap.percent
               /\ row[15] = t.root_fs.used /\ row[16] = t.root_fs.total
               /\ row[17] = t.root_fs.percent
               /\ row[18] = t.root_inodes.used
               /\ row[19] = t.root_inodes.total
               /\ row[20] = t.root_inodes.percent
               /\ Len(row) = 20
<1> DEFINE t == record.telemetry
           at == serialize_timestamp(t.timestamp)
           received == serialize_timestamp(record.received_at)
           head == <<record.node, at, received, t.uptime_seconds, t.load.one,
                     t.load.five, t.load.fifteen, t.cpu_percent>>
           one == head \o <<t.ram.used, t.ram.total, t.ram.percent>>
           two == one \o <<t.swap.used, t.swap.total, t.swap.percent>>
           three == two \o <<t.root_fs.used, t.root_fs.total,
                             t.root_fs.percent>>
           four == three \o <<t.root_inodes.used, t.root_inodes.total,
                              t.root_inodes.percent>>
           S == {record.node, at, received, t.uptime_seconds, t.load.one,
                 t.load.five, t.load.fifteen, t.cpu_percent,
                 t.ram.used, t.ram.total, t.ram.percent,
                 t.swap.used, t.swap.total, t.swap.percent,
                 t.root_fs.used, t.root_fs.total, t.root_fs.percent,
                 t.root_inodes.used, t.root_inodes.total,
                 t.root_inodes.percent}
<1>1. row = four
    BY DEF Parameters
<1> HIDE DEF at, received, t
<1>2. /\ head \in Seq(S) /\ Len(head) = 8
      /\ head[1] = record.node /\ head[2] = at /\ head[3] = received
      /\ head[4] = t.uptime_seconds /\ head[5] = t.load.one
      /\ head[6] = t.load.five /\ head[7] = t.load.fifteen
      /\ head[8] = t.cpu_percent
    OBVIOUS
<1>3. /\ t.ram.used \in S /\ t.ram.total \in S /\ t.ram.percent \in S
      /\ t.swap.used \in S /\ t.swap.total \in S /\ t.swap.percent \in S
      /\ t.root_fs.used \in S /\ t.root_fs.total \in S
      /\ t.root_fs.percent \in S
      /\ t.root_inodes.used \in S /\ t.root_inodes.total \in S
      /\ t.root_inodes.percent \in S
    OBVIOUS
<1> HIDE DEF S, head
<1>4. /\ one \in Seq(S) /\ Len(one) = 11
      /\ \A i \in 1..8 : one[i] = head[i]
      /\ one[9] = t.ram.used /\ one[10] = t.ram.total
      /\ one[11] = t.ram.percent
    <2>1. /\ head \in Seq(S)
          /\ t.ram.used \in S /\ t.ram.total \in S /\ t.ram.percent \in S
        BY <1>2, <1>3
    <2>2. one = head \o <<t.ram.used, t.ram.total, t.ram.percent>>
        OBVIOUS
    <2> HIDE DEF one
    <2>3. /\ one \in Seq(S)
          /\ Len(one) = Len(head) + 3
          /\ \A i \in 1..Len(head) : one[i] = head[i]
          /\ one[Len(head) + 1] = t.ram.used
          /\ one[Len(head) + 2] = t.ram.total
          /\ one[Len(head) + 3] = t.ram.percent
        BY <2>1, <2>2, ThreeColumns
    <2> QED BY <1>2, <1>3, <2>3
<1> HIDE DEF one
<1>5. /\ two \in Seq(S) /\ Len(two) = 14
      /\ \A i \in 1..11 : two[i] = one[i]
      /\ two[12] = t.swap.used /\ two[13] = t.swap.total
      /\ two[14] = t.swap.percent
    <2>1. /\ one \in Seq(S)
          /\ t.swap.used \in S /\ t.swap.total \in S /\ t.swap.percent \in S
        BY <1>3, <1>4
    <2>2. two = one \o <<t.swap.used, t.swap.total, t.swap.percent>>
        OBVIOUS
    <2> HIDE DEF two
    <2>3. /\ two \in Seq(S)
          /\ Len(two) = Len(one) + 3
          /\ \A i \in 1..Len(one) : two[i] = one[i]
          /\ two[Len(one) + 1] = t.swap.used
          /\ two[Len(one) + 2] = t.swap.total
          /\ two[Len(one) + 3] = t.swap.percent
        BY <2>1, <2>2, ThreeColumns
    <2> QED BY <1>3, <1>4, <2>3
<1> HIDE DEF two
<1>6. /\ three \in Seq(S) /\ Len(three) = 17
      /\ \A i \in 1..14 : three[i] = two[i]
      /\ three[15] = t.root_fs.used /\ three[16] = t.root_fs.total
      /\ three[17] = t.root_fs.percent
    <2>1. /\ two \in Seq(S)
          /\ t.root_fs.used \in S /\ t.root_fs.total \in S /\ t.root_fs.percent \in S
        BY <1>3, <1>5
    <2>2. three = two \o <<t.root_fs.used, t.root_fs.total, t.root_fs.percent>>
        OBVIOUS
    <2> HIDE DEF three
    <2>3. /\ three \in Seq(S)
          /\ Len(three) = Len(two) + 3
          /\ \A i \in 1..Len(two) : three[i] = two[i]
          /\ three[Len(two) + 1] = t.root_fs.used
          /\ three[Len(two) + 2] = t.root_fs.total
          /\ three[Len(two) + 3] = t.root_fs.percent
        BY <2>1, <2>2, ThreeColumns
    <2> QED BY <1>3, <1>5, <2>3
<1> HIDE DEF three
<1>7. /\ four \in Seq(S) /\ Len(four) = 20
      /\ \A i \in 1..17 : four[i] = three[i]
      /\ four[18] = t.root_inodes.used /\ four[19] = t.root_inodes.total
      /\ four[20] = t.root_inodes.percent
    <2>1. /\ three \in Seq(S)
          /\ t.root_inodes.used \in S /\ t.root_inodes.total \in S /\ t.root_inodes.percent \in S
        BY <1>3, <1>6
    <2>2. four = three \o <<t.root_inodes.used, t.root_inodes.total, t.root_inodes.percent>>
        OBVIOUS
    <2> HIDE DEF four
    <2>3. /\ four \in Seq(S)
          /\ Len(four) = Len(three) + 3
          /\ \A i \in 1..Len(three) : four[i] = three[i]
          /\ four[Len(three) + 1] = t.root_inodes.used
          /\ four[Len(three) + 2] = t.root_inodes.total
          /\ four[Len(three) + 3] = t.root_inodes.percent
        BY <2>1, <2>2, ThreeColumns
    <2> QED BY <1>3, <1>6, <2>3
<1> HIDE DEF four
<1>8. /\ \A i \in 1..14 : row[i] = two[i]
      /\ \A i \in 1..11 : row[i] = one[i]
      /\ \A i \in 1..8 : row[i] = head[i]
    BY <1>1, <1>4, <1>5, <1>6, <1>7
<1>9. /\ row[1] = record.node /\ row[2] = at /\ row[3] = received
      /\ row[4] = t.uptime_seconds /\ row[5] = t.load.one
      /\ row[6] = t.load.five /\ row[7] = t.load.fifteen
      /\ row[8] = t.cpu_percent
    BY <1>2, <1>8
<1>10. /\ row[9] = t.ram.used /\ row[10] = t.ram.total
       /\ row[11] = t.ram.percent
    BY <1>4, <1>8
<1>11. /\ row[12] = t.swap.used /\ row[13] = t.swap.total
       /\ row[14] = t.swap.percent
    BY <1>5, <1>8
<1>12. /\ row[15] = t.root_fs.used /\ row[16] = t.root_fs.total
       /\ row[17] = t.root_fs.percent
    BY <1>1, <1>6, <1>7
<1> QED BY <1>1, <1>7, <1>9, <1>10, <1>11, <1>12 DEF at, received, t

(* Decoding an object of numbers gives a record of exactly its keys.       *)
LEMMA DecodedRecords ==
    ASSUME NEW v
    PROVE  /\ NumbersObject(v, LOAD_FIELDS) =>
                LET l == DecodedNumbers(v)
                IN  l = [one |-> l.one, five |-> l.five, fifteen |-> l.fifteen]
           /\ NumbersObject(v, RESOURCE_FIELDS) =>
                LET n == DecodedNumbers(v)
                IN  n = [used |-> n.used, total |-> n.total,
                         percent |-> n.percent]
<1> DEFINE n == DecodedNumbers(v)
<1>1. ASSUME NumbersObject(v, LOAD_FIELDS)
      PROVE  n = [one |-> n.one, five |-> n.five, fifteen |-> n.fifteen]
    <2>1. /\ DOMAIN n = {"one", "five", "fifteen"}
          /\ n = [key \in DOMAIN n |-> n[key]]
        BY <1>1 DEF NumbersObject, require_exact_keys, DecodedNumbers,
                    LOAD_FIELDS
    <2> HIDE DEF n
    <2> QED BY <2>1
<1>2. ASSUME NumbersObject(v, RESOURCE_FIELDS)
      PROVE  n = [used |-> n.used, total |-> n.total, percent |-> n.percent]
    <2>1. /\ DOMAIN n = {"used", "total", "percent"}
          /\ n = [key \in DOMAIN n |-> n[key]]
        BY <1>2 DEF NumbersObject, require_exact_keys, DecodedNumbers,
                    RESOURCE_FIELDS
    <2> HIDE DEF n
    <2> QED BY <2>1
<1> QED BY <1>1, <1>2

(* The two EXCEPTs of SameRecord on a record written out.                  *)
LEMMA InstantsOfRecord ==
    ASSUME NEW node, NEW t, NEW d, NEW q,
           q = [node |-> node, telemetry |-> t, received_at |-> d]
    PROVE  [q EXCEPT !.telemetry.timestamp = InstantOf(@),
                     !.received_at = InstantOf(@)]
            = [node |-> node,
               telemetry |-> [t EXCEPT !.timestamp = InstantOf(t.timestamp)],
               received_at |-> InstantOf(d)]
<1>1. q.telemetry = t /\ q.received_at = d
    OBVIOUS
<1> DEFINE x == [t EXCEPT !.timestamp = InstantOf(t.timestamp)]
           y == InstantOf(d)
           p == [q EXCEPT !.telemetry = x]
<1>2. [q EXCEPT !.telemetry.timestamp = InstantOf(@),
                !.received_at = InstantOf(@)]
        = [p EXCEPT !.received_at = y]
    BY <1>1
<1> HIDE DEF x, y
<1>3. p = [node |-> node, telemetry |-> x, received_at |-> d]
    OBVIOUS
<1> HIDE DEF p
<1>4. [p EXCEPT !.received_at = y] = [node |-> node, telemetry |-> x,
                                      received_at |-> y]
    BY <1>3
<1> QED BY <1>2, <1>4 DEF x, y

(* A record read back from the columns of an accepted one: the domain's    *)
(* constructors take it, and it is the record that was accepted.           *)
LEMMA RecordRestored ==
    ASSUME NEW r, NEW now \in Time,
           decodes_payload(r.payload), Reportable(r),
           NEW columns, columns = Parameters(RecordOf(r, now))
    PROVE  /\ ValidTelemetry(row_to_record(columns).telemetry)
           /\ SameRecord(row_to_record(columns), RecordOf(r, now))
<1> DEFINE t == DecodedTelemetry(r.payload)
           record == RecordOf(r, now)
           at == parse_timestamp(columns[2])
           received == parse_timestamp(columns[3])
           u == [timestamp |-> at, uptime_seconds |-> t.uptime_seconds,
                 load |-> t.load, cpu_percent |-> t.cpu_percent,
                 ram |-> t.ram, swap |-> t.swap, root_fs |-> t.root_fs,
                 root_inodes |-> t.root_inodes]
<1>1. /\ record = [node |-> r.node, telemetry |-> t,
                   received_at |-> Datetime(now, 0)]
      /\ record.node = r.node /\ record.telemetry = t
      /\ record.received_at = Datetime(now, 0)
    BY DEF RecordOf, Record
<1>2. /\ t.load = [one |-> t.load.one, five |-> t.load.five,
                   fifteen |-> t.load.fifteen]
      /\ t.ram = [used |-> t.ram.used, total |-> t.ram.total,
                  percent |-> t.ram.percent]
      /\ t.swap = [used |-> t.swap.used, total |-> t.swap.total,
                   percent |-> t.swap.percent]
      /\ t.root_fs = [used |-> t.root_fs.used, total |-> t.root_fs.total,
                      percent |-> t.root_fs.percent]
      /\ t.root_inodes = [used |-> t.root_inodes.used,
                          total |-> t.root_inodes.total,
                          percent |-> t.root_inodes.percent]
    <2>1. /\ t.load = DecodedNumbers(r.payload.load)
          /\ t.ram = DecodedNumbers(r.payload.ram)
          /\ t.swap = DecodedNumbers(r.payload.swap)
          /\ t.root_fs = DecodedNumbers(r.payload.root_fs)
          /\ t.root_inodes = DecodedNumbers(r.payload.root_inodes)
        BY DEF DecodedTelemetry
    <2>2. /\ NumbersObject(r.payload.load, LOAD_FIELDS)
          /\ NumbersObject(r.payload.ram, RESOURCE_FIELDS)
          /\ NumbersObject(r.payload.swap, RESOURCE_FIELDS)
          /\ NumbersObject(r.payload.root_fs, RESOURCE_FIELDS)
          /\ NumbersObject(r.payload.root_inodes, RESOURCE_FIELDS)
        BY DEF decodes_payload, Resources
    <2> HIDE DEF t
    <2> QED BY <2>1, <2>2, DecodedRecords
<1>3. ValidTelemetry(t)
    BY DEF decodes_payload
<1>4. t = [timestamp |-> t.timestamp, uptime_seconds |-> t.uptime_seconds,
           load |-> t.load, cpu_percent |-> t.cpu_percent,
           ram |-> t.ram, swap |-> t.swap, root_fs |-> t.root_fs,
           root_inodes |-> t.root_inodes]
    BY DEF DecodedTelemetry
<1>5. HasUtcForm(t.timestamp)
    BY DEF Reportable
<1>6. /\ HasUtcForm(Datetime(now, 0)) /\ InstantOf(Datetime(now, 0)) = now
    BY ApiAssumption, TelemetryAssumption DEF HasUtcForm, InstantOf, Datetime
<1>0. columns = Parameters(record)
    OBVIOUS
<1> HIDE DEF t, record
<1>7. /\ columns[1] = r.node
      /\ columns[2] = serialize_timestamp(t.timestamp)
      /\ columns[3] = serialize_timestamp(Datetime(now, 0))
    BY <1>0, <1>1, ColumnsOf
<1>8. /\ at.aware = TRUE /\ InstantOf(at) = InstantOf(t.timestamp)
      /\ InstantOf(received) = InstantOf(Datetime(now, 0))
    BY <1>5, <1>6, <1>7, TimestampRoundTrip
<1>9. row_to_record(columns) = [node |-> r.node, telemetry |-> u,
                                received_at |-> received]
    <2> DEFINE v == record.telemetry
    <2>0. v = t
        BY <1>1
    <2>1. /\ columns[4] = v.uptime_seconds
          /\ columns[5] = v.load.one /\ columns[6] = v.load.five
          /\ columns[7] = v.load.fifteen /\ columns[8] = v.cpu_percent
          /\ columns[9] = v.ram.used /\ columns[10] = v.ram.total
          /\ columns[11] = v.ram.percent
          /\ columns[12] = v.swap.used /\ columns[13] = v.swap.total
          /\ columns[14] = v.swap.percent
          /\ columns[15] = v.root_fs.used /\ columns[16] = v.root_fs.total
          /\ columns[17] = v.root_fs.percent
          /\ columns[18] = v.root_inodes.used
          /\ columns[19] = v.root_inodes.total
          /\ columns[20] = v.root_inodes.percent
        BY <1>0, ColumnsOf
    <2> HIDE DEF v
    <2>2. /\ t.load = [one |-> columns[5], five |-> columns[6],
                       fifteen |-> columns[7]]
          /\ t.ram = resource_columns(columns, 9)
          /\ t.swap = resource_columns(columns, 12)
          /\ t.root_fs = resource_columns(columns, 15)
          /\ t.root_inodes = resource_columns(columns, 18)
        BY <1>2, <2>0, <2>1 DEF resource_columns
    <2> QED BY <1>7, <2>0, <2>1, <2>2 DEF row_to_record, Record
<1> HIDE DEF at, received
<1>10. ValidTelemetry(u)
    <2>1. \A x \in Resources : u[x] = t[x]
        BY DEF Resources
    <2> QED BY <1>3, <1>8, <2>1 DEF ValidTelemetry
<1>11. SameRecord(row_to_record(columns), record)
    <2> DEFINE instants(q) == [q EXCEPT !.telemetry.timestamp = InstantOf(@),
                                        !.received_at = InstantOf(@)]
    <2>0. u.timestamp = at
        OBVIOUS
    <2> HIDE DEF u
    <2>1. instants(row_to_record(columns)) =
            [node |-> r.node,
             telemetry |-> [u EXCEPT !.timestamp = InstantOf(at)],
             received_at |-> InstantOf(received)]
        BY <1>9, <2>0, InstantsOfRecord
    <2>2. instants(record) =
            [node |-> r.node,
             telemetry |-> [t EXCEPT !.timestamp = InstantOf(t.timestamp)],
             received_at |-> InstantOf(Datetime(now, 0))]
        <3>1. record = [node |-> r.node, telemetry |-> t,
                        received_at |-> Datetime(now, 0)]
            BY <1>1
        <3> QED BY <3>1, InstantsOfRecord
    <2>3. [u EXCEPT !.timestamp = InstantOf(at)]
            = [t EXCEPT !.timestamp = InstantOf(t.timestamp)]
        BY <1>4, <1>8 DEF u
    <2> QED BY <1>8, <2>1, <2>2, <2>3 DEF SameRecord
<1>12. row_to_record(columns).telemetry = u
    BY <1>9
<1> QED BY <1>10, <1>11, <1>12 DEF record

-----------------------------------------------------------------------------
(* The inductive invariant.                                                *)

\* The requests whose heartbeat may be stored.
Acceptable ==
    {r \in Requests : /\ Len(r.tokens) = 1
                      /\ Authenticated(r)
                      /\ decodes_payload(r.payload)
                      /\ Reportable(r)}

\* The rows that may be in the table: each is that of an acceptable request.
Committable ==
    {Row(RecordOf(r, now), r.tokens[1]) : r \in Acceptable, now \in Time}

RowsCommittable == rows \in Seq(Committable)

\* The response is the refusal of the first stage that refused, or follows
\* the insert.
Answered ==
    \/ /\ FramingStatus(request) # Proceed
       /\ response = Refusal(FramingStatus(request))
    \/ /\ FramingStatus(request) = Proceed
       /\ AdapterStatus(request, body) # Proceed
       /\ response = Refusal(AdapterStatus(request, body))
    \/ /\ FramingStatus(request) = Proceed
       /\ AdapterStatus(request, body) = Proceed
       /\ WireStatus(request) # Proceed
       /\ response = Refusal(WireStatus(request))
    \/ /\ FramingStatus(request) = Proceed
       /\ AdapterStatus(request, body) = Proceed
       /\ WireStatus(request) = Proceed
       /\ response \in {Response(204, {}), Refusal(500)}

\* Where the handler is says which stages the request has passed.
StagesPassed ==
    /\ pc \in {"idle", "frame", "adapt", "wire", "ingest", "respond"}
    /\ pc # "idle" => request \in Requests
    /\ pc \in {"adapt", "wire", "ingest"} => FramingStatus(request) = Proceed
    /\ pc \in {"wire", "ingest"} => AdapterStatus(request, body) = Proceed
    /\ pc = "ingest" => WireStatus(request) = Proceed
    /\ pc = "respond" => Answered

\* There is a receipt only once there is an answer.
ReceiptLast == pc # "respond" => receipt = 0

ApiInv ==
    /\ RowsCommittable
    /\ StagesPassed
    /\ ReceiptLast
    /\ AnswerMatchesStore

-----------------------------------------------------------------------------
(* The rows.                                                               *)

(* What is known of a row of an acceptable request.                        *)
LEMMA CommittedRow ==
    ASSUME NEW r \in Acceptable, NEW now \in Time,
           NEW row, row = Row(RecordOf(r, now), r.tokens[1])
    PROVE  /\ NodeOf(row) = r.node
           /\ r.node \in DOMAIN Credentials
           /\ row.token = Credentials[r.node]
           /\ row.accepted.received_at = Datetime(now, 0)
           /\ ReceivedAt(row) = serialize_timestamp(Datetime(now, 0))
           /\ ValidTelemetry(row_to_record(row.columns).telemetry)
           /\ SameRecord(row_to_record(row.columns), row.accepted)
<1> DEFINE record == RecordOf(r, now)
<1>1. /\ row.columns = Parameters(record) /\ row.accepted = record
      /\ row.token = r.tokens[1]
    BY DEF Row
<1>2. record.node = r.node /\ record.received_at = Datetime(now, 0)
    BY DEF RecordOf, Record
<1>3. /\ r.node \in DOMAIN Credentials /\ r.tokens[1] = Credentials[r.node]
      /\ decodes_payload(r.payload) /\ Reportable(r)
    BY DEF Acceptable, Authenticated
<1>4. /\ ValidTelemetry(row_to_record(row.columns).telemetry)
      /\ SameRecord(row_to_record(row.columns), record)
    BY <1>1, <1>3, RecordRestored
<1> HIDE DEF record
<1>5. /\ row.columns[1] = record.node
      /\ row.columns[3] = serialize_timestamp(record.received_at)
    BY <1>1, ColumnsOf
<1> QED BY <1>1, <1>2, <1>3, <1>4, <1>5 DEF NodeOf, ReceivedAt

(* The fields of a response.                                               *)
LEMMA ResponseFields ==
    ASSUME NEW status, NEW allow
    PROVE  /\ Response(status, allow).status = status
           /\ Response(status, allow).allow = allow
           /\ Refusal(status).status = status
           /\ Refusal(status).allow = IF status = 405 THEN {"POST"} ELSE {}
BY DEF Response, Refusal

-----------------------------------------------------------------------------
(* The steps.                                                              *)

(* The empty table and the idle handler.                                   *)
LEMMA InitApi == Init => ApiInv
<1> SUFFICES ASSUME Init PROVE ApiInv
    OBVIOUS
<1>1. RowsCommittable
    BY DEF Init, RowsCommittable
<1>2. StagesPassed /\ ReceiptLast
    BY DEF Init, StagesPassed, ReceiptLast
<1>3. AnswerMatchesStore
    BY DEF Init, AnswerMatchesStore
<1> QED BY <1>1, <1>2, <1>3 DEF ApiInv

(* A stage that refuses answers with its status, which is never 204; one   *)
(* that does not hands the request on. The table is untouched.             *)
LEMMA StageKeeps ==
    ASSUME ApiInv, pc # "respond", NEW status, status # 204, NEW next,
           next # "respond", Decide(status, next),
           UNCHANGED <<rows, receipt, acked>>
    PROVE  /\ RowsCommittable' /\ ReceiptLast' /\ AnswerMatchesStore'
           /\ status = Proceed => pc' = next
           /\ status # Proceed => pc' = "respond" /\ response' = Refusal(status)
<1>1. receipt = 0
    BY DEF ApiInv, ReceiptLast
<1>2. RowsCommittable'
    BY DEF ApiInv, RowsCommittable
<1>3. acked' \subseteq DOMAIN rows'
    BY DEF ApiInv, AnswerMatchesStore
<1>4. CASE status = Proceed
    BY <1>1, <1>2, <1>3, <1>4 DEF Decide, ReceiptLast, AnswerMatchesStore
<1>5. CASE status # Proceed
    <2>1. pc' = "respond" /\ response' = Refusal(status)
        BY <1>5 DEF Decide, Answer
    <2>2. response'.status # 204
        BY <2>1, ResponseFields
    <2> QED BY <1>1, <1>2, <1>3, <1>5, <2>1, <2>2
            DEF ReceiptLast, AnswerMatchesStore
<1> QED BY <1>4, <1>5

(* Framing, adapter and wire boundary.                                     *)
LEMMA StagesKeep ==
    ASSUME ApiInv, ResolveBody \/ Adapt \/ Authenticate
    PROVE  ApiInv'
<1>1. CASE ResolveBody
    <2>1. /\ pc = "frame" /\ Decide(FramingStatus(request), "adapt")
          /\ request' = request /\ UNCHANGED <<rows, receipt, acked>>
          /\ request \in Requests
        BY <1>1 DEF ResolveBody, ApiInv, StagesPassed
    <2>2. FramingStatus(request) # 204
        BY FramingStatuses DEF Proceed
    <2>3. /\ RowsCommittable' /\ ReceiptLast' /\ AnswerMatchesStore'
          /\ FramingStatus(request) = Proceed => pc' = "adapt"
          /\ FramingStatus(request) # Proceed =>
                pc' = "respond" /\ response' = Refusal(FramingStatus(request))
        BY <2>1, <2>2, StageKeeps
    <2>4. StagesPassed'
        BY <2>1, <2>3 DEF StagesPassed, Answered
    <2> QED BY <2>3, <2>4 DEF ApiInv
<1>2. CASE Adapt
    <2>1. /\ pc = "adapt" /\ Decide(AdapterStatus(request, body), "wire")
          /\ request' = request /\ body' = body
          /\ UNCHANGED <<rows, receipt, acked>>
          /\ request \in Requests /\ FramingStatus(request) = Proceed
        BY <1>2 DEF Adapt, ApiInv, StagesPassed
    <2>2. AdapterStatus(request, body) # 204
        BY <2>1, AdapterStatuses DEF Proceed
    <2>3. /\ RowsCommittable' /\ ReceiptLast' /\ AnswerMatchesStore'
          /\ AdapterStatus(request, body) = Proceed => pc' = "wire"
          /\ AdapterStatus(request, body) # Proceed =>
                /\ pc' = "respond"
                /\ response' = Refusal(AdapterStatus(request, body))
        BY <2>1, <2>2, StageKeeps
    <2>4. StagesPassed'
        BY <2>1, <2>3 DEF StagesPassed, Answered
    <2> QED BY <2>3, <2>4 DEF ApiInv
<1>3. CASE Authenticate
    <2>1. /\ pc = "wire" /\ Decide(WireStatus(request), "ingest")
          /\ request' = request /\ body' = body
          /\ UNCHANGED <<rows, receipt, acked>>
          /\ request \in Requests /\ FramingStatus(request) = Proceed
          /\ AdapterStatus(request, body) = Proceed
        BY <1>3 DEF Authenticate, ApiInv, StagesPassed
    <2>2. WireStatus(request) # 204
        BY WireStatuses DEF Proceed
    <2>3. /\ RowsCommittable' /\ ReceiptLast' /\ AnswerMatchesStore'
          /\ WireStatus(request) = Proceed => pc' = "ingest"
          /\ WireStatus(request) # Proceed =>
                pc' = "respond" /\ response' = Refusal(WireStatus(request))
        BY <2>1, <2>2, StageKeeps
    <2>4. StagesPassed'
        BY <2>1, <2>3 DEF StagesPassed, Answered
    <2> QED BY <2>3, <2>4 DEF ApiInv
<1> QED BY <1>1, <1>2, <1>3

(* The commit of a row, and the two ways to fail before it.                *)
LEMMA IngestKeeps ==
    ASSUME ApiInv,
           (\E now \in Time : Ingest(now)) \/ InsertFails \/ SerializeRaises
    PROVE  ApiInv'
<1>1. /\ pc = "ingest" /\ request \in Requests /\ receipt = 0
      /\ request' = request /\ body' = body /\ acked' = acked
      /\ FramingStatus(request) = Proceed
      /\ AdapterStatus(request, body) = Proceed
      /\ WireStatus(request) = Proceed
      /\ rows \in Seq(Committable) /\ acked \subseteq DOMAIN rows
      /\ pc' = "respond"
    BY DEF ApiInv, StagesPassed, ReceiptLast, RowsCommittable, Ingest,
           AnswerMatchesStore, InsertFails, SerializeRaises, Answer
<1>2. response' \in {Response(204, {}), Refusal(500)}
    BY DEF Ingest, InsertFails, SerializeRaises, Answer
<1>3. StagesPassed' /\ ReceiptLast'
    BY <1>1, <1>2 DEF StagesPassed, Answered, ReceiptLast
<1>4. ASSUME NEW now \in Time, Ingest(now)
      PROVE  ApiInv'
    <2> DEFINE row == Row(RecordOf(request, now), request.tokens[1])
    <2>1. /\ rows' = Append(rows, row) /\ receipt' = Len(rows) + 1
          /\ Reportable(request) /\ response' = Response(204, {})
        BY <1>4 DEF Ingest, Answer
    <2>2. request \in Acceptable
        BY <1>1, <2>1, AdapterStatuses, WireStatuses DEF Acceptable
    <2>3. row \in Committable
        BY <2>2 DEF Committable
    <2>4. NodeOf(row) = request.node
        BY <2>2, CommittedRow
    <2> HIDE DEF row
    <2>5. /\ rows' \in Seq(Committable)
          /\ receipt' \in DOMAIN rows' /\ rows'[receipt'] = row
          /\ DOMAIN rows \subseteq DOMAIN rows'
        BY <1>1, <2>1, <2>3
    <2>6. response'.status = 204
        BY <2>1, ResponseFields
    <2>7. AnswerMatchesStore'
        BY <1>1, <2>4, <2>5, <2>6 DEF AnswerMatchesStore
    <2> QED BY <1>3, <2>5, <2>7 DEF ApiInv, RowsCommittable
<1>5. CASE InsertFails \/ SerializeRaises
    <2>1. rows' = rows /\ receipt' = receipt /\ response' = Refusal(500)
        BY <1>5 DEF InsertFails, SerializeRaises, Answer
    <2>2. response'.status # 204
        BY <2>1, ResponseFields
    <2>3. AnswerMatchesStore'
        BY <1>1, <2>1, <2>2 DEF AnswerMatchesStore
    <2> QED BY <1>1, <1>3, <2>1, <2>3 DEF ApiInv, RowsCommittable
<1> QED BY <1>4, <1>5

(* The request is over: answered, lost on the way, or killed.              *)
LEMMA FinishKeeps ==
    ASSUME ApiInv, Respond \/ ResponseLost \/ Crash
    PROVE  ApiInv'
<1>1. pc' = "idle" /\ receipt' = 0 /\ rows' = rows
    BY DEF Respond, ResponseLost, Crash, Finish
<1>2. acked' \subseteq DOMAIN rows'
    BY <1>1 DEF ApiInv, AnswerMatchesStore, Respond, ResponseLost, Crash
<1>3. StagesPassed' /\ ReceiptLast'
    BY <1>1 DEF StagesPassed, ReceiptLast
<1>4. AnswerMatchesStore' /\ RowsCommittable'
    BY <1>1, <1>2 DEF ApiInv, AnswerMatchesStore, RowsCommittable
<1> QED BY <1>3, <1>4 DEF ApiInv

(* Every step keeps the invariant.                                         *)
LEMMA NextApi == ApiInv /\ [Next]_vars => ApiInv'
<1> SUFFICES ASSUME ApiInv, [Next]_vars PROVE ApiInv'
    OBVIOUS
<1>1. ASSUME NEW r \in Requests, Accept(r)
      PROVE  ApiInv'
    <2>1. /\ pc' = "frame" /\ pc = "idle" /\ request' = r
          /\ UNCHANGED <<rows, receipt, acked>>
        BY <1>1 DEF Accept
    <2>2. StagesPassed' /\ ReceiptLast'
        BY <2>1 DEF ApiInv, StagesPassed, ReceiptLast
    <2>3. AnswerMatchesStore' /\ RowsCommittable'
        BY <2>1 DEF ApiInv, AnswerMatchesStore, RowsCommittable
    <2> QED BY <2>2, <2>3 DEF ApiInv
<1>2. CASE ResolveBody \/ Adapt \/ Authenticate
    BY <1>2, StagesKeep
<1>3. CASE (\E now \in Time : Ingest(now)) \/ InsertFails \/ SerializeRaises
    BY <1>3, IngestKeeps
<1>4. CASE Respond \/ ResponseLost \/ Crash
    BY <1>4, FinishKeeps
<1>5. CASE UNCHANGED vars
    BY <1>5 DEF vars, ApiInv, RowsCommittable, StagesPassed, Answered,
                ReceiptLast, AnswerMatchesStore
<1> QED BY <1>1, <1>2, <1>3, <1>4, <1>5 DEF Next

(* The invariant always holds.                                             *)
LEMMA ApiAlways == Spec => []ApiInv
<1> QED BY InitApi, NextApi, PTL DEF Spec

-----------------------------------------------------------------------------
(* The order of the timestamp texts.                                       *)

(* An instant is its whole seconds and its rest.                           *)
LEMMA SecondsAndRest ==
    ASSUME NEW a \in Nat, NEW b \in Nat
    PROVE  LET s(n) == n \div Resolution
               m(n) == n % Resolution
           IN  /\ s(a) \in Nat /\ m(a) \in Nat /\ s(b) \in Nat /\ m(b) \in Nat
               /\ a < b <=> s(a) < s(b) \/ (s(a) = s(b) /\ m(a) < m(b))
               /\ a = b <=> s(a) = s(b) /\ m(a) = m(b)
<1> DEFINE R == Resolution
           sa == a \div R
           ma == a % R
           sb == b \div R
           mb == b % R
<1>1. R \in Nat /\ R > 0
    BY TelemetryAssumption
<1>2. /\ sa \in Nat /\ ma \in Nat /\ ma < R /\ a = sa * R + ma
      /\ sb \in Nat /\ mb \in Nat /\ mb < R /\ b = sb * R + mb
    BY <1>1
<1> HIDE DEF R, sa, ma, sb, mb
<1>3. /\ sa < sb => sa * R + R <= sb * R
      /\ sb < sa => sb * R + R <= sa * R
      /\ sa * R \in Nat /\ sb * R \in Nat
    <2>1. ASSUME NEW x \in Nat, NEW y \in Nat, x < y
          PROVE  x * R + R <= y * R
        <3>1. PICK d \in Nat : y = x + 1 + d
            <4>1. y - x - 1 \in Nat /\ y = x + 1 + (y - x - 1)
                BY <2>1
            <4> QED BY <4>1
        <3>2. y * R = x * R + R + d * R /\ d * R \in Nat /\ x * R \in Nat
            BY <1>1, <3>1
        <3> QED BY <1>1, <3>2
    <2> QED BY <1>1, <1>2, <2>1
<1>4. /\ a < b <=> sa < sb \/ (sa = sb /\ ma < mb)
      /\ a = b <=> sa = sb /\ ma = mb
    BY <1>1, <1>2, <1>3
<1> QED BY <1>2, <1>4 DEF R, sa, ma, sb, mb

\* The text of a central timestamp.
TextAt(n) == serialize_timestamp(Datetime(n, 0))

(* The texts of two instants are ordered as the instants are, whether they *)
(* have a fraction or not.                                                 *)
LEMMA TextOrder ==
    ASSUME NEW a \in Nat, NEW b \in Nat
    PROVE  /\ TextBefore(TextAt(a), TextAt(b)) <=> a < b
           /\ TextAt(a) = TextAt(b) <=> a = b
<1> DEFINE sa == a \div Resolution
           ma == a % Resolution
           sb == b \div Resolution
           mb == b % Resolution
           A == TextAt(a)
           B == TextAt(b)
<1>1. /\ sa \in Nat /\ ma \in Nat /\ sb \in Nat /\ mb \in Nat
      /\ a < b <=> sa < sb \/ (sa = sb /\ ma < mb)
      /\ a = b <=> sa = sb /\ ma = mb
    BY SecondsAndRest
<1>2. \A n \in Nat : InstantOf(Datetime(n, 0)) = n
    BY DEF InstantOf, Datetime
<1>3. /\ A = IF ma = 0 THEN <<sa, 43>> ELSE <<sa, 46, ma, 43>>
      /\ B = IF mb = 0 THEN <<sb, 43>> ELSE <<sb, 46, mb, 43>>
    BY <1>2 DEF TextAt, serialize_timestamp
<1> HIDE DEF sa, ma, sb, mb, A, B
<1>4. /\ A[1] = sa /\ B[1] = sb
      /\ ma = 0 => Len(A) = 2 /\ A[2] = 43
      /\ ma # 0 => Len(A) = 4 /\ A[2] = 46 /\ A[3] = ma /\ A[4] = 43
      /\ mb = 0 => Len(B) = 2 /\ B[2] = 43
      /\ mb # 0 => Len(B) = 4 /\ B[2] = 46 /\ B[3] = mb /\ B[4] = 43
    <2>1. /\ ma = 0 => A = <<sa, 43>>
          /\ ma # 0 => A = <<sa, 46, ma, 43>>
          /\ mb = 0 => B = <<sb, 43>>
          /\ mb # 0 => B = <<sb, 46, mb, 43>>
        BY <1>3
    <2> QED BY <2>1
<1>5. A = B <=> a = b
    BY <1>1, <1>3, <1>4
<1>6. ASSUME a < b PROVE TextBefore(A, B)
    <2>1. CASE sa < sb
        <3>1. 1 \in 1..Len(B) /\ 1..(1 - 1) = {}
            BY <1>4
        <3> QED BY <1>4, <2>1, <3>1 DEF TextBefore
    <2>2. CASE sa = sb /\ ma < mb /\ ma = 0
        <3>1. mb # 0
            BY <1>1, <2>2
        <3>2. /\ Len(A) = 2 /\ Len(B) = 4 /\ A[1] = B[1]
              /\ A[2] = 43 /\ B[2] = 46
            BY <1>4, <2>2, <3>1
        <3>3. 2 \in 1..Len(B) /\ 1..(2 - 1) = {1} /\ 1 <= Len(A)
            BY <3>2
        <3> QED BY <3>2, <3>3 DEF TextBefore
    <2>3. CASE sa = sb /\ ma < mb /\ ma # 0
        <3>1. mb # 0
            BY <1>1, <2>3
        <3>2. 3 \in 1..Len(B) /\ 1..(3 - 1) = {1, 2} /\ 2 <= Len(A) /\ 1 <= Len(A)
            BY <1>4, <2>3, <3>1
        <3>3. A[1] = B[1] /\ A[2] = B[2] /\ A[3] < B[3]
            BY <1>4, <2>3, <3>1
        <3> QED BY <3>2, <3>3 DEF TextBefore
    <2> QED BY <1>1, <1>6, <2>1, <2>2, <2>3
<1>7. ASSUME TextBefore(A, B) PROVE a < b
    <2>1. PICK i \in 1..Len(B) :
            /\ \A j \in 1..(i - 1) : j <= Len(A) /\ A[j] = B[j]
            /\ i > Len(A) \/ A[i] < B[i]
        BY <1>7 DEF TextBefore
    <2>2. Len(A) \in {2, 4} /\ Len(B) \in {2, 4}
        BY <1>4
    <2>3. i \in {1, 2, 3, 4}
        <3>1. i \in Int /\ 1 <= i /\ i <= 4
            <4>1. CASE Len(B) = 2
                BY <4>1
            <4>2. CASE Len(B) = 4
                BY <4>2
            <4> QED BY <2>2, <4>1, <4>2
        <3> QED BY <3>1
    <2>4. CASE i = 1
        BY <1>1, <1>4, <2>1, <2>2, <2>4
    <2>5. CASE i = 2
        <3>1. A[1] = B[1] /\ A[2] < B[2]
            BY <2>1, <2>2, <2>5
        <3>2. ma = 0 /\ mb # 0
            BY <1>4, <3>1
        <3> QED BY <1>1, <1>4, <3>1, <3>2
    <2>6. CASE i = 3
        <3>1. /\ A[1] = B[1] /\ A[2] = B[2] /\ Len(B) = 4
              /\ 3 > Len(A) \/ A[3] < B[3]
            BY <2>1, <2>2, <2>6
        <3>2. ma # 0 /\ mb # 0
            BY <1>4, <3>1
        <3>3. A[3] < B[3]
            BY <1>4, <3>1, <3>2
        <3> QED BY <1>1, <1>4, <3>1, <3>2, <3>3
    <2>7. CASE i = 4
        <3>1. A[2] = B[2] /\ Len(B) = 4 /\ (4 > Len(A) \/ A[4] < B[4])
            BY <2>1, <2>2, <2>7
        <3>2. ma # 0 /\ mb # 0
            BY <1>4, <3>1
        <3>3. Len(A) = 4 /\ A[4] = 43 /\ B[4] = 43
            BY <1>4, <3>2
        <3> QED BY <3>1, <3>3
    <2> QED BY <2>3, <2>4, <2>5, <2>6, <2>7
<1> QED BY <1>5, <1>6, <1>7 DEF A, B

(* Among finitely many rows one is the newest, the last on a tie.          *)
LEMMA NewestExists ==
    ASSUME NEW n \in Nat, NEW ids \in SUBSET (1..n), ids # {},
           NEW at \in [ids -> 0..MaxInstant]
    PROVE  \E i \in ids : \A j \in ids \ {i} :
                at[j] < at[i] \/ (at[j] = at[i] /\ j < i)
<1> DEFINE ages == {MaxInstant - at[i] : i \in ids}
<1>0. MaxInstant \in Nat /\ ids \subseteq Nat
    BY TelemetryAssumption
<1>1. ages \in SUBSET Nat /\ ages # {}
    <2>1. \A i \in ids : MaxInstant - at[i] \in Nat
        BY <1>0
    <2> QED BY <2>1
<1>2. PICK k \in ids : \A j \in ids : at[j] <= at[k]
    <2>1. Min(ages) \in ages /\ \A age \in ages : Min(ages) <= age
        BY <1>1, LeastNatural
    <2>2. PICK k \in ids : Min(ages) = MaxInstant - at[k]
        BY <2>1
    <2>3. \A j \in ids : MaxInstant - at[k] <= MaxInstant - at[j]
        BY <2>1, <2>2
    <2>4. \A j \in ids : at[j] <= at[k]
        BY <1>0, <2>3
    <2> QED BY <2>4
<1> DEFINE ties == {i \in ids : at[i] = at[k]}
           ranks == {n - i : i \in ties}
<1>3. ranks \in SUBSET Nat /\ ranks # {}
    OBVIOUS
<1>4. PICK i \in ties : \A j \in ties : j <= i
    <2>1. Min(ranks) \in ranks /\ \A rank \in ranks : Min(ranks) <= rank
        BY <1>3, LeastNatural
    <2>2. PICK i \in ties : Min(ranks) = n - i
        BY <2>1
    <2>3. \A j \in ties : n - i <= n - j
        BY <2>1, <2>2
    <2>4. \A j \in ties : j <= i
        BY <1>0, <2>3
    <2> QED BY <2>4
<1>5. ASSUME NEW j \in ids \ {i}
      PROVE  at[j] < at[i] \/ (at[j] = at[i] /\ j < i)
    <2>1. at[j] \in Nat /\ at[i] \in Nat /\ i \in Nat /\ j \in Nat
        BY <1>0
    <2>2. at[j] <= at[i] /\ (at[j] = at[i] => j <= i)
        BY <1>2, <1>4
    <2> QED BY <2>1, <2>2
<1> QED BY <1>5

-----------------------------------------------------------------------------
(* The theorems.                                                           *)

(* Every row is one of the committable rows.                               *)
LEMMA RowsKnown ==
    ASSUME RowsCommittable, NEW i \in DOMAIN rows
    PROVE  \E r \in Acceptable, now \in Time :
                rows[i] = Row(RecordOf(r, now), r.tokens[1])
<1>1. rows[i] \in Committable
    BY DEF RowsCommittable
<1> QED BY <1>1 DEF Committable

(* A 204 stands for a committed row of the reporting node, any other       *)
(* answer for none, and a row once acknowledged is never lost: across      *)
(* failures of SQLite, lost responses and crashes.                         *)
THEOREM StoredIffAnswered == Spec => []AnswerMatchesStore
<1>1. ApiInv => AnswerMatchesStore
    BY DEF ApiInv
<1> QED BY <1>1, ApiAlways, PTL

(* Whatever clients send, every stored row was reported with the token of  *)
(* the very node it is filed under.                                        *)
THEOREM NoHostSpeaksForAnother == Spec => []RowsAuthenticated
<1>1. ApiInv => RowsAuthenticated
    <2> SUFFICES ASSUME ApiInv, NEW i \in DOMAIN rows
                 PROVE  /\ NodeOf(rows[i]) \in DOMAIN Credentials
                        /\ rows[i].token = Credentials[NodeOf(rows[i])]
        BY DEF RowsAuthenticated
    <2>1. PICK r \in Acceptable, now \in Time :
                rows[i] = Row(RecordOf(r, now), r.tokens[1])
        BY RowsKnown DEF ApiInv
    <2> QED BY <2>1, CommittedRow
<1> QED BY <1>1, ApiAlways, PTL

(* No row this API commits can make a monitoring cycle raise when it is    *)
(* read back, for every payload a client may send.                         *)
THEOREM RowsReadBack == Spec => []RowsRestorable
<1>1. ApiInv => RowsRestorable
    <2> SUFFICES ASSUME ApiInv, NEW i \in DOMAIN rows
                 PROVE  /\ ValidTelemetry(row_to_record(rows[i].columns).telemetry)
                        /\ SameRecord(row_to_record(rows[i].columns),
                                      rows[i].accepted)
        BY DEF RowsRestorable
    <2>1. PICK r \in Acceptable, now \in Time :
                rows[i] = Row(RecordOf(r, now), r.tokens[1])
        BY RowsKnown DEF ApiInv
    <2> QED BY <2>1, CommittedRow
<1> QED BY <1>1, ApiAlways, PTL

(* Unknown node, known node without a credential, wrong token: one answer. *)
THEOREM RefusalsTellNothing == Spec => []RefusalsAlike
<1>1. ApiInv => RefusalsAlike
    <2> SUFFICES ASSUME ApiInv, pc = "respond",
                        FramingStatus(request) = Proceed,
                        AdapterStatus(request, body) = Proceed,
                        request.node # NoNode,
                        \A h \in DOMAIN Credentials :
                            \/ request.node # h
                            \/ request.tokens # <<Credentials[h]>>
                 PROVE  response = Refusal(401)
        BY DEF RefusalsAlike
    <2>1. request \in Requests /\ Answered
        BY DEF ApiInv, StagesPassed
    <2>2. Len(request.tokens) = 1
        BY <2>1, AdapterStatuses
    <2>3. request.tokens = <<request.tokens[1]>>
        <3>1. request.tokens \in Seq(ToSet(request.tokens))
            BY <2>1, RequestsAssumption
        <3> QED BY <2>2, <3>1
    <2>4. ~Authenticated(request)
        BY <2>3 DEF Authenticated
    <2>5. WireStatus(request) = 401
        BY <2>4, WireStatuses DEF claims_node
    <2> QED BY <2>1, <2>5 DEF Answered, Proceed
<1> QED BY <1>1, ApiAlways, PTL

(* The dead-man's GET is answered with the signature it takes for life,    *)
(* and a heartbeat POST never is, whatever becomes of it.                  *)
THEOREM ProbeSeesLife == Spec => []ProbeSignature
<1>1. ApiInv => ProbeSignature
    <2> SUFFICES ASSUME ApiInv, pc = "respond"
                 PROVE  /\ request.command = "GET"
                           /\ request.path = "/v1/heartbeat"
                           /\ request.wellformed
                                => classify_deadman_probe(response) = "HEALTHY"
                        /\ IsHeartbeatPost(request)
                                => classify_deadman_probe(response) = "FAILED"
        BY DEF ProbeSignature
    <2>1. request \in Requests /\ Answered
        BY DEF ApiInv, StagesPassed
    <2>2. ASSUME request.command = "GET", request.path = "/v1/heartbeat",
                 request.wellformed
          PROVE  classify_deadman_probe(response) = "HEALTHY"
        <3>1. FramingStatus(request) = Proceed
            BY <2>2, FramingStatuses DEF IsHeartbeatPost
        <3>2. AdapterStatus(request, body) = 405
            BY <2>1, <2>2, AdapterStatuses
        <3>3. response = Refusal(405)
            BY <2>1, <3>1, <3>2 DEF Answered, Proceed
        <3>4. response.status = 405 /\ response.allow = {"POST"}
            BY <3>3, ResponseFields
        <3> QED BY <3>4 DEF classify_deadman_probe
    <2>3. ASSUME IsHeartbeatPost(request)
          PROVE  classify_deadman_probe(response) = "FAILED"
        <3>1. FramingStatus(request) # 405
            BY FramingStatuses DEF Proceed
        <3>2. AdapterStatus(request, body) # 405
            BY <2>1, <2>3, AdapterStatuses
        <3>3. WireStatus(request) # 405
            BY WireStatuses DEF Proceed
        <3>4. response.status # 405
            BY <2>1, <3>1, <3>2, <3>3, ResponseFields DEF Answered
        <3> QED BY <3>4 DEF classify_deadman_probe
    <2> QED BY <2>2, <2>3
<1> QED BY <1>1, ApiAlways, PTL

(* The row ORDER BY picks by the text of received_at is the newest by the  *)
(* instant, however the clock stepped between the inserts.                 *)
THEOREM LatestByTextIsNewest == Spec => []LatestIsNewest
<1>1. ApiInv => LatestIsNewest
    <2> SUFFICES ASSUME ApiInv, NEW h \in Hosts, NEW i \in RowsOf(h)
                 PROVE  LET latest == latest_heartbeat(h)
                            at(k) == InstantOf(rows[k].accepted.received_at)
                        IN  \/ at(i) < at(latest)
                            \/ at(i) = at(latest) /\ i <= latest
        BY DEF LatestIsNewest
    <2> DEFINE ids == RowsOf(h)
               latest == latest_heartbeat(h)
               at == [k \in ids |-> InstantOf(rows[k].accepted.received_at)]
               Later(k, j) == \/ TextBefore(ReceivedAt(rows[j]),
                                            ReceivedAt(rows[k]))
                              \/ /\ ReceivedAt(rows[k]) = ReceivedAt(rows[j])
                                 /\ k > j
    <2>1. /\ Len(rows) \in Nat /\ ids \in SUBSET (1..Len(rows)) /\ i \in ids
        BY DEF RowsOf, ApiInv, RowsCommittable
    <2>2. ASSUME NEW k \in ids
          PROVE  /\ at[k] \in 0..MaxInstant
                 /\ ReceivedAt(rows[k]) = TextAt(at[k])
        <3>1. k \in DOMAIN rows
            BY DEF RowsOf
        <3>2. PICK r \in Acceptable, now \in Time :
                    rows[k] = Row(RecordOf(r, now), r.tokens[1])
            BY <3>1, RowsKnown DEF ApiInv
        <3>3. /\ rows[k].accepted.received_at = Datetime(now, 0)
              /\ ReceivedAt(rows[k]) = serialize_timestamp(Datetime(now, 0))
            BY <3>2, CommittedRow
        <3>4. now \in 0..MaxInstant /\ InstantOf(Datetime(now, 0)) = now
            BY ApiAssumption, TelemetryAssumption DEF InstantOf, Datetime
        <3> QED BY <3>3, <3>4 DEF TextAt
    <2>3. latest = CHOOSE k \in ids : \A j \in ids \ {k} : Later(k, j)
        BY <2>1 DEF latest_heartbeat
    <2>4. /\ at \in [ids -> 0..MaxInstant]
          /\ \A k \in ids : at[k] \in Nat
        <3>1. \A k \in ids : at[k] \in 0..MaxInstant
            BY <2>2
        <3>2. at \in [ids -> 0..MaxInstant]
            BY <3>1
        <3> QED BY <3>1, <3>2, TelemetryAssumption
    <2>5. \A k, j \in ids :
            Later(k, j) <=> at[j] < at[k] \/ (at[j] = at[k] /\ j < k)
        <3> SUFFICES ASSUME NEW k \in ids, NEW j \in ids
                     PROVE  Later(k, j) <=>
                                at[j] < at[k] \/ (at[j] = at[k] /\ j < k)
            OBVIOUS
        <3>1. /\ ReceivedAt(rows[k]) = TextAt(at[k])
              /\ ReceivedAt(rows[j]) = TextAt(at[j])
              /\ at[k] \in Nat /\ at[j] \in Nat /\ k \in Int /\ j \in Int
            BY <2>1, <2>2, <2>4
        <3>2. /\ TextBefore(TextAt(at[j]), TextAt(at[k])) <=> at[j] < at[k]
              /\ TextAt(at[k]) = TextAt(at[j]) <=> at[k] = at[j]
            BY <3>1, TextOrder
        <3> HIDE DEF at
        <3> QED BY <3>1, <3>2
    <2>6. PICK k \in ids : \A j \in ids \ {k} :
                at[j] < at[k] \/ (at[j] = at[k] /\ j < k)
        <3> HIDE DEF at, ids
        <3> QED BY <2>1, <2>4, NewestExists
    <2>7. latest \in ids /\ \A j \in ids \ {latest} : Later(latest, j)
        <3>1. \E m \in ids : \A j \in ids \ {m} : Later(m, j)
            BY <2>5, <2>6
        <3> HIDE DEF Later, ids, latest
        <3> QED BY <2>3, <3>1
    <2>8. at[i] < at[latest] \/ (at[i] = at[latest] /\ i <= latest)
        <3>1. latest \in Int /\ i \in Int
            BY <2>1, <2>7
        <3> HIDE DEF Later, ids, latest, at
        <3>2. CASE i = latest
            BY <3>1, <3>2
        <3>3. CASE i # latest
            BY <2>1, <2>5, <2>7, <3>1, <3>3
        <3> QED BY <3>2, <3>3
    <2>9. /\ at[i] = InstantOf(rows[i].accepted.received_at)
          /\ at[latest] = InstantOf(rows[latest].accepted.received_at)
        BY <2>1, <2>7
    <2> QED BY <2>8, <2>9
<1> QED BY <1>1, ApiAlways, PTL

-----------------------------------------------------------------------------
(* The handler. HandlerInv is inductive relative to ApiInv.                *)

ResponseType ==
    [status : {0, 204, 400, 401, 404, 405, 411, 413, 415, 417, 500},
     allow : SUBSET {"POST"}]

\* What has been read of the body, once the headers are judged.
BodyRead ==
    body = IF pc \in {"idle", "frame"} THEN 0 ELSE BytesRead(request)

\* A 500 before the response is sent stands for a failure of SQLite, or
\* for a timestamp that has no form in UTC.
ErrorExplained ==
    pc = "respond" /\ response.status = 500 =>
        \/ fault
        \/ WireStatus(request) = Proceed /\ ~Reportable(request)

HandlerInv ==
    /\ BodyRead
    /\ Len(rows) <= MaxRows
    /\ pc = "idle" <=> request = NoRequest
    /\ response \in ResponseType
    /\ fault \in BOOLEAN
    /\ ErrorExplained

(* The responses that are given.                                           *)
LEMMA ResponseTypes ==
    ASSUME NEW status \in {204, 400, 401, 404, 405, 411, 413, 415, 417, 500}
    PROVE  /\ Refusal(status) \in ResponseType
           /\ Response(204, {}) \in ResponseType
           /\ NoResponse \in ResponseType
BY DEF Refusal, Response, NoResponse, ResponseType

LEMMA InitHandler == Init => HandlerInv
<1> SUFFICES ASSUME Init PROVE HandlerInv
    OBVIOUS
<1>1. response \in ResponseType
    BY ResponseTypes DEF Init
<1>2. Len(rows) <= MaxRows
    BY ApiAssumption DEF Init
<1> QED BY <1>1, <1>2 DEF Init, HandlerInv, BodyRead, ErrorExplained

(* A stage that refuses does so with one of its statuses, none of them     *)
(* 500.                                                                    *)
LEMMA StageHandles ==
    ASSUME HandlerInv, NEW next \in {"adapt", "wire", "ingest"},
           NEW status \in {Proceed, 400, 401, 404, 405, 411, 413, 415, 417},
           Decide(status, next), pc \notin {"idle", "respond"},
           UNCHANGED <<rows, request, fault>>, BodyRead'
    PROVE  HandlerInv'
<1>1. Len(rows') <= MaxRows /\ fault' \in BOOLEAN
    BY DEF HandlerInv
<1>2. pc' \in {next, "respond"}
    BY DEF Decide, Answer
<1>3. (pc = "idle" <=> request = NoRequest)'
    BY <1>2 DEF HandlerInv
<1>4. response' \in ResponseType /\ ErrorExplained'
    <2>1. CASE status = Proceed
        BY <2>1 DEF Decide, HandlerInv, ErrorExplained
    <2>2. CASE status # Proceed
        <3>1. response' = Refusal(status)
            BY <2>2 DEF Decide, Answer
        <3>2. response'.status = status /\ status # 500
            BY <3>1, ResponseFields DEF Proceed
        <3> QED BY <2>2, <3>1, <3>2, ResponseTypes DEF ErrorExplained, Proceed
    <2> QED BY <2>1, <2>2
<1> QED BY <1>1, <1>3, <1>4 DEF HandlerInv

LEMMA NextHandler == ApiInv /\ HandlerInv /\ [Next]_vars => HandlerInv'
<1> SUFFICES ASSUME ApiInv, HandlerInv, [Next]_vars PROVE HandlerInv'
    OBVIOUS
<1>1. pc # "idle" => request \in Requests
    BY DEF ApiInv, StagesPassed
<1>2. ASSUME NEW r \in Requests, Accept(r)
      PROVE  HandlerInv'
    <2>1. /\ pc = "idle" /\ pc' = "frame" /\ request' = r
          /\ UNCHANGED <<rows, body, response, fault>>
        BY <1>2 DEF Accept
    <2>2. r # NoRequest
        BY RequestsAssumption
    <2>3. BodyRead'
        BY <2>1 DEF HandlerInv, BodyRead
    <2> QED BY <2>1, <2>2, <2>3 DEF HandlerInv, ErrorExplained
<1>3. CASE ResolveBody
    <2>1. /\ pc = "frame" /\ Decide(FramingStatus(request), "adapt")
          /\ UNCHANGED <<rows, request, fault>>
          /\ body' = BytesRead(request)
        BY <1>3 DEF ResolveBody
    <2>2. pc' \in {"adapt", "respond"}
        BY <2>1 DEF Decide, Answer
    <2>3. BodyRead'
        BY <2>1, <2>2 DEF BodyRead
    <2> QED BY <2>1, <2>3, FramingStatuses, StageHandles
<1>4. CASE Adapt
    <2>1. /\ pc = "adapt" /\ Decide(AdapterStatus(request, body), "wire")
          /\ UNCHANGED <<rows, request, fault, body>>
        BY <1>4 DEF Adapt
    <2>2. pc' \in {"wire", "respond"}
        BY <2>1 DEF Decide, Answer
    <2>3. BodyRead'
        BY <2>1, <2>2 DEF HandlerInv, BodyRead
    <2>4. AdapterStatus(request, body)
                \in {Proceed, 400, 401, 404, 405, 413, 415}
        BY <1>1, <2>1, AdapterStatuses
    <2> QED BY <2>1, <2>3, <2>4, StageHandles
<1>5. CASE Authenticate
    <2>1. /\ pc = "wire" /\ Decide(WireStatus(request), "ingest")
          /\ UNCHANGED <<rows, request, fault, body>>
        BY <1>5 DEF Authenticate
    <2>2. pc' \in {"ingest", "respond"}
        BY <2>1 DEF Decide, Answer
    <2>3. BodyRead'
        BY <2>1, <2>2 DEF HandlerInv, BodyRead
    <2>4. WireStatus(request) \in {Proceed, 400, 401}
        BY WireStatuses
    <2> QED BY <2>1, <2>3, <2>4, StageHandles
<1>6. CASE (\E now \in Time : Ingest(now)) \/ InsertFails \/ SerializeRaises
    <2>1. /\ pc = "ingest" /\ pc' = "respond" /\ UNCHANGED <<request, body>>
          /\ fault' \in {fault, TRUE}
          /\ response' \in {Response(204, {}), Refusal(500)}
          /\ \/ response' = Response(204, {})
             \/ fault'
             \/ ~Reportable(request)
        BY <1>6 DEF Ingest, InsertFails, SerializeRaises, Answer
    <2>2. Len(rows') <= MaxRows
        <3>1. rows \in Seq(Committable) /\ MaxRows \in Nat
            BY ApiAssumption DEF ApiInv, RowsCommittable
        <3>2. CASE \E now \in Time : Ingest(now)
            BY <3>1, <3>2 DEF Ingest
        <3>3. CASE InsertFails \/ SerializeRaises
            BY <3>3 DEF InsertFails, SerializeRaises, HandlerInv
        <3> QED BY <1>6, <3>2, <3>3
    <2>3. BodyRead'
        BY <2>1 DEF HandlerInv, BodyRead
    <2>4. response' \in ResponseType
        BY <2>1, ResponseTypes
    <2>5. WireStatus(request) = Proceed
        BY <2>1 DEF ApiInv, StagesPassed
    <2>6. ErrorExplained'
        BY <2>1, <2>5, ResponseFields DEF ErrorExplained
    <2> QED BY <2>1, <2>2, <2>3, <2>4, <2>6 DEF HandlerInv
<1>7. CASE Respond \/ ResponseLost \/ Crash
    <2>1. Finish /\ rows' = rows
        BY <1>7 DEF Respond, ResponseLost, Crash
    <2>2. /\ pc' = "idle" /\ request' = NoRequest /\ body' = 0
          /\ response' = NoResponse /\ fault' = FALSE
        BY <2>1 DEF Finish
    <2>3. response' \in ResponseType
        BY <2>2 DEF NoResponse, Response, ResponseType
    <2>4. BodyRead' /\ ErrorExplained'
        BY <2>2 DEF BodyRead, ErrorExplained
    <2> QED BY <2>1, <2>2, <2>3, <2>4 DEF HandlerInv
<1>8. CASE UNCHANGED vars
    BY <1>8 DEF vars, HandlerInv, BodyRead, ErrorExplained
<1> QED BY <1>2, <1>3, <1>4, <1>5, <1>6, <1>7, <1>8 DEF Next

(* Both invariants hold throughout.                                        *)
LEMMA HandlerAlways == Spec => [](ApiInv /\ HandlerInv)
BY InitApi, NextApi, InitHandler, NextHandler, PTL DEF Spec

(* The body that was read is within the limit.                             *)
LEMMA BodyWithinLimit ==
    ApiInv /\ HandlerInv => body \in 0..MAX_CONTENT_LENGTH
<1> SUFFICES ASSUME ApiInv, HandlerInv PROVE body \in 0..MAX_CONTENT_LENGTH
    OBVIOUS
<1>1. 0 \in 0..MAX_CONTENT_LENGTH
    BY ApiAssumption, ValueNatural DEF MAX_CONTENT_LENGTH, Digits
<1>2. pc # "idle" => request \in Requests
    BY DEF ApiInv, StagesPassed
<1>3. ~IsHeartbeatPost(request) => BytesRead(request) = 0
    BY DEF BytesRead, AwaitsBody
<1> QED BY <1>1, <1>2, <1>3, FramingJudgesValue DEF HandlerInv, BodyRead

(* The table, the handler and the history are of their types: a body never *)
(* exceeds the limit and a request leaves nothing behind in the handler.   *)
THEOREM ApiTypeCorrect == Spec => []TypeOK
<1>1. ApiInv /\ HandlerInv => TypeOK
    <2> SUFFICES ASSUME ApiInv, HandlerInv PROVE TypeOK
        OBVIOUS
    <2>1. ASSUME NEW i \in DOMAIN rows
          PROVE  Len(rows[i].columns) = 20 /\ NodeOf(rows[i]) \in Hosts
        <3>1. rows[i] \in Committable
            BY DEF ApiInv, RowsCommittable
        <3>2. PICK r \in Acceptable, now \in Time :
                rows[i] = Row(RecordOf(r, now), r.tokens[1])
            BY <3>1 DEF Committable
        <3>3. NodeOf(rows[i]) \in Hosts
            BY <3>2, CommittedRow, ApiAssumption
        <3>4. rows[i].columns = Parameters(RecordOf(r, now))
            BY <3>2 DEF Row
        <3>5. Len(rows[i].columns) = 20
            BY <3>4, ColumnsOf
        <3> QED BY <3>3, <3>5
    <2>2. Len(rows) \in Nat /\ DOMAIN rows = 1..Len(rows)
        BY DEF ApiInv, RowsCommittable
    <2>3. receipt \in 0..Len(rows) /\ acked \subseteq Nat
        BY <2>2 DEF ApiInv, ReceiptLast, AnswerMatchesStore
    <2>4. body \in 0..MAX_CONTENT_LENGTH
        BY BodyWithinLimit
    <2> QED BY <2>1, <2>3, <2>4
            DEF ApiInv, StagesPassed, HandlerInv, ResponseType, TypeOK
<1> QED BY <1>1, HandlerAlways, PTL

(* The declared length is judged by its numeric value, whatever its        *)
(* leading zeroes: 413 exactly above the limit, where nothing is read;     *)
(* below it, as many bytes as were declared, or all that were sent.        *)
THEOREM LengthIsItsValue == Spec => []LengthJudgedByValue
<1>1. ApiInv /\ HandlerInv => LengthJudgedByValue
    <2> DEFINE declared == Value(request.content_length[1])
    <2> SUFFICES ASSUME ApiInv, HandlerInv, pc = "respond",
                        IsHeartbeatPost(request),
                        ~request.expect, ~request.transfer_encoding,
                        Len(request.content_length) = 1,
                        request.content_length[1] # <<>>
                 PROVE  /\ response.status = 413 <=>
                                declared > MAX_CONTENT_LENGTH
                        /\ body = IF declared > MAX_CONTENT_LENGTH THEN 0
                                  ELSE Min({declared, request.sent})
        BY DEF LengthJudgedByValue
    <2>1. request \in Requests /\ Answered
        BY DEF ApiInv, StagesPassed
    <2>2. /\ FramingStatus(request) = 413 <=> declared > MAX_CONTENT_LENGTH
          /\ FramingStatus(request) = Proceed =>
                DeclaredLength(request) = declared
          /\ BytesRead(request) =
                IF declared > MAX_CONTENT_LENGTH THEN 0
                ELSE IF request.sent < declared THEN request.sent
                ELSE declared
        BY <2>1, FramingJudgesValue
    <2>3. body = IF declared > MAX_CONTENT_LENGTH THEN 0
                 ELSE Min({declared, request.sent})
        <3>1. declared \in Nat /\ request.sent \in Nat
            BY <2>1, RequestsAssumption, ValueNatural DEF Digits
        <3>2. body = BytesRead(request)
            BY DEF HandlerInv, BodyRead
        <3>3. Min({declared, request.sent}) =
                IF request.sent < declared THEN request.sent ELSE declared
            <4> DEFINE S == {declared, request.sent}
                       m == Min(S)
            <4>1. m \in S /\ \A n \in S : m <= n
                <5>1. S \in SUBSET Nat /\ S # {}
                    BY <3>1
                <5> HIDE DEF S
                <5> QED BY <5>1, LeastNatural
            <4> HIDE DEF m
            <4>2. m = IF request.sent < declared THEN request.sent
                      ELSE declared
                BY <3>1, <4>1
            <4> QED BY <4>2 DEF m
        <3> QED BY <2>2, <3>2, <3>3
    <2>4. body <= MAX_CONTENT_LENGTH
        BY BodyWithinLimit
    <2> HIDE DEF declared
    <2>5. CASE FramingStatus(request) # Proceed
        <3>1. response.status = FramingStatus(request)
            BY <2>1, <2>5, ResponseFields DEF Answered
        <3> QED BY <2>2, <2>3, <3>1
    <2>6. CASE FramingStatus(request) = Proceed
        <3>1. AdapterStatus(request, body) # 413
            BY <2>1, <2>4, AdapterStatuses
        <3>2. WireStatus(request) # 413
            BY WireStatuses DEF Proceed
        <3>3. response.status # 413
            <4>1. \/ response = Refusal(AdapterStatus(request, body))
                  \/ response = Refusal(WireStatus(request))
                  \/ response = Response(204, {})
                  \/ response = Refusal(500)
                BY <2>1, <2>6 DEF Answered
            <4>2. \/ response.status = AdapterStatus(request, body)
                  \/ response.status = WireStatus(request)
                  \/ response.status = 204
                  \/ response.status = 500
                <5>1. Response(204, {}).status = 204
                    BY ResponseFields
                <5>2. /\ Refusal(500).status = 500
                      /\ Refusal(WireStatus(request)).status =
                            WireStatus(request)
                      /\ Refusal(AdapterStatus(request, body)).status =
                            AdapterStatus(request, body)
                    BY DEF Refusal, Response
                <5> QED BY <4>1, <5>1, <5>2
            <4> QED BY <3>1, <3>2, <4>2
        <3>4. FramingStatus(request) # 413
            BY <2>6 DEF Proceed
        <3> QED BY <2>2, <2>3, <3>3, <3>4
    <2> QED BY <2>5, <2>6
<1> QED BY <1>1, HandlerAlways, PTL

(* The run heartbeat_utc shows a client provoking a 500. The timestamp     *)
(* that has no form in UTC is the only way to: of clients that send none,  *)
(* every 500 is a failure of the server's own.                             *)
THEOREM OnlyTimestampsRaise ==
    ASSUME \A r \in Requests : decodes_payload(r.payload) => Reportable(r)
    PROVE  Spec => []InternalErrorIsOurs
<1>1. ApiInv /\ HandlerInv => InternalErrorIsOurs
    <2> SUFFICES ASSUME ApiInv, HandlerInv, pc = "respond",
                        response.status = 500, ~fault
                 PROVE  FALSE
        BY DEF InternalErrorIsOurs
    <2>1. request \in Requests
        BY DEF ApiInv, StagesPassed
    <2>2. WireStatus(request) = Proceed /\ ~Reportable(request)
        BY DEF HandlerInv, ErrorExplained
    <2> QED BY <2>1, <2>2, WireStatuses
<1> QED BY <1>1, HandlerAlways, PTL
=============================================================================
