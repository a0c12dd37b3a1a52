----------------------------- MODULE BootProofs -----------------------------
(***************************************************************************)
(* Proofs about BoyerMoore and Boot.                                          *)
(***************************************************************************)
EXTENDS Boot, FiniteSetTheorems, TLAPS

-----------------------------------------------------------------------------
(* Least and greatest members. Induction over the naturals is used in the form
   of the least counterexample, which needs no predicate as a parameter. *)

\* A set of naturals that is not empty has a least member.
LEMMA LeastNatural ==
  ASSUME NEW S \in SUBSET Nat, S # {}
  PROVE  \E x \in S : \A y \in S : x <= y
<1>1. IsWellFoundedOn(OpToRel(<, Nat), Nat)
  BY NatLessThanWellFounded
<1>2. PICK x \in S : \A y \in S : ~(<<y, x>> \in OpToRel(<, Nat))
  BY <1>1, WFMin
<1>3. \A y \in S : ~(y < x)
  BY <1>2 DEF OpToRel
<1>. QED
  BY <1>3

\* Min is a least member where there is one.
LEMMA MinIs ==
  ASSUME NEW S, NEW m \in S, \A y \in S : m <= y
  PROVE  Min(S) \in S /\ \A y \in S : Min(S) <= y
  BY DEF Min

\* Max is a greatest member where there is one.
LEMMA MaxIs ==
  ASSUME NEW S, NEW m \in S, \A y \in S : m >= y
  PROVE  Max(S) \in S /\ \A y \in S : Max(S) >= y
  BY DEF Max

\* Min of a set of naturals
LEMMA MinOfNaturals ==
  ASSUME NEW S \in SUBSET Nat, S # {}
  PROVE  Min(S) \in S /\ \A y \in S : Min(S) <= y
<1>1. PICK x \in S : \A y \in S : x <= y
  BY LeastNatural
<1>. QED
  BY <1>1, MinIs

\* Max of a bounded set of naturals
LEMMA MaxOfNaturals ==
  ASSUME NEW S \in SUBSET Nat, S # {}, NEW n \in Nat, \A y \in S : y <= n
  PROVE  Max(S) \in S /\ \A y \in S : Max(S) >= y
<1>. DEFINE D == {n - y : y \in S}
<1>1. D \in SUBSET Nat /\ D # {}
  OBVIOUS
<1>2. PICK d \in D : \A e \in D : d <= e
  BY <1>1, LeastNatural
<1>3. PICK x \in S : d = n - x
  OBVIOUS
<1>4. \A y \in S : n - y \in D
  OBVIOUS
<1>5. \A y \in S : x >= y
  BY <1>2, <1>3, <1>4
<1>. QED
  BY <1>5, MaxIs
\* Max of two integers
LEMMA MaxOfTwo ==
  ASSUME NEW x \in Int, NEW y \in Int
  PROVE  Max({x, y}) \in {x, y} /\ Max({x, y}) >= x /\ Max({x, y}) >= y
<1>1. CASE x >= y
  <2>1. \A z \in {x, y} : x >= z
    BY <1>1
  <2>. QED
    BY <2>1, MaxIs
<1>2. CASE y >= x
  <2>1. \A z \in {x, y} : y >= z
    BY <1>2
  <2>. QED
    BY <2>1, MaxIs
<1>. QED
  BY <1>1, <1>2

-----------------------------------------------------------------------------
(* The string search *)

\* What suffix_length returns: the length of the common suffix of pat and of its
\* part that ends at p, but for the first character of pat.
LEMMA SuffixLength ==
  ASSUME NEW Sym, NEW pat \in Seq(Sym), NEW p \in 0..Len(pat) - 1
  PROVE  /\ suffix_length(pat, p) \in 0..p
         /\ \A i \in 0..suffix_length(pat, p) - 1 : pat[p - i + 1] = pat[Len(pat) - i]
         /\ \A k \in 0..p : /\ \A i \in 0..k - 1 : pat[p - i + 1] = pat[Len(pat) - i]
                            /\ pat[p - k + 1] # pat[Len(pat) - k]
                            => suffix_length(pat, p) = k
<1>. DEFINE S == {i \in 0..p : i = p \/ pat[p - i + 1] # pat[Len(pat) - i]}
            l == suffix_length(pat, p)
<1>1. p \in Nat /\ Len(pat) \in Nat
  OBVIOUS
<1>2. S \in SUBSET Nat /\ p \in S
  BY <1>1
<1>3. l = Min(S)
  BY DEF suffix_length
<1>4. l \in S /\ \A y \in S : l <= y
  BY <1>2, <1>3, MinOfNaturals
<1>5. l \in 0..p
  BY <1>4
<1>6. \A i \in 0..l - 1 : i \in 0..p /\ i \notin S
  BY <1>1, <1>4, <1>5
<1>7. \A i \in 0..l - 1 : pat[p - i + 1] = pat[Len(pat) - i]
  BY <1>6
<1>8. ASSUME NEW k \in 0..p, \A i \in 0..k - 1 : pat[p - i + 1] = pat[Len(pat) - i],
             pat[p - k + 1] # pat[Len(pat) - k]
      PROVE  l = k
  <2>1. k \in S
    BY <1>8
  <2>2. l <= k
    BY <1>4, <2>1
  <2>3. ~(l < k)
    <3>. SUFFICES ASSUME l < k PROVE FALSE
      OBVIOUS
    <3>1. l # p /\ l \in 0..k - 1
      BY <1>5, <1>1
    <3>. QED
      BY <3>1, <1>4, <1>8
  <2>. QED
    BY <2>2, <2>3, <1>5, <1>1
<1>. QED
  BY <1>5, <1>7, <1>8

\* delta1 never moves pat past a place where it could occur: e is the end of the
\* occurrence, k the number of characters that match at i.
LEMMA Delta1Safe ==
  ASSUME NEW Sym, NEW pat \in Seq(Sym), NEW k \in 0..Len(pat) - 1, NEW d \in Nat \ {0}, NEW c,
         k + d < Len(pat) => pat[Len(pat) - k - d] = c
  PROVE  make_delta1(pat, c) \in 1..Len(pat) /\ make_delta1(pat, c) <= k + d
<1>. DEFINE at == {i \in 0..Len(pat) - 2 : pat[i + 1] = c}
<1>1. Len(pat) \in Nat /\ k \in Nat
  OBVIOUS
<1>2. CASE at = {}
  <2>1. ~(k + d < Len(pat))
    <3>. SUFFICES ASSUME k + d < Len(pat) PROVE Len(pat) - 1 - k - d \in at
      BY <1>2
    <3>. QED
      BY <1>1
  <2>2. make_delta1(pat, c) = Len(pat)
    BY <1>2 DEF make_delta1
  <2>. QED
    BY <2>1, <2>2, <1>1
<1>3. CASE at # {}
  <2>1. at \in SUBSET Nat /\ \A y \in at : y <= Len(pat)
    BY <1>1
  <2>2. Max(at) \in at /\ \A y \in at : Max(at) >= y
    BY <1>1, <1>3, <2>1, MaxOfNaturals
  <2>3. make_delta1(pat, c) = Len(pat) - 1 - Max(at)
    BY <1>3 DEF make_delta1
  <2>4. Max(at) \in 0..Len(pat) - 2
    BY <2>2
  <2>5. k + d < Len(pat) => Max(at) >= Len(pat) - 1 - k - d
    <3>. SUFFICES ASSUME k + d < Len(pat) PROVE Len(pat) - 1 - k - d \in at
      BY <2>2
    <3>. QED
      BY <1>1
  <2>. QED
    BY <2>3, <2>4, <2>5, <1>1
<1>. QED
  BY <1>2, <1>3

\* PrefixShift is the move to the longest prefix of pat that is a suffix of what matched.
LEMMA PrefixShiftIs ==
  ASSUME NEW Sym, NEW pat \in Seq(Sym), NEW j \in 0..Len(pat) - 1
  PROVE  /\ PrefixShift(pat, j) \in Len(pat)..2 * Len(pat) - 1 - j
         /\ \A d \in j + 1..Len(pat) : is_prefix(pat, d) =>
              PrefixShift(pat, j) <= d + Len(pat) - 1 - j
<1>. DEFINE from == {q \in j + 1..Len(pat) : is_prefix(pat, q)}
<1>1. Len(pat) \in Nat /\ j \in Nat
  OBVIOUS
<1>2. is_prefix(pat, Len(pat))
  BY <1>1 DEF is_prefix
<1>3. from \in SUBSET Nat /\ Len(pat) \in from
  BY <1>1, <1>2
<1>4. Min(from) \in from /\ \A y \in from : Min(from) <= y
  BY <1>3, MinOfNaturals
<1>5. PrefixShift(pat, j) = Min(from) + Len(pat) - 1 - j
  BY DEF PrefixShift
<1>6. Min(from) \in j + 1..Len(pat)
  BY <1>4
<1>7. \A d \in j + 1..Len(pat) : is_prefix(pat, d) => Min(from) <= d
  BY <1>4
<1>. HIDE DEF from
<1>. QED
  BY <1>1, <1>5, <1>6, <1>7

\* delta2 never moves pat past a place where it could occur, and always moves it: k
\* characters match at i, the next one does not, and pat occurs d places later.
LEMMA Delta2Safe ==
  ASSUME NEW Sym, NEW pat \in Seq(Sym), NEW k \in 0..Len(pat) - 1
  PROVE  /\ make_delta2(pat)[Len(pat) - 1 - k] \in k + 1..k + Len(pat)
         /\ \A d \in Nat \ {0} :
              /\ \A q \in 0..Len(pat) - 1 - d : q < k => pat[Len(pat) - d - q] = pat[Len(pat) - q]
              /\ k + d < Len(pat) => pat[Len(pat) - d - k] # pat[Len(pat) - k]
              => make_delta2(pat)[Len(pat) - 1 - k] <= k + d
<1>. DEFINE m == Len(pat)
            j == m - 1 - k
            A == SuffixAt(pat, j)
            delta == make_delta2(pat)[j]
<1>1. m \in Nat /\ k \in Nat /\ j \in 0..m - 1 /\ k < m
  OBVIOUS
<1>2. delta = IF A = {} THEN PrefixShift(pat, j) ELSE SuffixShift(pat, Max(A))
  BY <1>1 DEF make_delta2
<1>3. ASSUME NEW p \in A
      PROVE  /\ p \in 0..m - 2 /\ suffix_length(pat, p) = k /\ k <= p
             /\ SuffixShift(pat, p) = m - 1 - p + k
  <2>1. p \in 0..m - 2 /\ j = m - 1 - suffix_length(pat, p)
    BY DEF SuffixAt
  <2>2. suffix_length(pat, p) \in 0..p
    BY <2>1, <1>1, SuffixLength
  <2>. QED
    BY <2>1, <2>2, <1>1 DEF SuffixShift
<1>4. A # {} => Max(A) \in A /\ \A y \in A : Max(A) >= y
  <2>1. A \in SUBSET Nat /\ \A y \in A : y <= m
    BY <1>1 DEF SuffixAt
  <2>. QED
    BY <2>1, <1>1, MaxOfNaturals
<1>5. /\ PrefixShift(pat, j) \in m..2 * m - 1 - j
      /\ \A d \in j + 1..m : is_prefix(pat, d) => PrefixShift(pat, j) <= d + m - 1 - j
  BY <1>1, PrefixShiftIs
<1>6. delta \in k + 1..k + m
  <2>1. CASE A = {}
    BY <2>1, <1>2, <1>5, <1>1
  <2>2. CASE A # {}
    <3>. DEFINE p == Max(A)
    <3>1. p \in 0..m - 2 /\ k <= p /\ delta = m - 1 - p + k
      BY <2>2, <1>2, <1>3, <1>4
    <3>. HIDE DEF p, delta
    <3>. QED
      BY <3>1, <1>1
  <2>. QED
    BY <2>1, <2>2
<1>7. ASSUME NEW d \in Nat \ {0},
             \A q \in 0..m - 1 - d : q < k => pat[m - d - q] = pat[m - q],
             k + d < m => pat[m - d - k] # pat[m - k]
      PROVE  delta <= k + d
  <2>1. CASE k + d < m
    <3>. DEFINE p == m - 1 - d
    <3>1. p \in 0..m - 2 /\ k \in 0..p /\ p \in 0..m - 1
      BY <2>1, <1>1
    <3>2. \A i \in 0..k - 1 : pat[p - i + 1] = pat[m - i]
      <4>. SUFFICES ASSUME NEW i \in 0..k - 1 PROVE pat[p - i + 1] = pat[m - i]
        OBVIOUS
      <4>1. i \in 0..m - 1 - d /\ i < k /\ p - i + 1 = m - d - i
        BY <2>1, <1>1
      <4>. QED
        BY <4>1, <1>7
    <3>3. pat[p - k + 1] # pat[m - k]
      <4>1. p - k + 1 = m - d - k
        BY <1>1
      <4>. QED
        BY <4>1, <1>7, <2>1
    <3>4. suffix_length(pat, p) = k
      BY <3>1, <3>2, <3>3, SuffixLength
    <3>5. p \in A
      BY <3>1, <3>3, <3>4, <1>1 DEF SuffixAt
    <3>6. Max(A) >= p /\ A # {}
      BY <3>5, <1>4
    <3>. HIDE DEF p, A
    <3>7. delta = m - 1 - Max(A) + k /\ Max(A) \in 0..m - 2
      BY <3>6, <1>2, <1>3, <1>4
    <3>8. p = m - 1 - d
      BY DEF p
    <3>. QED
      BY <3>6, <3>7, <3>8, <1>1
  <2>2. CASE k + d >= m /\ A # {}
    <3>1. delta = m - 1 - Max(A) + k /\ Max(A) \in 0..m - 2 /\ k <= Max(A)
      BY <2>2, <1>2, <1>3, <1>4
    <3>. QED
      BY <3>1, <2>2, <1>1
  <2>3. CASE k + d >= m /\ A = {} /\ d < m
    <3>1. d \in j + 1..m
      BY <2>3, <1>1
    <3>2. \A i \in 0..m - d - 1 : pat[i + 1] = pat[d + i + 1]
      <4>. SUFFICES ASSUME NEW i \in 0..m - d - 1 PROVE pat[i + 1] = pat[d + i + 1]
        OBVIOUS
      <4>. DEFINE q == m - 1 - d - i
      <4>1. q \in 0..m - 1 - d /\ q < k /\ m - d - q = i + 1 /\ m - q = d + i + 1
        BY <2>3, <1>1
      <4>. QED
        BY <4>1, <1>7
    <3>3. is_prefix(pat, d)
      BY <3>2 DEF is_prefix
    <3>. QED
      BY <3>1, <3>3, <1>2, <1>5, <1>1, <2>3
  <2>4. CASE k + d >= m /\ A = {} /\ d >= m
    BY <2>4, <1>2, <1>5, <1>1
  <2>. QED
    BY <2>1, <2>2, <2>3, <2>4, <1>1
<1>. QED
  BY <1>6, <1>7

\* A step of the search goes on and passes no place where pat occurs.
LEMMA SkipSafe ==
  ASSUME NEW Sym, NEW str \in Seq(Sym), NEW pat \in Seq(Sym),
         NEW i \in Len(pat) - 1..Len(str) - 1, Differ(str, pat, i) # {}
  PROVE  LET next == Skip(str, pat, make_delta2(pat), i, Min(Differ(str, pat, i)))
         IN  /\ next \in i + 1..i + Len(pat)
             /\ \A e \in i + 1..Len(str) - 1 : e < next => Differ(str, pat, e) # {}
<1>. DEFINE m == Len(pat)
            k == Min(Differ(str, pat, i))
            c == str[i - k + 1]
            d1 == make_delta1(pat, c)
            d2 == make_delta2(pat)[m - 1 - k]
            next == Skip(str, pat, make_delta2(pat), i, k)
<1>1. m \in Nat /\ Len(str) \in Nat /\ i \in Int
  OBVIOUS
<1>2. k \in Differ(str, pat, i) /\ \A y \in Differ(str, pat, i) : k <= y
  <2>1. Differ(str, pat, i) \in SUBSET Nat
    BY <1>1 DEF Differ
  <2>. QED
    BY <2>1, MinOfNaturals
<1>3. k \in 0..m - 1 /\ c # pat[m - k]
  BY <1>2 DEF Differ
<1>. HIDE DEF k
<1>4. \A q \in 0..k - 1 : str[i - q + 1] = pat[m - q]
  BY <1>1, <1>2, <1>3 DEF Differ
<1>5. m > 0 /\ k \in Nat
  BY <1>1, <1>3
<1>6. d1 \in 1..m
  <2>1. m \in Nat \ {0} /\ ~(k + m < m)
    BY <1>5, <1>1
  <2>. QED
    BY <2>1, <1>3, Delta1Safe
<1>7. d2 \in k + 1..k + m
  BY <1>3, Delta2Safe
<1>8. next = i - k + Max({d1, d2})
  BY DEF Skip
<1>. HIDE DEF d1, d2, next
<1>9. Max({d1, d2}) \in {d1, d2} /\ Max({d1, d2}) >= d1 /\ Max({d1, d2}) >= d2
  <2>1. d1 \in Int /\ d2 \in Int
    BY <1>1, <1>5, <1>6, <1>7
  <2>. QED
    BY <2>1, MaxOfTwo
<1>10. next \in i + 1..i + m
  <2>. DEFINE x == Max({d1, d2})
  <2>1. x \in Int /\ x >= k + 1 /\ x <= k + m
    BY <1>1, <1>3, <1>5, <1>6, <1>7, <1>9
  <2>. HIDE DEF x
  <2>2. next = i - k + x
    BY <1>8 DEF x
  <2>. QED
    BY <1>1, <1>5, <2>1, <2>2
<1>11. ASSUME NEW e \in i + 1..Len(str) - 1, Differ(str, pat, e) = {}
       PROVE  e >= next
  <2>. DEFINE d == e - i
  <2>1. d \in Nat \ {0} /\ e = i + d
    BY <1>1
  <2>. HIDE DEF d
  <2>2. \A q \in 0..m - 1 : str[e - q + 1] = pat[m - q]
    BY <1>11 DEF Differ
  <2>3. k + d < m => pat[m - k - d] = c
    <3>. SUFFICES ASSUME k + d < m PROVE pat[m - k - d] = c
      OBVIOUS
    <3>1. k + d \in 0..m - 1 /\ e - (k + d) + 1 = i - k + 1 /\ m - (k + d) = m - k - d
      BY <2>1, <1>1, <1>5
    <3>. QED
      BY <3>1, <2>2
  <2>4. d1 <= k + d
    BY <2>1, <2>3, <1>3, Delta1Safe DEF d1
  <2>5. \A q \in 0..m - 1 - d : q < k => pat[m - d - q] = pat[m - q]
    <3>. SUFFICES ASSUME NEW q \in 0..m - 1 - d, q < k PROVE pat[m - d - q] = pat[m - q]
      OBVIOUS
    <3>1. /\ q + d \in 0..m - 1 /\ q \in 0..k - 1
          /\ e - (q + d) + 1 = i - q + 1 /\ m - (q + d) = m - d - q
      BY <2>1, <1>1, <1>5
    <3>2. str[i - q + 1] = pat[m - q]
      BY <3>1, <1>4
    <3>3. str[e - (q + d) + 1] = pat[m - (q + d)]
      BY <3>1, <2>2
    <3>. QED
      BY <3>1, <3>2, <3>3
  <2>6. k + d < m => pat[m - d - k] # pat[m - k]
    <3>. SUFFICES ASSUME k + d < m PROVE pat[m - d - k] # pat[m - k]
      OBVIOUS
    <3>1. m - d - k = m - k - d
      BY <2>1, <1>1, <1>5
    <3>. QED
      BY <3>1, <2>3, <1>3
  <2>7. d2 <= k + d
    BY <2>1, <2>5, <2>6, <1>3, Delta2Safe DEF d2
  <2>8. Max({d1, d2}) <= k + d
    BY <2>4, <2>7, <1>9
  <2>9. Max({d1, d2}) \in Int
    BY <1>1, <1>5, <1>6, <1>7, <1>9
  <2>. DEFINE x == Max({d1, d2})
  <2>. HIDE DEF x
  <2>10. next = i - k + x /\ x \in Int /\ x <= k + d
    BY <1>8, <2>8, <2>9 DEF x
  <2>. QED
    BY <2>10, <2>1, <1>1, <1>5
<1>12. \A e \in i + 1..Len(str) - 1 : e < next => Differ(str, pat, e) # {}
  BY <1>10, <1>11, <1>1
<1>. QED
  BY <1>10, <1>12 DEF k, next

\* where pat ends in str, from i on
Ends(str, pat, i) == {e \in i..Len(str) - 1 : Differ(str, pat, e) = {}}
\* what the search must return when its loop variable is i
Found(str, pat, i) == IF Ends(str, pat, i) = {} THEN NULL ELSE Min(Ends(str, pat, i)) - Len(pat) + 1

\* One round of the loop: the function Found satisfies the equation that defines the search.
LEMMA FoundStep ==
  ASSUME NEW Sym, NEW str \in Seq(Sym), NEW pat \in Seq(Sym), pat # <<>>,
         NEW i \in Len(pat) - 1..Len(str) + Len(pat) - 1
  PROVE  /\ i >= Len(str) => Found(str, pat, i) = NULL
         /\ i < Len(str) /\ Differ(str, pat, i) = {} => Found(str, pat, i) = i - Len(pat) + 1
         /\ i < Len(str) /\ Differ(str, pat, i) # {} =>
              LET next == Skip(str, pat, make_delta2(pat), i, Min(Differ(str, pat, i)))
              IN  /\ next \in i + 1..Len(str) + Len(pat) - 1
                  /\ Found(str, pat, i) = Found(str, pat, next)
<1>1. Len(pat) \in Nat \ {0} /\ Len(str) \in Nat /\ i \in Nat
  OBVIOUS
<1>2. ASSUME i >= Len(str) PROVE Found(str, pat, i) = NULL
  <2>1. Ends(str, pat, i) = {}
    BY <1>1, <1>2 DEF Ends
  <2>. QED
    BY <2>1 DEF Found
<1>3. ASSUME i < Len(str), Differ(str, pat, i) = {}
      PROVE  Found(str, pat, i) = i - Len(pat) + 1
  <2>1. i \in Ends(str, pat, i) /\ \A y \in Ends(str, pat, i) : i <= y
    BY <1>1, <1>3 DEF Ends
  <2>2. Min(Ends(str, pat, i)) \in Ends(str, pat, i) /\ Min(Ends(str, pat, i)) <= i
    BY <2>1, MinIs
  <2>3. Min(Ends(str, pat, i)) = i
    BY <1>1, <2>2 DEF Ends
  <2>. QED
    BY <2>1, <2>3 DEF Found
<1>4. ASSUME i < Len(str), Differ(str, pat, i) # {}
      PROVE  LET next == Skip(str, pat, make_delta2(pat), i, Min(Differ(str, pat, i)))
             IN  /\ next \in i + 1..Len(str) + Len(pat) - 1
                 /\ Found(str, pat, i) = Found(str, pat, next)
  <2>. DEFINE next == Skip(str, pat, make_delta2(pat), i, Min(Differ(str, pat, i)))
  <2>1. /\ next \in i + 1..i + Len(pat)
        /\ \A e \in i + 1..Len(str) - 1 : e < next => Differ(str, pat, e) # {}
    <3>1. i \in Len(pat) - 1..Len(str) - 1
      BY <1>1, <1>4
    <3>. QED
      BY <3>1, <1>4, SkipSafe
  <2>. HIDE DEF next
  <2>2. next \in i + 1..Len(str) + Len(pat) - 1
    BY <2>1, <1>1, <1>4
  <2>3. \A e \in i..Len(str) - 1 : Differ(str, pat, e) = {} => e >= next
    BY <2>1, <1>1, <1>4
  <2>4. Ends(str, pat, i) = Ends(str, pat, next)
    BY <2>2, <2>3, <1>1 DEF Ends
  <2>. QED
    BY <2>2, <2>4 DEF Found, next
<1>. QED
  BY <1>2, <1>3, <1>4

\* A function that satisfies the equation of the search is Found: its greatest argument
\* where it is not would lead to a greater one.
LEMMA SearchIsFound ==
  ASSUME NEW Sym, NEW str \in Seq(Sym), NEW pat \in Seq(Sym), pat # <<>>
  PROVE  boyer_moore_search(str, pat) = Found(str, pat, Len(pat) - 1)
<1>. DEFINE D == Len(pat) - 1..Len(str) + Len(pat) - 1
            next(i) == Skip(str, pat, make_delta2(pat), i, Min(Differ(str, pat, i)))
            Body(f) == [i \in D |-> IF i >= Len(str) THEN NULL
                                    ELSE IF Differ(str, pat, i) = {} THEN i - Len(pat) + 1
                                    ELSE f[next(i)]]
            From == CHOOSE f : f = Body(f)
            Ref == [i \in D |-> Found(str, pat, i)]
<1>1. Len(pat) \in Nat \ {0} /\ Len(str) \in Nat /\ D \in SUBSET Nat /\ Len(pat) - 1 \in D
  OBVIOUS
<1>2. boyer_moore_search(str, pat) = From[Len(pat) - 1]
  BY DEF boyer_moore_search
<1>. HIDE DEF next
<1>3. \A i \in D : /\ i >= Len(str) => Found(str, pat, i) = NULL
                   /\ i < Len(str) /\ Differ(str, pat, i) = {} => Found(str, pat, i) = i - Len(pat) + 1
                   /\ i < Len(str) /\ Differ(str, pat, i) # {} =>
                        next(i) \in D /\ next(i) > i /\ Found(str, pat, i) = Found(str, pat, next(i))
  <2>. SUFFICES ASSUME NEW i \in D
       PROVE /\ i >= Len(str) => Found(str, pat, i) = NULL
             /\ i < Len(str) /\ Differ(str, pat, i) = {} => Found(str, pat, i) = i - Len(pat) + 1
             /\ i < Len(str) /\ Differ(str, pat, i) # {} =>
                        next(i) \in D /\ next(i) > i /\ Found(str, pat, i) = Found(str, pat, next(i))
    OBVIOUS
  <2>1. next(i) \in i + 1..Len(str) + Len(pat) - 1 => next(i) \in D /\ next(i) > i
    BY <1>1
  <2>. QED
    BY <2>1, FoundStep DEF next
<1>4. Ref = Body(Ref)
  <2>1. \A i \in D : Ref[i] = Body(Ref)[i]
    BY <1>1, <1>3
  <2>. QED
    BY <2>1
<1>5. From = Body(From)
  BY <1>4
<1>. HIDE DEF From
<1>6. \A i \in D : From[i] = Found(str, pat, i)
  <2>. DEFINE Bad == {i \in D : From[i] # Found(str, pat, i)}
  <2>. SUFFICES ASSUME Bad # {} PROVE FALSE
    OBVIOUS
  <2>1. Bad \in SUBSET Nat /\ \A y \in Bad : y <= Len(str) + Len(pat) - 1
    BY <1>1
  <2>2. Max(Bad) \in Bad /\ \A y \in Bad : Max(Bad) >= y
    <3>1. Len(str) + Len(pat) - 1 \in Nat
      BY <1>1
    <3>. QED
      BY <2>1, <3>1, MaxOfNaturals
  <2>. DEFINE b == Max(Bad)
  <2>3. b \in D /\ From[b] # Found(str, pat, b)
    BY <2>2
  <2>4. \A i \in D : i > b => From[i] = Found(str, pat, i)
    BY <1>1, <2>2, <2>3
  <2>. HIDE DEF b, Bad
  <2>5. From[b] = Body(From)[b]
    BY <1>5
  <2>6. From[b] = IF b >= Len(str) THEN NULL
                  ELSE IF Differ(str, pat, b) = {} THEN b - Len(pat) + 1 ELSE From[next(b)]
    BY <2>3, <2>5
  <2>7. b \in Nat
    BY <1>1, <2>3
  <2>8. b >= Len(str) => From[b] = Found(str, pat, b)
    BY <2>3, <2>6, <1>3
  <2>9. b < Len(str) /\ Differ(str, pat, b) = {} => From[b] = Found(str, pat, b)
    BY <2>3, <2>6, <2>7, <1>1, <1>3
  <2>10. b < Len(str) /\ Differ(str, pat, b) # {} => From[b] = Found(str, pat, b)
    <3>. SUFFICES ASSUME b < Len(str), Differ(str, pat, b) # {}
                  PROVE  From[b] = Found(str, pat, b)
      OBVIOUS
    <3>1. next(b) \in D /\ next(b) > b /\ Found(str, pat, b) = Found(str, pat, next(b))
      BY <2>3, <1>3
    <3>2. From[b] = From[next(b)]
      BY <2>6, <2>7, <1>1
    <3>. QED
      BY <3>1, <3>2, <2>4
  <2>. QED
    BY <2>3, <2>7, <2>8, <2>9, <2>10, <1>1
<1>. QED
  BY <1>1, <1>2, <1>6

\* bm.c: boyer_moore_search returns the first place where the pattern occurs, and NULL if
\* and only if there is none, for all strings and all patterns that are not empty: no shift
\* of the two tables is too long, and the search ends.
THEOREM SearchCorrect ==
  ASSUME NEW Sym, NEW str \in Seq(Sym), NEW pat \in Seq(Sym), pat # <<>>
  PROVE  boyer_moore_search(str, pat) = FirstOccurrence(str, pat)
<1>. DEFINE m == Len(pat)
            at == {i \in 0..Len(str) - m : SubSeq(str, i + 1, i + m) = pat}
            E == Ends(str, pat, m - 1)
<1>1. m \in Nat \ {0} /\ Len(str) \in Nat
  OBVIOUS
<1>2. ASSUME NEW i \in 0..Len(str) - m
      PROVE  (i \in at) <=> (i + m - 1 \in E)
  <2>. DEFINE sub == SubSeq(str, i + 1, i + m)
  <2>1. sub \in Seq(Sym) /\ Len(sub) = m /\ \A q \in 1..m : sub[q] = str[i + q]
    BY <1>1
  <2>2. (sub = pat) <=> \A q \in 1..m : str[i + q] = pat[q]
    BY <2>1, <1>1
  <2>3. (\A q \in 1..m : str[i + q] = pat[q]) <=> Differ(str, pat, i + m - 1) = {}
    <3>1. ASSUME \A q \in 1..m : str[i + q] = pat[q], NEW k \in Differ(str, pat, i + m - 1)
          PROVE  FALSE
      <4>1. k \in 0..m - 1 /\ str[(i + m - 1) - k + 1] # pat[m - k]
        BY DEF Differ
      <4>2. m - k \in 1..m /\ (i + m - 1) - k + 1 = i + (m - k)
        BY <4>1, <1>1
      <4>. QED
        BY <4>1, <4>2, <3>1
    <3>2. ASSUME Differ(str, pat, i + m - 1) = {}, NEW q \in 1..m
          PROVE  str[i + q] = pat[q]
      <4>1. m - q \in 0..m - 1 /\ (i + m - 1) - (m - q) + 1 = i + q /\ m - (m - q) = q
        BY <1>1
      <4>2. m - q \notin Differ(str, pat, i + m - 1)
        BY <3>2
      <4>. QED
        BY <4>1, <4>2 DEF Differ
    <3>. QED
      BY <3>1, <3>2
  <2>4. i + m - 1 \in m - 1..Len(str) - 1
    BY <1>1
  <2>. QED
    BY <2>2, <2>3, <2>4 DEF Ends
<1>3. \A e \in E : e - m + 1 \in 0..Len(str) - m /\ (e - m + 1) + m - 1 = e
  BY <1>1 DEF Ends
<1>4. \A i \in at : i \in Nat /\ i + m - 1 \in E
  BY <1>1, <1>2
<1>5. \A e \in E : e \in Nat /\ e - m + 1 \in at
  <2>. SUFFICES ASSUME NEW e \in E PROVE e \in Nat /\ e - m + 1 \in at
    OBVIOUS
  <2>1. e \in Nat
    BY <1>1 DEF Ends
  <2>. QED
    BY <2>1, <1>2, <1>3
<1>6. CASE at = {}
  <2>1. E = {}
    BY <1>5, <1>6
  <2>. QED
    BY <1>6, <2>1, SearchIsFound DEF FirstOccurrence, Found
<1>7. CASE at # {}
  <2>1. at \in SUBSET Nat /\ E \in SUBSET Nat /\ E # {}
    BY <1>4, <1>5, <1>7
  <2>. DEFINE a == Min(at)
              e == Min(E)
  <2>2. a \in at /\ \A y \in at : a <= y
    BY <2>1, <1>7, MinOfNaturals
  <2>3. e \in E /\ \A y \in E : e <= y
    BY <2>1, MinOfNaturals
  <2>4. a + m - 1 \in E /\ a \in Nat
    BY <2>2, <1>4
  <2>5. e - m + 1 \in at /\ e \in Nat
    BY <2>3, <1>5
  <2>6. e <= a + m - 1 /\ a <= e - m + 1
    BY <2>2, <2>3, <2>4, <2>5
  <2>7. FirstOccurrence(str, pat) = a
    BY <1>7 DEF FirstOccurrence
  <2>8. boyer_moore_search(str, pat) = e - m + 1
    BY <2>1, SearchIsFound DEF Found
  <2>. HIDE DEF a, e
  <2>. QED
    BY <2>4, <2>5, <2>6, <2>7, <2>8, <1>1
<1>. QED
  BY <1>6, <1>7

-----------------------------------------------------------------------------
(* The inductive invariant of Boot *)

Stages == {"phdrs", "mirrors", "register", "link", "config", "general", "55x",
           "kern_entry", "mcp_entry", "done", "dead"}
Phdr == [vaddr : Nat, paddr : Nat, memsz : Nat]

\* where the loops over sections and mirrors are
StageOK ==
  /\ boot \in Boots /\ stage \in Stages
  /\ stage \in {"phdrs", "config", "general", "55x"} => cur = 1
  /\ stage = "mirrors" => cur \in 1..Len(Mirrors)
  /\ stage \in {"register", "link", "kern_entry", "mcp_entry"} => cur \in 1..Len(boot.sections)

\* the headers added so far
Added == CASE stage = "phdrs" -> 0 [] stage = "mirrors" -> cur [] OTHER -> 1 + Len(Mirrors)
Base == Section(1).base
\* the place of wafel_core's header
At == PhdrIndex(boot.elf, Base)
Mirror(m) == Load(Mirrors[m], Base, MirrorSz)

\* headers and notes do not touch and have grown and moved by what was added
TableOK ==
  /\ DOMAIN elf = DOMAIN boot.elf
  /\ NumPhdrs(elf) = NumPhdrs(boot.elf) + Added
  /\ \A i \in 0..NumPhdrs(elf) - 1 : elf[i] \in Phdr
  /\ elf[IOS_SEG_NOTES].vaddr = boot.elf[IOS_SEG_NOTES].vaddr + Added
  /\ elf[IOS_SEG_NOTES].memsz = boot.elf[IOS_SEG_NOTES].memsz
  /\ \A c \in 0..boot.elf[IOS_SEG_NOTES].memsz - 1 :
       elf[elf[IOS_SEG_NOTES].vaddr + c] = boot.elf[boot.elf[IOS_SEG_NOTES].vaddr + c]

\* the segments in front, the ramdisk, wafel_core, the mirrors in some order, and the
\* other segments
HeadersOK ==
  /\ stage = "phdrs" => elf = boot.elf
  /\ stage # "phdrs" =>
       /\ \A i \in IOS_SEG_ELFINFO..At - 2 : elf[i] = boot.elf[i]
       /\ elf[At - 1] = Load(boot.elf[At - 1].vaddr, boot.elf[At - 1].paddr,
                             Base - boot.elf[At - 1].vaddr)
       /\ elf[At] = Load(Base, Base, RamdiskEnd - Base)
       /\ \A i \in At + 1..At + Added - 1 : \E m \in 1..Added - 1 : elf[i] = Mirror(m)
       /\ \A m \in 1..Added - 1 : \E i \in At + 1..At + Added - 1 : elf[i] = Mirror(m)
       /\ \A i \in At..NumPhdrs(boot.elf) - 1 : elf[i + Added] = boot.elf[i]

\* no header hides a later one, but for the address where the ramdisk and wafel_core meet
ClearOK ==
  stage # "phdrs" =>
    \A i, j \in IOS_SEG_ELFINFO..NumPhdrs(elf) - 1 :
      i < j => Clear(elf[i], elf[j]) \/ (i = At - 1 /\ j = At)

\* the sections registered so far, in order
Registered == 1..(IF stage = "register" THEN cur ELSE Len(boot.sections))
ElfsOK ==
  stage \notin {"phdrs", "mirrors"} =>
    /\ elfs \in Seq(Nat)
    /\ \A i \in DOMAIN elfs : elfs[i] \in Registered /\ IsElf(elfs[i])
    /\ \A k \in Registered : IsElf(k) => \E i \in DOMAIN elfs : elfs[i] = k
    /\ \A i, j \in DOMAIN elfs : i < j => elfs[i] < elfs[j]

\* what an import of section k must be bound to
Import(k, name) ==
  IF wafel_get_symbol_addr(k, name) # 0 THEN wafel_get_symbol_addr(k, name) ELSE Provider(name)
\* section k is linked, and its words have been moved by d
Bound(k, d) ==
  \A i \in DOMAIN Section(k).rel :
    LET r == Section(k).rel[i]
    IN  word[k][r.offset] = IF r.type = "RELATIVE" THEN Section(k).word[r.offset] + d
                            ELSE Import(k, r.name)

\* which sections are as loaded, linked, and relocated
Raw(k) ==
  \/ stage \in {"phdrs", "mirrors", "register"}
  \/ stage = "link" /\ k > cur
Linked(k) ==
  \/ stage = "link" /\ k <= cur
  \/ stage \in {"config", "general", "55x"}
  \/ stage = "kern_entry" /\ k > cur
WordsOK ==
  /\ word = [k \in DOMAIN boot.sections |-> word[k]]
  /\ \A k \in DOMAIN boot.sections : DOMAIN word[k] = DOMAIN Section(k).word
  /\ \A k \in DOMAIN boot.sections : Raw(k) => word[k] = Section(k).word
  /\ \A k \in DOMAIN boot.sections \ {1} : IsElf(k) /\ Linked(k) => Bound(k, 0)
RelocatedOK ==
  /\ stage \notin {"kern_entry", "mcp_entry", "done", "dead"} => relocated = {1}
  /\ stage = "kern_entry" => relocated \subseteq 1..cur
  /\ \A k \in relocated \ {1} : /\ k \in DOMAIN boot.sections /\ IsElf(k)
                                /\ Bound(k, Section(k).base)

\* the parameters are looked for once, and the searches follow if they are there
PatchedOK ==
  /\ stage \in {"phdrs", "mirrors", "register", "link", "config"} => ~prsh.initialized
  /\ stage \in {"general", "55x", "kern_entry", "mcp_entry", "done"} =>
       prsh = [header |-> boot.prsh.magic, initialized |-> TRUE]
  /\ patched = [found |-> patched.found, otp |-> patched.otp, mmu |-> patched.mmu,
                sites |-> patched.sites]
  /\ SearchFindsFirst

IInv == /\ StageOK /\ TableOK /\ HeadersOK /\ ClearOK /\ ElfsOK /\ WordsOK /\ RelocatedOK
        /\ PatchedOK

-----------------------------------------------------------------------------
(* Program headers *)

\* What PhdrIndex returns: the first segment above addr, or the end of the table.
LEMMA PhdrIndexIs ==
  ASSUME NEW e, NEW addr \in Nat, NumPhdrs(e) \in Nat, NumPhdrs(e) >= 2,
         \A i \in 2..NumPhdrs(e) - 1 : e[i] \in Phdr
  PROVE  /\ PhdrIndex(e, addr) \in 2..NumPhdrs(e)
         /\ \A i \in 2..PhdrIndex(e, addr) - 1 : e[i].vaddr <= addr
         /\ PhdrIndex(e, addr) < NumPhdrs(e) => addr < e[PhdrIndex(e, addr)].vaddr
         /\ \A i \in 2..NumPhdrs(e) - 1 : addr < e[i].vaddr => PhdrIndex(e, addr) <= i
<1>. DEFINE n == NumPhdrs(e)
            S == {i \in 2..n - 1 : addr < e[i].vaddr} \cup {n}
<1>1. PhdrIndex(e, addr) = Min(S)
  BY DEF PhdrIndex, IOS_SEG_ELFINFO
<1>2. S \in SUBSET Nat /\ S # {}
  OBVIOUS
<1>3. Min(S) \in S /\ \A y \in S : Min(S) <= y
  BY <1>2, MinOfNaturals
<1>4. Min(S) \in 2..n /\ (Min(S) < n => addr < e[Min(S)].vaddr)
  BY <1>3
<1>5. \A i \in 2..Min(S) - 1 : i \in 2..n - 1 /\ i \notin S /\ e[i].vaddr \in Nat
  <2>. DEFINE m == Min(S)
  <2>. HIDE DEF m, S
  <2>. QED
    BY <1>3, <1>4 DEF Phdr, m
<1>6. \A i \in 2..Min(S) - 1 : e[i].vaddr <= addr
  BY <1>5
<1>7. \A i \in 2..n - 1 : addr < e[i].vaddr => Min(S) <= i
  BY <1>3
<1>. HIDE DEF S
<1>. QED
  BY <1>1, <1>4, <1>6, <1>7

\* f is table e with a new header at x: those behind it and the notes have moved up, and
\* nothing is overwritten
Inserted(e, f, x, phdr) ==
  /\ DOMAIN f = DOMAIN e
  /\ NumPhdrs(f) = NumPhdrs(e) + 1
  /\ \A i \in 0..NumPhdrs(e) : f[i] \in Phdr
  /\ f[1].vaddr = e[1].vaddr + 1 /\ f[1].memsz = e[1].memsz
  /\ \A c \in 0..e[1].memsz - 1 : f[f[1].vaddr + c] = e[e[1].vaddr + c]
  /\ \A i \in 2..x - 1 : f[i] = e[i]
  /\ f[x] = phdr
  /\ \A i \in x + 1..NumPhdrs(e) : f[i] = e[i - 1]
  /\ f = [i \in DOMAIN e |-> f[i]]

\* What ios_elf_add_phdr does to headers and notes.
LEMMA AddPhdr ==
  ASSUME NEW e, NEW addr \in Nat, NEW phdr \in Phdr, NumPhdrs(e) \in Nat, NumPhdrs(e) >= 2,
         \A i \in 0..NumPhdrs(e) - 1 : e[i] \in Phdr,
         NumPhdrs(e) <= e[1].vaddr, 0..e[1].vaddr + e[1].memsz \subseteq DOMAIN e
  PROVE  Inserted(e, ios_elf_add_phdr(e, addr, phdr), PhdrIndex(e, addr), phdr)
<1>. DEFINE n == NumPhdrs(e)
            x == PhdrIndex(e, addr)
            v == e[1].vaddr
            sz == e[1].memsz
            f == ios_elf_add_phdr(e, addr, phdr)
            e0 == Move(e, v + 1, v, sz)
            e1 == [e0 EXCEPT ![1].vaddr = @ + 1]
            e2 == Move(e1, x + 1, x, n - x)
            D == DOMAIN e
<1>1. f = [e2 EXCEPT ![0].memsz = @ + 1, ![x] = phdr]
  BY DEF ios_elf_add_phdr, IOS_SEG_NOTES, IOS_SEG_PHDRS
<1>2. x \in 2..n
  BY PhdrIndexIs
<1>3. e[0] \in Phdr /\ e[1] \in Phdr /\ v \in Nat /\ sz \in Nat /\ n <= v /\ n = e[0].memsz
  BY DEF Phdr, NumPhdrs, IOS_SEG_PHDRS
<1>4. 0..v + sz \subseteq D
  OBVIOUS
<1>. HIDE DEF n, x, v, sz, f, D
<1>5. n \in Nat /\ n >= 2 /\ x \in Nat
  BY <1>2 DEF n
<1>6. e0 = [k \in D |-> IF k \in v + 1..v + 1 + sz - 1 THEN e[k - (v + 1) + v] ELSE e[k]]
  BY DEF Move, D
<1>7. DOMAIN e0 = D /\ \A k \in D : e0[k] = IF k \in v + 1..v + sz THEN e[k - 1] ELSE e[k]
  <2>1. \A k \in v + 1..v + sz : k - (v + 1) + v = k - 1
    BY <1>3
  <2>2. v + 1 + sz - 1 = v + sz
    BY <1>3
  <2>. QED
    BY <1>6, <2>1, <2>2
<1>. HIDE DEF e0
<1>8. 0 \in D /\ 1 \in D /\ x \in D
  BY <1>2, <1>3, <1>4, <1>5
<1>9. e0[0] = e[0] /\ e0[1] = e[1]
  BY <1>3, <1>5, <1>7, <1>8
<1>10. DOMAIN e1 = D /\ e1[1] = [e[1] EXCEPT !.vaddr = v + 1] /\ \A k \in D \ {1} : e1[k] = e0[k]
  BY <1>7, <1>8, <1>9 DEF v
<1>. HIDE DEF e1
<1>11. e2 = [k \in D |-> IF k \in x + 1..x + 1 + (n - x) - 1 THEN e1[k - (x + 1) + x] ELSE e1[k]]
  BY <1>10 DEF Move
<1>12. DOMAIN e2 = D /\ \A k \in D : e2[k] = IF k \in x + 1..n THEN e1[k - 1] ELSE e1[k]
  <2>1. \A k \in x + 1..n : k - (x + 1) + x = k - 1
    BY <1>5
  <2>2. x + 1 + (n - x) - 1 = n
    BY <1>5
  <2>. QED
    BY <1>11, <2>1, <2>2
<1>. HIDE DEF e2
<1>13. e2[0] = e[0] /\ e2[1] = [e[1] EXCEPT !.vaddr = v + 1]
  BY <1>2, <1>5, <1>8, <1>9, <1>10, <1>12
<1>14. /\ DOMAIN f = D /\ f[0] = [e[0] EXCEPT !.memsz = n + 1] /\ f[x] = phdr
       /\ \A k \in D \ {0, x} : f[k] = e2[k]
  <2>1. x # 0
    BY <1>2
  <2>. QED
    BY <1>1, <1>3, <1>8, <1>12, <1>13, <2>1
<1>15. f[1] = [e[1] EXCEPT !.vaddr = v + 1]
  BY <1>2, <1>8, <1>13, <1>14
<1>16. f[0] \in Phdr /\ f[1] \in Phdr /\ f[0].memsz = n + 1 /\ f[1].vaddr = v + 1 /\ f[1].memsz = sz
  BY <1>3, <1>5, <1>14, <1>15 DEF Phdr, sz
<1>17. \A i \in 2..x - 1 : f[i] = e[i]
  <2>. SUFFICES ASSUME NEW i \in 2..x - 1 PROVE f[i] = e[i]
    OBVIOUS
  <2>1. i \in D /\ i \notin {0, 1, x} /\ i \notin x + 1..n /\ i \notin v + 1..v + sz
    BY <1>2, <1>3, <1>4, <1>5
  <2>. QED
    BY <2>1, <1>7, <1>10, <1>12, <1>14
<1>18. \A i \in x + 1..n : f[i] = e[i - 1]
  <2>. SUFFICES ASSUME NEW i \in x + 1..n PROVE f[i] = e[i - 1]
    OBVIOUS
  <2>1. i \in D /\ i \notin {0, 1, x} /\ i - 1 \in D /\ i - 1 # 1 /\ i - 1 \notin v + 1..v + sz
    BY <1>2, <1>3, <1>4, <1>5
  <2>. QED
    BY <2>1, <1>7, <1>10, <1>12, <1>14
<1>19. \A c \in 0..sz - 1 : f[v + 1 + c] = e[v + c]
  <2>. SUFFICES ASSUME NEW c \in 0..sz - 1 PROVE f[v + 1 + c] = e[v + c]
    OBVIOUS
  <2>. DEFINE k == v + 1 + c
  <2>1. k \in D /\ k \notin {0, 1, x} /\ k \notin x + 1..n /\ k \in v + 1..v + sz /\ k - 1 = v + c
    BY <1>2, <1>3, <1>4, <1>5
  <2>. HIDE DEF k
  <2>2. f[k] = e[k - 1]
    BY <2>1, <1>7, <1>10, <1>12, <1>14
  <2>. QED
    BY <2>1, <2>2 DEF k
<1>20. \A i \in 0..n : f[i] \in Phdr
  <2>. SUFFICES ASSUME NEW i \in 0..n PROVE f[i] \in Phdr
    OBVIOUS
  <2>1. CASE i \in {0, 1}
    BY <2>1, <1>16
  <2>2. CASE i \in 2..x - 1
    BY <2>2, <1>2, <1>5, <1>17 DEF n
  <2>3. CASE i = x
    BY <2>3, <1>14
  <2>4. CASE i \in x + 1..n
    <3>1. i - 1 \in 0..n - 1
      BY <2>4, <1>5
    <3>. QED
      BY <3>1, <2>4, <1>18 DEF n
  <2>. QED
    BY <2>1, <2>2, <2>3, <2>4, <1>2, <1>5
<1>21. f = [i \in D |-> f[i]]
  BY <1>1, <1>12, <1>14
<1>. QED
  BY <1>14, <1>16, <1>17, <1>18, <1>19, <1>20, <1>21
     DEF Inserted, NumPhdrs, IOS_SEG_PHDRS, f, n, x, v, sz, D

\* The ramdisk and wafel_core after init_phdrs
Ramdisk == boot.elf[At - 1]
Cut == Load(Ramdisk.vaddr, Ramdisk.paddr, Base - Ramdisk.vaddr)
Core == Load(Base, Base, RamdiskEnd - Base)

\* The assumptions, for this boot.
ImageOK ==
  /\ Base \in Nat /\ RamdiskEnd \in Nat /\ Base <= RamdiskEnd
  /\ Len(Mirrors) \in Nat \ {0} /\ \A m \in 1..Len(Mirrors) : Mirror(m) \in Phdr
  /\ NumPhdrs(boot.elf) \in Nat /\ At \in 3..NumPhdrs(boot.elf)
  /\ \A i \in 0..NumPhdrs(boot.elf) - 1 : boot.elf[i] \in Phdr
  /\ NumPhdrs(boot.elf) <= boot.elf[1].vaddr
  /\ 0..boot.elf[1].vaddr + boot.elf[1].memsz + Len(Mirrors) \subseteq DOMAIN boot.elf
  /\ \A i \in 2..At - 1 : boot.elf[i].vaddr <= Base
  /\ At < NumPhdrs(boot.elf) => Base < boot.elf[At].vaddr
  /\ Ramdisk.vaddr = Ramdisk.paddr /\ Ramdisk.vaddr + Ramdisk.memsz = RamdiskEnd
  /\ Cut \in Phdr /\ Core \in Phdr
  /\ \A i, j \in 2..NumPhdrs(boot.elf) - 1 : i < j => Clear(boot.elf[i], boot.elf[j])
  /\ \A i \in 2..At - 1, m \in 1..Len(Mirrors) : Clear(boot.elf[i], Mirror(m))
  /\ \A i \in At..NumPhdrs(boot.elf) - 1, m \in 1..Len(Mirrors) : Clear(Mirror(m), boot.elf[i])
  /\ \A m, q \in 1..Len(Mirrors) : m # q => Clear(Mirror(m), Mirror(q))

\* The assumptions on the image, for this boot.
LEMMA ImageFacts ==
  ASSUME boot \in Boots
  PROVE  ImageOK
<1>. DEFINE e == boot.elf
            n == NumPhdrs(e)
<1>1. /\ n \in Nat
      /\ \A i \in 0..n - 1 : e[i] \in Phdr
      /\ n <= e[1].vaddr
      /\ 0..e[1].vaddr + e[1].memsz + Len(Mirrors) \subseteq DOMAIN e
      /\ Base \in 0..RamdiskEnd
      /\ At - 1 \in 2..n - 1
      /\ Ramdisk.vaddr = Ramdisk.paddr /\ Ramdisk.vaddr + Ramdisk.memsz = RamdiskEnd
      /\ \A i, j \in 2..n - 1 : i < j => Clear(e[i], e[j])
      /\ \A i \in 2..n - 1, m \in DOMAIN Mirrors :
           IF i < At THEN Clear(e[i], Mirror(m)) ELSE Clear(Mirror(m), e[i])
      /\ \A m, q \in DOMAIN Mirrors : m # q => Clear(Mirror(m), Mirror(q))
  BY ImageAssumption DEF Base, At, Section, Mirror, Ramdisk, Phdr, IOS_SEG_ELFINFO, IOS_SEG_NOTES
<1>2. DOMAIN Mirrors = 1..Len(Mirrors) /\ Len(Mirrors) \in Nat \ {0} /\ RamdiskEnd \in Nat
  BY MirrorsAssumption
<1>3. \A m \in 1..Len(Mirrors) : Mirror(m) \in Phdr
  BY <1>1, <1>2, MirrorsAssumption DEF Mirror, Load, Phdr
<1>4. n >= 3 /\ Base \in Nat /\ Base <= RamdiskEnd
  <2>1. \A a \in 2..n - 1 : n >= 3
    BY <1>1
  <2>. QED
    BY <1>1, <1>2, <2>1
<1>5. /\ At \in 2..n /\ \A i \in 2..At - 1 : e[i].vaddr <= Base
      /\ At < n => Base < e[At].vaddr
  BY <1>1, <1>4, PhdrIndexIs DEF At
<1>6. At \in 3..n
  BY <1>1, <1>4, <1>5
<1>7. Ramdisk \in Phdr /\ Ramdisk.vaddr <= Base
  BY <1>1, <1>4, <1>5, <1>6 DEF Ramdisk
<1>8. Cut \in Phdr /\ Core \in Phdr
  BY <1>2, <1>4, <1>7 DEF Cut, Core, Load, Phdr
<1>9. /\ \A i \in 2..At - 1, m \in 1..Len(Mirrors) : Clear(e[i], Mirror(m))
      /\ \A i \in At..n - 1, m \in 1..Len(Mirrors) : Clear(Mirror(m), e[i])
  <2>0. n \in Nat /\ At \in Nat /\ At >= 3 /\ At <= n
    BY <1>1, <1>6
  <2>1. \A i \in 2..At - 1 : i \in 2..n - 1 /\ i < At
    BY <2>0
  <2>2. \A i \in At..n - 1 : i \in 2..n - 1 /\ ~(i < At)
    BY <2>0
  <2>. QED
    BY <1>1, <1>2, <2>1, <2>2
<1>. QED
  BY <1>1, <1>2, <1>3, <1>4, <1>5, <1>6, <1>8, <1>9 DEF ImageOK

\* What is clear of the ramdisk is clear of its two parts.
LEMMA ClearParts ==
  ASSUME ImageOK, NEW s \in Phdr
  PROVE  /\ Clear(s, Ramdisk) => Clear(s, Cut) /\ Clear(s, Core)
         /\ Clear(Ramdisk, s) => Clear(Cut, s) /\ Clear(Core, s)
<1>1. At - 1 \in 0..NumPhdrs(boot.elf) - 1 /\ At - 1 \in 2..At - 1
  BY DEF ImageOK
<1>2. Ramdisk \in Phdr /\ Ramdisk.vaddr <= Base
  BY <1>1 DEF ImageOK, Ramdisk
<1>3. /\ Base \in Nat /\ RamdiskEnd \in Nat /\ Base <= RamdiskEnd
      /\ Ramdisk.vaddr + Ramdisk.memsz = RamdiskEnd
  BY DEF ImageOK
<1>4. Cut.vaddr = Ramdisk.vaddr /\ Cut.memsz = Base - Ramdisk.vaddr
  BY DEF Cut, Load
<1>5. Core.vaddr = Base /\ Core.memsz = RamdiskEnd - Base
  BY DEF Core, Load
<1>6. /\ s.vaddr \in Nat /\ s.memsz \in Nat /\ Ramdisk.vaddr \in Nat /\ Ramdisk.memsz \in Nat
  BY <1>2 DEF Phdr
<1>. QED
  BY <1>2, <1>3, <1>4, <1>5, <1>6 DEF Clear

\* init_phdrs: the ramdisk is cut in two.
LEMMA InitPhdrs ==
  ASSUME StageOK, TableOK, HeadersOK, init_phdrs
  PROVE  TableOK' /\ HeadersOK' /\ ClearOK'
<1>. DEFINE e == boot.elf
            n == NumPhdrs(e)
            v == e[1].vaddr
            sz == RamdiskEnd - Base
            g == ios_elf_add_phdr(e, Base, Core)
<1>1. ImageOK
  BY ImageFacts DEF StageOK
<1>2. elf = e /\ boot' = boot /\ stage' = "mirrors" /\ cur' = 1 /\ cur = 1
  BY DEF init_phdrs, HeadersOK, StageOK
<1>3. elf' = [g EXCEPT ![At - 1].memsz = @ - sz]
  BY <1>2 DEF init_phdrs, Base, Core, At
<1>4. /\ n \in Nat /\ At \in 3..n /\ v \in Nat /\ e[1].memsz \in Nat /\ n <= v /\ At \in Nat
      /\ \A i \in 0..n - 1 : e[i] \in Phdr
      /\ Len(Mirrors) \in Nat
  <2>1. 1 \in 0..n - 1 /\ At \in Nat
    BY <1>1 DEF ImageOK
  <2>. QED
    BY <1>1, <2>1 DEF ImageOK, Phdr
<1>5. /\ DOMAIN g = DOMAIN e /\ NumPhdrs(g) = n + 1
      /\ \A i \in 0..n : g[i] \in Phdr
      /\ g[1].vaddr = v + 1 /\ g[1].memsz = e[1].memsz
      /\ \A c \in 0..e[1].memsz - 1 : g[g[1].vaddr + c] = e[v + c]
      /\ \A i \in 2..At - 1 : g[i] = e[i]
      /\ g[At] = Core
      /\ \A i \in At + 1..n : g[i] = e[i - 1]
      /\ g = [i \in DOMAIN e |-> g[i]]
  <2>1. 0..v + e[1].memsz \subseteq DOMAIN e
    <3>1. 0..v + e[1].memsz \subseteq 0..v + e[1].memsz + Len(Mirrors)
      BY <1>1, <1>4 DEF ImageOK
    <3>. QED
      BY <3>1, <1>1 DEF ImageOK
  <2>2. Base \in Nat /\ Core \in Phdr /\ n >= 2
    BY <1>1, <1>4 DEF ImageOK
  <2>3. At = PhdrIndex(e, Base)
    BY DEF At
  <2>. QED
    <3>1. Inserted(e, g, At, Core)
      BY <1>4, <2>1, <2>2, <2>3, AddPhdr
    <3>. QED
      BY <3>1 DEF Inserted
<1>. HIDE DEF g
<1>6. At - 1 \in DOMAIN e /\ At - 1 \in 2..n - 1
  <2>. HIDE DEF v, n
  <2>1. At - 1 \in 0..v + e[1].memsz + Len(Mirrors) /\ At - 1 \in 2..n - 1
    BY <1>4
  <2>. USE DEF v, n
  <2>. QED
    BY <1>1, <2>1 DEF ImageOK
<1>7. g[At - 1] = Ramdisk /\ Ramdisk \in Phdr
  <2>1. At - 1 \in 2..At - 1 /\ At - 1 \in 0..n - 1
    BY <1>4
  <2>. QED
    BY <1>4, <1>5, <2>1 DEF Ramdisk
<1>8. elf'[At - 1] = Cut
  <2>1. elf'[At - 1] = [Ramdisk EXCEPT !.memsz = @ - sz]
    BY <1>3, <1>5, <1>6, <1>7
  <2>2. Ramdisk.memsz - sz = Base - Ramdisk.vaddr
    <3>1. /\ Ramdisk.vaddr + Ramdisk.memsz = RamdiskEnd /\ Base \in Nat /\ RamdiskEnd \in Nat
          /\ Ramdisk.vaddr \in Nat /\ Ramdisk.memsz \in Nat
      BY <1>1, <1>7 DEF ImageOK, Phdr
    <3>. QED
      BY <3>1
  <2>. QED
    BY <1>7, <2>1, <2>2 DEF Cut, Load, Phdr
<1>9. DOMAIN elf' = DOMAIN e /\ \A i \in DOMAIN e \ {At - 1} : elf'[i] = g[i]
  BY <1>3, <1>5, <1>6
<1>10. \A i \in 0..v + e[1].memsz : i # At - 1 => elf'[i] = g[i]
  <2>1. 0..v + e[1].memsz \subseteq DOMAIN e
    <3>1. 0..v + e[1].memsz \subseteq 0..v + e[1].memsz + Len(Mirrors)
      BY <1>1, <1>4 DEF ImageOK
    <3>. QED
      BY <3>1, <1>1 DEF ImageOK
  <2>. QED
    BY <2>1, <1>9
<1>11. \A i \in 0..n : i # At - 1 => elf'[i] = g[i]
  BY <1>4, <1>10
<1>12. elf'[0] = g[0] /\ elf'[1] = g[1] /\ NumPhdrs(elf') = n + 1
  <2>1. 0 \in 0..n /\ 1 \in 0..n /\ At - 1 # 0 /\ At - 1 # 1
    BY <1>4
  <2>. QED
    BY <1>5, <1>11, <2>1 DEF NumPhdrs, IOS_SEG_PHDRS
<1>13. Added' = 1 /\ At' = At /\ Base' = Base /\ Cut' = Cut /\ Core' = Core
  BY <1>2 DEF Added, At, Base, Section, Cut, Core, Ramdisk
<1>14. \A i \in 0..n : elf'[i] \in Phdr
  BY <1>1, <1>5, <1>8, <1>11 DEF ImageOK
<1>15. TableOK'
  <2>1. \A c \in 0..e[1].memsz - 1 : elf'[elf'[1].vaddr + c] = e[v + c]
    <3>. SUFFICES ASSUME NEW c \in 0..e[1].memsz - 1 PROVE elf'[elf'[1].vaddr + c] = e[v + c]
      OBVIOUS
    <3>. DEFINE z == e[1].memsz
    <3>. HIDE DEF z, v, n
    <3>0. c \in 0..z - 1 /\ z \in Nat
      BY <1>4 DEF z
    <3>1. v + 1 + c \in 0..v + z /\ v + 1 + c # At - 1
      BY <3>0, <1>4
    <3>. USE DEF z, v, n
    <3>. QED
      BY <3>1, <1>5, <1>10, <1>12
  <2>2. 0..NumPhdrs(elf') - 1 = 0..n
    BY <1>4, <1>12
  <2>. QED
    BY <1>2, <1>5, <1>9, <1>12, <1>13, <1>14, <2>1, <2>2 DEF TableOK, IOS_SEG_NOTES
<1>16. \A i \in 2..At - 2 : elf'[i] = e[i]
  <2>1. \A i \in 2..At - 2 : i \in 0..n /\ i # At - 1 /\ i \in 2..At - 1
    BY <1>4
  <2>. QED
    BY <1>5, <1>11, <2>1
<1>17. elf'[At] = Core /\ \A i \in At + 1..n : elf'[i] = e[i - 1]
  <2>1. At \in 0..n /\ At # At - 1 /\ \A i \in At + 1..n : i \in 0..n /\ i # At - 1
    BY <1>4
  <2>. QED
    BY <1>5, <1>11, <2>1
<1>18. HeadersOK'
  <2>1. At + 1..At + 1 - 1 = {} /\ 1..1 - 1 = {}
    BY <1>4
  <2>2. \A i \in At..n - 1 : elf'[i + 1] = e[i]
    BY <1>4, <1>17
  <2>. QED
    BY <1>2, <1>8, <1>13, <1>16, <1>17, <2>1, <2>2 DEF HeadersOK, IOS_SEG_ELFINFO, Cut, Core, Ramdisk
<1>19. ASSUME NEW i \in 2..n, NEW j \in 2..n, i < j
       PROVE  Clear(elf'[i], elf'[j]) \/ (i = At - 1 /\ j = At)
  <2>1. \A a, b \in 2..n - 1 : a < b => Clear(e[a], e[b])
    BY <1>1 DEF ImageOK
  <2>2. CASE j < At - 1
    BY <2>1, <2>2, <1>4, <1>16, <1>19, SMTT(60)
  <2>3. CASE i < At - 1 /\ j \in {At - 1, At}
    <3>1. Clear(e[i], Ramdisk) /\ e[i] \in Phdr /\ elf'[i] = e[i]
      BY <2>1, <2>3, <1>4, <1>6, <1>16, SMTT(60) DEF Ramdisk
    <3>. QED
      BY <3>1, <2>3, <1>1, <1>8, <1>17, ClearParts
  <2>4. CASE i < At - 1 /\ j > At
    <3>1. i \in 2..n - 1 /\ j - 1 \in 2..n - 1 /\ i < j - 1 /\ elf'[i] = e[i] /\ elf'[j] = e[j - 1]
      BY <2>4, <1>4, <1>16, <1>17
    <3>. QED
      BY <3>1, <2>1
  <2>5. CASE i \in {At - 1, At} /\ j > At
    <3>1. j - 1 \in 2..n - 1 /\ At - 1 < j - 1 /\ elf'[j] = e[j - 1]
      BY <2>5, <1>4, <1>17
    <3>2. Clear(Ramdisk, e[j - 1]) /\ e[j - 1] \in Phdr
      BY <3>1, <2>1, <1>4, <1>6 DEF Ramdisk
    <3>. QED
      BY <3>1, <3>2, <2>5, <1>1, <1>8, <1>17, ClearParts
  <2>6. CASE i > At
    <3>1. i - 1 \in 2..n - 1 /\ j - 1 \in 2..n - 1 /\ i - 1 < j - 1 /\ elf'[i] = e[i - 1] /\ elf'[j] = e[j - 1]
      BY <2>6, <1>4, <1>17, <1>19
    <3>. QED
      BY <3>1, <2>1
  <2>. QED
    BY <2>2, <2>3, <2>4, <2>5, <2>6, <1>4, <1>19
<1>20. ClearOK'
  <2>1. 2..NumPhdrs(elf') - 1 = 2..n
    BY <1>4, <1>12
  <2>. QED
    BY <1>13, <1>19, <2>1 DEF ClearOK, IOS_SEG_ELFINFO
<1>. QED
  BY <1>15, <1>18, <1>20

\* The insertion of mirror q = Added: it goes somewhere behind wafel_core's header and not
\* behind the segments that were above it.
LEMMA MirrorIndex ==
  ASSUME ImageOK, TableOK, HeadersOK, stage # "phdrs", Added \in Nat \ {0}
  PROVE  PhdrIndex(elf, Base) \in At + 1..At + Added
<1>. DEFINE n == NumPhdrs(boot.elf)
            x == PhdrIndex(elf, Base)
<1>1. n \in Nat /\ At \in Nat /\ At >= 3 /\ At <= n /\ Base \in Nat /\ NumPhdrs(elf) = n + Added
  BY DEF ImageOK, TableOK
<1>. HIDE DEF n
<1>2. NumPhdrs(elf) \in Nat /\ NumPhdrs(elf) >= 2 /\ \A i \in 2..NumPhdrs(elf) - 1 : elf[i] \in Phdr
  BY <1>1 DEF TableOK
<1>3. /\ x \in 2..NumPhdrs(elf)
      /\ x < NumPhdrs(elf) => Base < elf[x].vaddr
      /\ \A i \in 2..NumPhdrs(elf) - 1 : Base < elf[i].vaddr => x <= i
  BY <1>1, <1>2, PhdrIndexIs
<1>. HIDE DEF x
<1>4. \A i \in 2..At : ~(Base < elf[i].vaddr)
  <2>. SUFFICES ASSUME NEW i \in 2..At PROVE ~(Base < elf[i].vaddr)
    OBVIOUS
  <2>0. \A j \in 2..At - 1 : boot.elf[j].vaddr <= Base /\ boot.elf[j].vaddr \in Nat
    <3>1. \A j \in 2..At - 1 : j \in 0..n - 1
      BY <1>1
    <3>. QED
      BY <3>1 DEF ImageOK, Phdr, n
  <2>1. CASE i \in 2..At - 2
    <3>1. i \in 2..At - 1 /\ elf[i] = boot.elf[i]
      BY <2>1, <1>1 DEF HeadersOK, IOS_SEG_ELFINFO
    <3>. QED
      BY <3>1, <2>0, <1>1
  <2>2. CASE i = At - 1
    <3>1. At - 1 \in 2..At - 1 /\ elf[i].vaddr = boot.elf[At - 1].vaddr
      BY <2>2, <1>1 DEF HeadersOK, Load
    <3>. QED
      BY <3>1, <2>0, <1>1
  <2>3. CASE i = At
    <3>1. elf[i].vaddr = Base
      BY <2>3 DEF HeadersOK, Load
    <3>. QED
      BY <3>1, <1>1
  <2>. QED
    BY <2>1, <2>2, <2>3, <1>1
<1>5. x > At
  <2>1. CASE x = NumPhdrs(elf)
    BY <2>1, <1>1
  <2>2. CASE x < NumPhdrs(elf)
    BY <2>2, <1>1, <1>3, <1>4
  <2>. QED
    BY <2>1, <2>2, <1>1, <1>3
<1>6. x <= At + Added
  <2>1. CASE At = n
    BY <2>1, <1>1, <1>3
  <2>2. CASE At < n
    <3>1. At \in At..n - 1 /\ At + Added \in 2..NumPhdrs(elf) - 1
      BY <2>2, <1>1
    <3>2. elf[At + Added] = boot.elf[At]
      BY <3>1 DEF HeadersOK, n
    <3>3. Base < boot.elf[At].vaddr
      BY <2>2 DEF ImageOK, n
    <3>. QED
      BY <3>1, <3>2, <3>3, <1>3
  <2>. QED
    BY <2>1, <2>2, <1>1
<1>. QED
  BY <1>1, <1>3, <1>5, <1>6 DEF x

\* add_mirror: another mirror among the others.
LEMMA AddMirror ==
  ASSUME StageOK, TableOK, HeadersOK, ClearOK, add_mirror
  PROVE  TableOK' /\ HeadersOK' /\ ClearOK'
<1>. DEFINE e == boot.elf
            n0 == NumPhdrs(e)
            n == NumPhdrs(elf)
            x == PhdrIndex(elf, Base)
            v == elf[1].vaddr
            z == elf[1].memsz
<1>1. ImageOK
  BY ImageFacts DEF StageOK
<1>2. /\ boot' = boot /\ stage = "mirrors" /\ stage' \in {"mirrors", "register"}
      /\ cur \in 1..Len(Mirrors) /\ Added = cur
      /\ elf' = ios_elf_add_phdr(elf, Base, Mirror(cur))
  BY DEF add_mirror, StageOK, Added, Base, Mirror
<1>3. Len(Mirrors) \in Nat /\ cur \in Nat \ {0} /\ cur <= Len(Mirrors)
  BY <1>1, <1>2 DEF ImageOK
<1>4. Added' = cur + 1
  <2>1. CASE cur < Len(Mirrors)
    <3>1. stage' = stage /\ cur' = cur + 1
      BY <2>1 DEF add_mirror
    <3>. QED
      BY <3>1, <1>2 DEF Added
  <2>2. CASE ~(cur < Len(Mirrors))
    <3>1. stage' = "register" /\ cur = Len(Mirrors)
      BY <2>2, <1>3 DEF add_mirror
    <3>. QED
      BY <3>1, <1>3 DEF Added
  <2>. QED
    BY <2>1, <2>2
<1>5. /\ n0 \in Nat /\ At \in Nat /\ At >= 3 /\ At <= n0 /\ n = n0 + cur /\ Base \in Nat
      /\ Mirror(cur) \in Phdr /\ \A i \in 0..n - 1 : elf[i] \in Phdr
  BY <1>1, <1>2 DEF ImageOK, TableOK
<1>6. /\ v \in Nat /\ z \in Nat /\ n <= v /\ 0..v + z \subseteq DOMAIN elf
      /\ v = e[1].vaddr + cur /\ z = e[1].memsz
  <2>1. v = e[1].vaddr + cur /\ z = e[1].memsz /\ DOMAIN elf = DOMAIN e
    BY <1>2 DEF TableOK, IOS_SEG_NOTES
  <2>2. 1 \in 0..n0 - 1
    BY <1>5
  <2>3. e[1].vaddr \in Nat /\ e[1].memsz \in Nat /\ n0 <= e[1].vaddr
    BY <1>1, <2>2 DEF ImageOK, Phdr
  <2>4. 0..e[1].vaddr + e[1].memsz + Len(Mirrors) \subseteq DOMAIN e
    BY <1>1 DEF ImageOK
  <2>. HIDE DEF v, z, n0, n
  <2>5. 0..v + z \subseteq 0..e[1].vaddr + e[1].memsz + Len(Mirrors)
    <3>. DEFINE v0 == e[1].vaddr
                z0 == e[1].memsz
    <3>1. v = v0 + cur /\ z = z0 /\ v0 \in Nat /\ z0 \in Nat
      BY <2>1, <2>3
    <3>. HIDE DEF v0, z0
    <3>2. v + z <= v0 + z0 + Len(Mirrors) /\ v + z \in Nat /\ v0 + z0 + Len(Mirrors) \in Nat
      BY <3>1, <1>3
    <3>3. 0..v + z \subseteq 0..v0 + z0 + Len(Mirrors)
      BY <3>2
    <3>. QED
      BY <3>3 DEF v0, z0
  <2>6. n <= v
    BY <1>3, <1>5, <2>1, <2>3 DEF n0
  <2>. QED
    BY <1>3, <2>1, <2>3, <2>4, <2>5, <2>6
<1>7. x \in At + 1..At + cur
  BY <1>1, <1>2, <1>3, MirrorIndex
<1>8. Inserted(elf, elf', x, Mirror(cur))
  <2>1. n \in Nat /\ n >= 2
    BY <1>3, <1>5
  <2>. QED
    BY <1>2, <1>5, <1>6, <2>1, AddPhdr
<1>. HIDE DEF n, n0, x, v, z
<1>9. /\ x \in Nat /\ n \in Nat /\ x <= n
  BY <1>3, <1>5, <1>7
<1>10. /\ DOMAIN elf' = DOMAIN elf /\ NumPhdrs(elf') = n + 1
       /\ \A i \in 0..n : elf'[i] \in Phdr
       /\ elf'[1].vaddr = v + 1 /\ elf'[1].memsz = z
       /\ \A c \in 0..z - 1 : elf'[elf'[1].vaddr + c] = elf[v + c]
       /\ \A i \in 2..x - 1 : elf'[i] = elf[i]
       /\ elf'[x] = Mirror(cur)
       /\ \A i \in x + 1..n : elf'[i] = elf[i - 1]
  BY <1>8 DEF Inserted, n, v, z
<1>11. At' = At /\ Base' = Base /\ boot' = boot /\ \A m : Mirror(m)' = Mirror(m)
  BY <1>2 DEF At, Base, Section, Mirror
<1>12. TableOK'
  <2>1. 0..NumPhdrs(elf') - 1 = 0..n
    BY <1>9, <1>10
  <2>2. NumPhdrs(elf') = NumPhdrs(boot'.elf) + Added'
    BY <1>2, <1>4, <1>5, <1>10, <1>3 DEF n0
  <2>3. elf'[1].vaddr = e[1].vaddr + Added' /\ elf'[1].memsz = e[1].memsz
    <3>1. e[1].vaddr \in Nat
      <4>1. 1 \in 0..n0 - 1
        BY <1>5
      <4>. QED
        BY <4>1, <1>1 DEF ImageOK, Phdr, n0
    <3>. DEFINE v0 == e[1].vaddr
    <3>2. v0 \in Nat /\ v = v0 + cur /\ elf'[1].vaddr = v + 1 /\ elf'[1].memsz = e[1].memsz
      BY <3>1, <1>6, <1>10
    <3>. HIDE DEF v0
    <3>3. elf'[1].vaddr = v0 + (cur + 1)
      BY <3>2, <1>3
    <3>. QED
      BY <3>2, <3>3, <1>4 DEF v0
  <2>4. \A c \in 0..e[1].memsz - 1 : elf'[elf'[1].vaddr + c] = e[e[1].vaddr + c]
    <3>1. \A c \in 0..e[1].memsz - 1 : elf[v + c] = e[e[1].vaddr + c]
      BY DEF TableOK, v, IOS_SEG_NOTES
    <3>. QED
      BY <3>1, <1>6, <1>10
  <2>5. DOMAIN elf' = DOMAIN e
    BY <1>10 DEF TableOK
  <2>. QED
    BY <1>2, <1>10, <2>1, <2>2, <2>3, <2>4, <2>5 DEF TableOK, IOS_SEG_NOTES
<1>13. /\ \A i \in 2..At - 2 : elf[i] = e[i]
       /\ elf[At - 1] = Cut
       /\ elf[At] = Core
       /\ \A i \in At + 1..At + cur - 1 : \E m \in 1..cur - 1 : elf[i] = Mirror(m)
       /\ \A m \in 1..cur - 1 : \E i \in At + 1..At + cur - 1 : elf[i] = Mirror(m)
       /\ \A i \in At..n0 - 1 : elf[i + cur] = e[i]
  BY <1>2 DEF HeadersOK, Cut, Core, Ramdisk, IOS_SEG_ELFINFO, n0
<1>14. \A i \in 2..At : elf'[i] = elf[i]
  <2>1. \A i \in 2..At : i \in 2..x - 1
    BY <1>3, <1>5, <1>7
  <2>. QED
    BY <2>1, <1>10
<1>15. \A i \in At + 1..At + cur : \E m \in 1..cur : elf'[i] = Mirror(m)
  <2>. SUFFICES ASSUME NEW i \in At + 1..At + cur PROVE \E m \in 1..cur : elf'[i] = Mirror(m)
    OBVIOUS
  <2>0. 1..cur - 1 \subseteq 1..cur /\ cur \in 1..cur
    BY <1>3
  <2>1. CASE i < x
    <3>1. i \in At + 1..At + cur - 1 /\ i \in 2..x - 1
      BY <2>1, <1>3, <1>5, <1>7
    <3>. QED
      BY <3>1, <2>0, <1>10, <1>13
  <2>2. CASE i = x
    BY <2>0, <2>2, <1>10
  <2>3. CASE i > x
    <3>1. i - 1 \in At + 1..At + cur - 1 /\ i \in x + 1..n
      BY <2>3, <1>3, <1>5, <1>7
    <3>. QED
      BY <3>1, <2>0, <1>10, <1>13
  <2>. QED
    BY <2>1, <2>2, <2>3, <1>5, <1>3, <1>9
<1>16. \A m \in 1..cur : \E i \in At + 1..At + cur : elf'[i] = Mirror(m)
  <2>. SUFFICES ASSUME NEW m \in 1..cur PROVE \E i \in At + 1..At + cur : elf'[i] = Mirror(m)
    OBVIOUS
  <2>1. CASE m = cur
    BY <2>1, <1>7, <1>10
  <2>2. CASE m # cur
    <3>1. m \in 1..cur - 1
      BY <2>2, <1>3
    <3>2. PICK i \in At + 1..At + cur - 1 : elf[i] = Mirror(m)
      BY <3>1, <1>13
    <3>3. CASE i < x
      <4>1. i \in 2..x - 1 /\ i \in At + 1..At + cur
        BY <3>3, <1>3, <1>5, <1>9
      <4>. QED
        BY <4>1, <3>2, <1>10
    <3>4. CASE i >= x
      <4>1. i + 1 \in x + 1..n /\ i + 1 \in At + 1..At + cur /\ (i + 1) - 1 = i
        BY <3>4, <1>3, <1>5, <1>9
      <4>2. elf'[i + 1] = Mirror(m)
        BY <4>1, <3>2, <1>10
      <4>. QED
        BY <4>1, <4>2
    <3>. QED
      BY <3>3, <3>4, <1>3, <1>5, <1>9
  <2>. QED
    BY <2>1, <2>2
<1>17. \A i \in At..n0 - 1 : elf'[i + (cur + 1)] = e[i]
  <2>. SUFFICES ASSUME NEW i \in At..n0 - 1 PROVE elf'[i + (cur + 1)] = e[i]
    OBVIOUS
  <2>1. i + (cur + 1) \in x + 1..n /\ (i + (cur + 1)) - 1 = i + cur
    BY <1>3, <1>5, <1>7
  <2>. QED
    BY <2>1, <1>10, <1>13
<1>18. HeadersOK'
  <2>1. At + (cur + 1) - 1 = At + cur /\ (cur + 1) - 1 = cur
    BY <1>3, <1>5
  <2>2. elf'[At - 1] = Cut /\ elf'[At] = Core /\ \A i \in 2..At - 2 : elf'[i] = e[i]
    BY <1>5, <1>13, <1>14
  <2>. QED
    BY <1>2, <1>4, <1>11, <1>15, <1>16, <1>17, <2>1, <2>2
       DEF HeadersOK, Cut, Core, Ramdisk, Mirror, IOS_SEG_ELFINFO, n0
<1>19. ASSUME NEW i \in 2..x - 1
       PROVE  Clear(elf[i], Mirror(cur))
  <2>1. \A j \in 2..At - 1 : Clear(e[j], Mirror(cur))
    BY <1>1, <1>2 DEF ImageOK
  <2>2. CASE i \in 2..At - 2
    BY <2>1, <2>2, <1>5, <1>13
  <2>3. CASE i \in {At - 1, At}
    <3>1. Clear(Ramdisk, Mirror(cur))
      BY <2>1, <1>5 DEF Ramdisk
    <3>. QED
      BY <3>1, <2>3, <1>1, <1>5, <1>13, ClearParts
  <2>4. CASE i > At
    <3>1. i \in At + 1..At + cur - 1
      BY <2>4, <1>3, <1>5, <1>7
    <3>2. PICK m \in 1..cur - 1 : elf[i] = Mirror(m)
      BY <3>1, <1>13
    <3>3. m \in 1..Len(Mirrors) /\ m # cur
      BY <1>3
    <3>. QED
      BY <3>2, <3>3, <1>1, <1>2 DEF ImageOK
  <2>. QED
    BY <2>2, <2>3, <2>4, <1>5
<1>20. ASSUME NEW j \in x..n - 1
       PROVE  Clear(Mirror(cur), elf[j])
  <2>1. CASE j < At + cur
    <3>1. j \in At + 1..At + cur - 1
      BY <2>1, <1>3, <1>5, <1>7, <1>9
    <3>2. PICK m \in 1..cur - 1 : elf[j] = Mirror(m)
      BY <3>1, <1>13
    <3>3. m \in 1..Len(Mirrors) /\ m # cur
      BY <1>3
    <3>. QED
      BY <3>2, <3>3, <1>1, <1>2 DEF ImageOK
  <2>2. CASE j >= At + cur
    <3>1. j - cur \in At..n0 - 1 /\ (j - cur) + cur = j
      BY <2>2, <1>3, <1>5, <1>9
    <3>2. elf[j] = e[j - cur]
      BY <3>1, <1>13
    <3>3. Clear(Mirror(cur), e[j - cur])
      BY <3>1, <1>1, <1>2 DEF ImageOK, n0
    <3>. QED
      BY <3>2, <3>3
  <2>. QED
    BY <2>1, <2>2, <1>3, <1>5, <1>9
<1>21. \A i, j \in 2..n - 1 : i < j => Clear(elf[i], elf[j]) \/ (i = At - 1 /\ j = At)
  BY <1>2 DEF ClearOK, IOS_SEG_ELFINFO, n
<1>22. ASSUME NEW i \in 2..n, NEW j \in 2..n, i < j
       PROVE  Clear(elf'[i], elf'[j]) \/ (i = At - 1 /\ j = At)
  <2>1. CASE j < x
    <3>1. i \in 2..x - 1 /\ j \in 2..x - 1 /\ i \in 2..n - 1 /\ j \in 2..n - 1
      BY <2>1, <1>9, <1>22
    <3>. QED
      BY <3>1, <1>10, <1>21, <1>22
  <2>2. CASE j = x
    <3>1. i \in 2..x - 1
      BY <2>2, <1>9, <1>22
    <3>. QED
      BY <3>1, <2>2, <1>10, <1>19
  <2>3. CASE i < x /\ j > x
    <3>1. i \in 2..x - 1 /\ j \in x + 1..n /\ i \in 2..n - 1 /\ j - 1 \in 2..n - 1 /\ i < j - 1
      BY <2>3, <1>9
    <3>2. j - 1 # At
      BY <3>1, <1>5, <1>7, <1>3
    <3>. QED
      BY <3>1, <3>2, <1>10, <1>21
  <2>4. CASE i = x
    <3>1. j \in x + 1..n /\ j - 1 \in x..n - 1
      BY <2>4, <1>9, <1>22
    <3>. QED
      BY <3>1, <2>4, <1>10, <1>20
  <2>5. CASE i > x
    <3>1. /\ i \in x + 1..n /\ j \in x + 1..n /\ i - 1 \in 2..n - 1 /\ j - 1 \in 2..n - 1
          /\ i - 1 < j - 1 /\ j - 1 # At
      BY <2>5, <1>3, <1>5, <1>7, <1>9, <1>22
    <3>. QED
      BY <3>1, <1>10, <1>21
  <2>. QED
    BY <2>1, <2>2, <2>3, <2>4, <2>5, <1>9, <1>22
<1>23. ClearOK'
  <2>1. 2..NumPhdrs(elf') - 1 = 2..n
    BY <1>9, <1>10
  <2>. QED
    BY <1>11, <1>22, <2>1 DEF ClearOK, IOS_SEG_ELFINFO
<1>. QED
  BY <1>12, <1>18, <1>23

\* ios_elf_vaddr_to_paddr takes the first segment that has the address.
LEMMA Lookup ==
  ASSUME NEW e, NumPhdrs(e) \in Nat, \A i \in 2..NumPhdrs(e) - 1 : e[i] \in Phdr,
         NEW i \in 2..NumPhdrs(e) - 1, NEW a \in Nat,
         e[i].vaddr <= a, a <= e[i].vaddr + e[i].memsz,
         \A j \in 2..i - 1 : ~(e[j].vaddr <= a /\ a <= e[j].vaddr + e[j].memsz)
  PROVE  ios_elf_vaddr_to_paddr(e, a) = a - e[i].vaddr + e[i].paddr
<1>. DEFINE hit == {j \in 2..NumPhdrs(e) - 1 : a >= e[j].vaddr /\ a <= e[j].vaddr + e[j].memsz}
<1>1. \A j \in 2..NumPhdrs(e) - 1 : e[j].vaddr \in Nat /\ e[j].memsz \in Nat
  BY DEF Phdr
<1>2. i \in hit
  BY <1>1
<1>3. \A j \in hit : i <= j
  BY <1>1
<1>4. Min(hit) \in hit /\ Min(hit) <= i
  BY <1>2, <1>3, MinIs
<1>5. Min(hit) = i
  BY <1>3, <1>4
<1>. QED
  BY <1>2, <1>5 DEF ios_elf_vaddr_to_paddr, IOS_SEG_ELFINFO

\* A header is found for its own addresses if those in front of it are clear of it.
LEMMA LookupClear ==
  ASSUME NEW e, NumPhdrs(e) \in Nat, \A i \in 2..NumPhdrs(e) - 1 : e[i] \in Phdr,
         NEW i \in 2..NumPhdrs(e) - 1, NEW a \in Nat,
         e[i].vaddr <= a, a < e[i].vaddr + e[i].memsz,
         \A j \in 2..i - 1 : Clear(e[j], e[i])
  PROVE  ios_elf_vaddr_to_paddr(e, a) = a - e[i].vaddr + e[i].paddr
<1>1. \A j \in 2..i : j \in 2..NumPhdrs(e) - 1
  OBVIOUS
<1>2. \A j \in 2..i : e[j].vaddr \in Nat /\ e[j].memsz \in Nat
  BY <1>1 DEF Phdr
<1>3. \A j \in 2..i - 1 : ~(e[j].vaddr <= a /\ a <= e[j].vaddr + e[j].memsz)
  <2>. SUFFICES ASSUME NEW j \in 2..i - 1
                PROVE  ~(e[j].vaddr <= a /\ a <= e[j].vaddr + e[j].memsz)
    OBVIOUS
  <2>1. j \in 2..i /\ i \in 2..i /\ Clear(e[j], e[i])
    OBVIOUS
  <2>2. /\ e[j].vaddr \in Nat /\ e[j].memsz \in Nat /\ e[i].vaddr \in Nat /\ e[i].memsz \in Nat
    BY <2>1, <1>2
  <2>. QED
    BY <2>1, <2>2 DEF Clear
<1>4. a <= e[i].vaddr + e[i].memsz
  <2>1. i \in 2..i
    OBVIOUS
  <2>. QED
    BY <2>1, <1>2
<1>. QED
  BY <1>3, <1>4, Lookup

\* The shape of the table gives the map.
LEMMA MapFromShape ==
  ASSUME StageOK, TableOK, HeadersOK, ClearOK
  PROVE  MapSound
<1>. DEFINE e == boot.elf
            n0 == NumPhdrs(e)
            n == NumPhdrs(elf)
            c == 1 + Len(Mirrors)
<1>. SUFFICES ASSUME stage \notin {"phdrs", "mirrors"}
              PROVE  MapSound
  BY DEF MapSound
<1>1. ImageOK
  BY ImageFacts DEF StageOK
<1>2. Added = c /\ Len(Mirrors) \in Nat \ {0} /\ c \in Nat
  BY <1>1 DEF Added, ImageOK
<1>3. /\ n0 \in Nat /\ At \in Nat /\ At >= 3 /\ At <= n0 /\ n = n0 + c /\ Base \in Nat
      /\ n \in Nat /\ RamdiskEnd \in Nat /\ Base <= RamdiskEnd
  BY <1>1, <1>2 DEF ImageOK, TableOK
<1>4. \A i \in 2..n - 1 : elf[i] \in Phdr
  BY DEF TableOK
<1>5. \A i \in 2..n0 - 1 : e[i] \in Phdr
  BY <1>1 DEF ImageOK
<1>6. /\ \A i \in 2..At - 2 : elf[i] = e[i]
      /\ elf[At - 1] = Cut
      /\ elf[At] = Core
      /\ \A m \in 1..Len(Mirrors) : \E i \in At + 1..At + c - 1 : elf[i] = Mirror(m)
      /\ \A i \in At..n0 - 1 : elf[i + c] = e[i]
  <2>1. c - 1 = Len(Mirrors)
    BY <1>2
  <2>. QED
    BY <1>2, <2>1 DEF HeadersOK, Cut, Core, Ramdisk, IOS_SEG_ELFINFO
<1>7. \A i, j \in 2..n - 1 : i < j => Clear(elf[i], elf[j]) \/ (i = At - 1 /\ j = At)
  BY DEF ClearOK, IOS_SEG_ELFINFO
<1>. HIDE DEF n, n0, c
<1>8. /\ Ramdisk \in Phdr /\ Ramdisk.vaddr <= Base /\ Ramdisk.paddr = Ramdisk.vaddr
      /\ Ramdisk.vaddr + Ramdisk.memsz = RamdiskEnd
  <2>1. At - 1 \in 2..n0 - 1 /\ At - 1 \in 2..At - 1
    BY <1>3
  <2>. QED
    BY <2>1, <1>1, <1>5 DEF ImageOK, Ramdisk
<1>9. ASSUME NEW i \in 2..n - 1, i # At, NEW a \in Nat,
             elf[i].vaddr <= a, a < elf[i].vaddr + elf[i].memsz
      PROVE  ios_elf_vaddr_to_paddr(elf, a) = a - elf[i].vaddr + elf[i].paddr
  <2>1. \A j \in 2..i - 1 : Clear(elf[j], elf[i])
    BY <1>3, <1>7, <1>9
  <2>. QED
    BY <2>1, <1>3, <1>4, <1>9, LookupClear DEF n
\* in the old ramdisk: its first part has the address where the two meet
<1>10. ASSUME NEW a \in Nat, Ramdisk.vaddr <= a, a < RamdiskEnd
       PROVE  ios_elf_vaddr_to_paddr(elf, a) = a
  <2>0. /\ At - 1 \in 2..n - 1 /\ At \in 2..n - 1 /\ Ramdisk.vaddr \in Nat
        /\ Cut.vaddr = Ramdisk.vaddr /\ Cut.paddr = Ramdisk.vaddr /\ Cut.memsz = Base - Ramdisk.vaddr
        /\ Core.vaddr = Base /\ Core.paddr = Base /\ Core.memsz = RamdiskEnd - Base
    <3>1. c >= 2
      BY <1>2 DEF c
    <3>2. At - 1 \in 2..n - 1 /\ At \in 2..n - 1
      BY <3>1, <1>2, <1>3
    <3>3. Ramdisk.vaddr \in Nat
      BY <1>8 DEF Phdr
    <3>4. Cut.vaddr = Ramdisk.vaddr /\ Cut.paddr = Ramdisk.paddr /\ Cut.memsz = Base - Ramdisk.vaddr
      BY DEF Cut, Load
    <3>5. Core.vaddr = Base /\ Core.paddr = Base /\ Core.memsz = RamdiskEnd - Base
      BY DEF Core, Load
    <3>. QED
      BY <3>2, <3>3, <3>4, <3>5, <1>8
  <2>. DEFINE r == Ramdisk.vaddr
  <2>. HIDE DEF r
  <2>00. /\ elf[At - 1].vaddr = r /\ elf[At - 1].paddr = r /\ elf[At - 1].memsz = Base - r
         /\ elf[At].vaddr = Base /\ elf[At].paddr = Base /\ elf[At].memsz = RamdiskEnd - Base
         /\ r \in Nat /\ r <= Base /\ r <= a
    BY <2>0, <1>6, <1>8, <1>10 DEF r
  <2>1. CASE a < Base
    <3>1. ios_elf_vaddr_to_paddr(elf, a) = a - elf[At - 1].vaddr + elf[At - 1].paddr
      <4>1. At - 1 # At /\ elf[At - 1].vaddr <= a /\ a < elf[At - 1].vaddr + elf[At - 1].memsz
        BY <2>00, <2>1, <1>3
      <4>. QED
        BY <4>1, <2>0, <1>9
    <3>. QED
      BY <3>1, <2>00
  <2>2. ASSUME a >= Base, NEW j \in 2..At - 2
        PROVE  ~(elf[j].vaddr <= a /\ a <= elf[j].vaddr + elf[j].memsz)
    <3>1. j \in 2..n - 1 /\ j < At /\ j # At - 1
      BY <1>2, <1>3
    <3>2. Clear(elf[j], elf[At]) /\ elf[j] \in Phdr
      BY <3>1, <2>0, <1>4, <1>7
    <3>. QED
      BY <3>2, <2>2, <2>00, <1>3, <1>10 DEF Clear, Phdr
  <2>3. CASE a = Base
    <3>1. \A j \in 2..(At - 1) - 1 : ~(elf[j].vaddr <= a /\ a <= elf[j].vaddr + elf[j].memsz)
      <4>1. (At - 1) - 1 = At - 2 /\ a >= Base
        BY <2>3, <1>3
      <4>. QED
        BY <4>1, <2>2
    <3>2. elf[At - 1].vaddr <= a /\ a <= elf[At - 1].vaddr + elf[At - 1].memsz
      BY <2>3, <2>00, <1>3
    <3>3. ios_elf_vaddr_to_paddr(elf, a) = a - elf[At - 1].vaddr + elf[At - 1].paddr
      BY <3>1, <3>2, <2>0, <1>3, <1>4, Lookup DEF n
    <3>. QED
      BY <3>3, <2>00
  <2>4. CASE a > Base
    <3>1. \A j \in 2..At - 1 : ~(elf[j].vaddr <= a /\ a <= elf[j].vaddr + elf[j].memsz)
      <4>. SUFFICES ASSUME NEW j \in 2..At - 1
                    PROVE  ~(elf[j].vaddr <= a /\ a <= elf[j].vaddr + elf[j].memsz)
        OBVIOUS
      <4>1. CASE j = At - 1
        BY <4>1, <2>4, <2>00, <1>3
      <4>2. CASE j # At - 1
        <5>1. j \in 2..At - 2 /\ a >= Base
          BY <4>2, <2>4, <1>3
        <5>. QED
          BY <5>1, <2>2
      <4>. QED
        BY <4>1, <4>2
    <3>2. elf[At].vaddr <= a /\ a <= elf[At].vaddr + elf[At].memsz
      BY <2>4, <2>00, <1>3, <1>10
    <3>3. ios_elf_vaddr_to_paddr(elf, a) = a - elf[At].vaddr + elf[At].paddr
      BY <3>1, <3>2, <2>0, <1>3, <1>4, Lookup DEF n
    <3>. QED
      BY <3>3, <2>00, <1>3
  <2>. QED
    BY <2>1, <2>3, <2>4, <1>3
<1>11. ASSUME NEW i \in 2..n0 - 1, NEW a \in e[i].vaddr..e[i].vaddr + e[i].memsz - 1
       PROVE  ios_elf_vaddr_to_paddr(elf, a) = a - e[i].vaddr + e[i].paddr
  <2>0. e[i].vaddr \in Nat /\ e[i].memsz \in Nat /\ e[i].paddr \in Nat
    BY <1>5 DEF Phdr
  <2>00. a \in Nat /\ e[i].vaddr <= a /\ a < e[i].vaddr + e[i].memsz
    BY <2>0
  <2>1. CASE i < At - 1
    <3>1. i \in 2..n - 1 /\ i # At /\ elf[i] = e[i]
      BY <2>1, <1>2, <1>3, <1>6
    <3>. QED
      BY <3>1, <2>00, <1>9
  <2>2. CASE i = At - 1
    <3>1. e[i] = Ramdisk
      BY <2>2 DEF Ramdisk
    <3>2. a < RamdiskEnd
      BY <3>1, <2>00, <1>8
    <3>3. ios_elf_vaddr_to_paddr(elf, a) = a
      BY <3>1, <3>2, <2>00, <1>10
    <3>. QED
      BY <3>1, <3>3, <2>0, <2>00, <1>8
  <2>3. CASE i >= At
    <3>1. i + c \in 2..n - 1 /\ i + c # At /\ elf[i + c] = e[i]
      BY <2>3, <1>2, <1>3, <1>6 DEF c
    <3>. QED
      BY <3>1, <2>00, <1>9
  <2>. QED
    BY <2>1, <2>2, <2>3, <1>3
<1>12. ASSUME NEW m \in DOMAIN Mirrors, NEW d \in 0..MirrorSz - 1
       PROVE  ios_elf_vaddr_to_paddr(elf, Mirrors[m] + d) = Base + d
  <2>1. m \in 1..Len(Mirrors) /\ Mirrors[m] \in Nat /\ MirrorSz \in Nat
    BY MirrorsAssumption
  <2>2. PICK i \in At + 1..At + c - 1 : elf[i] = Mirror(m)
    BY <2>1, <1>6
  <2>3. i \in 2..n - 1 /\ i # At
    BY <1>2, <1>3
  <2>4. elf[i].vaddr = Mirrors[m] /\ elf[i].paddr = Base /\ elf[i].memsz = MirrorSz
    BY <2>2 DEF Mirror, Load
  <2>5. ios_elf_vaddr_to_paddr(elf, Mirrors[m] + d) = (Mirrors[m] + d) - elf[i].vaddr + elf[i].paddr
    <3>1. /\ Mirrors[m] + d \in Nat /\ elf[i].vaddr <= Mirrors[m] + d
          /\ Mirrors[m] + d < elf[i].vaddr + elf[i].memsz
      BY <2>1, <2>4
    <3>. QED
      BY <3>1, <2>3, <1>9
  <2>. QED
    BY <2>1, <2>4, <2>5, <1>3
<1>13. ASSUME NEW i \in 2..n - 1, NEW j \in 2..n - 1, i < j
       PROVE  \/ elf[i].vaddr + elf[i].memsz <= elf[j].vaddr
              \/ elf[j].vaddr + elf[j].memsz <= elf[i].vaddr
  <2>1. CASE Clear(elf[i], elf[j])
    BY <2>1, <1>4 DEF Clear, Phdr
  <2>2. CASE i = At - 1 /\ j = At
    <3>1. /\ elf[i].vaddr = Ramdisk.vaddr /\ elf[i].memsz = Base - Ramdisk.vaddr
          /\ elf[j].vaddr = Base /\ Ramdisk.vaddr \in Nat
      BY <2>2, <1>6, <1>8 DEF Cut, Core, Load, Phdr
    <3>. QED
      BY <3>1, <1>3
  <2>. QED
    BY <2>1, <2>2, <1>7, <1>13
<1>. QED
  BY <1>11, <1>12, <1>13 DEF MapSound, IOS_SEG_ELFINFO, Base, n, n0

\* The notes are where their header says, cell by cell.
LEMMA NotesFromTable ==
  ASSUME StageOK, TableOK
  PROVE  NotesIntact
<1>. DEFINE v == elf[1].vaddr
            v0 == boot.elf[1].vaddr
            z == boot.elf[1].memsz
            s == [k \in 1..elf[1].memsz |-> elf[elf[1].vaddr + k - 1]]
            t == [k \in 1..z |-> boot.elf[boot.elf[1].vaddr + k - 1]]
<1>1. ImageOK
  BY ImageFacts DEF StageOK
<1>2. 1 \in 0..NumPhdrs(boot.elf) - 1 /\ 1 \in 0..NumPhdrs(elf) - 1
  BY <1>1 DEF ImageOK, TableOK, Added, StageOK
<1>3. v \in Nat /\ v0 \in Nat /\ z \in Nat /\ elf[1].memsz = z
  BY <1>1, <1>2 DEF ImageOK, TableOK, Phdr, IOS_SEG_NOTES
<1>4. \A c \in 0..z - 1 : elf[v + c] = boot.elf[v0 + c]
  BY DEF TableOK, IOS_SEG_NOTES
<1>5. ASSUME NEW k \in 1..z
      PROVE  elf[v + k - 1] = boot.elf[v0 + k - 1]
  <2>. HIDE DEF v, v0, z
  <2>1. k - 1 \in 0..z - 1 /\ v + k - 1 = v + (k - 1) /\ v0 + k - 1 = v0 + (k - 1)
    BY <1>3
  <2>. QED
    BY <2>1, <1>4
<1>6. s = t
  BY <1>3, <1>5
<1>. QED
  BY <1>6 DEF NotesIntact, ios_elf_get_notes, IOS_SEG_NOTES

\* What does not write to the image leaves its table of headers as it is.
LEMMA TableFrame ==
  ASSUME TableOK, HeadersOK, ClearOK, boot' = boot, elf' = elf,
         stage \notin {"phdrs", "mirrors"}, stage' \notin {"phdrs", "mirrors"}
  PROVE  TableOK' /\ HeadersOK' /\ ClearOK'
<1>1. Added' = Added
  BY DEF Added
<1>2. At' = At /\ Base' = Base
  BY DEF At, Base, Section
<1>3. TableOK'
  BY <1>1 DEF TableOK
<1>4. HeadersOK'
  BY <1>1, <1>2 DEF HeadersOK, Mirror
<1>5. ClearOK'
  BY <1>2 DEF ClearOK
<1>. QED
  BY <1>3, <1>4, <1>5

-----------------------------------------------------------------------------
(* Sections, symbols and relocations *)

\* The assumptions, for this boot.
LEMMA SectionFacts ==
  ASSUME boot \in Boots
  PROVE  /\ Len(boot.sections) \in Nat \ {0} /\ DOMAIN boot.sections = 1..Len(boot.sections)
         /\ IsElf(1)
         /\ \A k \in DOMAIN boot.sections :
              /\ IsElf(k) \in BOOLEAN /\ Section(k).base \in Nat
              /\ \A name \in DOMAIN Section(k).sym : Section(k).sym[name] \in Nat
              /\ k # 1 /\ IsElf(k) => WellLinked(Section(k))
  BY SectionsAssumption DEF IsElf, Section

\* The loops over the sections visit each behind the first.
LEMMA AdvanceIs ==
  ASSUME boot \in Boots, cur \in 1..Len(boot.sections), NEW next, Advance(next)
  PROVE  \/ /\ cur < Len(boot.sections) /\ wafel_plugin_next(cur) = cur + 1
            /\ cur' = cur + 1 /\ stage' = stage
         \/ /\ cur = Len(boot.sections) /\ wafel_plugin_next(cur) = 0
            /\ cur' = 1 /\ stage' = next
<1>1. Len(boot.sections) \in Nat \ {0}
  BY SectionFacts
<1>. QED
  BY <1>1 DEF Advance, wafel_plugin_next

\* With all plugins registered, a symbol is found in the first section that has it.
LEMMA FindSymbol ==
  ASSUME boot \in Boots, ElfsOK, stage \notin {"phdrs", "mirrors", "register"}, NEW name
  PROVE  wafel_find_symbol(name) = Provider(name)
<1>. DEFINE defs == {i \in DOMAIN elfs : wafel_get_symbol_addr(elfs[i], name) # 0}
            hit == {i \in defs : Cardinality({j \in defs : j < i}) = 0}
            D == {k \in DOMAIN boot.sections : IsElf(k) /\ wafel_get_symbol_addr(k, name) # 0}
<1>1. wafel_find_symbol(name) = IF hit = {} THEN 0 ELSE wafel_get_symbol_addr(elfs[Min(hit)], name)
  BY DEF wafel_find_symbol, wafel_find_symbol_multiple
<1>2. Provider(name) = IF D = {} THEN 0 ELSE wafel_get_symbol_addr(Min(D), name)
  BY DEF Provider
<1>3. /\ elfs \in Seq(Nat)
      /\ \A i \in DOMAIN elfs : elfs[i] \in 1..Len(boot.sections) /\ IsElf(elfs[i])
      /\ \A k \in 1..Len(boot.sections) : IsElf(k) => \E i \in DOMAIN elfs : elfs[i] = k
      /\ \A i, j \in DOMAIN elfs : i < j => elfs[i] < elfs[j]
  BY DEF ElfsOK, Registered
<1>4. DOMAIN boot.sections = 1..Len(boot.sections) /\ Len(boot.sections) \in Nat
  BY SectionFacts
<1>5. DOMAIN elfs \subseteq Nat
  BY <1>3
<1>6. D \in SUBSET Nat /\ \A i \in defs : i \in Nat /\ elfs[i] \in D
  BY <1>3, <1>4, <1>5
<1>7. CASE D = {}
  <2>1. hit = {}
    BY <1>6, <1>7
  <2>. QED
    BY <2>1, <1>1, <1>2, <1>7
<1>8. CASE D # {}
  <2>1. Min(D) \in D /\ \A y \in D : Min(D) <= y
    BY <1>6, <1>8, MinOfNaturals
  <2>2. PICK i0 \in DOMAIN elfs : elfs[i0] = Min(D)
    BY <2>1, <1>3, <1>4
  <2>3. i0 \in defs /\ i0 \in Nat
    BY <2>1, <2>2, <1>5
  <2>4. ASSUME NEW j \in defs PROVE i0 <= j
    <3>1. Min(D) <= elfs[j] /\ elfs[j] \in Nat /\ elfs[i0] \in Nat /\ j \in DOMAIN elfs /\ j \in Nat
      BY <2>1, <2>2, <1>6
    <3>2. ~(elfs[j] < elfs[i0])
      BY <3>1, <2>2
    <3>. QED
      BY <3>1, <3>2, <2>3, <1>3
  <2>5. {j \in defs : j < i0} = {}
    BY <2>3, <2>4, <1>6
  <2>6. i0 \in hit
    BY <2>3, <2>5, FS_EmptySet
  <2>7. \A j \in hit : i0 <= j
    BY <2>4
  <2>8. Min(hit) \in hit /\ Min(hit) <= i0
    BY <2>6, <2>7, MinIs
  <2>9. Min(hit) = i0
    <3>1. Min(hit) \in Nat /\ i0 <= Min(hit)
      BY <2>7, <2>8, <1>6
    <3>. QED
      BY <3>1, <2>3, <2>8
  <2>. QED
    BY <2>2, <2>6, <2>9, <1>1, <1>2, <1>8
<1>. QED
  BY <1>7, <1>8

\* A relocation gets what the import must be bound to.
LEMMA SymValIs ==
  ASSUME boot \in Boots, ElfsOK, stage \notin {"phdrs", "mirrors", "register"},
         NEW k \in DOMAIN boot.sections, NEW r
  PROVE  SymVal(k, r) = Import(k, r.name)
<1>1. /\ Section(k).base \in Nat
      /\ \A name \in DOMAIN Section(k).sym : Section(k).sym[name] \in Nat
  BY SectionFacts
<1>2. wafel_find_symbol(r.name) = Provider(r.name)
  BY FindSymbol
<1>3. CASE r.name \in DOMAIN Section(k).sym /\ Section(k).sym[r.name] # 0
  <2>1. Section(k).base + Section(k).sym[r.name] # 0
    BY <1>1, <1>3
  <2>. QED
    BY <2>1, <1>3 DEF SymVal, Import, wafel_get_symbol_addr
<1>4. CASE ~(r.name \in DOMAIN Section(k).sym /\ Section(k).sym[r.name] # 0)
  BY <1>2, <1>4 DEF SymVal, Import, wafel_get_symbol_addr
<1>. QED
  BY <1>3, <1>4

\* What an import must be bound to does not change.
LEMMA ImportFrame ==
  ASSUME boot' = boot, NEW k, NEW name
  PROVE  Import(k, name)' = Import(k, name)
  BY DEF Import, Provider, wafel_get_symbol_addr, Section, IsElf

\* A section whose words stay is bound as before.
LEMMA BoundFrame ==
  ASSUME boot' = boot, NEW k, NEW d, word'[k] = word[k], Bound(k, d)
  PROVE  Bound(k, d)'
<1>1. Section(k)' = Section(k)
  BY DEF Section
<1>. QED
  BY <1>1, ImportFrame DEF Bound

\* The entries of a table of relocations
LEMMA RelFacts ==
  ASSUME NEW T, NEW O, NEW N, NEW t \in Seq([type : T, offset : O, name : N])
  PROVE  /\ DOMAIN t = 1..Len(t) /\ Len(t) \in Nat
         /\ \A i \in DOMAIN t : t[i].offset \in O /\ t[i].type \in T
<1>. DEFINE R == [type : T, offset : O, name : N]
<1>1. \A r \in R : r.offset \in O /\ r.type \in T
  OBVIOUS
<1>. HIDE DEF R
<1>2. t \in Seq(R)
  BY DEF R
<1>3. DOMAIN t = 1..Len(t) /\ Len(t) \in Nat /\ \A i \in DOMAIN t : t[i] \in R
  BY <1>2
<1>. QED
  BY <1>1, <1>3

\* wafel_link_plugin binds every import of a plugin that is as it was loaded, and touches
\* neither its other words nor other sections.
LEMMA LinkBinds ==
  ASSUME boot \in Boots, ElfsOK, stage \notin {"phdrs", "mirrors", "register"}, boot' = boot,
         NEW k \in DOMAIN boot.sections, k # 1, IsElf(k), WordsOK, word[k] = Section(k).word,
         wafel_link_plugin(k)
  PROVE  /\ word' = [j \in DOMAIN boot.sections |-> word'[j]]
         /\ \A j \in DOMAIN boot.sections \ {k} : word'[j] = word[j]
         /\ DOMAIN word'[k] = DOMAIN word[k]
         /\ Bound(k, 0)'
<1>. DEFINE s == Section(k)
            t == s.rel
            w == [o \in DOMAIN word[k] |->
                    IF For(t, o, SYMBOLIC) = {} THEN word[k][o]
                    ELSE SymVal(k, t[Max(For(t, o, SYMBOLIC))])]
<1>1. WellLinked(s)
  BY SectionFacts
<1>2. LinkTable(s) = t /\ t \in Seq([type : SYMBOLIC \cup {"RELATIVE"}, offset : DOMAIN s.word, name : STRING])
  BY <1>1 DEF WellLinked
<1>3. /\ DOMAIN t = 1..Len(t) /\ Len(t) \in Nat
      /\ \A i \in DOMAIN t : t[i].offset \in DOMAIN word[k] /\ t[i].type \in SYMBOLIC \cup {"RELATIVE"}
  BY <1>2, RelFacts
<1>4. \A i, j \in DOMAIN t : i # j => t[i].offset # t[j].offset
  BY <1>1 DEF WellLinked
<1>5. \A i \in DOMAIN t : t[i].type = "RELATIVE" => s.word[t[i].offset] \in Int
  BY <1>1 DEF WellLinked
<1>6. word' = [word EXCEPT ![k] = w]
  BY <1>2 DEF wafel_link_plugin
<1>7. word = [j \in DOMAIN boot.sections |-> word[j]]
  BY DEF WordsOK
<1>. HIDE DEF w
<1>8. /\ word' = [j \in DOMAIN boot.sections |-> word'[j]] /\ word'[k] = w
      /\ \A j \in DOMAIN boot.sections \ {k} : word'[j] = word[j]
  BY <1>6, <1>7
<1>9. ASSUME NEW i \in DOMAIN t
      PROVE  w[t[i].offset] = IF t[i].type = "RELATIVE" THEN s.word[t[i].offset] + 0
                              ELSE Import(k, t[i].name)
  <2>. DEFINE o == t[i].offset
              F == For(t, o, SYMBOLIC)
  <2>1. o \in DOMAIN word[k]
    BY <1>3
  <2>2. w[o] = IF F = {} THEN word[k][o] ELSE SymVal(k, t[Max(F)])
    BY <2>1 DEF w
  <2>3. \A j \in F : j = i
    BY <1>4 DEF For
  <2>4. CASE t[i].type = "RELATIVE"
    <3>1. F = {}
      BY <2>3, <2>4 DEF For, SYMBOLIC
    <3>2. w[o] = s.word[o] /\ s.word[o] \in Int
      BY <3>1, <2>2, <2>4, <1>5
    <3>. QED
      BY <3>2, <2>4
  <2>5. CASE t[i].type # "RELATIVE"
    <3>1. i \in F
      BY <2>5, <1>3 DEF For
    <3>2. F = {i} /\ i \in Nat
      BY <3>1, <2>3, <1>3
    <3>3. Max(F) = i
      <4>1. i \in F /\ \A y \in F : i >= y
        BY <3>2
      <4>. HIDE DEF F
      <4>2. Max(F) \in F
        BY <4>1, MaxIs
      <4>. QED
        BY <4>2, <3>2
    <3>4. w[o] = SymVal(k, t[i])
      BY <3>2, <3>3, <2>2
    <3>. QED
      BY <3>4, <2>5, SymValIs
  <2>. QED
    BY <2>4, <2>5
<1>10. Bound(k, 0)'
  <2>1. Section(k)' = Section(k)
    BY DEF Section
  <2>. QED
    BY <2>1, <1>8, <1>9, ImportFrame DEF Bound
<1>. QED
  BY <1>8, <1>10 DEF w

\* __wafel_dynamic moves every word that is to be moved, by the address of the plugin, and
\* leaves the imports.
LEMMA DynamicMoves ==
  ASSUME boot \in Boots, boot' = boot, NEW k \in DOMAIN boot.sections, k # 1, IsElf(k), WordsOK,
         Bound(k, 0), k \notin relocated, __wafel_dynamic(k)
  PROVE  /\ relocated' = relocated \cup {k}
         /\ word' = [j \in DOMAIN boot.sections |-> word'[j]]
         /\ \A j \in DOMAIN boot.sections \ {k} : word'[j] = word[j]
         /\ DOMAIN word'[k] = DOMAIN word[k]
         /\ Bound(k, Section(k).base)'
<1>. DEFINE s == Section(k)
            t == s.rel
            u == RelTable(s)
            w == [o \in DOMAIN word[k] |->
                    IF For(u, o, {"RELATIVE"}) # {} /\ word[k][o] < s.base
                      THEN word[k][o] + s.base ELSE word[k][o]]
<1>1. WellLinked(s) /\ s.base \in Nat
  BY SectionFacts
<1>2. t \in Seq([type : SYMBOLIC \cup {"RELATIVE"}, offset : DOMAIN s.word, name : STRING])
  BY <1>1 DEF WellLinked
<1>3. /\ DOMAIN t = 1..Len(t) /\ Len(t) \in Nat
      /\ \A i \in DOMAIN t : t[i].offset \in DOMAIN word[k]
  <2>1. DOMAIN word[k] = DOMAIN s.word
    BY DEF WordsOK
  <2>2. /\ DOMAIN t = 1..Len(t) /\ Len(t) \in Nat
        /\ \A i \in DOMAIN t : /\ t[i].offset \in DOMAIN s.word
                               /\ t[i].type \in SYMBOLIC \cup {"RELATIVE"}
    BY <1>2, RelFacts
  <2>. QED
    BY <2>1, <2>2
<1>4. \A i, j \in DOMAIN t : i # j => t[i].offset # t[j].offset
  BY <1>1 DEF WellLinked
<1>5. \A i \in DOMAIN t : t[i].type = "RELATIVE" => s.word[t[i].offset] \in 0..s.base - 1
  BY <1>1 DEF WellLinked
<1>6. PICK n \in 0..Len(t) : u = SubSeq(t, 1, n) /\ \A i \in n + 1..Len(t) : t[i].type # "RELATIVE"
  BY <1>1 DEF WellLinked
<1>7. DOMAIN u = 1..n /\ \A i \in 1..n : i \in DOMAIN t /\ u[i] = t[i]
  BY <1>2, <1>3, <1>6
<1>8. relocated' = relocated \cup {k} /\ word' = [word EXCEPT ![k] = w]
  BY DEF __wafel_dynamic
<1>9. word = [j \in DOMAIN boot.sections |-> word[j]]
  BY DEF WordsOK
<1>. HIDE DEF w, u
<1>10. /\ word' = [j \in DOMAIN boot.sections |-> word'[j]] /\ word'[k] = w
       /\ \A j \in DOMAIN boot.sections \ {k} : word'[j] = word[j]
  BY <1>8, <1>9
<1>11. \A i \in DOMAIN t : word[k][t[i].offset] = IF t[i].type = "RELATIVE" THEN s.word[t[i].offset] + 0
                                                  ELSE Import(k, t[i].name)
  BY DEF Bound
<1>12. ASSUME NEW i \in DOMAIN t
       PROVE  w[t[i].offset] = IF t[i].type = "RELATIVE" THEN s.word[t[i].offset] + s.base
                               ELSE Import(k, t[i].name)
  <2>. DEFINE o == t[i].offset
              F == For(u, o, {"RELATIVE"})
  <2>1. o \in DOMAIN word[k]
    BY <1>3
  <2>2. w[o] = IF F # {} /\ word[k][o] < s.base THEN word[k][o] + s.base ELSE word[k][o]
    BY <2>1 DEF w
  <2>3. CASE t[i].type = "RELATIVE"
    <3>1. i \in 1..n
      BY <2>3, <1>3, <1>6
    <3>2. i \in F
      BY <3>1, <2>3, <1>7 DEF For
    <3>3. word[k][o] = s.word[o] /\ s.word[o] < s.base
      BY <2>3, <1>1, <1>5, <1>11
    <3>. QED
      BY <3>2, <3>3, <2>2, <2>3
  <2>4. CASE t[i].type # "RELATIVE"
    <3>1. F = {}
      <4>1. \A j \in F : j \in DOMAIN t /\ t[j].offset = o /\ t[j].type = "RELATIVE"
        BY <1>7 DEF For
      <4>. QED
        BY <4>1, <2>4, <1>4
    <3>. QED
      BY <3>1, <2>2, <2>4, <1>11
  <2>. QED
    BY <2>3, <2>4
<1>13. Bound(k, Section(k).base)'
  <2>1. Section(k)' = Section(k)
    BY DEF Section
  <2>. QED
    BY <2>1, <1>10, <1>12, ImportFrame DEF Bound
<1>. QED
  BY <1>8, <1>10, <1>13 DEF w

-----------------------------------------------------------------------------
(* Every step keeps the invariant *)

\* Words stay bound when the program goes on to a stage that asks for no more.
LEMMA WordsFrame ==
  ASSUME WordsOK, boot' = boot, word' = word,
         \A k \in DOMAIN boot.sections :
           /\ Raw(k)' => Raw(k)
           /\ k # 1 /\ Linked(k)' => Linked(k)
  PROVE  WordsOK'
<1>1. \A k : Section(k)' = Section(k) /\ IsElf(k)' = IsElf(k)
  BY DEF Section, IsElf
<1>2. \A k \in DOMAIN boot.sections : Raw(k)' => word'[k] = Section(k).word
  BY DEF WordsOK
<1>3. ASSUME NEW k \in DOMAIN boot.sections \ {1}, IsElf(k), Linked(k)'
      PROVE  Bound(k, 0)'
  <2>1. Bound(k, 0)
    BY <1>3 DEF WordsOK
  <2>. QED
    BY <2>1, BoundFrame
<1>4. /\ word' = [k \in DOMAIN boot.sections |-> word'[k]]
      /\ \A k \in DOMAIN boot.sections : DOMAIN word'[k] = DOMAIN Section(k).word
  BY DEF WordsOK
<1>. QED
  BY <1>1, <1>2, <1>3, <1>4 DEF WordsOK

\* Plugins that were relocated stay so.
LEMMA RelocatedFrame ==
  ASSUME RelocatedOK, boot' = boot, word' = word, relocated' = relocated,
         stage \in {"kern_entry", "mcp_entry", "done", "dead"} =>
           stage' \in {"kern_entry", "mcp_entry", "done", "dead"},
         stage' = "kern_entry" => relocated \subseteq 1..cur'
  PROVE  RelocatedOK'
<1>1. \A k : Section(k)' = Section(k) /\ IsElf(k)' = IsElf(k)
  BY DEF Section, IsElf
<1>2. ASSUME NEW k \in relocated \ {1}
      PROVE  Bound(k, Section(k).base)' /\ k \in DOMAIN boot.sections /\ IsElf(k)
  <2>1. Bound(k, Section(k).base) /\ k \in DOMAIN boot.sections /\ IsElf(k)
    BY DEF RelocatedOK
  <2>. QED
    BY <2>1, <1>1, BoundFrame
<1>. QED
  BY <1>1, <1>2 DEF RelocatedOK

\* What minute has passed does not change.
LEMMA PreparedFrame ==
  ASSUME boot' = boot
  PROVE  Prepared' = Prepared
BY DEF Prepared, Is55x

\* The results of the searches stay as they are.
LEMMA PatchedFrame ==
  ASSUME PatchedOK, boot' = boot, prsh' = prsh, patched' = patched,
         \/ stage' = stage
         \/ stage' \in {"phdrs", "mirrors", "register", "link", "config"}
            /\ stage \in {"phdrs", "mirrors", "register", "link", "config"}
         \/ stage \in {"55x", "kern_entry", "mcp_entry"}
            /\ stage' \in {"kern_entry", "mcp_entry", "done", "dead"}
  PROVE  PatchedOK'
<1>1. /\ stage' \in {"phdrs", "mirrors", "register", "link", "config"} => ~prsh'.initialized
      /\ stage' \in {"general", "55x", "kern_entry", "mcp_entry", "done"} =>
           prsh' = [header |-> boot.prsh.magic, initialized |-> TRUE]
  BY DEF PatchedOK
<1>2. SearchFindsFirst'
  BY PreparedFrame DEF PatchedOK, SearchFindsFirst
<1>. QED
  BY <1>1, <1>2 DEF PatchedOK

\* kern_main starts in the invariant.
LEMMA InitInv ==
  ASSUME Init
  PROVE  IInv
<1>1. boot \in Boots /\ stage = "phdrs" /\ cur = 1 /\ elf = boot.elf
  BY DEF Init
<1>2. ImageOK
  BY <1>1, ImageFacts
<1>3. StageOK
  BY <1>1 DEF StageOK, Stages
<1>4. TableOK
  <2>1. Added = 0
    BY <1>1 DEF Added
  <2>2. NumPhdrs(boot.elf) \in Nat /\ \A i \in 0..NumPhdrs(boot.elf) - 1 : boot.elf[i] \in Phdr
    BY <1>2 DEF ImageOK
  <2>3. boot.elf[1].vaddr \in Nat
    <3>1. 1 \in 0..NumPhdrs(boot.elf) - 1
      BY <1>2 DEF ImageOK
    <3>. QED
      BY <3>1, <2>2 DEF Phdr
  <2>. QED
    BY <1>1, <2>1, <2>2, <2>3 DEF TableOK, IOS_SEG_NOTES
<1>5. HeadersOK /\ ClearOK /\ ElfsOK
  BY <1>1 DEF HeadersOK, ClearOK, ElfsOK
<1>6. WordsOK
  <2>1. word = [k \in DOMAIN boot.sections |-> boot.sections[k].word]
    BY DEF Init
  <2>2. \A k : ~Linked(k)
    BY <1>1 DEF Linked
  <2>. QED
    BY <2>1, <2>2 DEF WordsOK, Section
<1>7. RelocatedOK
  BY <1>1 DEF Init, RelocatedOK
<1>8. PatchedOK
  BY <1>1 DEF Init, PatchedOK, SearchFindsFirst
<1>. QED
  BY <1>3, <1>4, <1>5, <1>6, <1>7, <1>8 DEF IInv

\* init_phdrs: only the table of headers changes.
LEMMA InitPhdrsStep ==
  ASSUME IInv, init_phdrs
  PROVE  IInv'
<1>1. /\ stage = "phdrs" /\ stage' = "mirrors" /\ cur' = 1 /\ boot' = boot /\ prsh' = prsh
      /\ elfs' = elfs /\ word' = word /\ relocated' = relocated /\ patched' = patched
  BY DEF init_phdrs, IInv, StageOK
<1>2. StageOK'
  BY <1>1, MirrorsAssumption DEF IInv, StageOK, Stages
<1>3. TableOK' /\ HeadersOK' /\ ClearOK'
  BY InitPhdrs DEF IInv
<1>4. WordsOK'
  BY <1>1, WordsFrame DEF IInv, Raw, Linked
<1>5. RelocatedOK'
  BY <1>1, RelocatedFrame DEF IInv
<1>6. PatchedOK'
  BY <1>1, PatchedFrame DEF IInv
<1>7. ElfsOK'
  BY <1>1 DEF ElfsOK
<1>. QED
  BY <1>2, <1>3, <1>4, <1>5, <1>6, <1>7 DEF IInv

\* add_mirror: the table of headers, and with the last one init_linking registers wafel_core.
LEMMA AddMirrorStep ==
  ASSUME IInv, add_mirror
  PROVE  IInv'
<1>1. /\ stage = "mirrors" /\ cur \in 1..Len(Mirrors) /\ boot' = boot /\ prsh' = prsh
      /\ word' = word /\ relocated' = relocated /\ patched' = patched
  BY DEF add_mirror, IInv, StageOK
<1>2. \/ cur < Len(Mirrors) /\ cur' = cur + 1 /\ stage' = "mirrors"
      \/ cur' = 1 /\ stage' = "register" /\ elfs' = <<1>>
  BY <1>1 DEF add_mirror
<1>3. Len(Mirrors) \in Nat \ {0} /\ boot \in Boots
  BY MirrorsAssumption DEF IInv, StageOK
<1>4. /\ Len(boot.sections) \in Nat \ {0} /\ DOMAIN boot.sections = 1..Len(boot.sections)
      /\ IsElf(1)
  BY <1>3, SectionFacts
<1>5. StageOK'
  BY <1>1, <1>2, <1>3, <1>4 DEF StageOK, Stages
<1>6. TableOK' /\ HeadersOK' /\ ClearOK'
  BY AddMirror DEF IInv
<1>7. WordsOK'
  BY <1>1, <1>2, WordsFrame DEF IInv, Raw, Linked
<1>8. RelocatedOK'
  BY <1>1, <1>2, RelocatedFrame DEF IInv
<1>9. PatchedOK'
  BY <1>1, <1>2, PatchedFrame DEF IInv
<1>10. ElfsOK'
  <2>1. CASE stage' = "mirrors"
    BY <2>1 DEF ElfsOK
  <2>2. CASE cur' = 1 /\ stage' = "register" /\ elfs' = <<1>>
    <3>1. Registered' = {1}
      BY <2>2 DEF Registered
    <3>2. IsElf(1)'
      BY <1>1, <1>4 DEF IsElf, Section
    <3>3. elfs' \in Seq(Nat) /\ DOMAIN elfs' = {1} /\ elfs'[1] = 1
      BY <2>2
    <3>. QED
      BY <3>1, <3>2, <3>3 DEF ElfsOK
  <2>. QED
    BY <1>2, <2>1, <2>2
<1>. QED
  BY <1>5, <1>6, <1>7, <1>8, <1>9, <1>10 DEF IInv

\* wafel_register_plugin: the list of plugins grows in order.
LEMMA RegisterStep ==
  ASSUME IInv, wafel_register_plugin
  PROVE  IInv'
<1>. DEFINE L == Len(boot.sections)
<1>1. /\ stage = "register" /\ cur \in 1..L /\ boot' = boot /\ prsh' = prsh /\ elf' = elf
      /\ word' = word /\ relocated' = relocated /\ patched' = patched /\ boot \in Boots
      /\ Advance("link")
  BY DEF wafel_register_plugin, IInv, StageOK
<1>2. L \in Nat \ {0} /\ DOMAIN boot.sections = 1..L
  BY <1>1, SectionFacts
<1>3. \/ /\ cur < L /\ wafel_plugin_next(cur) = cur + 1 /\ cur' = cur + 1 /\ stage' = "register"
      \/ /\ cur = L /\ wafel_plugin_next(cur) = 0 /\ cur' = 1 /\ stage' = "link"
  BY <1>1, AdvanceIs
<1>4. StageOK'
  BY <1>1, <1>2, <1>3 DEF StageOK, Stages
<1>5. TableOK' /\ HeadersOK' /\ ClearOK'
  BY <1>1, <1>3, TableFrame DEF IInv
<1>6. WordsOK'
  <2>1. \A k \in DOMAIN boot.sections : (Raw(k)' => Raw(k)) /\ (k # 1 /\ Linked(k)' => Linked(k))
    BY <1>1, <1>2, <1>3 DEF Raw, Linked
  <2>. QED
    BY <2>1, <1>1, WordsFrame DEF IInv
<1>7. RelocatedOK'
  BY <1>1, <1>3, RelocatedFrame DEF IInv
<1>8. PatchedOK'
  BY <1>1, <1>3, PatchedFrame DEF IInv
<1>9. /\ elfs \in Seq(Nat)
      /\ \A i \in DOMAIN elfs : elfs[i] \in 1..cur /\ IsElf(elfs[i])
      /\ \A k \in 1..cur : IsElf(k) => \E i \in DOMAIN elfs : elfs[i] = k
      /\ \A i, j \in DOMAIN elfs : i < j => elfs[i] < elfs[j]
  BY <1>1 DEF IInv, ElfsOK, Registered
<1>10. \A k : IsElf(k)' = IsElf(k)
  BY <1>1 DEF IsElf, Section
<1>11. ElfsOK'
  <2>1. CASE cur = L
    <3>1. Registered' = 1..cur /\ elfs' = elfs
      BY <2>1, <1>1, <1>2, <1>3 DEF Registered, wafel_register_plugin, Visit
    <3>. QED
      BY <3>1, <1>9, <1>10 DEF ElfsOK
  <2>2. CASE cur < L /\ ~IsElf(cur + 1)
    <3>1. Registered' = 1..cur + 1 /\ elfs' = elfs
      BY <2>2, <1>1, <1>3 DEF Registered, wafel_register_plugin, Visit
    <3>2. \A k \in 1..cur + 1 : k \in 1..cur \/ k = cur + 1
      BY <1>1
    <3>3. \A k \in 1..cur : k \in 1..cur + 1
      BY <1>1
    <3>. QED
      BY <3>1, <3>2, <3>3, <2>2, <1>9, <1>10 DEF ElfsOK
  <2>3. CASE cur < L /\ IsElf(cur + 1)
    <3>1. Registered' = 1..cur + 1 /\ elfs' = Append(elfs, cur + 1)
      BY <2>3, <1>1, <1>3 DEF Registered, wafel_register_plugin, Visit
    <3>2. \A k \in 1..cur + 1 : k \in 1..cur \/ k = cur + 1
      BY <1>1
    <3>3. \A k \in 1..cur : k \in 1..cur + 1 /\ k < cur + 1
      BY <1>1
    <3>4. /\ elfs' \in Seq(Nat) /\ Len(elfs) \in Nat /\ DOMAIN elfs = 1..Len(elfs)
          /\ DOMAIN elfs' = 1..Len(elfs) + 1 /\ elfs'[Len(elfs) + 1] = cur + 1
          /\ \A i \in 1..Len(elfs) : elfs'[i] = elfs[i]
      BY <3>1, <1>1, <1>9
    <3>5. \A i \in DOMAIN elfs' : i \in DOMAIN elfs \/ i = Len(elfs) + 1
      BY <3>4
    <3>6. \A i \in DOMAIN elfs' : elfs'[i] \in 1..cur + 1 /\ IsElf(elfs'[i])
      <4>1. ASSUME NEW i \in DOMAIN elfs PROVE elfs'[i] \in 1..cur + 1 /\ IsElf(elfs'[i])
        <5>1. elfs'[i] = elfs[i]
          BY <3>4
        <5>2. elfs[i] \in 1..cur /\ IsElf(elfs[i])
          BY <1>9
        <5>. QED
          BY <5>1, <5>2, <3>3
      <4>2. elfs'[Len(elfs) + 1] \in 1..cur + 1 /\ IsElf(elfs'[Len(elfs) + 1])
        BY <3>4, <2>3, <1>1
      <4>. QED
        BY <4>1, <4>2, <3>5
    <3>7. \A k \in 1..cur + 1 : IsElf(k) => \E i \in DOMAIN elfs' : elfs'[i] = k
      <4>1. DOMAIN elfs \subseteq DOMAIN elfs' /\ Len(elfs) + 1 \in DOMAIN elfs'
        BY <3>4
      <4>. QED
        BY <4>1, <3>2, <3>4, <1>9
    <3>8. ASSUME NEW i \in DOMAIN elfs', NEW j \in DOMAIN elfs', i < j
          PROVE  elfs'[i] < elfs'[j]
      <4>1. i \in DOMAIN elfs
        BY <3>4, <3>8
      <4>2. CASE j \in DOMAIN elfs
        BY <4>1, <4>2, <3>4, <3>8, <1>9
      <4>3. CASE j = Len(elfs) + 1
        BY <4>1, <4>3, <3>3, <3>4, <1>9
      <4>. QED
        BY <4>2, <4>3, <3>5
    <3>. QED
      BY <3>1, <3>4, <3>6, <3>7, <3>8, <1>10 DEF ElfsOK
  <2>. QED
    BY <2>1, <2>2, <2>3, <1>3
<1>. QED
  BY <1>4, <1>5, <1>6, <1>7, <1>8, <1>11 DEF IInv

\* Once all are registered, the list stays.
LEMMA ElfsFrame ==
  ASSUME ElfsOK, boot' = boot, elfs' = elfs,
         stage \notin {"phdrs", "mirrors", "register"}, stage' \notin {"phdrs", "mirrors", "register"}
  PROVE  ElfsOK'
<1>1. Registered' = Registered
  BY DEF Registered
<1>2. \A k : IsElf(k)' = IsElf(k)
  BY DEF IsElf, Section
<1>. QED
  BY <1>1, <1>2 DEF ElfsOK

\* link: the next section is linked, the others keep their words.
LEMMA LinkStep ==
  ASSUME IInv, link
  PROVE  IInv'
<1>. DEFINE L == Len(boot.sections)
            k == cur + 1
<1>1. /\ stage = "link" /\ cur \in 1..L /\ boot' = boot /\ prsh' = prsh /\ elf' = elf
      /\ elfs' = elfs /\ relocated' = relocated /\ patched' = patched /\ boot \in Boots
      /\ Advance("config")
  BY DEF link, IInv, StageOK
<1>2. L \in Nat \ {0} /\ DOMAIN boot.sections = 1..L
  BY <1>1, SectionFacts
<1>3. \/ /\ cur < L /\ wafel_plugin_next(cur) = cur + 1 /\ cur' = cur + 1 /\ stage' = "link"
      \/ /\ cur = L /\ wafel_plugin_next(cur) = 0 /\ cur' = 1 /\ stage' = "config"
  BY <1>1, AdvanceIs
<1>4. StageOK'
  BY <1>1, <1>2, <1>3 DEF StageOK, Stages
<1>5. TableOK' /\ HeadersOK' /\ ClearOK'
  BY <1>1, <1>3, TableFrame DEF IInv
<1>6. PatchedOK'
  BY <1>1, <1>3, PatchedFrame DEF IInv
<1>7. ElfsOK'
  BY <1>1, <1>3, ElfsFrame DEF IInv
<1>8. RelocatedOK'
  <2>1. relocated = {1}
    BY <1>1 DEF IInv, RelocatedOK
  <2>. QED
    BY <2>1, <1>1, <1>3 DEF RelocatedOK
<1>9. CASE ~(cur < L /\ IsElf(k))
  <2>1. word' = word
    BY <1>1, <1>3, <1>9 DEF link, Visit
  <2>2. CASE cur = L
    <3>1. \A j \in DOMAIN boot.sections : (Raw(j)' => Raw(j)) /\ (j # 1 /\ Linked(j)' => Linked(j))
      BY <2>2, <1>1, <1>2, <1>3 DEF Raw, Linked
    <3>. QED
      BY <3>1, <2>1, <1>1, <1>4, <1>5, <1>6, <1>7, <1>8, WordsFrame DEF IInv
  <2>3. CASE cur < L /\ ~IsElf(k)
    <3>1. WordsOK /\ stage' = "link" /\ cur' = k
      BY <2>3, <1>3 DEF IInv
    <3>2. \A j : Section(j)' = Section(j) /\ IsElf(j)' = IsElf(j)
      BY <1>1 DEF Section, IsElf
    <3>3. \A j \in DOMAIN boot.sections : Raw(j)' => Raw(j)
      BY <3>1, <1>1, <1>2 DEF Raw
    <3>4. \A j \in DOMAIN boot.sections : Linked(j)' => Linked(j) \/ j = k
      BY <3>1, <1>1, <1>2 DEF Linked
    <3>5. ASSUME NEW j \in DOMAIN boot.sections \ {1}, IsElf(j), Linked(j)'
          PROVE  Bound(j, 0)'
      <4>1. Linked(j)
        BY <3>4, <3>5, <2>3
      <4>2. Bound(j, 0)
        BY <4>1, <3>1, <3>5 DEF WordsOK
      <4>. QED
        BY <4>2, <2>1, <1>1, BoundFrame
    <3>6. WordsOK'
      BY <3>1, <3>2, <3>3, <3>5, <2>1, <1>1 DEF WordsOK
    <3>. QED
      BY <3>6, <1>4, <1>5, <1>6, <1>7, <1>8 DEF IInv
  <2>. QED
    BY <2>2, <2>3, <1>3, <1>9
<1>10. CASE cur < L /\ IsElf(k)
  <2>0. PICK q \in DOMAIN boot.sections : q = cur + 1
    BY <1>1, <1>2, <1>10
  <2>1. /\ stage' = "link" /\ cur' = q /\ wafel_link_plugin(q)
        /\ IsElf(q) /\ q # 1
    BY <1>1, <1>2, <1>3, <1>10, <2>0 DEF link, Visit
  <2>2. word[q] = Section(q).word
    <3>1. Raw(q)
      BY <1>1, <2>0 DEF Raw
    <3>. QED
      BY <3>1, <2>1 DEF IInv, WordsOK
  <2>3. /\ word' = [j \in DOMAIN boot.sections |-> word'[j]]
        /\ \A j \in DOMAIN boot.sections \ {q} : word'[j] = word[j]
        /\ DOMAIN word'[q] = DOMAIN word[q]
        /\ Bound(q, 0)'
    BY <2>1, <2>2, <1>1, <1>10, LinkBinds DEF IInv
  <2>4. \A j : Section(j)' = Section(j) /\ IsElf(j)' = IsElf(j)
    BY <1>1 DEF Section, IsElf
  <2>5. \A j \in DOMAIN boot.sections : Raw(j)' => Raw(j) /\ j # q
    BY <2>0, <2>1, <1>1, <1>2 DEF Raw
  <2>6. \A j \in DOMAIN boot.sections : Linked(j)' => Linked(j) \/ j = q
    BY <2>0, <2>1, <1>1, <1>2 DEF Linked
  <2>7. ASSUME NEW j \in DOMAIN boot.sections \ {1}, IsElf(j), Linked(j)'
        PROVE  Bound(j, 0)'
    <3>1. CASE j = q
      BY <3>1, <2>3
    <3>2. CASE j # q
      <4>1. Bound(j, 0)
        BY <3>2, <2>6, <2>7 DEF IInv, WordsOK
      <4>. QED
        BY <4>1, <3>2, <2>3, <1>1, BoundFrame
    <3>. QED
      BY <3>1, <3>2
  <2>8. \A j \in DOMAIN boot.sections : DOMAIN word'[j] = DOMAIN Section(j).word
    <3>1. \A j \in DOMAIN boot.sections : DOMAIN word[j] = DOMAIN Section(j).word
      BY DEF IInv, WordsOK
    <3>. QED
      BY <3>1, <2>3
  <2>9. \A j \in DOMAIN boot.sections : Raw(j)' => word'[j] = Section(j).word
    BY <2>3, <2>5 DEF IInv, WordsOK
  <2>10. WordsOK'
    BY <2>3, <2>4, <2>7, <2>8, <2>9, <1>1 DEF WordsOK
  <2>. QED
    BY <2>10, <1>4, <1>5, <1>6, <1>7, <1>8 DEF IInv
<1>. QED
  BY <1>9, <1>10

\* init_config: goes on only with the parameters of minute.
LEMMA ConfigStep ==
  ASSUME IInv, init_config
  PROVE  IInv'
<1>1. /\ stage = "config" /\ cur' = cur /\ cur = 1 /\ boot' = boot /\ elf' = elf /\ word' = word
      /\ elfs' = elfs /\ relocated' = relocated /\ patched' = patched /\ boot \in Boots
      /\ stage' \in {"general", "dead"}
  BY DEF init_config, IInv, StageOK
<1>2. StageOK'
  BY <1>1 DEF StageOK, Stages
<1>3. TableOK' /\ HeadersOK' /\ ClearOK'
  BY <1>1, TableFrame DEF IInv
<1>4. ElfsOK'
  BY <1>1, ElfsFrame DEF IInv
<1>5. WordsOK'
  BY <1>1, WordsFrame DEF IInv, Raw, Linked
<1>6. RelocatedOK'
  BY <1>1, RelocatedFrame DEF IInv
<1>7. PatchedOK'
  <2>1. ~prsh.initialized
    BY <1>1 DEF IInv, PatchedOK
  <2>2. prsh' = [header |-> boot.prsh.magic, initialized |-> TRUE]
    BY <2>1 DEF init_config, prsh_init
  <2>3. ASSUME Prepared PROVE stage' = "general"
    <3>1. Is55x(elf) = Is55x(boot.elf)
      <4>1. NotesIntact
        BY NotesFromTable DEF IInv
      <4>2. ios_elf_get_module_entrypoint(elf, "IOS_MCP")
              = ios_elf_get_module_entrypoint(boot.elf, "IOS_MCP")
        BY <4>1 DEF NotesIntact, ios_elf_get_module_entrypoint
      <4>. QED
        BY <4>2 DEF Is55x
    <3>. QED
      BY <2>2, <2>3, <3>1 DEF init_config, prsh_get_entry, Prepared
  <2>4. Prepared' = Prepared
    BY <1>1, PreparedFrame
  <2>5. SearchFindsFirst'
    BY <2>3, <2>4 DEF SearchFindsFirst
  <2>6. patched = [found |-> patched.found, otp |-> patched.otp, mmu |-> patched.mmu,
                   sites |-> patched.sites]
    BY DEF IInv, PatchedOK
  <2>. QED
    BY <2>2, <2>5, <2>6, <1>1 DEF PatchedOK
<1>. QED
  BY <1>2, <1>3, <1>4, <1>5, <1>6, <1>7 DEF IInv

\* patch_general: its searches are right, whatever the text.
LEMMA GeneralStep ==
  ASSUME IInv, patch_general
  PROVE  IInv'
<1>1. /\ stage = "general" /\ cur' = cur /\ cur = 1 /\ boot' = boot /\ elf' = elf /\ word' = word
      /\ elfs' = elfs /\ relocated' = relocated /\ boot \in Boots
      /\ stage' \in {"55x", "dead"}
  BY DEF patch_general, IInv, StageOK
<1>2. StageOK'
  BY <1>1 DEF StageOK, Stages
<1>3. TableOK' /\ HeadersOK' /\ ClearOK'
  BY <1>1, TableFrame DEF IInv
<1>4. ElfsOK'
  BY <1>1, ElfsFrame DEF IInv
<1>5. WordsOK'
  BY <1>1, WordsFrame DEF IInv, Raw, Linked
<1>6. RelocatedOK'
  BY <1>1, RelocatedFrame DEF IInv
<1>7. PatchedOK'
  <2>. DEFINE found == boyer_moore_search(boot.text, boot.otp_pattern)
              mmu == boyer_moore_search(boot.text, boot.mmu_pattern)
  <2>1. prsh = [header |-> boot.prsh.magic, initialized |-> TRUE]
    BY <1>1 DEF IInv, PatchedOK
  <2>2. prsh' = prsh
    BY <2>1 DEF patch_general, prsh_init
  <2>3. /\ boot.text \in Seq(STRING)
        /\ boot.otp_pattern \in Seq(STRING) /\ boot.otp_pattern # <<>>
        /\ boot.mmu_pattern \in Seq(STRING) /\ boot.mmu_pattern # <<>>
    BY <1>1, TextAssumption
  <2>4. /\ mmu = FirstOccurrence(boot.text, boot.mmu_pattern)
        /\ found = FirstOccurrence(boot.text, boot.otp_pattern)
    BY <2>3, SearchCorrect
  <2>5. patched = [found |-> patched.found, otp |-> patched.otp, mmu |-> patched.mmu,
                   sites |-> patched.sites]
    BY DEF IInv, PatchedOK
  <2>6. PICK x, y : patched' = [patched EXCEPT !.found = x, !.otp = y, !.mmu = mmu]
                    /\ x = IF prsh_get_entry("otp") THEN found ELSE NULL
    BY DEF patch_general
  <2>. HIDE DEF mmu, found
  <2>7. patched' = [found |-> x, otp |-> y, mmu |-> mmu, sites |-> patched.sites]
    BY <2>5, <2>6
  <2>8. ASSUME Prepared, "otp" \in boot.prsh.names PROVE x = found
    BY <2>1, <2>2, <2>6, <2>8 DEF Prepared, prsh_get_entry
  <2>9. Prepared' = Prepared
    BY <1>1, PreparedFrame
  <2>10. SearchFindsFirst'
    BY <2>4, <2>7, <2>8, <2>9, <1>1 DEF SearchFindsFirst
  <2>. QED
    BY <2>1, <2>2, <2>7, <2>10, <1>1 DEF PatchedOK
<1>. QED
  BY <1>2, <1>3, <1>4, <1>5, <1>6, <1>7 DEF IInv

\* patch_55x: only the list of patched sites changes.
LEMMA Patch55xStep ==
  ASSUME IInv, patch_55x
  PROVE  IInv'
<1>1. /\ stage = "55x" /\ cur' = cur /\ cur = 1 /\ boot' = boot /\ elf' = elf /\ word' = word
      /\ elfs' = elfs /\ relocated' = relocated /\ prsh' = prsh /\ boot \in Boots
      /\ stage' = "kern_entry"
  BY DEF patch_55x, IInv, StageOK
<1>2. Len(boot.sections) \in Nat \ {0} /\ DOMAIN boot.sections = 1..Len(boot.sections)
  BY <1>1, SectionFacts
<1>3. StageOK'
  BY <1>1, <1>2 DEF StageOK, Stages
<1>4. TableOK' /\ HeadersOK' /\ ClearOK'
  BY <1>1, TableFrame DEF IInv
<1>5. ElfsOK'
  BY <1>1, ElfsFrame DEF IInv
<1>6. WordsOK'
  <2>1. \A k \in DOMAIN boot.sections : (Raw(k)' => Raw(k)) /\ (k # 1 /\ Linked(k)' => Linked(k))
    BY <1>1, <1>2 DEF Raw, Linked
  <2>. QED
    BY <2>1, <1>1, WordsFrame DEF IInv
<1>7. RelocatedOK'
  <2>1. relocated = {1}
    BY <1>1 DEF IInv, RelocatedOK
  <2>. QED
    BY <2>1, <1>1, RelocatedFrame DEF IInv
<1>8. PatchedOK'
  <2>1. patched = [found |-> patched.found, otp |-> patched.otp, mmu |-> patched.mmu,
                   sites |-> patched.sites]
    BY DEF IInv, PatchedOK
  <2>2. PICK s : patched' = [patched EXCEPT !.sites = s]
    <3>1. patched = [patched EXCEPT !.sites = patched.sites]
      BY <2>1
    <3>. QED
      BY <3>1 DEF patch_55x
  <2>3. patched' = [found |-> patched.found, otp |-> patched.otp, mmu |-> patched.mmu, sites |-> s]
    BY <2>1, <2>2
  <2>4. SearchFindsFirst'
    <3>1. SearchFindsFirst
      BY DEF IInv, PatchedOK
    <3>2. Prepared' = Prepared
      BY <1>1, PreparedFrame
    <3>. QED
      BY <3>1, <3>2, <2>3, <1>1 DEF SearchFindsFirst
  <2>. QED
    BY <2>3, <2>4, <1>1 DEF IInv, PatchedOK
<1>. QED
  BY <1>3, <1>4, <1>5, <1>6, <1>7, <1>8 DEF IInv

\* call_plugin_entry: a plugin that is entered moves its own words, once.
LEMMA CallStep ==
  ASSUME IInv, call_plugin_entry
  PROVE  IInv'
<1>. DEFINE L == Len(boot.sections)
            next == IF stage = "kern_entry" THEN "mcp_entry" ELSE "done"
<1>1. /\ stage \in {"kern_entry", "mcp_entry"} /\ cur \in 1..L /\ boot' = boot /\ prsh' = prsh
      /\ elf' = elf /\ elfs' = elfs /\ patched' = patched /\ boot \in Boots
  BY DEF call_plugin_entry, IInv, StageOK
<1>2. L \in Nat \ {0} /\ DOMAIN boot.sections = 1..L
  BY <1>1, SectionFacts
\* the next section, if it has the entry point and its import of __wafel_dynamic is bound
<1>3. \/ /\ Advance(next) /\ word' = word /\ relocated' = relocated
      \/ /\ stage' = "dead" /\ cur' = cur /\ word' = word /\ relocated' = relocated
      \/ /\ stage = "kern_entry" /\ Visit(wafel_plugin_next(cur)) /\ Advance("mcp_entry")
         /\ __wafel_dynamic(wafel_plugin_next(cur))
  BY <1>1 DEF call_plugin_entry, kern_entry, mcp_entry
<1>4. ASSUME NEW n, Advance(n)
      PROVE  \/ /\ cur < L /\ wafel_plugin_next(cur) = cur + 1 /\ cur' = cur + 1 /\ stage' = stage
             \/ /\ cur = L /\ wafel_plugin_next(cur) = 0 /\ cur' = 1 /\ stage' = n
  BY <1>1, <1>4, AdvanceIs
<1>5. /\ stage' \in {"kern_entry", "mcp_entry", "done", "dead"}
      /\ stage' \in {"kern_entry", "mcp_entry"} => cur' \in 1..L
  <2>1. CASE stage' = "dead"
    BY <2>1
  <2>2. CASE Advance(next)
    BY <2>2, <1>1, <1>2, <1>4
  <2>3. CASE Advance("mcp_entry")
    BY <2>3, <1>1, <1>2, <1>4
  <2>. QED
    BY <2>1, <2>2, <2>3, <1>3
<1>6. StageOK'
  BY <1>1, <1>5 DEF StageOK, Stages
<1>7. TableOK' /\ HeadersOK' /\ ClearOK'
  BY <1>1, <1>5, TableFrame DEF IInv
<1>8. ElfsOK'
  BY <1>1, <1>5, ElfsFrame DEF IInv
<1>9. PatchedOK'
  BY <1>1, <1>5, PatchedFrame DEF IInv
<1>10. CASE Advance(next) /\ word' = word /\ relocated' = relocated
  <2>1. \/ cur < L /\ cur' = cur + 1 /\ stage' = stage
        \/ cur = L /\ cur' = 1 /\ stage' = next
    BY <1>4, <1>10
  <2>2. \A k \in DOMAIN boot.sections : (Raw(k)' => Raw(k)) /\ (k # 1 /\ Linked(k)' => Linked(k))
    BY <2>1, <1>1, <1>2 DEF Raw, Linked
  <2>3. stage' = "kern_entry" => relocated \subseteq 1..cur'
    <3>1. stage' = "kern_entry" => stage = "kern_entry" /\ cur' = cur + 1
      BY <2>1, <1>1
    <3>2. stage = "kern_entry" => relocated \subseteq 1..cur
      BY DEF IInv, RelocatedOK
    <3>3. 1..cur \subseteq 1..cur + 1
      BY <1>1
    <3>. QED
      BY <3>1, <3>2, <3>3
  <2>4. WordsOK' /\ RelocatedOK'
    BY <2>2, <2>3, <1>1, <1>5, <1>10, WordsFrame, RelocatedFrame DEF IInv
  <2>. QED
    BY <2>4, <1>6, <1>7, <1>8, <1>9 DEF IInv
<1>11. CASE stage' = "dead" /\ cur' = cur /\ word' = word /\ relocated' = relocated
  <2>1. WordsOK' /\ RelocatedOK'
    BY <1>1, <1>11, WordsFrame, RelocatedFrame DEF IInv, Raw, Linked
  <2>. QED
    BY <2>1, <1>6, <1>7, <1>8, <1>9 DEF IInv
<1>12. CASE /\ stage = "kern_entry" /\ Visit(wafel_plugin_next(cur)) /\ Advance("mcp_entry")
            /\ __wafel_dynamic(wafel_plugin_next(cur))
  <2>1. cur < L /\ wafel_plugin_next(cur) = cur + 1 /\ cur' = cur + 1 /\ stage' = "kern_entry"
    BY <1>4, <1>12 DEF Visit
  <2>2. PICK k \in DOMAIN boot.sections : k = cur + 1
    BY <2>1, <1>1, <1>2
  <2>3. IsElf(k) /\ k # 1 /\ __wafel_dynamic(k)
    BY <2>1, <2>2, <1>1, <1>12 DEF Visit
  <2>4. relocated \subseteq 1..cur /\ k \notin relocated
    BY <2>2, <1>1, <1>12 DEF IInv, RelocatedOK
  <2>5. WordsOK /\ RelocatedOK
    BY DEF IInv
  <2>6. Bound(k, 0)
    <3>1. Linked(k)
      BY <2>2, <1>1, <1>12 DEF Linked
    <3>. QED
      BY <3>1, <2>3, <2>5 DEF WordsOK
  <2>7. /\ relocated' = relocated \cup {k}
        /\ word' = [j \in DOMAIN boot.sections |-> word'[j]]
        /\ \A j \in DOMAIN boot.sections \ {k} : word'[j] = word[j]
        /\ DOMAIN word'[k] = DOMAIN word[k]
        /\ Bound(k, Section(k).base)'
    BY <2>3, <2>4, <2>5, <2>6, <1>1, DynamicMoves
  <2>8. \A j : Section(j)' = Section(j) /\ IsElf(j)' = IsElf(j)
    BY <1>1 DEF Section, IsElf
  <2>9. \A j \in DOMAIN boot.sections : ~Raw(j)' /\ (Linked(j)' => Linked(j) /\ j # k)
    BY <2>1, <2>2, <1>1, <1>2, <1>12 DEF Raw, Linked
  <2>10. ASSUME NEW j \in DOMAIN boot.sections \ {1}, IsElf(j), Linked(j)'
         PROVE  Bound(j, 0)'
    <3>1. Bound(j, 0) /\ j # k
      BY <2>5, <2>9, <2>10 DEF WordsOK
    <3>. QED
      BY <3>1, <2>7, <1>1, BoundFrame
  <2>11. \A j \in DOMAIN boot.sections : DOMAIN word'[j] = DOMAIN Section(j).word
    <3>1. \A j \in DOMAIN boot.sections : DOMAIN word[j] = DOMAIN Section(j).word
      BY <2>5 DEF WordsOK
    <3>. QED
      BY <3>1, <2>7
  <2>12. WordsOK'
    BY <2>7, <2>8, <2>9, <2>10, <2>11, <1>1 DEF WordsOK
  <2>13. ASSUME NEW j \in relocated' \ {1}
         PROVE  j \in DOMAIN boot.sections /\ IsElf(j) /\ Bound(j, Section(j).base)'
    <3>1. CASE j = k
      BY <3>1, <2>3, <2>7
    <3>2. CASE j # k
      <4>1. j \in DOMAIN boot.sections /\ IsElf(j) /\ Bound(j, Section(j).base)
        BY <3>2, <2>5, <2>7 DEF RelocatedOK
      <4>. QED
        BY <4>1, <3>2, <2>7, <2>8, <1>1, BoundFrame
    <3>. QED
      BY <3>1, <3>2
  <2>14. relocated' \subseteq 1..cur'
    <3>1. 1..cur \subseteq 1..cur + 1 /\ cur + 1 \in 1..cur + 1
      BY <1>1
    <3>. QED
      BY <3>1, <2>1, <2>2, <2>4, <2>7
  <2>15. RelocatedOK'
    BY <2>1, <2>8, <2>13, <2>14, <1>1 DEF RelocatedOK
  <2>. QED
    BY <2>12, <2>15, <1>6, <1>7, <1>8, <1>9 DEF IInv
<1>. QED
  BY <1>3, <1>10, <1>11, <1>12

\* A step that changes nothing
LEMMA Stutter ==
  ASSUME IInv, UNCHANGED vars
  PROVE  IInv'
<1>1. /\ boot' = boot /\ stage' = stage /\ cur' = cur /\ elf' = elf /\ prsh' = prsh /\ elfs' = elfs
      /\ word' = word /\ relocated' = relocated /\ patched' = patched
  BY DEF vars
<1>2. StageOK'
  BY <1>1 DEF IInv, StageOK
<1>3. TableOK' /\ HeadersOK' /\ ClearOK'
  <2>1. Added' = Added /\ At' = At /\ Base' = Base
    BY <1>1 DEF Added, At, Base, Section
  <2>. QED
    BY <1>1, <2>1 DEF IInv, TableOK, HeadersOK, ClearOK, Mirror
<1>4. ElfsOK'
  <2>1. Registered' = Registered /\ \A k : IsElf(k)' = IsElf(k)
    BY <1>1 DEF Registered, IsElf, Section
  <2>. QED
    BY <1>1, <2>1 DEF IInv, ElfsOK
<1>5. WordsOK'
  BY <1>1, WordsFrame DEF IInv, Raw, Linked
<1>6. RelocatedOK'
  <2>1. stage = "kern_entry" => relocated \subseteq 1..cur
    BY DEF IInv, RelocatedOK
  <2>. QED
    BY <2>1, <1>1, RelocatedFrame DEF IInv
<1>7. PatchedOK'
  BY <1>1, PatchedFrame DEF IInv
<1>. QED
  BY <1>2, <1>3, <1>4, <1>5, <1>6, <1>7 DEF IInv

\* Every step of kern_main and mcp_main keeps the invariant: of the table of headers, the
\* list of plugins, their words and the results of the searches.
THEOREM BootInvariant == Spec => []IInv
<1>1. Init => IInv
  BY InitInv
<1>2. ASSUME IInv, [Next]_vars PROVE IInv'
  BY <1>2, InitPhdrsStep, AddMirrorStep, RegisterStep, LinkStep, ConfigStep, GeneralStep,
     Patch55xStep, CallStep, Stutter DEF Next
<1>. QED
  BY <1>1, <1>2, PTL DEF Spec

\* For any list of sections that ld and minute have made: when a plugin has been entered,
\* each of its imports is the first definition among all plugins, or its own, or null, and
\* each of its addresses was moved once (wafel_link_plugin, __wafel_dynamic).
THEOREM PluginsLinked == Spec => []ImportsBound
<1>1. ASSUME IInv PROVE ImportsBound
  <2>. SUFFICES ASSUME NEW k \in relocated \ {1}, NEW i \in DOMAIN Section(k).rel
                PROVE  word[k][Section(k).rel[i].offset] =
                         IF Section(k).rel[i].type = "RELATIVE"
                           THEN Section(k).word[Section(k).rel[i].offset] + Section(k).base
                         ELSE Import(k, Section(k).rel[i].name)
    BY DEF ImportsBound, Import
  <2>1. Bound(k, Section(k).base)
    BY <1>1 DEF IInv, RelocatedOK
  <2>. QED
    BY <2>1 DEF Bound
<1>. QED
  BY <1>1, BootInvariant, PTL

\* For any image, mirrors and place of wafel_core that are clear of each other: after
\* init_phdrs an address of IOSU's segments is translated as before, the mirrors show
\* wafel_core, and no two segments overlap (ios_elf_add_phdr, ios_elf_vaddr_to_paddr).
THEOREM ImageMapped == Spec => []MapSound
<1>1. ASSUME IInv PROVE MapSound
  BY <1>1, MapFromShape DEF IInv
<1>. QED
  BY <1>1, BootInvariant, PTL

\* For any image and any number of mirrors the notes are what they were, whatever
\* ios_elf_add_phdr has moved.
THEOREM NotesKept == Spec => []NotesIntact
<1>1. ASSUME IInv PROVE NotesIntact
  BY <1>1, NotesFromTable DEF IInv
<1>. QED
  BY <1>1, BootInvariant, PTL

\* For any firmware and any patterns, what patch_general acts on is the first match of each
\* pattern, or that there is none (boyer_moore_search).
THEOREM FirstMatchPatched == Spec => []SearchFindsFirst
<1>1. ASSUME IInv PROVE SearchFindsFirst
  BY <1>1 DEF IInv, PatchedOK
<1>. QED
  BY <1>1, BootInvariant, PTL
=============================================================================
