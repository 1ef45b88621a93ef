-------------------------- MODULE TextTools_proofs --------------------------
(***************************************************************************)
(* What TextTools checks of some texts, for every text: whatever utf was   *)
(* asked to convert, the files stand for the text, and what the Polybius   *)
(* cipher encrypts it decrypts.  The proofs go along the text: what a loop *)
(* of the program leaves is a fold, a fold is a recursion over the         *)
(* numbers, and the pieces that one loop writes are the pieces that        *)
(* another one takes off, one by one.                                      *)
(***************************************************************************)
EXTENDS TextTools, SequenceTheorems, FiniteSetTheorems, NaturalsInduction,
        WellFoundedInduction, TLAPS

-----------------------------------------------------------------------------
(* Single characters and places *)

\* The code points that are no surrogates.
CodePoints == {c \in Nat : c < \hD800 \/ (\hDFFF < c /\ c <= \h10FFFF)}

\* A code point is one unit or a pair of surrogates.  The pair is read back,
\* by the decoder and by is_upper_surrogate_pair, unless it begins with the
\* first or the last of the upper surrogates (utf.c:95-126).
THEOREM Utf16ReadsBack ==
  ASSUME NEW c \in CodePoints, NEW g, g = U!code_point_to_utf16_glyph(c)
  PROVE  \/ g = <<c>> /\ c <= \hFFFF /\ U!utf16_glyph_to_code_point(g[1], 0) = c
         \/ /\ Len(g) = 2
            /\ \hD800 <= g[1] /\ g[1] <= \hDBFF /\ \hDC00 <= g[2] /\ g[2] <= \hDFFF
            /\ U!is_upper_surrogate_pair(g[1]) <=> ~AtTheEdge(c)
            /\ ~AtTheEdge(c) => U!utf16_glyph_to_code_point(g[1], g[2]) = c
<1>0. c \in Nat /\ c <= 1114111 /\ (c < 55296 \/ 57343 < c)
  BY SMT DEF CodePoints
<1>1. CASE c < 65536
  <2>1. g = <<c>>
    BY SMT, <1>0, <1>1 DEF U!code_point_to_utf16_glyph, U!is_code_point_surrogate
  <2>2. ~U!is_upper_surrogate_pair(c)
    BY SMT, <1>0, <1>1 DEF U!is_upper_surrogate_pair
  <2> QED
    BY SMT, <1>0, <1>1, <2>1, <2>2 DEF U!utf16_glyph_to_code_point
<1>2. CASE c >= 65536
  <2> DEFINE high == (c - 65536) \div 1024
             low == (c - 65536) % 1024
  <2>1. /\ high \in Nat /\ high < 1024 /\ low \in Nat /\ low < 1024
        /\ c = (1024 * high) + low + 65536
    BY SMT, <1>0, <1>2
  <2>2. g = <<high + 55296, low + 56320>>
    BY SMT, <1>0, <1>2 DEF U!code_point_to_utf16_glyph, U!is_code_point_surrogate
  <2>3. AtTheEdge(c) <=> high = 0 \/ high = 1023
    BY SMT, <1>0, <1>2 DEF AtTheEdge
  <2> HIDE DEF high, low
  <2>4. U!is_upper_surrogate_pair(g[1]) <=> high > 0 /\ high < 1023
    BY SMT, <2>1, <2>2 DEF U!is_upper_surrogate_pair
  <2>5. ASSUME U!is_upper_surrogate_pair(g[1])
        PROVE  U!utf16_glyph_to_code_point(g[1], g[2]) = c
    BY SMT, <2>1, <2>2, <2>5 DEF U!utf16_glyph_to_code_point
  <2>6. /\ Len(g) = 2
        /\ 55296 <= g[1] /\ g[1] <= 56319 /\ 56320 <= g[2] /\ g[2] <= 57343
    BY SMT, <2>1, <2>2
  <2> QED
    BY SMT, <2>1, <2>3, <2>4, <2>5, <2>6
<1> QED
  BY SMT, <1>0, <1>1, <1>2

-----------------------------------------------------------------------------
(* Induction, and what a fold computes *)

\* A set of natural numbers that is not empty has a least element.
LEMMA LeastOf ==
  ASSUME NEW S \in SUBSET Nat, S # {}
  PROVE  \E m \in S : \A n \in S : m <= n
<1>1. PICK m \in S : \A n \in S : ~ (<<n, m>> \in OpToRel(<, Nat))
  BY NatLessThanWellFounded, WFMin
<1>2. \A n \in S : m <= n
  <2> TAKE n \in S
  <2>1. ~(n < m)
    BY <1>1 DEF OpToRel
  <2> QED
    BY <2>1
<1> QED
  BY <1>2

\* Induction, for a set of natural numbers.
LEMMA Induction ==
  ASSUME NEW S \in SUBSET Nat, 0 \in S, \A n \in S : n + 1 \in S
  PROVE  S = Nat
<1> DEFINE D == Nat \ S
<1>1. SUFFICES ASSUME D # {} PROVE FALSE
  OBVIOUS
<1>2. PICK n \in D : \A m \in D : n <= m
  BY <1>1, LeastOf
<1>3. n # 0 /\ n - 1 \in Nat /\ n - 1 \notin D
  BY <1>2
<1>4. (n - 1) + 1 \in S
  BY <1>2, <1>3
<1> QED
  BY <1>2, <1>4

\* The same up to a bound.
LEMMA InductionUpTo ==
  ASSUME NEW n \in Nat, NEW S, 0 \in S, \A i \in 0 .. n - 1 : i \in S => i + 1 \in S
  PROVE  \A i \in 0 .. n : i \in S
<1> DEFINE G == {i \in Nat : i <= n => i \in S}
<1>1. 0 \in G
  OBVIOUS
<1>2. ASSUME NEW i \in G PROVE i + 1 \in G
  BY <1>2
<1>3. G = Nat
  BY <1>1, <1>2, Induction, Zenon
<1> QED
  BY <1>3

\* Induction, for a set of sequences.
LEMMA SeqInduction ==
  ASSUME NEW A, NEW G \in SUBSET Seq(A), <<>> \in G, \A s \in G : \A a \in A : Append(s, a) \in G
  PROVE  G = Seq(A)
<1> DEFINE N == {n \in Nat : \A s \in Seq(A) : Len(s) = n => s \in G}
<1>1. 0 \in N
  BY EmptySeq
<1>2. ASSUME NEW n \in N PROVE n + 1 \in N
  <2> SUFFICES ASSUME NEW s \in Seq(A), Len(s) = n + 1 PROVE s \in G
    BY <1>2
  <2>1. s # <<>>
    BY EmptySeq, <1>2
  <2>2. PICK r \in Seq(A), a \in A : s = Append(r, a)
    BY <2>1, SequenceEmptyOrAppend
  <2>3. Len(r) = n
    BY <2>2, AppendProperties, LenProperties, <1>2
  <2>4. r \in G
    BY <2>3, <1>2
  <2> QED
    BY <2>2, <2>4
<1>3. N = Nat
  BY <1>1, <1>2, Induction, Zenon
<1> QED
  BY <1>3, LenProperties

\* The recursions along the numbers up to n, from base.
Runs(S, n, base, g) ==
  {r \in [0 .. n -> S] : r[0] = base /\ \A i \in 1 .. n : r[i] = g[i][r[i - 1]]}

\* There is one.
LEMMA Recursion ==
  ASSUME NEW S, NEW n \in Nat, NEW base \in S, NEW g \in [1 .. n -> [S -> S]]
  PROVE  \E r : r \in Runs(S, n, base, g)
<1> DEFINE G == {m \in 0 .. n : \E r : r \in Runs(S, m, base, g)}
<1>1. 0 \in G
  <2>1. [i \in 0 .. 0 |-> base] \in Runs(S, 0, base, g)
    BY DEF Runs
  <2> QED
    BY <2>1
<1>2. ASSUME NEW m \in 0 .. n - 1 PROVE m \in G => m + 1 \in G
  <2> SUFFICES ASSUME m \in G PROVE m + 1 \in G
    OBVIOUS
  <2>1. PICK r : r \in Runs(S, m, base, g)
    OBVIOUS
  <2> DEFINE q == [i \in 0 .. m + 1 |-> IF i = m + 1 THEN g[m + 1][r[m]] ELSE r[i]]
  <2>2. g[m + 1] \in [S -> S] /\ r[m] \in S
    BY <2>1 DEF Runs
  <2>3. q \in [0 .. m + 1 -> S] /\ q[0] = base
    BY <2>1, <2>2 DEF Runs
  <2>4. ASSUME NEW i \in 1 .. m + 1 PROVE q[i] = g[i][q[i - 1]]
    BY <2>1 DEF Runs
  <2>5. q \in Runs(S, m + 1, base, g)
    BY <2>3, <2>4 DEF Runs
  <2> HIDE DEF q
  <2>6. m + 1 \in 0 .. n
    OBVIOUS
  <2> QED
    BY <2>5, <2>6
<1> HIDE DEF G
<1>3. \A i \in 0 .. n : i \in G
  BY <1>1, <1>2, InductionUpTo, Zenon
<1>4. n \in 0 .. n
  OBVIOUS
<1> QED
  BY <1>3, <1>4, Zenon DEF G

\* The recursion along the numbers up to n that does nothing outside s.
RunIn(S, n, base, g, s, r) ==
  /\ r \in [0 .. n -> S] /\ r[0] = base
  /\ \A i \in 1 .. n : r[i] = IF i \in s THEN g[i][r[i - 1]] ELSE r[i - 1]

\* There is one, whatever s is.
LEMMA RunInExists ==
  ASSUME NEW S, NEW n \in Nat, NEW base \in S, NEW g \in [1 .. n -> [S -> S]], NEW s
  PROVE  \E r : RunIn(S, n, base, g, s, r)
<1> DEFINE h == [i \in 1 .. n |-> [v \in S |-> IF i \in s THEN g[i][v] ELSE v]]
<1>1. h \in [1 .. n -> [S -> S]]
  OBVIOUS
<1>2. \A i \in 1 .. n : \A v \in S : h[i][v] = IF i \in s THEN g[i][v] ELSE v
  OBVIOUS
<1> HIDE DEF h
<1>3. PICK r : r \in Runs(S, n, base, h)
  BY <1>1, Recursion, Zenon
<1>4. RunIn(S, n, base, g, s, r)
  BY <1>2, <1>3 DEF Runs, RunIn
<1> QED
  BY <1>4, Zenon

\* Its last step is at the greatest member of s.
LEMMA RunInLast ==
  ASSUME NEW S, NEW n \in Nat, NEW base \in S, NEW g \in [1 .. n -> [S -> S]]
  PROVE  \A s \in SUBSET (1 .. n) : \A m \in s : \A a, b :
           /\ \A j \in s : m >= j
           /\ RunIn(S, n, base, g, s, a) /\ RunIn(S, n, base, g, s \ {m}, b)
           => a[n] = g[m][b[n]]
<1> TAKE s \in SUBSET (1 .. n)
<1> TAKE m \in s
<1> TAKE a, b
<1> HAVE /\ \A j \in s : m >= j
         /\ RunIn(S, n, base, g, s, a) /\ RunIn(S, n, base, g, s \ {m}, b)
<1> DEFINE K == {i \in 0 .. n : i < m => a[i] = b[i]}
           L == {i \in 0 .. n : i >= m => a[i] = a[m] /\ b[i] = b[m]}
<1>0. m \in 1 .. n
  OBVIOUS
<1>1. /\ a[0] = base /\ \A i \in 1 .. n : a[i] = IF i \in s THEN g[i][a[i - 1]] ELSE a[i - 1]
      /\ b[0] = base
      /\ \A i \in 1 .. n : b[i] = IF i \in s \ {m} THEN g[i][b[i - 1]] ELSE b[i - 1]
  BY Zenon DEF RunIn
<1>2. \A i \in 0 .. n : i \in K
  <2>1. 0 \in K
    BY <1>1
  <2>2. ASSUME NEW i \in 0 .. n - 1 PROVE i \in K => i + 1 \in K
    <3>1. i + 1 \in 1 .. n /\ (i + 1) - 1 = i
      OBVIOUS
    <3>2. /\ a[i + 1] = IF i + 1 \in s THEN g[i + 1][a[i]] ELSE a[i]
          /\ b[i + 1] = IF i + 1 \in s \ {m} THEN g[i + 1][b[i]] ELSE b[i]
      BY <1>1, <3>1
    <3> QED
      BY <1>0, <3>2
  <2> HIDE DEF K
  <2> QED
    BY <2>1, <2>2, InductionUpTo, Zenon
<1>3. \A i \in 0 .. n : i \in L
  <2>1. 0 \in L
    BY <1>0
  <2>2. ASSUME NEW i \in 0 .. n - 1 PROVE i \in L => i + 1 \in L
    <3>1. i + 1 \in 1 .. n /\ (i + 1) - 1 = i
      OBVIOUS
    <3>2. /\ a[i + 1] = IF i + 1 \in s THEN g[i + 1][a[i]] ELSE a[i]
          /\ b[i + 1] = IF i + 1 \in s \ {m} THEN g[i + 1][b[i]] ELSE b[i]
      BY <1>1, <3>1
    <3>3. i + 1 > m => i + 1 \notin s
      BY <1>0
    <3> QED
      BY <1>0, <3>2, <3>3
  <2> HIDE DEF L
  <2> QED
    BY <2>1, <2>2, InductionUpTo, Zenon
<1>4. a[m - 1] = b[m - 1] /\ m - 1 \in 0 .. n
  <2>1. m - 1 \in 0 .. n
    BY <1>0
  <2>2. m - 1 \in K
    BY <1>2, <2>1
  <2> QED
    BY <1>0, <2>1, <2>2
<1>5. a[m] = g[m][b[m - 1]] /\ b[m] = b[m - 1]
  BY <1>0, <1>1, <1>4
<1>6. a[n] = a[m] /\ b[n] = b[m]
  <2>1. n \in L
    BY <1>3
  <2> QED
    BY <1>0, <2>1
<1> QED
  BY <1>5, <1>6

\* A set of numbers up to n that is not empty has a greatest member.
LEMMA GreatestOf ==
  ASSUME NEW n \in Nat, NEW s \in SUBSET (1 .. n), s # {}
  PROVE  \E m \in s : \A j \in s : m >= j
<1> DEFINE D == {d \in Nat : n - d \in s}
<1>1. D # {}
  <2>1. PICK j \in s : TRUE
    OBVIOUS
  <2>2. n - j \in D
    BY <2>1
  <2> QED
    BY <2>2
<1>2. PICK d \in D : \A e \in D : d <= e
  BY <1>1, LeastOf
<1>3. ASSUME NEW j \in s PROVE n - d >= j
  <2>1. n - j \in D
    OBVIOUS
  <2> QED
    BY <1>2, <2>1
<1> QED
  BY <1>2, <1>3

\* w solves the recursive equation of a fold over the sets of numbers up to n,
\* greatest first.
FoldTable(w, S, n, base, g) ==
  /\ w \in [SUBSET (1 .. n) -> S]
  /\ \A s \in SUBSET (1 .. n) :
       w[s] = IF s = {} THEN base
              ELSE g[CHOOSE m \in s : \A k \in s : m >= k]
                    [w[s \ {CHOOSE m \in s : \A k \in s : m >= k}]]

\* MapThenFoldSet's equation has a solution with values in S.
LEMMA FoldDefined ==
  ASSUME NEW S, NEW n \in Nat, NEW base \in S, NEW g \in [1 .. n -> [S -> S]]
  PROVE  \E w : FoldTable(w, S, n, base, g)
<1> DEFINE c == [s \in SUBSET (1 .. n) |-> CHOOSE r : RunIn(S, n, base, g, s, r)]
           w == [s \in SUBSET (1 .. n) |-> c[s][n]]
<1>0. \A s \in SUBSET (1 .. n) : \A m \in s : \A a, b :
        /\ \A j \in s : m >= j
        /\ RunIn(S, n, base, g, s, a) /\ RunIn(S, n, base, g, s \ {m}, b)
        => a[n] = g[m][b[n]]
  BY RunInLast, Zenon
<1>1. ASSUME NEW s \in SUBSET (1 .. n) PROVE RunIn(S, n, base, g, s, c[s])
  <2>1. \E r : RunIn(S, n, base, g, s, r)
    BY RunInExists, Zenon
  <2> QED
    BY <2>1, Zenon
<1> HIDE DEF c
<1>2. w \in [SUBSET (1 .. n) -> S] /\ \A s \in SUBSET (1 .. n) : w[s] = c[s][n]
  <2>1. \A s \in SUBSET (1 .. n) : c[s][n] \in S
    BY <1>1 DEF RunIn
  <2> QED
    BY <2>1
<1> HIDE DEF w
<1>3. ASSUME NEW s \in SUBSET (1 .. n), s = {} PROVE w[s] = base
  <2> DEFINE K == {i \in 0 .. n : c[s][i] = base}
  <2>0. c[s][0] = base /\ \A i \in 1 .. n : c[s][i] = c[s][i - 1]
    BY <1>1, <1>3 DEF RunIn
  <2>1. 0 \in K
    BY <2>0
  <2>2. ASSUME NEW i \in 0 .. n - 1 PROVE i \in K => i + 1 \in K
    BY <2>0
  <2>3. \A i \in 0 .. n : i \in K
    <3> HIDE DEF K
    <3> QED
      BY <2>1, <2>2, InductionUpTo, Zenon
  <2> QED
    BY <1>2, <2>3
<1>4. ASSUME NEW s \in SUBSET (1 .. n), NEW m \in s, \A j \in s : m >= j
      PROVE  w[s] = g[m][w[s \ {m}]]
  <2>1. s \ {m} \in SUBSET (1 .. n)
    OBVIOUS
  <2>2. PICK a : a = c[s] /\ RunIn(S, n, base, g, s, a)
    BY <1>1, Zenon
  <2>3. PICK b : b = c[s \ {m}] /\ RunIn(S, n, base, g, s \ {m}, b)
    BY <1>1, <2>1, Zenon
  <2>4. a[n] = g[m][b[n]]
    <3>1. RunIn(S, n, base, g, s, a) /\ RunIn(S, n, base, g, s \ {m}, b) /\ \A j \in s : m >= j
      BY <1>4, <2>2, <2>3, Zenon
    <3> QED
      BY <1>0, <3>1, ZenonT(60)
  <2> QED
    BY <1>2, <2>1, <2>2, <2>3, <2>4
<1>5. ASSUME NEW s \in SUBSET (1 .. n)
      PROVE w[s] = IF s = {} THEN base
                  ELSE g[CHOOSE m \in s : \A k \in s : m >= k]
                        [w[s \ {CHOOSE m \in s : \A k \in s : m >= k}]]
  <2>1. CASE s = {}
    BY <1>3, <2>1, Zenon
  <2>2. CASE s # {}
    <3> DEFINE m == CHOOSE m \in s : \A k \in s : m >= k
    <3>1. \E k \in s : \A j \in s : k >= j
      BY <2>2, GreatestOf
    <3>2. m \in s /\ \A k \in s : m >= k
      BY <3>1, Zenon
    <3>3. w[s] = g[m][w[s \ {m}]]
      <4> HIDE DEF m
      <4> QED
        BY <1>4, <3>2
    <3> QED
      BY <2>2, <3>3, Zenon
  <2> QED
    BY <2>1, <2>2
<1> QED
  BY <1>2, <1>5, Zenon DEF FoldTable

\* The greatest number up to k is k.
LEMMA GreatestUpTo ==
  ASSUME NEW k \in Nat, k # 0
  PROVE  /\ (CHOOSE m \in 1 .. k : \A j \in 1 .. k : m >= j) = k
         /\ (1 .. k) \ {k} = 1 .. (k - 1) /\ 1 .. k # {}
  OBVIOUS

FoldEnds(S, n, base, g, E) == \E r \in Runs(S, n, base, g) : E[1 .. n] = r[n]

\* Whatever satisfies the equation of a fold on the sets 1 .. k has the value of
\* the recursion along them.
LEMMA FoldRun ==
  ASSUME NEW S, NEW n \in Nat, NEW base \in S, NEW g \in [1 .. n -> [S -> S]], NEW E,
         E[{}] = base, \A k \in 1 .. n : E[1 .. k - 1] \in S => E[1 .. k] = g[k][E[1 .. k - 1]]
  PROVE  FoldEnds(S, n, base, g, E)
<1>0. PICK r : r \in Runs(S, n, base, g)
  BY Recursion, Zenon
<1>1. r \in [0 .. n -> S] /\ r[0] = base /\ \A i \in 1 .. n : r[i] = g[i][r[i - 1]]
  BY <1>0 DEF Runs
<1> DEFINE K == {i \in 0 .. n : E[1 .. i] = r[i]}
<1>2. 0 \in K
  <2>1. 1 .. 0 = {}
    OBVIOUS
  <2> QED
    BY <1>1, <2>1
<1>3. ASSUME NEW i \in 0 .. n - 1 PROVE i \in K => i + 1 \in K
  <2> SUFFICES ASSUME i \in K PROVE i + 1 \in K
    OBVIOUS
  <2>0. (i + 1) - 1 = i /\ i + 1 \in 1 .. n
    OBVIOUS
  <2>1. E[1 .. (i + 1) - 1] = r[i] /\ r[i] \in S
    BY <1>1, <2>0
  <2>2. r[i + 1] = g[i + 1][r[i]]
    BY <1>1, <2>0
  <2>3. E[1 .. (i + 1)] = g[i + 1][E[1 .. (i + 1) - 1]]
    BY <2>0, <2>1, Zenon
  <2> QED
    BY <2>0, <2>1, <2>2, <2>3
<1>4. E[1 .. n] = r[n]
  <2>1. \A i \in 0 .. n : i \in K
    <3> HIDE DEF K
    <3> QED
      BY <1>2, <1>3, InductionUpTo, Zenon
  <2> QED
    BY <2>1
<1> QED
  BY <1>0, <1>4, Zenon DEF FoldEnds

-----------------------------------------------------------------------------
(* Pieces put together *)

\* f[i] is the first i pieces of ss, put together.
IsFlat(f, ss, B) ==
  f \in [0 .. Len(ss) -> Seq(B)] /\ f[0] = <<>> /\ \A i \in 1 .. Len(ss) : f[i] = f[i - 1] \o ss[i]

\* FlattenSeq of the community modules is the recursion along its argument.
LEMMA FlattenRun ==
  ASSUME NEW B, NEW ss \in Seq(Seq(B))
  PROVE  \E f : IsFlat(f, ss, B) /\ FlattenSeq(ss) = f[Len(ss)]
<1> DEFINE n == Len(ss)
           g == [i \in 1 .. n |-> [v \in Seq(B) |-> v \o ss[i]]]
<1>0. n \in Nat /\ \A i \in 1 .. n : ss[i] \in Seq(B)
  BY LenProperties, ElementOfSeq
<1>1. g \in [1 .. n -> [Seq(B) -> Seq(B)]] /\ <<>> \in Seq(B)
  BY <1>0, ConcatProperties, EmptySeq
<1>2. \A i \in 1 .. n : \A v \in Seq(B) : g[i][v] = v \o ss[i]
  OBVIOUS
<1> HIDE DEF g, n
<1>3. PICK f : f \in Runs(Seq(B), n, <<>>, g)
  BY <1>0, <1>1, Recursion, Zenon
<1>4. f \in [0 .. n -> Seq(B)] /\ f[0] = <<>> /\ \A i \in 1 .. n : f[i] = f[i - 1] \o ss[i]
  <2>1. f \in [0 .. n -> Seq(B)] /\ f[0] = <<>> /\ \A i \in 1 .. n : f[i] = g[i][f[i - 1]]
    BY <1>3, Zenon DEF Runs
  <2>2. ASSUME NEW i \in 1 .. n PROVE f[i] = f[i - 1] \o ss[i]
    <3>1. f[i - 1] \in Seq(B)
      <4>1. i - 1 \in 0 .. n
        BY <1>0
      <4> QED
        BY <2>1, <4>1, Zenon
    <3> QED
      BY <1>2, <2>1, <3>1, Zenon
  <2> QED
    BY <2>1, <2>2, Zenon
<1>5. IsFlat(f, ss, B)
  BY <1>4, Zenon DEF IsFlat, n
<1>6. CASE n = 0
  <2>1. ss = <<>>
    BY <1>6, EmptySeq DEF n
  <2> QED
    BY <1>4, <1>5, <1>6, <2>1, Zenon DEF n, FlattenSeq
<1>7. CASE n # 0
  <2> DEFINE E == CHOOSE flatten : flatten =
                    [i \in 1 .. n |-> IF i = 1 THEN ss[i] ELSE flatten[i - 1] \o ss[i]]
             h == [i \in 1 .. n |-> f[i]]
  <2>1. h = [i \in 1 .. n |-> IF i = 1 THEN ss[i] ELSE h[i - 1] \o ss[i]]
    <3>1. ASSUME NEW i \in 1 .. n PROVE h[i] = IF i = 1 THEN ss[i] ELSE h[i - 1] \o ss[i]
      <4>1. CASE i = 1
        <5>0. i - 1 = 0
          BY <4>1
        <5>1. f[i] = f[i - 1] \o ss[i] /\ i - 1 = 0 /\ ss[i] \in Seq(B)
          BY <1>0, <1>4, <5>0, Zenon
        <5>2. <<>> \o ss[i] = ss[i]
          BY <5>1, ConcatEmptySeq
        <5>3. h[i] = f[i]
          OBVIOUS
        <5>4. f[i] = ss[i]
          BY <1>4, <5>1, <5>2, Zenon
        <5> QED
          BY <5>3, <5>4, <4>1, Zenon
      <4>2. CASE i # 1
        <5>1. i - 1 \in 1 .. n
          BY <1>0, <4>2
        <5>2. h[i - 1] = f[i - 1] /\ h[i] = f[i]
          BY <5>1, Zenon
        <5> QED
          BY <1>4, <5>2, <4>2, Zenon
      <4> QED
        BY <4>1, <4>2
    <3> QED
      BY <3>1
  <2> HIDE DEF h
  <2>2. E = [i \in 1 .. n |-> IF i = 1 THEN ss[i] ELSE E[i - 1] \o ss[i]]
    BY <2>1, Zenon
  <2> HIDE DEF E
  <2> DEFINE K == {i \in 0 .. n : i # 0 => E[i] = f[i]}
  <2>3. 0 \in K
    BY <1>0
  <2>4. ASSUME NEW i \in 0 .. n - 1 PROVE i \in K => i + 1 \in K
    <3> SUFFICES ASSUME i # 0 => E[i] = f[i] PROVE E[i + 1] = f[i + 1]
      BY <1>0
    <3>0. i + 1 \in 1 .. n /\ (i + 1) - 1 = i /\ (i = 0 <=> i + 1 = 1)
      BY <1>0
    <3>1. E[i + 1] = IF i + 1 = 1 THEN ss[i + 1] ELSE E[(i + 1) - 1] \o ss[i + 1]
      BY <2>2, <3>0, Zenon
    <3>2. f[i + 1] = f[(i + 1) - 1] \o ss[i + 1] /\ ss[i + 1] \in Seq(B)
      BY <1>0, <1>4, <3>0, Zenon
    <3>3. <<>> \o ss[i + 1] = ss[i + 1]
      BY <3>2, ConcatEmptySeq
    <3> QED
      BY <1>4, <3>0, <3>1, <3>2, <3>3, Zenon
  <2>5. \A i \in 0 .. n : i \in K
    <3> HIDE DEF K
    <3> QED
      BY <1>0, <2>3, <2>4, InductionUpTo, Zenon
  <2>6. E[n] = f[n]
    BY <1>0, <1>7, <2>5
  <2>7. FlattenSeq(ss) = E[n]
    BY <1>7, Zenon DEF E, n, FlattenSeq
  <2> QED
    BY <1>5, <2>6, <2>7, Zenon DEF n
<1> QED
  BY <1>6, <1>7

\* Two of them agree.
LEMMA FlatUnique ==
  ASSUME NEW B, NEW ss \in Seq(Seq(B)), NEW tt \in Seq(Seq(B))
  PROVE  \A n \in Nat : \A f, g :
           /\ n <= Len(ss) /\ n <= Len(tt) /\ \A i \in 1 .. n : ss[i] = tt[i]
           /\ IsFlat(f, ss, B) /\ IsFlat(g, tt, B)
           => f[n] = g[n]
<1> TAKE n \in Nat
<1> TAKE f, g
<1> HAVE /\ n <= Len(ss) /\ n <= Len(tt) /\ \A i \in 1 .. n : ss[i] = tt[i]
         /\ IsFlat(f, ss, B) /\ IsFlat(g, tt, B)
<1> DEFINE K == {i \in 0 .. n : f[i] = g[i]}
<1>0. Len(ss) \in Nat /\ Len(tt) \in Nat
  BY LenProperties
<1>1. 0 \in K
  BY DEF IsFlat
<1>2. ASSUME NEW i \in 0 .. n - 1 PROVE i \in K => i + 1 \in K
  <2> SUFFICES ASSUME f[i] = g[i] PROVE f[i + 1] = g[i + 1]
    BY <1>0
  <2>1. i + 1 \in 1 .. n /\ i + 1 \in 1 .. Len(ss) /\ i + 1 \in 1 .. Len(tt) /\ (i + 1) - 1 = i
    BY <1>0
  <2>2. f[i + 1] = f[(i + 1) - 1] \o ss[i + 1] /\ g[i + 1] = g[(i + 1) - 1] \o tt[i + 1]
    BY <2>1, Zenon DEF IsFlat
  <2> QED
    BY <2>1, <2>2, Zenon
<1>3. \A i \in 0 .. n : i \in K
  <2> HIDE DEF K
  <2> QED
    BY <1>1, <1>2, InductionUpTo, Zenon
<1> QED
  BY <1>3

\* What sequences over B are flattened to is one.
LEMMA FlattenType ==
  ASSUME NEW B, NEW ss \in Seq(Seq(B))
  PROVE  FlattenSeq(ss) \in Seq(B)
<1>1. PICK f : IsFlat(f, ss, B) /\ FlattenSeq(ss) = f[Len(ss)]
  BY FlattenRun
<1> QED
  BY <1>1, LenProperties DEF IsFlat

\* Of nothing, nothing.
LEMMA FlattenEmpty == FlattenSeq(<<>>) = <<>>
  BY EmptySeq DEF FlattenSeq

\* One sequence more is one more at the end.
LEMMA FlattenAppend ==
  ASSUME NEW B, NEW ss \in Seq(Seq(B)), NEW e \in Seq(B)
  PROVE  FlattenSeq(Append(ss, e)) = FlattenSeq(ss) \o e
<1>1. PICK f : IsFlat(f, ss, B) /\ FlattenSeq(ss) = f[Len(ss)]
  BY FlattenRun
<1>2. /\ Append(ss, e) \in Seq(Seq(B)) /\ Len(Append(ss, e)) = Len(ss) + 1 /\ Len(ss) \in Nat
      /\ \A i \in 1 .. Len(ss) : ss[i] = Append(ss, e)[i]
      /\ Append(ss, e)[Len(ss) + 1] = e
  BY AppendProperties, LenProperties
<1>3. PICK tt \in Seq(Seq(B)) : tt = Append(ss, e)
  BY <1>2
<1>4. PICK g : IsFlat(g, tt, B) /\ FlattenSeq(tt) = g[Len(tt)]
  BY FlattenRun
<1>5. f[Len(ss)] = g[Len(ss)]
  <2>1. Len(ss) <= Len(ss) /\ Len(ss) <= Len(tt) /\ \A i \in 1 .. Len(ss) : ss[i] = tt[i]
    BY <1>2, <1>3
  <2> QED
    <3>1. \A n \in Nat : \A p, q :
             /\ n <= Len(ss) /\ n <= Len(tt) /\ \A i \in 1 .. n : ss[i] = tt[i]
             /\ IsFlat(p, ss, B) /\ IsFlat(q, tt, B)
             => p[n] = q[n]
      BY FlatUnique, Zenon
    <3> QED
      BY <1>1, <1>2, <1>4, <2>1, <3>1, Zenon
<1>6. g[Len(ss) + 1] = g[Len(ss)] \o e
  <2>1. Len(ss) + 1 \in 1 .. Len(tt) /\ (Len(ss) + 1) - 1 = Len(ss)
    BY <1>2, <1>3
  <2>2. g[Len(ss) + 1] = g[(Len(ss) + 1) - 1] \o tt[Len(ss) + 1]
    BY <1>4, <2>1, Zenon DEF IsFlat
  <2> QED
    BY <1>2, <1>3, <2>1, <2>2, Zenon
<1> QED
  BY <1>1, <1>2, <1>3, <1>4, <1>5, <1>6, Zenon

\* What h makes of each member of s, put together.
Each(h, s) == FlattenSeq([k \in DOMAIN s |-> h[s[k]]])

\* A sequence, element by element.
LEMMA MapType ==
  ASSUME NEW A, NEW B, NEW h \in [A -> B], NEW s \in Seq(A)
  PROVE  /\ [k \in DOMAIN s |-> h[s[k]]] \in Seq(B)
         /\ Len([k \in DOMAIN s |-> h[s[k]]]) = Len(s)
<1>1. DOMAIN s = 1 .. Len(s) /\ Len(s) \in Nat /\ \A k \in 1 .. Len(s) : s[k] \in A
  BY LenProperties, ElementOfSeq
<1> QED
  BY <1>1

\* What is written for the elements of s, one behind the other, is over B.
LEMMA EachType ==
  ASSUME NEW A, NEW B, NEW h \in [A -> Seq(B)], NEW s \in Seq(A)
  PROVE  Each(h, s) \in Seq(B)
<1>1. [k \in DOMAIN s |-> h[s[k]]] \in Seq(Seq(B))
  BY MapType
<1> QED
  BY <1>1, FlattenType, Zenon DEF Each

\* For nothing, nothing is written.
LEMMA EachEmpty == ASSUME NEW h PROVE Each(h, <<>>) = <<>>
<1>1. [k \in DOMAIN <<>> |-> h[<<>>[k]]] = <<>>
  OBVIOUS
<1> QED
  BY <1>1, FlattenEmpty, Zenon DEF Each

\* For one element more, its piece more.
LEMMA EachAppend ==
  ASSUME NEW A, NEW B, NEW h \in [A -> Seq(B)], NEW s \in Seq(A), NEW a \in A
  PROVE  Each(h, Append(s, a)) = Each(h, s) \o h[a]
<1> DEFINE ss == [k \in DOMAIN s |-> h[s[k]]]
           t == Append(s, a)
           tt == [k \in DOMAIN t |-> h[t[k]]]
<1>1. ss \in Seq(Seq(B)) /\ Len(ss) = Len(s)
  <2>1. ss \in Seq(Seq(B))
    BY MapType
  <2>2. Len(ss) = Len(s)
    BY MapType
  <2> QED
    BY <2>1, <2>2
<1>2. /\ t \in Seq(A) /\ Len(t) = Len(s) + 1 /\ t[Len(s) + 1] = a /\ Len(s) \in Nat
      /\ \A k \in 1 .. Len(s) : t[k] = s[k]
  BY AppendProperties, LenProperties
<1>3. tt \in Seq(Seq(B)) /\ Len(tt) = Len(s) + 1
  <2> HIDE DEF t
  <2> QED
    BY <1>2, MapType
<1>4. h[a] \in Seq(B)
  OBVIOUS
<1>5. /\ Append(ss, h[a]) \in Seq(Seq(B)) /\ Len(Append(ss, h[a])) = Len(s) + 1
      /\ \A k \in 1 .. Len(s) : Append(ss, h[a])[k] = ss[k]
      /\ Append(ss, h[a])[Len(s) + 1] = h[a]
  <2> HIDE DEF ss
  <2> QED
    BY <1>1, <1>4, AppendProperties
<1>6. tt = Append(ss, h[a])
  <2>1. \A k \in 1 .. Len(s) + 1 : tt[k] = h[t[k]]
    BY <1>2, LenProperties
  <2>2. \A k \in 1 .. Len(s) : ss[k] = h[s[k]]
    BY LenProperties
  <2>3. PICK u \in Seq(Seq(B)) : u = Append(ss, h[a])
    BY <1>5
  <2> HIDE DEF ss, t, tt
  <2>4. \A k \in 1 .. Len(tt) : tt[k] = u[k]
    BY <1>2, <1>3, <1>5, <2>1, <2>2, <2>3, SMTT(60)
  <2> QED
    BY <1>3, <1>5, <2>3, <2>4, SeqEqual
<1> HIDE DEF ss, tt, t
<1>7. FlattenSeq(tt) = FlattenSeq(ss) \o h[a]
  BY <1>1, <1>4, <1>6, FlattenAppend
<1> QED
  BY <1>7, Zenon DEF Each, ss, tt, t

\* For one element, its piece.
LEMMA EachOne ==
  ASSUME NEW A, NEW B, NEW h \in [A -> Seq(B)], NEW a \in A
  PROVE  Each(h, <<a>>) = h[a]
<1>1. <<a>> = Append(<<>>, a) /\ <<>> \in Seq(A)
  OBVIOUS
<1>2. Each(h, <<a>>) = Each(h, <<>>) \o h[a]
  BY <1>1, EachAppend
<1>3. h[a] \in Seq(B)
  OBVIOUS
<1> QED
  BY <1>2, <1>3, EachEmpty, ConcatEmptySeq

\* For two sequences in a row, what is written for each.
LEMMA EachConcat ==
  ASSUME NEW A, NEW B, NEW h \in [A -> Seq(B)], NEW s \in Seq(A), NEW t \in Seq(A)
  PROVE  Each(h, s \o t) = Each(h, s) \o Each(h, t)
<1> DEFINE G == {u \in Seq(A) : Each(h, s \o u) = Each(h, s) \o Each(h, u)}
<1>1. <<>> \in G
  <2>1. Each(h, s) \in Seq(B) /\ <<>> \in Seq(A)
    BY EachType, EmptySeq
  <2>2. s \o <<>> = s /\ Each(h, s) \o <<>> = Each(h, s)
    BY <2>1, ConcatEmptySeq
  <2> QED
    BY <2>1, <2>2, EachEmpty
<1>2. ASSUME NEW u \in G, NEW a \in A PROVE Append(u, a) \in G
  <2>1. u \in Seq(A) /\ Append(u, a) \in Seq(A) /\ s \o u \in Seq(A)
    BY AppendProperties, ConcatProperties
  <2>2. s \o Append(u, a) = Append(s \o u, a)
    BY <2>1
  <2>3. Each(h, Append(s \o u, a)) = Each(h, s \o u) \o h[a]
    BY <2>1, EachAppend
  <2>4. Each(h, Append(u, a)) = Each(h, u) \o h[a]
    BY <2>1, EachAppend
  <2>5. Each(h, s) \in Seq(B) /\ Each(h, u) \in Seq(B) /\ h[a] \in Seq(B)
    BY <2>1, EachType
  <2>6. (Each(h, s) \o Each(h, u)) \o h[a] = Each(h, s) \o (Each(h, u) \o h[a])
    BY <2>5, ConcatAssociative, SMTT(60)
  <2> QED
    BY <2>1, <2>2, <2>3, <2>4, <2>6
<1>3. G = Seq(A)
  <2> HIDE DEF G
  <2>1. G \in SUBSET Seq(A)
    BY DEF G
  <2> QED
    BY <1>1, <1>2, <2>1, SeqInduction, Zenon
<1> QED
  BY <1>3

FirstPiece(h, a, s) == Each(h, <<a>> \o s) = h[a] \o Each(h, s)

\* The first piece is the first element's.
LEMMA EachFirst ==
  ASSUME NEW A, NEW B, NEW h \in [A -> Seq(B)]
  PROVE  \A a \in A : \A s \in Seq(A) : FirstPiece(h, a, s)
<1> TAKE a \in A
<1> TAKE s \in Seq(A)
<1>1. PICK one \in Seq(A) : one = <<a>>
  <2>1. <<a>> \in Seq(A)
    OBVIOUS
  <2> QED
    BY <2>1, Zenon
<1>2. Each(h, one) = h[a]
  BY <1>1, EachOne
<1>3. Each(h, one \o s) = Each(h, one) \o Each(h, s)
  BY EachConcat, SMTT(60)
<1> QED
  BY <1>1, <1>2, <1>3, Zenon DEF FirstPiece

InOneStep(h, g, A, s) == Each(h, Each(g, s)) = Each([a \in A |-> Each(h, g[a])], s)

\* Two turns are one.
LEMMA EachEach ==
  ASSUME NEW A, NEW B, NEW C, NEW h \in [B -> Seq(C)]
  PROVE  \A g \in [A -> Seq(B)] : \A s \in Seq(A) : InOneStep(h, g, A, s)
<1>6. ASSUME NEW v \in Seq(B), NEW w \in Seq(B)
      PROVE  Each(h, v \o w) = Each(h, v) \o Each(h, w)
  BY EachConcat
<1> TAKE g \in [A -> Seq(B)]
<1> TAKE s \in Seq(A)
<1> DEFINE k == [a \in A |-> Each(h, g[a])]
           G == {u \in Seq(A) : Each(h, Each(g, u)) = Each(k, u)}
<1>0. k \in [A -> Seq(C)] /\ \A a \in A : k[a] = Each(h, g[a])
  BY EachType
<1> HIDE DEF k
<1>1. <<>> \in G
  BY EmptySeq, EachEmpty
<1>2. ASSUME NEW u \in Seq(A), NEW a \in A, Each(h, Each(g, u)) = Each(k, u)
      PROVE  Each(h, Each(g, Append(u, a))) = Each(k, Append(u, a))
  <2>1. Append(u, a) \in Seq(A) /\ Each(g, u) \in Seq(B) /\ g[a] \in Seq(B)
    BY AppendProperties, EachType
  <2>2. Each(g, Append(u, a)) = Each(g, u) \o g[a] /\ Each(k, Append(u, a)) = Each(k, u) \o k[a]
    BY <1>0, <2>1, EachAppend, ZenonT(60)
  <2>3. Each(h, Each(g, u) \o g[a]) = Each(h, Each(g, u)) \o Each(h, g[a])
    BY <1>6, <2>1, Zenon
  <2> QED
    BY <1>0, <1>2, <2>2, <2>3
<1>4. ASSUME NEW u \in G, NEW a \in A PROVE Append(u, a) \in G
  BY <1>2, AppendProperties
<1>5. G = Seq(A)
  <2> HIDE DEF G
  <2>1. G \in SUBSET Seq(A)
    BY DEF G
  <2> QED
    BY <1>1, <1>4, <2>1, SeqInduction, Zenon
<1> QED
  BY <1>5 DEF k, InOneStep

\* The same members make the same of it.
LEMMA EachSame ==
  ASSUME NEW h, NEW g, NEW s, \A k \in DOMAIN s : h[s[k]] = g[s[k]]
  PROVE  Each(h, s) = Each(g, s)
<1>1. [k \in DOMAIN s |-> h[s[k]]] = [k \in DOMAIN s |-> g[s[k]]]
  OBVIOUS
<1> QED
  BY <1>1, Zenon DEF Each

-----------------------------------------------------------------------------
(* Reading what was put together *)

\* f takes one piece after the other off the end of what h makes of p.
TakesOff(f, h, p, A, B) ==
  /\ f[Len(Each(h, p)) + 1] = <<>>
  /\ \A a \in A : \A pre \in Seq(B) : \A post \in Seq(B) :
       Each(h, p) = (pre \o h[a]) \o post
         => f[Len(pre) + 1] = <<a>> \o f[Len(pre \o h[a]) + 1]

\* A function that takes one piece after the other off the end of h's pieces
\* gives back what they are the pieces of.
LEMMA ReadsBack ==
  ASSUME NEW A, NEW B, NEW h \in [A -> Seq(B)]
  PROVE  \A p \in Seq(A) : \A f : TakesOff(f, h, p, A, B) => f[1] = p
<1>5. ASSUME NEW s \in Seq(A), NEW t \in Seq(A)
      PROVE  s \o t \in Seq(A) /\ Each(h, s \o t) = Each(h, s) \o Each(h, t)
  <2>1. Each(h, s \o t) = Each(h, s) \o Each(h, t)
    BY EachConcat
  <2> QED
    BY ONLY <2>1, ConcatProperties
<1> TAKE p \in Seq(A)
<1> TAKE f
<1> HAVE TakesOff(f, h, p, A, B)
<1>9. /\ f[Len(Each(h, p)) + 1] = <<>>
      /\ \A a \in A : \A pre \in Seq(B) : \A post \in Seq(B) :
              Each(h, p) = (pre \o h[a]) \o post
                => f[Len(pre) + 1] = <<a>> \o f[Len(pre \o h[a]) + 1]
  BY DEF TakesOff
<1> USE <1>9
<1> DEFINE n == Len(p)
           K == {k \in 0 .. n : f[Len(Each(h, SubSeq(p, 1, n - k))) + 1] = SubSeq(p, (n - k) + 1, n)}
<1>0. n \in Nat
  BY LenProperties
<1>6. ASSUME NEW s \in Seq(A), NEW a \in A
      PROVE  /\ s \o <<a>> \in Seq(A) /\ Each(h, s) \in Seq(B)
             /\ Each(h, s \o <<a>>) = Each(h, s) \o h[a]
  <2>1. Append(s, a) = s \o <<a>> /\ Append(s, a) \in Seq(A)
    BY ONLY AppendIsConcat, AppendProperties
  <2>2. Each(h, Append(s, a)) = Each(h, s) \o h[a] /\ Each(h, s) \in Seq(B)
    BY ONLY EachAppend, EachType
  <2> QED
    BY <2>1, <2>2, Zenon
<1>7. ASSUME NEW i \in Int, NEW j \in Int, i >= 1, j <= n
      PROVE  SubSeq(p, i, j) \in Seq(A)
  <2>1. \A k \in i .. j : p[k] \in A
    BY <1>0, <1>7, ElementOfSeq
  <2> QED
    BY ONLY <2>1, SubSeqProperties
<1>1. 0 \in K
  <2>1. SubSeq(p, 1, n) = p
    BY SubSeqFull
  <2>2. SubSeq(p, n + 1, n) = <<>> /\ n - 0 = n /\ 0 \in 0 .. n
    BY <1>0, SubSeqEmpty
  <2> QED
    BY <2>1, <2>2, Zenon
<1>2. ASSUME NEW k \in 0 .. n - 1 PROVE k \in K => k + 1 \in K
  <2> DEFINE m == n - k
  <2>0. m \in 1 .. n /\ m \in Nat /\ n - (k + 1) = m - 1 /\ (m - 1) + 1 = m
    BY <1>0
  <2> HIDE DEF m
  <2> SUFFICES ASSUME f[Len(Each(h, SubSeq(p, 1, m))) + 1] = SubSeq(p, m + 1, n)
               PROVE  f[Len(Each(h, SubSeq(p, 1, m - 1))) + 1] = SubSeq(p, m, n)
    BY <1>0, <2>0, SMTT(60) DEF m
  <2>1. PICK a \in A : a = p[m]
    BY <2>0, ElementOfSeq
  <2>2. PICK front \in Seq(A) : front = SubSeq(p, 1, m - 1)
    <3>1. 1 \in Int /\ m - 1 \in Int /\ 1 >= 1 /\ m - 1 <= n
      BY <2>0, <1>0
    <3> QED
      BY <1>7, <3>1, Zenon
  <2>3. PICK back \in Seq(A) : back = SubSeq(p, m + 1, n)
    <3>1. m + 1 \in Int /\ n \in Int /\ m + 1 >= 1 /\ n <= n
      BY <2>0, <1>0
    <3> QED
      BY <1>7, <3>1, Zenon
  <2>4. SubSeq(p, 1, m) = front \o <<a>>
    <3>1. 1 \in 1 .. Len(p) /\ m \in 1 .. Len(p)
      BY <2>0
    <3>2. SubSeq(p, 1, m) = SubSeq(p, 1, m - 1) \o <<p[m]>>
      BY <3>1, SubSeqRecursiveSecond
    <3> QED
      BY <2>1, <2>2, <3>2
  <2>5. SubSeq(p, m, n) = <<a>> \o back
    <3>1. m \in 1 .. Len(p) /\ n \in m .. Len(p)
      BY <2>0, <1>0
    <3>2. SubSeq(p, m, n) = <<p[m]>> \o SubSeq(p, m + 1, n)
      BY <3>1, SubSeqRecursiveFirst
    <3> QED
      BY <2>1, <2>3, <3>2
  <2>6. p = (front \o <<a>>) \o back
    <3>1. SubSeq(p, 1, m) \o SubSeq(p, m + 1, n) = SubSeq(p, 1, n)
      <4>1. 1 \in 1 .. Len(p) + 1 /\ m \in 1 - 1 .. Len(p) /\ n \in m .. Len(p)
        BY <2>0, <1>0
      <4> QED
        BY <4>1, ConcatAdjacentSubSeq
    <3>2. SubSeq(p, 1, n) = p
      BY SubSeqFull
    <3> QED
      BY <2>3, <2>4, <3>1, <3>2, Zenon
  <2>7. Each(h, front \o <<a>>) = Each(h, front) \o h[a]
    BY <1>6, Zenon
  <2>8. Each(h, p) = (Each(h, front) \o h[a]) \o Each(h, back)
    <3>1. front \o <<a>> \in Seq(A)
      BY <1>6, Zenon
    <3>2. Each(h, (front \o <<a>>) \o back) = Each(h, front \o <<a>>) \o Each(h, back)
      BY <1>5, <3>1, Zenon
    <3> QED
      BY <2>6, <2>7, <3>2, Zenon
  <2>9. Each(h, front) \in Seq(B) /\ Each(h, back) \in Seq(B)
    BY EachType
  <2>10. f[Len(Each(h, front)) + 1] = <<a>> \o f[Len(Each(h, front) \o h[a]) + 1]
    BY <2>8, <2>9, Zenon
  <2> QED
    BY <2>2, <2>3, <2>4, <2>5, <2>7, <2>10, Zenon
<1>3. n \in K
  <2> HIDE DEF K
  <2>1. \A k \in 0 .. n : k \in K
    BY <1>0, <1>1, <1>2, InductionUpTo, Zenon
  <2> QED
    BY <1>0, <2>1
<1>4. SubSeq(p, 1, n - n) = <<>> /\ SubSeq(p, (n - n) + 1, n) = p /\ Len(Each(h, <<>>)) + 1 = 1
  <2>1. n - n = 0 /\ 0 + 1 = 1
    BY <1>0
  <2>2. SubSeq(p, 1, 0) = <<>>
    BY SubSeqEmpty
  <2>3. SubSeq(p, 1, n) = p
    BY SubSeqFull
  <2>4. Len(Each(h, <<>>)) = 0
    BY EachEmpty, EmptySeq
  <2> QED
    BY <2>1, <2>2, <2>3, <2>4, Zenon
<1> QED
  BY <1>3, <1>4

\* f, at each place of a file up to its end, is what is read from there on:
\* v[i], and then what is read from next[i].
Backward(f, V, n, v, next) ==
  /\ f \in [1 .. n + 4 -> Seq(V)]
  /\ \A i \in 1 .. n + 4 : f[i] = IF i > n THEN <<>> ELSE <<v[i]>> \o f[next[i]]

\* The functions that read a file from its end are well defined.
LEMMA BackwardRecursion ==
  ASSUME NEW V, NEW n \in Nat, NEW v \in [1 .. n -> V], NEW next \in [1 .. n -> 1 .. n + 4],
         \A i \in 1 .. n : next[i] > i
  PROVE  \E f : Backward(f, V, n, v, next)
<1> DEFINE Part(k, f) == /\ f \in [(n - k) + 1 .. n + 4 -> Seq(V)]
                         /\ \A i \in (n - k) + 1 .. n + 4 :
                              f[i] = IF i > n THEN <<>> ELSE <<v[i]>> \o f[next[i]]
           K == {k \in 0 .. n : \E f : Part(k, f)}
<1>1. 0 \in K
  <2> DEFINE e == [i \in n + 1 .. n + 4 |-> <<>>]
  <2>1. Part(0, e)
    OBVIOUS
  <2> HIDE DEF e
  <2>2. 0 \in 0 .. n
    OBVIOUS
  <2> QED
    BY <2>1, <2>2, Zenon
<1>2. ASSUME NEW k \in 0 .. n - 1 PROVE k \in K => k + 1 \in K
  <2> SUFFICES ASSUME k \in K PROVE k + 1 \in K
    OBVIOUS
  <2>1. PICK f : Part(k, f)
    OBVIOUS
  <2> DEFINE m == n - k
             g == [i \in m .. n + 4 |-> IF i = m THEN <<v[m]>> \o f[next[m]] ELSE f[i]]
  <2>2. m \in 1 .. n /\ next[m] \in m + 1 .. n + 4
    OBVIOUS
  <2>3. v[m] \in V /\ f[next[m]] \in Seq(V)
    BY <2>1, <2>2
  <2>4. <<v[m]>> \o f[next[m]] \in Seq(V)
    <3>1. <<v[m]>> \in Seq(V)
      BY <2>3
    <3> QED
      BY <2>3, <3>1, ConcatProperties
  <2> HIDE DEF m
  <2>5. g \in [m .. n + 4 -> Seq(V)]
    BY <2>1, <2>4 DEF m
  <2>6. ASSUME NEW i \in m .. n + 4
        PROVE  g[i] = IF i > n THEN <<>> ELSE <<v[i]>> \o g[next[i]]
    <3>1. CASE i = m
      <4>1. next[m] \in m .. n + 4 /\ next[m] # m /\ ~(m > n)
        BY <2>2
      <4>2. g[next[m]] = f[next[m]]
        BY <4>1, Zenon
      <4> QED
        BY <3>1, <4>1, <4>2, Zenon
    <3>2. CASE i # m
      <4>1. g[i] = f[i] /\ i \in (n - k) + 1 .. n + 4
        BY <3>2 DEF m
      <4>2. f[i] = IF i > n THEN <<>> ELSE <<v[i]>> \o f[next[i]]
        BY <2>1, <4>1
      <4>3. CASE i > n
        BY <4>1, <4>2, <4>3
      <4>4. CASE ~(i > n)
        <5>1. i \in 1 .. n /\ next[i] \in 1 .. n + 4 /\ next[i] > i
          BY <2>2, <4>4
        <5>2. next[i] \in m .. n + 4 /\ next[i] # m
          BY <5>1, <2>2
        <5>3. g[next[i]] = f[next[i]]
          BY <5>2, Zenon
        <5> QED
          BY <4>1, <4>2, <4>4, <5>3, Zenon
      <4> QED
        BY <4>3, <4>4
    <3> QED
      BY <3>1, <3>2
  <2> HIDE DEF g
  <2>7. (n - (k + 1)) + 1 = m
    BY DEF m
  <2>8. Part(k + 1, g)
    BY <2>5, <2>6, <2>7, Zenon
  <2>9. k + 1 \in 0 .. n
    OBVIOUS
  <2> QED
    BY <2>8, <2>9, Zenon
<1>3. n \in K
  <2> HIDE DEF K
  <2>1. \A k \in 0 .. n : k \in K
    BY <1>1, <1>2, InductionUpTo, Zenon
  <2> QED
    BY <2>1
<1>4. PICK f : Part(n, f)
  BY <1>3
<1>5. (n - n) + 1 = 1
  OBVIOUS
<1>6. Backward(f, V, n, v, next)
  BY <1>4, <1>5 DEF Backward
<1> QED
  BY <1>6, Zenon

\* The elements of s, then those of t.
Joined(u, s, t, B) ==
  /\ u \in Seq(B) /\ Len(u) = Len(s) + Len(t)
  /\ \A i \in 1 .. Len(s) + Len(t) : u[i] = IF i <= Len(s) THEN s[i] ELSE t[i - Len(s)]

\* That is their concatenation, in a form to instantiate.
LEMMA Joining ==
  ASSUME NEW B, NEW s \in Seq(B), NEW t \in Seq(B)
  PROVE  Joined(s \o t, s, t, B)
  BY ConcatProperties DEF Joined

\* A piece in the middle of a file is where the pieces before it end.
LEMMA PieceInFile ==
  ASSUME NEW B, NEW pre \in Seq(B), NEW g \in Seq(B), NEW post \in Seq(B),
         NEW file, file = (pre \o g) \o post
  PROVE  /\ file \in Seq(B) /\ Len(file) = Len(pre) + Len(g) + Len(post)
         /\ Len(pre \o g) = Len(pre) + Len(g)
         /\ \A j \in 1 .. Len(g) : file[Len(pre) + j] = g[j]
         /\ \A j \in 1 .. Len(post) : file[Len(pre) + Len(g) + j] = post[j]
         /\ SubSeq(file, Len(pre) + 1, Len(pre) + Len(g)) = g
<1>1. Len(pre) \in Nat /\ Len(g) \in Nat /\ Len(post) \in Nat
  BY LenProperties
<1>2. PICK head \in Seq(B) : head = pre \o g
  BY ConcatProperties
<1>3. /\ Len(head) = Len(pre) + Len(g)
      /\ \A i \in 1 .. Len(pre) + Len(g) : head[i] = IF i <= Len(pre) THEN pre[i] ELSE g[i - Len(pre)]
  <2>1. Joined(pre \o g, pre, g, B)
    BY Joining, Zenon
  <2>2. Joined(head, pre, g, B)
    BY <1>2, <2>1, Zenon
  <2> QED
    BY <2>2, Zenon DEF Joined
<1>4. /\ file \in Seq(B) /\ Len(file) = Len(head) + Len(post)
      /\ \A i \in 1 .. Len(head) + Len(post) :
           file[i] = IF i <= Len(head) THEN head[i] ELSE post[i - Len(head)]
  <2>1. Joined(head \o post, head, post, B)
    BY Joining, Zenon
  <2>2. file = head \o post
    BY <1>2, Zenon
  <2>3. Joined(file, head, post, B)
    BY <2>1, <2>2, Zenon
  <2> QED
    BY <2>3, Zenon DEF Joined
<1>5. ASSUME NEW j \in 1 .. Len(g) PROVE file[Len(pre) + j] = g[j]
  <2>1. /\ Len(pre) + j \in 1 .. Len(head) + Len(post) /\ Len(pre) + j <= Len(head)
        /\ Len(pre) + j \in 1 .. Len(pre) + Len(g) /\ ~(Len(pre) + j <= Len(pre))
        /\ (Len(pre) + j) - Len(pre) = j
    BY <1>1, <1>3
  <2> QED
    BY <1>3, <1>4, <2>1, Zenon
<1>6. ASSUME NEW j \in 1 .. Len(post) PROVE file[Len(pre) + Len(g) + j] = post[j]
  <2>1. /\ Len(pre) + Len(g) + j \in 1 .. Len(head) + Len(post)
        /\ ~(Len(pre) + Len(g) + j <= Len(head))
        /\ (Len(pre) + Len(g) + j) - Len(head) = j
    BY <1>1, <1>3
  <2> QED
    BY <1>4, <2>1, Zenon
<1>7. SubSeq(file, Len(pre) + 1, Len(pre) + Len(g)) = g
  <2> DEFINE s == SubSeq(file, Len(pre) + 1, Len(pre) + Len(g))
  <2>1. \A i \in Len(pre) + 1 .. Len(pre) + Len(g) : file[i] \in B
    <3> TAKE i \in Len(pre) + 1 .. Len(pre) + Len(g)
    <3>1. i \in 1 .. Len(file)
      BY <1>1, <1>3, <1>4
    <3> QED
      BY <1>4, <3>1, ElementOfSeq
  <2>2. Len(pre) + 1 \in Int /\ Len(pre) + Len(g) \in Int
    BY <1>1
  <2>3. /\ s \in Seq(B)
        /\ Len(s) = IF Len(pre) + 1 <= Len(pre) + Len(g) THEN (Len(pre) + Len(g)) - (Len(pre) + 1) + 1
                                                         ELSE 0
        /\ \A i \in 1 .. (Len(pre) + Len(g)) - (Len(pre) + 1) + 1 : s[i] = file[Len(pre) + 1 + i - 1]
    BY <2>1, <2>2, SubSeqProperties
  <2> HIDE DEF s
  <2>4. Len(s) = Len(g) /\ \A i \in 1 .. Len(g) : s[i] = file[Len(pre) + i]
    <3>1. \A i \in 1 .. Len(g) : /\ i \in 1 .. (Len(pre) + Len(g)) - (Len(pre) + 1) + 1
                                  /\ Len(pre) + 1 + i - 1 = Len(pre) + i
      BY <1>1
    <3>2. Len(s) = Len(g)
      BY <1>1, <2>3
    <3> QED
      BY <2>3, <3>1, <3>2, Zenon
  <2>5. \A i \in 1 .. Len(s) : s[i] = g[i]
    BY <1>5, <2>4
  <2>6. s = g
    BY <2>3, <2>4, <2>5, SeqEqual
  <2> QED
    BY <2>6 DEF s
<1> QED
  BY <1>1, <1>3, <1>4, <1>5, <1>6, <1>7, <1>2

-----------------------------------------------------------------------------
(* Unicode *)

Codes == {c \in Nat : c <= 1114111}
Bytes == {b \in Nat : b < 256}
Units == {u \in Nat : u < 65536}

\* Where the bytes g between pre and post are.
ByteFileWith(file, pre, g, post) ==
  /\ file \in Seq(Bytes) /\ Len(file) = Len(pre) + Len(g) + Len(post)
  /\ Len(pre \o g) = Len(pre) + Len(g)
  /\ \A j \in 1 .. Len(g) : file[Len(pre) + j] = g[j]
  /\ SubSeq(file, Len(pre) + 1, Len(pre) + Len(g)) = g

\* The same for bytes, in a form to instantiate.
LEMMA PieceOfBytes ==
  \A pre \in Seq(Bytes) : \A g \in Seq(Bytes) : \A post \in Seq(Bytes) : \A file :
    file = (pre \o g) \o post => ByteFileWith(file, pre, g, post)
<1> TAKE pre \in Seq(Bytes)
<1> TAKE g \in Seq(Bytes)
<1> TAKE post \in Seq(Bytes)
<1> TAKE file
<1> HAVE file = (pre \o g) \o post
<1> QED
  BY PieceInFile DEF ByteFileWith

\* The bytes of code_point_to_utf8_glyph (utf8.c:70-174) are a lead byte
\* that says how many follow, and those; the decoder turns them back into c.
THEOREM Utf8ReadsBack ==
  ASSUME NEW c \in Codes, NEW g, g = U!code_point_to_utf8_glyph(c)
  PROVE  /\ U!utf8_decode(g) = c
         /\ U!remaining_utf8_bytes(g[1]) = Len(g) - 1
         /\ g \in Seq(Bytes) /\ Len(g) \in 1 .. 4
<1>0. c \in Nat /\ c <= 1114111
  BY DEF Codes
<1> USE DEF U!utf8_glyph_size_of_code_point, U!code_point_to_utf8_glyph, U!Continuation
<1>5. ASSUME NEW n \in Nat PROVE n % 64 \in 0 .. 63 /\ n % 32 \in 0 .. 31 /\ n % 16 \in 0 .. 15
                                  /\ n % 8 \in 0 .. 7 /\ n \div 64 \in Nat /\ n \div 4096 \in Nat
                                  /\ n \div 262144 \in Nat
  BY SMT
<1>1. CASE c <= 127
  <2>1. g = <<c>>
    BY SMT, <1>0, <1>1
  <2>2. g \in Seq(Bytes) /\ Len(g) = 1
    BY <1>0, <1>1, <2>1 DEF Bytes
  <2> QED
    BY SMT, <1>0, <1>1, <2>1, <2>2 DEF U!utf8_decode, U!remaining_utf8_bytes
<1>2. CASE c > 127 /\ c <= 2047
  <2>1. g = <<192 + (c \div 64), 128 + (c % 64)>>
    BY SMT, <1>0, <1>2
  <2>2. U!utf8_decode(g) = c
    BY SMT, <1>0, <1>2, <2>1 DEF U!utf8_decode
  <2>3. Len(g) = 2 /\ g[1] < 224 /\ g[1] >= 192 /\ g[1] \in Nat /\ g[2] \in Nat /\ g[2] < 256
    BY SMT, <1>0, <1>2, <2>1
  <2>4. g \in Seq(Bytes)
    <3>1. g[1] \in Bytes /\ g[2] \in Bytes
      BY <2>3 DEF Bytes
    <3> QED
      BY <2>1, <3>1
  <2> QED
    BY SMT, <2>2, <2>3, <2>4 DEF U!remaining_utf8_bytes
<1>3. CASE c > 2047 /\ c <= 65535
  <2>1. g = <<224 + (c \div 4096), 128 + ((c \div 64) % 64), 128 + (c % 64)>>
    BY SMT, <1>0, <1>3
  <2>2. U!utf8_decode(g) = c
    BY SMT, <1>0, <1>3, <2>1 DEF U!utf8_decode
  <2>3. /\ Len(g) = 3 /\ g[1] < 240 /\ g[1] >= 224 /\ g[1] \in Nat
        /\ g[2] \in Nat /\ g[2] < 256 /\ g[3] \in Nat /\ g[3] < 256
    BY SMT, <1>0, <1>3, <2>1
  <2>4. g \in Seq(Bytes)
    <3>1. g[1] \in Bytes /\ g[2] \in Bytes /\ g[3] \in Bytes
      BY <2>3 DEF Bytes
    <3> QED
      BY <2>1, <3>1
  <2> QED
    BY SMT, <2>2, <2>3, <2>4 DEF U!remaining_utf8_bytes
<1>4. CASE c > 65535
  <2>1. g = <<240 + (c \div 262144), 128 + ((c \div 4096) % 64), 128 + ((c \div 64) % 64),
              128 + (c % 64)>>
    BY SMT, <1>0, <1>4
  <2>2. U!utf8_decode(g) = c
    BY SMTT(30), <1>0, <1>4, <2>1 DEF U!utf8_decode
  <2>3. /\ Len(g) = 4 /\ g[1] < 248 /\ g[1] >= 240 /\ g[1] \in Nat
        /\ g[2] \in Nat /\ g[2] < 256 /\ g[3] \in Nat /\ g[3] < 256
        /\ g[4] \in Nat /\ g[4] < 256
    BY SMT, <1>0, <1>4, <2>1
  <2>4. g \in Seq(Bytes)
    <3>1. g[1] \in Bytes /\ g[2] \in Bytes /\ g[3] \in Bytes /\ g[4] \in Bytes
      BY <2>3 DEF Bytes
    <3> QED
      BY <2>1, <3>1
  <2> QED
    BY SMT, <2>2, <2>3, <2>4 DEF U!remaining_utf8_bytes
<1> QED
  BY SMT, <1>0, <1>1, <1>2, <1>3, <1>4

\* They are what the standard says: as few bytes as hold c.
LEMMA Utf8Standard ==
  ASSUME NEW c \in Codes
  PROVE  U!Utf8(c) = U!code_point_to_utf8_glyph(c)
<1>0. c \in Nat /\ c <= 1114111
  BY DEF Codes
<1> DEFINE Size(k) == c < <<128, 2048, 65536, 2097152>>[k]
                      /\ \A j \in 1 .. k - 1 : c >= <<128, 2048, 65536>>[j]
           n == CHOOSE k \in 1 .. 4 : Size(k)
           size == U!utf8_glyph_size_of_code_point(c)
<1>1. size \in 1 .. 4 /\ Size(size)
  BY <1>0 DEF U!utf8_glyph_size_of_code_point
<1>2. ASSUME NEW k \in 1 .. 4, Size(k) PROVE k = size
  BY <1>0, <1>2 DEF U!utf8_glyph_size_of_code_point
<1>3. n = size
  <2> HIDE DEF Size, size
  <2> QED
    BY <1>1, <1>2, Zenon
<1>4. U!Utf8(c) = [i \in 1 .. n |-> IF i = 1 THEN <<0, 192, 224, 240>>[n] + (c \div (64 ^ (n - 1)))
                                          ELSE 128 + ((c \div (64 ^ (n - i))) % 64)]
  BY DEF U!Utf8
<1>5. 64 ^ 0 = 1 /\ 64 ^ 1 = 64 /\ 64 ^ 2 = 4096 /\ 64 ^ 3 = 262144
  OBVIOUS
<1> HIDE DEF n
<1>6. CASE size = 1
  <2>1. U!Utf8(c) = [i \in 1 .. 1 |-> c]
    <3>1. c \div 1 = c /\ 1 - 1 = 0
      BY <1>0
    <3> QED
      BY <1>0, <1>3, <1>4, <1>5, <1>6, <3>1
  <2>2. U!code_point_to_utf8_glyph(c) = <<c>>
    BY <1>0, <1>6 DEF U!code_point_to_utf8_glyph, U!utf8_glyph_size_of_code_point
  <2> QED
    BY <2>1, <2>2
<1>7. CASE size = 2
  <2>1. U!Utf8(c) = <<192 + (c \div 64), 128 + (c % 64)>>
    BY <1>0, <1>3, <1>4, <1>5, <1>7
  <2> QED
    BY <1>0, <1>7, <2>1 DEF U!code_point_to_utf8_glyph, U!utf8_glyph_size_of_code_point, U!Continuation
<1>8. CASE size = 3
  <2>1. U!Utf8(c) = <<224 + (c \div 4096), 128 + ((c \div 64) % 64), 128 + (c % 64)>>
    BY <1>0, <1>3, <1>4, <1>5, <1>8
  <2> QED
    BY <1>0, <1>8, <2>1 DEF U!code_point_to_utf8_glyph, U!utf8_glyph_size_of_code_point, U!Continuation
<1>9. CASE size = 4
  <2>1. U!Utf8(c) = <<240 + (c \div 262144), 128 + ((c \div 4096) % 64), 128 + ((c \div 64) % 64),
                      128 + (c % 64)>>
    BY <1>0, <1>3, <1>4, <1>5, <1>9
  <2> QED
    BY <1>0, <1>9, <2>1 DEF U!code_point_to_utf8_glyph, U!utf8_glyph_size_of_code_point, U!Continuation
<1> QED
  BY <1>1, <1>6, <1>7, <1>8, <1>9

IsUnit(c, g) == c < 65536 /\ g = <<c>> /\ ~AtTheEdge(c)

Pair(c, g, high, low) ==
  /\ c = 65536 + (1024 * high) + low /\ g = <<55296 + high, 56320 + low>>
  /\ AtTheEdge(c) <=> high \in {0, 1023}

Half == 0 .. 1023
IsPair(c, g) == \E high \in Half, low \in Half : Pair(c, g, high, low)

\* A code point is one unit, or a pair that holds its upper and lower half.
LEMMA Utf16Glyph ==
  ASSUME NEW c \in Codes, NEW g, g = U!code_point_to_utf16_glyph(c)
  PROVE  g \in Seq(Units) /\ (IsUnit(c, g) \/ IsPair(c, g))
<1>0. c \in Nat /\ c <= 1114111
  BY DEF Codes
<1>1. CASE c < 65536
  <2>1. g = <<c>>
    BY SMT, <1>0, <1>1 DEF U!code_point_to_utf16_glyph, U!is_code_point_surrogate
  <2>2. c \in Units /\ ~AtTheEdge(c)
    BY SMT, <1>0, <1>1 DEF Units, AtTheEdge
  <2>3. g \in Seq(Units)
    BY <2>1, <2>2
  <2>4. IsUnit(c, g)
    BY SMT, <1>1, <2>1, <2>2 DEF IsUnit
  <2> QED
    BY <2>3, <2>4, Zenon
<1>2. CASE c >= 65536
  <2> DEFINE high == (c - 65536) \div 1024
             low == (c - 65536) % 1024
  <2>1. high \in 0 .. 1023 /\ low \in 0 .. 1023 /\ c = 65536 + (1024 * high) + low
    BY SMT, <1>0, <1>2
  <2>2. g = <<high + 55296, low + 56320>>
    BY SMT, <1>0, <1>2 DEF U!code_point_to_utf16_glyph, U!is_code_point_surrogate
  <2>3. AtTheEdge(c) <=> high \in {0, 1023}
    BY SMT, <1>0, <1>2 DEF AtTheEdge
  <2> HIDE DEF high, low
  <2>4. high + 55296 = 55296 + high /\ low + 56320 = 56320 + low
    BY SMT, <2>1
  <2>5. 55296 + high \in Units /\ 56320 + low \in Units
    BY SMT, <2>1 DEF Units
  <2>6. g = <<55296 + high, 56320 + low>>
    BY SMT, <2>2, <2>4
  <2>7. g \in Seq(Units)
    BY SMT, <2>5, <2>6
  <2>8. Pair(c, g, high, low)
    BY SMT, <2>1, <2>3, <2>6 DEF Pair
  <2>9. IsPair(c, g)
    <3>1. high \in Half /\ low \in Half
      BY SMT, <2>1 DEF Half
    <3> QED
      BY <2>8, <3>1, Zenon DEF IsPair
  <2> QED
    BY <2>7, <2>9, Zenon
<1>3. c < 65536 \/ c >= 65536
  BY SMT, <1>0
<1> HIDE <1>0
<1> QED
  BY SMT, <1>1, <1>2, <1>3

\* The code points that FromUtf16 reads as they were written.
Good == {c \in Codes : ~AtTheEdge(c) /\ ~U!is_upper_surrogate_pair(c)}

Glyph8 == [c \in Codes |-> U!code_point_to_utf8_glyph(c)]
Glyph16 == [c \in Codes |-> U!code_point_to_utf16_glyph(c)]
TwoBytes(to) == [u \in Units |-> U!UnitBytes(u, to)]
Sixteens == {U!UTF16LE, U!UTF16BE}

\* Both encodings of a code point are sequences, of bytes and of units.
LEMMA GlyphTypes ==
  /\ Glyph8 \in [Codes -> Seq(Bytes)] /\ Glyph16 \in [Codes -> Seq(Units)]
<1>1. \A c \in Codes : U!code_point_to_utf8_glyph(c) \in Seq(Bytes)
  BY Utf8ReadsBack, Zenon
<1>2. \A c \in Codes : U!code_point_to_utf16_glyph(c) \in Seq(Units)
  BY Utf16Glyph, Zenon
<1> QED
  BY <1>1, <1>2, Zenon DEF Glyph8, Glyph16

\* The bytes of a unit are bytes, and stand for it, in either order.
THEOREM UnitReadsBack ==
  ASSUME NEW u \in Units, NEW to \in Sixteens, NEW b, b = U!UnitBytes(u, to)
  PROVE  /\ b \in Seq(Bytes) /\ Len(b) = 2
         /\ b[1] = (IF to = U!UTF16LE THEN u % 256 ELSE u \div 256)
         /\ b[2] = (IF to = U!UTF16LE THEN u \div 256 ELSE u % 256)
         /\ U!Unit(IF to = U!UTF16LE THEN b ELSE U!reverse_bytes(b)) = u
<1>0. u \in Nat /\ u < 65536
  BY DEF Units
<1>1. /\ u % 256 \in Nat /\ u % 256 < 256 /\ u \div 256 \in Nat /\ u \div 256 < 256
      /\ (u % 256) + (256 * (u \div 256)) = u
  BY SMT, <1>0
<1> DEFINE l == u % 256
           h == u \div 256
<1>2. b = IF to = U!UTF16LE THEN <<l, h>> ELSE <<h, l>>
  BY DEF U!UnitBytes, U!reverse_bytes
<1>3. l \in Bytes /\ h \in Bytes
  BY <1>1 DEF Bytes
<1>5. l + (256 * h) = u
  BY <1>1
<1> HIDE DEF l, h
<1>4. b \in Seq(Bytes) /\ Len(b) = 2
  BY <1>2, <1>3
<1> QED
  BY <1>2, <1>4, <1>5 DEF U!Unit, U!reverse_bytes, l, h

\* The bytes of a unit are bytes.
LEMMA TwoBytesType ==
  ASSUME NEW to \in Sixteens
  PROVE  TwoBytes(to) \in [Units -> Seq(Bytes)]
<1>1. \A u \in Units : U!UnitBytes(u, to) \in Seq(Bytes)
  BY UnitReadsBack, Zenon
<1> QED
  BY <1>1, Zenon DEF TwoBytes

\* A unit is read where its two bytes are.
LEMMA ReadUnitAt ==
  ASSUME NEW u \in Units, NEW to \in Sixteens, NEW pre \in Seq(Bytes), NEW post \in Seq(Bytes),
         NEW file, file = (pre \o TwoBytes(to)[u]) \o post
  PROVE  U!ReadUnit(file, Len(pre) + 1, to) = u
<1> DEFINE b == U!UnitBytes(u, to)
<1>1. TwoBytes(to)[u] = b /\ b \in Seq(Bytes) /\ Len(b) = 2
      /\ U!Unit(IF to = U!UTF16LE THEN b ELSE U!reverse_bytes(b)) = u
  BY UnitReadsBack DEF TwoBytes
<1> HIDE DEF b
<1>2. SubSeq(file, Len(pre) + 1, Len(pre) + Len(b)) = b
  <2>1. file = (pre \o b) \o post
    BY <1>1
  <2>2. b \in Seq(Bytes)
    BY <1>1
  <2> QED
    BY <2>1, <2>2, PieceInFile
<1>3. Len(pre) + Len(b) = (Len(pre) + 1) + 1
  BY <1>1
<1>4. SubSeq(file, Len(pre) + 1, (Len(pre) + 1) + 1) = b
  BY <1>2, <1>3, Zenon
<1> QED
  BY <1>1, <1>4, Zenon DEF U!ReadUnit

\* The bytes of units, two by two.
LEMMA UnitsInFile ==
  ASSUME NEW to \in Sixteens
  PROVE  \A us \in Seq(Units) :
           /\ Len(Each(TwoBytes(to), us)) = 2 * Len(us)
           /\ \A k \in 1 .. Len(us) :
                /\ Each(TwoBytes(to), us)[(2 * k) - 1] = TwoBytes(to)[us[k]][1]
                /\ Each(TwoBytes(to), us)[2 * k] = TwoBytes(to)[us[k]][2]
<1> DEFINE h == TwoBytes(to)
           Fits(us) == /\ Len(Each(h, us)) = 2 * Len(us)
                       /\ \A k \in 1 .. Len(us) : /\ Each(h, us)[(2 * k) - 1] = h[us[k]][1]
                                                  /\ Each(h, us)[2 * k] = h[us[k]][2]
           G == {us \in Seq(Units) : Fits(us)}
<1>1. h \in [Units -> Seq(Bytes)]
  BY TwoBytesType
<1>2. \A u \in Units : h[u] \in Seq(Bytes) /\ Len(h[u]) = 2
  BY UnitReadsBack DEF TwoBytes
<1> HIDE DEF h
<1>6. \A s \in Seq(Units) : \A a \in Units : Each(h, Append(s, a)) = Each(h, s) \o h[a]
  BY <1>1, EachAppend, Zenon
<1>3. <<>> \in G
  <2>1. Each(h, <<>>) = <<>>
    BY EachEmpty
  <2> QED
    BY <2>1
<1>4. ASSUME NEW us \in G, NEW u \in Units PROVE Append(us, u) \in G
  <2> DEFINE vs == Append(us, u)
             e == Each(h, us)
             w == Each(h, vs)
             b == h[u]
  <2>1. us \in Seq(Units) /\ Fits(us)
    OBVIOUS
  <2>2. w = e \o b
    <3>1. us \in Seq(Units)
      OBVIOUS
    <3> HIDE DEF G
    <3> QED
      BY <1>6, <3>1, Zenon
  <2>3. e \in Seq(Bytes)
    BY <1>1, <2>1, EachType, Zenon
  <2>4. vs \in Seq(Units) /\ Len(vs) = Len(us) + 1 /\ vs[Len(us) + 1] = u
        /\ \A k \in 1 .. Len(us) : vs[k] = us[k]
    BY <2>1, AppendProperties
  <2>5. b \in Seq(Bytes) /\ Len(b) = 2 /\ Len(us) \in Nat /\ Len(e) = 2 * Len(us)
    BY <1>2, <2>1, LenProperties, Zenon
  <2> HIDE DEF vs, e, b, w
  <2>6. /\ Len(w) = Len(e) + Len(b)
        /\ \A i \in 1 .. Len(e) + Len(b) : w[i] = IF i <= Len(e) THEN e[i] ELSE b[i - Len(e)]
    BY <2>2, <2>3, <2>5, ConcatProperties, Zenon
  <2>7. Len(w) = 2 * Len(vs)
    BY <2>4, <2>5, <2>6
  <2>8. ASSUME NEW k \in 1 .. Len(vs)
        PROVE  w[(2 * k) - 1] = h[vs[k]][1] /\ w[2 * k] = h[vs[k]][2]
    <3>1. CASE k = Len(us) + 1
      <4>1. /\ (2 * k) - 1 \in 1 .. Len(e) + Len(b) /\ 2 * k \in 1 .. Len(e) + Len(b)
            /\ ~((2 * k) - 1 <= Len(e)) /\ ~(2 * k <= Len(e))
            /\ ((2 * k) - 1) - Len(e) = 1 /\ (2 * k) - Len(e) = 2
        BY <2>5, <3>1
      <4>2. w[(2 * k) - 1] = b[1] /\ w[2 * k] = b[2]
        BY <2>6, <4>1, Zenon
      <4> QED
        BY <2>4, <3>1, <4>2, Zenon DEF b
    <3>2. CASE k # Len(us) + 1
      <4>1. /\ (2 * k) - 1 \in 1 .. Len(e) + Len(b) /\ 2 * k \in 1 .. Len(e) + Len(b)
            /\ ((2 * k) - 1 <= Len(e)) /\ (2 * k <= Len(e)) /\ k \in 1 .. Len(us)
        BY <2>4, <2>5, <3>2
      <4>2. w[(2 * k) - 1] = e[(2 * k) - 1] /\ w[2 * k] = e[2 * k]
        BY <2>6, <4>1, Zenon
      <4> QED
        BY <2>1, <2>4, <4>1, <4>2, Zenon DEF e
    <3> QED
      BY <3>1, <3>2
  <2>9. Fits(vs)
    BY <2>7, <2>8, Zenon DEF w
  <2> QED
    BY <2>4, <2>9, Zenon DEF vs
<1>5. G = Seq(Units)
  <2> HIDE DEF Fits
  <2>1. G \in SUBSET Seq(Units)
    OBVIOUS
  <2> HIDE DEF G
  <2>2. \A us \in G : \A u \in Units : Append(us, u) \in G
    BY <1>4, Zenon
  <2> QED
    BY <1>3, <2>1, <2>2, SeqInduction, Zenon
<1> QED
  BY <1>5, Zenon DEF h

\* The two places of every unit, by the parity of the place.
LEMMA Halves ==
  ASSUME NEW n \in Nat, NEW i \in 1 .. 2 * n
  PROVE  /\ i % 2 = 1 => /\ (i + 1) \div 2 \in 1 .. n
                         /\ i = (2 * ((i + 1) \div 2)) - 1 /\ i + 1 = 2 * ((i + 1) \div 2)
         /\ i % 2 # 1 => /\ i \div 2 \in 1 .. n
                         /\ i = 2 * (i \div 2) /\ i - 1 = (2 * (i \div 2)) - 1
  BY SMT

\* Swapping the bytes of every unit turns one order into the other.
LEMMA SwapReadsBack ==
  ASSUME NEW from \in Sixteens, NEW to \in Sixteens, from # to
  PROVE  \A us \in Seq(Units) :
           U!SwapUnits(Each(TwoBytes(from), us)) = Each(TwoBytes(to), us)
<1> TAKE us \in Seq(Units)
<1> DEFINE e == Each(TwoBytes(from), us)
           w == Each(TwoBytes(to), us)
           n == Len(us)
<1>1. e \in Seq(Bytes) /\ w \in Seq(Bytes) /\ n \in Nat
  BY TwoBytesType, EachType, LenProperties, Zenon
<1>2. /\ Len(e) = 2 * n
      /\ \A k \in 1 .. n : e[(2 * k) - 1] = TwoBytes(from)[us[k]][1] /\ e[2 * k] = TwoBytes(from)[us[k]][2]
  BY UnitsInFile, Zenon
<1>3. /\ Len(w) = 2 * n
      /\ \A k \in 1 .. n : w[(2 * k) - 1] = TwoBytes(to)[us[k]][1] /\ w[2 * k] = TwoBytes(to)[us[k]][2]
  BY UnitsInFile, Zenon
<1>4. \A k \in 1 .. n : us[k] \in Units
  BY ElementOfSeq
<1>5. \A u \in Units : /\ TwoBytes(from)[u][1] = TwoBytes(to)[u][2]
                       /\ TwoBytes(from)[u][2] = TwoBytes(to)[u][1]
  BY SMT DEF Sixteens, TwoBytes, U!UnitBytes, U!reverse_bytes, U!UTF16LE, U!UTF16BE
<1> HIDE DEF e, w, n
<1>6. ASSUME NEW i \in 1 .. Len(w)
      PROVE  w[i] = IF i % 2 = 1 THEN e[i + 1] ELSE e[i - 1]
  <2>1. CASE i % 2 = 1
    <3> DEFINE k == (i + 1) \div 2
    <3>1. k \in 1 .. n /\ i = (2 * k) - 1 /\ i + 1 = 2 * k
      BY <1>1, <1>3, <2>1, Halves, Zenon
    <3> HIDE DEF k
    <3> QED
      BY <1>2, <1>3, <1>4, <1>5, <2>1, <3>1, Zenon
  <2>2. CASE i % 2 # 1
    <3> DEFINE k == i \div 2
    <3>1. k \in 1 .. n /\ i = 2 * k /\ i - 1 = (2 * k) - 1
      BY <1>1, <1>3, <2>2, Halves, Zenon
    <3> HIDE DEF k
    <3> QED
      BY <1>2, <1>3, <1>4, <1>5, <2>2, <3>1, Zenon
  <2> QED
    BY <2>1, <2>2
<1>7. U!SwapUnits(e) = [i \in 1 .. Len(w) |-> IF i % 2 = 1 THEN e[i + 1] ELSE e[i - 1]]
  BY <1>2, <1>3, Zenon DEF U!SwapUnits
<1>8. w = [i \in 1 .. Len(w) |-> w[i]]
  BY <1>1
<1>9. w = [i \in 1 .. Len(w) |-> IF i % 2 = 1 THEN e[i + 1] ELSE e[i - 1]]
  BY <1>6, <1>8
<1> QED
  BY <1>7, <1>9 DEF e, w

\* What FromUtf8 computes from the end of a file.
LEMMA FromUtf8Reads ==
  ASSUME NEW file \in Seq(Bytes)
  PROVE  \E f :
           /\ U!FromUtf8(file) = f[1] /\ f[Len(file) + 1] = <<>>
           /\ \A i \in 1 .. Len(file) :
                f[i] = <<U!utf8_decode(SubSeq(file, i, i + U!remaining_utf8_bytes(file[i])))>>
                       \o f[i + 1 + U!remaining_utf8_bytes(file[i])]
<1> DEFINE n == Len(file)
           val(i) == U!utf8_decode(SubSeq(file, i, i + U!remaining_utf8_bytes(file[i])))
           step(i) == i + 1 + U!remaining_utf8_bytes(file[i])
           Reads(f) == f = [i \in 1 .. n + 4 |-> IF i > n THEN <<>> ELSE <<val(i)>> \o f[step(i)]]
           V == {val(i) : i \in 1 .. n}
           v == [i \in 1 .. n |-> val(i)]
           next == [i \in 1 .. n |-> step(i)]
<1>1. U!FromUtf8(file) = (CHOOSE f : Reads(f))[1]
  BY DEF U!FromUtf8
<1>2. n \in Nat
  BY LenProperties
<1>3. \A i \in 1 .. n : step(i) \in 1 .. n + 4 /\ step(i) > i
  <2> TAKE i \in 1 .. n
  <2>1. U!remaining_utf8_bytes(file[i]) \in 0 .. 3
    BY DEF U!remaining_utf8_bytes
  <2> HIDE DEF n
  <2> QED
    BY <1>2, <2>1
<1> HIDE DEF val, step, n
<1>4. v \in [1 .. n -> V] /\ next \in [1 .. n -> 1 .. n + 4] /\ \A i \in 1 .. n : next[i] > i
  BY <1>3, Zenon
<1> HIDE DEF V
<1>13. PICK f : Backward(f, V, n, v, next)
  <2> HIDE DEF v, next
  <2> QED
    BY <1>2, <1>4, BackwardRecursion
<1>5. /\ f \in [1 .. n + 4 -> Seq(V)]
      /\ \A i \in 1 .. n + 4 : f[i] = IF i > n THEN <<>> ELSE <<v[i]>> \o f[next[i]]
  BY <1>13, Zenon DEF Backward
<1>6. \A i \in 1 .. n + 4 : f[i] = IF i > n THEN <<>> ELSE <<val(i)>> \o f[step(i)]
  <2> TAKE i \in 1 .. n + 4
  <2>1. CASE i > n
    BY <1>5, <2>1, Zenon
  <2>2. CASE ~(i > n)
    <3>1. i \in 1 .. n
      BY <1>2, <2>2
    <3>2. v[i] = val(i) /\ next[i] = step(i)
      BY <3>1, Zenon
    <3> QED
      BY <1>5, <2>2, <3>2, Zenon
  <2> QED
    BY <2>1, <2>2
<1>7. Reads(f)
  <2>1. f = [i \in 1 .. n + 4 |-> f[i]]
    BY <1>5, Zenon
  <2> QED
    BY <1>6, <2>1, Zenon
<1> DEFINE r == CHOOSE g : Reads(g)
<1>8. Reads(r)
  <2> HIDE DEF Reads
  <2> QED
    BY <1>7, Zenon
<1> HIDE DEF r
<1>9. n + 1 \in 1 .. n + 4 /\ n + 1 > n
  BY <1>2
<1>10. r[n + 1] = <<>>
  BY <1>8, <1>9, Zenon
<1>11. \A i \in 1 .. n : r[i] = <<val(i)>> \o r[step(i)]
  <2> TAKE i \in 1 .. n
  <2>1. i \in 1 .. n + 4 /\ ~(i > n)
    BY <1>2
  <2> QED
    BY <1>8, <2>1, Zenon
<1>12. U!FromUtf8(file) = r[1]
  BY <1>1, Zenon DEF r
<1> QED
  BY <1>10, <1>11, <1>12, Zenon DEF n, val, step

\* A UTF-8 file is read as the code points that were written.
LEMMA Utf8FileReadsBack ==
  \A p \in Seq(Codes) : U!FromUtf8(Each(Glyph8, p)) = p
<1>6. \A p \in Seq(Codes) : \A f : TakesOff(f, Glyph8, p, Codes, Bytes) => f[1] = p
  BY GlyphTypes, ReadsBack, Zenon
<1> TAKE p \in Seq(Codes)
<1> DEFINE file == Each(Glyph8, p)
<1>1. file \in Seq(Bytes) /\ Glyph8 \in [Codes -> Seq(Bytes)]
  BY GlyphTypes, EachType, Zenon
<1>2. PICK f :
        /\ U!FromUtf8(file) = f[1] /\ f[Len(file) + 1] = <<>>
        /\ \A i \in 1 .. Len(file) :
             f[i] = <<U!utf8_decode(SubSeq(file, i, i + U!remaining_utf8_bytes(file[i])))>>
                    \o f[i + 1 + U!remaining_utf8_bytes(file[i])]
  <2> HIDE DEF file
  <2> QED
    BY <1>1, FromUtf8Reads, Zenon
<1>3. ASSUME NEW a \in Codes, NEW pre \in Seq(Bytes), NEW post \in Seq(Bytes),
             file = (pre \o Glyph8[a]) \o post
      PROVE  f[Len(pre) + 1] = <<a>> \o f[Len(pre \o Glyph8[a]) + 1]
  <2> DEFINE g == Glyph8[a]
  <2>1. /\ g = U!code_point_to_utf8_glyph(a)
        /\ U!utf8_decode(g) = a /\ U!remaining_utf8_bytes(g[1]) = Len(g) - 1
        /\ g \in Seq(Bytes) /\ Len(g) \in 1 .. 4
    BY Utf8ReadsBack, Zenon DEF Glyph8
  <2> HIDE DEF file, g
  <2>2. file = (pre \o g) \o post
    BY <1>3 DEF g
  <2>3. /\ Len(file) = Len(pre) + Len(g) + Len(post) /\ Len(pre \o g) = Len(pre) + Len(g)
        /\ \A j \in 1 .. Len(g) : file[Len(pre) + j] = g[j]
        /\ SubSeq(file, Len(pre) + 1, Len(pre) + Len(g)) = g
    BY <2>1, <2>2, PieceInFile
  <2>4. Len(pre) \in Nat /\ Len(post) \in Nat /\ 1 \in 1 .. Len(g)
    BY <2>1, LenProperties
  <2>5. file[Len(pre) + 1] = g[1]
    BY <2>3, <2>4, Zenon
  <2>6. U!remaining_utf8_bytes(file[Len(pre) + 1]) = Len(g) - 1
    BY <2>1, <2>5, Zenon
  <2>7. /\ Len(pre) + 1 \in 1 .. Len(file)
        /\ (Len(pre) + 1) + (Len(g) - 1) = Len(pre) + Len(g)
        /\ (Len(pre) + 1) + 1 + (Len(g) - 1) = Len(pre \o g) + 1
    BY <2>1, <2>3, <2>4
  <2>8. f[Len(pre) + 1] = <<U!utf8_decode(g)>> \o f[Len(pre \o g) + 1]
    <3> DEFINE i == Len(pre) + 1
               k == U!remaining_utf8_bytes(file[i])
    <3>1. i \in 1 .. Len(file) /\ k = Len(g) - 1
      BY <2>6, <2>7, Zenon
    <3>2. f[i] = <<U!utf8_decode(SubSeq(file, i, i + k))>> \o f[i + 1 + k]
      BY <1>2, <3>1, Zenon
    <3>3. SubSeq(file, i, i + k) = g
      BY <2>3, <2>7, <3>1, Zenon
    <3>4. i + 1 + k = Len(pre \o g) + 1
      BY <2>7, <3>1, Zenon
    <3> QED
      BY <3>2, <3>3, <3>4, Zenon
  <2> QED
    BY <2>1, <2>8, Zenon DEF g
<1>4. \A a \in Codes : \A pre \in Seq(Bytes) : \A post \in Seq(Bytes) :
        file = (pre \o Glyph8[a]) \o post
          => f[Len(pre) + 1] = <<a>> \o f[Len(pre \o Glyph8[a]) + 1]
  BY <1>3, Zenon
<1>7. TakesOff(f, Glyph8, p, Codes, Bytes)
  BY <1>2, <1>4, Zenon DEF TakesOff
<1>5. f[1] = p
  BY <1>6, <1>7, Zenon
<1> QED
  BY <1>2, <1>5

-----------------------------------------------------------------------------
(* UTF-16 *)

Reads16(f, file, from) ==
  /\ U!FromUtf16(file, from) = f[1] /\ f[Len(file) + 1] = <<>>
  /\ \A i \in 1 .. Len(file) :
       f[i] = IF U!is_upper_surrogate_pair(U!ReadUnit(file, i, from))
              THEN <<U!utf16_glyph_to_code_point(
                       U!ReadUnit(file, i, from),
                       IF i + 2 > Len(file) THEN 0 ELSE U!ReadUnit(file, i + 2, from))>>
                     \o f[i + 4]
              ELSE <<U!utf16_glyph_to_code_point(U!ReadUnit(file, i, from), 0)>> \o f[i + 2]

\* What FromUtf16 computes from the end of a file.
LEMMA FromUtf16Reads ==
  ASSUME NEW file \in Seq(Bytes), NEW from
  PROVE  \E f : Reads16(f, file, from)
<1> DEFINE n == Len(file)
           upper(i) == U!is_upper_surrogate_pair(U!ReadUnit(file, i, from))
           pair(i) == U!utf16_glyph_to_code_point(
                        U!ReadUnit(file, i, from),
                        IF i + 2 > Len(file) THEN 0 ELSE U!ReadUnit(file, i + 2, from))
           one(i) == U!utf16_glyph_to_code_point(U!ReadUnit(file, i, from), 0)
           val(i) == IF upper(i) THEN pair(i) ELSE one(i)
           step(i) == IF upper(i) THEN i + 4 ELSE i + 2
           Reads(f) == f = [i \in 1 .. n + 4 |->
                              IF i > n THEN <<>>
                              ELSE IF upper(i) THEN <<pair(i)>> \o f[i + 4]
                              ELSE <<one(i)>> \o f[i + 2]]
           V == {val(i) : i \in 1 .. n}
           v == [i \in 1 .. n |-> val(i)]
           next == [i \in 1 .. n |-> step(i)]
<1>1. U!FromUtf16(file, from) = (CHOOSE f : Reads(f))[1]
  BY DEF U!FromUtf16
<1>2. n \in Nat
  BY LenProperties
<1> HIDE DEF pair, one, n, upper
<1>3. \A i \in 1 .. n : step(i) \in 1 .. n + 4 /\ step(i) > i
  BY <1>2
<1> HIDE DEF val, step
<1>4. v \in [1 .. n -> V] /\ next \in [1 .. n -> 1 .. n + 4] /\ \A i \in 1 .. n : next[i] > i
  BY <1>3, Zenon
<1> HIDE DEF V
<1>13. PICK f : Backward(f, V, n, v, next)
  <2> HIDE DEF v, next
  <2> QED
    BY <1>2, <1>4, BackwardRecursion
<1>5. /\ f \in [1 .. n + 4 -> Seq(V)]
      /\ \A i \in 1 .. n + 4 : f[i] = IF i > n THEN <<>> ELSE <<v[i]>> \o f[next[i]]
  BY <1>13, Zenon DEF Backward
<1>6. \A i \in 1 .. n + 4 : f[i] = IF i > n THEN <<>>
                                   ELSE IF upper(i) THEN <<pair(i)>> \o f[i + 4]
                                   ELSE <<one(i)>> \o f[i + 2]
  <2> TAKE i \in 1 .. n + 4
  <2>1. CASE i > n
    BY <1>5, <2>1, Zenon
  <2>2. CASE ~(i > n)
    <3>1. i \in 1 .. n
      BY <1>2, <2>2
    <3>2. v[i] = val(i) /\ next[i] = step(i)
      BY <3>1, Zenon
    <3> QED
      BY <1>5, <2>2, <3>2, Zenon DEF val, step
  <2> QED
    BY <2>1, <2>2
<1>7. Reads(f)
  <2>1. f = [i \in 1 .. n + 4 |-> f[i]]
    BY <1>5, Zenon
  <2> QED
    BY <1>6, <2>1, Zenon
<1> DEFINE r == CHOOSE g : Reads(g)
<1>8. Reads(r)
  <2> HIDE DEF Reads
  <2> QED
    BY <1>7, Zenon
<1> HIDE DEF r
<1>9. n + 1 \in 1 .. n + 4 /\ n + 1 > n
  BY <1>2
<1>10. r[n + 1] = <<>>
  BY <1>8, <1>9, Zenon
<1>11. \A i \in 1 .. n : r[i] = IF upper(i) THEN <<pair(i)>> \o r[i + 4]
                                ELSE <<one(i)>> \o r[i + 2]
  <2> TAKE i \in 1 .. n
  <2>1. i \in 1 .. n + 4 /\ ~(i > n)
    BY <1>2
  <2> QED
    BY <1>8, <2>1, Zenon
<1>12. U!FromUtf16(file, from) = r[1]
  BY <1>1, Zenon DEF r
<1>14. Reads16(r, file, from)
  BY <1>10, <1>11, <1>12, Zenon DEF n, upper, pair, one, Reads16
<1> QED
  BY <1>14, Zenon

\* A character that is read as it was written: one unit that is not taken for
\* half a pair, or a pair that is taken for one.
LEMMA GoodGlyph ==
  ASSUME NEW c \in Good
  PROVE  \/ /\ Glyph16[c] = <<c>> /\ c \in Units /\ ~U!is_upper_surrogate_pair(c)
            /\ U!utf16_glyph_to_code_point(c, 0) = c
         \/ \E u1 \in Units : \E u2 \in Units :
              /\ Glyph16[c] = <<u1, u2>> /\ U!is_upper_surrogate_pair(u1)
              /\ U!utf16_glyph_to_code_point(u1, u2) = c
<1> DEFINE g == Glyph16[c]
<1>1. c \in Codes /\ ~AtTheEdge(c) /\ ~U!is_upper_surrogate_pair(c) /\ c \in Nat
  BY DEF Good, Codes
<1>2. g = U!code_point_to_utf16_glyph(c)
  BY <1>1, Zenon DEF Glyph16
<1>3. IsUnit(c, g) \/ IsPair(c, g)
  BY <1>1, <1>2, Utf16Glyph, Zenon
<1> HIDE DEF g
<1>4. CASE IsUnit(c, g)
  <2>1. g = <<c>> /\ c \in Units
    BY SMT, <1>1, <1>4 DEF IsUnit, Units
  <2>2. U!utf16_glyph_to_code_point(c, 0) = c
    BY SMT, <1>1 DEF U!utf16_glyph_to_code_point
  <2> QED
    BY <1>1, <2>1, <2>2, Zenon DEF g
<1>5. CASE IsPair(c, g)
  <2>1. PICK high \in Half, low \in Half : Pair(c, g, high, low)
    BY <1>5, Zenon DEF IsPair
  <2> DEFINE u1 == 55296 + high
             u2 == 56320 + low
  <2>2. /\ c = 65536 + (1024 * high) + low /\ g = <<u1, u2>> /\ high \in 1 .. 1022 /\ low \in 0 .. 1023
    BY SMT, <1>1, <2>1 DEF Pair, Half
  <2>3. u1 \in Units /\ u2 \in Units /\ U!is_upper_surrogate_pair(u1)
    BY SMT, <2>2 DEF Units, U!is_upper_surrogate_pair
  <2>4. U!utf16_glyph_to_code_point(u1, u2) = c
    <3>1. (u1 - 55296) * 1024 = 1024 * high /\ (u2 - 56320) % 1024 = low
      BY SMT, <2>2
    <3> HIDE DEF u1, u2
    <3> QED
      BY SMT, <2>2, <2>3, <3>1 DEF U!utf16_glyph_to_code_point
  <2>5. g = <<u1, u2>>
    BY SMT, <2>2
  <2> HIDE DEF u1, u2
  <2> QED
    BY <2>3, <2>4, <2>5, Zenon DEF g
<1> QED
  BY <1>3, <1>4, <1>5

Wide(to) == [c \in Codes |-> Each(TwoBytes(to), Glyph16[c])]

\* The bytes of the units of a code point are bytes.
LEMMA WideType ==
  ASSUME NEW to \in Sixteens
  PROVE  Wide(to) \in [Codes -> Seq(Bytes)]
<1>1. \A c \in Codes : Glyph16[c] \in Seq(Units)
  BY GlyphTypes, Zenon
<1>2. \A us \in Seq(Units) : Each(TwoBytes(to), us) \in Seq(Bytes)
  BY TwoBytesType, EachType, Zenon
<1> QED
  BY <1>1, <1>2, Zenon DEF Wide

\* One element appended to another makes a pair.
LEMMA TwoOf ==
  ASSUME NEW B, NEW a \in B, NEW b \in B
  PROVE  <<a>> \in Seq(B) /\ Append(<<a>>, b) = <<a, b>>
<1>9. <<a>> \in Seq(B)
  OBVIOUS
<1>10. <<a, b>> \in Seq(B)
  OBVIOUS
<1>1. PICK s \in Seq(B) : s = <<a>>
  BY <1>9, Zenon
<1>2. PICK t \in Seq(B) : t = <<a, b>>
  BY <1>10, Zenon
<1>3. Len(s) = 1 /\ s[1] = a /\ Len(t) = 2 /\ t[1] = a /\ t[2] = b
  BY <1>1, <1>2
<1>4. /\ Append(s, b) \in Seq(B) /\ Len(Append(s, b)) = Len(s) + 1 /\ Append(s, b)[Len(s) + 1] = b
      /\ \A i \in 1 .. Len(s) : Append(s, b)[i] = s[i]
  BY AppendProperties
<1>5. PICK u \in Seq(B) : u = Append(s, b)
  BY <1>4, Zenon
<1>6. Len(u) = 2 /\ u[1] = a /\ u[2] = b
  <2>1. 1 + 1 = 2 /\ 1 \in 1 .. 1
    OBVIOUS
  <2> QED
    BY <1>3, <1>4, <1>5, <2>1, Zenon
<1>7. \A i \in 1 .. Len(u) : u[i] = t[i]
  BY <1>3, <1>6
<1>8. u = t
  BY <1>3, <1>6, <1>7, SeqEqual, Zenon
<1> QED
  BY <1>1, <1>2, <1>5, <1>8, Zenon

Associative(s, t, u) == (s \o t) \o u = s \o (t \o u)

\* Concatenation is associative, in a form to instantiate.
LEMMA ConcatIsAssociative ==
  ASSUME NEW B, NEW s \in Seq(B), NEW t \in Seq(B), NEW u \in Seq(B)
  PROVE  Associative(s, t, u)
  BY ConcatAssociative DEF Associative

Regrouped(pre, s, t, post, B) ==
  /\ (pre \o (s \o t)) \o post = (pre \o s) \o (t \o post)
  /\ (pre \o (s \o t)) \o post = ((pre \o s) \o t) \o post
  /\ pre \o s \in Seq(B) /\ t \o post \in Seq(B)
  /\ Len(pre \o s) = Len(pre) + Len(s) /\ Len(t \o post) = Len(t) + Len(post)
  /\ Len(pre \o (s \o t)) = Len(pre) + Len(s) + Len(t)

\* Two pieces in the middle of a file, one at a time.
LEMMA Regroup ==
  ASSUME NEW B, NEW pre \in Seq(B), NEW s \in Seq(B), NEW t \in Seq(B), NEW post \in Seq(B)
  PROVE  Regrouped(pre, s, t, post, B)
<1>1. pre \o s \in Seq(B) /\ t \o post \in Seq(B) /\ s \o t \in Seq(B)
  BY ConcatProperties
<1>2. Len(pre \o s) = Len(pre) + Len(s) /\ Len(t \o post) = Len(t) + Len(post)
      /\ Len(s \o t) = Len(s) + Len(t)
  BY ConcatProperties
<1>3. Len(pre \o (s \o t)) = Len(pre) + Len(s \o t)
  BY <1>1, ConcatProperties, Zenon
<1>4. pre \o (s \o t) = (pre \o s) \o t
  <2>1. Associative(pre, s, t)
    BY ConcatIsAssociative, Zenon
  <2> QED
    BY <2>1, Zenon DEF Associative
<1>5. ((pre \o s) \o t) \o post = (pre \o s) \o (t \o post)
  <2>1. PICK head \in Seq(B) : head = pre \o s
    BY <1>1, Zenon
  <2>2. (head \o t) \o post = head \o (t \o post)
    <3>1. Associative(head, t, post)
      BY ConcatIsAssociative, Zenon
    <3> QED
      BY <3>1, Zenon DEF Associative
  <2> QED
    BY <2>1, <2>2, Zenon
<1>6. Len(pre) \in Nat /\ Len(s) \in Nat /\ Len(t) \in Nat
  BY LenProperties
<1>7. Len(pre \o (s \o t)) = Len(pre) + Len(s) + Len(t)
  BY <1>2, <1>3, <1>6
<1> QED
  BY <1>1, <1>2, <1>7, <1>4, <1>5, Zenon DEF Regrouped

\* A UTF-16 file is read as the characters that were written, in either order.
LEMMA Utf16FileReadsBack ==
  ASSUME NEW to \in Sixteens
  PROVE  \A p \in Seq(Good) : U!FromUtf16(Each(Wide(to), p), to) = p
<1> DEFINE h == [c \in Good |-> Wide(to)[c]]
           tb == TwoBytes(to)
<1>1. h \in [Good -> Seq(Bytes)]
  <2>1. \A c \in Good : c \in Codes
    BY DEF Good
  <2> QED
    BY <2>1, WideType, Zenon
<1>2. \A p \in Seq(Good) : \A f : TakesOff(f, h, p, Good, Bytes) => f[1] = p
  <2> HIDE DEF h
  <2> QED
    BY <1>1, ReadsBack, Zenon
<1>3. tb \in [Units -> Seq(Bytes)] /\ \A u \in Units : tb[u] \in Seq(Bytes) /\ Len(tb[u]) = 2
  <2>1. \A u \in Units : tb[u] = U!UnitBytes(u, to)
    BY Zenon DEF TwoBytes
  <2> HIDE DEF tb
  <2>2. \A u \in Units : tb[u] \in Seq(Bytes) /\ Len(tb[u]) = 2
    <3> TAKE u \in Units
    <3>1. U!UnitBytes(u, to) \in Seq(Bytes)
      BY UnitReadsBack, Zenon
    <3>2. Len(U!UnitBytes(u, to)) = 2
      BY DEF U!UnitBytes, U!reverse_bytes
    <3> QED
      BY <2>1, <3>1, <3>2, Zenon
  <2> QED
    BY <2>2, TwoBytesType, Zenon DEF tb
<1>4. \A u \in Units : Each(tb, <<u>>) = tb[u]
  <2> HIDE DEF tb
  <2> QED
    BY <1>3, EachOne, Zenon
<1>5. \A u1 \in Units : \A u2 \in Units : Each(tb, <<u1, u2>>) = tb[u1] \o tb[u2]
  <2> HIDE DEF tb
  <2>1. \A s \in Seq(Units) : \A u \in Units : Each(tb, Append(s, u)) = Each(tb, s) \o tb[u]
    BY <1>3, EachAppend, Zenon
  <2> TAKE u1 \in Units
  <2> TAKE u2 \in Units
  <2>2. <<u1>> \in Seq(Units) /\ Append(<<u1>>, u2) = <<u1, u2>>
    BY TwoOf, Zenon
  <2> QED
    BY <1>4, <2>1, <2>2, Zenon
<1> TAKE p \in Seq(Good)
<1> DEFINE file == Each(h, p)
<1>6. file = Each(Wide(to), p)
  <2>1. \A k \in DOMAIN p : h[p[k]] = Wide(to)[p[k]]
    <3> TAKE k \in DOMAIN p
    <3>1. p[k] \in Good
      BY ElementOfSeq
    <3> QED
      BY <3>1, Zenon
  <2> HIDE DEF h
  <2> QED
    BY <2>1, EachSame, Zenon
<1>7. file \in Seq(Bytes)
  <2> HIDE DEF h
  <2> QED
    BY <1>1, EachType, Zenon
<1> HIDE DEF file
<1>12. PICK f : Reads16(f, file, to)
  BY <1>7, FromUtf16Reads, Zenon
<1>8. /\ U!FromUtf16(file, to) = f[1] /\ f[Len(file) + 1] = <<>>
      /\ \A i \in 1 .. Len(file) :
                f[i] = IF U!is_upper_surrogate_pair(U!ReadUnit(file, i, to))
                       THEN <<U!utf16_glyph_to_code_point(
                                U!ReadUnit(file, i, to),
                                IF i + 2 > Len(file) THEN 0 ELSE U!ReadUnit(file, i + 2, to))>>
                              \o f[i + 4]
                       ELSE <<U!utf16_glyph_to_code_point(U!ReadUnit(file, i, to), 0)>> \o f[i + 2]
  BY <1>12, Zenon DEF Reads16
<1>9. ASSUME NEW a \in Good, NEW pre \in Seq(Bytes), NEW post \in Seq(Bytes),
             file = (pre \o h[a]) \o post
      PROVE  f[Len(pre) + 1] = <<a>> \o f[Len(pre \o h[a]) + 1]
  <2>0. a \in Codes
    BY DEF Good
  <2>1. h[a] = Each(tb, Glyph16[a])
    BY <2>0, Zenon DEF Wide
  <2>2. Len(pre) \in Nat /\ Len(post) \in Nat
    BY LenProperties
  <2> HIDE DEF h
  <2> DEFINE i == Len(pre) + 1
  <2>3. CASE /\ Glyph16[a] = <<a>> /\ a \in Units /\ ~U!is_upper_surrogate_pair(a)
             /\ U!utf16_glyph_to_code_point(a, 0) = a
    <3>1. h[a] = tb[a] /\ tb[a] \in Seq(Bytes) /\ Len(tb[a]) = 2
      BY <1>3, <1>4, <2>1, <2>3, Zenon
    <3>2. file = (pre \o TwoBytes(to)[a]) \o post
      BY <1>9, <3>1, Zenon
    <3>3. U!ReadUnit(file, i, to) = a
      BY <2>3, <3>2, ReadUnitAt, Zenon
    <3>4. Len(file) = Len(pre) + Len(tb[a]) + Len(post) /\ Len(pre \o tb[a]) = Len(pre) + Len(tb[a])
      <4> HIDE DEF tb
      <4>1. file = (pre \o tb[a]) \o post
        BY <1>9, <3>1, Zenon
      <4> QED
        <5>1. ByteFileWith(file, pre, tb[a], post)
          BY <3>1, <4>1, PieceOfBytes, Zenon
        <5> QED
          BY <5>1, Zenon DEF ByteFileWith
    <3>5. i \in 1 .. Len(file) /\ i + 2 = Len(pre \o h[a]) + 1
      BY <2>2, <3>1, <3>4
    <3> HIDE DEF i
    <3>6. f[i] = <<U!utf16_glyph_to_code_point(a, 0)>> \o f[i + 2]
      BY <1>8, <2>3, <3>3, <3>5, Zenon
    <3> QED
      BY <2>3, <3>5, <3>6, Zenon DEF i
  <2>4. CASE \E u1 \in Units : \E u2 \in Units :
               /\ Glyph16[a] = <<u1, u2>> /\ U!is_upper_surrogate_pair(u1)
               /\ U!utf16_glyph_to_code_point(u1, u2) = a
    <3>0. PICK u1 \in Units : \E u2 \in Units :
               /\ Glyph16[a] = <<u1, u2>> /\ U!is_upper_surrogate_pair(u1)
               /\ U!utf16_glyph_to_code_point(u1, u2) = a
      BY <2>4, Zenon
    <3>00. PICK u2 \in Units :
               /\ Glyph16[a] = <<u1, u2>> /\ U!is_upper_surrogate_pair(u1)
               /\ U!utf16_glyph_to_code_point(u1, u2) = a
      BY <3>0, Zenon
    <3> DEFINE b1 == tb[u1]
               b2 == tb[u2]
    <3>1. h[a] = b1 \o b2 /\ b1 \in Seq(Bytes) /\ b2 \in Seq(Bytes) /\ Len(b1) = 2 /\ Len(b2) = 2
      BY <1>3, <1>5, <2>1, <3>00, Zenon
    <3> HIDE DEF b1, b2
    <3>2. /\ (pre \o (b1 \o b2)) \o post = (pre \o b1) \o (b2 \o post)
          /\ (pre \o (b1 \o b2)) \o post = ((pre \o b1) \o b2) \o post
          /\ pre \o b1 \in Seq(Bytes) /\ b2 \o post \in Seq(Bytes)
          /\ Len(pre \o b1) = Len(pre) + Len(b1) /\ Len(b2 \o post) = Len(b2) + Len(post)
          /\ Len(pre \o (b1 \o b2)) = Len(pre) + Len(b1) + Len(b2)
      <4>1. Regrouped(pre, b1, b2, post, Bytes)
        BY <3>1, Regroup, Zenon
      <4> QED
        BY <4>1, Zenon DEF Regrouped
    <3>3. file = (pre \o b1) \o (b2 \o post) /\ file = ((pre \o b1) \o b2) \o post
      BY <1>9, <3>1, <3>2, Zenon
    <3>4. U!ReadUnit(file, i, to) = u1
      <4>1. file = (pre \o TwoBytes(to)[u1]) \o (b2 \o post)
        BY <3>3, Zenon DEF b1
      <4> QED
        BY <3>2, <4>1, ReadUnitAt, Zenon
    <3>5. U!ReadUnit(file, i + 2, to) = u2
      <4>1. file = ((pre \o b1) \o TwoBytes(to)[u2]) \o post
        BY <3>3, Zenon DEF b2
      <4>2. U!ReadUnit(file, Len(pre \o b1) + 1, to) = u2
        BY <3>2, <4>1, ReadUnitAt, Zenon
      <4>3. Len(pre \o b1) + 1 = i + 2
        BY <2>2, <3>1, <3>2
      <4> QED
        BY <4>2, <4>3, Zenon
    <3>6. Len(file) = Len(pre) + 4 + Len(post)
      <4>1. Len(file) = Len(pre \o b1) + Len(b2) + Len(post)
        <5>1. ByteFileWith(file, pre \o b1, b2, post)
          BY <3>1, <3>2, <3>3, PieceOfBytes, Zenon
        <5> QED
          BY <5>1, Zenon DEF ByteFileWith
      <4> QED
        BY <2>2, <3>1, <3>2, <4>1
    <3>7. i \in 1 .. Len(file) /\ i + 4 = Len(pre \o h[a]) + 1 /\ ~(i + 2 > Len(file))
      BY <2>2, <3>1, <3>2, <3>6
    <3> HIDE DEF i
    <3>8. f[i] = <<U!utf16_glyph_to_code_point(u1, u2)>> \o f[i + 4]
      BY <1>8, <3>00, <3>4, <3>5, <3>7, Zenon
    <3> QED
      BY <3>00, <3>7, <3>8, Zenon DEF i
  <2> QED
    BY <2>3, <2>4, GoodGlyph, Zenon
<1>10. TakesOff(f, h, p, Good, Bytes)
  <2>1. \A a \in Good : \A pre \in Seq(Bytes) : \A post \in Seq(Bytes) :
          file = (pre \o h[a]) \o post
            => f[Len(pre) + 1] = <<a>> \o f[Len(pre \o h[a]) + 1]
    BY <1>9, Zenon
  <2> HIDE DEF h
  <2> QED
    BY <1>8, <2>1, Zenon DEF TakesOff, file
<1>11. f[1] = p
  <2> HIDE DEF h
  <2> QED
    BY <1>2, <1>10, Zenon
<1> QED
  BY <1>6, <1>8, <1>11, Zenon

\* The code points of a text: no surrogates that could be taken for a pair.
Chars == {c \in Codes : ~U!is_upper_surrogate_pair(c)}

\* What stands for c when a UTF-16 file has been read: the two units that are
\* taken for characters of their own, or c.
Split == [c \in Chars |-> IF AtTheEdge(c) THEN Glyph16[c] ELSE <<c>>]

\* A sequence over A is one over every larger set.
LEMMA SeqInLarger ==
  ASSUME NEW A, NEW B, A \subseteq B, NEW s \in Seq(A)
  PROVE  s \in Seq(B)
<1>1. Len(s) \in Nat /\ \A i \in 1 .. Len(s) : s[i] \in B
  BY LenProperties, ElementOfSeq
<1>2. s = [i \in 1 .. Len(s) |-> s[i]]
  BY SeqDef
<1> QED
  BY <1>1, <1>2

\* What the reader of UTF-16 takes a character for is a sequence of good ones.
LEMMA SplitType == Split \in [Chars -> Seq(Good)]
<1>1. ASSUME NEW c \in Chars PROVE (IF AtTheEdge(c) THEN Glyph16[c] ELSE <<c>>) \in Seq(Good)
  <2>0. c \in Codes /\ ~U!is_upper_surrogate_pair(c) /\ Glyph16[c] = U!code_point_to_utf16_glyph(c)
    BY DEF Chars, Glyph16
  <2>1. CASE ~AtTheEdge(c)
    <3>1. c \in Good
      BY <2>0, <2>1 DEF Good
    <3> QED
      BY <2>1, <3>1
  <2>2. CASE AtTheEdge(c)
    <3>0. IsPair(c, Glyph16[c])
      <4>1. IsUnit(c, Glyph16[c]) \/ IsPair(c, Glyph16[c])
        BY <2>0, Utf16Glyph, Zenon
      <4>2. ~IsUnit(c, Glyph16[c])
        BY SMT, <2>2 DEF IsUnit
      <4> QED
        BY <4>1, <4>2
    <3>1. PICK high \in Half, low \in Half : Pair(c, Glyph16[c], high, low)
      BY <3>0, Zenon DEF IsPair
    <3>2. Glyph16[c] = <<55296 + high, 56320 + low>> /\ high \in {0, 1023} /\ low \in 0 .. 1023
      BY SMT, <2>2, <3>1 DEF Pair, Half
    <3>3. 55296 + high \in Good /\ 56320 + low \in Good
      BY SMT, <3>2 DEF Good, Codes, AtTheEdge, U!is_upper_surrogate_pair
    <3>4. Glyph16[c] \in Seq(Good)
      BY SMT, <3>2, <3>3
    <3> QED
      BY <2>2, <3>4
  <2> QED
    BY <2>1, <2>2
<1> QED
  BY <1>1, Zenon DEF Split

\* It is written as the same units.
LEMMA SplitGlyph ==
  ASSUME NEW c \in Chars
  PROVE  Each(Glyph16, Split[c]) = Glyph16[c]
<1>0. c \in Codes /\ Glyph16[c] = U!code_point_to_utf16_glyph(c)
      /\ Split[c] = IF AtTheEdge(c) THEN Glyph16[c] ELSE <<c>>
  BY DEF Chars, Glyph16, Split
<1>1. \A d \in Codes : Each(Glyph16, <<d>>) = Glyph16[d]
  BY GlyphTypes, EachOne, Zenon
<1>2. \A s \in Seq(Codes) : \A d \in Codes : Each(Glyph16, Append(s, d)) = Each(Glyph16, s) \o Glyph16[d]
  BY GlyphTypes, EachAppend, Zenon
<1>3. CASE ~AtTheEdge(c)
  BY <1>0, <1>1, <1>3, Zenon
<1>4. CASE AtTheEdge(c)
  <2>0. IsPair(c, Glyph16[c])
    <3>1. IsUnit(c, Glyph16[c]) \/ IsPair(c, Glyph16[c])
      BY <1>0, Utf16Glyph, Zenon
    <3>2. ~IsUnit(c, Glyph16[c])
      BY SMT, <1>4 DEF IsUnit
    <3> QED
      BY <3>1, <3>2
  <2>1. PICK high \in Half, low \in Half : Pair(c, Glyph16[c], high, low)
    BY <2>0, Zenon DEF IsPair
  <2> DEFINE u1 == 55296 + high
             u2 == 56320 + low
  <2>2. Glyph16[c] = <<u1, u2>>
    BY SMT, <2>1 DEF Pair
  <2>3. u1 \in Codes /\ u2 \in Codes
    BY SMT DEF Half, Codes
  <2>4. U!code_point_to_utf16_glyph(u1) = <<u1>> /\ U!code_point_to_utf16_glyph(u2) = <<u2>>
    BY SMT DEF Half, U!code_point_to_utf16_glyph, U!is_code_point_surrogate
  <2> HIDE DEF u1, u2
  <2>5. Glyph16[u1] = <<u1>> /\ Glyph16[u2] = <<u2>>
    BY <2>3, <2>4, Zenon DEF Glyph16
  <2>6. <<u1>> \in Seq(Codes) /\ Append(<<u1>>, u2) = <<u1, u2>>
    BY <2>3, TwoOf, Zenon
  <2>7. Each(Glyph16, <<u1, u2>>) = Glyph16[u1] \o Glyph16[u2]
    BY <1>1, <1>2, <2>3, <2>6, Zenon
  <2>8. <<u1>> \o <<u2>> = <<u1, u2>>
    <3>1. Append(<<u1>>, u2) = <<u1>> \o <<u2>>
      BY <2>3, <2>6, AppendIsConcat
    <3> QED
      BY <2>6, <3>1, Zenon
  <2> QED
    BY <1>0, <1>4, <2>2, <2>5, <2>7, <2>8, Zenon
<1> QED
  BY <1>3, <1>4

\* The two units of a character at the edge are written as they were.
LEMMA SplitWritesTheSame ==
  \A p \in Seq(Chars) : /\ Each(Split, p) \in Seq(Good)
                        /\ Each(Glyph16, Each(Split, p)) = Each(Glyph16, p)
<1>1. \A p \in Seq(Chars) : Each(Split, p) \in Seq(Good)
  BY SplitType, EachType, Zenon
<1>2. Split \in [Chars -> Seq(Codes)]
  <2>1. Good \subseteq Codes
    BY DEF Good
  <2>2. \A s \in Seq(Good) : s \in Seq(Codes)
    BY <2>1, SeqInLarger, Zenon
  <2> QED
    BY <2>2, SplitType, Zenon
<1> DEFINE h == [a \in Chars |-> Each(Glyph16, Split[a])]
<1>3. \A p \in Seq(Chars) : Each(Glyph16, Each(Split, p)) = Each(h, p)
  <2>1. \A p \in Seq(Chars) : InOneStep(Glyph16, Split, Chars, p)
    BY <1>2, GlyphTypes, EachEach, Zenon
  <2> QED
    BY <2>1, Zenon DEF InOneStep
<1>4. ASSUME NEW p \in Seq(Chars) PROVE Each(h, p) = Each(Glyph16, p)
  <2>1. \A k \in DOMAIN p : h[p[k]] = Glyph16[p[k]]
    <3> TAKE k \in DOMAIN p
    <3>1. p[k] \in Chars
      BY ElementOfSeq
    <3> QED
      BY <3>1, SplitGlyph, Zenon
  <2> HIDE DEF h
  <2> QED
    BY <2>1, EachSame, Zenon
<1> HIDE DEF h
<1> QED
  BY <1>1, <1>3, <1>4, Zenon

\* So they are written in the same bytes.
LEMMA SplitFile ==
  ASSUME NEW to \in Sixteens
  PROVE  \A p \in Seq(Chars) :
           /\ Each(Wide(to), Each(Split, p)) = Each(Wide(to), p)
           /\ Each(Wide(to), p) = Each(TwoBytes(to), Each(Glyph16, p))
<1>1. \A p \in Seq(Codes) : Each(TwoBytes(to), Each(Glyph16, p)) = Each(Wide(to), p)
  <2>1. \A p \in Seq(Codes) : InOneStep(TwoBytes(to), Glyph16, Codes, p)
    BY GlyphTypes, TwoBytesType, EachEach, Zenon
  <2> QED
    BY <2>1, Zenon DEF InOneStep, Wide
<1>2. Good \subseteq Codes /\ Chars \subseteq Codes
  BY DEF Good, Chars
<1>3. (\A s \in Seq(Good) : s \in Seq(Codes)) /\ (\A s \in Seq(Chars) : s \in Seq(Codes))
  BY <1>2, SeqInLarger, Zenon
<1> QED
  BY <1>1, <1>3, SplitWritesTheSame, Zenon

-----------------------------------------------------------------------------
(* What the program writes, and what the standard says *)

\* Unicode's FlattenSeq is this one.
LEMMA FlattenU == \A s : U!FlattenSeq(s) = FlattenSeq(s)
  BY DEF U!FlattenSeq, FlattenSeq

\* The encoding of the standard is the one the program writes.
LEMMA Utf16Standard ==
  ASSUME NEW c \in Codes
  PROVE  U!Utf16(c) = Glyph16[c]
<1>0. c \in Nat /\ c <= 1114111 /\ Glyph16[c] = U!code_point_to_utf16_glyph(c)
  BY DEF Codes, Glyph16
<1>1. CASE c < 65536
  BY SMT, <1>0, <1>1 DEF U!code_point_to_utf16_glyph, U!is_code_point_surrogate, U!Utf16
<1>2. CASE c >= 65536
  <2> DEFINE high == (c - 65536) \div 1024
             low == (c - 65536) % 1024
             S == {<<55296 + high, 56320 + k>> : k \in 0 .. 1023}
             Fits(u) == c = 65536 + ((u[1] - 55296) * 1024) + (u[2] - 56320)
  <2>1. high \in 0 .. 1023 /\ low \in 0 .. 1023 /\ c = 65536 + (1024 * high) + low
    BY SMTT(60), <1>0, <1>2
  <2>2. U!Utf16(c) = CHOOSE u \in S : Fits(u)
    <3>1. U!Utf16(c) = IF c < 65536 THEN <<c>> ELSE CHOOSE u \in S : Fits(u)
      BY SMT DEF U!Utf16
    <3>2. ~(c < 65536)
      BY SMT, <1>0, <1>2
    <3> HIDE DEF S, Fits
    <3> QED
      BY SMT, <3>1, <3>2
  <2>3. Glyph16[c] = <<high + 55296, low + 56320>>
    BY SMT, <1>0, <1>2 DEF U!code_point_to_utf16_glyph, U!is_code_point_surrogate
  <2> HIDE DEF high, low
  <2> DEFINE g == <<55296 + high, 56320 + low>>
  <2>4. Glyph16[c] = g
    <3>1. high + 55296 = 55296 + high /\ low + 56320 = 56320 + low
      BY SMT, <2>1
    <3> QED
      BY SMT, <2>3, <3>1
  <2>5. g \in S
    BY SMT, <2>1
  <2>6. Fits(g)
    BY SMT, <2>1
  <2>7. \A u \in S : Fits(u) => u = g
    BY SMTT(60), <2>1
  <2> HIDE DEF g, S, Fits
  <2> QED
    BY <2>2, <2>4, <2>5, <2>6, <2>7, Zenon
<1>3. c < 65536 \/ c >= 65536
  BY SMT, <1>0
<1> QED
  BY SMT, <1>1, <1>2, <1>3

\* A UTF-8 file is the bytes of its code points, one behind the other.
LEMMA WrittenUtf8 ==
  \A p \in Seq(Codes) : U!WriteUtf8(p) = Each(Glyph8, p) /\ U!Encoded(p, U!UTF8) = Each(Glyph8, p)
<1> TAKE p \in Seq(Codes)
<1>1. DOMAIN p = 1 .. Len(p) /\ \A i \in DOMAIN p : p[i] \in Codes
  BY LenProperties, ElementOfSeq
<1>2. [i \in 1 .. Len(p) |-> U!code_point_to_utf8_glyph(p[i])] = [i \in DOMAIN p |-> Glyph8[p[i]]]
  BY <1>1, Zenon DEF Glyph8
<1>3. [i \in DOMAIN p |-> U!Utf8(p[i])] = [i \in DOMAIN p |-> Glyph8[p[i]]]
  <2>1. \A i \in DOMAIN p : U!Utf8(p[i]) = Glyph8[p[i]]
    BY <1>1, Utf8Standard, Zenon DEF Glyph8
  <2> QED
    BY <2>1, Zenon
<1>4. U!Encoded(p, U!UTF8) = U!FlattenSeq([i \in DOMAIN p |-> U!Utf8(p[i])])
  BY DEF U!Encoded
<1>5. U!WriteUtf8(p) = U!FlattenSeq([i \in 1 .. Len(p) |-> U!code_point_to_utf8_glyph(p[i])])
  BY DEF U!WriteUtf8
<1> QED
  BY <1>2, <1>3, <1>4, <1>5, FlattenU, Zenon DEF Each

\* A sequence of units is written two bytes for each.
LEMMA WrittenUnits ==
  ASSUME NEW to \in Sixteens
  PROVE  \A g \in Seq(Units) :
           /\ U!FlattenSeq([j \in DOMAIN g |-> U!UnitBytes(g[j], to)]) = Each(TwoBytes(to), g)
           /\ U!FlattenSeq([j \in DOMAIN g |-> U!Bytes(g[j], to)]) = Each(TwoBytes(to), g)
<1> TAKE g \in Seq(Units)
<1>1. \A j \in DOMAIN g : g[j] \in Units
  BY ElementOfSeq
<1>2. \A u \in Units : U!Bytes(u, to) = U!UnitBytes(u, to)
  BY SMT DEF U!Bytes, U!UnitBytes, U!reverse_bytes
<1>3. [j \in DOMAIN g |-> U!UnitBytes(g[j], to)] = [j \in DOMAIN g |-> TwoBytes(to)[g[j]]]
  BY <1>1, Zenon DEF TwoBytes
<1>4. [j \in DOMAIN g |-> U!Bytes(g[j], to)] = [j \in DOMAIN g |-> TwoBytes(to)[g[j]]]
  <2>1. \A j \in DOMAIN g : U!Bytes(g[j], to) = TwoBytes(to)[g[j]]
    BY <1>1, <1>2, Zenon DEF TwoBytes
  <2> QED
    BY <2>1, Zenon
<1> QED
  BY <1>3, <1>4, FlattenU, Zenon DEF Each

\* A UTF-16 file is the bytes of its code points, one behind the other.
LEMMA WrittenUtf16 ==
  ASSUME NEW to \in Sixteens
  PROVE  \A p \in Seq(Codes) :
           U!WriteUtf16(p, to) = Each(Wide(to), p) /\ U!Encoded(p, to) = Each(Wide(to), p)
<1> TAKE p \in Seq(Codes)
<1>1. DOMAIN p = 1 .. Len(p) /\ \A i \in DOMAIN p : p[i] \in Codes
  BY LenProperties, ElementOfSeq
<1> DEFINE Write(c) == U!FlattenSeq([j \in DOMAIN U!code_point_to_utf16_glyph(c) |->
                                       U!UnitBytes(U!code_point_to_utf16_glyph(c)[j], to)])
           Say(c) == U!FlattenSeq([j \in DOMAIN U!Utf16(c) |-> U!Bytes(U!Utf16(c)[j], to)])
<1>2. ASSUME NEW c \in Codes PROVE Write(c) = Wide(to)[c] /\ Say(c) = Wide(to)[c]
  <2>1. U!code_point_to_utf16_glyph(c) = Glyph16[c] /\ U!Utf16(c) = Glyph16[c]
        /\ Glyph16[c] \in Seq(Units)
    BY Utf16Standard, GlyphTypes, Zenon DEF Glyph16
  <2>2. Wide(to)[c] = Each(TwoBytes(to), Glyph16[c])
    BY Zenon DEF Wide
  <2> QED
    BY <2>1, <2>2, WrittenUnits, Zenon
<1>3. U!WriteUtf16(p, to) = U!FlattenSeq([i \in 1 .. Len(p) |-> Write(p[i])])
  BY DEF U!WriteUtf16
<1>4. U!Encoded(p, to) = U!FlattenSeq([i \in DOMAIN p |-> Say(p[i])])
  <2>1. to # U!UTF8
    BY SMT DEF Sixteens, U!UTF8, U!UTF16LE, U!UTF16BE
  <2>2. U!Encoded(p, to) = U!FlattenSeq([i \in DOMAIN p |-> IF to = U!UTF8 THEN U!Utf8(p[i]) ELSE Say(p[i])])
    BY DEF U!Encoded
  <2> HIDE DEF Say
  <2>3. [i \in DOMAIN p |-> IF to = U!UTF8 THEN U!Utf8(p[i]) ELSE Say(p[i])]
          = [i \in DOMAIN p |-> Say(p[i])]
    BY <2>1, Zenon
  <2> QED
    BY <2>2, <2>3, Zenon
<1> HIDE DEF Write, Say
<1>5. [i \in 1 .. Len(p) |-> Write(p[i])] = [i \in DOMAIN p |-> Wide(to)[p[i]]]
  BY <1>1, <1>2, Zenon
<1>6. [i \in DOMAIN p |-> Say(p[i])] = [i \in DOMAIN p |-> Wide(to)[p[i]]]
  BY <1>1, <1>2, Zenon
<1> QED
  BY <1>3, <1>4, <1>5, <1>6, FlattenU, Zenon DEF Each

-----------------------------------------------------------------------------
(* The byte order mark *)

\* The bytes of the byte order mark in each format.
LEMMA MarkBytes ==
  /\ BOM \in Good /\ BOM \in Chars /\ BOM \in Codes
  /\ Glyph8[BOM] = <<239, 187, 191>>
  /\ Wide(U!UTF16LE)[BOM] = <<255, 254>> /\ Wide(U!UTF16BE)[BOM] = <<254, 255>>
<1>1. BOM \in Good /\ BOM \in Chars /\ BOM \in Codes
  BY SMT DEF BOM, Good, Chars, Codes, AtTheEdge, U!is_upper_surrogate_pair
<1>2. U!code_point_to_utf8_glyph(BOM) = <<239, 187, 191>>
  BY SMT DEF BOM, U!code_point_to_utf8_glyph, U!utf8_glyph_size_of_code_point, U!Continuation
<1>3. U!code_point_to_utf16_glyph(BOM) = <<BOM>> /\ BOM \in Units
  BY SMT DEF BOM, U!code_point_to_utf16_glyph, U!is_code_point_surrogate, Units
<1>4. U!UnitBytes(BOM, U!UTF16LE) = <<255, 254>> /\ U!UnitBytes(BOM, U!UTF16BE) = <<254, 255>>
  BY SMT DEF BOM, U!UnitBytes, U!reverse_bytes, U!UTF16LE, U!UTF16BE
<1>5. U!UTF16LE \in Sixteens /\ U!UTF16BE \in Sixteens
  BY Zenon DEF Sixteens
<1>6. ASSUME NEW to \in Sixteens PROVE Wide(to)[BOM] = U!UnitBytes(BOM, to)
  <2>1. Wide(to)[BOM] = Each(TwoBytes(to), <<BOM>>)
    BY <1>1, <1>3, Zenon DEF Wide, Glyph16
  <2>2. Each(TwoBytes(to), <<BOM>>) = TwoBytes(to)[BOM]
    BY <1>3, TwoBytesType, EachOne, Zenon
  <2> QED
    BY <1>3, <2>1, <2>2, Zenon DEF TwoBytes
<1>7. Glyph8[BOM] = U!code_point_to_utf8_glyph(BOM)
  BY <1>1, Zenon DEF Glyph8
<1>8. Glyph8[BOM] = <<239, 187, 191>>
  BY <1>2, <1>7, Zenon
<1>9. Wide(U!UTF16LE)[BOM] = <<255, 254>>
  BY <1>4, <1>5, <1>6
<1>10. Wide(U!UTF16BE)[BOM] = <<254, 255>>
  BY <1>4, <1>5, <1>6
<1> QED
  BY <1>1, <1>8, <1>9, <1>10, Zenon

FoundBefore(rest) ==
  /\ U!check_bom(<<239, 187, 191>> \o rest) = U!UTF8
  /\ U!check_bom(<<255, 254>> \o rest) \in {0, U!UTF16LE}
  /\ U!check_bom(<<254, 255>> \o rest) \in {0, U!UTF16BE}

\* What a file that begins with it is taken for.
LEMMA MarkInFile ==
  ASSUME NEW rest \in Seq(Bytes)
  PROVE  FoundBefore(rest)
<1>1. ASSUME NEW m \in Seq(Bytes), NEW file, file = m \o rest, Len(m) \in {2, 3}
      PROVE  /\ file[1] = m[1] /\ file \in Seq(Bytes) /\ SubSeq(file, 1, Len(m)) = m
             /\ Len(file) >= Len(m)
  <2>1. <<>> \o m = m /\ <<>> \in Seq(Bytes) /\ Len(<<>>) = 0
    BY ConcatEmptySeq
  <2>2. ByteFileWith(file, <<>>, m, rest)
    BY <1>1, <2>1, PieceOfBytes, Zenon
  <2>3. /\ file \in Seq(Bytes) /\ Len(file) = 0 + Len(m) + Len(rest)
        /\ \A j \in 1 .. Len(m) : file[0 + j] = m[j]
        /\ SubSeq(file, 0 + 1, 0 + Len(m)) = m
    BY <2>1, <2>2, Zenon DEF ByteFileWith
  <2>7. Len(m) \in {2, 3}
    BY <1>1
  <2>4. 0 + 1 = 1 /\ 0 + Len(m) = Len(m) /\ 1 \in 1 .. Len(m)
    <3>1. \A l \in {2, 3} : 0 + 1 = 1 /\ 0 + l = l /\ 1 \in 1 .. l
      OBVIOUS
    <3> QED
      BY <2>7, <3>1, Zenon
  <2>5. file[1] = m[1] /\ SubSeq(file, 1, Len(m)) = m
    <3>1. file[0 + 1] = m[1]
      BY <2>3, <2>4, Zenon
    <3> QED
      BY <2>3, <2>4, <3>1
  <2>6. Len(file) >= Len(m)
    BY <2>3, <1>1, LenProperties
  <2> QED
    BY <2>3, <2>5, <2>6
<1>2. ASSUME NEW file \in Seq(Bytes), Len(file) >= 3
      PROVE  SubSeq(file, 1, 3)[1] = file[1]
  <2>1. Len(file) \in Nat /\ \A i \in 1 .. 3 : file[i] \in Bytes
    BY <1>2, LenProperties, ElementOfSeq
  <2>2. \A i \in 1 .. 3 : SubSeq(file, 1, 3)[i] = file[1 + i - 1]
    BY <2>1, SubSeqProperties
  <2>3. 1 \in 1 .. 3 /\ 1 + 1 - 1 = 1
    OBVIOUS
  <2> QED
    BY <2>2, <2>3
<1>3. U!check_bom(<<239, 187, 191>> \o rest) = U!UTF8
  <2> DEFINE m == <<239, 187, 191>>
             file == m \o rest
  <2>1. m \in Seq(Bytes) /\ Len(m) = 3
    BY SMT DEF Bytes
  <2> HIDE DEF file
  <2>2. SubSeq(file, 1, 3) = m /\ Len(file) >= 3 /\ file \in Seq(Bytes)
    <3>1. Len(m) \in {2, 3}
      BY <2>1
    <3> HIDE DEF m
    <3>2. SubSeq(file, 1, Len(m)) = m /\ Len(file) >= Len(m) /\ file \in Seq(Bytes)
      BY <1>1, <2>1, <3>1, Zenon DEF file
    <3> QED
      BY <2>1, <3>2, Zenon
  <2>3. ~(Len(file) < 3)
    BY <2>2, LenProperties
  <2> QED
    BY <2>2, <2>3, Zenon DEF U!check_bom, file
<1>4. ASSUME NEW a \in {254, 255}
      PROVE  U!check_bom(<<a, 509 - a>> \o rest)
               \in {0, IF a = 255 THEN U!UTF16LE ELSE U!UTF16BE}
  <2> DEFINE m == <<a, 509 - a>>
             file == m \o rest
  <2>1. m \in Seq(Bytes) /\ Len(m) = 2 /\ m[1] = a
    BY SMT DEF Bytes
  <2>4. m = IF a = 255 THEN <<255, 254>> ELSE <<254, 255>>
    BY SMT
  <2> HIDE DEF file, m
  <2>2. SubSeq(file, 1, 2) = m /\ file \in Seq(Bytes) /\ file[1] = a
    <3>1. Len(m) \in {2, 3}
      BY <2>1
    <3>2. SubSeq(file, 1, Len(m)) = m /\ file \in Seq(Bytes) /\ file[1] = m[1]
      <4>1. file = m \o rest
        BY DEF file
      <4>2. m \in Seq(Bytes)
        BY <2>1
      <4> QED
        BY <1>1, <3>1, <4>1, <4>2
    <3> QED
      BY <2>1, <3>2, Zenon
  <2>3. Len(file) < 3 \/ Len(file) >= 3
    BY <2>2, LenProperties
  <2>5. CASE Len(file) < 3
    BY <2>5, Zenon DEF U!check_bom, file, m
  <2>6. CASE Len(file) >= 3
    <3>1. ~(Len(file) < 3)
      BY <2>2, <2>6, LenProperties
    <3>2. SubSeq(file, 1, 3)[1] = a
      BY <1>2, <2>2, <2>6, Zenon
    <3>3. SubSeq(file, 1, 3) # <<239, 187, 191>>
      <4>1. <<239, 187, 191>>[1] # a
        OBVIOUS
      <4> QED
        BY <3>2, <4>1, Zenon
    <3>4. <<255, 254>> # <<254, 255>>
      OBVIOUS
    <3>5. U!check_bom(file) = IF a = 255 THEN U!UTF16LE ELSE U!UTF16BE
      <4>1. U!check_bom(file) = IF m = <<255, 254>> THEN U!UTF16LE
                                ELSE IF m = <<254, 255>> THEN U!UTF16BE ELSE 0
        BY <2>2, <3>1, <3>3, Zenon DEF U!check_bom
      <4> QED
        <5>1. CASE a = 255
          BY <2>4, <4>1, <5>1, Zenon
        <5>2. CASE a # 255
          <6>1. m = <<254, 255>>
            BY <2>4, <5>2, Zenon
          <6> QED
            BY <3>4, <4>1, <5>2, <6>1
        <5> QED
          BY <5>1, <5>2, Zenon
    <3> QED
      BY <3>5, Zenon DEF file, m
  <2> QED
    BY <2>3, <2>5, <2>6
<1>5. 509 - 255 = 254 /\ 509 - 254 = 255 /\ 254 # 255
  OBVIOUS
<1> QED
  BY <1>3, <1>4, <1>5 DEF FoundBefore

\* What the files of the converter hold, once they hold something: the text
\* in a format, or in UTF-8 what is read of it in UTF-16.
Forms(p) == {Each(Glyph8, p), Each(Glyph8, Each(Split, p)),
             Each(Wide(U!UTF16LE), p), Each(Wide(U!UTF16BE), p)}

\* Texts of characters are texts of code points, split or not.
LEMMA SeqsOfChars ==
  /\ \A p \in Seq(Chars) : p \in Seq(Codes) /\ Each(Split, p) \in Seq(Codes) /\ Each(Split, p) \in Seq(Good)
  /\ U!UTF16LE \in Sixteens /\ U!UTF16BE \in Sixteens
<1>1. Good \subseteq Codes /\ Chars \subseteq Codes
  BY DEF Good, Chars
<1>2. (\A s \in Seq(Good) : s \in Seq(Codes)) /\ (\A s \in Seq(Chars) : s \in Seq(Codes))
  BY <1>1, SeqInLarger, Zenon
<1>3. U!UTF16LE \in Sixteens /\ U!UTF16BE \in Sixteens
  BY Zenon DEF Sixteens
<1> QED
  BY <1>2, <1>3, SplitWritesTheSame, Zenon

\* All forms a text takes are files of bytes.
LEMMA FormTypes ==
  \A p \in Seq(Chars) : \A file \in Forms(p) : file \in Seq(Bytes)
<1> TAKE p \in Seq(Chars)
<1>1. Each(Glyph8, p) \in Seq(Bytes) /\ Each(Glyph8, Each(Split, p)) \in Seq(Bytes)
  BY SeqsOfChars, GlyphTypes, EachType, Zenon
<1>2. Each(Wide(U!UTF16LE), p) \in Seq(Bytes) /\ Each(Wide(U!UTF16BE), p) \in Seq(Bytes)
  BY SeqsOfChars, WideType, EachType, Zenon
<1> QED
  BY <1>1, <1>2, Zenon DEF Forms

\* check_bom tells the formats of a text with its mark apart (bom.c).
LEMMA FormIsFound ==
  \A t \in Seq(Chars) : \A p : p = <<BOM>> \o t =>
    /\ U!check_bom(Each(Glyph8, p)) = U!UTF8
    /\ U!check_bom(Each(Glyph8, Each(Split, p))) = U!UTF8
    /\ U!check_bom(Each(Wide(U!UTF16LE), p)) \in {0, U!UTF16LE}
    /\ U!check_bom(Each(Wide(U!UTF16BE), p)) \in {0, U!UTF16BE}
<1> TAKE t \in Seq(Chars)
<1> TAKE p
<1> HAVE p = <<BOM>> \o t
<1>1. t \in Seq(Codes) /\ Each(Split, t) \in Seq(Codes)
  BY SeqsOfChars, Zenon
<1>2. ASSUME NEW q \in Seq(Codes)
      PROVE  U!check_bom(Each(Glyph8, <<BOM>> \o q)) = U!UTF8
  <2>1. FirstPiece(Glyph8, BOM, q)
    BY MarkBytes, GlyphTypes, EachFirst, Zenon
  <2>2. PICK rest \in Seq(Bytes) : rest = Each(Glyph8, q)
    BY GlyphTypes, EachType, Zenon
  <2>3. Each(Glyph8, <<BOM>> \o q) = <<239, 187, 191>> \o rest
    BY <2>1, <2>2, MarkBytes, Zenon DEF FirstPiece
  <2>4. FoundBefore(rest)
    BY MarkInFile, Zenon
  <2> QED
    BY <2>3, <2>4, Zenon DEF FoundBefore
<1>3. ASSUME NEW to \in Sixteens
      PROVE  \E rest \in Seq(Bytes) :
               Each(Wide(to), p) = Wide(to)[BOM] \o rest /\ FoundBefore(rest)
  <2>1. FirstPiece(Wide(to), BOM, t)
    BY <1>1, MarkBytes, WideType, EachFirst, Zenon
  <2>2. PICK rest \in Seq(Bytes) : rest = Each(Wide(to), t)
    BY <1>1, WideType, EachType, Zenon
  <2>3. Each(Wide(to), p) = Wide(to)[BOM] \o rest
    BY <2>1, <2>2, Zenon DEF FirstPiece
  <2>4. FoundBefore(rest)
    BY MarkInFile, Zenon
  <2> QED
    BY <2>3, <2>4, Zenon
<1>4. Each(Split, p) = <<BOM>> \o Each(Split, t)
  <2>1. FirstPiece(Split, BOM, t)
    BY MarkBytes, SplitType, EachFirst, Zenon
  <2>3. BOM \in Chars /\ ~AtTheEdge(BOM)
    BY MarkBytes, Zenon DEF Good
  <2>4. Split[BOM] = <<BOM>>
    BY <2>3, Zenon DEF Split
  <2> QED
    BY <2>1, <2>4, Zenon DEF FirstPiece
<1>6. U!check_bom(Each(Glyph8, p)) = U!UTF8 /\ U!check_bom(Each(Glyph8, Each(Split, p))) = U!UTF8
  BY <1>1, <1>2, <1>4, Zenon
<1>7. U!check_bom(Each(Wide(U!UTF16LE), p)) \in {0, U!UTF16LE}
  <2>1. PICK rest \in Seq(Bytes) :
          Each(Wide(U!UTF16LE), p) = Wide(U!UTF16LE)[BOM] \o rest /\ FoundBefore(rest)
    BY <1>3, SeqsOfChars, Zenon
  <2>2. Each(Wide(U!UTF16LE), p) = <<255, 254>> \o rest
    BY <2>1, MarkBytes, Zenon
  <2> QED
    BY <2>1, <2>2, Zenon DEF FoundBefore
<1>8. U!check_bom(Each(Wide(U!UTF16BE), p)) \in {0, U!UTF16BE}
  <2>1. PICK rest \in Seq(Bytes) :
          Each(Wide(U!UTF16BE), p) = Wide(U!UTF16BE)[BOM] \o rest /\ FoundBefore(rest)
    BY <1>3, SeqsOfChars, Zenon
  <2>2. Each(Wide(U!UTF16BE), p) = <<254, 255>> \o rest
    BY <2>1, MarkBytes, Zenon
  <2> QED
    BY <2>1, <2>2, Zenon DEF FoundBefore
<1> QED
  BY <1>6, <1>7, <1>8, Zenon

\* get_encoding_function tells the conversions apart by the difference of two
\* formats (encoding.c).
LEMMA ConvertCases ==
  \A file :
    /\ U!convert(file, U!UTF8, U!UTF8) = file
    /\ U!convert(file, U!UTF16LE, U!UTF16LE) = file
    /\ U!convert(file, U!UTF16BE, U!UTF16BE) = file
    /\ U!convert(file, U!UTF8, U!UTF16LE) = U!WriteUtf16(U!FromUtf8(file), U!UTF16LE)
    /\ U!convert(file, U!UTF8, U!UTF16BE) = U!WriteUtf16(U!FromUtf8(file), U!UTF16BE)
    /\ U!convert(file, U!UTF16LE, U!UTF16BE) = U!SwapUnits(file)
    /\ U!convert(file, U!UTF16BE, U!UTF16LE) = U!SwapUnits(file)
    /\ U!convert(file, U!UTF16LE, U!UTF8) = U!WriteUtf8(U!FromUtf16(file, U!UTF16LE))
    /\ U!convert(file, U!UTF16BE, U!UTF8) = U!WriteUtf8(U!FromUtf16(file, U!UTF16BE))
<1> TAKE file
<1>1. U!convert(file, U!UTF8, U!UTF8) = file
  BY SMT DEF U!convert, U!UTF8, U!UTF16LE, U!UTF16BE
<1>2. U!convert(file, U!UTF16LE, U!UTF16LE) = file
  BY SMT DEF U!convert, U!UTF8, U!UTF16LE, U!UTF16BE
<1>3. U!convert(file, U!UTF16BE, U!UTF16BE) = file
  BY SMT DEF U!convert, U!UTF8, U!UTF16LE, U!UTF16BE
<1>4. U!convert(file, U!UTF8, U!UTF16LE) = U!WriteUtf16(U!FromUtf8(file), U!UTF16LE)
  BY SMT DEF U!convert, U!UTF8, U!UTF16LE, U!UTF16BE
<1>5. U!convert(file, U!UTF8, U!UTF16BE) = U!WriteUtf16(U!FromUtf8(file), U!UTF16BE)
  BY SMT DEF U!convert, U!UTF8, U!UTF16LE, U!UTF16BE
<1>6. U!convert(file, U!UTF16LE, U!UTF16BE) = U!SwapUnits(file)
  BY SMT DEF U!convert, U!UTF8, U!UTF16LE, U!UTF16BE
<1>7. U!convert(file, U!UTF16BE, U!UTF16LE) = U!SwapUnits(file)
  BY SMT DEF U!convert, U!UTF8, U!UTF16LE, U!UTF16BE
<1>8. U!convert(file, U!UTF16LE, U!UTF8) = U!WriteUtf8(U!FromUtf16(file, U!UTF16LE))
  BY SMT DEF U!convert, U!UTF8, U!UTF16LE, U!UTF16BE
<1>9. U!convert(file, U!UTF16BE, U!UTF8) = U!WriteUtf8(U!FromUtf16(file, U!UTF16BE))
  BY SMT DEF U!convert, U!UTF8, U!UTF16LE, U!UTF16BE
<1> QED
  BY <1>1, <1>2, <1>3, <1>4, <1>5, <1>6, <1>7, <1>8, <1>9, Zenon

\* Converting a form of the text gives a form of the text.
LEMMA ConvertForm ==
  ASSUME NEW t \in Seq(Chars), NEW p, p = <<BOM>> \o t, p \in Seq(Chars),
         NEW file \in Forms(p), U!check_bom(file) # 0, NEW to \in U!Formats
  PROVE  U!convert(file, U!check_bom(file), to) \in Forms(p)
<1> DEFINE q == Each(Split, p)
           LE == U!UTF16LE
           BE == U!UTF16BE
<1>0. /\ p \in Seq(Codes) /\ q \in Seq(Codes) /\ q \in Seq(Good) /\ LE \in Sixteens /\ BE \in Sixteens
      /\ Each(Wide(LE), q) = Each(Wide(LE), p) /\ Each(Wide(BE), q) = Each(Wide(BE), p)
  BY SeqsOfChars, SplitFile, Zenon
<1>1. to = U!UTF8 \/ to = LE \/ to = BE
  BY Zenon DEF U!Formats
<1>2. /\ U!check_bom(Each(Glyph8, p)) = U!UTF8 /\ U!check_bom(Each(Glyph8, q)) = U!UTF8
      /\ U!check_bom(Each(Wide(LE), p)) \in {0, LE} /\ U!check_bom(Each(Wide(BE), p)) \in {0, BE}
  BY FormIsFound, Zenon
<1>3. /\ Each(Glyph8, p) \in Forms(p) /\ Each(Glyph8, q) \in Forms(p)
      /\ Each(Wide(LE), p) \in Forms(p) /\ Each(Wide(BE), p) \in Forms(p)
      /\ \/ file = Each(Glyph8, p) \/ file = Each(Glyph8, q)
         \/ file = Each(Wide(LE), p) \/ file = Each(Wide(BE), p)
  BY Zenon DEF Forms
<1>4. \A s \in Seq(Codes) : /\ U!FromUtf8(Each(Glyph8, s)) = s /\ U!WriteUtf8(s) = Each(Glyph8, s)
                            /\ U!WriteUtf16(s, LE) = Each(Wide(LE), s)
                            /\ U!WriteUtf16(s, BE) = Each(Wide(BE), s)
  BY <1>0, Utf8FileReadsBack, WrittenUtf8, WrittenUtf16, Zenon
<1>5. /\ U!FromUtf16(Each(Wide(LE), p), LE) = q
      /\ U!FromUtf16(Each(Wide(BE), p), BE) = q
  BY <1>0, Utf16FileReadsBack, Zenon
<1>6. /\ U!SwapUnits(Each(Wide(LE), p)) = Each(Wide(BE), p)
      /\ U!SwapUnits(Each(Wide(BE), p)) = Each(Wide(LE), p)
  <2>1. Each(Glyph16, p) \in Seq(Units)
    BY <1>0, GlyphTypes, EachType, Zenon
  <2>2. Each(Wide(LE), p) = Each(TwoBytes(LE), Each(Glyph16, p))
        /\ Each(Wide(BE), p) = Each(TwoBytes(BE), Each(Glyph16, p))
    BY <1>0, SplitFile, Zenon
  <2>3. LE # BE
    BY SMT DEF U!UTF16LE, U!UTF16BE
  <2> QED
    BY <1>0, <2>1, <2>2, <2>3, SwapReadsBack, Zenon
<1> HIDE DEF q, LE, BE
<1>7. CASE file = Each(Glyph8, p)
  <2>1. U!check_bom(file) = U!UTF8
    BY <1>2, <1>7, Zenon
  <2>2. CASE to = U!UTF8
    <3>1. U!convert(file, U!UTF8, U!UTF8) = Each(Glyph8, p)
      BY <1>0, <1>4, <1>7, ConvertCases, Zenon DEF LE, BE
    <3> QED
      BY <1>3, <2>1, <2>2, <3>1, Zenon
  <2>3. CASE to = LE
    <3>1. U!convert(file, U!UTF8, LE) = Each(Wide(LE), p)
      <4>1. U!convert(file, U!UTF8, LE) = U!WriteUtf16(U!FromUtf8(file), LE)
        BY ConvertCases, Zenon DEF LE
      <4> QED
        BY <1>0, <1>4, <1>7, <4>1, Zenon
    <3> QED
      BY <1>3, <2>1, <2>3, <3>1, Zenon
  <2>4. CASE to = BE
    <3>1. U!convert(file, U!UTF8, BE) = Each(Wide(BE), p)
      <4>1. U!convert(file, U!UTF8, BE) = U!WriteUtf16(U!FromUtf8(file), BE)
        BY ConvertCases, Zenon DEF BE
      <4> QED
        BY <1>0, <1>4, <1>7, <4>1, Zenon
    <3> QED
      BY <1>3, <2>1, <2>4, <3>1, Zenon
  <2> QED
    BY <1>1, <2>2, <2>3, <2>4, Zenon
<1>8. CASE file = Each(Glyph8, q)
  <2>1. U!check_bom(file) = U!UTF8
    BY <1>2, <1>8, Zenon
  <2>2. CASE to = U!UTF8
    <3>1. U!convert(file, U!UTF8, U!UTF8) = Each(Glyph8, q)
      BY <1>0, <1>4, <1>8, ConvertCases, Zenon DEF LE, BE
    <3> QED
      BY <1>3, <2>1, <2>2, <3>1, Zenon
  <2>3. CASE to = LE
    <3>1. U!convert(file, U!UTF8, LE) = Each(Wide(LE), p)
      <4>1. U!convert(file, U!UTF8, LE) = U!WriteUtf16(U!FromUtf8(file), LE)
        BY ConvertCases, Zenon DEF LE
      <4>2. U!FromUtf8(file) = q
        BY <1>0, <1>4, <1>8, Zenon
      <4> QED
        BY <1>0, <1>4, <4>1, <4>2, Zenon
    <3> QED
      BY <1>3, <2>1, <2>3, <3>1, Zenon
  <2>4. CASE to = BE
    <3>1. U!convert(file, U!UTF8, BE) = Each(Wide(BE), p)
      <4>1. U!convert(file, U!UTF8, BE) = U!WriteUtf16(U!FromUtf8(file), BE)
        BY ConvertCases, Zenon DEF BE
      <4>2. U!FromUtf8(file) = q
        BY <1>0, <1>4, <1>8, Zenon
      <4> QED
        BY <1>0, <1>4, <4>1, <4>2, Zenon
    <3> QED
      BY <1>3, <2>1, <2>4, <3>1, Zenon
  <2> QED
    BY <1>1, <2>2, <2>3, <2>4, Zenon
<1>9. CASE file = Each(Wide(LE), p)
  <2>1. U!check_bom(file) = LE
    BY <1>2, <1>9, Zenon
  <2>2. CASE to = U!UTF8
    <3>1. U!convert(file, LE, U!UTF8) = Each(Glyph8, q)
      <4>1. U!convert(file, LE, U!UTF8) = U!WriteUtf8(U!FromUtf16(file, LE))
        BY ConvertCases, Zenon DEF LE
      <4>2. U!FromUtf16(file, LE) = q
        BY <1>5, <1>9, Zenon
      <4> QED
        BY <1>0, <1>4, <4>1, <4>2, Zenon
    <3> QED
      BY <1>3, <2>1, <2>2, <3>1, Zenon
  <2>3. CASE to = LE
    <3>1. U!convert(file, LE, LE) = Each(Wide(LE), p)
      BY <1>5, <1>6, <1>0, <1>4, <1>9, ConvertCases, Zenon DEF LE, BE
    <3> QED
      BY <1>3, <2>1, <2>3, <3>1, Zenon
  <2>4. CASE to = BE
    <3>1. U!convert(file, LE, BE) = Each(Wide(BE), p)
      BY <1>5, <1>6, <1>0, <1>4, <1>9, ConvertCases, Zenon DEF LE, BE
    <3> QED
      BY <1>3, <2>1, <2>4, <3>1, Zenon
  <2> QED
    BY <1>1, <2>2, <2>3, <2>4, Zenon
<1>10. CASE file = Each(Wide(BE), p)
  <2>1. U!check_bom(file) = BE
    BY <1>2, <1>10, Zenon
  <2>2. CASE to = U!UTF8
    <3>1. U!convert(file, BE, U!UTF8) = Each(Glyph8, q)
      <4>1. U!convert(file, BE, U!UTF8) = U!WriteUtf8(U!FromUtf16(file, BE))
        BY ConvertCases, Zenon DEF BE
      <4>2. U!FromUtf16(file, BE) = q
        BY <1>5, <1>10, Zenon
      <4> QED
        BY <1>0, <1>4, <4>1, <4>2, Zenon
    <3> QED
      BY <1>3, <2>1, <2>2, <3>1, Zenon
  <2>3. CASE to = LE
    <3>1. U!convert(file, BE, LE) = Each(Wide(LE), p)
      BY <1>5, <1>6, <1>0, <1>4, <1>10, ConvertCases, Zenon DEF LE, BE
    <3> QED
      BY <1>3, <2>1, <2>3, <3>1, Zenon
  <2>4. CASE to = BE
    <3>1. U!convert(file, BE, BE) = Each(Wide(BE), p)
      BY <1>5, <1>6, <1>0, <1>4, <1>10, ConvertCases, Zenon DEF LE, BE
    <3> QED
      BY <1>3, <2>1, <2>4, <3>1, Zenon
  <2> QED
    BY <1>1, <2>2, <2>3, <2>4, Zenon
<1> QED
  BY <1>3, <1>7, <1>8, <1>9, <1>10, Zenon

\* Each element for itself is the sequence itself.
LEMMA EachSingle ==
  ASSUME NEW A
  PROVE  \A s \in Seq(A) : Each([a \in A |-> <<a>>], s) = s
<1> DEFINE h == [a \in A |-> <<a>>]
           G == {s \in Seq(A) : Each(h, s) = s}
<1>1. h \in [A -> Seq(A)] /\ \A a \in A : h[a] = <<a>>
  <2>1. \A a \in A : <<a>> \in Seq(A)
    OBVIOUS
  <2> QED
    BY <2>1, Zenon
<1> HIDE DEF h
<1>2. <<>> \in G
  BY EachEmpty, EmptySeq
<1>3. ASSUME NEW s \in G, NEW a \in A PROVE Append(s, a) \in G
  <2>1. s \in Seq(A) /\ Each(h, s) = s
    OBVIOUS
  <2>2. Each(h, Append(s, a)) = Each(h, s) \o h[a]
    <3>1. \A u \in Seq(A) : \A b \in A : Each(h, Append(u, b)) = Each(h, u) \o h[b]
      BY <1>1, EachAppend, Zenon
    <3> QED
      BY <2>1, <3>1, Zenon
  <2>3. Append(s, a) \in Seq(A) /\ Append(s, a) = s \o <<a>>
    BY <2>1, AppendProperties, AppendIsConcat
  <2> QED
    BY <1>1, <2>1, <2>2, <2>3, Zenon
<1>4. G = Seq(A)
  <2>1. G \in SUBSET Seq(A)
    OBVIOUS
  <2> HIDE DEF G
  <2> QED
    BY <1>2, <1>3, <2>1, SeqInduction, Zenon
<1> QED
  BY <1>4, Zenon DEF h

\* Split says of each character what SplitAtTheEdge says of a text.
LEMMA SplitIs == \A p \in Seq(Chars) : SplitAtTheEdge(p) = Each(Split, p)
<1> TAKE p \in Seq(Chars)
<1>1. \A i \in DOMAIN p : p[i] \in Chars /\ p[i] \in Codes
  BY ElementOfSeq, LenProperties DEF Chars
<1>2. \A i \in DOMAIN p :
        Split[p[i]] = IF AtTheEdge(p[i]) THEN U!Utf16(p[i]) ELSE <<p[i]>>
  BY <1>1, Utf16Standard, Zenon DEF Split, Glyph16
<1>3. [i \in DOMAIN p |-> IF AtTheEdge(p[i]) THEN U!Utf16(p[i]) ELSE <<p[i]>>]
        = [i \in DOMAIN p |-> Split[p[i]]]
  BY <1>2, Zenon
<1> QED
  BY <1>3, Zenon DEF SplitAtTheEdge, Each

\* The texts of the users are texts of characters, with a mark or without.
LEMMA CharsOfTexts ==
  \A t \in UnicodeTexts : t \in Seq(Chars) /\ <<BOM>> \o t \in Seq(Chars)
<1> TAKE t \in UnicodeTexts
<1>1. t \in Seq(Nat) /\ \A i \in 1 .. Len(t) :
        (0 < t[i] /\ t[i] < 55296) \/ (57343 < t[i] /\ t[i] <= 1114111)
  BY SMT, TextToolsAssumption DEF TextToolsAssumption
<1>2. \A c \in Nat : (0 < c /\ c < 55296) \/ (57343 < c /\ c <= 1114111) => c \in Chars
  BY SMT DEF Chars, Codes, U!is_upper_surrogate_pair
<1>3. Len(t) \in Nat /\ \A i \in 1 .. Len(t) : t[i] \in Chars
  <2>1. Len(t) \in Nat /\ \A i \in 1 .. Len(t) : t[i] \in Nat
    BY SMT, <1>1, LenProperties, ElementOfSeq
  <2> QED
    BY SMT, <1>1, <1>2, <2>1
<1>4. t \in Seq(Chars)
  <2>1. t = [i \in 1 .. Len(t) |-> t[i]]
    BY <1>1, SeqDef
  <2> QED
    BY <1>3, <2>1
<1>5. PICK mark \in Seq(Chars) : mark = <<BOM>>
  <2>1. BOM \in Chars
    BY MarkBytes, Zenon
  <2>2. <<BOM>> \in Seq(Chars)
    BY <2>1
  <2> QED
    BY <2>2, Zenon
<1>6. mark \o t \in Seq(Chars)
  BY <1>4, ConcatProperties
<1> QED
  BY <1>4, <1>5, <1>6, Zenon

-----------------------------------------------------------------------------
(* The converter *)

\* What every run of utf leaves: files that hold nothing or a form of the text.
UtfInv ==
  tool = "utf" =>
    /\ files \in [Files -> Seq(Bytes)]
    /\ holds \in [Files -> {"nothing", "text", "converted", "cipher", "back", "partial"}]
    /\ text \in Seq(Chars) /\ \E t \in Seq(Chars) : text = <<BOM>> \o t
    /\ \A f \in Files : IF holds[f] = "nothing" THEN files[f] = <<>> ELSE files[f] \in Forms(text)

\* The well-formed files of a text are among its forms.
LEMMA EncodedForms ==
  \A p \in Seq(Chars) : /\ U!Encoded(p, U!UTF8) = Each(Glyph8, p)
                        /\ U!Encoded(p, U!UTF16LE) = Each(Wide(U!UTF16LE), p)
                        /\ U!Encoded(p, U!UTF16BE) = Each(Wide(U!UTF16BE), p)
  BY SeqsOfChars, WrittenUtf8, WrittenUtf16, Zenon

\* The first file stands for the text.
LEMMA UtfInit == Init => UtfInv
<1> SUFFICES ASSUME Init, tool = "utf" PROVE UtfInv
  BY DEF UtfInv
<1>1. /\ text \in {<<BOM>> \o t : t \in UnicodeTexts}
      /\ \E format \in U!Formats : files = [a |-> U!Encoded(text, format), b |-> <<>>]
      /\ holds = [a |-> "text", b |-> "nothing"]
  BY DEF Init, InitUtf, InitPoly, InitMorse
<1>2. text \in Seq(Chars) /\ \E t \in Seq(Chars) : text = <<BOM>> \o t
  BY <1>1, CharsOfTexts, Zenon
<1>3. PICK format \in U!Formats : files = [a |-> U!Encoded(text, format), b |-> <<>>]
  BY <1>1, Zenon
<1>4. U!Encoded(text, format) \in Forms(text)
  BY <1>2, EncodedForms, Zenon DEF U!Formats, Forms
<1>5. U!Encoded(text, format) \in Seq(Bytes) /\ <<>> \in Seq(Bytes)
  BY <1>2, <1>4, FormTypes, EmptySeq, Zenon
<1> DEFINE e == U!Encoded(text, format)
<1> HIDE DEF e
<1>6. files = [a |-> e, b |-> <<>>]
  BY <1>3 DEF e
<1>7. files \in [Files -> Seq(Bytes)] /\ files["a"] = e /\ files["b"] = <<>>
  <2>1. PICK g \in Seq(Bytes) : g = e
    BY <1>5, Zenon DEF e
  <2>2. files = [f \in Files |-> IF f = "a" THEN g ELSE <<>>]
    BY <1>6, <2>1 DEF Files
  <2>3. "a" # "b" /\ "a" \in Files /\ "b" \in Files
    BY DEF Files
  <2> QED
    BY <1>5, <2>1, <2>2, <2>3, Zenon
<1>8. /\ holds \in [Files -> {"nothing", "text", "converted", "cipher", "back", "partial"}]
      /\ holds["a"] = "text" /\ holds["b"] = "nothing"
  BY <1>1 DEF Files
<1>9. \A f \in Files : IF holds[f] = "nothing" THEN files[f] = <<>> ELSE files[f] \in Forms(text)
  BY <1>4, <1>7, <1>8 DEF Files, e
<1> QED
  BY <1>2, <1>7, <1>8, <1>9, Zenon DEF UtfInv

\* No run changes the tool, its options or what the text is.
LEMMA NextKeeps == [Next]_vars => tool' = tool /\ options' = options /\ text' = text
<1>1. ASSUME NEW x \in Files, NEW y \in Files, NEW to \in U!Formats, Convert(x, y, to)
      PROVE  tool' = tool /\ options' = options /\ text' = text
  BY <1>1, Zenon DEF Convert
<1>2. ASSUME NEW x \in Files, NEW y \in Files, Refuse(x, y)
      PROVE  tool' = tool /\ options' = options /\ text' = text
  BY <1>2, Zenon DEF Refuse, vars
<1>3. ASSUME NEW x \in Files, NEW y \in Files, NEW begins \in BOOLEAN,
             Encrypt(x, y, begins) \/ Decrypt(x, y, begins)
      PROVE  tool' = tool /\ options' = options /\ text' = text
  BY <1>3, Zenon DEF Encrypt, Decrypt, Leaves
<1>4. ASSUME NEW x \in Files, NEW y \in Files, NEW begins \in BOOLEAN,
             EncryptMorse(x, y, begins) \/ DecryptMorse(x, y, begins)
      PROVE  tool' = tool /\ options' = options /\ text' = text
  BY <1>4, Zenon DEF EncryptMorse, DecryptMorse, Leaves
<1> QED
  BY <1>1, <1>2, <1>3, <1>4, Zenon DEF Next, vars

\* A run of utf writes the text in one of its forms, or nothing.
LEMMA UtfStep == UtfInv /\ [Next]_vars => UtfInv'
<1> SUFFICES ASSUME UtfInv, [Next]_vars, tool' = "utf" PROVE UtfInv'
  BY DEF UtfInv
<1>0. tool = "utf" /\ text' = text
  BY NextKeeps
<1>1. /\ files \in [Files -> Seq(Bytes)]
      /\ holds \in [Files -> {"nothing", "text", "converted", "cipher", "back", "partial"}]
      /\ text \in Seq(Chars) /\ \E t \in Seq(Chars) : text = <<BOM>> \o t
      /\ \A f \in Files : IF holds[f] = "nothing" THEN files[f] = <<>> ELSE files[f] \in Forms(text)
  BY <1>0, Zenon DEF UtfInv
<1>2. \/ UNCHANGED vars
      \/ \E x \in Files, y \in Files : \E to \in U!Formats : Convert(x, y, to)
  BY <1>0 DEF Next, Refuse, Encrypt, Decrypt, EncryptMorse, DecryptMorse
<1>3. CASE UNCHANGED vars
  BY <1>0, <1>1, <1>3, Zenon DEF vars, UtfInv
<1>4. ASSUME NEW x \in Files, NEW y \in Files, NEW to \in U!Formats, Convert(x, y, to)
      PROVE  UtfInv'
  <2>1. /\ U!check_bom(files[x]) # 0
        /\ files' = [files EXCEPT ![y] = U!convert(files[x], U!check_bom(files[x]), to)]
        /\ holds' = [holds EXCEPT ![y] = "converted"]
    BY <1>4, Zenon DEF Convert
  <2>2. files[x] \in Forms(text)
    <3>1. Len(<<>>) < 3
      OBVIOUS
    <3>2. U!check_bom(<<>>) = 0
      BY <3>1, Zenon DEF U!check_bom
    <3> QED
      BY <1>1, <2>1, <3>2, Zenon
  <2>3. PICK new : new = U!convert(files[x], U!check_bom(files[x]), to)
    OBVIOUS
  <2>4. new \in Forms(text)
    BY <1>1, <2>1, <2>2, <2>3, ConvertForm, Zenon
  <2>5. new \in Seq(Bytes)
    BY <1>1, <2>4, FormTypes, Zenon
  <2>6. files' = [files EXCEPT ![y] = new]
    BY <2>1, <2>3, Zenon
  <2>7. files' \in [Files -> Seq(Bytes)]
    BY <1>1, <2>5, <2>6, Zenon
  <2>8. holds' \in [Files -> {"nothing", "text", "converted", "cipher", "back", "partial"}]
    BY <1>1, <2>1
  <2>9. \A f \in Files : IF holds'[f] = "nothing" THEN files'[f] = <<>> ELSE files'[f] \in Forms(text)
    <3> TAKE f \in Files
    <3>1. CASE f = y
      <4>1. holds'[f] = "converted" /\ files'[f] = new
        BY <1>1, <2>1, <2>6, <3>1, Zenon
      <4> QED
        BY <2>4, <4>1
    <3>2. CASE f # y
      <4>1. holds'[f] = holds[f] /\ files'[f] = files[f]
        BY <1>1, <2>1, <2>6, <3>2, Zenon
      <4> QED
        BY <1>1, <4>1, Zenon
    <3> QED
      BY <3>1, <3>2
  <2> QED
    BY <1>0, <1>1, <2>7, <2>8, <2>9, Zenon DEF UtfInv
<1> QED
  BY <1>2, <1>3, <1>4, Zenon

\* However often a text is converted, every file that was written stands for
\* it, in a format or split in UTF-8, for all texts (utf.c, encoding.c).
THEOREM FilesStand == Spec => []FilesStandForText
<1>1. UtfInv => FilesStandForText
  <2> SUFFICES ASSUME UtfInv, tool = "utf", NEW f \in Files, holds[f] # "nothing"
               PROVE  files[f] \in {U!Encoded(text, format) : format \in U!Formats}
                                   \cup {U!Encoded(SplitAtTheEdge(text), U!UTF8)}
    BY Zenon DEF FilesStandForText
  <2>1. text \in Seq(Chars) /\ files[f] \in Forms(text)
    BY Zenon DEF UtfInv
  <2>2. U!Encoded(SplitAtTheEdge(text), U!UTF8) = Each(Glyph8, Each(Split, text))
    BY <2>1, SplitIs, SeqsOfChars, WrittenUtf8, Zenon
  <2> QED
    BY <2>1, <2>2, EncodedForms, Zenon DEF Forms, U!Formats
<1> QED
  BY UtfInit, UtfStep, <1>1, PTL DEF Spec

-----------------------------------------------------------------------------
(* A fold along a sequence *)

\* The steps of a loop that does step[c] for each c of s.
Steps(step, s) == [k \in 1 .. Len(s) |-> step[s[k]]]

\* What it leaves when it starts at base.
FoldOf(S, base, step, s) ==
  CHOOSE v : \E r \in Runs(S, Len(s), base, Steps(step, s)) : v = r[Len(s)]

Agree(q, r, m) == \A k \in 0 .. m : q[k] = r[k]

\* Recursions of the same steps have the same values.
LEMMA RunsAgree ==
  ASSUME NEW S, NEW n \in Nat, NEW m \in Nat, m <= n, NEW base, NEW g, NEW h,
         \A k \in 1 .. m : g[k] = h[k],
         NEW q \in Runs(S, m, base, g), NEW r \in Runs(S, n, base, h)
  PROVE  Agree(q, r, m)
<1>1. q[0] = base /\ \A i \in 1 .. m : q[i] = g[i][q[i - 1]]
  BY DEF Runs
<1>2. r[0] = base /\ \A i \in 1 .. n : r[i] = h[i][r[i - 1]]
  BY DEF Runs
<1> DEFINE K == {k \in 0 .. m : q[k] = r[k]}
<1>3. 0 \in K
  BY <1>1, <1>2
<1>4. ASSUME NEW i \in 0 .. m - 1 PROVE i \in K => i + 1 \in K
  <2> HAVE i \in K
  <2>1. PICK j : j = i + 1 /\ j \in 1 .. m /\ j \in 1 .. n /\ j - 1 = i /\ j \in 0 .. m
    OBVIOUS
  <2>2. q[i] = r[i]
    OBVIOUS
  <2>3. q[j] = g[j][q[i]] /\ r[j] = h[j][r[i]]
    BY <1>1, <1>2, <2>1, Zenon
  <2>4. g[j] = h[j]
    BY <2>1, Zenon
  <2> QED
    BY <2>1, <2>2, <2>3, <2>4, Zenon
<1>5. \A k \in 0 .. m : k \in K
  <2> HIDE DEF K
  <2> QED
    BY <1>3, <1>4, InductionUpTo, Zenon
<1> QED
  BY <1>5, Zenon DEF Agree

\* The steps along s, and their run.
LEMMA StepsType ==
  ASSUME NEW S, NEW base \in S, NEW A, NEW step \in [A -> [S -> S]], NEW s \in Seq(A)
  PROVE  /\ Len(s) \in Nat /\ Steps(step, s) \in [1 .. Len(s) -> [S -> S]]
         /\ \E r : r \in Runs(S, Len(s), base, Steps(step, s))
<1>1. \A k \in 1 .. Len(s) : s[k] \in A
  BY ElementOfSeq
<1>2. PICK n \in Nat : n = Len(s)
  BY LenProperties
<1>3. PICK g : g = Steps(step, s)
  OBVIOUS
<1>4. g \in [1 .. n -> [S -> S]]
  BY <1>1, <1>2, <1>3, Zenon DEF Steps
<1>5. \E r : r \in Runs(S, n, base, g)
  BY <1>4, Recursion, Zenon
<1> QED
  BY <1>2, <1>3, <1>4, <1>5, Zenon

\* Any of the runs ends at what the loop leaves.
EndsAt(S, base, step, s, r) == FoldOf(S, base, step, s) = r[Len(s)] /\ r[Len(s)] \in S

\* They do.
LEMMA FoldOfRun ==
  ASSUME NEW S, NEW base \in S, NEW A, NEW step \in [A -> [S -> S]], NEW s \in Seq(A),
         NEW r \in Runs(S, Len(s), base, Steps(step, s))
  PROVE  EndsAt(S, base, step, s, r)
<1>1. PICK n \in Nat : n = Len(s)
  BY LenProperties
<1>2. PICK g : g = Steps(step, s)
  OBVIOUS
<1>3. r \in Runs(S, n, base, g)
  BY <1>1, <1>2, Zenon
<1>4. n <= n /\ n \in 0 .. n
  BY <1>1
<1>5. \A q \in Runs(S, n, base, g) : q[n] = r[n]
  <2> TAKE q \in Runs(S, n, base, g)
  <2>1. Agree(q, r, n)
    BY <1>3, <1>4, RunsAgree, Zenon
  <2> QED
    BY <1>4, <2>1, Zenon DEF Agree
<1>6. (CHOOSE v : \E q \in Runs(S, n, base, g) : v = q[n]) = r[n]
  BY <1>3, <1>5, Zenon
<1>7. r[n] \in S
  <2>1. r \in [0 .. n -> S]
    BY <1>3, Zenon DEF Runs
  <2> QED
    BY <1>4, <2>1, Zenon
<1> QED
  BY <1>1, <1>2, <1>6, <1>7, Zenon DEF FoldOf, EndsAt

\* It leaves a state, base when there is nothing to do, and one step more does that step.
LEMMA FoldOfType ==
  ASSUME NEW S, NEW base \in S, NEW A, NEW step \in [A -> [S -> S]]
  PROVE  \A s \in Seq(A) : FoldOf(S, base, step, s) \in S
<1> TAKE s \in Seq(A)
<1>1. PICK r : r \in Runs(S, Len(s), base, Steps(step, s))
  BY StepsType, Zenon
<1>2. EndsAt(S, base, step, s, r)
  BY <1>1, FoldOfRun, Zenon
<1> QED
  BY <1>2, Zenon DEF EndsAt

\* For nothing to do, that is what it started with.
LEMMA FoldOfEmpty ==
  ASSUME NEW S, NEW base \in S, NEW A, NEW step \in [A -> [S -> S]]
  PROVE  FoldOf(S, base, step, <<>>) = base
<1>0. <<>> \in Seq(A) /\ Len(<<>>) = 0
  BY EmptySeq
<1>1. PICK s \in Seq(A) : s = <<>>
  BY <1>0, Zenon
<1>2. PICK r : r \in Runs(S, Len(s), base, Steps(step, s))
  BY StepsType, Zenon
<1>3. r[0] = base
  BY <1>2, Zenon DEF Runs
<1>4. EndsAt(S, base, step, s, r)
  BY <1>2, FoldOfRun, Zenon
<1> QED
  BY <1>0, <1>1, <1>3, <1>4, Zenon DEF EndsAt

NextOf(S, base, step, s, c) ==
  FoldOf(S, base, step, Append(s, c)) = step[c][FoldOf(S, base, step, s)]

\* One element more is one step more.
LEMMA FoldOfAppend ==
  ASSUME NEW S, NEW base \in S, NEW A, NEW step \in [A -> [S -> S]]
  PROVE  \A s \in Seq(A) : \A c \in A : NextOf(S, base, step, s, c)
<1> TAKE s \in Seq(A)
<1> TAKE c \in A
<1>1. PICK t \in Seq(A) : t = Append(s, c)
  BY AppendProperties
<1>2. PICK n \in Nat : n = Len(s)
  BY LenProperties
<1>3. Len(t) = n + 1 /\ t[n + 1] = c /\ \A k \in 1 .. n : t[k] = s[k]
  BY <1>1, <1>2, AppendProperties
<1>4. PICK q : q \in Runs(S, Len(s), base, Steps(step, s))
  BY StepsType, Zenon
<1>5. PICK r : r \in Runs(S, Len(t), base, Steps(step, t))
  BY StepsType, Zenon
<1>6. FoldOf(S, base, step, s) = q[n] /\ FoldOf(S, base, step, t) = r[n + 1]
  <2>1. EndsAt(S, base, step, s, q)
    BY <1>4, FoldOfRun, Zenon
  <2>2. EndsAt(S, base, step, t, r)
    BY <1>5, FoldOfRun, Zenon
  <2> QED
    BY <1>2, <1>3, <2>1, <2>2, Zenon DEF EndsAt
<1>7. PICK g : g = Steps(step, s)
  OBVIOUS
<1>8. PICK h : h = Steps(step, t)
  OBVIOUS
<1>9. n \in 0 .. n /\ n + 1 \in 1 .. n + 1 /\ (n + 1) - 1 = n /\ n + 1 \in Nat /\ n <= n + 1
      /\ \A k \in 1 .. n : k \in 1 .. n + 1
  OBVIOUS
<1>10. /\ \A k \in 1 .. n : g[k] = h[k]
       /\ h[n + 1] = step[c]
  BY <1>2, <1>3, <1>7, <1>8, <1>9, Zenon DEF Steps
<1>11. q \in Runs(S, n, base, g) /\ r \in Runs(S, n + 1, base, h)
  BY <1>2, <1>3, <1>4, <1>5, <1>7, <1>8, Zenon
<1>12. Agree(q, r, n)
  BY <1>9, <1>10, <1>11, RunsAgree, Zenon
<1>13. q[n] = r[n]
  BY <1>9, <1>12, Zenon DEF Agree
<1>14. r[n + 1] = h[n + 1][r[n]]
  <2>1. \A i \in 1 .. n + 1 : r[i] = h[i][r[i - 1]]
    BY <1>11, Zenon DEF Runs
  <2> QED
    BY <1>9, <2>1
<1> QED
  BY <1>1, <1>6, <1>10, <1>13, <1>14, Zenon DEF NextOf

-----------------------------------------------------------------------------
(* A key, and the rest of the alphabet *)

\* The letters of s that are not in R.
Leave(A, R) == [a \in A |-> IF a \in R THEN <<>> ELSE <<a>>]

\* The elements of a sequence with one more.
LEMMA RangeAppend ==
  ASSUME NEW A, NEW s \in Seq(A), NEW a \in A
  PROVE  /\ Range(Append(s, a)) = Range(s) \cup {a}
         /\ IsInjective(Append(s, a)) <=> IsInjective(s) /\ a \notin Range(s)
<1>1. PICK t \in Seq(A) : t = Append(s, a)
  BY AppendProperties
<1>2. PICK n \in Nat : n = Len(s)
  BY LenProperties
<1>3. Len(t) = n + 1 /\ t[n + 1] = a /\ \A k \in 1 .. n : t[k] = s[k]
  BY <1>1, <1>2, AppendProperties
<1>4. DOMAIN s = 1 .. n /\ DOMAIN t = 1 .. n + 1
  BY <1>2, <1>3, LenProperties
<1>5. 1 .. n + 1 = 1 .. n \cup {n + 1} /\ n + 1 \notin 1 .. n
  OBVIOUS
<1>6. Range(t) = Range(s) \cup {a}
  <2>1. \A x : x \in Range(t) <=> \E k \in 1 .. n + 1 : t[k] = x
    BY <1>4, Zenon DEF Range
  <2>2. \A x : x \in Range(s) <=> \E k \in 1 .. n : s[k] = x
    BY <1>4, Zenon DEF Range
  <2>3. \A x : x \in Range(t) <=> x \in Range(s) \/ x = a
    BY <1>3, <1>5, <2>1, <2>2, Zenon
  <2> QED
    BY <2>3, Zenon
<1>7. ASSUME IsInjective(t) PROVE IsInjective(s) /\ a \notin Range(s)
  <2>1. \A j, k \in 1 .. n + 1 : t[j] = t[k] => j = k
    BY <1>4, <1>7, Zenon DEF IsInjective
  <2>2. \A j, k \in 1 .. n : s[j] = s[k] => j = k
    BY <1>3, <1>5, <2>1, Zenon
  <2>3. \A k \in 1 .. n : s[k] # a
    BY <1>3, <1>5, <2>1, Zenon
  <2> QED
    BY <1>4, <2>2, <2>3, Zenon DEF IsInjective, Range
<1>8. ASSUME IsInjective(s), a \notin Range(s) PROVE IsInjective(t)
  <2>1. \A k \in 1 .. n : s[k] # a
    BY <1>4, <1>8, Zenon DEF Range
  <2>2. \A j, k \in 1 .. n : s[j] = s[k] => j = k
    BY <1>4, <1>8, Zenon DEF IsInjective
  <2>3. \A j, k \in 1 .. n + 1 : t[j] = t[k] => j = k
    <3> TAKE j, k \in 1 .. n + 1
    <3> HAVE t[j] = t[k]
    <3>1. CASE j \in 1 .. n /\ k \in 1 .. n
      BY <1>3, <2>2, <3>1, Zenon
    <3>2. CASE j = n + 1 /\ k \in 1 .. n
      BY <1>3, <2>1, <3>2, Zenon
    <3>3. CASE j \in 1 .. n /\ k = n + 1
      BY <1>3, <2>1, <3>3, Zenon
    <3>4. CASE j = n + 1 /\ k = n + 1
      BY <3>4
    <3> QED
      BY <1>5, <3>1, <3>2, <3>3, <3>4, Zenon
  <2> QED
    BY <1>4, <2>3, Zenon DEF IsInjective
<1> QED
  BY <1>1, <1>6, <1>7, <1>8, Zenon

RangesJoin(s, t) ==
  /\ Range(s \o t) = Range(s) \cup Range(t)
  /\ IsInjective(s) /\ IsInjective(t) /\ Range(s) \cap Range(t) = {} => IsInjective(s \o t)

\* The elements of two sequences in a row.
LEMMA RangeConcat ==
  ASSUME NEW A, NEW s \in Seq(A), NEW t \in Seq(A)
  PROVE  RangesJoin(s, t)
<1> DEFINE G == {v \in Seq(A) :
                   /\ Range(s \o v) = Range(s) \cup Range(v)
                   /\ IsInjective(s) /\ IsInjective(v) /\ Range(s) \cap Range(v) = {}
                        => IsInjective(s \o v)}
<1>1. <<>> \in G
  <2>1. s \o <<>> = s /\ <<>> \in Seq(A)
    BY ConcatEmptySeq
  <2>2. Range(<<>>) = {}
    BY DEF Range
  <2> QED
    BY <2>1, <2>2, Zenon
<1>2. ASSUME NEW v \in G, NEW a \in A PROVE Append(v, a) \in G
  <2>1. v \in Seq(A)
    OBVIOUS
  <2>2. PICK w \in Seq(A) : w = s \o v
    BY <2>1, ConcatProperties
  <2>3. s \o Append(v, a) = Append(w, a)
    <3>1. Append(v, a) = v \o <<a>> /\ Append(w, a) = w \o <<a>> /\ <<a>> \in Seq(A)
      BY <2>1, AppendIsConcat
    <3>2. PICK one \in Seq(A) : one = <<a>>
      BY <3>1, Zenon
    <3>3. Associative(s, v, one)
      BY <2>1, ConcatIsAssociative, Zenon
    <3> QED
      BY <2>2, <3>1, <3>2, <3>3, Zenon DEF Associative
  <2>4. /\ Range(Append(v, a)) = Range(v) \cup {a}
        /\ IsInjective(Append(v, a)) <=> IsInjective(v) /\ a \notin Range(v)
    BY <2>1, RangeAppend, Zenon
  <2>5. /\ Range(Append(w, a)) = Range(w) \cup {a}
        /\ IsInjective(Append(w, a)) <=> IsInjective(w) /\ a \notin Range(w)
    BY RangeAppend, Zenon
  <2>6. Append(v, a) \in Seq(A)
    BY <2>1, AppendProperties
  <2>7. /\ Range(w) = Range(s) \cup Range(v)
        /\ IsInjective(s) /\ IsInjective(v) /\ Range(s) \cap Range(v) = {} => IsInjective(w)
    BY <2>2, Zenon
  <2> DEFINE u == Append(v, a)
  <2>8. /\ Range(Append(w, a)) = Range(s) \cup Range(u)
        /\ IsInjective(s) /\ IsInjective(u) /\ Range(s) \cap Range(u) = {} => IsInjective(Append(w, a))
    <3> HIDE DEF u
    <3>1. Range(u) = Range(v) \cup {a} /\ (IsInjective(u) <=> IsInjective(v) /\ a \notin Range(v))
      BY <2>4, Zenon DEF u
    <3> HIDE DEF G
    <3> QED
      BY <2>5, <2>7, <3>1
  <2> QED
    BY <2>3, <2>6, <2>8, Zenon
<1>3. G = Seq(A)
  <2>1. G \in SUBSET Seq(A)
    OBVIOUS
  <2> HIDE DEF G
  <2> QED
    BY <1>1, <1>2, <2>1, SeqInduction, Zenon
<1> QED
  BY <1>3, Zenon DEF RangesJoin

Remains(A, R, s) ==
  /\ Each(Leave(A, R), s) \in Seq(A)
  /\ Range(Each(Leave(A, R), s)) = Range(s) \ R
  /\ IsInjective(s) => IsInjective(Each(Leave(A, R), s))

\* What is left of an alphabet without the key is in order, and is the rest of it.
LEMMA LeaveRange ==
  ASSUME NEW A, NEW R
  PROVE  \A s \in Seq(A) : Remains(A, R, s)
<1> DEFINE h == Leave(A, R)
           G == {s \in Seq(A) : /\ Range(Each(h, s)) = Range(s) \ R
                                /\ IsInjective(s) => IsInjective(Each(h, s))}
<1>1. h \in [A -> Seq(A)] /\ \A a \in A : h[a] = IF a \in R THEN <<>> ELSE <<a>>
  <2>1. \A a \in A : <<a>> \in Seq(A) /\ <<>> \in Seq(A)
    BY EmptySeq
  <2> QED
    BY <2>1, Zenon DEF Leave
<1> HIDE DEF h
<1>2. <<>> \in G
  <2>1. Each(h, <<>>) = <<>> /\ <<>> \in Seq(A)
    BY EachEmpty, EmptySeq
  <2>2. Range(<<>>) = {}
    BY DEF Range
  <2> QED
    BY <2>1, <2>2
<1>3. ASSUME NEW s \in G, NEW a \in A PROVE Append(s, a) \in G
  <2>1. s \in Seq(A) /\ Range(Each(h, s)) = Range(s) \ R
        /\ (IsInjective(s) => IsInjective(Each(h, s)))
    OBVIOUS
  <2>2. PICK e \in Seq(A) : e = Each(h, s)
    BY <1>1, <2>1, EachType, Zenon
  <2>3. PICK t \in Seq(A) : t = Append(s, a)
    BY <2>1, AppendProperties
  <2>4. Each(h, t) = e \o h[a]
    <3>1. \A u \in Seq(A) : \A b \in A : Each(h, Append(u, b)) = Each(h, u) \o h[b]
      BY <1>1, EachAppend, ZenonT(60)
    <3> QED
      BY <2>1, <2>2, <2>3, <3>1, Zenon
  <2>5. Range(t) = Range(s) \cup {a} /\ (IsInjective(t) <=> IsInjective(s) /\ a \notin Range(s))
    BY <2>1, <2>3, RangeAppend, Zenon
  <2>6. Range(Append(e, a)) = Range(e) \cup {a}
        /\ (IsInjective(Append(e, a)) <=> IsInjective(e) /\ a \notin Range(e))
    BY RangeAppend, Zenon
  <2>7. CASE a \in R
    <3>1. Each(h, t) = e
      <4>1. e \o <<>> = e
        BY ConcatEmptySeq
      <4> QED
        BY <1>1, <2>4, <2>7, <4>1, Zenon
    <3>2. Range(e) = Range(t) \ R /\ (IsInjective(t) => IsInjective(e))
      <4> HIDE DEF G
      <4> QED
        BY <2>1, <2>2, <2>5, <2>7
    <3> QED
      BY <2>3, <3>1, <3>2, Zenon
  <2>8. CASE a \notin R
    <3>1. Each(h, t) = Append(e, a)
      <4>1. Append(e, a) = e \o <<a>>
        BY AppendIsConcat
      <4> QED
        BY <1>1, <2>4, <2>8, <4>1, Zenon
    <3>2. Range(Append(e, a)) = Range(t) \ R /\ (IsInjective(t) => IsInjective(Append(e, a)))
      <4> HIDE DEF G
      <4>1. Range(e) = Range(s) \ R /\ (IsInjective(s) => IsInjective(e))
        BY <2>1, <2>2, Zenon
      <4> QED
        BY <2>5, <2>6, <2>8, <4>1
    <3> QED
      BY <2>3, <3>1, <3>2, Zenon
  <2> QED
    BY <2>7, <2>8
<1>4. G = Seq(A)
  <2>1. G \in SUBSET Seq(A)
    OBVIOUS
  <2> HIDE DEF G
  <2> QED
    BY <1>2, <1>3, <2>1, SeqInduction, Zenon
<1>5. \A s \in Seq(A) : Each(h, s) \in Seq(A)
  BY <1>1, EachType, Zenon
<1> QED
  BY <1>4, <1>5, Zenon DEF h, Remains

EveryOnce(table, A, n) ==
  table \in Seq(A) /\ IsInjective(table) /\ Range(table) = A /\ Len(table) = n

\* A key without repetitions, then the rest of the alphabet: every letter
\* once, and as many places as letters.
LEMMA KeyThenRest ==
  ASSUME NEW b \in Nat, NEW n \in Nat, NEW A, A = b + 1 .. b + n, NEW key \in Seq(A),
         IsInjective(key), NEW alphabet, alphabet = [i \in 1 .. n |-> b + i],
         NEW table, table = key \o Each(Leave(A, Range(key)), alphabet)
  PROVE  EveryOnce(table, A, n)
<1> DEFINE rest == Each(Leave(A, Range(key)), alphabet)
<1>1. alphabet \in Seq(A)
  OBVIOUS
<1>0. table = key \o rest
  OBVIOUS
<1>2. Range(alphabet) = A /\ IsInjective(alphabet)
  <2>1. \A c \in A : \E i \in 1 .. n : c = b + i
    <3> TAKE c \in A
    <3>1. c - b \in 1 .. n /\ c = b + (c - b)
      OBVIOUS
    <3> QED
      BY <3>1
  <2>2. \A i \in 1 .. n : b + i \in A /\ alphabet[i] = b + i
    OBVIOUS
  <2>3. DOMAIN alphabet = 1 .. n
    OBVIOUS
  <2>5. \A i, j \in 1 .. n : b + i = b + j => i = j
    OBVIOUS
  <2>4. Range(alphabet) = A
    BY <2>1, <2>2, <2>3, ZenonT(60) DEF Range
  <2>6. IsInjective(alphabet)
    BY <2>2, <2>3, <2>5, Zenon DEF IsInjective
  <2> QED
    BY <2>4, <2>6
<1>3. Range(key) \subseteq A
  <2>1. \A k \in DOMAIN key : key[k] \in A
    BY ElementOfSeq
  <2> QED
    BY <2>1, Zenon DEF Range
<1>4. rest \in Seq(A) /\ Range(rest) = A \ Range(key) /\ IsInjective(rest)
  <2>1. Remains(A, Range(key), alphabet)
    BY <1>1, LeaveRange, Zenon
  <2> QED
    BY <1>2, <2>1, Zenon DEF Remains, rest
<1> HIDE DEF rest
<1> HIDE DEF rest
<1>5. /\ Range(table) = Range(key) \cup Range(rest)
      /\ IsInjective(key) /\ IsInjective(rest) /\ Range(key) \cap Range(rest) = {}
           => IsInjective(table)
  <2>1. RangesJoin(key, rest)
    BY <1>4, RangeConcat, Zenon
  <2> QED
    BY <1>0, <2>1, Zenon DEF RangesJoin
<1>6. Range(table) = A /\ IsInjective(table)
  BY <1>3, <1>4, <1>5
<1>7. table \in Seq(A)
  BY <1>0, <1>4, ConcatProperties
<1>8. Len(table) = n
  <2>1. DOMAIN table = 1 .. Len(table) /\ Len(table) \in Nat
    BY <1>7, LenProperties
  <2>2. table \in [1 .. Len(table) -> A]
    BY <1>7, LenProperties
  <2>3. table \in Bijection(1 .. Len(table), A)
    BY <1>6, <2>1, <2>2, Zenon DEF Bijection, Injection, Surjection, IsInjective, Range
  <2>4. IsFiniteSet(1 .. Len(table)) /\ Cardinality(1 .. Len(table)) = Len(table)
    <3>1. PICK l \in Nat : l = Len(table)
      BY <2>1, Zenon
    <3>2. IsFiniteSet(1 .. l) /\ Cardinality(1 .. l) = l
      BY FS_Interval
    <3> QED
      BY <3>1, <3>2, Zenon
  <2>5. Cardinality(A) = Cardinality(1 .. Len(table))
    <3>1. ExistsBijection(1 .. Len(table), A)
      BY <2>3, Zenon DEF ExistsBijection
    <3>2. PICK D : D = 1 .. Len(table)
      OBVIOUS
    <3>3. IsFiniteSet(D) /\ ExistsBijection(D, A)
      BY <2>4, <3>1, <3>2, Zenon
    <3>4. Cardinality(A) = Cardinality(D)
      BY <3>3, FS_Bijection
    <3> QED
      BY <3>2, <3>4, Zenon
  <2>6. Cardinality(A) = n
    BY FS_Interval
  <2> QED
    BY <2>4, <2>5, <2>6
<1> QED
  BY <1>6, <1>7, <1>8, Zenon DEF EveryOnce

-----------------------------------------------------------------------------
(* The Polybius cipher *)

HexChars == P!Whitespace \cup 48 .. 57 \cup 65 .. 70
Ascii == 0 .. 127
DecState == [inputTaken : 0 .. 2, decryptIndex : Nat, out : Seq(Ascii)]
DecBase == [inputTaken |-> 0, decryptIndex |-> 0, out |-> <<>>]
DecStep(width, table) ==
  [c \in HexChars |-> [s \in DecState |-> P!decrypt(s, c, width, table)]]

\* What one character does to the state.
Decrypted(s, c, width, table) ==
  IF c \in P!Whitespace
  THEN [inputTaken |-> 0, decryptIndex |-> IF s.inputTaken = 2 THEN 0 ELSE s.decryptIndex,
        out |-> Append(s.out, c)]
  ELSE IF s.inputTaken = 1
  THEN [inputTaken |-> 2, decryptIndex |-> s.decryptIndex + (P!Digit(c) % width),
        out |-> Append(s.out, P!At(table, s.decryptIndex + (P!Digit(c) % width)))]
  ELSE [inputTaken |-> 1, decryptIndex |-> P!Digit(c) * width, out |-> s.out]

\* That is decrypt of the module, in the three cases there are.
LEMMA DecryptCases ==
  ASSUME NEW width, NEW table, NEW c, NEW s \in DecState
  PROVE  P!decrypt(s, c, width, table) = Decrypted(s, c, width, table)
<1>1. s.inputTaken = 0 \/ s.inputTaken = 1 \/ s.inputTaken = 2
  BY DEF DecState
<1>2. CASE c \in P!Whitespace
  <2>1. (IF s.inputTaken >= 2 THEN 0 ELSE s.decryptIndex)
          = IF s.inputTaken = 2 THEN 0 ELSE s.decryptIndex
    BY <1>1
  <2> QED
    BY <1>2, <2>1, Zenon DEF P!decrypt, Decrypted
<1>3. CASE c \notin P!Whitespace /\ s.inputTaken = 1
  <2>1. ~(s.inputTaken >= 2) /\ s.inputTaken + 1 # 1
    BY <1>3
  <2> QED
    BY <1>3, <2>1, Zenon DEF P!decrypt, Decrypted
<1>4. CASE c \notin P!Whitespace /\ s.inputTaken # 1
  <2>1. (IF s.inputTaken >= 2 THEN 1 ELSE s.inputTaken + 1) = 1
    BY <1>1, <1>4
  <2> QED
    BY <1>4, <2>1, Zenon DEF P!decrypt, Decrypted
<1> QED
  BY <1>2, <1>3, <1>4

\* Decryption goes from state to state.
LEMMA DecryptType ==
  ASSUME NEW width \in 9 .. 15, NEW table \in Seq(Ascii)
  PROVE  DecStep(width, table) \in [HexChars -> [DecState -> DecState]]
<1>1. ASSUME NEW c \in HexChars, NEW s \in DecState
      PROVE  P!decrypt(s, c, width, table) \in DecState
  <2>1. c \in Ascii /\ (c \notin P!Whitespace => P!Digit(c) \in Nat /\ P!Digit(c) % width \in Nat
                                              /\ P!Digit(c) * width \in Nat)
    <3>1. c \in Nat /\ c \in Ascii /\ (c \notin P!Whitespace => P!Digit(c) \in Nat)
      BY DEF HexChars, Ascii, P!Whitespace, P!SPACE, P!TAB, P!NEWLINE, P!Digit
    <3>2. PICK d : d = P!Digit(c)
      OBVIOUS
    <3>3. d \in Nat => d % width \in Nat /\ d * width \in Nat
      BY SMT
    <3> QED
      BY <3>1, <3>2, <3>3, Zenon
  <2>2. s.out \in Seq(Ascii) /\ s.decryptIndex \in Nat /\ s.inputTaken \in 0 .. 2
    BY DEF DecState
  <2>3. Append(s.out, c) \in Seq(Ascii)
    BY <2>1, <2>2, AppendProperties
  <2>4. \A i \in Nat : P!At(table, i) \in Ascii
    <3> TAKE i \in Nat
    <3>1. Len(table) \in Nat /\ \A k \in 1 .. Len(table) : table[k] \in Ascii
      BY LenProperties, ElementOfSeq
    <3> QED
      BY <3>1 DEF P!At, Ascii
  <2>5. CASE c \in P!Whitespace
    <3>1. PICK o \in Seq(Ascii), i \in Nat :
            o = Append(s.out, c) /\ i = IF s.inputTaken = 2 THEN 0 ELSE s.decryptIndex
      BY <2>2, <2>3
    <3>2. P!decrypt(s, c, width, table) = [inputTaken |-> 0, decryptIndex |-> i, out |-> o]
      <4>1. P!decrypt(s, c, width, table) = Decrypted(s, c, width, table)
        BY DecryptCases, Zenon
      <4> QED
        BY <2>5, <3>1, <4>1, Zenon DEF Decrypted
    <3> QED
      BY <3>2 DEF DecState
  <2>6. CASE c \notin P!Whitespace /\ s.inputTaken = 1
    <3>1. PICK i \in Nat : i = s.decryptIndex + (P!Digit(c) % width)
      BY <2>1, <2>2, <2>6
    <3>2. PICK o \in Seq(Ascii) : o = Append(s.out, P!At(table, i))
      BY <2>2, <2>4, AppendProperties
    <3>3. P!decrypt(s, c, width, table) = [inputTaken |-> 2, decryptIndex |-> i, out |-> o]
      <4>1. P!decrypt(s, c, width, table) = Decrypted(s, c, width, table)
        BY DecryptCases, Zenon
      <4> QED
        BY <2>6, <3>1, <3>2, <4>1, Zenon DEF Decrypted
    <3> QED
      BY <3>3 DEF DecState
  <2>7. CASE c \notin P!Whitespace /\ s.inputTaken # 1
    <3>1. P!decrypt(s, c, width, table)
            = [inputTaken |-> 1, decryptIndex |-> P!Digit(c) * width, out |-> s.out]
      <4>1. P!decrypt(s, c, width, table) = Decrypted(s, c, width, table)
        BY DecryptCases, Zenon
      <4> QED
        BY <2>7, <4>1, Zenon DEF Decrypted
    <3> QED
      BY <2>1, <2>2, <2>7, <3>1 DEF DecState
  <2> QED
    BY <2>5, <2>6, <2>7
<1> QED
  BY <1>1, Zenon DEF DecStep

\* It starts in a state.
LEMMA DecBaseType == DecBase \in DecState
  BY EmptySeq DEF DecBase, DecState

\* DecryptAll is the fold of these steps along the text.
LEMMA DecryptIsFold ==
  ASSUME NEW width \in 9 .. 15, NEW table \in Seq(Ascii)
  PROVE  \A t \in Seq(HexChars) :
           P!DecryptAll(t, width, table) = FoldOf(DecState, DecBase, DecStep(width, table), t).out
<1> TAKE t \in Seq(HexChars)
<1>1. PICK n \in Nat : n = Len(t) /\ DOMAIN t = 1 .. n
  BY LenProperties
<1>2. PICK step \in [HexChars -> [DecState -> DecState]] : step = DecStep(width, table)
  BY DecryptType, Zenon
<1>3. PICK g : g = Steps(step, t)
  OBVIOUS
<1>4. g \in [1 .. n -> [DecState -> DecState]]
  BY <1>1, <1>3, StepsType, DecBaseType, Zenon
<1>5. \A k \in 1 .. n : \A s \in DecState : g[k][s] = P!decrypt(s, t[k], width, table)
  <2> TAKE k \in 1 .. n
  <2> TAKE s \in DecState
  <2>1. t[k] \in HexChars
    BY <1>1, ElementOfSeq
  <2> QED
    BY <1>1, <1>2, <1>3, <2>1, Zenon DEF Steps, DecStep
<1>a. PICK w : FoldTable(w, DecState, n, DecBase, g)
  BY <1>4, DecBaseType, FoldDefined, Zenon
<1>6. /\ w \in [SUBSET (1 .. n) -> DecState]
      /\ \A s \in SUBSET (1 .. n) :
           w[s] = IF s = {} THEN DecBase
                  ELSE g[CHOOSE m \in s : \A k \in s : m >= k]
                        [w[s \ {CHOOSE m \in s : \A k \in s : m >= k}]]
  BY <1>a, Zenon DEF FoldTable
<1> DEFINE Body(v) ==
             [s \in SUBSET (1 .. n) |->
               IF s = {} THEN DecBase
               ELSE P!decrypt(v[s \ {CHOOSE m \in s : \A k \in s : m >= k}],
                              t[CHOOSE m \in s : \A k \in s : m >= k], width, table)]
           E == CHOOSE iter : iter = Body(iter)
<1>7. \A s \in SUBSET (1 .. n) : s # {} =>
        /\ (CHOOSE m \in s : \A k \in s : m >= k) \in 1 .. n
        /\ w[s \ {CHOOSE m \in s : \A k \in s : m >= k}] \in DecState
  <2> TAKE s \in SUBSET (1 .. n)
  <2> HAVE s # {}
  <2>1. \E m \in s : \A k \in s : m >= k
    BY GreatestOf, Zenon
  <2>2. PICK j : j = CHOOSE m \in s : \A k \in s : m >= k
    OBVIOUS
  <2>3. j \in s
    BY <2>1, <2>2, Zenon
  <2>4. s \ {j} \in SUBSET (1 .. n) /\ j \in 1 .. n
    BY <2>3
  <2> QED
    BY <1>6, <2>2, <2>4, Zenon
<1>8. w = Body(w)
  <2>1. \A s \in SUBSET (1 .. n) : w[s] = Body(w)[s]
    <3> TAKE s \in SUBSET (1 .. n)
    <3>1. CASE s = {}
      BY <1>6, <3>1, Zenon
    <3>2. CASE s # {}
      BY <1>5, <1>6, <1>7, <3>2, Zenon
    <3> QED
      BY <3>1, <3>2
  <2> QED
    BY <1>6, <2>1, Zenon
<1>9. E = Body(E)
  <2> HIDE DEF Body
  <2> QED
    BY <1>8, Zenon
<1>10. P!DecryptAll(t, width, table) = E[1 .. n].out
  BY <1>1, Zenon DEF P!DecryptAll, P!FoldLeft, P!MapThenFoldSet, P!Max, DecBase
<1> HIDE DEF E
<1>11. E[{}] = DecBase
  BY <1>9, Zenon
<1>12. \A k \in 1 .. n : E[1 .. k - 1] \in DecState => E[1 .. k] = g[k][E[1 .. k - 1]]
  <2> TAKE k \in 1 .. n
  <2> HAVE E[1 .. k - 1] \in DecState
  <2>1. k \in Nat /\ k # 0 /\ 1 .. k \in SUBSET (1 .. n)
    BY <1>1
  <2>2. /\ (CHOOSE m \in 1 .. k : \A j \in 1 .. k : m >= j) = k
        /\ (1 .. k) \ {k} = 1 .. (k - 1) /\ 1 .. k # {}
    BY <2>1, GreatestUpTo
  <2>3. E[1 .. k] = P!decrypt(E[1 .. k - 1], t[k], width, table)
    BY <1>9, <2>1, <2>2, Zenon
  <2> QED
    BY <1>5, <2>3, Zenon
<1>b. FoldEnds(DecState, n, DecBase, g, E)
  BY <1>4, <1>11, <1>12, DecBaseType, FoldRun, Zenon
<1>13. PICK r \in Runs(DecState, n, DecBase, g) : E[1 .. n] = r[n]
  BY <1>b, Zenon DEF FoldEnds
<1>14. EndsAt(DecState, DecBase, step, t, r)
  BY <1>1, <1>3, <1>13, DecBaseType, FoldOfRun, Zenon
<1> QED
  BY <1>1, <1>2, <1>10, <1>13, <1>14, Zenon DEF EndsAt

Letters == 33 .. 126
PolyChars == P!Whitespace \cup Letters

\* How many they are.
Room == 94

\* A table that has every letter among its first 94 places.
IsTable(table) ==
  /\ table \in Seq(Ascii) /\ Len(table) \in Nat /\ Len(table) >= Room
  /\ \A c \in Letters : \E i \in 1 .. Room : table[i] = c

RestOf(key, alphabet, n) ==
  FlattenSeq([i \in 1 .. n |-> IF \E k \in 1 .. Len(key) : key[k] = alphabet[i]
                              THEN <<>> ELSE <<alphabet[i]>>])

\* The pieces that the loops over an alphabet put behind the key.
LEMMA RestIs ==
  ASSUME NEW b \in Nat, NEW n \in Nat, NEW key \in Seq(b + 1 .. b + n),
         NEW alphabet, alphabet = [i \in 1 .. n |-> b + i]
  PROVE  RestOf(key, alphabet, n) = Each(Leave(b + 1 .. b + n, Range(key)), alphabet)
<1>1. DOMAIN alphabet = 1 .. n /\ \A i \in 1 .. n : alphabet[i] \in b + 1 .. b + n
  OBVIOUS
<1>2. DOMAIN key = 1 .. Len(key)
  BY LenProperties
<1>3. PICK A : A = b + 1 .. b + n
  OBVIOUS
<1>4. \A i \in 1 .. n : Leave(A, Range(key))[alphabet[i]]
                          = IF \E k \in 1 .. Len(key) : key[k] = alphabet[i]
                            THEN <<>> ELSE <<alphabet[i]>>
  <2> TAKE i \in 1 .. n
  <2>1. alphabet[i] \in Range(key) <=> \E k \in 1 .. Len(key) : key[k] = alphabet[i]
    BY <1>2, Zenon DEF Range
  <2>2. alphabet[i] \in A
    BY <1>1, <1>3, Zenon
  <2> QED
    BY <2>1, <2>2, Zenon DEF Leave
<1>5. [k \in DOMAIN alphabet |-> Leave(A, Range(key))[alphabet[k]]]
        = [i \in 1 .. n |-> IF \E k \in 1 .. Len(key) : key[k] = alphabet[i]
                            THEN <<>> ELSE <<alphabet[i]>>]
  BY <1>1, <1>4, Zenon
<1> QED
  BY <1>3, <1>5, Zenon DEF Each, RestOf

\* The FlattenSeq of Polybius is this one.
LEMMA FlattenP == \A s : P!FlattenSeq(s) = FlattenSeq(s)
  BY Zenon DEF P!FlattenSeq, FlattenSeq

\* The table that is made from the arguments is one (polybiuscipher.c:14-56).
LEMMA TableIs ==
  ASSUME NEW rows0 \in 9 .. 15, NEW columns0 \in 9 .. 15,
         P!checkIfValidRowsCols(rows0, columns0),
         NEW key, key # P!NoKey => key \in Seq(Ascii) /\ P!checkKeyValidP(key)
  PROVE  IsTable(P!polybius_table(rows0, columns0, key))
<1> DEFINE alphabet == [i \in 1 .. Room |-> 32 + i]
<1>1. PICK m \in Nat : m = (rows0 * columns0) - Room
  <2>1. Len(P!polybius_alphabet) = Room
    BY DEF P!polybius_alphabet, Room
  <2>2. rows0 * columns0 >= Room
    BY <2>1, Zenon DEF P!checkIfValidRowsCols
  <2>3. rows0 * columns0 \in Nat
    BY SMT
  <2>4. PICK size \in Nat : size = rows0 * columns0 /\ size >= Room
    BY <2>2, <2>3, Zenon
  <2>5. size - Room \in Nat
    BY <2>4 DEF Room
  <2> QED
    BY <2>4, <2>5, Zenon
<1>2. PICK zeros \in Seq(Ascii) : zeros = [i \in 1 .. m |-> 0] /\ Len(zeros) \in Nat
  <2>1. [i \in 1 .. m |-> 0] \in Seq(Ascii)
    BY DEF Ascii
  <2> QED
    BY <2>1, LenProperties
<1>3. ASSUME NEW head \in Seq(Letters), Len(head) = Room, Range(head) = Letters
      PROVE  IsTable(head \o zeros)
  <2>1. head \in Seq(Ascii)
    <3>1. Letters \subseteq Ascii
      BY DEF Letters, Ascii
    <3> QED
      BY <3>1, SeqInLarger, Zenon
  <2>2. Joined(head \o zeros, head, zeros, Ascii)
    BY <1>2, <2>1, Joining, Zenon
  <2>3. PICK t : t = head \o zeros
    OBVIOUS
  <2>4. t \in Seq(Ascii) /\ Len(t) \in Nat /\ Len(t) >= Room /\ \A i \in 1 .. Room : t[i] = head[i]
    <3>1. /\ t \in Seq(Ascii) /\ Len(t) = Room + Len(zeros)
          /\ \A i \in 1 .. Room + Len(zeros) : t[i] = IF i <= Room THEN head[i] ELSE zeros[i - Room]
      BY <1>3, <2>2, <2>3, Zenon DEF Joined
    <3>2. PICK l \in Nat : l = Len(zeros)
      BY <1>2
    <3>3. Room + l \in Nat /\ Room + l >= Room /\ \A i \in 1 .. Room : i \in 1 .. Room + l /\ i <= Room
      BY DEF Room
    <3> QED
      BY <3>1, <3>2, <3>3, Zenon
  <2>5. ASSUME NEW c \in Letters PROVE \E i \in 1 .. Room : head[i] = c
    <3>1. DOMAIN head = 1 .. Room
      BY <1>3, LenProperties
    <3> QED
      BY <1>3, <3>1, Zenon DEF Range
  <2> QED
    BY <2>3, <2>4, <2>5, Zenon DEF IsTable
<1>4. P!polybius_alphabet = alphabet
  BY Zenon DEF P!polybius_alphabet, Room
<1>5. Letters = 32 + 1 .. 32 + Room /\ 32 \in Nat /\ Room \in Nat
  BY DEF Letters, Room
<1>6. CASE key = P!NoKey
  <2>1. P!polybius_table(rows0, columns0, key) = alphabet \o zeros
    BY <1>1, <1>2, <1>4, <1>6, Zenon DEF P!polybius_table, P!loadPolyTable, Room
  <2>2. alphabet \in Seq(Letters) /\ Len(alphabet) = Room
    BY DEF Letters, Room
  <2>3. Range(alphabet) = Letters
    <3>1. \A c \in Letters : c - 32 \in 1 .. Room /\ alphabet[c - 32] = c
      BY DEF Letters, Room
    <3>2. \A i \in 1 .. Room : alphabet[i] \in Letters
      BY DEF Letters, Room
    <3>3. DOMAIN alphabet = 1 .. Room
      BY DEF Room
    <3> HIDE DEF alphabet
    <3> QED
      BY <3>1, <3>2, <3>3, Zenon DEF Range
  <2> HIDE DEF alphabet
  <2> QED
    BY <1>3, <2>1, <2>2, <2>3, Zenon
<1>7. CASE key # P!NoKey
  <2>1. key \in Seq(Ascii) /\ P!IsInjective(key)
        /\ \A i \in DOMAIN key : P!Contains(alphabet, key[i])
    BY <1>4, <1>7, Zenon DEF P!checkKeyValidP
  <2>2. \A i \in 1 .. Len(key) : key[i] \in Letters
    <3>1. DOMAIN key = 1 .. Len(key)
      BY <2>1, LenProperties
    <3>2. Len(alphabet) = Room /\ \A j \in 1 .. Room : alphabet[j] \in Letters
      BY DEF Letters, Room
    <3> HIDE DEF alphabet
    <3>3. \A a : P!Contains(alphabet, a) => a \in Letters
      BY <3>2, Zenon DEF P!Contains
    <3> QED
      BY <2>1, <3>1, <3>3, Zenon
  <2>3. key \in Seq(Letters)
    <3>1. key = [i \in 1 .. Len(key) |-> key[i]] /\ Len(key) \in Nat
      BY <2>1, LenProperties
    <3> QED
      BY <2>2, <3>1
  <2>4. IsInjective(key)
    BY <2>1, Zenon DEF P!IsInjective, IsInjective
  <2>5. PICK rest : rest = Each(Leave(Letters, Range(key)), alphabet)
    OBVIOUS
  <2>6. P!loadPolyTableWithKey(rows0, columns0, key) = (key \o rest) \o zeros
    <3>1. RestOf(key, alphabet, Room) = rest
      <4> HIDE DEF alphabet
      <4>1. key \in Seq(32 + 1 .. 32 + Room)
        BY <1>5, <2>3, Zenon
      <4>2. alphabet = [i \in 1 .. Room |-> 32 + i]
        BY DEF alphabet
      <4> QED
        BY <1>5, <2>5, <4>1, <4>2, RestIs, ZenonT(60)
    <3> HIDE DEF alphabet
    <3>2. P!FlattenSeq([i \in 1 .. Room |-> IF P!Contains(key, alphabet[i])
                                          THEN <<>> ELSE <<alphabet[i]>>]) = rest
      BY <3>1, FlattenP, Zenon DEF P!Contains, RestOf
    <3> QED
      BY <1>1, <1>2, <1>4, <3>2, Zenon DEF P!loadPolyTableWithKey, Room
  <2>7. PICK head : head = key \o rest
    OBVIOUS
  <2>8. head \in Seq(Letters) /\ Len(head) = Room /\ Range(head) = Letters
    <3>1. alphabet = [i \in 1 .. Room |-> 32 + i] /\ head = key \o Each(Leave(Letters, Range(key)), alphabet)
      BY <2>5, <2>7, Zenon
    <3> HIDE DEF alphabet
    <3>2. EveryOnce(head, Letters, Room)
      BY <1>5, <2>3, <2>4, <3>1, KeyThenRest, Zenon
    <3> QED
      BY <3>2, Zenon DEF EveryOnce
  <2>9. P!polybius_table(rows0, columns0, key) = head \o zeros
    BY <1>7, <2>6, <2>7, Zenon DEF P!polybius_table
  <2> QED
    BY <1>3, <2>8, <2>9, Zenon
<1> QED
  BY <1>6, <1>7

\* A digit below 16 is printed as a hexadecimal one, and read back.
LEMMA HexReadsBack ==
  ASSUME NEW n \in 0 .. 15
  PROVE  P!Hex(n) \in 48 .. 57 \cup 65 .. 70 /\ P!Digit(P!Hex(n)) = n
  BY DEF P!Hex, P!Digit

LeadsTo(high, low, width, i) ==
  /\ {high, low} \subseteq 48 .. 57 \cup 65 .. 70
  /\ (P!Digit(high) * width) + (P!Digit(low) % width) = i

\* The two digits of a place in the table are hexadecimal, and lead back to
\* it, for every number of columns that the arguments allow
\* (polybiuscipher.c:58-110, hw1.c:86-131).
THEOREM PlaceReadsBack ==
  ASSUME NEW width \in 9 .. 15, NEW i \in Nat, i < 15 * width,
         NEW high, high = P!Hex(i \div width), NEW low, low = P!Hex(i % width)
  PROVE  LeadsTo(high, low, width, i)
<1>1. /\ i \div width \in 0 .. 14 /\ i % width \in 0 .. width - 1
      /\ ((i \div width) * width) + (i % width) = i
      /\ (i % width) % width = i % width
  <2>1. \/ width = 9 \/ width = 10 \/ width = 11 \/ width = 12 \/ width = 13 \/ width = 14
        \/ width = 15
    BY SMT
  <2> QED
    BY SMT, <2>1
<1>2. i \div width \in 0 .. 15 /\ i % width \in 0 .. 15
  BY SMT, <1>1
<1>3. P!Digit(high) = i \div width /\ P!Digit(low) = i % width
      /\ {high, low} \subseteq 48 .. 57 \cup 65 .. 70
  BY <1>2, HexReadsBack
<1> QED
  BY SMT, <1>1, <1>3 DEF LeadsTo

\* What is printed for one character.
Enc(width, table) == [c \in PolyChars |-> P!encrypt(c, width, table)]

\* The two digits of the place of c.
PlacePrinted(c, i, width, table) ==
  /\ i \in Nat /\ i < Len(table) /\ i < 15 * width /\ table[i + 1] = c
  /\ Enc(width, table)[c] = <<P!Hex(i \div width), P!Hex(i % width)>>

\* A letter is printed as the place it has in the table.
LEMMA EncryptPlace ==
  ASSUME NEW width \in 9 .. 15, NEW table, IsTable(table), NEW c \in Letters
  PROVE  \E i : PlacePrinted(c, i, width, table)
<1>1. PICK l \in Nat : l = Len(table) /\ l >= Room
  BY Zenon DEF IsTable
<1>2. PICK k \in 1 .. Room : table[k] = c
  BY Zenon DEF IsTable
<1> DEFINE I == {j \in 1 .. l : table[j] = c}
<1>3. k \in I /\ I \in SUBSET Nat /\ k < 95
  BY <1>1, <1>2 DEF Room
<1>4. PICK m \in I : \A j \in I : m <= j
  BY <1>3, LeastOf
<1>5. PICK p : p = P!SelectInSeq(table, LAMBDA t : t = c)
  OBVIOUS
<1>6. p \in I /\ \A j \in I : p <= j
  <2>1. I # {}
    BY <1>3
  <2>2. p = CHOOSE a \in I : \A j \in I : a <= j
    BY <1>1, <1>5, <2>1, Zenon DEF P!SelectInSeq, P!Min
  <2> HIDE DEF I
  <2> QED
    BY <1>4, <2>2, Zenon
<1>7. p \in 1 .. l /\ p <= k /\ table[p] = c
  BY <1>3, <1>6
<1>8. PICK i \in Nat : i = p - 1 /\ i + 1 = p /\ i < l /\ i < 15 * width
  BY <1>3, <1>7
<1>9. c \notin P!Whitespace /\ c \in PolyChars
  BY DEF Letters, PolyChars, P!Whitespace, P!SPACE, P!TAB, P!NEWLINE
<1>10. P!encrypt(c, width, table) = <<P!Hex(i \div width), P!Hex(i % width)>>
  BY <1>5, <1>8, <1>9, Zenon DEF P!encrypt
<1>11. Enc(width, table)[c] = <<P!Hex(i \div width), P!Hex(i % width)>>
  BY <1>9, <1>10, Zenon DEF Enc
<1> QED
  BY <1>1, <1>7, <1>8, <1>11, Zenon DEF PlacePrinted

\* White space is printed as it is.
LEMMA EncryptWhite ==
  ASSUME NEW width, NEW table, NEW c \in P!Whitespace
  PROVE  Enc(width, table)[c] = <<c>> /\ c \in HexChars
  BY Zenon DEF Enc, P!encrypt, HexChars, PolyChars

\* A letter is two hexadecimal digits, which lead back to its place.
Digits(c, h, l, width, table) ==
  /\ Enc(width, table)[c] = <<h, l>> /\ h \in HexChars /\ l \in HexChars
  /\ h \notin P!Whitespace /\ l \notin P!Whitespace
  /\ (P!Digit(h) * width) + (P!Digit(l) % width) \in Nat
  /\ P!At(table, (P!Digit(h) * width) + (P!Digit(l) % width)) = c

\* There are such digits for every letter.
LEMMA LetterDigits ==
  ASSUME NEW width \in 9 .. 15, NEW table, IsTable(table), NEW c \in Letters
  PROVE  \E h, l : Digits(c, h, l, width, table)
<1>1. PICK i : PlacePrinted(c, i, width, table)
  BY EncryptPlace, Zenon
<1>2. PICK h : h = P!Hex(i \div width)
  OBVIOUS
<1>3. PICK l : l = P!Hex(i % width)
  OBVIOUS
<1>4. i \in Nat /\ i < Len(table) /\ i < 15 * width /\ table[i + 1] = c
      /\ Enc(width, table)[c] = <<h, l>>
  BY <1>1, <1>2, <1>3, Zenon DEF PlacePrinted
<1>5. /\ {h, l} \subseteq 48 .. 57 \cup 65 .. 70
      /\ (P!Digit(h) * width) + (P!Digit(l) % width) = i
  <2>1. LeadsTo(h, l, width, i)
    BY <1>2, <1>3, <1>4, PlaceReadsBack, Zenon
  <2> QED
    BY <2>1, Zenon DEF LeadsTo
<1>6. \A d : d \in 48 .. 57 \cup 65 .. 70 => d \in HexChars /\ d \notin P!Whitespace
  BY DEF HexChars, P!Whitespace, P!SPACE, P!TAB, P!NEWLINE
<1>7. P!At(table, i) = c
  BY <1>4, Zenon DEF P!At
<1> QED
  BY <1>4, <1>5, <1>6, <1>7, Zenon DEF Digits

\* What is printed is hexadecimal digits and white space.
LEMMA EncType ==
  ASSUME NEW width \in 9 .. 15, NEW table, IsTable(table)
  PROVE  Enc(width, table) \in [PolyChars -> Seq(HexChars)]
<1>1. ASSUME NEW c \in PolyChars PROVE Enc(width, table)[c] \in Seq(HexChars)
  <2>1. CASE c \in P!Whitespace
    <3>1. Enc(width, table)[c] = <<c>> /\ c \in HexChars
      BY <2>1, EncryptWhite, Zenon
    <3>2. <<c>> \in Seq(HexChars)
      BY <3>1, TwoOf, Zenon
    <3> QED
      BY <3>1, <3>2, Zenon
  <2>2. CASE c \in Letters
    <3>1. PICK h, l : Digits(c, h, l, width, table)
      BY <2>2, LetterDigits, Zenon
    <3>2. Enc(width, table)[c] = <<h, l>> /\ h \in HexChars /\ l \in HexChars
      BY <3>1, Zenon DEF Digits
    <3>3. <<h, l>> \in Seq(HexChars)
      BY <3>2
    <3> QED
      BY <3>2, <3>3, Zenon
  <2> QED
    BY <2>1, <2>2, Zenon DEF PolyChars
<1>2. DOMAIN Enc(width, table) = PolyChars
      /\ Enc(width, table) = [c \in PolyChars |-> Enc(width, table)[c]]
  BY Zenon DEF Enc
<1> QED
  BY <1>1, <1>2, Zenon

\* One element more, in a form to instantiate.
Longer(s, a, A) == Append(s, a) \in Seq(A) /\ Append(s, a) = s \o <<a>>

\* Append does that.
LEMMA Lengthen ==
  ASSUME NEW A, NEW s \in Seq(A), NEW a \in A
  PROVE  Longer(s, a, A)
<1>1. Append(s, a) \in Seq(A)
  BY AppendProperties
<1>2. Append(s, a) = s \o <<a>>
  BY AppendIsConcat
<1> QED
  BY <1>1, <1>2, Zenon DEF Longer

\* One character of the cipher more.
StepFrom(s, c, width, table, t) == t = P!decrypt(s, c, width, table)

\* Each character of the cipher is a step of decrypt.
LEMMA DecryptMore ==
  ASSUME NEW width \in 9 .. 15, NEW table \in Seq(Ascii)
  PROVE  \A t \in Seq(HexChars) : \A c \in HexChars :
           StepFrom(FoldOf(DecState, DecBase, DecStep(width, table), t), c, width, table,
                    FoldOf(DecState, DecBase, DecStep(width, table), Append(t, c)))
<1> TAKE t \in Seq(HexChars)
<1> TAKE c \in HexChars
<1>1. PICK step \in [HexChars -> [DecState -> DecState]] : step = DecStep(width, table)
  BY DecryptType, Zenon
<1>2. NextOf(DecState, DecBase, step, t, c)
  BY DecBaseType, FoldOfAppend, Zenon
<1>3. PICK s : s = FoldOf(DecState, DecBase, step, t)
  OBVIOUS
<1>4. s \in DecState
  BY <1>3, DecBaseType, FoldOfType, Zenon
<1>5. FoldOf(DecState, DecBase, step, Append(t, c)) = step[c][s]
  BY <1>2, <1>3, Zenon DEF NextOf
<1>6. step[c][s] = P!decrypt(s, c, width, table)
  BY <1>1, <1>4, Zenon DEF DecStep
<1> QED
  BY <1>1, <1>3, <1>5, <1>6, Zenon DEF StepFrom

\* Between two characters of the text, p was read and no digit is left over.
Between(s, p) == s \in DecState /\ s.out = p /\ s.inputTaken \in {0, 2}

\* White space is read back as it is.
LEMMA WhiteBack ==
  ASSUME NEW width \in 9 .. 15, NEW table, NEW p, NEW s, Between(s, p),
         NEW c \in P!Whitespace, NEW t \in DecState, StepFrom(s, c, width, table, t)
  PROVE  Between(t, Append(p, c))
<1>1. t = Decrypted(s, c, width, table) /\ s.out = p
  BY DecryptCases, Zenon DEF StepFrom, Between
<1>2. t = [inputTaken |-> 0, decryptIndex |-> IF s.inputTaken = 2 THEN 0 ELSE s.decryptIndex,
           out |-> Append(p, c)]
  BY <1>1, Zenon DEF Decrypted
<1>3. PICK i : t = [inputTaken |-> 0, decryptIndex |-> i, out |-> Append(p, c)]
  BY <1>2, Zenon
<1>4. t.inputTaken = 0 /\ t.out = Append(p, c)
  BY <1>3
<1> QED
  BY <1>4 DEF Between

\* Two digits are read back as the letter they were printed for.
LEMMA LetterBack ==
  ASSUME NEW width \in 9 .. 15, NEW table, NEW p, NEW s, Between(s, p),
         NEW c, NEW h, NEW l, Digits(c, h, l, width, table),
         NEW t \in DecState, StepFrom(s, h, width, table, t),
         NEW u \in DecState, StepFrom(t, l, width, table, u)
  PROVE  Between(u, Append(p, c))
<1>1. s.out = p /\ s \in DecState /\ s.inputTaken # 1
  BY DEF Between
<1>2. /\ h \notin P!Whitespace /\ l \notin P!Whitespace
      /\ P!At(table, (P!Digit(h) * width) + (P!Digit(l) % width)) = c
  BY Zenon DEF Digits
<1>3. t = [inputTaken |-> 1, decryptIndex |-> P!Digit(h) * width, out |-> p]
  <2>1. t = Decrypted(s, h, width, table)
    BY <1>1, DecryptCases, ZenonT(60) DEF StepFrom
  <2> QED
    BY <1>1, <1>2, <2>1, Zenon DEF Decrypted
<1>4. t.inputTaken = 1 /\ t.decryptIndex = P!Digit(h) * width /\ t.out = p
  BY <1>3
<1>5. PICK i : i = (P!Digit(h) * width) + (P!Digit(l) % width)
  OBVIOUS
<1>6. u = [inputTaken |-> 2, decryptIndex |-> i, out |-> Append(p, c)]
  <2>1. u = Decrypted(t, l, width, table)
    <3>1. P!decrypt(t, l, width, table) = Decrypted(t, l, width, table)
      BY DecryptCases, Zenon
    <3> QED
      BY <3>1, Zenon DEF StepFrom
  <2> QED
    BY <1>2, <1>4, <1>5, <2>1, Zenon DEF Decrypted
<1>7. u.inputTaken = 2 /\ u.out = Append(p, c)
  BY <1>6
<1> QED
  BY <1>7 DEF Between

\* What is printed for a text is decrypted to it (polybiuscipher.c:112-186).
LEMMA PolyReadsBack ==
  ASSUME NEW width \in 9 .. 15, NEW table, IsTable(table)
  PROVE  \A p \in Seq(PolyChars) : P!DecryptAll(Each(Enc(width, table), p), width, table) = p
<1>1. PICK enc \in [PolyChars -> Seq(HexChars)] : enc = Enc(width, table)
  BY EncType, Zenon
<1>2. PICK step \in [HexChars -> [DecState -> DecState]] : step = DecStep(width, table)
  BY DecryptType, Zenon DEF IsTable
<1> DEFINE Left(t) == FoldOf(DecState, DecBase, step, t)
           G == {p \in Seq(PolyChars) : Between(Left(Each(enc, p)), p)}
<1>3. \A t \in Seq(HexChars) : Left(t) \in DecState
  BY DecBaseType, FoldOfType, Zenon
<1>4. \A t \in Seq(HexChars) : \A c \in HexChars :
        StepFrom(Left(t), c, width, table, Left(Append(t, c)))
  BY <1>2, DecryptMore, Zenon DEF IsTable
<1>5. \A p \in Seq(PolyChars) : Each(enc, p) \in Seq(HexChars)
  BY EachType, Zenon
<1>6. <<>> \in G
  <2>1. Left(<<>>) = DecBase /\ Each(enc, <<>>) = <<>> /\ <<>> \in Seq(PolyChars)
    BY EachEmpty, EmptySeq, DecBaseType, FoldOfEmpty, Zenon
  <2>2. DecBase.out = <<>> /\ DecBase.inputTaken = 0
    BY DEF DecBase
  <2>3. Between(DecBase, <<>>)
    BY <2>2, DecBaseType DEF Between
  <2> HIDE DEF Left
  <2> QED
    BY <2>1, <2>3, Zenon
<1> HIDE DEF Left
<1>7. ASSUME NEW p \in G, NEW c \in PolyChars PROVE Append(p, c) \in G
  <2>1. PICK e \in Seq(HexChars) : e = Each(enc, p)
    BY <1>5, Zenon
  <2>2. Between(Left(e), p) /\ p \in Seq(PolyChars)
    BY <2>1, Zenon
  <2>3. Each(enc, Append(p, c)) = e \o enc[c] /\ Append(p, c) \in Seq(PolyChars)
    <3>1. Each(enc, Append(p, c)) = Each(enc, p) \o enc[c]
      BY <2>2, EachAppend, ZenonT(60)
    <3>2. Append(p, c) \in Seq(PolyChars)
      BY <2>2, AppendProperties
    <3> QED
      BY <2>1, <3>1, <3>2, Zenon
  <2>4. CASE c \in P!Whitespace
    <3>1. enc[c] = <<c>> /\ c \in HexChars
      BY <1>1, <2>4, EncryptWhite, Zenon
    <3>2. e \o enc[c] = Append(e, c) /\ Append(e, c) \in Seq(HexChars)
      <4>1. Longer(e, c, HexChars)
        BY <3>1, Lengthen, Zenon
      <4> QED
        BY <3>1, <4>1, Zenon DEF Longer
    <3>3. StepFrom(Left(e), c, width, table, Left(Append(e, c))) /\ Left(Append(e, c)) \in DecState
      BY <1>3, <1>4, <3>1, <3>2, Zenon
    <3>4. Between(Left(Append(e, c)), Append(p, c))
      BY <2>2, <2>4, <3>3, WhiteBack, Zenon
    <3> QED
      BY <2>3, <3>2, <3>4, Zenon
  <2>5. CASE c \in Letters
    <3>1. PICK h, l : Digits(c, h, l, width, table)
      BY <2>5, LetterDigits, Zenon
    <3>2. enc[c] = <<h, l>> /\ h \in HexChars /\ l \in HexChars
      BY <1>1, <3>1, Zenon DEF Digits
    <3>3. PICK e1 \in Seq(HexChars) : e1 = Append(e, h)
      BY <3>2, AppendProperties
    <3>4. PICK e2 \in Seq(HexChars) : e2 = Append(e1, l)
      BY <3>2, AppendProperties
    <3>5. e \o enc[c] = e2
      <4>1. PICK one \in Seq(HexChars) : one = <<h>> /\ Append(one, l) = <<h, l>>
        BY <3>2, TwoOf, Zenon
      <4>2. PICK two \in Seq(HexChars) : two = <<l>>
        BY <3>2, TwoOf, Zenon
      <4>3. Append(one, l) = one \o two /\ e1 = e \o one /\ e2 = e1 \o two
        BY <3>2, <3>3, <3>4, <4>1, <4>2, AppendIsConcat, ZenonT(60)
      <4>4. Associative(e, one, two)
        BY ConcatIsAssociative, Zenon
      <4> QED
        BY <3>2, <4>1, <4>3, <4>4, Zenon DEF Associative
    <3>6. /\ StepFrom(Left(e), h, width, table, Left(e1)) /\ Left(e1) \in DecState
          /\ StepFrom(Left(e1), l, width, table, Left(e2)) /\ Left(e2) \in DecState
      BY <1>3, <1>4, <3>2, <3>3, <3>4, Zenon
    <3>7. Between(Left(e2), Append(p, c))
      BY <2>2, <3>1, <3>6, LetterBack, Zenon
    <3> QED
      BY <2>3, <3>5, <3>7, Zenon
  <2> QED
    BY <2>4, <2>5, Zenon DEF PolyChars
<1>8. G = Seq(PolyChars)
  <2>1. G \in SUBSET Seq(PolyChars)
    OBVIOUS
  <2> HIDE DEF G
  <2> QED
    BY <1>6, <1>7, <2>1, SeqInduction, Zenon
<1> TAKE p \in Seq(PolyChars)
<1>9. Between(Left(Each(enc, p)), p)
  BY <1>8, Zenon
<1>10. P!DecryptAll(Each(enc, p), width, table) = Left(Each(enc, p)).out
  BY <1>2, <1>5, DecryptIsFold, Zenon DEF IsTable, Left
<1> QED
  BY <1>1, <1>9, <1>10, Zenon DEF Between

\* What the program looks for in the text before it encrypts it.
Unknown(c) == c \notin P!Whitespace /\ ~P!Contains(P!polybius_alphabet, c)

\* Those are the characters that are neither white space nor in the alphabet.
LEMMA UnknownChars ==
  \A c : Unknown(c) <=> c \notin PolyChars
<1>1. Len(P!polybius_alphabet) = Room
  BY DEF P!polybius_alphabet, Room
<1>2. \A j \in 1 .. Room : P!polybius_alphabet[j] \in Letters
  BY DEF P!polybius_alphabet, Room, Letters
<1>3. \A c \in Letters : c - 32 \in 1 .. Room /\ P!polybius_alphabet[c - 32] = c
  BY DEF P!polybius_alphabet, Room, Letters
<1>4. \A c : P!Contains(P!polybius_alphabet, c) <=> c \in Letters
  <2> TAKE c
  <2>1. P!Contains(P!polybius_alphabet, c) => c \in Letters
    BY <1>1, <1>2, Zenon DEF P!Contains
  <2>2. c \in Letters => P!Contains(P!polybius_alphabet, c)
    BY <1>1, <1>3, Zenon DEF P!Contains
  <2> QED
    BY <2>1, <2>2
<1> QED
  BY <1>4, Zenon DEF Unknown, PolyChars

\* The part of a text that is read: all of it, or what comes before a
\* character that is outside the alphabet.
ReadOf(t) ==
  LET known == P!SelectInSeq(t, LAMBDA c : c \notin P!Whitespace
                                         /\ ~P!Contains(P!polybius_alphabet, c))
  IN IF known = 0 THEN t ELSE SubSeq(t, 1, known - 1)

AllRead(t) ==
  P!SelectInSeq(t, LAMBDA c : c \notin P!Whitespace
                            /\ ~P!Contains(P!polybius_alphabet, c)) = 0

\* What is read can be encrypted; it is the text if there is no such character.
LEMMA WhatIsRead ==
  ASSUME NEW t \in Seq(Ascii)
  PROVE  ReadOf(t) \in Seq(PolyChars) /\ (AllRead(t) => ReadOf(t) = t)
<1> DEFINE I == {i \in 1 .. Len(t) : t[i] \notin P!Whitespace
                                    /\ ~P!Contains(P!polybius_alphabet, t[i])}
<1>1. PICK n \in Nat : n = Len(t)
  BY LenProperties
<1>2. \A i : i \in I <=> i \in 1 .. n /\ t[i] \notin PolyChars
  BY <1>1, UnknownChars, Zenon DEF Unknown
<1>3. PICK k : k = IF I # {} THEN CHOOSE a \in I : \A j \in I : a <= j ELSE 0
  OBVIOUS
<1>4. k = P!SelectInSeq(t, LAMBDA c : c \notin P!Whitespace
                                    /\ ~P!Contains(P!polybius_alphabet, c))
  BY <1>3, Zenon DEF P!SelectInSeq, P!Min
<1> HIDE DEF I
<1>5. CASE I = {}
  <2>1. k = 0
    BY <1>3, <1>5, Zenon
  <2>2. \A i \in 1 .. n : t[i] \in PolyChars
    BY <1>2, <1>5, Zenon
  <2>3. t \in Seq(PolyChars)
    <3>1. t = [i \in 1 .. n |-> t[i]]
      BY <1>1, LenProperties
    <3>2. [i \in 1 .. n |-> t[i]] \in Seq(PolyChars)
      BY <1>1, <2>2
    <3> QED
      BY <3>1, <3>2, Zenon
  <2> QED
    BY <1>4, <2>1, <2>3, Zenon DEF ReadOf, AllRead
<1>6. CASE I # {}
  <2>1. \E a \in I : \A j \in I : a <= j
    <3>1. I \subseteq Nat
      BY <1>1, <1>2
    <3> QED
      BY <1>6, <3>1, LeastOf, Zenon
  <2>2. k \in I /\ \A j \in I : k <= j
    BY <1>3, <1>6, <2>1, Zenon
  <2>3. k \in 1 .. n /\ k # 0
    BY <1>2, <2>2
  <2>4. \A i \in 1 .. k - 1 : i \in 1 .. n /\ t[i] \in PolyChars
    <3> TAKE i \in 1 .. k - 1
    <3>1. i \in 1 .. n /\ ~(k <= i)
      BY <2>3
    <3> QED
      BY <1>2, <2>2, <3>1, Zenon
  <2>5. 1 \in Int /\ k - 1 \in Int
    BY <2>3
  <2>6. SubSeq(t, 1, k - 1) \in Seq(PolyChars)
    BY <2>4, <2>5, SubSeqProperties
  <2> QED
    BY <1>4, <2>3, <2>6, Zenon DEF ReadOf, AllRead
<1> QED
  BY <1>5, <1>6

\* What is printed of a text.
LEMMA EncryptedAll ==
  ASSUME NEW width \in 9 .. 15, NEW table, IsTable(table), NEW t \in Seq(Ascii)
  PROVE  P!EncryptAll(t, width, table)
           = [success |-> AllRead(t), out |-> Each(Enc(width, table), ReadOf(t))]
<1>1. PICK read : read = ReadOf(t)
  OBVIOUS
<1>2. read \in Seq(PolyChars)
  BY <1>1, WhatIsRead, Zenon
<1>3. \A i \in DOMAIN read : P!encrypt(read[i], width, table) = Enc(width, table)[read[i]]
  <2> TAKE i \in DOMAIN read
  <2>1. read[i] \in PolyChars
    BY <1>2, ElementOfSeq
  <2> QED
    BY <2>1, Zenon DEF Enc
<1>4. [i \in DOMAIN read |-> P!encrypt(read[i], width, table)]
        = [i \in DOMAIN read |-> Enc(width, table)[read[i]]]
  BY <1>3, Zenon
<1>5. P!FlattenSeq([i \in DOMAIN read |-> P!encrypt(read[i], width, table)])
        = Each(Enc(width, table), read)
  BY <1>4, FlattenP, Zenon DEF Each
<1>6. P!EncryptAll(t, width, table)
        = [success |-> AllRead(t),
           out |-> P!FlattenSeq([i \in DOMAIN read |-> P!encrypt(read[i], width, table)])]
  BY <1>1, Zenon DEF P!EncryptAll, ReadOf, AllRead
<1> QED
  BY <1>1, <1>5, <1>6, Zenon

\* Arguments that -p accepts.
Accepted(o) ==
  /\ P!validargs_p(FALSE, o.rows, o.columns, o.key)
  /\ o.key \in Seq(Ascii)

TableFor(o) == P!polybius_table(P!OrDefault(o.rows), P!OrDefault(o.columns), o.key)
HasRoom(o) == P!checkIfValidRowsCols(P!OrDefault(o.rows), P!OrDefault(o.columns))

\* c is what -p -e prints for the text t, which it reads to its end.
IsCipher(c, t, o) ==
  /\ HasRoom(o) /\ t \in Seq(PolyChars)
  /\ c = Each(Enc(P!OrDefault(o.columns), TableFor(o)), t)

\* Accepted arguments give sizes from 9 to 15, and a table if there is room.
LEMMA AcceptedSizes ==
  ASSUME NEW o, Accepted(o)
  PROVE  /\ P!OrDefault(o.rows) \in 9 .. 15 /\ P!OrDefault(o.columns) \in 9 .. 15
         /\ HasRoom(o) => IsTable(TableFor(o))
<1>1. PICK r : r = o.rows
  OBVIOUS
<1>2. PICK c : c = o.columns
  OBVIOUS
<1>3. /\ r \in 9 .. 15 \cup {P!NotGiven} /\ c \in 9 .. 15 \cup {P!NotGiven}
      /\ o.key # P!NoKey => P!checkKeyValidP(o.key)
  BY <1>1, <1>2, Zenon DEF Accepted, P!validargs_p
<1>4. P!OrDefault(r) \in 9 .. 15 /\ P!OrDefault(c) \in 9 .. 15
  BY <1>3 DEF P!OrDefault, P!NotGiven
<1>5. HasRoom(o) => IsTable(TableFor(o))
  <2>1. HasRoom(o) => P!checkIfValidRowsCols(P!OrDefault(r), P!OrDefault(c))
    BY <1>1, <1>2, Zenon DEF HasRoom
  <2>2. TableFor(o) = P!polybius_table(P!OrDefault(r), P!OrDefault(c), o.key)
    BY <1>1, <1>2, Zenon DEF TableFor
  <2>3. o.key # P!NoKey => o.key \in Seq(Ascii) /\ P!checkKeyValidP(o.key)
    BY <1>3, Zenon DEF Accepted
  <2> QED
    BY <1>4, <2>1, <2>2, <2>3, TableIs, Zenon
<1> QED
  BY <1>1, <1>2, <1>4, <1>5, Zenon

\* A run of -p -e: what it prints, and what its success means.
Prints(r, t, o, begins) ==
  /\ r.out \in Seq(Ascii)
  /\ r.success /\ begins => IsCipher(r.out, t, o)

\* The fields of what a run of polyCipher returns.
Outcome(r, b, u) == r.success = b /\ r.out = u

\* They are what they were made from.
LEMMA Fields ==
  ASSUME NEW b, NEW u
  PROVE  Outcome([success |-> b, out |-> u], b, u)
  BY DEF Outcome

\* Hexadecimal digits and nothing are characters.
LEMMA HexIsAscii == Seq(HexChars) \subseteq Seq(Ascii) /\ <<>> \in Seq(Ascii)
<1>1. HexChars \subseteq Ascii
  BY DEF HexChars, Ascii, P!Whitespace, P!SPACE, P!TAB, P!NEWLINE
<1> QED
  BY <1>1, SeqInLarger, EmptySeq, Zenon

\* A run of -p -e does that.
LEMMA EncryptPrints ==
  ASSUME NEW o, Accepted(o), NEW t \in Seq(Ascii), NEW begins \in BOOLEAN,
         NEW r, r = P!polyCipher(begins, TRUE, t, P!OrDefault(o.rows), P!OrDefault(o.columns), o.key)
  PROVE  Prints(r, t, o, begins)
<1>1. CASE ~HasRoom(o)
  <2>1. r = [success |-> FALSE, out |-> <<>>]
    BY <1>1, Zenon DEF P!polyCipher, HasRoom
  <2>2. PICK b : b = FALSE
    OBVIOUS
  <2>3. r = [success |-> b, out |-> <<>>]
    BY <2>1, <2>2, Zenon
  <2>4. r.success = b /\ r.out = <<>>
    BY <2>3, Fields, ZenonT(60) DEF Outcome
  <2> QED
    BY <2>2, <2>4, HexIsAscii, Zenon DEF Prints
<1>2. CASE HasRoom(o) /\ ~begins
  <2>1. r = [success |-> TRUE, out |-> <<>>]
    BY <1>2, Zenon DEF P!polyCipher, HasRoom
  <2>2. r.out = <<>>
    BY <2>1, Fields, Zenon DEF Outcome
  <2> QED
    BY <1>2, <2>2, HexIsAscii, Zenon DEF Prints
<1>3. CASE HasRoom(o) /\ begins
  <2>1. r = P!EncryptAll(t, P!OrDefault(o.columns), TableFor(o))
    BY <1>3, Zenon DEF P!polyCipher, HasRoom, TableFor
  <2>2. PICK width \in 9 .. 15 : width = P!OrDefault(o.columns)
    BY AcceptedSizes, Zenon
  <2>3. PICK table : table = TableFor(o) /\ IsTable(table)
    BY <1>3, AcceptedSizes, Zenon
  <2>4. r = [success |-> AllRead(t), out |-> Each(Enc(width, table), ReadOf(t))]
    BY <2>1, <2>2, <2>3, EncryptedAll, Zenon
  <2>5. PICK e : e = Each(Enc(width, table), ReadOf(t))
    OBVIOUS
  <2>6. PICK b : b = AllRead(t)
    OBVIOUS
  <2>7. r = [success |-> b, out |-> e]
    BY <2>4, <2>5, <2>6, Zenon
  <2>8. r.success = b /\ r.out = e
    BY <2>7, Fields, ZenonT(60) DEF Outcome
  <2>9. e \in Seq(HexChars)
    <3>1. Enc(width, table) \in [PolyChars -> Seq(HexChars)] /\ ReadOf(t) \in Seq(PolyChars)
      BY <2>3, EncType, WhatIsRead, Zenon
    <3> QED
      BY <2>5, <3>1, EachType, Zenon
  <2>10. b => IsCipher(e, t, o)
    BY <1>3, <2>2, <2>3, <2>5, <2>6, WhatIsRead, Zenon DEF IsCipher
  <2> QED
    BY <2>8, <2>9, <2>10, HexIsAscii, Zenon DEF Prints
<1> QED
  BY <1>1, <1>2, <1>3, Zenon

\* A run of -p -d on what -p -e has printed, or with too small a table.
Restores(r, t, begins) ==
  /\ r.out \in Seq(Ascii)
  /\ r.success /\ begins => r.out = t

\* A run of -p -d does that.
LEMMA DecryptRestores ==
  ASSUME NEW o, Accepted(o), NEW t \in Seq(Ascii), NEW begins \in BOOLEAN, NEW c,
         IsCipher(c, t, o) \/ ~HasRoom(o),
         NEW r, r = P!polyCipher(begins, FALSE, c, P!OrDefault(o.rows), P!OrDefault(o.columns), o.key)
  PROVE  Restores(r, t, begins)
<1>1. CASE ~HasRoom(o)
  <2>1. r = [success |-> FALSE, out |-> <<>>]
    BY <1>1, Zenon DEF P!polyCipher, HasRoom
  <2>2. PICK b : b = FALSE
    OBVIOUS
  <2>3. r = [success |-> b, out |-> <<>>]
    BY <2>1, <2>2, Zenon
  <2>4. r.success = b /\ r.out = <<>>
    BY <2>3, Fields, ZenonT(60) DEF Outcome
  <2> QED
    BY <2>2, <2>4, HexIsAscii, Zenon DEF Restores
<1>2. CASE HasRoom(o) /\ ~begins
  <2>1. r = [success |-> TRUE, out |-> <<>>]
    BY <1>2, Zenon DEF P!polyCipher, HasRoom
  <2>2. r.out = <<>>
    BY <2>1, Fields, ZenonT(60) DEF Outcome
  <2> QED
    BY <1>2, <2>2, HexIsAscii, Zenon DEF Restores
<1>3. CASE HasRoom(o) /\ begins
  <2>1. r = [success |-> TRUE, out |-> P!DecryptAll(c, P!OrDefault(o.columns), TableFor(o))]
    BY <1>3, Zenon DEF P!polyCipher, HasRoom, TableFor
  <2>2. PICK width \in 9 .. 15 : width = P!OrDefault(o.columns)
    BY AcceptedSizes, Zenon
  <2>3. PICK table : table = TableFor(o) /\ IsTable(table)
    BY <1>3, AcceptedSizes, Zenon
  <2>4. t \in Seq(PolyChars) /\ c = Each(Enc(width, table), t)
    BY <1>3, <2>2, <2>3, Zenon DEF IsCipher
  <2>5. P!DecryptAll(c, width, table) = t
    BY <2>3, <2>4, PolyReadsBack, Zenon
  <2>6. r = [success |-> TRUE, out |-> t]
    BY <2>1, <2>2, <2>3, <2>5, Zenon
  <2>7. r.out = t
    BY <2>6, Fields, Zenon DEF Outcome
  <2> QED
    BY <2>7, Zenon DEF Restores
<1> QED
  BY <1>1, <1>2, <1>3, Zenon

Kinds == {"nothing", "text", "converted", "cipher", "back", "partial"}

\* What the contents c of a file are when h was done to get there.
PolyHolds(c, h, t, o) ==
  /\ h \in {"text", "back"} => c = t
  /\ h = "cipher" => IsCipher(c, t, o)
  /\ h = "nothing" => c = <<>>

\* What every run of hw1 -p leaves: the text, what it is encrypted to, or what
\* a run that failed has printed.
PolyInv ==
  tool = "poly" =>
    /\ options \in PolyOptions /\ Accepted(options)
    /\ text \in Seq(Ascii)
    /\ files \in [Files -> Seq(Ascii)]
    /\ holds \in [Files -> Kinds]
    /\ \A f \in Files : PolyHolds(files[f], holds[f], text, options)

\* The constants of the ciphers are sequences of characters.
LEMMA KeysAndTexts ==
  /\ \A o \in PolyOptions : o.key \in Seq(0 .. 127)
  /\ \A t \in PolyTexts : t \in Seq(1 .. 127)
  /\ \A t \in MorseTexts : t \in Seq(1 .. 127)
  /\ \A k \in MorseKeys : k \in Seq(0 .. 127)
<1>1. /\ PolyTexts \cup MorseTexts \subseteq Seq(1 .. 127)
      /\ MorseKeys \subseteq Seq(0 .. 127)
      /\ \A o \in PolyOptions : o.key \in Seq(0 .. 127)
  BY SMT, TextToolsAssumption DEF TextToolsAssumption
<1> QED
  BY <1>1, Zenon

\* The first file is the text.
LEMMA PolyInit == Init => PolyInv
<1> SUFFICES ASSUME Init, tool = "poly" PROVE PolyInv
  BY DEF PolyInv
<1>1. /\ options \in PolyOptions
      /\ P!validargs_p(FALSE, options.rows, options.columns, options.key)
      /\ text \in PolyTexts /\ files = [a |-> text, b |-> <<>>]
      /\ holds = [a |-> "text", b |-> "nothing"]
  BY DEF Init, InitUtf, InitPoly, InitMorse
<1>2. Accepted(options)
  <2>1. options.key \in Seq(0 .. 127)
    BY <1>1, KeysAndTexts, Zenon
  <2> QED
    BY <1>1, <2>1, Zenon DEF Accepted, Ascii
<1>3. PICK t \in Seq(Ascii) : t = text
  <2>1. 1 .. 127 \subseteq Ascii
    BY DEF Ascii
  <2>2. text \in Seq(1 .. 127)
    BY <1>1, KeysAndTexts, Zenon
  <2> QED
    BY <2>1, <2>2, SeqInLarger, Zenon
<1>4. files \in [Files -> Seq(Ascii)] /\ files["a"] = t /\ files["b"] = <<>>
  <2>1. files = [f \in Files |-> IF f = "a" THEN t ELSE <<>>]
    BY <1>1, <1>3 DEF Files
  <2>2. "a" # "b" /\ "a" \in Files /\ "b" \in Files
    BY DEF Files
  <2> QED
    BY <1>3, <2>1, <2>2, HexIsAscii, Zenon
<1>5. holds \in [Files -> Kinds] /\ holds["a"] = "text" /\ holds["b"] = "nothing"
  BY <1>1 DEF Files, Kinds
<1>6. \A f \in Files : PolyHolds(files[f], holds[f], text, options)
  <2>1. PolyHolds(files["a"], holds["a"], text, options)
    BY <1>3, <1>4, <1>5 DEF PolyHolds
  <2>2. PolyHolds(files["b"], holds["b"], text, options)
    BY <1>4, <1>5 DEF PolyHolds
  <2> QED
    BY <2>1, <2>2, Zenon DEF Files
<1> QED
  BY <1>1, <1>2, <1>3, <1>4, <1>5, <1>6, Zenon DEF PolyInv

\* A run that leaves what it says keeps the invariant.
LEMMA PolyLeaves ==
  ASSUME PolyInv, tool = "poly", NEW y \in Files, NEW out \in Seq(Ascii), NEW what \in Kinds,
         Leaves(y, out, what), PolyHolds(out, what, text, options)
  PROVE  PolyInv'
<1>1. /\ options \in PolyOptions /\ Accepted(options) /\ text \in Seq(Ascii)
      /\ files \in [Files -> Seq(Ascii)] /\ holds \in [Files -> Kinds]
      /\ \A f \in Files : PolyHolds(files[f], holds[f], text, options)
  BY Zenon DEF PolyInv
<1>2. /\ files' = [files EXCEPT ![y] = out] /\ holds' = [holds EXCEPT ![y] = what]
      /\ options' = options /\ text' = text
  BY Zenon DEF Leaves
<1>3. files' \in [Files -> Seq(Ascii)] /\ holds' \in [Files -> Kinds]
  BY <1>1, <1>2, Zenon
<1>4. ASSUME NEW f \in Files PROVE PolyHolds(files'[f], holds'[f], text, options)
  <2>1. CASE f = y
    BY <1>1, <1>2, <2>1, Zenon
  <2>2. CASE f # y
    BY <1>1, <1>2, <2>2, Zenon
  <2> QED
    BY <2>1, <2>2
<1> QED
  BY <1>1, <1>2, <1>3, <1>4, Zenon DEF PolyInv

\* Every run of hw1 -p keeps the invariant.
LEMMA PolyStep == PolyInv /\ [Next]_vars => PolyInv'
<1> SUFFICES ASSUME PolyInv, [Next]_vars, tool' = "poly" PROVE PolyInv'
  BY DEF PolyInv
<1>0. tool = "poly"
  BY NextKeeps
<1>1. /\ options \in PolyOptions /\ Accepted(options) /\ text \in Seq(Ascii)
      /\ files \in [Files -> Seq(Ascii)] /\ holds \in [Files -> Kinds]
      /\ \A f \in Files : PolyHolds(files[f], holds[f], text, options)
  BY <1>0, Zenon DEF PolyInv
<1>2. \/ UNCHANGED vars
      \/ \E x \in Files, y \in Files : \E begins \in BOOLEAN :
           Encrypt(x, y, begins) \/ Decrypt(x, y, begins)
  BY <1>0 DEF Next, Refuse, Convert, EncryptMorse, DecryptMorse
<1>3. CASE UNCHANGED vars
  BY <1>0, <1>1, <1>3, Zenon DEF vars, PolyInv
<1>4. ASSUME NEW x \in Files, NEW y \in Files, NEW begins \in BOOLEAN, Encrypt(x, y, begins)
      PROVE  PolyInv'
  <2>1. holds[x] \in {"text", "back"}
    BY <1>4, Zenon DEF Encrypt
  <2>2. PICK r \in {P!polyCipher(begins, TRUE, files[x], rows, columns, options.key)} :
          Leaves(y, r.out, IF r.success /\ begins THEN "cipher" ELSE "partial")
    BY <1>4, Zenon DEF Encrypt
  <2>3. files[x] = text
    BY <1>1, <2>1, Zenon DEF PolyHolds
  <2>4. r = P!polyCipher(begins, TRUE, text, P!OrDefault(options.rows),
                         P!OrDefault(options.columns), options.key)
    BY <2>2, <2>3, Zenon DEF rows, columns
  <2>5. Prints(r, text, options, begins)
    BY <1>1, <2>4, EncryptPrints, Zenon
  <2>6. CASE r.success /\ begins
    <3>1. Leaves(y, r.out, "cipher")
      BY <2>2, <2>6, Zenon
    <3>2. PolyHolds(r.out, "cipher", text, options)
      BY <2>5, <2>6 DEF PolyHolds, Prints
    <3>3. "cipher" \in Kinds
      BY DEF Kinds
    <3> QED
      BY <1>0, <2>5, <3>1, <3>2, <3>3, PolyLeaves, Zenon DEF Prints
  <2>7. CASE ~(r.success /\ begins)
    <3>1. Leaves(y, r.out, "partial")
      BY <2>2, <2>7, Zenon
    <3>2. PolyHolds(r.out, "partial", text, options)
      BY DEF PolyHolds
    <3>3. "partial" \in Kinds
      BY DEF Kinds
    <3> QED
      BY <1>0, <2>5, <3>1, <3>2, <3>3, PolyLeaves, Zenon DEF Prints
  <2> QED
    BY <2>6, <2>7, Zenon
<1>5. ASSUME NEW x \in Files, NEW y \in Files, NEW begins \in BOOLEAN, Decrypt(x, y, begins)
      PROVE  PolyInv'
  <2>1. holds[x] = "cipher" \/ ~HasRoom(options)
    BY <1>5, Zenon DEF Decrypt, HasRoom, rows, columns
  <2>2. PICK r \in {P!polyCipher(begins, FALSE, files[x], rows, columns, options.key)} :
          Leaves(y, r.out, IF r.success /\ begins THEN "back" ELSE "partial")
    BY <1>5, Zenon DEF Decrypt
  <2>3. IsCipher(files[x], text, options) \/ ~HasRoom(options)
    BY <1>1, <2>1, Zenon DEF PolyHolds
  <2>4. r = P!polyCipher(begins, FALSE, files[x], P!OrDefault(options.rows),
                         P!OrDefault(options.columns), options.key)
    BY <2>2, Zenon DEF rows, columns
  <2>5. Restores(r, text, begins)
    BY <1>1, <2>3, <2>4, DecryptRestores, Zenon
  <2>6. CASE r.success /\ begins
    <3>1. Leaves(y, r.out, "back")
      BY <2>2, <2>6, Zenon
    <3>2. PolyHolds(r.out, "back", text, options)
      BY <2>5, <2>6 DEF PolyHolds, Restores
    <3>3. "back" \in Kinds
      BY DEF Kinds
    <3> QED
      BY <1>0, <2>5, <3>1, <3>2, <3>3, PolyLeaves, Zenon DEF Restores
  <2>7. CASE ~(r.success /\ begins)
    <3>1. Leaves(y, r.out, "partial")
      BY <2>2, <2>7, Zenon
    <3>2. PolyHolds(r.out, "partial", text, options)
      BY DEF PolyHolds
    <3>3. "partial" \in Kinds
      BY DEF Kinds
    <3> QED
      BY <1>0, <2>5, <3>1, <3>2, <3>3, PolyLeaves, Zenon DEF Restores
  <2> QED
    BY <2>6, <2>7, Zenon
<1> QED
  BY <1>2, <1>3, <1>4, <1>5, Zenon

\* What -p -e has encrypted, -p -d restores, for all texts, all keys and all
\* sizes of the table (polybiuscipher.c, hw1.c).
THEOREM PolySurvives == Spec => []PolyRoundTrip
<1>1. PolyInv => PolyRoundTrip
  <2> SUFFICES ASSUME PolyInv, tool = "poly", NEW f \in Files, holds[f] = "back" PROVE files[f] = text
    BY Zenon DEF PolyRoundTrip
  <2>1. PolyHolds(files[f], holds[f], text, options)
    BY Zenon DEF PolyInv
  <2> QED
    BY <2>1, Zenon DEF PolyHolds
<1> QED
  BY PolyInit, PolyStep, <1>1, PTL DEF Spec
=============================================================================
