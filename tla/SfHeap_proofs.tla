---------------------------- MODULE SfHeap_proofs ----------------------------
(***************************************************************************)
(* What the operators of SfAllocator do to any heap, harmed or not, and    *)
(* that every heap keeps its type.  Then the free lists and the blocks of  *)
(* a heap without harm: what it means that a list is exact and that the    *)
(* blocks tile the heap, and that the steps of sf_malloc and sf_free keep  *)
(* it.                                                                     *)
(***************************************************************************)
EXTENDS SfAllocator, FiniteSetTheorems, SequenceTheorems, NaturalsInduction,
        WellFoundedInduction, TLAPS

-----------------------------------------------------------------------------
(* Loops along a list of blocks *)

\* A set of natural numbers that is not empty has a least element.
LEMMA LeastOf ==
  ASSUME NEW S \in SUBSET Nat, S # {}
  PROVE  Min(S) \in S /\ \A n \in S : Min(S) <= n
<1>1. PICK m \in S : \A n \in S : ~ (<<n, m>> \in OpToRel(<, Nat))
  BY NatLessThanWellFounded, WFMin
<1>2. \A n \in S : m <= n
  <2> TAKE n \in S
  <2>1. ~(n < m)
    BY <1>1 DEF OpToRel
  <2> QED
    BY <2>1
<1> QED
  BY <1>2, Zenon DEF Min

\* The first n + 1 values of an iteration from x.
Upto(S, next, x, n) ==
  {g \in [0 .. n -> S] : g[0] = x /\ \A i \in 0 .. n - 1 : g[i + 1] = next[g[i]]}

\* A function from Nat that starts at x and goes on with next.
IsRun(f, S, next, x) ==
  f \in [Nat -> S] /\ f[0] = x /\ \A n \in Nat : f[n + 1] = next[f[n]]

LEMMA Iteration ==
  ASSUME NEW S, NEW next \in [S -> S], NEW x \in S
  PROVE  \E f : IsRun(f, S, next, x)
<1> DEFINE Bad == {n \in Nat : Upto(S, next, x, n) = {}}
<1>1. Bad = {}
  <2> SUFFICES ASSUME Bad # {} PROVE FALSE
    OBVIOUS
  <2>1. PICK n \in Bad : \A m \in Bad : n <= m
    BY LeastOf
  <2>2. CASE n = 0
    <3>1. [i \in 0 .. 0 |-> x] \in Upto(S, next, x, 0)
      BY DEF Upto
    <3> QED
      BY <2>1, <2>2, <3>1
  <2>3. CASE n # 0
    <3>0. n \in Nat /\ n - 1 \in Nat /\ n - 1 \notin Bad
      BY <2>1, <2>3
    <3>1. PICK g \in Upto(S, next, x, n - 1) : TRUE
      BY <3>0
    <3>2. g \in [0 .. n - 1 -> S] /\ g[0] = x
          /\ \A i \in 0 .. (n - 1) - 1 : g[i + 1] = next[g[i]]
      BY <3>1 DEF Upto
    <3> DEFINE h == [i \in 0 .. n |-> IF i = n THEN next[g[n - 1]] ELSE g[i]]
    <3>3. h \in [0 .. n -> S] /\ h[0] = x
      BY <2>3, <3>0, <3>2
    <3>4. ASSUME NEW i \in 0 .. n - 1 PROVE h[i + 1] = next[h[i]]
      BY <3>0, <3>2
    <3>5. h \in Upto(S, next, x, n)
      BY <3>3, <3>4 DEF Upto
    <3> QED
      BY <2>1, <3>5
  <2> QED
    BY <2>2, <2>3
<1>2. ASSUME NEW n \in Nat, NEW g \in Upto(S, next, x, n),
             NEW m \in Nat, NEW h \in Upto(S, next, x, m), NEW i \in Nat, i <= n, i <= m
      PROVE  g[i] = h[i]
  <2> DEFINE D == {j \in Nat : j <= n /\ j <= m /\ g[j] # h[j]}
  <2>0. /\ g[0] = x /\ \A j \in 0 .. n - 1 : g[j + 1] = next[g[j]]
        /\ h[0] = x /\ \A j \in 0 .. m - 1 : h[j + 1] = next[h[j]]
    BY DEF Upto
  <2>1. D = {}
    <3> SUFFICES ASSUME D # {} PROVE FALSE
      OBVIOUS
    <3>1. PICK j \in D : \A k \in D : j <= k
      BY LeastOf
    <3>2. j # 0 /\ j - 1 \in Nat /\ j - 1 \notin D
      BY <2>0, <3>1
    <3>3. g[j - 1] = h[j - 1]
      BY <3>1, <3>2
    <3>4. g[(j - 1) + 1] = next[g[j - 1]] /\ h[(j - 1) + 1] = next[h[j - 1]]
      BY <2>0, <3>1, <3>2
    <3>5. (j - 1) + 1 = j
      BY <3>1
    <3> QED
      BY <3>1, <3>3, <3>4, <3>5
  <2> QED
    BY <1>2, <2>1
<1> DEFINE c == [n \in Nat |-> CHOOSE g : g \in Upto(S, next, x, n)]
           f == [n \in Nat |-> c[n][n]]
<1>3. ASSUME NEW n \in Nat PROVE c[n] \in Upto(S, next, x, n)
  <2>1. \E g : g \in Upto(S, next, x, n)
    BY <1>1
  <2> QED
    BY <2>1, Zenon
<1> HIDE DEF c
<1>4. f \in [Nat -> S] /\ f[0] = x
  <2>1. \A n \in Nat : c[n] \in [0 .. n -> S] /\ c[n][0] = x
    BY <1>3 DEF Upto
  <2> QED
    BY <2>1
<1>5. ASSUME NEW n \in Nat PROVE f[n + 1] = next[f[n]]
  <2>1. c[n + 1][n + 1] = next[c[n + 1][n]]
    <3>1. c[n + 1] \in Upto(S, next, x, n + 1)
      BY <1>3
    <3> QED
      BY <3>1 DEF Upto
  <2>2. c[n + 1][n] = c[n][n]
    BY <1>2, <1>3
  <2> QED
    BY <2>1, <2>2
<1>6. IsRun(f, S, next, x)
  BY <1>4, <1>5 DEF IsRun
<1> QED
  BY <1>6

\* Induction, for a set of natural numbers.
LEMMA Induction ==
  ASSUME NEW S \in SUBSET Nat, 0 \in S, \A n \in S : n + 1 \in S
  PROVE  S = Nat
<1> DEFINE D == Nat \ S
<1>1. SUFFICES ASSUME D # {} PROVE FALSE
  OBVIOUS
<1>2. PICK n \in D : \A m \in D : n <= m
  BY <1>1, LeastOf
<1>3. n # 0 /\ n - 1 \in Nat /\ n - 1 \notin D
  BY <1>2
<1>4. (n - 1) + 1 \in S
  BY <1>2, <1>3
<1> QED
  BY <1>2, <1>4

\* A loop from w on to on[w], until it is in Stop, is well defined when each turn adds to
\* a rank that is n at most.
IsLoop(f, W, Stop, on) == f = [w \in W |-> IF w \in Stop THEN w ELSE f[on[w]]]

LEMMA LoopDefined ==
  ASSUME NEW W, NEW Stop \in SUBSET W, NEW on \in [W -> W], NEW rank \in [W -> Nat], NEW n \in Nat,
         \A w \in W \ Stop : rank[on[w]] = rank[w] + 1,
         \A w \in W : rank[w] > n => w \in Stop
  PROVE  \E f : IsLoop(f, W, Stop, on)
<1> DEFINE next == [w \in W |-> IF w \in Stop THEN w ELSE on[w]]
<1>1. next \in [W -> W] /\ \A w \in W : next[w] = IF w \in Stop THEN w ELSE on[w]
  OBVIOUS
<1> HIDE DEF next
<1>2. ASSUME NEW w \in W
      PROVE  \E g : IsRun(g, W, next, w)
  <2>1. next \in [W -> W]
    BY <1>1
  <2> QED
    BY <2>1, Iteration
<1> DEFINE run == [w \in W |-> CHOOSE g : IsRun(g, W, next, w)]
           f == [w \in W |-> run[w][n + 1]]
<1>3. ASSUME NEW w \in W
      PROVE  run[w] \in [Nat -> W] /\ run[w][0] = w /\ \A k \in Nat : run[w][k + 1] = next[run[w][k]]
  <2>1. IsRun(run[w], W, next, w)
    BY <1>2, Zenon
  <2> QED
    BY <2>1 DEF IsRun
<1> HIDE DEF run
<1>4. ASSUME NEW w \in Stop PROVE f[w] = w
  <2>0. run[w] \in [Nat -> W] /\ run[w][0] = w /\ \A k \in Nat : run[w][k + 1] = next[run[w][k]]
    BY <1>3
  <2> DEFINE S == {k \in Nat : run[w][k] = w}
  <2>1. 0 \in S /\ \A k \in S : k + 1 \in S
    BY <1>1, <2>0
  <2>2. S = Nat
    BY <2>1, Induction
  <2> QED
    BY <2>2
<1>5. ASSUME NEW w \in W, w \notin Stop PROVE f[w] = f[on[w]]
  <2>0. run[w] \in [Nat -> W] /\ run[w][0] = w /\ \A k \in Nat : run[w][k + 1] = next[run[w][k]]
    BY <1>3
  <2>1. PICK v \in W : v = on[w]
    OBVIOUS
  <2>2. run[v] \in [Nat -> W] /\ run[v][0] = v /\ \A k \in Nat : run[v][k + 1] = next[run[v][k]]
    BY <1>3
  <2> DEFINE S == {k \in Nat : run[v][k] = run[w][k + 1]}
             L == {k \in Nat : run[w][k] \in Stop \/ rank[run[w][k]] >= k}
  <2>3. S = Nat
    <3>1. run[w][0 + 1] = next[run[w][0]]
      BY <2>0
    <3>2. 0 \in S
      BY <1>1, <1>5, <2>0, <2>1, <2>2, <3>1
    <3>3. ASSUME NEW k \in S PROVE k + 1 \in S
      BY <2>0, <2>2, <3>3
    <3> QED
      BY <3>2, <3>3, Induction, Zenon
  <2>4. L = Nat
    <3>1. 0 \in L
      BY <2>0
    <3>2. ASSUME NEW k \in L PROVE k + 1 \in L
      BY <1>1, <2>0, <3>2
    <3> QED
      BY <3>1, <3>2, Induction, Zenon
  <2>5. run[w][n + 1] \in Stop
    <3>1. n + 1 \in L
      BY <2>4
    <3>2. run[w][n + 1] \in W /\ n + 1 > n
      BY <2>0
    <3>3. run[w][n + 1] \in Stop \/ rank[run[w][n + 1]] > n
      BY <3>1, <3>2
    <3> QED
      BY <3>2, <3>3
  <2>6. run[w][(n + 1) + 1] = run[w][n + 1]
    BY <1>1, <2>0, <2>5
  <2> QED
    BY <2>1, <2>3, <2>6
<1>6. IsLoop(f, W, Stop, on)
  BY <1>4, <1>5 DEF IsLoop
<1> QED
  BY <1>6, Zenon

-----------------------------------------------------------------------------
(* Words, and the types of heaps *)

Extent == 0 .. 4 * PAGE_SZ
Evens == {2 * k : k \in 0 .. 2 * PAGE_SZ}
Tags == [alloc : 0 .. 1, padded : 0 .. 1, size : Evens, req : Extent]
Cells == [of : Users \cup {NoUser}] \cup [at : Address] \cup Tags

HeapType(H) ==
  /\ H \in [mem : Seq(Cells), heads : [Lists -> Int], fresh : {Zero, Data(NoUser)}, lost : BOOLEAN]
  /\ Len(H.mem) \in {k * PAGE_SZ : k \in 0 .. 4}
  /\ H.lost => H.mem = <<>>
  /\ ~H.lost => H.heads \in [Lists -> Address \ {Wild}]

\* The page and the lists' limits are even, and no less than the smallest block.
LEMMA Page ==
  /\ PAGE_SZ \in Nat /\ PAGE_SZ >= 4 /\ \E k \in Nat : PAGE_SZ = 2 * k
  /\ LIST_1_MAX \in Nat /\ LIST_2_MAX \in Nat /\ LIST_3_MAX \in Nat
  /\ LIST_1_MAX >= 4
BY SizesAssumption

LEMMA AddressInt == Address \subseteq Int /\ Null \in Address /\ Wild \in Address /\ Null # Wild
BY Page DEF Address, Null, Wild

LEMMA EvensAre == \A n \in Evens : n \in Nat /\ n <= 4 * PAGE_SZ /\ \E k \in Nat : n = 2 * k
BY Page DEF Evens

LEMMA EvenIn ==
  ASSUME NEW n \in Int, 0 <= n, n <= 4 * PAGE_SZ, NEW k \in Int, n = 2 * k
  PROVE  n \in Evens
BY Page DEF Evens

LEMMA CellKinds ==
  /\ Zero \in Tags /\ NoTag \notin Tags
  /\ \A w \in Cells : ("size" \in DOMAIN w <=> w \in Tags) /\ ("at" \in DOMAIN w <=> w \in [at : Address])
<1>1. Zero \in Tags
  BY Page DEF Zero, Tag, Tags, Evens, Extent
<1>2. NoTag \notin Tags
  <2>1. NoTag.alloc < 0
    BY Page DEF NoTag, Tag, Wild
  <2> QED
    BY <2>1 DEF Tags
<1>3. ASSUME NEW w \in Cells PROVE "size" \in DOMAIN w <=> w \in Tags
  BY DEF Cells, Tags
<1>4. ASSUME NEW w \in Cells PROVE "at" \in DOMAIN w <=> w \in [at : Address]
  BY DEF Cells, Tags
<1> QED
  BY <1>1, <1>2, <1>3, <1>4

\* The memory of a heap.
LEMMA MemType ==
  ASSUME NEW H, HeapType(H)
  PROVE  /\ Len(H.mem) \in Nat /\ DOMAIN H.mem = 1 .. Len(H.mem) /\ Len(H.mem) <= 4 * PAGE_SZ
         /\ \E k \in Nat : Len(H.mem) = 2 * k
         /\ \A a \in DOMAIN H.mem : a \in 1 .. 4 * PAGE_SZ /\ H.mem[a] \in Cells
         /\ H.mem \in Seq(Cells) /\ H.lost \in BOOLEAN
<1>1. H.mem \in Seq(Cells) /\ H.lost \in BOOLEAN
  BY DEF HeapType
<1>2. PICK k \in 0 .. 4 : Len(H.mem) = k * PAGE_SZ
  BY DEF HeapType
<1>3. PICK h \in Nat : PAGE_SZ = 2 * h
  BY Page
<1>4. k \in {0, 1, 2, 3, 4}
  BY <1>2
<1>5. Len(H.mem) <= 4 * PAGE_SZ /\ \E j \in Nat : Len(H.mem) = 2 * j
  <2>1. k * PAGE_SZ <= 4 * PAGE_SZ /\ k * PAGE_SZ = 2 * (k * h) /\ k * h \in Nat
    BY <1>3, <1>4, Page
  <2> QED
    BY <1>2, <2>1
<1> QED
  BY <1>1, <1>5, Page

\* What a word of the heap is.
LEMMA WordType ==
  ASSUME NEW H, HeapType(H), NEW a
  PROVE  /\ Word(H, a) \in Cells
         /\ a \in DOMAIN H.mem => Word(H, a) = H.mem[a]
         /\ TagAt(H, a) \in Tags \cup {NoTag}
         /\ SizeAt(H, a) \in Int
         /\ TagAt(H, a) # NoTag => /\ a \in DOMAIN H.mem /\ TagAt(H, a) = H.mem[a]
                                   /\ TagAt(H, a) \in Tags /\ SizeAt(H, a) \in Evens
         /\ a \in DOMAIN H.mem /\ H.mem[a] \in Tags => TagAt(H, a) = H.mem[a] /\ TagAt(H, a) # NoTag
         /\ a \notin DOMAIN H.mem => TagAt(H, a) = NoTag
<1>0. Data(NoUser) \in Cells /\ Data(NoUser) \notin Tags
  BY DEF Data, Cells, Tags
<1>1. Word(H, a) \in Cells /\ (a \in DOMAIN H.mem => Word(H, a) = H.mem[a])
  BY <1>0, MemType DEF Word
<1>2. TagAt(H, a) = IF Word(H, a) \in Tags THEN Word(H, a) ELSE NoTag
  BY <1>1, CellKinds DEF TagAt
<1>3. a \notin DOMAIN H.mem => Word(H, a) = Data(NoUser)
  BY DEF Word
<1>4. NoTag.size \in Int /\ \A w \in Tags : w.size \in Evens /\ w.size \in Int
  BY Page, EvensAre DEF NoTag, Tag, Wild, Tags
<1> QED
  BY <1>0, <1>1, <1>2, <1>3, <1>4, CellKinds DEF SizeAt

LEMMA PointerType ==
  ASSUME NEW H, HeapType(H), NEW a
  PROVE  Pointer(H, a) \in Address /\ NextOf(H, a) \in Address /\ PrevOf(H, a) \in Address
<1>1. ASSUME NEW b PROVE Pointer(H, b) \in Address
  BY WordType, CellKinds, AddressInt DEF Pointer
<1> QED
  BY <1>1 DEF NextOf, PrevOf

LEMMA LostType == HeapType(LostHeap)
<1>1. <<>> \in Seq(Cells) /\ Len(<<>>) = 0 /\ 0 = 0 * PAGE_SZ
  BY Page
<1>2. [i \in 0 .. 3 |-> Null] \in [Lists -> Int]
  BY AddressInt DEF Lists
<1> QED
  BY <1>1, <1>2 DEF LostHeap, HeapType

\* A word is written, or the program goes astray.
LEMMA SetWord ==
  ASSUME NEW H, HeapType(H), NEW a, NEW w \in Cells
  PROVE  /\ HeapType(Set(H, a, w))
         /\ a \notin DOMAIN H.mem => Set(H, a, w) = LostHeap
         /\ a \in DOMAIN H.mem =>
              /\ Set(H, a, w).mem \in [DOMAIN H.mem -> Cells]
              /\ DOMAIN Set(H, a, w).mem = DOMAIN H.mem
              /\ Len(Set(H, a, w).mem) = Len(H.mem)
              /\ Set(H, a, w).mem[a] = w
              /\ \A b \in DOMAIN H.mem \ {a} : Set(H, a, w).mem[b] = H.mem[b]
              /\ Set(H, a, w).heads = H.heads /\ Set(H, a, w).fresh = H.fresh
              /\ Set(H, a, w).lost = H.lost
<1>1. CASE a \notin DOMAIN H.mem
  BY <1>1, LostType DEF Set
<1>2. CASE a \in DOMAIN H.mem
  <2> DEFINE m == [H.mem EXCEPT ![a] = w]
             G == [H EXCEPT !.mem = m]
  <2>1. H.mem \in Seq(Cells) /\ a \in 1 .. Len(H.mem)
    BY <1>2, MemType
  <2>2. m \in Seq(Cells) /\ Len(m) = Len(H.mem) /\ DOMAIN m = DOMAIN H.mem
    BY <2>1
  <2>3. m[a] = w /\ \A b \in DOMAIN H.mem \ {a} : m[b] = H.mem[b]
    BY <1>2
  <2> HIDE DEF m
  <2>4. /\ G.mem = m /\ G.heads = H.heads /\ G.fresh = H.fresh /\ G.lost = H.lost
        /\ G \in [mem : Seq(Cells), heads : [Lists -> Int], fresh : {Zero, Data(NoUser)},
                  lost : BOOLEAN]
    BY <2>2 DEF HeapType
  <2>5. H.lost => H.mem = <<>>
    BY DEF HeapType
  <2>6. ~H.lost
    BY <1>2, <2>1, <2>5
  <2>7. Set(H, a, w) = G
    BY <1>2 DEF Set, m
  <2>8. HeapType(G)
    BY <2>2, <2>4, <2>6 DEF HeapType
  <2>9. m \in [DOMAIN H.mem -> Cells]
    BY <2>2, MemType
  <2> HIDE DEF G
  <2> QED
    BY <1>2, <2>2, <2>3, <2>4, <2>7, <2>8, <2>9
<1> QED
  BY <1>1, <1>2

\* The links, tags and heads that are written.
LEMMA PtrType == \A a \in Address : Ptr(a) \in Cells
BY CellKinds DEF Ptr, Cells

\* A call goes from heap H to heap G: astray, or the memory stays as long as it is.
Onto(H, G) ==
  /\ HeapType(G)
  /\ H.lost => G.lost
  /\ ~G.lost => DOMAIN G.mem = DOMAIN H.mem /\ G.fresh = H.fresh

LEMMA OntoTrans ==
  \A G, H, K : Onto(G, H) /\ Onto(H, K) => Onto(G, K)
BY DEF Onto

LEMMA LostOnto == \A H : Onto(H, LostHeap)
BY LostType DEF Onto, LostHeap

LEMMA SetOnto ==
  ASSUME NEW H, HeapType(H), NEW a, NEW w, H.lost \/ a \notin DOMAIN H.mem \/ w \in Cells
  PROVE  Onto(H, Set(H, a, w)) /\ (~Set(H, a, w).lost => a \in DOMAIN H.mem)
<1>1. CASE a \notin DOMAIN H.mem
  BY <1>1, LostOnto DEF Set, LostHeap
<1>2. CASE a \in DOMAIN H.mem
  <2>1. ~H.lost
    BY <1>2, MemType DEF HeapType
  <2> QED
    BY <1>2, <2>1, SetWord DEF Onto
<1> QED
  BY <1>1, <1>2

LEMMA SetTagOnto ==
  ASSUME NEW H, HeapType(H), NEW a, NEW w, TagAt(H, a) # NoTag => w \in Tags
  PROVE  Onto(H, SetTag(H, a, w)) /\ (~SetTag(H, a, w).lost => TagAt(H, a) # NoTag)
<1>1. CASE TagAt(H, a) = NoTag
  BY <1>1, LostOnto DEF SetTag, LostHeap
<1>2. CASE TagAt(H, a) # NoTag
  BY <1>2, SetOnto DEF SetTag, Cells
<1> QED
  BY <1>1, <1>2

LEMMA SetLinkOnto ==
  ASSUME NEW H, HeapType(H), NEW a, NEW b, H.lost \/ b \in Address
  PROVE  Onto(H, SetNext(H, a, b)) /\ Onto(H, SetPrev(H, a, b))
BY SetOnto, PtrType DEF SetNext, SetPrev

LEMMA SetHeadOnto ==
  ASSUME NEW H, HeapType(H), NEW i, i \in Lists, NEW a, a \in Int, H.lost \/ a \in Address \ {Wild}
  PROVE  Onto(H, SetHead(H, i, a))
<1> DEFINE g == [H.heads EXCEPT ![i] = a]
           G == [H EXCEPT !.heads = g]
<1>1. g \in [Lists -> Int] /\ (~H.lost => g \in [Lists -> Address \ {Wild}])
  BY DEF HeapType
<1> HIDE DEF g
<1>2. /\ G.mem = H.mem /\ G.heads = g /\ G.fresh = H.fresh /\ G.lost = H.lost
      /\ G \in [mem : Seq(Cells), heads : [Lists -> Int], fresh : {Zero, Data(NoUser)},
                lost : BOOLEAN]
  BY <1>1 DEF HeapType
<1>3. SetHead(H, i, a) = G
  BY DEF SetHead, g
<1> HIDE DEF G
<1>4. HeapType(G)
  BY <1>1, <1>2 DEF HeapType
<1> QED
  BY <1>2, <1>3, <1>4 DEF Onto

LEMMA NullAddress == Null \in Int /\ Null \in Address \ {Wild}
BY AddressInt

-----------------------------------------------------------------------------
(* Blocks and lists keep the type *)

LEMMA NeedIs ==
  ASSUME NEW s \in Nat
  PROVE  /\ Need(s) \in Nat /\ Need(s) >= s + 2 /\ Need(s) <= s + 3
         /\ s % 2 \in 0 .. 1 /\ Need(s) = s + 2 + (s % 2)
         /\ \E k \in Nat : Need(s) = 2 * k
         /\ s > 0 => Need(s) >= 4
<1>1. s % 2 \in 0 .. 1 /\ s = 2 * (s \div 2) + (s % 2) /\ s \div 2 \in Nat
  OBVIOUS
<1>2. PICK q \in Nat, r \in 0 .. 1 : q = s \div 2 /\ r = s % 2 /\ s = 2 * q + r
  BY <1>1
<1>3. Need(s) = s + 2 + r
  BY <1>2 DEF Need
<1>4. Need(s) = 2 * (1 + q + r) /\ 1 + q + r \in Nat
  BY <1>2, <1>3
<1>5. s > 0 => s + r >= 2
  BY <1>2
<1>6. s + r >= 2 => Need(s) >= 4
  BY <1>2, <1>3
<1>7. Need(s) \in Nat /\ Need(s) >= s + 2 /\ Need(s) <= s + 3
  BY <1>2, <1>3
<1> QED
  BY <1>2, <1>3, <1>4, <1>5, <1>6, <1>7, Zenon

LEMMA NeedEven ==
  ASSUME NEW s \in Nat, s + 2 <= 4 * PAGE_SZ
  PROVE  Need(s) \in Evens
<1>1. PICK k \in Nat : Need(s) = 2 * k
  BY NeedIs
<1>2. Need(s) <= s + 3
  BY NeedIs
<1>3. PICK h \in Nat : PAGE_SZ = 2 * h
  BY Page
<1>4. 2 * k <= 8 * h + 1
  BY <1>1, <1>2, <1>3
<1>5. k <= 4 * h
  BY <1>4
<1> QED
  BY <1>1, <1>3, <1>5 DEF Evens

\* An even number of words is left of one when another is taken.
LEMMA EvenLeft ==
  ASSUME NEW m \in Evens, NEW n \in Nat, NEW k \in Nat, n = 2 * k
  PROVE  m - n < 0 \/ m - n \in Evens
<1>1. PICK j \in Nat : m = 2 * j /\ m <= 4 * PAGE_SZ
  BY EvensAre
<1>2. m - n = 2 * (j - k)
  BY <1>1
<1>3. CASE j - k >= 0
  BY <1>1, <1>2, <1>3, Page, EvenIn
<1> QED
  BY <1>1, <1>2, <1>3

-----------------------------------------------------------------------------
(* Walks along blocks *)

NonEmpty == Seq(Int) \ {<<>>}

\* A walk from a: each address it leaves has a tag, and it ends at one that has none,
\* or when it has met more addresses than the heap has words.
IsWalk(H, step, a, w) ==
  /\ w \in NonEmpty /\ w[1] = a /\ Len(w) <= Len(H.mem) + 1
  /\ \A j \in 1 .. Len(w) - 1 : TagAt(H, w[j]) # NoTag /\ w[j + 1] = step[w[j]]

LEMMA WalkIs ==
  ASSUME NEW H, HeapType(H), NEW step \in [Int -> Int], NEW a \in Int,
         NEW w, w = Walk(H, step, a)
  PROVE  /\ IsWalk(H, step, a, w)
         /\ Len(w) = Len(H.mem) + 1 \/ TagAt(H, w[Len(w)]) = NoTag
<1> DEFINE n == Len(H.mem)
           Stop == {v \in NonEmpty : Len(v) > n \/ TagAt(H, v[Len(v)]) = NoTag}
           on == [v \in NonEmpty |-> Append(v, step[v[Len(v)]])]
           rank == [v \in NonEmpty |-> Len(v)]
<1>0. n \in Nat
  BY MemType
<1>1. ASSUME NEW v \in NonEmpty
      PROVE  Len(v) \in Nat \ {0} /\ Append(v, step[v[Len(v)]]) \in NonEmpty
             /\ Len(Append(v, step[v[Len(v)]])) = Len(v) + 1
  <2>1. v \in Seq(Int) /\ Len(v) \in Nat \ {0}
    BY EmptySeq DEF NonEmpty
  <2>2. v[Len(v)] \in Int
    BY <2>1
  <2>3. PICK e \in Int : e = step[v[Len(v)]]
    BY <2>2
  <2>4. Append(v, e) \in Seq(Int) /\ Len(Append(v, e)) = Len(v) + 1
    BY <2>1
  <2>5. Append(v, e) # <<>>
    <3>1. Len(Append(v, e)) # Len(<<>>)
      BY <2>1, <2>4
    <3> QED
      BY <3>1, Zenon
  <2> QED
    BY <2>1, <2>3, <2>4, <2>5 DEF NonEmpty
<1>2. \E f : IsLoop(f, NonEmpty, Stop, on)
  <2>1. Stop \in SUBSET NonEmpty /\ on \in [NonEmpty -> NonEmpty] /\ rank \in [NonEmpty -> Nat]
    BY <1>1
  <2>2. /\ \A v \in NonEmpty \ Stop : rank[on[v]] = rank[v] + 1
        /\ \A v \in NonEmpty : rank[v] > n => v \in Stop
    BY <1>1
  <2> HIDE DEF Stop, on, rank, n
  <2> QED
    BY <1>0, <2>1, <2>2, LoopDefined, Zenon
<1> DEFINE Solves(f) == f = [v \in NonEmpty |-> IF Len(v) > n \/ TagAt(H, v[Len(v)]) = NoTag THEN v
                                                ELSE f[Append(v, step[v[Len(v)]])]]
           met == CHOOSE f : Solves(f)
<1>3. Solves(met)
  <2>1. PICK f : IsLoop(f, NonEmpty, Stop, on)
    BY <1>2
  <2>2. Solves(f)
    BY <2>1 DEF IsLoop
  <2> QED
    BY <2>2, Zenon
<1>4. w = met[<<a>>]
  BY Zenon DEF Walk, Last, NonEmpty
<1> HIDE DEF met
<1>x. ASSUME NEW v \in NonEmpty
      PROVE  /\ Len(v) > n => v \in Stop
             /\ v \notin Stop => Len(v) <= n /\ TagAt(H, v[Len(v)]) # NoTag
             /\ v \in Stop => Len(v) > n \/ TagAt(H, v[Len(v)]) = NoTag
  <2>0. Len(v) \in Nat
    BY <1>1
  <2>1. v \in Stop <=> (Len(v) > n \/ TagAt(H, v[Len(v)]) = NoTag)
    BY Zenon
  <2> HIDE DEF Stop
  <2>2. Len(v) > n => v \in Stop
    BY <2>1
  <2>3. v \in Stop => (Len(v) > n \/ TagAt(H, v[Len(v)]) = NoTag)
    BY <2>1
  <2>4. v \notin Stop => TagAt(H, v[Len(v)]) # NoTag
    BY <2>1
  <2>5. v \notin Stop => Len(v) <= n
    <3>1. PICK x \in Nat, y \in Nat : x = Len(v) /\ y = n
      BY <1>0, <2>0
    <3>2. ~(x > y) => x <= y
      OBVIOUS
    <3> HIDE DEF n
    <3> QED
      BY <2>1, <3>1, <3>2
  <2> QED
    BY <2>2, <2>3, <2>4, <2>5
<1>5. ASSUME NEW v \in NonEmpty
      PROVE  met[v] = IF v \in Stop THEN v ELSE met[on[v]]
  BY <1>3
<1> HIDE DEF Stop
<1>6. ASSUME NEW v \in NonEmpty, IsWalk(H, step, a, v), v \notin Stop
      PROVE  IsWalk(H, step, a, on[v]) /\ Len(on[v]) = Len(v) + 1
  <2>1. v \in Seq(Int) /\ Len(v) \in Nat \ {0} /\ on[v] \in NonEmpty /\ Len(on[v]) = Len(v) + 1
    BY <1>1 DEF NonEmpty
  <2>2. \A j \in 1 .. Len(v) : on[v][j] = v[j]
    BY <2>1
  <2>3. on[v][Len(v) + 1] = step[v[Len(v)]]
    BY <2>1
  <2>4. Len(v) <= n /\ TagAt(H, v[Len(v)]) # NoTag
    BY <1>0, <1>6, <1>x, <2>1 DEF IsWalk
  <2>5. ASSUME NEW j \in 1 .. Len(on[v]) - 1
        PROVE  TagAt(H, on[v][j]) # NoTag /\ on[v][j + 1] = step[on[v][j]]
    <3>1. CASE j = Len(v)
      BY <2>1, <2>2, <2>3, <2>4, <3>1
    <3>2. CASE j # Len(v)
      <4>1. j \in 1 .. Len(v) - 1 /\ j + 1 \in 1 .. Len(v) /\ j \in 1 .. Len(v)
        BY <2>1, <3>2
      <4> HIDE DEF on
      <4> QED
        BY <1>6, <2>2, <4>1 DEF IsWalk
    <3> QED
      BY <3>1, <3>2
  <2>6. on[v][1] = a
    BY <1>6, <2>1, <2>2 DEF IsWalk
  <2> HIDE DEF on
  <2> QED
    BY <1>0, <2>1, <2>4, <2>5, <2>6 DEF IsWalk
<1> DEFINE S == {k \in Nat : \A v \in NonEmpty :
                   IsWalk(H, step, a, v) /\ Len(v) + k = n + 1 =>
                     IsWalk(H, step, a, met[v]) /\ met[v] \in Stop}
<1>7. S = Nat
  <2>1. 0 \in S
    <3> SUFFICES ASSUME NEW v \in NonEmpty, IsWalk(H, step, a, v), Len(v) = n + 1
                 PROVE  IsWalk(H, step, a, met[v]) /\ met[v] \in Stop
      BY <1>0, <1>1
    <3>1. v \in Stop
      BY <1>0, <1>x
    <3> QED
      BY <1>5, <3>1
  <2>2. ASSUME NEW k \in S PROVE k + 1 \in S
    <3> SUFFICES ASSUME NEW v \in NonEmpty, IsWalk(H, step, a, v), Len(v) + (k + 1) = n + 1
                 PROVE  IsWalk(H, step, a, met[v]) /\ met[v] \in Stop
      OBVIOUS
    <3>1. CASE v \in Stop
      BY <1>5, <3>1
    <3>2. CASE v \notin Stop
      <4>1. IsWalk(H, step, a, on[v]) /\ Len(on[v]) = Len(v) + 1 /\ on[v] \in NonEmpty
        BY <1>1, <1>6, <3>2
      <4>2. Len(on[v]) + k = n + 1
        BY <1>0, <1>1, <4>1
      <4> QED
        BY <1>5, <2>2, <3>2, <4>1, <4>2
    <3> QED
      BY <3>1, <3>2
  <2> QED
    BY <2>1, <2>2, Induction, Zenon
<1>8. <<a>> \in NonEmpty /\ Len(<<a>>) = 1 /\ IsWalk(H, step, a, <<a>>)
  BY <1>0 DEF NonEmpty, IsWalk
<1>9. IsWalk(H, step, a, w) /\ w \in Stop
  <2>0. n \in S
    BY <1>0, <1>7
  <2>1. n \in S /\ Len(<<a>>) + n = n + 1
    BY <1>0, <2>0, <1>8
  <2> QED
    BY <1>4, <1>8, <2>1
<1> QED
  <2>1. w \in NonEmpty /\ Len(w) <= n + 1 /\ Len(w) \in Nat
    BY <1>1, <1>9 DEF IsWalk
  <2>2. Len(w) > n \/ TagAt(H, w[Len(w)]) = NoTag
    BY <1>9, <1>x, <2>1
  <2>3. Len(w) > n => Len(w) = n + 1
    <3>1. PICK l \in Nat, m \in Nat : l = Len(w) /\ m = n
      BY <1>0, <2>1
    <3>2. l <= m + 1
      BY <2>1, <3>1
    <3> HIDE DEF n
    <3> QED
      BY <3>1, <3>2
  <2> QED
    BY <1>9, <2>2, <2>3

LEMMA ChainIs ==
  ASSUME NEW H, HeapType(H), NEW a \in Int, NEW w, w = Chain(H, a)
  PROVE  /\ IsWalk(H, [b \in Int |-> NextOf(H, b)], a, w)
         /\ Len(w) = Len(H.mem) + 1 \/ TagAt(H, w[Len(w)]) = NoTag
         /\ w \in Seq(Int)
<1>1. [b \in Int |-> NextOf(H, b)] \in [Int -> Int]
  BY PointerType, AddressInt
<1>2. w = Walk(H, [b \in Int |-> NextOf(H, b)], a)
  BY DEF Chain
<1>3. /\ IsWalk(H, [b \in Int |-> NextOf(H, b)], a, w)
      /\ Len(w) = Len(H.mem) + 1 \/ TagAt(H, w[Len(w)]) = NoTag
  BY <1>1, <1>2, WalkIs, Zenon
<1> QED
  BY <1>3 DEF IsWalk, NonEmpty

\* Where a loop stops that looks in the list behind a for a block of the set S.
Hits(H, w, S) == {i \in 1 .. Len(w) : w[i] = Null \/ (TagAt(H, w[i]) # NoTag /\ w[i] \in S)}
SeekSet(H, w, S) == IF Hits(H, w, S) = {} THEN Wild ELSE w[Min(Hits(H, w, S))]
OfSize(H, n) == {b \in Int : SizeAt(H, b) = n}
AtLeast(H, n) == {b \in Int : SizeAt(H, b) >= n}

LEMMA SeekIs ==
  ASSUME NEW H, HeapType(H), NEW a \in Int, NEW n
  PROVE  /\ SeekSize(H, a, n) = SeekSet(H, Chain(H, a), OfSize(H, n))
         /\ Seek(H, a, LAMBDA b : SizeAt(H, b) >= n) = SeekSet(H, Chain(H, a), AtLeast(H, n))
<1>1. PICK w \in Seq(Int) : w = Chain(H, a)
  BY ChainIs
<1>2. \A i \in 1 .. Len(w) : w[i] \in Int
  OBVIOUS
<1> DEFINE I == {i \in 1 .. Len(w) : w[i] = Null \/ (TagAt(H, w[i]) # NoTag /\ SizeAt(H, w[i]) = n)}
           J == {i \in 1 .. Len(w) : w[i] = Null \/ (TagAt(H, w[i]) # NoTag /\ SizeAt(H, w[i]) >= n)}
<1>3. SeekSize(H, a, n) = IF (IF I # {} THEN Min(I) ELSE 0) = 0 THEN Wild
                          ELSE w[IF I # {} THEN Min(I) ELSE 0]
  BY <1>1, Zenon DEF SeekSize, Seek, SelectInSeq
<1>4. Seek(H, a, LAMBDA b : SizeAt(H, b) >= n)
        = IF (IF J # {} THEN Min(J) ELSE 0) = 0 THEN Wild ELSE w[IF J # {} THEN Min(J) ELSE 0]
  BY <1>1, Zenon DEF Seek, SelectInSeq
<1>5. I = Hits(H, w, OfSize(H, n)) /\ J = Hits(H, w, AtLeast(H, n))
  BY <1>2 DEF Hits, OfSize, AtLeast
<1>6. I \in SUBSET Nat /\ J \in SUBSET Nat /\ 0 \notin I /\ 0 \notin J
  BY <1>1
<1> HIDE DEF I, J
<1>7. (I # {} => Min(I) # 0) /\ (J # {} => Min(J) # 0)
  BY <1>6, LeastOf
<1> QED
  BY <1>1, <1>3, <1>4, <1>5, <1>7 DEF SeekSet

\* What such a loop finds.
LEMMA SeekFinds ==
  ASSUME NEW H, HeapType(H), NEW a \in Int, NEW S, NEW p, p = SeekSet(H, Chain(H, a), S)
  PROVE  p \in Int /\ (p # Null /\ p # Wild => TagAt(H, p) # NoTag /\ p \in S)
<1>1. PICK w \in Seq(Int) : w = Chain(H, a)
  BY ChainIs
<1> DEFINE I == Hits(H, w, S)
<1>2. I \in SUBSET Nat /\ I \subseteq 1 .. Len(w)
  BY DEF Hits
<1>3. CASE I = {}
  BY <1>1, <1>3, AddressInt DEF SeekSet
<1>4. CASE I # {}
  <2>1. Min(I) \in I
    BY <1>2, <1>4, LeastOf
  <2>2. p = w[Min(I)]
    BY <1>1, <1>4 DEF SeekSet
  <2> HIDE DEF I
  <2>3. PICK i \in 1 .. Len(w) : i = Min(I) /\ i \in I
    BY <1>2, <2>1
  <2>4. w[i] \in Int /\ p = w[i]
    BY <2>2, <2>3
  <2> QED
    BY <2>3, <2>4 DEF I, Hits
<1> QED
  BY <1>3, <1>4

-----------------------------------------------------------------------------
(* The operations on blocks and lists keep the type *)

LEMMA ClassIs == \A n : Class(n) \in Lists /\ Place(n) \in Lists
<1> DEFINE M == {LIST_1_MAX, LIST_2_MAX, LIST_3_MAX}
<1>1. IsFiniteSet(M) /\ Cardinality(M) <= 3
  <2>1. IsFiniteSet({LIST_1_MAX}) /\ Cardinality({LIST_1_MAX}) = 1
    BY FS_Singleton
  <2>2. /\ IsFiniteSet({LIST_1_MAX} \cup {LIST_2_MAX})
        /\ Cardinality({LIST_1_MAX} \cup {LIST_2_MAX}) <= 2
    BY <2>1, FS_AddElement
  <2> DEFINE T == {LIST_1_MAX} \cup {LIST_2_MAX}
  <2>c. Cardinality(T) \in Nat
    BY <2>2, FS_CardinalityType
  <2>d. /\ IsFiniteSet(T \cup {LIST_3_MAX})
        /\ Cardinality(T \cup {LIST_3_MAX})
             = IF LIST_3_MAX \in T THEN Cardinality(T) ELSE Cardinality(T) + 1
    BY <2>2, FS_AddElement, Zenon
  <2>3. /\ IsFiniteSet(({LIST_1_MAX} \cup {LIST_2_MAX}) \cup {LIST_3_MAX})
        /\ Cardinality(({LIST_1_MAX} \cup {LIST_2_MAX}) \cup {LIST_3_MAX}) <= 3
    <3> HIDE DEF T
    <3>1. PICK x \in Nat : x = Cardinality(T) /\ x <= 2
      BY <2>2, <2>c DEF T
    <3>2. Cardinality(T \cup {LIST_3_MAX}) <= 3
      BY <2>d, <3>1
    <3> QED
      BY <2>d, <3>2 DEF T
  <2>4. M = ({LIST_1_MAX} \cup {LIST_2_MAX}) \cup {LIST_3_MAX}
    OBVIOUS
  <2> QED
    BY <2>3, <2>4
<1>2. ASSUME NEW n PROVE Class(n) \in Lists
  <2> DEFINE C == {m \in M : m < n}
  <2>1. C \subseteq M
    OBVIOUS
  <2>2. IsFiniteSet(C) /\ Cardinality(C) <= Cardinality(M)
    BY <1>1, <2>1, FS_Subset
  <2>3. Cardinality(C) \in Nat /\ Cardinality(M) \in Nat
    BY <1>1, <2>2, FS_CardinalityType
  <2>4. Class(n) = Cardinality(C)
    BY Zenon DEF Class
  <2> QED
    BY <1>1, <2>2, <2>3, <2>4 DEF Lists
<1> QED
  BY <1>2 DEF Place, Lists

LEMMA SbrkIs ==
  ASSUME NEW H, HeapType(H), ~H.lost, NEW k \in Nat, k <= PagesLeft(H)
  PROVE  /\ HeapType(Sbrk(H, k)) /\ ~Sbrk(H, k).lost
         /\ Sbrk(H, k).heads = H.heads /\ Sbrk(H, k).fresh = H.fresh
         /\ Len(Sbrk(H, k).mem) = Len(H.mem) + k * PAGE_SZ
         /\ \A a \in DOMAIN H.mem : Sbrk(H, k).mem[a] = H.mem[a]
         /\ PagesLeft(H) \in 0 .. 4 /\ PagesLeft(H) * PAGE_SZ + Len(H.mem) = 4 * PAGE_SZ
<1>1. PICK j \in 0 .. 4 : Len(H.mem) = j * PAGE_SZ
  BY DEF HeapType
<1>2. (j * PAGE_SZ) \div PAGE_SZ = j
  <2>1. j \in {0, 1, 2, 3, 4}
    BY <1>1
  <2> QED
    BY <2>1, Page
<1>3. PagesLeft(H) = 4 - j
  BY <1>1, <1>2 DEF PagesLeft
<1>4. k + j \in 0 .. 4 /\ k \in 0 .. 4
  BY <1>3
<1>5. k * PAGE_SZ \in Nat /\ j * PAGE_SZ \in Nat /\ k * PAGE_SZ + j * PAGE_SZ = (k + j) * PAGE_SZ
      /\ (4 - j) * PAGE_SZ + j * PAGE_SZ = 4 * PAGE_SZ
  <2>1. j \in {0, 1, 2, 3, 4} /\ k \in {0, 1, 2, 3, 4}
    BY <1>4
  <2> QED
    BY <2>1, Page
<1> DEFINE more == [i \in 1 .. k * PAGE_SZ |-> H.fresh]
           m == H.mem \o more
           G == [H EXCEPT !.mem = m]
<1>6. H.fresh \in Cells /\ H.mem \in Seq(Cells)
  <2>1. Data(NoUser) \in Cells /\ Zero \in Cells
    BY CellKinds DEF Data, Cells
  <2> QED
    BY <2>1 DEF HeapType
<1>7. more \in Seq(Cells) /\ Len(more) = k * PAGE_SZ
  BY <1>5, <1>6
<1> HIDE DEF more
<1>8. /\ m \in Seq(Cells) /\ Len(m) = Len(H.mem) + k * PAGE_SZ
      /\ \A a \in 1 .. Len(H.mem) : m[a] = H.mem[a]
  <2>1. PICK h \in Seq(Cells), g \in Seq(Cells) : h = H.mem /\ g = more
    BY <1>6, <1>7
  <2>2. /\ h \o g \in Seq(Cells) /\ Len(h \o g) = Len(h) + Len(g)
        /\ \A a \in 1 .. Len(h) : (h \o g)[a] = h[a]
    OBVIOUS
  <2> QED
    BY <1>7, <2>1, <2>2
<1> HIDE DEF m
<1>9. /\ G.mem = m /\ G.heads = H.heads /\ G.fresh = H.fresh /\ G.lost = H.lost
      /\ G \in [mem : Seq(Cells), heads : [Lists -> Int], fresh : {Zero, Data(NoUser)},
                lost : BOOLEAN]
  BY <1>8 DEF HeapType
<1>10. Sbrk(H, k) = G
  <2>1. (IF k < PagesLeft(H) THEN k ELSE PagesLeft(H)) = k
    BY <1>3, <1>1
  <2> QED
    BY <2>1, Zenon DEF Sbrk, m, more
<1>11. Len(m) = (k + j) * PAGE_SZ
  BY <1>1, <1>5, <1>8
<1> HIDE DEF G
<1>12. HeapType(G)
  BY <1>4, <1>9, <1>11 DEF HeapType
<1>13. DOMAIN H.mem = 1 .. Len(H.mem)
  BY MemType
<1>14. PagesLeft(H) \in 0 .. 4 /\ PagesLeft(H) * PAGE_SZ + Len(H.mem) = 4 * PAGE_SZ
  BY <1>1, <1>3, <1>5
<1> QED
  BY <1>8, <1>9, <1>10, <1>12, <1>13, <1>14

LEMMA AllocOnto ==
  ASSUME NEW H, HeapType(H), NEW b, NEW s \in Nat, s + 2 <= 4 * PAGE_SZ
  PROVE  /\ Onto(H, Alloc(H, b, s))
         /\ ~Alloc(H, b, s).lost => b \in DOMAIN H.mem /\ b + Need(s) - 1 \in DOMAIN H.mem
<1> DEFINE n == Need(s)
           v == Tag(1, s % 2, n, 0)
           w == Tag(1, s % 2, n, s)
           G == Set(H, b, v)
<1>1. v \in Cells /\ w \in Cells
  <2>1. PICK r \in 0 .. 1 : r = s % 2
    BY NeedIs
  <2>2. PICK m \in Evens : m = n
    BY NeedEven
  <2>3. s \in Extent /\ 0 \in Extent
    BY Page DEF Extent
  <2>4. Tag(1, r, m, 0) \in Cells /\ Tag(1, r, m, s) \in Cells
    BY <2>3 DEF Tag, Tags, Cells
  <2> QED
    BY <2>1, <2>2, <2>4
<1>2. Onto(H, G) /\ (~G.lost => b \in DOMAIN H.mem)
  BY <1>1, SetOnto
<1>3. HeapType(G)
  BY <1>2 DEF Onto
<1> HIDE DEF v, w, n, G
<1>4. Onto(G, Set(G, b + n - 1, w)) /\ (~Set(G, b + n - 1, w).lost => b + n - 1 \in DOMAIN G.mem)
  BY <1>1, <1>3, SetOnto
<1>5. Alloc(H, b, s) = Set(G, b + n - 1, w)
  BY DEF Alloc, G, n, v, w
<1> QED
  BY <1>2, <1>4, <1>5, OntoTrans DEF Onto, n

LEMMA CarveOnto ==
  ASSUME NEW H, HeapType(H), NEW f \in Int, NEW n \in Int, n < 0 \/ n \in Evens \/ H.lost
  PROVE  /\ Onto(H, Carve(H, f, n))
         /\ ~Carve(H, f, n).lost => f \in DOMAIN H.mem /\ n >= 0
<1>1. CASE n < 0
  BY <1>1, LostOnto, Zenon DEF Carve, LostHeap
<1>2. CASE ~(n < 0)
  <2> DEFINE w == Tag(0, 0, n, 0)
             G == Set(H, f, w)
             K == SetNext(G, f, Null)
             L == SetPrev(K, f, Null)
  <2>1. H.lost \/ w \in Cells
    BY <1>2, Page DEF Tag, Tags, Cells, Extent
  <2>2. Onto(H, G) /\ (~G.lost => f \in DOMAIN H.mem)
    BY <2>1, SetOnto
  <2>3. Onto(G, K)
    BY <2>2, SetLinkOnto, AddressInt DEF Onto
  <2>4. Onto(K, L)
    BY <2>3, SetLinkOnto, AddressInt DEF Onto
  <2> HIDE DEF G, K, L, w
  <2>5. HeapType(L) /\ (L.lost \/ w \in Cells)
    BY <2>1, <2>2, <2>3, <2>4 DEF Onto
  <2>6. Onto(L, Set(L, f + n - 1, w))
    BY <2>5, SetOnto
  <2>7. Carve(H, f, n) = Set(L, f + n - 1, w)
    BY <1>2 DEF Carve, G, K, L, w
  <2>8. ~Set(L, f + n - 1, w).lost => ~G.lost
    BY <2>3, <2>4, <2>6 DEF Onto
  <2> QED
    BY <1>2, <2>2, <2>3, <2>4, <2>6, <2>7, <2>8, OntoTrans
<1> QED
  BY <1>1, <1>2

\* One more link, head or tag written after other steps.
LEMMA ThenLink ==
  ASSUME NEW H, NEW G, Onto(H, G), NEW a, NEW b, H.lost \/ b \in Address
  PROVE  Onto(H, SetNext(G, a, b)) /\ Onto(H, SetPrev(G, a, b))
<1>1. HeapType(G) /\ (G.lost \/ b \in Address)
  BY DEF Onto
<1> QED
  BY <1>1, SetLinkOnto, OntoTrans

LEMMA ThenHead ==
  ASSUME NEW H, NEW G, Onto(H, G), NEW i, i \in Lists, NEW a, a \in Int,
         H.lost \/ a \in Address \ {Wild}
  PROVE  Onto(H, SetHead(G, i, a))
<1>1. HeapType(G) /\ (G.lost \/ a \in Address \ {Wild})
  BY DEF Onto
<1> QED
  BY <1>1, SetHeadOnto, OntoTrans

LEMMA OntoSelf == \A H : HeapType(H) => Onto(H, H)
BY DEF Onto

LEMMA HeadIs ==
  ASSUME NEW H, HeapType(H), NEW i, i \in Lists
  PROVE  H.heads[i] \in Int /\ (H.lost \/ H.heads[i] \in Address \ {Wild})
BY DEF HeapType

LEMMA PushOnto ==
  ASSUME NEW H, HeapType(H), NEW i, i \in Lists, NEW f, f \in Int, H.lost \/ f \in Address \ {Wild}
  PROVE  Onto(H, Push(H, i, f))
<1> DEFINE old == H.heads[i]
           G1 == SetNext(H, f, old)
           G2 == SetPrev(G1, f, Null)
           G3 == SetPrev(G2, old, f)
<1>1. old \in Int /\ (H.lost \/ old \in Address)
  BY HeadIs
<1>2. Onto(H, G1)
  BY <1>1, OntoSelf, ThenLink
<1>3. Onto(H, G2)
  BY <1>2, ThenLink, AddressInt
<1>4. Onto(H, G3)
  BY <1>3, ThenLink
<1>5. Push(H, i, f) = SetHead(IF old = Null THEN H ELSE G3, i, f)
  BY Zenon DEF Push
<1> HIDE DEF G1, G2, G3
<1> QED
  BY <1>4, <1>5, OntoSelf, ThenHead

\* Nothing lies at Wild or behind it.
LEMMA WildOutside ==
  ASSUME NEW H, HeapType(H)
  PROVE  /\ PrevOf(H, Wild) = Wild /\ NextOf(H, Wild) = Wild
         /\ Wild \notin DOMAIN H.mem /\ Wild + 1 \notin DOMAIN H.mem /\ Wild + 2 \notin DOMAIN H.mem
         /\ Null \notin DOMAIN H.mem /\ Null + 1 \notin DOMAIN H.mem /\ Null + 2 \notin DOMAIN H.mem
<1>1. /\ Wild \notin DOMAIN H.mem /\ Wild + 1 \notin DOMAIN H.mem /\ Wild + 2 \notin DOMAIN H.mem
      /\ Null \notin DOMAIN H.mem /\ Null + 1 \notin DOMAIN H.mem /\ Null + 2 \notin DOMAIN H.mem
  BY MemType, Page DEF Wild, Null
<1>2. Word(H, Wild + 1) = Data(NoUser) /\ Word(H, Wild + 2) = Data(NoUser)
  BY <1>1 DEF Word
<1>3. Data(NoUser) # Zero /\ "at" \notin DOMAIN Data(NoUser)
  BY DEF Data, Zero, Tag
<1> QED
  BY <1>1, <1>2, <1>3 DEF PrevOf, NextOf, Pointer

LEMMA LostStays ==
  /\ \A a, b : SetNext(LostHeap, a, b) = LostHeap /\ SetPrev(LostHeap, a, b) = LostHeap
  /\ \A a, w : Set(LostHeap, a, w) = LostHeap /\ SetTag(LostHeap, a, w) = LostHeap
<1>1. \A a, w : Set(LostHeap, a, w) = LostHeap
  BY DEF Set, LostHeap
<1> QED
  BY <1>1 DEF SetNext, SetPrev, SetTag

LEMMA PopHeadOnto ==
  ASSUME NEW H, HeapType(H), NEW i, i \in Lists
  PROVE  Onto(H, PopHead(H, i))
<1> DEFINE q == NextOf(H, H.heads[i])
           G1 == SetHead(H, i, q)
           G2 == SetNext(G1, PrevOf(H, q), Null)
<1>1. q \in Address /\ q \in Int
  BY PointerType, AddressInt
<1>2. PopHead(H, i) = SetPrev(G2, q, Null)
  BY Zenon DEF PopHead
<1>3. CASE q = Wild
  <2>1. PrevOf(H, q) = Wild /\ Wild + 1 \notin DOMAIN H.mem
    BY <1>3, WildOutside
  <2>2. G1.mem = H.mem
    BY DEF SetHead, HeapType
  <2> HIDE DEF G1, q
  <2>3. G2 = LostHeap
    BY <2>1, <2>2 DEF SetNext, Set
  <2> QED
    BY <1>2, <2>3, LostStays, LostOnto
<1>4. CASE q # Wild
  <2>1. Onto(H, G1)
    BY <1>1, <1>4, OntoSelf, ThenHead
  <2> HIDE DEF G1, q
  <2>2. Onto(H, G2)
    BY <2>1, ThenLink, AddressInt
  <2> HIDE DEF G2
  <2> QED
    BY <1>2, <2>2, ThenLink, AddressInt
<1> QED
  BY <1>3, <1>4

LEMMA DetachOnto ==
  ASSUME NEW H, HeapType(H), NEW p
  PROVE  Onto(H, Detach(H, p))
<1> DEFINE a == NextOf(H, p)
           b == PrevOf(H, p)
           G1 == SetNext(H, b, a)
           G2 == IF a = Null THEN G1 ELSE SetPrev(G1, a, b)
           G3 == SetNext(G2, p, Null)
<1>1. a \in Address /\ b \in Address
  BY PointerType
<1>2. Onto(H, G1)
  BY <1>1, OntoSelf, ThenLink
<1>3. Onto(H, G2)
  BY <1>1, <1>2, ThenLink
<1>4. Onto(H, G3)
  BY <1>3, ThenLink, AddressInt
<1>5. Detach(H, p) = SetPrev(G3, p, Null)
  BY Zenon DEF Detach
<1> HIDE DEF G3
<1> QED
  BY <1>4, <1>5, ThenLink, AddressInt

\* However a block is taken out of a list.
LEMMA RemoveOnto ==
  ASSUME NEW H, HeapType(H), NEW i, i \in Lists, NEW n
  PROVE  /\ Onto(H, RemoveSplit(H, i, n))
         /\ Onto(H, RemoveLast(H, n))
         /\ Onto(H, RemoveNext(H, n))
<1>1. Onto(H, H) /\ Onto(H, LostHeap)
  BY OntoSelf, LostOnto
<1>2. \A j \in Lists : Onto(H, SetHead(H, j, Null)) /\ Onto(H, PopHead(H, j))
  BY SetHeadOnto, PopHeadOnto, NullAddress
<1>3. \A q : Onto(H, SetNext(H, PrevOf(H, q), NextOf(H, q))) /\ Onto(H, Detach(H, q))
  BY <1>1, PointerType, ThenLink, DetachOnto
<1>4. Class(n) \in Lists
  BY ClassIs
<1> QED
  BY <1>1, <1>2, <1>3, <1>4 DEF RemoveSplit, RemoveLast, RemoveNext

-----------------------------------------------------------------------------
(* sf_malloc keeps the type *)

Errnos == {"none", "EINVAL", "ENOMEM"}

ResultType(r) ==
  /\ r = [heap |-> r.heap, ptr |-> r.ptr, errno |-> r.errno, abort |-> r.abort, safe |-> r.safe]
  /\ HeapType(r.heap) /\ (r.heap.lost => r.heap = LostHeap)
  /\ r.ptr \in Address /\ r.errno \in Errnos /\ r.abort \in BOOLEAN

LEMMA ResultIs ==
  ASSUME NEW H, HeapType(H), NEW p, H.lost \/ p \in Address, NEW errno \in Errnos,
         NEW abort \in BOOLEAN, NEW safe
  PROVE  ResultType(Result(H, p, errno, abort, safe))
<1>1. HeapType(IF H.lost THEN LostHeap ELSE H) /\ (IF H.lost THEN Null ELSE p) \in Address
  BY LostType, AddressInt
<1> QED
  BY <1>1 DEF ResultType, Result

\* A result without a block, or with one that lies in the heap.
LEMMA RefusedIs ==
  ASSUME NEW H, HeapType(H), NEW errno \in Errnos, NEW safe
  PROVE  ResultType(Refused(H, errno, safe)) /\ Refused(H, errno, safe).ptr = Null
<1>1. ResultType(Refused(H, errno, safe))
  BY ResultIs, AddressInt DEF Refused
<1> QED
  BY <1>1 DEF Refused, Result

LEMMA GrantedIs ==
  ASSUME NEW H, HeapType(H), NEW b, H.lost \/ b + 1 \in Address, NEW safe
  PROVE  ResultType(Granted(H, b, safe))
BY ResultIs DEF Granted, Errnos

\* The addresses of the heap are addresses.
LEMMA InHeap ==
  ASSUME NEW H, HeapType(H), NEW a, a \in DOMAIN H.mem
  PROVE  a \in Int /\ a \in Address \ {Wild} /\ a > 0 /\ a <= 4 * PAGE_SZ
<1>1. a \in 1 .. 4 * PAGE_SZ
  BY MemType
<1> QED
  BY <1>1, Page DEF Address, Wild

LEMMA AllocInHeap ==
  ASSUME NEW H, HeapType(H), NEW b \in Int, NEW s \in Nat, s > 0, s + 2 <= 4 * PAGE_SZ,
         ~Alloc(H, b, s).lost
  PROVE  b > 0 /\ b + 1 \in Address
<1>1. b \in DOMAIN H.mem /\ b + Need(s) - 1 \in DOMAIN H.mem
  BY AllocOnto
<1>2. b > 0 /\ b + Need(s) - 1 <= 4 * PAGE_SZ
  BY <1>1, InHeap
<1>3. Need(s) \in Nat /\ Need(s) >= 4
  BY NeedIs
<1>4. b + 1 \in 1 .. 4 * PAGE_SZ
  BY <1>2, <1>3, Page
<1> QED
  BY <1>2, <1>4 DEF Address

LEMMA FillOnto ==
  ASSUME NEW H, HeapType(H), NEW b \in Int, NEW total \in Int, NEW s \in Nat, s > 0,
         s + 2 <= 4 * PAGE_SZ, H.lost \/ b < 1 \/ total \in Evens
  PROVE  /\ Onto(H, Fill(H, b, total, s))
         /\ ~Fill(H, b, total, s).lost => b + 1 \in Address
<1> DEFINE n == Need(s)
           f == b + n
           rest == total - n
           H1 == Alloc(H, b, s)
           G == Carve(H1, f, rest)
           K == SetHead(G, Place(rest), f)
<1>1. n \in Nat /\ \E k \in Nat : n = 2 * k
  BY NeedIs
<1>2. f \in Int /\ rest \in Int
  BY <1>1
<1>3. Onto(H, H1) /\ HeapType(H1)
  BY AllocOnto DEF Onto
<1>4. ~H1.lost => b > 0 /\ b + 1 \in Address /\ total \in Evens
  BY <1>3, AllocInHeap DEF Onto
<1>5. H1.lost \/ rest < 0 \/ rest \in Evens
  BY <1>1, <1>4, EvenLeft
<1> HIDE DEF n, f, rest, H1
<1>6. Onto(H1, G) /\ (~G.lost => f \in DOMAIN H1.mem)
  BY <1>2, <1>3, <1>5, CarveOnto
<1>7. G.lost \/ f \in Address \ {Wild}
  BY <1>3, <1>6, InHeap
<1> HIDE DEF G
<1>8. Onto(G, K)
  BY <1>2, <1>6, <1>7, ClassIs, SetHeadOnto DEF Onto
<1>9. Fill(H, b, total, s) = IF f = Len(H.mem) + 1 THEN H1 ELSE K
  BY Zenon DEF Fill, K, G, H1, rest, f, n
<1> HIDE DEF K
<1>10. ~K.lost => ~H1.lost
  BY <1>6, <1>8 DEF Onto
<1> QED
  BY <1>3, <1>4, <1>6, <1>8, <1>9, <1>10, OntoTrans

LEMMA TakeType ==
  ASSUME NEW H, HeapType(H), NEW i, i \in Lists, NEW p \in Int, NEW s \in Nat, s > 0,
         s + 2 <= 4 * PAGE_SZ
  PROVE  ResultType(Take(H, i, p, s))
<1> DEFINE n == Need(s)
           f == p + n
           rest == SizeAt(H, p) - n
           H1 == Alloc(H, p, s)
           whole == IF p # H.heads[i] THEN Detach(H1, p)
                    ELSE IF NextOf(H1, p) = Null THEN SetHead(H1, i, Null)
                    ELSE PopHead(H1, i)
           G1 == Carve(H1, f, rest)
           G2 == RemoveSplit(G1, i, n)
           G3 == Push(G2, Place(rest), f)
           G4 == SetPrev(G3, f, Null)
           safe == rest >= LIST_1_MIN /\ NextOf(H, p) = Null
<1>1. n \in Nat /\ \E k \in Nat : n = 2 * k
  BY NeedIs
<1>2. f \in Int /\ rest \in Int
  BY <1>1, WordType
<1>3. Onto(H, H1) /\ HeapType(H1) /\ (~H1.lost => p + 1 \in Address)
  BY AllocOnto, AllocInHeap DEF Onto
<1>4. rest < 0 \/ rest \in Evens
  <2>1. CASE TagAt(H, p) = NoTag
    <3>1. SizeAt(H, p) = Wild
      BY <2>1 DEF SizeAt, NoTag, Tag
    <3> QED
      BY <1>1, <3>1, Page DEF Wild
  <2>2. CASE TagAt(H, p) # NoTag
    <3>1. SizeAt(H, p) \in Evens
      BY <2>2, WordType
    <3> QED
      BY <1>1, <3>1, EvenLeft
  <2> QED
    BY <2>1, <2>2
<1>5. Take(H, i, p, s) = IF f = Len(H.mem) + 1 THEN Granted(whole, p, TRUE) ELSE Granted(G4, p, safe)
  BY Zenon DEF Take, whole, safe, G4, G3, G2, G1, H1, rest, f, n
<1> HIDE DEF n, f, rest, H1, safe
<1>6. Onto(H1, whole)
  BY <1>3, DetachOnto, SetHeadOnto, PopHeadOnto, NullAddress
<1>7. Onto(H1, G1) /\ (~G1.lost => f \in DOMAIN H1.mem)
  BY <1>2, <1>3, <1>4, CarveOnto
<1> HIDE DEF G1, whole
<1>8. Onto(G1, G2)
  BY <1>7, RemoveOnto DEF Onto
<1> HIDE DEF G2
<1>9. G2.lost \/ f \in Address \ {Wild}
  BY <1>3, <1>7, <1>8, InHeap DEF Onto
<1>10. Onto(G2, G3)
  BY <1>2, <1>8, <1>9, ClassIs, PushOnto DEF Onto
<1> HIDE DEF G3
<1>11. Onto(G3, G4)
  BY <1>10, SetLinkOnto, AddressInt DEF Onto
<1> HIDE DEF G4
<1>12. Onto(H1, G4)
  BY <1>7, <1>8, <1>10, <1>11, OntoTrans
<1>13. HeapType(whole) /\ (whole.lost \/ p + 1 \in Address)
  BY <1>3, <1>6 DEF Onto
<1>14. HeapType(G4) /\ (G4.lost \/ p + 1 \in Address)
  BY <1>3, <1>12 DEF Onto
<1> QED
  BY <1>5, <1>13, <1>14, GrantedIs

\* New pages, however many are asked for.
LEMMA SbrkType ==
  ASSUME NEW H, HeapType(H), ~H.lost, NEW k \in Nat
  PROVE  /\ HeapType(Sbrk(H, k)) /\ ~Sbrk(H, k).lost /\ Sbrk(H, k).heads = H.heads
         /\ PagesLeft(H) \in 0 .. 4 /\ PagesLeft(H) * PAGE_SZ + Len(H.mem) = 4 * PAGE_SZ
<1>1. 0 <= PagesLeft(H) /\ PagesLeft(H) \in 0 .. 4
  <2>1. PICK j \in 0 .. 4 : Len(H.mem) = j * PAGE_SZ
    BY DEF HeapType
  <2>2. (j * PAGE_SZ) \div PAGE_SZ = j
    <3>1. j \in {0, 1, 2, 3, 4}
      BY <2>1
    <3> QED
      BY <3>1, Page
  <2> QED
    BY <2>1, <2>2 DEF PagesLeft
<1>2. CASE k <= PagesLeft(H)
  BY <1>2, SbrkIs
<1>3. CASE ~(k <= PagesLeft(H))
  <2>1. Sbrk(H, k) = Sbrk(H, PagesLeft(H))
    <3>1. ~(k < PagesLeft(H)) /\ ~(PagesLeft(H) < PagesLeft(H))
      BY <1>1, <1>3
    <3> QED
      BY <3>1, Zenon DEF Sbrk
  <2>2. PagesLeft(H) \in Nat /\ PagesLeft(H) <= PagesLeft(H)
    BY <1>1
  <2> QED
    BY <2>1, <2>2, SbrkIs
<1> QED
  BY <1>2, <1>3

\* The pages a request of s words needs.
LEMMA PagesFor ==
  ASSUME NEW s \in Nat, s + 2 <= 4 * PAGE_SZ
  PROVE  1 + s \div PAGE_SZ \in 1 .. 4
<1>1. PICK q \in Int, r \in Int : q = s \div PAGE_SZ /\ s = PAGE_SZ * q + r /\ 0 <= r /\ r < PAGE_SZ
  BY Page
<1>2. q >= 0
  <2>1. ASSUME q <= -1 PROVE FALSE
    <3>1. PAGE_SZ * q <= PAGE_SZ * (-1)
      BY <1>1, <2>1, Page
    <3> QED
      BY <1>1, <3>1, Page
  <2> QED
    BY <1>1, <2>1
<1>3. q <= 3
  <2>1. ASSUME q >= 4 PROVE FALSE
    <3>1. PAGE_SZ * q >= PAGE_SZ * 4
      BY <1>1, <2>1, Page
    <3> QED
      BY <1>1, <3>1, Page
  <2> QED
    BY <1>1, <2>1
<1> QED
  BY <1>1, <1>2, <1>3

LEMMA PagesEven == \A k \in 1 .. 4 : k * PAGE_SZ \in Evens /\ k * PAGE_SZ \in Nat
<1> SUFFICES ASSUME NEW k \in 1 .. 4 PROVE k * PAGE_SZ \in Evens /\ k * PAGE_SZ \in Nat
  OBVIOUS
<1>1. PICK h \in Nat : PAGE_SZ = 2 * h
  BY Page
<1>2. k \in {1, 2, 3, 4}
  OBVIOUS
<1>3. k * PAGE_SZ \in Nat /\ k * PAGE_SZ <= 4 * PAGE_SZ /\ k * h \in Nat /\ k * PAGE_SZ = 2 * (k * h)
  BY <1>1, <1>2
<1> QED
  BY <1>3, EvenIn

LEMMA FirstType ==
  ASSUME NEW H, HeapType(H), ~H.lost, NEW s \in Nat, s > 0, s + 2 <= 4 * PAGE_SZ
  PROVE  ResultType(firstAllocation(H, s)) /\ ResultType(multiplePageAllocations(H, s))
<1>1. ResultType(firstAllocation(H, s))
  <2> DEFINE G == Sbrk(H, 1)
             K == Fill(G, 1, PAGE_SZ, s)
  <2>1. HeapType(G)
    BY SbrkType
  <2>2. PAGE_SZ \in Evens
    BY PagesEven, Page
  <2> HIDE DEF G
  <2>3. HeapType(K) /\ (K.lost \/ 1 + 1 \in Address)
    BY <2>1, <2>2, FillOnto, Page DEF Onto
  <2>4. firstAllocation(H, s) = Granted(K, 1, FillSafe(G, PAGE_SZ, s))
    BY Zenon DEF firstAllocation, K, G
  <2> HIDE DEF K
  <2> QED
    BY <2>3, <2>4, GrantedIs
<1>2. ResultType(multiplePageAllocations(H, s))
  <2> DEFINE k == 1 + s \div PAGE_SZ
             G == Sbrk(H, k)
             b == IF PagesLeft(H) = 0 THEN Wild ELSE Len(H.mem) + 1
             K == Fill(G, b, k * PAGE_SZ, s)
             safe == k <= PagesLeft(H) /\ FillSafe(G, k * PAGE_SZ, s)
  <2>1. k \in 1 .. 4
    BY PagesFor
  <2>2. k * PAGE_SZ \in Evens /\ k * PAGE_SZ \in Int
    <3> HIDE DEF k
    <3> QED
      BY <2>1, PagesEven
  <2> HIDE DEF k
  <2>3. HeapType(G) /\ b \in Int
    <3>1. Wild \in Int /\ Len(H.mem) + 1 \in Int
      BY MemType, AddressInt
    <3>2. k \in Nat
      BY <2>1
    <3> QED
      BY <3>1, <3>2, SbrkType
  <2>5. multiplePageAllocations(H, s) = Granted(K, b, safe)
    BY Zenon DEF multiplePageAllocations, K, G, k, b, safe
  <2> HIDE DEF G, b
  <2>4. HeapType(K) /\ (K.lost \/ b + 1 \in Address)
    BY <2>2, <2>3, FillOnto DEF Onto
  <2> HIDE DEF K, safe
  <2> QED
    BY <2>4, <2>5, GrantedIs
<1> QED
  BY <1>1, <1>2


LEMMA EvenSum ==
  ASSUME NEW n \in Nat, NEW k \in Nat, n = 2 * k, NEW m \in Nat, NEW j \in Nat, m = 2 * j,
         n + m <= 4 * PAGE_SZ
  PROVE  n + m \in Evens
<1>1. n + m = 2 * (k + j) /\ n + m \in Int /\ k + j \in Int
  OBVIOUS
<1> QED
  BY <1>1, EvenIn

LEMMA GrowType ==
  ASSUME NEW H, HeapType(H), ~H.lost, NEW s \in Nat, s > 0, s + 2 <= 4 * PAGE_SZ
  PROVE  ResultType(Grow(H, s))
<1> DEFINE end  == Len(H.mem)
           foot == TagAt(H, end)
           free == foot.alloc = 0
           n == IF free THEN foot.size ELSE 0
           b == end + 1 - n
           asked == Min({k \in 1 .. 4 : k = 4 \/ s <= k * PAGE_SZ})
           T == {k \in 1 .. 5 : s + 2 <= n + k * PAGE_SZ}
           taken == Min(T)
           total == n + taken * PAGE_SZ
           G == Sbrk(H, taken)
           K == IF free THEN RemoveLast(G, n) ELSE G
           F == Fill(K, b, total, s)
           safe == (free => H.heads[Class(n)] = b) /\ FillSafe(K, total, s)
<1>1. Grow(H, s) = IF asked > PagesLeft(H) THEN Refused(H, "ENOMEM", TRUE)
                   ELSE IF foot = NoTag THEN Granted(LostHeap, Null, FALSE)
                   ELSE IF taken > PagesLeft(H) THEN Refused(Sbrk(H, PagesLeft(H)), "ENOMEM", FALSE)
                   ELSE Granted(F, b, safe)
  BY Zenon DEF Grow, safe, F, K, G, total, taken, T, asked, b, n, free, foot, end
<1>2. ResultType(Refused(H, "ENOMEM", TRUE))
  BY RefusedIs DEF Errnos
<1>3. ResultType(Granted(LostHeap, Null, FALSE))
  BY LostType, GrantedIs DEF LostHeap
<1>4. ResultType(Refused(Sbrk(H, PagesLeft(H)), "ENOMEM", FALSE))
  <2>1. PagesLeft(H) \in Nat
    <3>1. 0 \in Nat
      OBVIOUS
    <3>2. PagesLeft(H) \in 0 .. 4
      BY <3>1, SbrkType, Zenon
    <3> QED
      BY <3>2
  <2>2. HeapType(Sbrk(H, PagesLeft(H)))
    BY <2>1, SbrkType
  <2> QED
    BY <2>2, RefusedIs DEF Errnos
<1>5. ASSUME foot # NoTag, ~(taken > PagesLeft(H))
      PROVE  ResultType(Granted(F, b, safe))
  <2>1. /\ n \in Nat /\ \E k \in Nat : n = 2 * k
        /\ end \in Nat
    <3>1. SizeAt(H, end) = foot.size /\ foot.size \in Evens
      BY <1>5, WordType DEF SizeAt
    <3>2. foot.size \in Nat /\ \E k \in Nat : foot.size = 2 * k
      BY <3>1, EvensAre
    <3> HIDE DEF foot
    <3>3. n \in Nat /\ \E k \in Nat : n = 2 * k
      <4>1. 0 = 2 * 0
        OBVIOUS
      <4>2. CASE free
        BY <3>2, <4>2
      <4>3. CASE ~free
        BY <4>1, <4>3
      <4> QED
        BY <4>2, <4>3
    <3> QED
      BY <3>3, MemType
  <2> HIDE DEF n
  <2>2. taken \in 1 .. 5
    <3>1. 4 \in T
      BY <2>1, Page
    <3>2. T \in SUBSET Nat /\ T # {}
      BY <3>1
    <3>3. taken \in T
      BY <3>2, LeastOf
    <3> QED
      BY <3>3
  <2> HIDE DEF taken
  <2>3. PagesLeft(H) \in 0 .. 4 /\ PagesLeft(H) * PAGE_SZ + end = 4 * PAGE_SZ /\ HeapType(G)
    BY <2>2, SbrkType
  <2>4. taken \in 1 .. 4 /\ taken * PAGE_SZ + end <= 4 * PAGE_SZ
    <3>0. taken \in 1 .. 4 /\ taken <= PagesLeft(H)
      BY <1>5, <2>2, <2>3
    <3>1. taken * PAGE_SZ <= PagesLeft(H) * PAGE_SZ
      <4>1. taken \in {1, 2, 3, 4} /\ PagesLeft(H) \in {0, 1, 2, 3, 4}
        BY <3>0, <2>3
      <4> QED
        BY <4>1, <3>0, Page
    <3>2. PICK x \in Nat, y \in Nat : x = taken * PAGE_SZ /\ y = PagesLeft(H) * PAGE_SZ
      <4>1. taken \in {1, 2, 3, 4} /\ PagesLeft(H) \in {0, 1, 2, 3, 4}
        BY <3>0, <2>3
      <4>2. taken * PAGE_SZ \in Nat /\ PagesLeft(H) * PAGE_SZ \in Nat
        BY <4>1, Page
      <4> QED
        BY <4>2
    <3>3. x <= y /\ y + end = 4 * PAGE_SZ
      BY <2>3, <3>1, <3>2
    <3> HIDE DEF end
    <3>4. x + end <= 4 * PAGE_SZ
      BY <2>1, <3>2, <3>3, Page
    <3> QED
      BY <3>0, <3>2, <3>4
  <2>5. PICK m \in Nat, j \in Nat : m = taken * PAGE_SZ /\ m = 2 * j /\ m + end <= 4 * PAGE_SZ
    <3>1. taken * PAGE_SZ \in Evens
      BY <2>4, PagesEven
    <3> QED
      BY <2>4, <3>1, EvensAre
  <2>6. b \in Int /\ total \in Int /\ (b < 1 \/ total \in Evens)
    <3>1. b \in Int /\ total \in Int /\ total = n + m
      BY <2>1, <2>5
    <3>2. CASE b < 1
      BY <3>1, <3>2
    <3>3. CASE ~(b < 1)
      <4>1. n <= end
        <5> HIDE DEF end
        <5> QED
          BY <2>1, <3>3
      <4>2. n + m <= 4 * PAGE_SZ
        <5> HIDE DEF end
        <5> QED
          BY <2>1, <2>5, <4>1, Page
      <4> QED
        BY <2>1, <2>5, <3>1, <4>2, EvenSum
    <3> QED
      BY <3>2, <3>3
  <2> HIDE DEF G
  <2>7. HeapType(K)
    <3>1. Class(n) \in Lists /\ Lists # {}
      BY ClassIs
    <3>2. HeapType(RemoveLast(G, n))
      BY <2>3, <3>1, RemoveOnto DEF Onto
    <3> QED
      BY <2>3, <3>2
  <2> HIDE DEF K, total, b, free, foot
  <2>8. HeapType(F) /\ (F.lost \/ b + 1 \in Address)
    BY <2>6, <2>7, FillOnto DEF Onto
  <2> HIDE DEF F, safe
  <2> QED
    BY <2>8, GrantedIs
<1> HIDE DEF F, safe, asked, taken, foot, b
<1> QED
  BY <1>1, <1>2, <1>3, <1>4, <1>5


\* What sf_malloc returns, and no block for a request that cannot be met.
LEMMA MallocType ==
  ASSUME NEW H, HeapType(H), ~H.lost, NEW s \in Nat
  PROVE  /\ ResultType(sf_malloc(H, s))
         /\ sf_malloc(H, s).ptr # Null => s \in Extent
<1> DEFINE fit(i) == Seek(H, H.heads[i], LAMBDA b : SizeAt(H, b) >= s + 2)
           L == {i \in Class(s) .. 3 : fit(i) # Null}
<1>1. sf_malloc(H, s) =
        IF s = 0 \/ s > 4 * PAGE_SZ THEN Refused(H, "EINVAL", TRUE)
        ELSE IF s + 2 > 4 * PAGE_SZ THEN Refused(H, "ENOMEM", TRUE)
        ELSE IF s >= PAGE_SZ /\ \A i \in 0 .. 3 : H.heads[i] = Null
             THEN multiplePageAllocations(H, s)
        ELSE IF H.mem = <<>> THEN firstAllocation(H, s)
        ELSE IF L # {} THEN Take(H, Min(L), fit(Min(L)), s)
        ELSE Grow(H, s)
  BY Zenon DEF sf_malloc
<1>2. CASE s = 0 \/ s > 4 * PAGE_SZ
  <2>1. sf_malloc(H, s) = Refused(H, "EINVAL", TRUE)
    BY <1>1, <1>2
  <2> QED
    BY <2>1, RefusedIs DEF Errnos
<1>3. CASE ~(s = 0 \/ s > 4 * PAGE_SZ) /\ s + 2 > 4 * PAGE_SZ
  <2>1. sf_malloc(H, s) = Refused(H, "ENOMEM", TRUE)
    BY <1>1, <1>3
  <2> QED
    BY <2>1, RefusedIs DEF Errnos
<1>4. CASE ~(s = 0 \/ s > 4 * PAGE_SZ) /\ ~(s + 2 > 4 * PAGE_SZ)
  <2>1. s > 0 /\ s + 2 <= 4 * PAGE_SZ /\ s \in Extent
    BY <1>4, Page DEF Extent
  <2>2. ResultType(firstAllocation(H, s)) /\ ResultType(multiplePageAllocations(H, s))
    BY <2>1, FirstType
  <2>3. ResultType(Grow(H, s))
    BY <2>1, GrowType
  <2>4. L # {} => ResultType(Take(H, Min(L), fit(Min(L)), s))
    <3>1. Class(s) \in 0 .. 3
      BY ClassIs DEF Lists
    <3>2. L \in SUBSET Nat /\ L \subseteq Lists
      <4>1. L \subseteq Class(s) .. 3
        BY Zenon
      <4> HIDE DEF L
      <4>2. Class(s) .. 3 \subseteq 0 .. 3 /\ 0 .. 3 \subseteq Nat
        BY <3>1
      <4> QED
        BY <4>1, <4>2 DEF Lists
    <3>3. ASSUME L # {} PROVE Min(L) \in Lists
      BY <3>2, <3>3, LeastOf
    <3> HIDE DEF L
    <3>4. ASSUME NEW i \in Lists PROVE fit(i) \in Int
      <4>1. H.heads[i] \in Int
        BY HeadIs
      <4>2. fit(i) = SeekSet(H, Chain(H, H.heads[i]), AtLeast(H, s + 2))
        BY <4>1, SeekIs, Zenon
      <4> QED
        BY <4>1, <4>2, SeekFinds
    <3> HIDE DEF fit
    <3> QED
      BY <2>1, <3>3, <3>4, TakeType
  <2> HIDE DEF L, fit
  <2> QED
    BY <1>1, <1>4, <2>1, <2>2, <2>3, <2>4
<1> QED
  BY <1>2, <1>3, <1>4


-----------------------------------------------------------------------------
(* sf_free and sf_realloc keep the type *)

\* A tag with one field changed.
LEMMA TagWith ==
  ASSUME NEW t \in Tags
  PROVE  /\ \A x \in 0 .. 1 : [t EXCEPT !.alloc = x] \in Tags /\ [t EXCEPT !.padded = x] \in Tags
         /\ \A n \in Evens : [t EXCEPT !.size = n] \in Tags
         /\ \A s \in Extent : [t EXCEPT !.req = s] \in Tags
BY DEF Tags



\* Once the block is freed.
LEMMA FreedOnto ==
  ASSUME NEW H, HeapType(H), NEW h, h \in Int
  PROVE  /\ Onto(H, Freed(H, h))
         /\ ~Freed(H, h).lost => h \in DOMAIN H.mem
<1> DEFINE f == h + SizeAt(H, h) - 1
           behind == TagAt(H, f + 1)
           n == behind.size
           Reset(G, a) == SetTag(G, a, [TagAt(G, a) EXCEPT !.alloc = 0])
           Unpad(G, a) == SetTag(G, a, [TagAt(G, a) EXCEPT !.padded = 0])
           H0 == Reset(H, h)
           H1 == Reset(H0, f)
           J == coalescBlocks(H1, h, n)
           H2 == IF f = Len(H.mem) THEN H1
                 ELSE IF behind = NoTag THEN LostHeap
                 ELSE IF behind.alloc = 0 THEN J
                 ELSE H1
           H3 == Unpad(H2, h)
           H4 == Unpad(H3, f)
<1>1. Freed(H, h) = H4
  BY Zenon DEF Freed, H4, H3, H2, J, H1, H0, n, behind, f, Reset, Unpad
<1>2. ASSUME NEW G, HeapType(G), NEW a
      PROVE  /\ Onto(G, Reset(G, a)) /\ (~Reset(G, a).lost => TagAt(G, a) # NoTag)
             /\ Onto(G, Unpad(G, a)) /\ (~Unpad(G, a).lost => TagAt(G, a) # NoTag)
  <2>1. TagAt(G, a) # NoTag => TagAt(G, a) \in Tags
    BY <1>2, WordType
  <2>2. 0 \in 0 .. 1
    OBVIOUS
  <2> QED
    BY <1>2, <2>1, <2>2, SetTagOnto, TagWith
<1> HIDE DEF Reset, Unpad
<1>3. Onto(H, H0) /\ (~H0.lost => TagAt(H, h) # NoTag)
  BY <1>2
<1> HIDE DEF H0
<1>4. Onto(H0, H1) /\ Onto(H, H1) /\ (~H1.lost => TagAt(H, h) # NoTag)
  BY <1>2, <1>3, OntoTrans DEF Onto
<1> HIDE DEF H1
<1>5. ASSUME behind # NoTag PROVE Onto(H1, J)
  <2> DEFINE both == SizeAt(H1, h) + n
             g == h + both - 1
             K1 == SetTag(H1, h, [TagAt(H1, h) EXCEPT !.size = both])
             K2 == SetTag(K1, g, [TagAt(K1, g) EXCEPT !.size = both])
  <2>1. HeapType(H1)
    BY <1>4 DEF Onto
  <2>2. J = RemoveNext(K2, n)
    BY Zenon DEF J, coalescBlocks, K2, K1, g, both
  <2>3. n \in Evens
    BY <1>5, WordType DEF SizeAt
  <2> HIDE DEF n, J, behind, f
  <2>4. CASE TagAt(H1, h) = NoTag
    <3>1. K1 = LostHeap
      BY <2>4 DEF SetTag
    <3> HIDE DEF K1
    <3>2. K2 = LostHeap
      BY <3>1, LostStays
    <3> HIDE DEF K2
    <3>3. Onto(H1, K2) /\ HeapType(K2)
      BY <3>2, LostOnto, LostType
    <3> QED
      BY <2>2, <3>3, RemoveOnto, ClassIs, OntoTrans
  <2>5. CASE TagAt(H1, h) # NoTag
    <3>1. SizeAt(H1, h) \in Evens /\ TagAt(H1, h) \in Tags /\ h \in DOMAIN H1.mem
      BY <2>1, <2>5, WordType
    <3>2. PICK x \in Nat, y \in Nat, k \in Nat, j \in Nat :
            x = SizeAt(H1, h) /\ y = n /\ x = 2 * k /\ y = 2 * j
      BY <2>3, <3>1, EvensAre
    <3>3. CASE x + y <= 4 * PAGE_SZ
      <4>1. both \in Evens
        BY <3>2, <3>3, EvenSum
      <4> HIDE DEF both
      <4>2. Onto(H1, K1) /\ HeapType(K1)
        BY <2>1, <3>1, <4>1, SetTagOnto, TagWith DEF Onto
      <4> HIDE DEF K1, g
      <4>3. TagAt(K1, g) # NoTag => TagAt(K1, g) \in Tags
        BY <4>2, WordType
      <4>4. Onto(K1, K2)
        BY <4>1, <4>2, <4>3, SetTagOnto, TagWith
      <4> HIDE DEF K2
      <4>5. Onto(H1, K2) /\ HeapType(K2)
        BY <4>2, <4>4, OntoTrans DEF Onto
      <4> QED
        BY <2>2, <4>5, RemoveOnto, ClassIs, OntoTrans
    <3>4. CASE ~(x + y <= 4 * PAGE_SZ)
      <4>1. h \in Int /\ h >= 1
        BY <2>1, <3>1, InHeap
      <4>2. g > 4 * PAGE_SZ /\ g \in Int
        BY <3>2, <3>4, <4>1, Page
      <4> HIDE DEF both, g
      <4>3. PICK w : K1 = SetTag(H1, h, w)
        BY Zenon
      <4>4. K1.mem = [H1.mem EXCEPT ![h] = [TagAt(H1, h) EXCEPT !.size = both]]
        <5>1. H1 \in [mem : Seq(Cells), heads : [Lists -> Int], fresh : {Zero, Data(NoUser)},
                      lost : BOOLEAN]
          BY <2>1 DEF HeapType
        <5> QED
          BY <2>5, <3>1, <5>1 DEF SetTag, Set
      <4>5. DOMAIN K1.mem = DOMAIN H1.mem
        BY <2>1, <4>4, MemType
      <4>6. g \notin DOMAIN K1.mem
        <5> HIDE DEF K1
        <5>1. g \notin DOMAIN H1.mem
          BY <2>1, <4>2, InHeap, Page
        <5> QED
          BY <4>5, <5>1
      <4> HIDE DEF K1
      <4>7. K2 = LostHeap
        <5>1. TagAt(K1, g) = NoTag
          BY <4>6, CellKinds DEF TagAt, Word, Data
        <5> QED
          BY <5>1 DEF SetTag
      <4> HIDE DEF K2
      <4>8. Onto(H1, K2) /\ HeapType(K2)
        BY <4>7, LostOnto, LostType
      <4> QED
        BY <2>2, <4>8, RemoveOnto, ClassIs, OntoTrans
    <3> QED
      BY <3>3, <3>4
  <2> QED
    BY <2>4, <2>5
<1> HIDE DEF J
<1>6. Onto(H1, H2)
  BY <1>4, <1>5, OntoSelf, LostOnto DEF Onto
<1> HIDE DEF H2
<1>7. Onto(H2, H3)
  BY <1>2, <1>6 DEF Onto
<1> HIDE DEF H3
<1>8. Onto(H3, H4)
  BY <1>2, <1>7 DEF Onto
<1> HIDE DEF H4
<1>9. Onto(H1, H4)
  BY <1>6, <1>7, <1>8, OntoTrans
<1>10. Onto(H, H4)
  BY <1>4, <1>9, OntoTrans
<1>11. ~H4.lost => TagAt(H, h) # NoTag
  BY <1>4, <1>9 DEF Onto
<1> QED
  BY <1>1, <1>10, <1>11, WordType


LEMMA ReleaseOnto ==
  ASSUME NEW G, HeapType(G), NEW h, h \in Int, G.lost \/ h \in Address \ {Wild}
  PROVE  Onto(G, Release(G, h))
<1> DEFINE i == Class(SizeAt(G, h))
<1>1. i \in Lists
  BY ClassIs
<1>2. Release(G, h) = IF G.heads[i] = Null THEN SetHead(G, i, h) ELSE Push(G, i, h)
  BY Zenon DEF Release
<1> HIDE DEF i
<1>3. Onto(G, SetHead(G, i, h)) /\ Onto(G, Push(G, i, h))
  BY <1>1, SetHeadOnto, PushOnto
<1> QED
  BY <1>2, <1>3

LEMMA FreeType ==
  ASSUME NEW H, HeapType(H), NEW p, p \in Int
  PROVE  ResultType(sf_free(H, p)) /\ sf_free(H, p).ptr = Null
<1> DEFINE h == p - 1
           G == Freed(H, h)
           safe == ReleaseSafe(H, h + SizeAt(H, h), G, h)
<1>1. FreedInto(H, G, h) = Result(Release(G, h), Null, "none", FALSE, safe)
  BY DEF FreedInto
<1>2. sf_free(H, p) \in {FreedInto(H, G, h), Abort(H), Refused(LostHeap, "none", FALSE)}
  BY Zenon DEF sf_free
<1> HIDE DEF safe
<1>3. Onto(H, G) /\ HeapType(G) /\ (~G.lost => h \in DOMAIN H.mem)
  BY FreedOnto DEF Onto
<1>4. G.lost \/ h \in Address \ {Wild}
  BY <1>3, InHeap
<1> HIDE DEF G
<1>5. HeapType(Release(G, h))
  BY <1>3, <1>4, ReleaseOnto DEF Onto
<1>6. ResultType(Result(Release(G, h), Null, "none", FALSE, safe))
  BY <1>5, ResultIs, AddressInt DEF Errnos
<1>7. ResultType(Abort(H)) /\ ResultType(Refused(LostHeap, "none", FALSE))
  BY LostType, ResultIs, RefusedIs, AddressInt DEF Abort, Errnos
<1>8. \A r \in {FreedInto(H, G, h), Abort(H), Refused(LostHeap, "none", FALSE)} : r.ptr = Null
  BY <1>1 DEF Result, Abort, Refused
<1> QED
  BY <1>1, <1>2, <1>6, <1>7, <1>8

LEMMA CopyOnto ==
  ASSUME NEW H, HeapType(H), NEW from, from \in Int, NEW to, to \in Int, NEW n, n \in Int
  PROVE  Onto(H, Copy(H, from, to, n))
<1> DEFINE m == [a \in DOMAIN H.mem |-> IF a \in to .. to + n - 1 THEN Word(H, from + a - to) ELSE H.mem[a]]
           G == [H EXCEPT !.mem = m]
<1>1. m \in Seq(Cells) /\ Len(m) = Len(H.mem) /\ DOMAIN m = DOMAIN H.mem
  <2>1. /\ DOMAIN H.mem = 1 .. Len(H.mem) /\ Len(H.mem) \in Nat
        /\ \A a \in DOMAIN H.mem : H.mem[a] \in Cells /\ Word(H, from + a - to) \in Cells
    BY MemType, WordType
  <2>2. m \in [1 .. Len(H.mem) -> Cells]
    BY <2>1
  <2> HIDE DEF m
  <2> QED
    BY <2>1, <2>2
<1> HIDE DEF m
<1>2. /\ G.mem = m /\ G.heads = H.heads /\ G.fresh = H.fresh /\ G.lost = H.lost
      /\ G \in [mem : Seq(Cells), heads : [Lists -> Int], fresh : {Zero, Data(NoUser)},
                lost : BOOLEAN]
  BY <1>1 DEF HeapType
<1>3. Copy(H, from, to, n) = IF n < 0 \/ to + n - 1 > Len(H.mem) THEN LostHeap ELSE G
  BY Zenon DEF Copy, m
<1> HIDE DEF G
<1>4. H.lost => m = <<>>
  BY <1>1 DEF HeapType
<1>5. HeapType(G)
  BY <1>1, <1>2, <1>4 DEF HeapType
<1>6. Onto(H, G)
  BY <1>1, <1>2, <1>5 DEF Onto
<1> QED
  BY <1>3, <1>6, LostOnto

LEMMA LargerType ==
  ASSUME NEW H, HeapType(H), ~H.lost, NEW p, p \in Int, NEW s \in Nat
  PROVE  /\ ResultType(Larger(H, p, s))
         /\ Larger(H, p, s).ptr # Null => s \in Extent
<1>1. PICK r : r = sf_malloc(H, s)
  OBVIOUS
<1>2. ResultType(r) /\ (r.ptr # Null => s \in Extent)
  BY <1>1, MallocType
<1>3. Larger(H, p, s) = Move(r, p)
  BY <1>1 DEF Larger
<1>4. CASE r.ptr = Null
  BY <1>2, <1>3, <1>4 DEF Move
<1>5. CASE r.ptr # Null
  <2> DEFINE n == SizeAt(r.heap, p - 1) - 2
             G == Copy(r.heap, p, r.ptr, n)
             last == sf_free(G, p)
             new == After(r, last)
  <2>1. Larger(H, p, s) = new
    BY <1>3, <1>5 DEF Move, CopyTo
  <2>2. HeapType(r.heap) /\ r.ptr \in Address /\ r.ptr \in Int
    BY <1>2, AddressInt DEF ResultType
  <2>3. n \in Int
    BY <2>2, WordType
  <2> HIDE DEF n
  <2>4. HeapType(G)
    BY <2>2, <2>3, CopyOnto DEF Onto
  <2> HIDE DEF G
  <2>5. ResultType(last)
    BY <2>4, FreeType
  <2> HIDE DEF last
  <2>6. PICK x, y, z, v, safe : last = [heap |-> x, ptr |-> y, errno |-> z, abort |-> v, safe |-> safe]
                                /\ HeapType(x) /\ (x.lost => x = LostHeap)
                                /\ z \in Errnos /\ v \in BOOLEAN
    BY <2>5 DEF ResultType
  <2>7. PICK t : new = [heap |-> x, ptr |-> r.ptr, errno |-> z, abort |-> v, safe |-> t]
    <3>1. PICK t : t = (last.safe /\ r.safe)
      OBVIOUS
    <3>2. new = [[last EXCEPT !.ptr = r.ptr] EXCEPT !.safe = t]
      BY <3>1, Zenon DEF After
    <3>3. new = [heap |-> x, ptr |-> r.ptr, errno |-> z, abort |-> v, safe |-> t]
      BY <2>6, <3>2
    <3> QED
      BY <3>3
  <2> HIDE DEF new
  <2>8. ResultType(new) /\ new.ptr = r.ptr
    BY <2>2, <2>6, <2>7 DEF ResultType
  <2> QED
    BY <1>2, <2>1, <2>8
<1> QED
  BY <1>4, <1>5


\* A pointer that is trusted is one behind a header, with a footer in the heap.
LEMMA TrustedIs ==
  ASSUME NEW H, HeapType(H), NEW p, p \in Int, Trusted(H, p) # "no", Trusted(H, p) # "garbage",
         NEW n, n = SizeAt(H, p - 1)
  PROVE  /\ n \in Evens /\ p - 1 \in DOMAIN H.mem
         /\ TagAt(H, p - 1) \in Tags /\ TagAt(H, p - 2 + n) \in Tags
         /\ p - 2 + n \in DOMAIN H.mem
<1> DEFINE header == TagAt(H, p - 1)
           f == p - 2 + header.size
           footer == TagAt(H, f)
           whole == footer.req + 2 = footer.size \/ footer.padded = 1 \/ header.padded = 1
<1>1. Trusted(H, p) = IF header = NoTag THEN "garbage"
                      ELSE IF f > Len(H.mem) \/ header.alloc = 0 THEN "no"
                      ELSE IF footer = NoTag THEN "garbage"
                      ELSE IF footer.alloc = 0 \/ ~whole \/ header.padded # footer.padded THEN "no"
                      ELSE "yes"
  BY Zenon DEF Trusted, whole, footer, f, header
<1>2. header # NoTag /\ footer # NoTag
  BY <1>1
<1>3. n = header.size
  BY DEF SizeAt
<1>4. footer \in Tags /\ f \in DOMAIN H.mem
  <2> HIDE DEF f
  <2> QED
    BY <1>2, WordType
<1>5. header \in Tags /\ p - 1 \in DOMAIN H.mem /\ n \in Evens
  BY <1>2, <1>3, WordType
<1> QED
  BY <1>3, <1>4, <1>5

LEMMA SmallerType ==
  ASSUME NEW H, HeapType(H), NEW p, p \in Int, Trusted(H, p) # "no", Trusted(H, p) # "garbage",
         NEW s \in Nat, s <= SizeAt(H, p - 1) - 2
  PROVE  ResultType(Smaller(H, p, s)) /\ s \in Extent
<1> DEFINE h == p - 1
           n == SizeAt(H, h)
           f == h + n - 1
           e == h + Need(s)
           rest == n - Need(s)
           r == TagAt(H, f).req
           H1 == Alloc(H, h, s)
           H2 == Set(H1, e, Tag(1, 1, rest, 0))
           H3 == Set(H2, f, Tag(1, 1, rest, r))
           kept == Set(H, f, [TagAt(H, f) EXCEPT !.req = s])
           freed == sf_free(H3, e + 1)
           split == [freed EXCEPT !.ptr = p]
           safe == s + 2 = n \/ TagAt(H, f).padded = 1
<1>1. Smaller(H, p, s) = IF n - 2 - s >= LIST_1_MIN THEN split ELSE Granted(kept, h, safe)
  BY Zenon DEF Smaller, split, freed, kept, H3, H2, H1, r, rest, e, f, n, h, safe
<1>2. f = p - 2 + n
  <2>1. n \in Int
    BY WordType
  <2> HIDE DEF n
  <2> QED
    BY <2>1
<1>3. n \in Evens /\ h \in DOMAIN H.mem /\ TagAt(H, f) \in Tags /\ f \in DOMAIN H.mem
  BY <1>2, TrustedIs
<1>4. PICK k \in Nat : n = 2 * k /\ n <= 4 * PAGE_SZ
  BY <1>3, EvensAre
<1>5. s + 2 <= n /\ s \in Extent /\ s + 2 <= 4 * PAGE_SZ
  BY <1>4, Page DEF Extent
<1>6. h \in Int /\ h >= 1 /\ f \in Int /\ f <= 4 * PAGE_SZ
  <2> HIDE DEF h, f
  <2> QED
    BY <1>3, InHeap
<1>7. p \in Address /\ h + 1 \in Address
  BY <1>4, <1>5, <1>6, Page DEF Address
<1>8. r \in Extent
  BY <1>3 DEF Tags
<1>9. ResultType(Granted(kept, h, safe))
  <2> HIDE DEF f, safe, h
  <2>1. [TagAt(H, f) EXCEPT !.req = s] \in Cells
    BY <1>3, <1>5, TagWith DEF Cells
  <2>2. HeapType(kept)
    BY <2>1, SetOnto DEF Onto
  <2> QED
    BY <1>7, <2>2, GrantedIs
<1>10. ASSUME n - 2 - s >= LIST_1_MIN PROVE ResultType(split)
  <2>1. rest \in Evens
    <3>1. PICK x \in Nat, j \in Nat : x = Need(s) /\ x = 2 * j /\ x <= s + 3
      BY NeedIs
    <3>2. n - x >= 0
      BY <1>4, <1>10, <3>1 DEF LIST_1_MIN
    <3> QED
      BY <1>3, <1>4, <3>1, <3>2, EvenLeft
  <2>2. Need(s) \in Int
    BY NeedIs
  <2>3. e + 1 \in Int
    BY <1>6, <2>2
  <2> HIDE DEF rest, r, h, f, e
  <2>4. Tag(1, 1, rest, 0) \in Cells /\ Tag(1, 1, rest, r) \in Cells
    BY <1>8, <2>1, Page DEF Tag, Tags, Cells, Extent
  <2>5. HeapType(H1)
    BY <1>5, AllocOnto DEF Onto
  <2> HIDE DEF H1
  <2>6. HeapType(H2)
    BY <2>4, <2>5, SetOnto DEF Onto
  <2> HIDE DEF H2
  <2>7. HeapType(H3)
    BY <2>4, <2>6, SetOnto DEF Onto
  <2> HIDE DEF H3
  <2>8. ResultType(freed)
    BY <2>3, <2>7, FreeType
  <2> HIDE DEF freed
  <2> QED
    BY <1>7, <2>8 DEF ResultType
<1> HIDE DEF split, n, kept, h, safe
<1> QED
  BY <1>1, <1>5, <1>9, <1>10

\* What sf_realloc returns.
LEMMA ReallocType ==
  ASSUME NEW H, HeapType(H), ~H.lost, NEW p, p \in Int, NEW s \in Nat
  PROVE  /\ ResultType(sf_realloc(H, p, s))
         /\ sf_realloc(H, p, s).ptr # Null => s \in Extent
<1>1. sf_realloc(H, p, s) =
        IF Trusted(H, p) = "no" THEN Abort(H)
        ELSE IF Trusted(H, p) = "garbage" THEN Refused(LostHeap, "none", FALSE)
        ELSE IF s = 0 THEN sf_free(H, p)
        ELSE IF s > SizeAt(H, p - 1) - 2 THEN Larger(H, p, s)
        ELSE Smaller(H, p, s)
  BY DEF sf_realloc
<1>2. ResultType(Abort(H)) /\ ResultType(Refused(LostHeap, "none", FALSE))
  BY LostType, ResultIs, RefusedIs, AddressInt DEF Abort, Errnos
<1>3. Abort(H).ptr = Null /\ Refused(LostHeap, "none", FALSE).ptr = Null
  BY DEF Result, Abort, Refused
<1>4. ResultType(sf_free(H, p)) /\ sf_free(H, p).ptr = Null
  BY FreeType
<1>5. ResultType(Larger(H, p, s)) /\ (Larger(H, p, s).ptr # Null => s \in Extent)
  BY LargerType
<1>6. ASSUME Trusted(H, p) # "no", Trusted(H, p) # "garbage", ~(s > SizeAt(H, p - 1) - 2)
      PROVE  ResultType(Smaller(H, p, s)) /\ s \in Extent
  <2>1. SizeAt(H, p - 1) \in Int
    BY WordType
  <2>2. s <= SizeAt(H, p - 1) - 2
    BY <1>6, <2>1
  <2> QED
    BY <1>6, <2>2, SmallerType
<1> QED
  BY <1>1, <1>2, <1>3, <1>4, <1>5, <1>6


-----------------------------------------------------------------------------
(* Every history, harmed or not *)

Typed ==
  /\ HeapType(heap) /\ (heap.lost => heap = LostHeap)
  /\ region \in [Users -> [at : Address, size : Extent, kept : Extent]]
  /\ sf_errno \in Errnos
  /\ aborted \in BOOLEAN /\ harmed \in BOOLEAN /\ calls \in 0 .. MaxCalls

LEMMA TypedInit == Init => Typed
<1> SUFFICES ASSUME Init PROVE Typed
  OBVIOUS
<1>1. PICK w \in {Zero, Data(NoUser)} :
        heap = [mem |-> <<>>, heads |-> [i \in Lists |-> Null], fresh |-> w, lost |-> FALSE]
  BY DEF Init
<1>2. /\ <<>> \in Seq(Cells) /\ Len(<<>>) = 0 /\ 0 = 0 * PAGE_SZ
      /\ [i \in Lists |-> Null] \in [Lists -> Address \ {Wild}]
      /\ [i \in Lists |-> Null] \in [Lists -> Int]
  BY Page, NullAddress
<1>3. HeapType(heap) /\ ~heap.lost
  BY <1>1, <1>2 DEF HeapType
<1>4. region \in [Users -> [at : Address, size : Extent, kept : Extent]]
  BY Page, NullAddress DEF Init, Nothing, Extent
<1> QED
  BY <1>3, <1>4, SizesAssumption, 0 \in 0 .. MaxCalls DEF Init, Typed, Errnos

\* What a call leaves when its result has the type.
LEMMA CallTyped ==
  ASSUME Typed, NEW r, ResultType(r), Call(r),
         region' \in [Users -> [at : Address, size : Extent, kept : Extent]]
  PROVE  Typed'
<1>1. HeapType(heap') /\ (heap'.lost => heap' = LostHeap) /\ sf_errno' \in Errnos
      /\ aborted' \in BOOLEAN
  BY DEF Call, ResultType
<1>2. harmed' \in BOOLEAN
  BY Zenon DEF Call
<1>3. calls' \in 0 .. MaxCalls
  BY SizesAssumption DEF Call, Typed
<1> QED
  BY <1>1, <1>2, <1>3 DEF Typed

LEMMA MallocTyped ==
  ASSUME Typed, NEW u \in Users, NEW s \in Sizes, Malloc(u, s)
  PROVE  Typed'
<1>1. PICK r : /\ r = sf_malloc(heap, s)
               /\ region' = IF r.ptr = Null THEN region
                            ELSE [region EXCEPT ![u] = [at |-> r.ptr, size |-> s, kept |-> 0]]
               /\ Call(r)
  BY DEF Malloc
<1>2. HeapType(heap) /\ ~heap.lost /\ s \in Nat
  BY <1>1, SizesAssumption DEF Typed, Call
<1>3. ResultType(r) /\ (r.ptr # Null => s \in Extent)
  BY <1>1, <1>2, MallocType
<1>4. r.ptr # Null => [at |-> r.ptr, size |-> s, kept |-> 0] \in [at : Address, size : Extent, kept : Extent]
  BY <1>3, Page DEF ResultType, Extent
<1>5. region' \in [Users -> [at : Address, size : Extent, kept : Extent]]
  BY <1>1, <1>4 DEF Typed
<1> QED
  BY <1>1, <1>3, <1>5, CallTyped

LEMMA ReallocTyped ==
  ASSUME Typed, NEW u \in Users, NEW s \in Sizes, Realloc(u, s)
  PROVE  Typed'
<1>1. PICK r : /\ r = sf_realloc(heap, region[u].at, s)
               /\ region' =
                    IF s = 0 THEN [region EXCEPT ![u] = Nothing]
                    ELSE IF r.ptr = Null THEN region
                    ELSE [region EXCEPT ![u] =
                            [at |-> r.ptr, size |-> s, kept |-> Min({s, region[u].kept})]]
               /\ Call(r)
  BY DEF Realloc, Typed
<1>2. HeapType(heap) /\ ~heap.lost /\ s \in Nat
  BY <1>1, SizesAssumption DEF Typed, Call
<1>3. region[u] \in [at : Address, size : Extent, kept : Extent] /\ region[u].at \in Int
  BY AddressInt DEF Typed
<1>4. ResultType(r) /\ (r.ptr # Null => s \in Extent)
  BY <1>1, <1>2, <1>3, ReallocType
<1>5. Nothing \in [at : Address, size : Extent, kept : Extent]
  BY Page, NullAddress DEF Nothing, Extent
<1>6. ASSUME r.ptr # Null
      PROVE  [at |-> r.ptr, size |-> s, kept |-> Min({s, region[u].kept})]
               \in [at : Address, size : Extent, kept : Extent]
  <2>1. s \in Extent /\ region[u].kept \in Extent /\ r.ptr \in Address
    BY <1>3, <1>4, <1>6 DEF ResultType
  <2>2. {s, region[u].kept} \in SUBSET Nat /\ {s, region[u].kept} # {}
    BY <2>1 DEF Extent
  <2>3. Min({s, region[u].kept}) \in {s, region[u].kept}
    BY <2>2, LeastOf
  <2> QED
    BY <2>1, <2>3
<1>7. region' \in [Users -> [at : Address, size : Extent, kept : Extent]]
  BY <1>1, <1>5, <1>6 DEF Typed
<1> QED
  BY <1>1, <1>4, <1>7, CallTyped

LEMMA FreeTyped ==
  ASSUME Typed, NEW u \in Users, Free(u)
  PROVE  Typed'
<1>1. PICK r : r = sf_free(heap, region[u].at) /\ Call(r)
  BY DEF Free
<1>2. HeapType(heap) /\ region[u].at \in Int
  BY AddressInt DEF Typed
<1>3. ResultType(r)
  BY <1>1, <1>2, FreeType
<1>4. Nothing \in [at : Address, size : Extent, kept : Extent]
  BY Page, NullAddress DEF Nothing, Extent
<1>5. region' \in [Users -> [at : Address, size : Extent, kept : Extent]]
  BY <1>4 DEF Free, Typed
<1> QED
  BY <1>1, <1>3, <1>5, CallTyped

LEMMA WriteTyped ==
  ASSUME Typed, NEW u \in Users, Write(u)
  PROVE  Typed'
<1> DEFINE own == region[u].at .. region[u].at + region[u].size - 1
           m == [a \in DOMAIN heap.mem |-> IF a \in own THEN Data(u) ELSE heap.mem[a]]
           G == [heap EXCEPT !.mem = m]
<1>1. HeapType(heap) /\ ~heap.lost /\ heap' = G
  BY Zenon DEF Write, Typed
<1>2. m \in Seq(Cells) /\ Len(m) = Len(heap.mem)
  <2>1. /\ DOMAIN heap.mem = 1 .. Len(heap.mem) /\ Len(heap.mem) \in Nat
        /\ \A a \in DOMAIN heap.mem : heap.mem[a] \in Cells
    BY <1>1, MemType
  <2>2. Data(u) \in Cells
    BY DEF Data, Cells
  <2>3. m \in [1 .. Len(heap.mem) -> Cells]
    BY <2>1, <2>2
  <2> HIDE DEF m
  <2> QED
    BY <2>1, <2>3
<1> HIDE DEF m
<1>3. /\ G.mem = m /\ G.heads = heap.heads /\ G.fresh = heap.fresh /\ G.lost = heap.lost
      /\ G \in [mem : Seq(Cells), heads : [Lists -> Int], fresh : {Zero, Data(NoUser)},
                lost : BOOLEAN]
  BY <1>1, <1>2 DEF HeapType
<1> HIDE DEF G
<1>4. HeapType(heap') /\ (heap'.lost => heap' = LostHeap)
  BY <1>1, <1>2, <1>3 DEF HeapType
<1>5. region[u] \in [at : Address, size : Extent, kept : Extent]
  BY DEF Typed
<1>6. region' \in [Users -> [at : Address, size : Extent, kept : Extent]]
  <2>1. region' = [region EXCEPT ![u].kept = region[u].size]
    BY Zenon DEF Write
  <2> QED
    BY <1>5, <2>1 DEF Typed
<1> QED
  BY <1>4, <1>6 DEF Write, Typed

LEMMA TypedStep == Typed /\ [Next]_vars => Typed'
<1> SUFFICES ASSUME Typed, [Next]_vars PROVE Typed'
  OBVIOUS
<1>1. ASSUME NEW u \in Users, Free(u) PROVE Typed'
  BY <1>1, FreeTyped
<1>2. ASSUME NEW u \in Users, Write(u) PROVE Typed'
  BY <1>2, WriteTyped
<1>3. ASSUME NEW u \in Users, NEW s \in Sizes, Malloc(u, s) PROVE Typed'
  BY <1>3, MallocTyped
<1>4. ASSUME NEW u \in Users, NEW s \in Sizes, Realloc(u, s) PROVE Typed'
  BY <1>4, ReallocTyped
<1>5. CASE UNCHANGED vars
  BY <1>5 DEF Typed, vars
<1> QED
  BY <1>1, <1>2, <1>3, <1>4, <1>5 DEF Next

LEMMA TypedOK == Typed => TypeOK
<1> SUFFICES ASSUME Typed PROVE TypeOK
  OBVIOUS
<1>1. HeapType(heap) /\ (heap.lost => heap = LostHeap)
  BY DEF Typed
<1>2. Len(heap.mem) \in {k * PAGE_SZ : k \in 0 .. 4}
  BY <1>1 DEF HeapType
<1>3. ASSUME NEW a \in DOMAIN heap.mem, NEW w, w = heap.mem[a]
      PROVE  \/ "of" \in DOMAIN w /\ w.of \in Users \cup {NoUser}
             \/ "at" \in DOMAIN w /\ w.at \in Address
             \/ "size" \in DOMAIN w /\ w.alloc \in 0 .. 1 /\ w.padded \in 0 .. 1
                /\ w.size \in {2 * k : k \in 0 .. 2 * PAGE_SZ} /\ w.req \in 0 .. 4 * PAGE_SZ
  <2>1. w \in Cells
    BY <1>1, <1>3, MemType
  <2> QED
    BY <2>1 DEF Cells, Tags, Evens, Extent
<1>4. heap.heads \in [Lists -> Address \ {Wild}]
  <2>1. CASE heap.lost
    BY <1>1, <2>1, NullAddress DEF LostHeap, Lists
  <2>2. CASE ~heap.lost
    BY <1>1, <2>2 DEF HeapType
  <2> QED
    BY <2>1, <2>2
<1> QED
  BY <1>2, <1>3, <1>4 DEF Typed, TypeOK, Extent, Errnos

\* Whatever the callers do, in a history the allocator survives or in one it does not:
\* until the program goes astray each word of the heap is a tag of a legal size, a link
\* or data, each head of seg_free_list is NULL or an address of the heap, and no pointer
\* that sf_malloc or sf_realloc returns lies outside the four pages.
THEOREM TypeCorrect == Spec => []TypeOK
<1>1. Init => Typed
  BY TypedInit
<1>2. Typed /\ [Next]_vars => Typed'
  BY TypedStep
<1>3. Typed => TypeOK
  BY TypedOK
<1> QED
  BY <1>1, <1>2, <1>3, PTL DEF Spec

-----------------------------------------------------------------------------
(* Reading after writing *)

\* Heap G is heap H but for the words at the addresses in A, and the heads.
Alike(H, G, A) ==
  /\ HeapType(G) /\ ~G.lost /\ G.fresh = H.fresh
  /\ Len(G.mem) = Len(H.mem) /\ DOMAIN G.mem = DOMAIN H.mem
  /\ \A a \in DOMAIN H.mem : a \notin A => G.mem[a] = H.mem[a]

LEMMA AlikeTrans ==
  \A H, G, K, A, C, D : Alike(H, G, A) /\ Alike(G, K, C) /\ A \subseteq D /\ C \subseteq D => Alike(H, K, D)
BY DEF Alike

LEMMA AlikeThen ==
  ASSUME NEW H, NEW G, NEW K, NEW A, NEW C, NEW D,
         Alike(H, G, A), Alike(G, K, C), A \subseteq D, C \subseteq D
  PROVE  Alike(H, K, D)
BY AlikeTrans

LEMMA AlikeAlso ==
  ASSUME NEW H, NEW G, NEW K, NEW D, Alike(H, G, D), NEW C, Alike(G, K, C), C \subseteq D
  PROVE  Alike(H, K, D)
BY AlikeTrans

LEMMA AlikeSelf == \A H : HeapType(H) /\ ~H.lost => Alike(H, H, {})
BY DEF Alike

LEMMA AlikeReads ==
  ASSUME NEW H, NEW G, NEW A, Alike(H, G, A), NEW a, a \notin A
  PROVE  /\ Word(G, a) = Word(H, a) /\ TagAt(G, a) = TagAt(H, a)
         /\ SizeAt(G, a) = SizeAt(H, a) /\ Pointer(G, a) = Pointer(H, a)
<1>1. Word(G, a) = Word(H, a)
  BY DEF Alike, Word
<1>2. TagAt(G, a) = TagAt(H, a)
  BY <1>1 DEF TagAt
<1> QED
  BY <1>1, <1>2 DEF Pointer, SizeAt

LEMMA SetAlike ==
  ASSUME NEW H, HeapType(H), ~H.lost, NEW a \in DOMAIN H.mem, NEW w \in Cells
  PROVE  /\ Alike(H, Set(H, a, w), {a})
         /\ Set(H, a, w).heads = H.heads /\ Set(H, a, w).mem[a] = w
BY SetWord DEF Alike

LEMMA PtrReads ==
  ASSUME NEW G, NEW a \in DOMAIN G.mem, NEW b \in Address, G.mem[a] = Ptr(b)
  PROVE  Pointer(G, a) = b
<1>1. Word(G, a) = Ptr(b)
  BY DEF Word
<1>2. CASE b = Null
  BY <1>1, <1>2 DEF Ptr, Pointer
<1>3. CASE b # Null
  <2>1. Word(G, a) = [at |-> b]
    BY <1>1, <1>3 DEF Ptr
  <2>2. [at |-> b] # Zero
    BY DEF Zero, Tag
  <2> QED
    BY <2>1, <2>2 DEF Pointer
<1> QED
  BY <1>2, <1>3

\* A link is written: it is read back, and all others are what they were.
NextSet(H, G, a, x) ==
  /\ Alike(H, G, {a + 1}) /\ G.heads = H.heads /\ NextOf(G, a) = x
  /\ \A b \in Int : b # a => NextOf(G, b) = NextOf(H, b)
  /\ \A b \in Int : b + 1 # a => PrevOf(G, b) = PrevOf(H, b)

PrevSet(H, G, a, x) ==
  /\ Alike(H, G, {a + 2}) /\ G.heads = H.heads /\ PrevOf(G, a) = x
  /\ \A b \in Int : b # a => PrevOf(G, b) = PrevOf(H, b)
  /\ \A b \in Int : b # a + 1 => NextOf(G, b) = NextOf(H, b)

LEMMA SetNextReads ==
  ASSUME NEW H, HeapType(H), ~H.lost, NEW a \in Int, a + 1 \in DOMAIN H.mem, NEW x \in Address,
         NEW G, G = SetNext(H, a, x)
  PROVE  NextSet(H, G, a, x)
<1>1. G = Set(H, a + 1, Ptr(x))
  BY DEF SetNext
<1>2. Alike(H, G, {a + 1}) /\ G.heads = H.heads /\ G.mem[a + 1] = Ptr(x)
  BY <1>1, PtrType, SetAlike
<1>3. NextOf(G, a) = x
  BY <1>2, PtrReads DEF NextOf, Alike
<1>4. ASSUME NEW b \in Int, b # a PROVE NextOf(G, b) = NextOf(H, b)
  <2>1. b + 1 \notin {a + 1}
    BY <1>4
  <2> QED
    BY <1>2, <2>1, AlikeReads DEF NextOf
<1>5. ASSUME NEW b \in Int, b + 1 # a PROVE PrevOf(G, b) = PrevOf(H, b)
  <2>1. b + 2 \notin {a + 1}
    BY <1>5
  <2> QED
    BY <1>2, <2>1, AlikeReads DEF PrevOf
<1> QED
  BY <1>2, <1>3, <1>4, <1>5 DEF NextSet

LEMMA SetPrevReads ==
  ASSUME NEW H, HeapType(H), ~H.lost, NEW a \in Int, a + 2 \in DOMAIN H.mem, NEW x \in Address,
         NEW G, G = SetPrev(H, a, x)
  PROVE  PrevSet(H, G, a, x)
<1>1. G = Set(H, a + 2, Ptr(x))
  BY DEF SetPrev
<1>2. Alike(H, G, {a + 2}) /\ G.heads = H.heads /\ G.mem[a + 2] = Ptr(x)
  BY <1>1, PtrType, SetAlike, SMTT(20)
<1>3. PrevOf(G, a) = x
  BY <1>2, PtrReads DEF PrevOf, Alike
<1>4. ASSUME NEW b \in Int, b # a PROVE PrevOf(G, b) = PrevOf(H, b)
  <2>1. b + 2 \notin {a + 2}
    BY <1>4
  <2> QED
    BY <1>2, <2>1, AlikeReads DEF PrevOf
<1>5. ASSUME NEW b \in Int, b # a + 1 PROVE NextOf(G, b) = NextOf(H, b)
  <2>1. b + 1 \notin {a + 2}
    BY <1>5
  <2> QED
    BY <1>2, <2>1, AlikeReads DEF NextOf
<1> QED
  BY <1>2, <1>3, <1>4, <1>5 DEF PrevSet

LEMMA SetHeadReads ==
  ASSUME NEW H, HeapType(H), ~H.lost, NEW i \in Lists, NEW x \in Address \ {Wild},
         NEW G, G = SetHead(H, i, x)
  PROVE  /\ Alike(H, G, {}) /\ G.heads = [H.heads EXCEPT ![i] = x] /\ G.mem = H.mem
         /\ \A b : NextOf(G, b) = NextOf(H, b) /\ PrevOf(G, b) = PrevOf(H, b)
<1>1. G.mem = H.mem /\ G.heads = [H.heads EXCEPT ![i] = x] /\ G.fresh = H.fresh /\ G.lost = H.lost
  BY DEF SetHead, HeapType
<1>2. HeapType(G)
  BY AddressInt, SetHeadOnto DEF Onto
<1>3. Alike(H, G, {})
  BY <1>1, <1>2 DEF Alike
<1> QED
  BY <1>1, <1>3, AlikeReads DEF NextOf, PrevOf

HeadSet(H, G, i, x) ==
  /\ Alike(H, G, {}) /\ G.heads = [H.heads EXCEPT ![i] = x] /\ G.mem = H.mem
  /\ \A b : NextOf(G, b) = NextOf(H, b) /\ PrevOf(G, b) = PrevOf(H, b)

\* The same after other steps.
LEMMA HeadAfter ==
  ASSUME NEW H, NEW K, NEW A, Alike(H, K, A), NEW i, i \in Lists, NEW x, x \in Address \ {Wild}
  PROVE  HeadSet(K, SetHead(K, i, x), i, x)
BY SetHeadReads DEF HeadSet, Alike

LEMMA NextAfter ==
  ASSUME NEW H, NEW K, NEW A, Alike(H, K, A), NEW a, a \in Int, a + 1 \in DOMAIN H.mem,
         NEW x, x \in Address
  PROVE  NextSet(K, SetNext(K, a, x), a, x)
<1>1. HeapType(K) /\ ~K.lost /\ a + 1 \in DOMAIN K.mem
  BY DEF Alike
<1> QED
  BY <1>1, SetNextReads

LEMMA PrevAfter ==
  ASSUME NEW H, NEW K, NEW A, Alike(H, K, A), NEW a, a \in Int, a + 2 \in DOMAIN H.mem,
         NEW x, x \in Address
  PROVE  PrevSet(K, SetPrev(K, a, x), a, x)
<1>1. HeapType(K) /\ ~K.lost /\ a + 2 \in DOMAIN K.mem
  BY DEF Alike
<1> QED
  BY <1>1, SetPrevReads

\* A tag is written.
LEMMA SetTagReads ==
  ASSUME NEW H, HeapType(H), ~H.lost, NEW a \in DOMAIN H.mem, NEW w \in Tags
  PROVE  /\ Alike(H, Set(H, a, w), {a}) /\ Set(H, a, w).heads = H.heads
         /\ TagAt(Set(H, a, w), a) = w
<1>1. w \in Cells
  BY DEF Cells
<1>2. Alike(H, Set(H, a, w), {a}) /\ Set(H, a, w).heads = H.heads /\ Set(H, a, w).mem[a] = w
  BY <1>1, SetAlike, SMTT(20)
<1>3. HeapType(Set(H, a, w)) /\ a \in DOMAIN Set(H, a, w).mem
  BY <1>2 DEF Alike
<1> QED
  BY <1>2, <1>3, WordType

-----------------------------------------------------------------------------
(* Exact lists *)

\* The blocks of F are threaded on their lists: cl is the list of each, hd the heads,
\* nx and pv the links.  rk decreases along a list, so that no list is a loop.
Threaded(F, cl, rk, hd, nx, pv) ==
  /\ Null \notin F
  /\ \A i \in Lists : hd[i] # Null => hd[i] \in F /\ cl[hd[i]] = i /\ pv[hd[i]] = Null
  /\ \A b \in F :
       /\ nx[b] # Null => nx[b] \in F /\ cl[nx[b]] = cl[b] /\ pv[nx[b]] = b /\ rk[nx[b]] < rk[b]
       /\ pv[b] = Null => hd[cl[b]] = b
       /\ pv[b] # Null => pv[b] \in F /\ nx[pv[b]] = b

\* Block p leaves its list: its neighbours are linked with each other.
Parts(F, p, hd, nx, pv, hd2, nx2, pv2) ==
  /\ \A i \in Lists : hd2[i] = IF hd[i] = p THEN nx[p] ELSE hd[i]
  /\ \A b \in F \ {p} : nx2[b] = IF nx[b] = p THEN nx[p] ELSE nx[b]
  /\ \A b \in F \ {p} : pv2[b] = IF pv[b] = p THEN pv[p] ELSE pv[b]

LEMMA Unthread ==
  ASSUME NEW F \in SUBSET Int, NEW cl \in [Int -> Lists], NEW rk \in [Int -> Nat],
         NEW hd, NEW nx, NEW pv, Threaded(F, cl, rk, hd, nx, pv),
         NEW p \in F, NEW hd2, NEW nx2, NEW pv2, Parts(F, p, hd, nx, pv, hd2, nx2, pv2)
  PROVE  Threaded(F \ {p}, cl, rk, hd2, nx2, pv2)
<1>0. /\ \A i \in Lists : hd2[i] = IF hd[i] = p THEN nx[p] ELSE hd[i]
      /\ \A b \in F \ {p} : nx2[b] = IF nx[b] = p THEN nx[p] ELSE nx[b]
      /\ \A b \in F \ {p} : pv2[b] = IF pv[b] = p THEN pv[p] ELSE pv[b]
  BY DEF Parts
<1> USE <1>0
<1>1. Null \notin F /\ p # Null
  BY DEF Threaded
<1>2. nx[p] # p /\ (nx[p] # Null => nx[p] \in F \ {p})
  <2>1. nx[p] # Null => nx[p] \in F /\ rk[nx[p]] < rk[p]
    BY DEF Threaded
  <2>2. PICK n \in Nat : n = rk[p]
    OBVIOUS
  <2>3. ~(n < n)
    OBVIOUS
  <2> QED
    BY <1>1, <2>1, <2>2, <2>3
<1>3. ASSUME NEW i \in Lists, hd2[i] # Null
      PROVE  hd2[i] \in F \ {p} /\ cl[hd2[i]] = i /\ pv2[hd2[i]] = Null
  <2>1. CASE hd[i] = p
    <3>1. pv[p] = Null /\ cl[p] = i /\ hd2[i] = nx[p]
      BY <1>1, <2>1 DEF Threaded
    <3>2. nx[p] \in F \ {p} /\ cl[nx[p]] = i /\ pv[nx[p]] = p
      BY <1>2, <1>3, <3>1 DEF Threaded
    <3> QED
      BY <3>1, <3>2
  <2>2. CASE hd[i] # p
    <3>1. hd2[i] = hd[i]
      BY <2>2
    <3>2. hd[i] \in F \ {p} /\ cl[hd[i]] = i /\ pv[hd[i]] = Null
      BY <1>3, <2>2, <3>1 DEF Threaded
    <3> QED
      BY <1>1, <3>1, <3>2
  <2> QED
    BY <2>1, <2>2
<1>4. ASSUME NEW b \in F \ {p}, nx2[b] # Null
      PROVE  nx2[b] \in F \ {p} /\ cl[nx2[b]] = cl[b] /\ pv2[nx2[b]] = b /\ rk[nx2[b]] < rk[b]
  <2>0. rk[b] \in Nat /\ rk[p] \in Nat
    OBVIOUS
  <2>1. CASE nx[b] = p
    <3>1. pv[p] = b /\ rk[p] < rk[b] /\ cl[p] = cl[b] /\ nx2[b] = nx[p]
      BY <1>1, <2>1 DEF Threaded
    <3>2. nx[p] \in F \ {p} /\ cl[nx[p]] = cl[p] /\ pv[nx[p]] = p /\ rk[nx[p]] < rk[p]
      BY <1>2, <1>4, <3>1 DEF Threaded
    <3>3. pv2[nx[p]] = b
      BY <3>1, <3>2
    <3>4. rk[nx[p]] < rk[b]
      <4>1. PICK x \in Nat, y \in Nat, z \in Nat : x = rk[nx[p]] /\ y = rk[p] /\ z = rk[b]
        BY <3>2
      <4>2. x < y /\ y < z
        BY <3>1, <3>2, <4>1
      <4> QED
        BY <4>1, <4>2
    <3> QED
      BY <3>1, <3>2, <3>3, <3>4
  <2>2. CASE nx[b] # p
    <3>1. nx[b] \in F \ {p} /\ cl[nx[b]] = cl[b] /\ pv[nx[b]] = b /\ rk[nx[b]] < rk[b]
      BY <1>4, <2>2 DEF Threaded
    <3> QED
      BY <2>2, <3>1
  <2> QED
    BY <2>1, <2>2
<1>5. ASSUME NEW b \in F \ {p}
      PROVE  /\ pv2[b] = Null => hd2[cl[b]] = b
             /\ pv2[b] # Null => pv2[b] \in F \ {p} /\ nx2[pv2[b]] = b
  <2>1. CASE pv[b] = p
    <3>1. nx[p] = b /\ cl[b] = cl[p] /\ pv2[b] = pv[p] /\ cl[p] \in Lists
      BY <1>1, <2>1 DEF Threaded
    <3>2. pv[p] = Null => hd[cl[p]] = p
      BY DEF Threaded
    <3>3. pv[p] # Null => pv[p] \in F /\ nx[pv[p]] = p /\ pv[p] # p
      BY <1>2 DEF Threaded
    <3> QED
      BY <3>1, <3>2, <3>3
  <2>2. CASE pv[b] # p
    <3>1. pv2[b] = pv[b] /\ cl[b] \in Lists
      BY <2>2
    <3>2. pv[b] = Null => hd[cl[b]] = b
      BY DEF Threaded
    <3>3. pv[b] # Null => pv[b] \in F \ {p} /\ nx[pv[b]] = b
      BY <2>2 DEF Threaded
    <3> QED
      BY <3>1, <3>2, <3>3
  <2> QED
    BY <2>1, <2>2
<1> QED
  BY <1>1, <1>3, <1>4, <1>5 DEF Threaded

\* Block f becomes the head of list i.
Joins(F, f, i, hd, nx, pv, hd2, nx2, pv2) ==
  /\ \A j \in Lists : hd2[j] = IF j = i THEN f ELSE hd[j]
  /\ \A b \in F : nx2[b] = nx[b]
  /\ \A b \in F : pv2[b] = IF b = hd[i] THEN f ELSE pv[b]
  /\ nx2[f] = hd[i] /\ pv2[f] = Null

LEMMA Thread ==
  ASSUME NEW F \in SUBSET Int, NEW cl \in [Int -> Lists], NEW rk \in [Int -> Nat],
         NEW hd, NEW nx, NEW pv, Threaded(F, cl, rk, hd, nx, pv),
         NEW f \in Int, f \notin F, f # Null, NEW i \in Lists, NEW hd2, NEW nx2, NEW pv2,
         Joins(F, f, i, hd, nx, pv, hd2, nx2, pv2)
  PROVE  Threaded(F \cup {f}, [cl EXCEPT ![f] = i],
                  [rk EXCEPT ![f] = IF hd[i] = Null THEN 0 ELSE rk[hd[i]] + 1], hd2, nx2, pv2)
<1>0. /\ \A j \in Lists : hd2[j] = IF j = i THEN f ELSE hd[j]
      /\ \A b \in F : nx2[b] = nx[b]
      /\ \A b \in F : pv2[b] = IF b = hd[i] THEN f ELSE pv[b]
      /\ nx2[f] = hd[i] /\ pv2[f] = Null
  BY DEF Joins
<1> USE <1>0
<1> DEFINE cl2 == [cl EXCEPT ![f] = i]
           rk2 == [rk EXCEPT ![f] = IF hd[i] = Null THEN 0 ELSE rk[hd[i]] + 1]
<1>1. Null \notin F \cup {f}
  BY DEF Threaded
<1>2. cl2[f] = i /\ (\A b \in F : cl2[b] = cl[b]) /\ \A b \in F : rk2[b] = rk[b]
  OBVIOUS
<1>3. hd[i] # Null => hd[i] \in F /\ rk2[hd[i]] < rk2[f] /\ cl[hd[i]] = i /\ pv[hd[i]] = Null
  <2>1. hd[i] # Null => hd[i] \in F /\ cl[hd[i]] = i /\ pv[hd[i]] = Null
    BY DEF Threaded
  <2>2. hd[i] \in F => rk[hd[i]] \in Nat /\ rk2[hd[i]] = rk[hd[i]]
    OBVIOUS
  <2>3. hd[i] # Null => rk2[f] = rk[hd[i]] + 1
    OBVIOUS
  <2> QED
    BY <2>1, <2>2, <2>3
<1> HIDE DEF cl2, rk2
<1>4. ASSUME NEW j \in Lists, hd2[j] # Null
      PROVE  hd2[j] \in F \cup {f} /\ cl2[hd2[j]] = j /\ pv2[hd2[j]] = Null
  <2>1. CASE j = i
    BY <1>2, <2>1
  <2>2. CASE j # i
    <3>1. hd[j] \in F /\ cl[hd[j]] = j /\ pv[hd[j]] = Null /\ hd2[j] = hd[j]
      BY <1>4, <2>2 DEF Threaded
    <3>2. hd[j] # hd[i]
      BY <1>3, <2>2, <3>1, <1>1
    <3>3. pv2[hd[j]] = pv[hd[j]] /\ cl2[hd[j]] = cl[hd[j]]
      BY <1>2, <3>1, <3>2
    <3> QED
      BY <3>1, <3>3
  <2> QED
    BY <2>1, <2>2
<1>5. ASSUME NEW b \in F \cup {f}, nx2[b] # Null
      PROVE  nx2[b] \in F \cup {f} /\ cl2[nx2[b]] = cl2[b] /\ pv2[nx2[b]] = b /\ rk2[nx2[b]] < rk2[b]
  <2>1. CASE b = f
    <3>1. nx2[b] = hd[i] /\ hd[i] # Null
      BY <1>5, <2>1
    <3>2. hd[i] \in F /\ rk2[hd[i]] < rk2[f] /\ cl[hd[i]] = i
      BY <1>3, <3>1
    <3>3. pv2[hd[i]] = f /\ cl2[hd[i]] = i
      BY <1>2, <3>2
    <3> QED
      BY <1>2, <2>1, <3>1, <3>2, <3>3
  <2>2. CASE b # f
    <3>1. b \in F /\ nx2[b] = nx[b]
      BY <2>2
    <3>2. nx[b] \in F /\ cl[nx[b]] = cl[b] /\ pv[nx[b]] = b /\ rk[nx[b]] < rk[b]
      BY <1>5, <3>1 DEF Threaded
    <3>3. nx[b] # hd[i]
      BY <1>1, <1>3, <3>1, <3>2
    <3>4. cl2[nx[b]] = cl[nx[b]] /\ cl2[b] = cl[b] /\ rk2[nx[b]] = rk[nx[b]] /\ rk2[b] = rk[b]
      BY <1>2, <3>1, <3>2
    <3>5. pv2[nx[b]] = b
      BY <3>2, <3>3
    <3> QED
      BY <3>1, <3>2, <3>4, <3>5
  <2> QED
    BY <2>1, <2>2
<1>6. ASSUME NEW b \in F \cup {f}
      PROVE  /\ pv2[b] = Null => hd2[cl2[b]] = b
             /\ pv2[b] # Null => pv2[b] \in F \cup {f} /\ nx2[pv2[b]] = b
  <2>1. CASE b = f
    BY <1>2, <2>1
  <2>2. CASE b # f /\ b = hd[i]
    BY <2>2
  <2>3. CASE b # f /\ b # hd[i]
    <3>1. b \in F /\ pv2[b] = pv[b] /\ cl2[b] = cl[b] /\ cl[b] \in Lists
      BY <1>2, <2>3
    <3>2. pv[b] = Null => hd[cl[b]] = b /\ cl[b] # i
      BY <2>3, <3>1 DEF Threaded
    <3>3. pv[b] # Null => pv[b] \in F /\ nx[pv[b]] = b
      BY <3>1 DEF Threaded
    <3> QED
      BY <3>1, <3>2, <3>3
  <2> QED
    BY <2>1, <2>2, <2>3
<1>7. Threaded(F \cup {f}, cl2, rk2, hd2, nx2, pv2)
  BY <1>1, <1>4, <1>5, <1>6 DEF Threaded
<1> QED
  BY <1>7 DEF cl2, rk2


\* The words that hold the links of the blocks of F.
Links(F) == {b + 1 : b \in F} \cup {b + 2 : b \in F}

\* Blocks of at least four words, on exact lists.
Linked(H, F, cl, rk) ==
  /\ HeapType(H) /\ ~H.lost
  /\ F \in SUBSET Int /\ cl \in [Int -> Lists] /\ rk \in [Int -> Nat]
  /\ \A b \in F : b >= 1 /\ b + 3 <= Len(H.mem)
  /\ \A b, c \in F : b < c => b + 4 <= c
  /\ Threaded(F, cl, rk, H.heads, [b \in Int |-> NextOf(H, b)], [b \in Int |-> PrevOf(H, b)])

LEMMA LinkedIs ==
  ASSUME NEW H, NEW F, NEW cl, NEW rk, Linked(H, F, cl, rk)
  PROVE  /\ Null \notin F
         /\ \A i \in Lists : H.heads[i] # Null =>
              H.heads[i] \in F /\ cl[H.heads[i]] = i /\ PrevOf(H, H.heads[i]) = Null
         /\ \A b \in F :
              /\ NextOf(H, b) # Null =>
                   /\ NextOf(H, b) \in F /\ cl[NextOf(H, b)] = cl[b]
                   /\ PrevOf(H, NextOf(H, b)) = b /\ rk[NextOf(H, b)] < rk[b]
              /\ PrevOf(H, b) = Null => H.heads[cl[b]] = b
              /\ PrevOf(H, b) # Null => PrevOf(H, b) \in F /\ NextOf(H, PrevOf(H, b)) = b
         /\ \A b \in F : b \in Int /\ cl[b] \in Lists /\ rk[b] \in Nat
         /\ HeapType(H) /\ ~H.lost
         /\ \A b \in F : b \in DOMAIN H.mem /\ b + 1 \in DOMAIN H.mem /\ b + 2 \in DOMAIN H.mem
                         /\ b \in Address \ {Wild} /\ b \in Address
         /\ \A b, c \in F : b + 1 # c /\ b + 2 # c /\ b + 3 # c
<1> DEFINE nx == [b \in Int |-> NextOf(H, b)]
           pv == [b \in Int |-> PrevOf(H, b)]
<1>1. Threaded(F, cl, rk, H.heads, nx, pv)
  BY Zenon DEF Linked
<1>2. F \in SUBSET Int /\ cl \in [Int -> Lists] /\ rk \in [Int -> Nat] /\ HeapType(H) /\ ~H.lost
  BY DEF Linked
<1>3. \A b \in F : b \in Int /\ nx[b] = NextOf(H, b) /\ pv[b] = PrevOf(H, b)
  BY <1>2
<1> HIDE DEF nx, pv
<1>4. Null \notin F
  BY <1>1 DEF Threaded
<1>5. \A i \in Lists : H.heads[i] # Null =>
        H.heads[i] \in F /\ cl[H.heads[i]] = i /\ PrevOf(H, H.heads[i]) = Null
  BY <1>1, <1>3 DEF Threaded
<1>6. ASSUME NEW b \in F
      PROVE  /\ NextOf(H, b) # Null =>
                  /\ NextOf(H, b) \in F /\ cl[NextOf(H, b)] = cl[b]
                  /\ PrevOf(H, NextOf(H, b)) = b /\ rk[NextOf(H, b)] < rk[b]
             /\ PrevOf(H, b) = Null => H.heads[cl[b]] = b
             /\ PrevOf(H, b) # Null => PrevOf(H, b) \in F /\ NextOf(H, PrevOf(H, b)) = b
  <2>1. nx[b] # Null => nx[b] \in F /\ cl[nx[b]] = cl[b] /\ pv[nx[b]] = b /\ rk[nx[b]] < rk[b]
    BY <1>1 DEF Threaded
  <2>2. pv[b] = Null => H.heads[cl[b]] = b
    BY <1>1 DEF Threaded
  <2>3. pv[b] # Null => pv[b] \in F /\ nx[pv[b]] = b
    BY <1>1 DEF Threaded
  <2> QED
    BY <1>3, <2>1, <2>2, <2>3
<1>7. ASSUME NEW b \in F
      PROVE  /\ b \in Int /\ cl[b] \in Lists /\ rk[b] \in Nat
             /\ b \in DOMAIN H.mem /\ b + 1 \in DOMAIN H.mem /\ b + 2 \in DOMAIN H.mem
             /\ b \in Address \ {Wild} /\ b \in Address
  <2>1. b >= 1 /\ b + 3 <= Len(H.mem) /\ b \in Int
    BY <1>2 DEF Linked
  <2>2. Len(H.mem) \in Nat /\ DOMAIN H.mem = 1 .. Len(H.mem)
    BY <1>2, MemType
  <2>3. b \in DOMAIN H.mem /\ b + 1 \in DOMAIN H.mem /\ b + 2 \in DOMAIN H.mem
    BY <2>1, <2>2
  <2>4. b \in Address \ {Wild}
    BY <1>2, <2>3, InHeap
  <2>5. cl[b] \in Lists /\ rk[b] \in Nat
    BY <1>2, <2>1
  <2> QED
    BY <2>1, <2>3, <2>4, <2>5
<1>8. ASSUME NEW b \in F, NEW c \in F PROVE b + 1 # c /\ b + 2 # c /\ b + 3 # c
  <2>1. b \in Int /\ c \in Int /\ (b < c => b + 4 <= c)
    BY <1>2 DEF Linked
  <2> QED
    BY <2>1
<1> QED
  BY <1>2, <1>4, <1>5, <1>6, <1>7, <1>8

\* Steps that leave the links and the heads as they are.
LinksRead(H, G, F) ==
  /\ HeapType(G) /\ ~G.lost /\ G.heads = H.heads /\ Len(H.mem) <= Len(G.mem)
  /\ \A b \in F : NextOf(G, b) = NextOf(H, b) /\ PrevOf(G, b) = PrevOf(H, b)

LEMMA LinkedSame ==
  ASSUME NEW H, NEW F, NEW cl, NEW rk, Linked(H, F, cl, rk), NEW G, LinksRead(H, G, F),
         NEW cl2 \in [Int -> Lists], \A b \in F : cl2[b] = cl[b]
  PROVE  Linked(G, F, cl2, rk)
<1> DEFINE nx == [b \in Int |-> NextOf(H, b)]
           pv == [b \in Int |-> PrevOf(H, b)]
           nx2 == [b \in Int |-> NextOf(G, b)]
           pv2 == [b \in Int |-> PrevOf(G, b)]
<1>1. Threaded(F, cl, rk, H.heads, nx, pv)
  BY Zenon DEF Linked
<1>2. F \in SUBSET Int
  BY DEF Linked
<1>3. \A b \in F : nx2[b] = nx[b] /\ pv2[b] = pv[b]
  BY <1>2 DEF LinksRead
<1> HIDE DEF nx, pv, nx2, pv2
<1>4. Threaded(F, cl2, rk, H.heads, nx2, pv2)
  <2>0. Null \notin F
    BY <1>1 DEF Threaded
  <2>1. \A i \in Lists : H.heads[i] # Null =>
          H.heads[i] \in F /\ cl2[H.heads[i]] = i /\ pv2[H.heads[i]] = Null
    BY <1>1, <1>3 DEF Threaded
  <2>2. ASSUME NEW b \in F
        PROVE  /\ nx2[b] # Null => nx2[b] \in F /\ cl2[nx2[b]] = cl2[b] /\ pv2[nx2[b]] = b
                                   /\ rk[nx2[b]] < rk[b]
               /\ pv2[b] = Null => H.heads[cl2[b]] = b
               /\ pv2[b] # Null => pv2[b] \in F /\ nx2[pv2[b]] = b
    <3>1. nx[b] # Null => nx[b] \in F /\ cl[nx[b]] = cl[b] /\ pv[nx[b]] = b /\ rk[nx[b]] < rk[b]
      BY <1>1 DEF Threaded
    <3>2. pv[b] = Null => H.heads[cl[b]] = b
      BY <1>1 DEF Threaded
    <3>3. pv[b] # Null => pv[b] \in F /\ nx[pv[b]] = b
      BY <1>1 DEF Threaded
    <3> QED
      BY <1>3, <3>1, <3>2, <3>3
  <2> QED
    BY <2>0, <2>1, <2>2 DEF Threaded
<1>5. HeapType(G) /\ ~G.lost /\ Len(H.mem) <= Len(G.mem) /\ G.heads = H.heads
  BY DEF LinksRead
<1>6. Len(H.mem) \in Nat /\ Len(G.mem) \in Nat
  BY <1>5, MemType DEF Linked
<1>7. \A b \in F : b >= 1 /\ b + 3 <= Len(G.mem)
  <2> TAKE b \in F
  <2>1. b \in Int /\ b >= 1 /\ b + 3 <= Len(H.mem)
    BY <1>2 DEF Linked
  <2> QED
    BY <1>5, <1>6, <2>1
<1> QED
  BY <1>4, <1>5, <1>7 DEF Linked, nx2, pv2

LEMMA LinkedFrame ==
  ASSUME NEW H, NEW F, NEW cl, NEW rk, Linked(H, F, cl, rk),
         NEW G, NEW A, Alike(H, G, A), G.heads = H.heads, A \cap Links(F) = {}
  PROVE  Linked(G, F, cl, rk)
<1>1. \A b \in F : NextOf(G, b) = NextOf(H, b) /\ PrevOf(G, b) = PrevOf(H, b)
  <2> TAKE b \in F
  <2>1. b + 1 \notin A /\ b + 2 \notin A
    BY DEF Links
  <2> QED
    BY <2>1, AlikeReads DEF NextOf, PrevOf
<1>2. HeapType(G) /\ ~G.lost /\ Len(H.mem) <= Len(G.mem)
  BY MemType DEF Alike
<1>3. LinksRead(H, G, F)
  BY <1>1, <1>2 DEF LinksRead
<1>4. cl \in [Int -> Lists]
  BY DEF Linked
<1> QED
  BY <1>3, <1>4, LinkedSame

\* Steps after which a block is on no list any more, and one is on a list.
Unlinked(H, G, F, p) ==
  /\ HeapType(G) /\ ~G.lost /\ Len(G.mem) = Len(H.mem)
  /\ \A i \in Lists : G.heads[i] = IF H.heads[i] = p THEN NextOf(H, p) ELSE H.heads[i]
  /\ \A b \in F \ {p} : NextOf(G, b) = IF NextOf(H, b) = p THEN NextOf(H, p) ELSE NextOf(H, b)
  /\ \A b \in F \ {p} : PrevOf(G, b) = IF PrevOf(H, b) = p THEN PrevOf(H, p) ELSE PrevOf(H, b)

LEMMA UnlinkIs ==
  ASSUME NEW H, NEW F, NEW cl, NEW rk, Linked(H, F, cl, rk), NEW p \in F,
         NEW G, Unlinked(H, G, F, p)
  PROVE  Linked(G, F \ {p}, cl, rk)
<1> DEFINE nx == [b \in Int |-> NextOf(H, b)]
           pv == [b \in Int |-> PrevOf(H, b)]
           nx2 == [b \in Int |-> NextOf(G, b)]
           pv2 == [b \in Int |-> PrevOf(G, b)]
<1>1. Threaded(F, cl, rk, H.heads, nx, pv)
  BY Zenon DEF Linked
<1>2. F \in SUBSET Int /\ cl \in [Int -> Lists] /\ rk \in [Int -> Nat]
  BY DEF Linked
<1>3. \A b \in F : nx[b] = NextOf(H, b) /\ pv[b] = PrevOf(H, b)
  BY <1>2
<1>4. \A b \in F \ {p} : nx2[b] = NextOf(G, b) /\ pv2[b] = PrevOf(G, b)
  BY <1>2
<1> HIDE DEF nx, pv, nx2, pv2
<1>5. Parts(F, p, H.heads, nx, pv, G.heads, nx2, pv2)
  BY <1>3, <1>4 DEF Parts, Unlinked
<1>6. Threaded(F \ {p}, cl, rk, G.heads, nx2, pv2)
  BY <1>1, <1>2, <1>5, Unthread, Zenon
<1> QED
  BY <1>2, <1>6 DEF Linked, nx2, pv2, Unlinked

\* Room for a block at f between the blocks of F, in a heap of n words.
Room(F, f, n) ==
  f \in Int /\ f >= 1 /\ f + 3 <= n
  /\ \A b \in F : (f < b => f + 4 <= b) /\ (b <= f => b + 4 <= f)

Joined(H, G, F, f, i) ==
  /\ HeapType(G) /\ ~G.lost /\ Len(G.mem) = Len(H.mem)
  /\ \A j \in Lists : G.heads[j] = IF j = i THEN f ELSE H.heads[j]
  /\ \A b \in F : NextOf(G, b) = NextOf(H, b)
  /\ \A b \in F : PrevOf(G, b) = IF b = H.heads[i] THEN f ELSE PrevOf(H, b)
  /\ NextOf(G, f) = H.heads[i] /\ PrevOf(G, f) = Null

LinkedSomehow(G, F, cl) == \E rk : Linked(G, F, cl, rk)

LEMMA LinkIs ==
  ASSUME NEW H, NEW F, NEW cl, NEW rk, Linked(H, F, cl, rk),
         NEW f, Room(F, f, Len(H.mem)), NEW i \in Lists,
         NEW G, Joined(H, G, F, f, i)
  PROVE  LinkedSomehow(G, F \cup {f}, [cl EXCEPT ![f] = i])
<1> DEFINE nx == [b \in Int |-> NextOf(H, b)]
           pv == [b \in Int |-> PrevOf(H, b)]
           nx2 == [b \in Int |-> NextOf(G, b)]
           pv2 == [b \in Int |-> PrevOf(G, b)]
           cl2 == [cl EXCEPT ![f] = i]
           rk2 == [rk EXCEPT ![f] = IF H.heads[i] = Null THEN 0 ELSE rk[H.heads[i]] + 1]
<1>0. /\ f \in Int /\ f >= 1 /\ f + 3 <= Len(H.mem)
      /\ \A b \in F : (f < b => f + 4 <= b) /\ (b <= f => b + 4 <= f)
  BY DEF Room
<1>1. Threaded(F, cl, rk, H.heads, nx, pv)
  BY Zenon DEF Linked
<1>2. F \in SUBSET Int /\ cl \in [Int -> Lists] /\ rk \in [Int -> Nat]
  BY DEF Linked
<1>3. /\ \A b \in F : nx[b] = NextOf(H, b) /\ pv[b] = PrevOf(H, b)
      /\ \A b \in F \cup {f} : nx2[b] = NextOf(G, b) /\ pv2[b] = PrevOf(G, b)
  BY <1>0, <1>2
<1> HIDE DEF nx, pv, nx2, pv2
<1>4. f \notin F /\ f # Null
  <2>1. f \notin F
    <3> SUFFICES ASSUME f \in F PROVE FALSE
      OBVIOUS
    <3>1. f <= f
      BY <1>0
    <3> QED
      BY <3>1, <1>0
  <2> QED
    BY <1>0, <2>1 DEF Null
<1>5. Joins(F, f, i, H.heads, nx, pv, G.heads, nx2, pv2)
  BY <1>3 DEF Joins, Joined
<1>6. Threaded(F \cup {f}, cl2, rk2, G.heads, nx2, pv2)
  BY <1>0, <1>1, <1>2, <1>4, <1>5, Thread, Zenon
<1>7. cl2 \in [Int -> Lists] /\ rk2 \in [Int -> Nat]
  <2>1. ASSUME H.heads[i] # Null PROVE rk[H.heads[i]] + 1 \in Nat
    <3>1. H.heads[i] \in F
      BY <2>1, LinkedIs
    <3>2. rk[H.heads[i]] \in Nat
      BY <3>1, LinkedIs
    <3> QED
      BY <3>2
  <2> QED
    BY <1>2, <2>1
<1> HIDE DEF cl2, rk2
<1>8. \A b, c \in F \cup {f} : b < c => b + 4 <= c
  <2> TAKE b, c \in F \cup {f}
  <2>1. b \in Int /\ c \in Int
    BY <1>0, <1>2
  <2>2. CASE b \in F /\ c \in F
    BY <2>2 DEF Linked
  <2>3. CASE b = f /\ c \in F
    BY <1>0, <2>3
  <2>4. CASE b \in F /\ c = f
    BY <1>0, <2>1, <2>4
  <2>5. CASE b = f /\ c = f
    BY <1>0, <2>5
  <2> QED
    BY <2>2, <2>3, <2>4, <2>5
<1>9. \A b \in F \cup {f} : b >= 1 /\ b + 3 <= Len(G.mem)
  BY <1>0 DEF Linked, Joined
<1>10. Linked(G, F \cup {f}, cl2, rk2)
  BY <1>0, <1>2, <1>6, <1>7, <1>8, <1>9 DEF Linked, nx2, pv2, Joined
<1> QED
  BY <1>10, Zenon DEF cl2, LinkedSomehow


-----------------------------------------------------------------------------
(* The operations on lists *)

\* G is H with block p off its list.
Off(H, G, F, cl, rk, p) == Alike(H, G, Links(F)) /\ Linked(G, F \ {p}, cl, rk)

LEMMA OffIs ==
  ASSUME NEW H, NEW F, NEW cl, NEW rk, Linked(H, F, cl, rk), NEW p \in F,
         NEW G, NEW A, Alike(H, G, A), A \subseteq Links(F), Unlinked(H, G, F, p)
  PROVE  Off(H, G, F, cl, rk, p)
<1>1. Alike(H, G, Links(F))
  BY DEF Alike
<1> QED
  BY <1>1, UnlinkIs DEF Off

LEMMA LinksAre == \A F, b : b \in F => b + 1 \in Links(F) /\ b + 2 \in Links(F)
BY DEF Links

\* The only block of a list.
LEMMA SoleOff ==
  ASSUME NEW H, NEW F, NEW cl, NEW rk, Linked(H, F, cl, rk),
         NEW i \in Lists, NEW p, p = H.heads[i], p # Null, NextOf(H, p) = Null
  PROVE  p \in F /\ Off(H, SetHead(H, i, Null), F, cl, rk, p)
<1> DEFINE G == SetHead(H, i, Null)
<1>1. p \in F /\ cl[p] = i /\ PrevOf(H, p) = Null /\ HeapType(H) /\ ~H.lost
  BY LinkedIs
<1>2. /\ Alike(H, G, {}) /\ G.heads = [H.heads EXCEPT ![i] = Null]
      /\ \A b : NextOf(G, b) = NextOf(H, b) /\ PrevOf(G, b) = PrevOf(H, b)
  BY <1>1, NullAddress, SetHeadReads
<1> HIDE DEF G
<1>3. \A j \in Lists : G.heads[j] = IF H.heads[j] = p THEN NextOf(H, p) ELSE H.heads[j]
  <2> TAKE j \in Lists
  <2>1. j # i => H.heads[j] # p
    BY <1>1, LinkedIs
  <2>2. DOMAIN H.heads = Lists
    BY <1>1 DEF HeapType
  <2> QED
    BY <1>2, <2>1, <2>2
<1>4. \A b \in F \ {p} : NextOf(G, b) = IF NextOf(H, b) = p THEN NextOf(H, p) ELSE NextOf(H, b)
  <2> TAKE b \in F \ {p}
  <2>1. NextOf(H, b) # p
    BY <1>1, LinkedIs
  <2> QED
    BY <1>2, <2>1
<1>5. \A b \in F \ {p} : PrevOf(G, b) = IF PrevOf(H, b) = p THEN PrevOf(H, p) ELSE PrevOf(H, b)
  <2> TAKE b \in F \ {p}
  <2>1. PrevOf(H, b) # p
    BY <1>1, LinkedIs
  <2> QED
    BY <1>2, <2>1
<1>6. Unlinked(H, G, F, p)
  BY <1>2, <1>3, <1>4, <1>5 DEF Unlinked, Alike
<1>7. Off(H, G, F, cl, rk, p)
  BY <1>1, <1>2, <1>6, OffIs
<1> QED
  BY <1>1, <1>7 DEF G

\* The head of a longer list.
LEMMA PopHeadOff ==
  ASSUME NEW H, NEW F, NEW cl, NEW rk, Linked(H, F, cl, rk),
         NEW i \in Lists, NEW p, p = H.heads[i], p # Null, NextOf(H, p) # Null
  PROVE  p \in F /\ Off(H, PopHead(H, i), F, cl, rk, p)
<1> DEFINE q == NextOf(H, p)
           G1 == SetHead(H, i, q)
           G2 == SetNext(G1, p, Null)
           G == SetPrev(G2, q, Null)
<1>1. p \in F /\ cl[p] = i /\ PrevOf(H, p) = Null /\ HeapType(H) /\ ~H.lost
  BY LinkedIs
<1>2. q \in F /\ PrevOf(H, q) = p /\ q # p
  BY <1>1, LinkedIs
<1>3. PopHead(H, i) = G
  BY <1>2, Zenon DEF PopHead, G, G2, G1, q
<1>4. q \in Address \ {Wild} /\ q \in Int /\ p \in Int
      /\ p + 1 \in DOMAIN H.mem /\ q + 2 \in DOMAIN H.mem
  BY <1>1, <1>2, LinkedIs
<1>5. /\ Alike(H, G1, {}) /\ G1.heads = [H.heads EXCEPT ![i] = q]
      /\ \A b : NextOf(G1, b) = NextOf(H, b) /\ PrevOf(G1, b) = PrevOf(H, b)
  BY <1>1, <1>4, SetHeadReads
<1> HIDE DEF G1
<1>d. q = NextOf(H, p)
  OBVIOUS
<1> HIDE DEF q
<1>6. NextSet(G1, G2, p, Null)
  BY <1>4, <1>5, AddressInt, NextAfter, Zenon
<1> HIDE DEF G2
<1>e. Alike(H, G2, {p + 1, q + 2})
  BY <1>5, <1>6, AlikeTrans DEF NextSet
<1>7. PrevSet(G2, G, q, Null)
  BY <1>4, <1>e, AddressInt, PrevAfter, Zenon
<1> HIDE DEF G
<1>8. Alike(H, G, {p + 1, q + 2})
  BY <1>7, <1>e, AlikeTrans DEF PrevSet
<1>9. {p + 1, q + 2} \subseteq Links(F)
  BY <1>1, <1>2, LinksAre
<1>10. \A j \in Lists : G.heads[j] = IF H.heads[j] = p THEN NextOf(H, p) ELSE H.heads[j]
  <2> TAKE j \in Lists
  <2>1. j # i => H.heads[j] # p
    BY <1>1, LinkedIs
  <2>2. DOMAIN H.heads = Lists
    BY <1>1 DEF HeapType
  <2> QED
    BY <1>5, <1>6, <1>7, <1>d, <2>1, <2>2 DEF NextSet, PrevSet
<1>11. \A b \in F \ {p} : NextOf(G, b) = IF NextOf(H, b) = p THEN NextOf(H, p) ELSE NextOf(H, b)
  <2> TAKE b \in F \ {p}
  <2>1. NextOf(H, b) # p /\ b \in Int /\ b # q + 1
    BY <1>1, <1>2, LinkedIs
  <2> QED
    BY <1>5, <1>6, <1>7, <2>1 DEF NextSet, PrevSet
<1>12. \A b \in F \ {p} : PrevOf(G, b) = IF PrevOf(H, b) = p THEN PrevOf(H, p) ELSE PrevOf(H, b)
  <2> TAKE b \in F \ {p}
  <2>1. b \in Int /\ b + 1 # p
    BY <1>1, LinkedIs
  <2>2. PrevOf(H, b) = p => b = q
    BY <1>1, <1>d, LinkedIs
  <2> QED
    BY <1>1, <1>2, <1>5, <1>6, <1>7, <2>1, <2>2 DEF NextSet, PrevSet
<1>a. Unlinked(H, G, F, p)
  BY <1>8, <1>10, <1>11, <1>12 DEF Unlinked, Alike
<1>13. Off(H, G, F, cl, rk, p)
  BY <1>1, <1>8, <1>9, <1>a, OffIs
<1> QED
  BY <1>1, <1>3, <1>13


LEMMA OthersNotOf ==
  ASSUME NEW H, NEW F, NEW cl, NEW rk, Linked(H, F, cl, rk), NEW p \in F, NEW c \in F \ {p}
  PROVE  /\ c \in Int /\ p \in Int /\ c + 1 # p /\ c # p + 1 /\ c # Null
         /\ (NextOf(H, c) = p => PrevOf(H, p) = c) /\ (PrevOf(H, p) = c => NextOf(H, c) = p)
         /\ (PrevOf(H, c) = p => NextOf(H, p) = c) /\ (NextOf(H, p) = c => PrevOf(H, c) = p)
BY LinkedIs

\* A block that is not the head of its list.
LEMMA DetachOff ==
  ASSUME NEW H, NEW F, NEW cl, NEW rk, Linked(H, F, cl, rk), NEW p \in F, PrevOf(H, p) # Null
  PROVE  Off(H, Detach(H, p), F, cl, rk, p)
<1> DEFINE a == NextOf(H, p)
           b == PrevOf(H, p)
           G1 == SetNext(H, b, a)
           G2 == IF a = Null THEN G1 ELSE SetPrev(G1, a, b)
           G3 == SetNext(G2, p, Null)
           G == SetPrev(G3, p, Null)
<1>1. HeapType(H) /\ ~H.lost /\ p \in Int /\ p + 1 \in DOMAIN H.mem /\ p + 2 \in DOMAIN H.mem /\ p # Null
  BY LinkedIs
<1>2. b \in F /\ NextOf(H, b) = p /\ b \in Int /\ b + 1 \in DOMAIN H.mem /\ b \in Address
  BY LinkedIs
<1>3. a # Null => a \in F /\ PrevOf(H, a) = p /\ a \in Int /\ a + 2 \in DOMAIN H.mem
  BY LinkedIs
<1>4. a \in Address
  BY <1>1, PointerType
<1>5. Detach(H, p) = G
  BY Zenon DEF Detach, G, G3, G2, G1, a, b
<1>d. a = NextOf(H, p) /\ b = PrevOf(H, p)
  OBVIOUS
<1> HIDE DEF a, b
<1>6. NextSet(H, G1, b, a)
  BY <1>1, <1>2, <1>4, AlikeSelf, NextAfter, Zenon
<1>7. Alike(H, G1, Links(F))
  BY <1>2, <1>6, LinksAre DEF NextSet, Alike
<1> HIDE DEF G1
<1>8. /\ Alike(H, G2, Links(F)) /\ G2.heads = G1.heads
      /\ \A c \in F : NextOf(G2, c) = NextOf(G1, c)
      /\ \A c \in F : PrevOf(G2, c) = IF c = a THEN b ELSE PrevOf(G1, c)
  <2>1. CASE a = Null
    BY <1>7, <2>1, LinkedIs
  <2>2. CASE a # Null
    <3>1. PrevSet(G1, SetPrev(G1, a, b), a, b)
      BY <1>2, <1>3, <1>7, <2>2, PrevAfter
    <3>2. G2 = SetPrev(G1, a, b)
      BY <2>2
    <3> HIDE DEF G2
    <3>3. PrevSet(G1, G2, a, b)
      BY <3>1, <3>2
    <3>4. \A c \in F : c \in Int /\ c # a + 1
      BY <1>3, <2>2, LinkedIs
    <3>5. Alike(H, G2, Links(F))
      BY <1>3, <1>7, <2>2, <3>3, LinksAre DEF PrevSet, Alike
    <3> QED
      BY <3>3, <3>4, <3>5 DEF PrevSet
  <2> QED
    BY <2>1, <2>2
<1> HIDE DEF G2
<1>9. NextSet(G2, G3, p, Null)
  BY <1>1, <1>8, AddressInt, NextAfter, Zenon
<1>10. Alike(H, G3, Links(F))
  BY <1>8, <1>9, LinksAre DEF NextSet, Alike
<1> HIDE DEF G3
<1>11. PrevSet(G3, G, p, Null)
  BY <1>1, <1>10, AddressInt, PrevAfter, Zenon
<1>12. Alike(H, G, Links(F))
  BY <1>10, <1>11, LinksAre DEF PrevSet, Alike
<1> HIDE DEF G
<1>13. G.heads = H.heads /\ \A i \in Lists : H.heads[i] # p
  BY <1>6, <1>8, <1>9, <1>11, LinkedIs DEF NextSet, PrevSet
<1>14. \A c \in F \ {p} : NextOf(G, c) = IF NextOf(H, c) = p THEN NextOf(H, p) ELSE NextOf(H, c)
  <2> TAKE c \in F \ {p}
  <2>1. c \in Int /\ c # p + 1 /\ c # p /\ (NextOf(H, c) = p => c = b)
    BY <1>d, OthersNotOf
  <2>2. NextOf(G, c) = NextOf(G1, c)
    BY <1>8, <1>9, <1>11, <2>1 DEF NextSet, PrevSet
  <2>3. NextOf(G1, c) = IF c = b THEN a ELSE NextOf(H, c)
    BY <1>6, <2>1 DEF NextSet
  <2> QED
    BY <1>2, <1>d, <2>1, <2>2, <2>3
<1>15. \A c \in F \ {p} : PrevOf(G, c) = IF PrevOf(H, c) = p THEN PrevOf(H, p) ELSE PrevOf(H, c)
  <2> TAKE c \in F \ {p}
  <2>1. c \in Int /\ c + 1 # p /\ c # p /\ (PrevOf(H, c) = p <=> c = a)
    BY <1>3, <1>d, OthersNotOf
  <2>2. PrevOf(G, c) = PrevOf(G2, c)
    BY <1>9, <1>11, <2>1 DEF NextSet, PrevSet
  <2>3. c + 1 # b
    BY <1>2, LinkedIs
  <2>4. PrevOf(G2, c) = IF c = a THEN b ELSE PrevOf(H, c)
    BY <1>6, <1>8, <2>1, <2>3 DEF NextSet
  <2> QED
    BY <1>d, <2>1, <2>2, <2>4
<1>16. Unlinked(H, G, F, p)
  BY <1>12, <1>13, <1>14, <1>15 DEF Unlinked, Alike
<1> QED
  BY <1>5, <1>12, <1>16, OffIs

\* The last block of a longer list; its own links stay as they are.
LEMMA CutOff ==
  ASSUME NEW H, NEW F, NEW cl, NEW rk, Linked(H, F, cl, rk), NEW p \in F,
         PrevOf(H, p) # Null, NextOf(H, p) = Null
  PROVE  Off(H, SetNext(H, PrevOf(H, p), NextOf(H, p)), F, cl, rk, p)
<1> DEFINE b == PrevOf(H, p)
           G == SetNext(H, b, Null)
<1>1. HeapType(H) /\ ~H.lost
  BY LinkedIs
<1>2. b \in F /\ NextOf(H, b) = p /\ b \in Int /\ b + 1 \in DOMAIN H.mem
  BY LinkedIs
<1>d. b = PrevOf(H, p)
  OBVIOUS
<1> HIDE DEF b
<1>6. NextSet(H, G, b, Null)
  BY <1>1, <1>2, AddressInt, AlikeSelf, NextAfter, Zenon
<1> HIDE DEF G
<1>7. Alike(H, G, Links(F))
  BY <1>2, <1>6, LinksAre DEF NextSet, Alike
<1>13. G.heads = H.heads /\ \A i \in Lists : H.heads[i] # p
  BY <1>6, LinkedIs DEF NextSet
<1>14. \A c \in F \ {p} : NextOf(G, c) = IF NextOf(H, c) = p THEN NextOf(H, p) ELSE NextOf(H, c)
  <2> TAKE c \in F \ {p}
  <2>1. c \in Int /\ (NextOf(H, c) = p => c = b)
    BY <1>d, OthersNotOf
  <2> QED
    BY <1>2, <1>6, <2>1 DEF NextSet
<1>15. \A c \in F \ {p} : PrevOf(G, c) = IF PrevOf(H, c) = p THEN PrevOf(H, p) ELSE PrevOf(H, c)
  <2> TAKE c \in F \ {p}
  <2>1. c \in Int /\ PrevOf(H, c) # p /\ c + 1 # b
    BY <1>2, OthersNotOf, LinkedIs
  <2> QED
    BY <1>6, <2>1 DEF NextSet
<1>16. Unlinked(H, G, F, p)
  BY <1>7, <1>13, <1>14, <1>15 DEF Unlinked, Alike
<1>17. SetNext(H, PrevOf(H, p), NextOf(H, p)) = G
  BY DEF G, b
<1> QED
  BY <1>7, <1>16, <1>17, OffIs


LEMMA RoomIs ==
  ASSUME NEW H, NEW F, NEW cl, NEW rk, Linked(H, F, cl, rk), NEW f, Room(F, f, Len(H.mem))
  PROVE  /\ f \in Int /\ f \in DOMAIN H.mem /\ f + 1 \in DOMAIN H.mem /\ f + 2 \in DOMAIN H.mem
         /\ f \in Address \ {Wild} /\ f \in Address /\ f # Null
         /\ \A b \in F : b \in Int /\ b # f /\ b + 1 # f /\ b # f + 1
<1>1. HeapType(H) /\ f \in Int /\ f >= 1 /\ f + 3 <= Len(H.mem)
  BY DEF Linked, Room
<1>2. Len(H.mem) \in Nat /\ DOMAIN H.mem = 1 .. Len(H.mem)
  BY <1>1, MemType
<1>3. f \in DOMAIN H.mem /\ f + 1 \in DOMAIN H.mem /\ f + 2 \in DOMAIN H.mem /\ f # Null
  BY <1>1, <1>2 DEF Null
<1>4. f \in Address \ {Wild}
  BY <1>1, <1>3, InHeap
<1>5. ASSUME NEW b \in F PROVE b \in Int /\ b # f /\ b + 1 # f /\ b # f + 1
  <2>1. b \in Int /\ (f < b => f + 4 <= b) /\ (b <= f => b + 4 <= f)
    BY DEF Linked, Room
  <2> QED
    BY <1>1, <2>1
<1> QED
  BY <1>1, <1>3, <1>4, <1>5

\* A block is put in front of its list; in an empty one it keeps the links it has.
LEMMA PushOn ==
  ASSUME NEW H, NEW F, NEW cl, NEW rk, Linked(H, F, cl, rk), NEW f, Room(F, f, Len(H.mem)),
         NEW i \in Lists, H.heads[i] = Null => NextOf(H, f) = Null /\ PrevOf(H, f) = Null
  PROVE  /\ Alike(H, Push(H, i, f), Links(F \cup {f}))
         /\ LinkedSomehow(Push(H, i, f), F \cup {f}, [cl EXCEPT ![f] = i])
         /\ PrevOf(Push(H, i, f), f) = Null
<1> DEFINE old == H.heads[i]
           G1 == SetNext(H, f, old)
           G2 == SetPrev(G1, f, Null)
           G3 == SetPrev(G2, old, f)
           G0 == IF old = Null THEN H ELSE G3
           G == SetHead(G0, i, f)
<1>1. /\ f \in Int /\ f \in DOMAIN H.mem /\ f + 1 \in DOMAIN H.mem /\ f + 2 \in DOMAIN H.mem
      /\ f \in Address \ {Wild} /\ f \in Address /\ f # Null
      /\ \A b \in F : b \in Int /\ b # f /\ b + 1 # f /\ b # f + 1
  BY RoomIs
<1>2. HeapType(H) /\ ~H.lost /\ DOMAIN H.heads = Lists /\ Null \notin F /\ Alike(H, H, {})
  BY LinkedIs, AlikeSelf DEF HeapType
<1>3. old # Null => old \in F /\ old \in Int /\ old + 2 \in DOMAIN H.mem /\ old \in Address
  BY LinkedIs
<1>4. Push(H, i, f) = G
  BY Zenon DEF Push, G, G0, G3, G2, G1, old
<1>d. old = H.heads[i]
  OBVIOUS
<1> HIDE DEF old
<1>5. /\ Alike(H, G0, Links(F \cup {f})) /\ G0.heads = H.heads
      /\ \A b \in F : NextOf(G0, b) = NextOf(H, b)
      /\ \A b \in F : PrevOf(G0, b) = IF b = old THEN f ELSE PrevOf(H, b)
      /\ NextOf(G0, f) = old /\ PrevOf(G0, f) = Null
  <2>1. CASE old = Null
    <3>1. G0 = H
      BY <2>1
    <3>2. Alike(H, H, Links(F \cup {f}))
      BY <1>2 DEF Alike
    <3> QED
      BY <1>2, <1>d, <2>1, <3>1, <3>2
  <2>2. CASE old # Null
    <3>1. NextSet(H, G1, f, old)
      BY <1>1, <1>2, <1>3, <2>2, NextAfter, Zenon
    <3>2. Alike(H, G1, Links(F \cup {f}))
      BY <3>1, LinksAre DEF NextSet, Alike
    <3> HIDE DEF G1
    <3>3. PrevSet(G1, G2, f, Null)
      BY <1>1, <3>2, AddressInt, PrevAfter, Zenon
    <3>4. Alike(H, G2, Links(F \cup {f}))
      <4>1. Alike(G1, G2, {f + 2}) /\ {f + 2} \subseteq Links(F \cup {f})
        BY <3>3, LinksAre DEF PrevSet
      <4> QED
        BY <3>2, <4>1, AlikeAlso
    <3> HIDE DEF G2
    <3>5. PrevSet(G2, G3, old, f)
      BY <1>1, <1>3, <2>2, <3>4, PrevAfter, Zenon
    <3>6. Alike(H, G3, Links(F \cup {f}))
      <4>1. Alike(G2, G3, {old + 2}) /\ {old + 2} \subseteq Links(F \cup {f})
        BY <1>3, <2>2, <3>5, LinksAre DEF PrevSet
      <4> QED
        BY <3>4, <4>1, AlikeAlso
    <3> HIDE DEF G3
    <3>7. G0 = G3
      BY <2>2
    <3>8. G3.heads = H.heads
      BY <3>1, <3>3, <3>5 DEF NextSet, PrevSet
    <3>9. ASSUME NEW b \in F
          PROVE  NextOf(G3, b) = NextOf(H, b) /\ PrevOf(G3, b) = IF b = old THEN f ELSE PrevOf(H, b)
      <4>1. b \in Int /\ b # f /\ b + 1 # f /\ b # f + 1 /\ b # old + 1
        BY <1>1, <1>3, <2>2, LinkedIs
      <4>2. NextOf(G3, b) = NextOf(H, b)
        BY <3>1, <3>3, <3>5, <4>1 DEF NextSet, PrevSet
      <4>3. PrevOf(G2, b) = PrevOf(H, b)
        BY <3>1, <3>3, <4>1 DEF NextSet, PrevSet
      <4>4. PrevOf(G3, b) = IF b = old THEN f ELSE PrevOf(H, b)
        BY <3>5, <4>1, <4>3 DEF PrevSet
      <4> QED
        BY <4>2, <4>4
    <3>10. NextOf(G3, f) = old /\ PrevOf(G3, f) = Null
      <4>1. f # old /\ f # old + 1 /\ f # f + 1
        BY <1>1, <1>3, <2>2
      <4> QED
        BY <1>1, <3>1, <3>3, <3>5, <4>1 DEF NextSet, PrevSet
    <3> QED
      BY <3>6, <3>7, <3>8, <3>9, <3>10
  <2> QED
    BY <2>1, <2>2
<1> HIDE DEF G0
<1>6. HeadSet(G0, G, i, f)
  BY <1>1, <1>5, HeadAfter
<1> HIDE DEF G
<1>7. Alike(H, G, Links(F \cup {f}))
  BY <1>5, <1>6 DEF HeadSet, Alike
<1>8. Joined(H, G, F, f, i)
  <2>1. \A j \in Lists : G.heads[j] = IF j = i THEN f ELSE H.heads[j]
    BY <1>2, <1>5, <1>6 DEF HeadSet
  <2>2. \A b : NextOf(G, b) = NextOf(G0, b) /\ PrevOf(G, b) = PrevOf(G0, b)
    BY <1>6 DEF HeadSet
  <2> QED
    BY <1>5, <1>7, <1>d, <2>1, <2>2 DEF Joined, Alike
<1>9. PrevOf(G, f) = Null
  BY <1>8 DEF Joined
<1> QED
  BY <1>4, <1>7, <1>8, <1>9, LinkIs

-----------------------------------------------------------------------------
(* The order of a list *)

LEMMA GreatestOf ==
  ASSUME NEW S \in SUBSET Nat, S # {}, NEW M \in Nat, \A n \in S : n <= M
  PROVE  \E m \in S : \A n \in S : n <= m
<1> DEFINE D == {M - n : n \in S}
<1>1. D \in SUBSET Nat /\ D # {}
  <2>1. \A n \in S : M - n \in Nat
    OBVIOUS
  <2> QED
    BY <2>1
<1>2. PICK d \in D : \A e \in D : d <= e
  BY <1>1, LeastOf
<1>3. PICK m \in S : d = M - m
  BY <1>2
<1>4. ASSUME NEW n \in S PROVE n <= m
  <2>1. M - n \in D
    OBVIOUS
  <2>2. d <= M - n
    BY <1>2, <2>1
  <2> QED
    BY <1>3, <2>2
<1> QED
  BY <1>3, <1>4

LEMMA RankBound ==
  ASSUME NEW n \in Nat, NEW F \in SUBSET (1 .. n), NEW rk \in [Int -> Nat]
  PROVE  \E M \in Nat : \A b \in F : rk[b] <= M
<1> DEFINE Q(k) == \E M \in Nat : \A b \in 1 .. k : rk[b] <= M
           S == {k \in Nat : Q(k)}
<1>1. 0 \in S
  <2>1. \A b \in 1 .. 0 : rk[b] <= 0
    OBVIOUS
  <2> QED
    BY <2>1
<1>2. ASSUME NEW k \in S PROVE k + 1 \in S
  <2>1. PICK M \in Nat : \A b \in 1 .. k : rk[b] <= M
    OBVIOUS
  <2>2. PICK r \in Nat : r = rk[k + 1]
    OBVIOUS
  <2>3. \A b \in 1 .. k + 1 : rk[b] <= M + r
    <3> TAKE b \in 1 .. k + 1
    <3>1. CASE b = k + 1
      BY <2>2, <3>1
    <3>2. CASE b # k + 1
      <4>1. b \in 1 .. k /\ rk[b] \in Nat
        BY <3>2
      <4>2. rk[b] <= M
        BY <2>1, <4>1
      <4> QED
        BY <4>1, <4>2
    <3> QED
      BY <3>1, <3>2
  <2>4. M + r \in Nat
    OBVIOUS
  <2> QED
    BY <2>3, <2>4
<1> HIDE DEF Q
<1>3. S = Nat
  <2>1. S \in SUBSET Nat
    OBVIOUS
  <2> HIDE DEF S
  <2> QED
    BY <1>1, <1>2, <2>1, Induction
<1>4. Q(n)
  BY <1>3
<1> QED
  BY <1>4 DEF Q

LEMMA LinkedBound ==
  ASSUME NEW H, NEW F, NEW cl, NEW rk, Linked(H, F, cl, rk)
  PROVE  \E M \in Nat : \A b \in F : rk[b] <= M
<1>1. rk \in [Int -> Nat] /\ HeapType(H)
  BY DEF Linked
<1>2. Len(H.mem) \in Nat /\ DOMAIN H.mem = 1 .. Len(H.mem)
  BY <1>1, MemType
<1>3. F \in SUBSET (1 .. Len(H.mem))
  BY <1>2, LinkedIs
<1> QED
  BY <1>1, <1>2, <1>3, RankBound

\* The head has the greatest rank.
LEMMA HeadMost ==
  ASSUME NEW H, NEW F, NEW cl, NEW rk, Linked(H, F, cl, rk), NEW c \in F
  PROVE  H.heads[cl[c]] \in F /\ H.heads[cl[c]] # Null /\ cl[c] \in Lists
         /\ cl[H.heads[cl[c]]] = cl[c] /\ (c = H.heads[cl[c]] \/ rk[c] < rk[H.heads[cl[c]]])
<1> DEFINE T == {x \in F : cl[x] = cl[c]}
           R == {rk[x] : x \in T}
<1>1. PICK M \in Nat : \A b \in F : rk[b] <= M
  BY LinkedBound
<1>2. R \in SUBSET Nat /\ R # {} /\ \A r \in R : r <= M
  BY <1>1, LinkedIs
<1>3. PICK m \in R : \A r \in R : r <= m
  BY <1>1, <1>2, GreatestOf
<1>4. PICK t \in T : m = rk[t]
  BY <1>3
<1>5. t \in F /\ cl[t] = cl[c] /\ rk[t] \in Nat /\ \A x \in F : cl[x] = cl[c] => rk[x] <= rk[t]
  BY <1>3, <1>4, LinkedIs
<1> HIDE DEF T, R
<1>6. ASSUME NEW x \in F, cl[x] = cl[c], PrevOf(H, x) # Null
      PROVE  rk[x] < rk[t]
  <2>1. PrevOf(H, x) \in F /\ NextOf(H, PrevOf(H, x)) = x /\ x # Null
    BY <1>6, LinkedIs
  <2>2. cl[PrevOf(H, x)] = cl[x] /\ rk[x] < rk[PrevOf(H, x)] /\ rk[PrevOf(H, x)] \in Nat /\ rk[x] \in Nat
    BY <2>1, LinkedIs
  <2>3. rk[PrevOf(H, x)] <= rk[t]
    BY <1>5, <1>6, <2>1, <2>2
  <2>4. PICK k \in Nat, l \in Nat, j \in Nat : k = rk[x] /\ l = rk[PrevOf(H, x)] /\ j = rk[t]
    BY <1>5, <2>2
  <2> QED
    BY <2>2, <2>3, <2>4
<1>7. PrevOf(H, t) = Null
  <2>1. ~(m < m)
    BY <1>4, <1>5
  <2> QED
    BY <1>4, <1>5, <1>6, <2>1
<1>8. H.heads[cl[c]] = t /\ t # Null /\ cl[c] \in Lists
  BY <1>5, <1>7, LinkedIs
<1>9. c = t \/ rk[c] < rk[t]
  <2>1. PrevOf(H, c) = Null => H.heads[cl[c]] = c
    BY LinkedIs
  <2> QED
    BY <1>6, <1>8, <2>1
<1> QED
  BY <1>5, <1>8, <1>9

\* Nothing lies between a block and the next one.
LEMMA Ordered ==
  ASSUME NEW H, NEW F, NEW cl, NEW rk, Linked(H, F, cl, rk),
         NEW b \in F, NEW c \in F, b # c, cl[c] = cl[b], rk[c] <= rk[b]
  PROVE  NextOf(H, b) # Null /\ (c = NextOf(H, b) \/ rk[c] < rk[NextOf(H, b)])
<1> DEFINE Good(x, y) == NextOf(H, x) # Null /\ (y = NextOf(H, x) \/ rk[y] < rk[NextOf(H, x)])
           Bad == {z \in F \X F : /\ z[1] # z[2] /\ cl[z[2]] = cl[z[1]] /\ rk[z[2]] <= rk[z[1]]
                                  /\ ~Good(z[1], z[2])}
           R == {rk[z[1]] + rk[z[2]] : z \in Bad}
<1>1. SUFFICES ASSUME Bad # {} PROVE FALSE
  <2>1. <<b, c>> \notin Bad
    BY <1>1
  <2> QED
    BY <2>1
<1>2. PICK M \in Nat : \A x \in F : rk[x] <= M
  BY LinkedBound
<1>3. \A x \in F : rk[x] \in Nat
  BY LinkedIs
<1>4. R \in SUBSET Nat /\ R # {} /\ \A r \in R : r <= M + M
  <2>1. ASSUME NEW z \in Bad PROVE rk[z[1]] + rk[z[2]] \in Nat /\ rk[z[1]] + rk[z[2]] <= M + M
    <3>1. z[1] \in F /\ z[2] \in F
      OBVIOUS
    <3>2. PICK k \in Nat, l \in Nat : k = rk[z[1]] /\ l = rk[z[2]]
      BY <1>3, <3>1
    <3>3. k <= M /\ l <= M
      BY <1>2, <3>1, <3>2
    <3> QED
      BY <3>2, <3>3
  <2> HIDE DEF Bad
  <2> QED
    BY <1>1, <2>1
<1>5. PICK m \in R : \A r \in R : r <= m
  <2>1. M + M \in Nat
    OBVIOUS
  <2> HIDE DEF R
  <2> QED
    BY <1>4, <2>1, GreatestOf
<1>6. PICK x \in F, y \in F : x # y /\ cl[y] = cl[x] /\ rk[y] <= rk[x] /\ ~Good(x, y)
                             /\ m = rk[x] + rk[y]
  <2>1. PICK z \in Bad : m = rk[z[1]] + rk[z[2]]
    BY <1>5
  <2> QED
    BY <2>1
<1>7. ASSUME NEW v \in F, NEW w \in F, v # w, cl[w] = cl[v], rk[w] <= rk[v], ~Good(v, w)
      PROVE  rk[v] + rk[w] <= rk[x] + rk[y]
  <2>1. <<v, w>> \in Bad
    BY <1>7
  <2>2. rk[v] + rk[w] \in R
    <3> HIDE DEF Bad
    <3>1. <<v, w>>[1] = v /\ <<v, w>>[2] = w
      OBVIOUS
    <3> QED
      BY <2>1, <3>1
  <2> QED
    BY <1>5, <1>6, <2>2
<1> HIDE DEF Bad, R
<1>8. PICK i \in Nat, j \in Nat : i = rk[x] /\ j = rk[y] /\ j <= i
  BY <1>3, <1>6
<1>9. CASE PrevOf(H, y) = Null
  <2>1. H.heads[cl[y]] = y
    BY <1>9, LinkedIs
  <2>2. rk[x] < rk[y]
    BY <1>6, <2>1, HeadMost
  <2> QED
    BY <1>8, <2>2
<1>10. CASE PrevOf(H, y) # Null
  <2>1. PICK d \in F : d = PrevOf(H, y) /\ NextOf(H, d) = y /\ y # Null
    BY <1>10, LinkedIs
  <2>2. cl[d] = cl[y] /\ rk[y] < rk[d]
    BY <2>1, LinkedIs
  <2>3. PICK k \in Nat : k = rk[d] /\ j < k
    BY <1>3, <1>8, <2>2
  <2>4. d # x
    BY <1>6, <2>1
  <2>5. CASE k <= i
    <3>1. ~Good(x, d)
      <4>1. ASSUME NextOf(H, x) # Null PROVE d # NextOf(H, x) /\ ~(rk[d] < rk[NextOf(H, x)])
        <5>1. PICK l \in Nat : l = rk[NextOf(H, x)]
          BY <1>3, <4>1, LinkedIs
        <5>2. ~(j < l)
          BY <1>6, <1>8, <4>1, <5>1
        <5> QED
          BY <2>3, <5>1, <5>2
      <4> QED
        BY <4>1
    <3>2. rk[x] + rk[d] <= rk[x] + rk[y]
      <4> HIDE DEF Good
      <4> QED
        BY <1>6, <1>7, <1>8, <2>2, <2>3, <2>4, <2>5, <3>1
    <3> QED
      BY <1>8, <2>3, <3>2
  <2>6. CASE i < k
    <3>1. ~Good(d, x)
      BY <1>6, <1>8, <2>1
    <3>2. rk[d] + rk[x] <= rk[x] + rk[y]
      <4> HIDE DEF Good
      <4> QED
        BY <1>6, <1>7, <1>8, <2>2, <2>3, <2>4, <2>6, <3>1
    <3> QED
      BY <1>8, <2>3, <3>2
  <2> QED
    BY <1>8, <2>3, <2>5, <2>6
<1> QED
  BY <1>9, <1>10

-----------------------------------------------------------------------------
(* Walks along exact lists *)

Tagged(H, F) == \A b \in F : TagAt(H, b) # NoTag

\* The walk from a block on a list meets blocks of that list, in their order, all that
\* follow, and ends at Null.
ChainOf(H, F, cl, rk, a, w) ==
  /\ w \in Seq(Int) /\ Len(w) >= 1 /\ w[1] = a /\ w[Len(w)] = Null
  /\ \A j \in 1 .. Len(w) - 1 : w[j] \in F /\ a \in F /\ cl[w[j]] = cl[a] /\ w[j + 1] = NextOf(H, w[j])
  /\ \A j, k \in 1 .. Len(w) - 1 : j < k => rk[w[k]] < rk[w[j]]
  /\ \A c \in F : a \in F /\ cl[c] = cl[a] /\ rk[c] <= rk[a] => \E j \in 1 .. Len(w) - 1 : w[j] = c

LEMMA ChainOn ==
  ASSUME NEW H, NEW F, NEW cl, NEW rk, Linked(H, F, cl, rk), Tagged(H, F),
         NEW a \in F \cup {Null}, NEW w, w = Chain(H, a)
  PROVE  ChainOf(H, F, cl, rk, a, w)
<1> DEFINE n == Len(w)
<1>0. HeapType(H) /\ Null \notin F /\ a \in Int /\ TagAt(H, Null) = NoTag
  <2>1. HeapType(H) /\ Null \notin F /\ a \in Int
    BY LinkedIs, NullAddress
  <2>2. Null \notin DOMAIN H.mem
    BY <2>1, WildOutside
  <2> QED
    BY <2>1, <2>2, WordType
<1>1. /\ w \in Seq(Int) /\ w \in NonEmpty /\ w[1] = a /\ n <= Len(H.mem) + 1
      /\ \A j \in 1 .. n - 1 : TagAt(H, w[j]) # NoTag /\ w[j + 1] = NextOf(H, w[j])
      /\ n = Len(H.mem) + 1 \/ TagAt(H, w[n]) = NoTag
  <2>1. /\ IsWalk(H, [b \in Int |-> NextOf(H, b)], a, w) /\ w \in Seq(Int)
        /\ n = Len(H.mem) + 1 \/ TagAt(H, w[n]) = NoTag
    BY <1>0, ChainIs
  <2>2. ASSUME NEW j \in 1 .. n - 1 PROVE TagAt(H, w[j]) # NoTag /\ w[j + 1] = NextOf(H, w[j])
    <3>1. w[j] \in Int
      BY <2>1, <2>2
    <3>2. TagAt(H, w[j]) # NoTag /\ w[j + 1] = [b \in Int |-> NextOf(H, b)][w[j]]
      BY <2>1, Zenon DEF IsWalk
    <3> QED
      BY <3>1, <3>2
  <2> QED
    BY <2>1, <2>2 DEF IsWalk
<1>2. n \in Nat /\ n >= 1
  BY <1>1, EmptySeq DEF NonEmpty
<1> HIDE DEF n
<1>3. \A j \in 1 .. n : w[j] \in F \cup {Null} /\ (w[j] # Null => a \in F /\ cl[w[j]] = cl[a])
  <2> DEFINE Q(j) == j + 1 \in 1 .. n =>
                       w[j + 1] \in F \cup {Null} /\ (w[j + 1] # Null => a \in F /\ cl[w[j + 1]] = cl[a])
             S == {j \in Nat : Q(j)}
  <2>1. 0 \in S
    BY <1>0, <1>1
  <2>2. ASSUME NEW j \in S PROVE j + 1 \in S
    <3> SUFFICES ASSUME j + 2 \in 1 .. n
                 PROVE  w[j + 2] \in F \cup {Null} /\ (w[j + 2] # Null => a \in F /\ cl[w[j + 2]] = cl[a])
      OBVIOUS
    <3>1. j + 1 \in 1 .. n /\ j + 1 \in 1 .. n - 1 /\ (j + 1) + 1 = j + 2
      BY <1>2
    <3>2. w[j + 1] # Null /\ w[j + 2] = NextOf(H, w[j + 1])
      BY <1>0, <1>1, <3>1
    <3>3. w[j + 1] \in F /\ a \in F /\ cl[w[j + 1]] = cl[a]
      BY <3>1, <3>2
    <3> QED
      BY <3>2, <3>3, LinkedIs
  <2>3. S = Nat
    <3>1. S \in SUBSET Nat
      OBVIOUS
    <3> HIDE DEF S
    <3> QED
      BY <2>1, <2>2, <3>1, Induction
  <2>4. ASSUME NEW j \in 1 .. n
        PROVE  w[j] \in F \cup {Null} /\ (w[j] # Null => a \in F /\ cl[w[j]] = cl[a])
    <3>1. j - 1 \in Nat /\ (j - 1) + 1 = j
      BY <1>2
    <3>2. \A m \in Nat : Q(m)
      BY <2>3
    <3>3. Q(j - 1)
      BY <3>1, <3>2
    <3> QED
      BY <3>1, <3>3
  <2> QED
    BY <2>4
<1>4. \A j \in 1 .. n - 1 : w[j] \in F /\ a \in F /\ cl[w[j]] = cl[a] /\ w[j + 1] = NextOf(H, w[j])
  <2> TAKE j \in 1 .. n - 1
  <2>1. j \in 1 .. n /\ w[j] # Null
    BY <1>0, <1>1, <1>2 DEF n
  <2> QED
    BY <1>1, <1>3, <2>1 DEF n
<1>5. \A j, k \in 1 .. n : j < k /\ w[k] # Null => rk[w[k]] < rk[w[j]]
  <2> DEFINE Q(j) == \A i \in 1 .. j : j + 1 \in 1 .. n /\ w[j + 1] # Null => rk[w[j + 1]] < rk[w[i]]
             S == {j \in Nat : Q(j)}
  <2>1. 0 \in S
    OBVIOUS
  <2>2. ASSUME NEW j \in S PROVE j + 1 \in S
    <3> SUFFICES ASSUME NEW i \in 1 .. j + 1, j + 2 \in 1 .. n, w[j + 2] # Null
                 PROVE  rk[w[j + 2]] < rk[w[i]]
      OBVIOUS
    <3>1. j + 1 \in 1 .. n /\ j + 1 \in 1 .. n - 1 /\ (j + 1) + 1 = j + 2
      BY <1>2
    <3>2. w[j + 1] \in F /\ w[j + 2] = NextOf(H, w[j + 1])
      BY <1>4, <3>1
    <3>3. rk[w[j + 2]] < rk[w[j + 1]] /\ w[j + 2] \in F
      BY <3>2, LinkedIs
    <3>4. CASE i = j + 1
      BY <3>3, <3>4
    <3>5. CASE i # j + 1
      <4>1. i \in 1 .. j /\ i \in 1 .. n - 1 /\ w[j + 1] # Null
        BY <1>0, <1>2, <3>1, <3>2, <3>5
      <4>2. rk[w[j + 1]] < rk[w[i]] /\ w[i] \in F
        BY <1>4, <3>1, <4>1
      <4>3. PICK x \in Nat, y \in Nat, z \in Nat : x = rk[w[j + 2]] /\ y = rk[w[j + 1]] /\ z = rk[w[i]]
        BY <3>2, <3>3, <4>2, LinkedIs
      <4> QED
        BY <3>3, <4>2, <4>3
    <3> QED
      BY <3>4, <3>5
  <2>3. S = Nat
    <3>1. S \in SUBSET Nat
      OBVIOUS
    <3> HIDE DEF S
    <3> QED
      BY <2>1, <2>2, <3>1, Induction
  <2>4. ASSUME NEW j \in 1 .. n, NEW k \in 1 .. n, j < k, w[k] # Null PROVE rk[w[k]] < rk[w[j]]
    <3>1. k - 1 \in Nat /\ (k - 1) + 1 = k /\ j \in 1 .. k - 1
      BY <1>2, <2>4
    <3>2. \A m \in Nat : Q(m)
      BY <2>3
    <3>3. Q(k - 1)
      BY <3>1, <3>2
    <3> QED
      BY <2>4, <3>1, <3>3
  <2> QED
    BY <2>4
<1>6. w[n] = Null
  <2> SUFFICES ASSUME w[n] # Null PROVE FALSE
    OBVIOUS
  <2>1. w[n] \in F
    BY <1>2, <1>3
  <2>2. n = Len(H.mem) + 1 /\ Len(H.mem) \in Nat /\ DOMAIN H.mem = 1 .. Len(H.mem)
    BY <1>0, <1>1, <2>1, MemType DEF Tagged, n
  <2>3. \A j \in 1 .. n : w[j] \in F /\ w[j] \in 1 .. Len(H.mem)
    <3> TAKE j \in 1 .. n
    <3>1. w[j] \in F
      BY <1>2, <1>4, <2>1
    <3> QED
      BY <2>2, <3>1, LinkedIs
  <2> DEFINE D == 1 .. n
             C == 1 .. Len(H.mem)
             f == [j \in D |-> w[j]]
  <2>4. f \in [D -> C]
    BY <2>3
  <2>5. IsFiniteSet(D) /\ IsFiniteSet(C) /\ Cardinality(D) = n /\ Cardinality(C) = n - 1
    <3>1. PICK l \in Nat : l = Len(H.mem) /\ n = l + 1
      BY <2>2
    <3>2. IsFiniteSet(1 .. l) /\ Cardinality(1 .. l) = l
      BY FS_Interval
    <3>3. IsFiniteSet(1 .. l + 1) /\ Cardinality(1 .. l + 1) = l + 1
      BY FS_Interval
    <3> QED
      BY <3>1, <3>2, <3>3
  <2>6. Cardinality(C) < Cardinality(D)
    BY <1>2, <2>5
  <2> HIDE DEF C
  <2>7. PICK x, y \in D : x # y /\ f[x] = f[y]
    <3> HIDE DEF D, f
    <3> QED
      BY <2>4, <2>5, <2>6, FS_PigeonHole
  <2>8. w[x] = w[y] /\ x \in 1 .. n /\ y \in 1 .. n /\ w[x] \in F
    BY <2>3, <2>7
  <2>9. PICK r \in Nat : r = rk[w[x]]
    BY <2>8, LinkedIs
  <2>10. rk[w[x]] < rk[w[y]] \/ rk[w[y]] < rk[w[x]]
    <3>1. w[x] # Null /\ w[y] # Null /\ (x < y \/ y < x)
      BY <1>0, <2>7, <2>8
    <3> QED
      BY <1>5, <2>8, <3>1
  <2> QED
    BY <2>8, <2>9, <2>10
<1>7. ASSUME NEW c \in F, a \in F, cl[c] = cl[a], rk[c] <= rk[a], \A j \in 1 .. n - 1 : w[j] # c
      PROVE  FALSE
  <2> DEFINE Q(j) == j + 1 \in 1 .. n => w[j + 1] # Null /\ rk[c] <= rk[w[j + 1]]
             S == {j \in Nat : Q(j)}
  <2>1. 0 \in S
    BY <1>0, <1>1, <1>7
  <2>2. ASSUME NEW j \in S PROVE j + 1 \in S
    <3> SUFFICES ASSUME j + 2 \in 1 .. n
                 PROVE  w[j + 2] # Null /\ rk[c] <= rk[w[j + 2]]
      OBVIOUS
    <3>1. j + 1 \in 1 .. n /\ j + 1 \in 1 .. n - 1 /\ (j + 1) + 1 = j + 2
      BY <1>2
    <3>2. w[j + 1] \in F /\ w[j + 2] = NextOf(H, w[j + 1]) /\ cl[w[j + 1]] = cl[a] /\ w[j + 1] # c
      BY <1>4, <1>7, <3>1
    <3>3. rk[c] <= rk[w[j + 1]]
      BY <3>1
    <3>4. w[j + 2] # Null /\ (c = w[j + 2] \/ rk[c] < rk[w[j + 2]])
      BY <1>7, <3>2, <3>3, Ordered
    <3>5. w[j + 2] \in F /\ rk[w[j + 2]] \in Nat /\ rk[c] \in Nat
      BY <3>2, <3>4, LinkedIs
    <3>6. rk[c] <= rk[w[j + 2]]
      BY <3>4, <3>5
    <3> QED
      BY <3>4, <3>6
  <2>3. S = Nat
    <3>1. S \in SUBSET Nat
      OBVIOUS
    <3> HIDE DEF S
    <3> QED
      BY <2>1, <2>2, <3>1, Induction
  <2>4. n - 1 \in Nat /\ (n - 1) + 1 = n /\ n \in 1 .. n
    BY <1>2
  <2>5. \A m \in Nat : Q(m)
    BY <2>3
  <2>6. Q(n - 1)
    BY <2>4, <2>5
  <2> QED
    BY <1>6, <2>4, <2>6
<1>8. \A j, k \in 1 .. n - 1 : j < k => rk[w[k]] < rk[w[j]]
  <2> TAKE j \in 1 .. n - 1, k \in 1 .. n - 1
  <2>1. j \in 1 .. n /\ k \in 1 .. n /\ w[k] # Null
    BY <1>0, <1>2, <1>4
  <2> QED
    BY <1>5, <2>1
<1> QED
  BY <1>1, <1>2, <1>4, <1>6, <1>7, <1>8 DEF ChainOf, n

\* The first block of S in the list from a on, or Null.
Sought(F, cl, rk, a, S, p) ==
  /\ p # Null => p \in F /\ p \in S /\ a \in F /\ cl[p] = cl[a]
  /\ \A c \in F : a \in F /\ cl[c] = cl[a] /\ rk[c] <= rk[a] /\ c \in S =>
       p # Null /\ (c = p \/ rk[c] < rk[p])

LEMMA SeekOn ==
  ASSUME NEW H, NEW F, NEW cl, NEW rk, Linked(H, F, cl, rk), Tagged(H, F),
         NEW a \in F \cup {Null}, NEW S, NEW p, p = SeekSet(H, Chain(H, a), S)
  PROVE  Sought(F, cl, rk, a, S, p)
<1> DEFINE w == Chain(H, a)
           n == Len(w)
           I == Hits(H, w, S)
<1>1. ChainOf(H, F, cl, rk, a, w)
  BY ChainOn
<1>2. p = IF I = {} THEN Wild ELSE w[Min(I)]
  BY DEF SeekSet
<1>0. Null \notin F
  BY LinkedIs
<1> HIDE DEF w
<1>3. n \in Nat /\ n >= 1 /\ w[n] = Null /\ n \in 1 .. n
  BY <1>1 DEF ChainOf
<1>4. I \in SUBSET Nat /\ n \in I
  BY <1>3 DEF Hits
<1>5. Min(I) \in I /\ \A j \in I : Min(I) <= j
  BY <1>4, LeastOf
<1>6. PICK i \in 1 .. n : i = Min(I) /\ (w[i] = Null \/ (TagAt(H, w[i]) # NoTag /\ w[i] \in S))
  BY <1>5 DEF Hits
<1>7. p = w[i] /\ \A j \in I : i <= j
  BY <1>2, <1>4, <1>5, <1>6
<1>8. \A j \in 1 .. n : j \in I <=> w[j] = Null \/ (TagAt(H, w[j]) # NoTag /\ w[j] \in S)
  BY DEF Hits
<1> HIDE DEF I, n
<1>a. /\ \A j \in 1 .. n - 1 : w[j] \in F /\ a \in F /\ cl[w[j]] = cl[a] /\ w[j + 1] = NextOf(H, w[j])
      /\ \A j, k \in 1 .. n - 1 : j < k => rk[w[k]] < rk[w[j]]
      /\ \A c \in F : a \in F /\ cl[c] = cl[a] /\ rk[c] <= rk[a] => \E j \in 1 .. n - 1 : w[j] = c
  BY <1>1 DEF ChainOf, n
<1>9. p # Null => p \in F /\ p \in S /\ a \in F /\ cl[p] = cl[a]
  <2> SUFFICES ASSUME p # Null PROVE p \in F /\ p \in S /\ a \in F /\ cl[p] = cl[a]
    OBVIOUS
  <2>1. i \in 1 .. n - 1
    BY <1>3, <1>6, <1>7
  <2> QED
    BY <1>6, <1>7, <1>a, <2>1
<1>10. ASSUME NEW c \in F, a \in F, cl[c] = cl[a], rk[c] <= rk[a], c \in S
       PROVE  p # Null /\ (c = p \/ rk[c] < rk[p])
  <2>1. PICK j \in 1 .. n - 1 : w[j] = c
    BY <1>10, <1>a
  <2>2. j \in 1 .. n /\ j \in I
    <3>1. j \in 1 .. n
      BY <1>3
    <3>2. TagAt(H, w[j]) # NoTag /\ w[j] \in S
      BY <1>10, <2>1 DEF Tagged
    <3> QED
      BY <1>8, <3>1, <3>2
  <2>3. i <= j
    BY <1>7, <2>2
  <2>4. i \in 1 .. n - 1
    BY <1>3, <1>6, <2>3
  <2>5. i = j \/ i < j
    BY <2>3, <2>4
  <2> QED
    BY <1>0, <1>7, <1>a, <2>1, <2>4, <2>5
<1> QED
  BY <1>9, <1>10 DEF Sought

\* Block p is the first of S in its list.
FirstOf(F, cl, rk, p, S) ==
  p \in F /\ p \in S /\ \A c \in F : cl[c] = cl[p] /\ c \in S => c = p \/ rk[c] < rk[p]

LEMMA SeekFirst ==
  ASSUME NEW H, NEW F, NEW cl, NEW rk, Linked(H, F, cl, rk), Tagged(H, F), NEW i \in Lists,
         NEW S, NEW p, p = SeekSet(H, Chain(H, H.heads[i]), S), p # Null
  PROVE  FirstOf(F, cl, rk, p, S) /\ cl[p] = i
<1> DEFINE h == H.heads[i]
<1>1. h \in F \cup {Null} /\ (h # Null => cl[h] = i)
  BY LinkedIs
<1>2. Sought(F, cl, rk, h, S, p)
  BY <1>1, SeekOn
<1> HIDE DEF h
<1>3. p \in F /\ p \in S /\ h \in F /\ cl[p] = cl[h]
  BY <1>2 DEF Sought
<1>4. h # Null /\ cl[p] = i /\ h = H.heads[cl[p]]
  BY <1>1, <1>3, LinkedIs DEF h
<1>5. ASSUME NEW c \in F, cl[c] = cl[p], c \in S PROVE c = p \/ rk[c] < rk[p]
  <2>1. (c = h \/ rk[c] < rk[h]) /\ rk[c] \in Nat /\ rk[h] \in Nat
    BY <1>3, <1>4, <1>5, HeadMost, LinkedIs
  <2>2. rk[c] <= rk[h]
    BY <2>1
  <2> QED
    BY <1>2, <1>3, <1>5, <2>2 DEF Sought
<1> QED
  BY <1>3, <1>4, <1>5 DEF FirstOf

\* It is found behind the head, unless it is the head.
LEMMA SeekBehind ==
  ASSUME NEW H, NEW F, NEW cl, NEW rk, Linked(H, F, cl, rk), Tagged(H, F),
         NEW S, NEW p, FirstOf(F, cl, rk, p, S), p # H.heads[cl[p]]
  PROVE  /\ NextOf(H, H.heads[cl[p]]) # Null /\ PrevOf(H, p) # Null
         /\ SeekSet(H, Chain(H, NextOf(H, H.heads[cl[p]])), S) = p
<1> DEFINE h == H.heads[cl[p]]
           a == NextOf(H, h)
           q == SeekSet(H, Chain(H, a), S)
<1>1. p \in F /\ p \in S /\ p # Null
  BY LinkedIs DEF FirstOf
<1>2. h \in F /\ cl[h] = cl[p] /\ rk[p] < rk[h] /\ rk[h] \in Nat /\ rk[p] \in Nat
  BY <1>1, HeadMost, LinkedIs
<1>d. a = NextOf(H, h) /\ q = SeekSet(H, Chain(H, a), S)
  OBVIOUS
<1> HIDE DEF h, a, q
<1>3. rk[p] <= rk[h] /\ h # p
  BY <1>2
<1>4. a # Null /\ (p = a \/ rk[p] < rk[a])
  BY <1>1, <1>2, <1>3, <1>d, Ordered
<1>5. a \in F /\ cl[a] = cl[p] /\ rk[a] \in Nat
  BY <1>2, <1>4, <1>d, LinkedIs
<1>6. Sought(F, cl, rk, a, S, q)
  BY <1>5, <1>d, SeekOn
<1>7. rk[p] <= rk[a]
  BY <1>2, <1>4, <1>5
<1>8. q # Null /\ (p = q \/ rk[p] < rk[q]) /\ q \in F /\ q \in S /\ cl[q] = cl[p]
  BY <1>1, <1>5, <1>6, <1>7 DEF Sought
<1>9. q = p \/ rk[q] < rk[p]
  BY <1>8 DEF FirstOf
<1>10. rk[q] \in Nat
  BY <1>8, LinkedIs
<1>11. q = p
  BY <1>2, <1>8, <1>9, <1>10
<1>12. PrevOf(H, p) # Null
  BY <1>1, LinkedIs
<1> QED
  BY <1>4, <1>11, <1>12 DEF q, a, h

\* What sf_malloc and sf_free do to take a block off its list does that.
LEMMA RemoveSplitOff ==
  ASSUME NEW H, NEW F, NEW cl, NEW rk, Linked(H, F, cl, rk), Tagged(H, F), NEW n,
         NEW p, FirstOf(F, cl, rk, p, OfSize(H, n)), NextOf(H, p) = Null
  PROVE  Off(H, RemoveSplit(H, cl[p], n), F, cl, rk, p)
<1> DEFINE h == H.heads[cl[p]]
           q == SeekSize(H, NextOf(H, h), n)
<1>1. p \in F /\ p # Null /\ cl[p] \in Lists
  BY LinkedIs DEF FirstOf
<1>2. h # Null /\ h \in F /\ PrevOf(H, h) = Null
  BY <1>1, HeadMost, LinkedIs
<1>3. RemoveSplit(H, cl[p], n) =
        IF NextOf(H, h) = Null /\ PrevOf(H, h) = Null THEN SetHead(H, cl[p], Null)
        ELSE IF q = Null THEN H
        ELSE SetNext(H, PrevOf(H, q), NextOf(H, q))
  BY Zenon DEF RemoveSplit
<1>4. CASE p = h
  BY <1>1, <1>2, <1>3, <1>4, SoleOff
<1>5. CASE p # h
  <2>1. NextOf(H, h) # Null /\ PrevOf(H, p) # Null
        /\ SeekSet(H, Chain(H, NextOf(H, h)), OfSize(H, n)) = p
    BY <1>5, SeekBehind
  <2>2. HeapType(H) /\ NextOf(H, h) \in Int
    BY <1>2, <2>1, LinkedIs
  <2>3. q = p
    BY <2>1, <2>2, SeekIs
  <2>4. RemoveSplit(H, cl[p], n) = SetNext(H, PrevOf(H, p), NextOf(H, p))
    BY <1>1, <1>3, <2>1, <2>3
  <2> QED
    BY <1>1, <2>1, <2>4, CutOff
<1> QED
  BY <1>4, <1>5

LEMMA RemoveNextOff ==
  ASSUME NEW H, NEW F, NEW cl, NEW rk, Linked(H, F, cl, rk), Tagged(H, F), NEW n,
         NEW p, FirstOf(F, cl, rk, p, OfSize(H, n)), cl[p] = Class(n)
  PROVE  Off(H, RemoveNext(H, n), F, cl, rk, p)
<1> DEFINE i == Class(n)
           h == H.heads[i]
           q == SeekSize(H, NextOf(H, h), n)
<1>1. p \in F /\ p # Null /\ i \in Lists
  BY LinkedIs DEF FirstOf
<1>2. h # Null /\ h \in F /\ cl[h] = i /\ h = H.heads[cl[p]]
  BY <1>1, HeadMost, LinkedIs
<1>3. RemoveNext(H, n) =
        IF NextOf(H, h) = Null THEN SetHead(H, i, Null)
        ELSE IF SizeAt(H, h) = n THEN PopHead(H, i)
        ELSE IF q = Null THEN H ELSE Detach(H, q)
  BY Zenon DEF RemoveNext
<1>d. h = H.heads[i]
  OBVIOUS
<1>e. q = SeekSize(H, NextOf(H, h), n)
  OBVIOUS
<1>f. i = Class(n)
  OBVIOUS
<1> HIDE DEF i, h, q
<1>4. CASE p = h
  <2>1. SizeAt(H, h) = n
    BY <1>4 DEF FirstOf, OfSize
  <2> QED
    BY <1>1, <1>3, <1>4, <1>d, <2>1, SoleOff, PopHeadOff
<1>5. CASE p # h
  <2>1. NextOf(H, h) # Null /\ PrevOf(H, p) # Null
        /\ SeekSet(H, Chain(H, NextOf(H, h)), OfSize(H, n)) = p
    BY <1>2, <1>5, SeekBehind
  <2>2. HeapType(H) /\ NextOf(H, h) \in Int
    BY <1>2, <2>1, LinkedIs
  <2>3. q = p
    BY <1>e, <2>1, <2>2, SeekIs
  <2>4. SizeAt(H, h) # n
    <3> SUFFICES ASSUME SizeAt(H, h) = n PROVE FALSE
      OBVIOUS
    <3>1. h \in OfSize(H, n)
      BY <1>2, LinkedIs DEF OfSize
    <3>2. rk[h] < rk[p]
      BY <1>2, <1>5, <1>f, <3>1 DEF FirstOf
    <3>3. rk[p] < rk[h]
      BY <1>1, <1>2, <1>5, HeadMost
    <3>4. rk[p] \in Nat /\ rk[h] \in Nat
      BY <1>1, <1>2, LinkedIs
    <3> QED
      BY <3>2, <3>3, <3>4
  <2>5. RemoveNext(H, n) = Detach(H, p)
    BY <1>1, <1>3, <2>1, <2>3, <2>4
  <2> QED
    BY <1>1, <2>1, <2>5, DetachOff
<1> QED
  BY <1>4, <1>5

LEMMA RemoveLastOff ==
  ASSUME NEW H, NEW F, NEW cl, NEW rk, Linked(H, F, cl, rk), NEW n,
         NEW p, p = H.heads[Class(n)], p # Null, SizeAt(H, p) = n
  PROVE  p \in F /\ Off(H, RemoveLast(H, n), F, cl, rk, p)
<1> DEFINE i == Class(n)
<1>1. i \in Lists
  BY ClassIs
<1>2. p \in F /\ PrevOf(H, p) = Null
  BY <1>1, LinkedIs
<1>3. RemoveLast(H, n) = IF NextOf(H, p) = Null /\ PrevOf(H, p) = Null THEN SetHead(H, i, Null)
                         ELSE PopHead(H, i)
  BY DEF RemoveLast
<1> HIDE DEF i
<1>4. p = H.heads[i]
  BY DEF i
<1> QED
  BY <1>1, <1>2, <1>3, <1>4, SoleOff, PopHeadOff

-----------------------------------------------------------------------------
(* Blocks side by side *)

\* Blocks at the addresses B, sz[b] words at b, from one end of n words to the other.
Tile(B, sz, n) ==
  /\ B \in SUBSET Int /\ sz \in [Int -> Nat] /\ n \in Nat
  /\ n > 0 => 1 \in B
  /\ \A b \in B : b >= 1 /\ sz[b] >= 4 /\ b + sz[b] <= n + 1
                  /\ (b + sz[b] = n + 1 \/ b + sz[b] \in B)
  /\ \A b, c \in B : b < c => b + sz[b] <= c

Span(b, k) == b .. b + k - 1

LEMMA TileIs ==
  ASSUME NEW B, NEW sz, NEW n, Tile(B, sz, n), NEW b \in B
  PROVE  /\ b \in Int /\ b >= 1 /\ sz[b] \in Nat /\ sz[b] >= 4 /\ n \in Nat /\ b + sz[b] <= n + 1
         /\ b + sz[b] = n + 1 \/ b + sz[b] \in B
         /\ \A c \in B : c \in Int /\ (b < c => b + sz[b] <= c)
BY DEF Tile

\* A block is split in two.
LEMMA SplitTile ==
  ASSUME NEW B, NEW sz, NEW n, Tile(B, sz, n), NEW p \in B, NEW m \in Nat, m >= 4,
         NEW k \in Nat, k >= 4, sz[p] = m + k, NEW f, f = p + m
  PROVE  f \notin B /\ f # p /\ f \in Int /\ Tile(B \cup {f}, [sz EXCEPT ![p] = m, ![f] = k], n)
<1> DEFINE sz2 == [sz EXCEPT ![p] = m, ![f] = k]
<1>1. /\ p \in Int /\ p >= 1 /\ sz[p] \in Nat /\ n \in Nat /\ p + sz[p] <= n + 1
      /\ p + sz[p] = n + 1 \/ p + sz[p] \in B
      /\ \A c \in B : c \in Int /\ (p < c => p + sz[p] <= c)
  BY TileIs
<1>2. f \in Int /\ f # p /\ p < f /\ f < p + sz[p] /\ f + k = p + sz[p]
  BY <1>1
<1>3. f \notin B
  <2> SUFFICES ASSUME f \in B PROVE FALSE
    OBVIOUS
  <2>1. p + sz[p] <= f
    BY <1>1, <1>2
  <2> QED
    BY <1>1, <1>2, <2>1
<1>4. sz \in [Int -> Nat] /\ sz2 \in [Int -> Nat] /\ sz2[p] = m /\ sz2[f] = k
      /\ \A c \in B \ {p} : sz2[c] = sz[c]
  BY <1>1, <1>2, <1>3 DEF Tile
<1> HIDE DEF sz2
<1>5. ASSUME NEW b \in B \cup {f}
      PROVE  /\ b \in Int /\ b >= 1 /\ sz2[b] >= 4 /\ b + sz2[b] <= n + 1
             /\ b + sz2[b] = n + 1 \/ b + sz2[b] \in B \cup {f}
  <2>1. CASE b = p
    BY <1>1, <1>2, <1>4, <2>1
  <2>2. CASE b = f
    BY <1>1, <1>2, <1>4, <2>2
  <2>3. CASE b # p /\ b # f
    <3>1. b \in B /\ sz2[b] = sz[b]
      BY <1>4, <2>3
    <3> QED
      BY <3>1, TileIs
  <2> QED
    BY <2>1, <2>2, <2>3
<1>6. ASSUME NEW b \in B \cup {f}, NEW c \in B \cup {f}, b < c PROVE b + sz2[b] <= c
  <2>0. b \in Int /\ c \in Int
    BY <1>1, <1>2
  <2>1. CASE b = p /\ c # f
    <3>1. p + sz[p] <= c
      BY <1>1, <1>6, <2>1
    <3> QED
      BY <1>1, <1>4, <2>0, <2>1, <3>1
  <2>2. CASE b = p /\ c = f
    BY <1>1, <1>2, <1>4, <2>2
  <2>3. CASE b = f /\ c # f
    <3>1. p < c /\ c \in B
      BY <1>1, <1>2, <1>6, <2>0, <2>3
    <3>2. p + sz[p] <= c
      BY <1>1, <3>1
    <3> QED
      BY <1>1, <1>2, <1>4, <2>0, <2>3, <3>2
  <2>4. CASE b # p /\ b # f /\ c # f
    BY <1>4, <1>6, <2>4, TileIs
  <2>5. CASE b # p /\ b # f /\ c = f
    <3>1. b \in B /\ sz2[b] = sz[b] /\ sz[b] \in Nat /\ (b < p => b + sz[b] <= p)
          /\ (p < b => p + sz[p] <= b)
      BY <1>1, <1>4, <2>5, TileIs
    <3>2. b < p
      BY <1>1, <1>2, <1>6, <2>0, <2>5, <3>1
    <3> QED
      BY <1>1, <1>2, <2>0, <2>5, <3>1, <3>2
  <2>6. CASE b = f /\ c = f
    BY <1>6, <2>0, <2>6
  <2> QED
    BY <2>1, <2>2, <2>3, <2>4, <2>5, <2>6
<1>7. n > 0 => 1 \in B \cup {f}
  BY DEF Tile
<1> QED
  BY <1>1, <1>2, <1>3, <1>4, <1>5, <1>6, <1>7 DEF Tile, sz2

\* A block is joined with the one behind it.
LEMMA JoinTile ==
  ASSUME NEW B, NEW sz, NEW n, Tile(B, sz, n), NEW h \in B, NEW e \in B, e = h + sz[h]
  PROVE  h # e /\ Tile(B \ {e}, [sz EXCEPT ![h] = sz[h] + sz[e]], n)
<1> DEFINE sz2 == [sz EXCEPT ![h] = sz[h] + sz[e]]
<1>1. /\ h \in Int /\ h >= 1 /\ sz[h] \in Nat /\ sz[h] >= 4 /\ n \in Nat /\ h + sz[h] <= n + 1
      /\ \A c \in B : c \in Int /\ (h < c => h + sz[h] <= c)
  BY TileIs
<1>2. /\ e \in Int /\ e >= 1 /\ sz[e] \in Nat /\ sz[e] >= 4 /\ e + sz[e] <= n + 1
      /\ e + sz[e] = n + 1 \/ e + sz[e] \in B
      /\ \A c \in B : c \in Int /\ (e < c => e + sz[e] <= c)
  BY TileIs
<1>3. h # e /\ h < e /\ sz[h] + sz[e] \in Nat
  BY <1>1, <1>2
<1>4. sz2 \in [Int -> Nat] /\ sz2[h] = sz[h] + sz[e] /\ \A c \in B \ {h} : sz2[c] = sz[c]
  BY <1>1, <1>3 DEF Tile
<1> HIDE DEF sz2
<1>5. ASSUME NEW b \in B \ {e}
      PROVE  /\ b \in Int /\ b >= 1 /\ sz2[b] >= 4 /\ b + sz2[b] <= n + 1
             /\ b + sz2[b] = n + 1 \/ b + sz2[b] \in B \ {e}
  <2>1. CASE b = h
    <3>1. h + sz2[h] = e + sz[e]
      BY <1>1, <1>2, <1>4
    <3>2. e + sz[e] # e
      BY <1>2
    <3> QED
      BY <1>1, <1>2, <1>4, <2>1, <3>1, <3>2
  <2>2. CASE b # h
    <3>1. /\ sz2[b] = sz[b] /\ b \in Int /\ b >= 1 /\ sz[b] \in Nat /\ sz[b] >= 4 /\ b + sz[b] <= n + 1
          /\ b + sz[b] = n + 1 \/ b + sz[b] \in B
          /\ (b < h => b + sz[b] <= h) /\ (b < e => b + sz[b] <= e)
      BY <1>4, <2>2, TileIs
    <3>2. b + sz[b] # e
      <4>1. b > h => b >= e
        BY <1>1, <3>1
      <4> QED
        BY <1>1, <1>2, <1>3, <2>2, <3>1, <4>1
    <3> QED
      BY <3>1, <3>2
  <2> QED
    BY <2>1, <2>2
<1>6. ASSUME NEW b \in B \ {e}, NEW c \in B \ {e}, b < c PROVE b + sz2[b] <= c
  <2>1. CASE b = h
    <3>1. c \in Int /\ h + sz[h] <= c
      BY <1>1, <1>6, <2>1
    <3>2. e < c
      BY <1>1, <1>2, <3>1
    <3>3. e + sz[e] <= c
      BY <1>2, <3>2
    <3> QED
      BY <1>1, <1>2, <1>4, <2>1, <3>1, <3>3
  <2>2. CASE b # h
    BY <1>4, <1>6, <2>2, TileIs
  <2> QED
    BY <2>1, <2>2
<1>7. n > 0 => 1 \in B \ {e}
  BY <1>1, <1>2, <1>3 DEF Tile
<1> QED
  BY <1>1, <1>3, <1>4, <1>5, <1>6, <1>7 DEF Tile, sz2

\* New words: one more block, or a larger last one.
LEMMA GrowTile ==
  ASSUME NEW B, NEW sz, NEW n, Tile(B, sz, n), NEW k \in Nat, k >= 4, NEW b, b = n + 1
  PROVE  b \notin B /\ Tile(B \cup {b}, [sz EXCEPT ![b] = k], n + k)
<1> DEFINE sz2 == [sz EXCEPT ![b] = k]
<1>1. n \in Nat /\ b \in Int /\ sz \in [Int -> Nat] /\ (n > 0 => 1 \in B) /\ n + k \in Nat
  BY DEF Tile
<1>2. \A c \in B : c \in Int /\ c >= 1 /\ sz[c] \in Nat /\ sz[c] >= 4 /\ c + sz[c] <= n + 1
                   /\ (c + sz[c] = n + 1 \/ c + sz[c] \in B)
  BY TileIs
<1>3. b \notin B
  <2> SUFFICES ASSUME b \in B PROVE FALSE
    OBVIOUS
  <2>1. sz[b] \in Nat /\ sz[b] >= 4 /\ b + sz[b] <= n + 1
    BY <1>2
  <2> QED
    BY <1>1, <2>1
<1>4. sz2 \in [Int -> Nat] /\ sz2[b] = k /\ \A c \in B : sz2[c] = sz[c]
  BY <1>1, <1>3
<1> HIDE DEF sz2
<1>5. ASSUME NEW c \in B \cup {b}
      PROVE  /\ c \in Int /\ c >= 1 /\ sz2[c] >= 4 /\ c + sz2[c] <= (n + k) + 1
             /\ c + sz2[c] = (n + k) + 1 \/ c + sz2[c] \in B \cup {b}
  <2>1. CASE c = b
    BY <1>1, <1>4, <2>1
  <2>2. CASE c # b
    <3>1. c \in Int /\ c >= 1 /\ sz[c] \in Nat /\ sz[c] >= 4 /\ c + sz[c] <= n + 1
          /\ (c + sz[c] = b \/ c + sz[c] \in B) /\ sz2[c] = sz[c]
      BY <1>2, <1>4, <2>2
    <3> QED
      BY <1>1, <3>1
  <2> QED
    BY <2>1, <2>2
<1>6. ASSUME NEW c \in B \cup {b}, NEW d \in B \cup {b}, c < d PROVE c + sz2[c] <= d
  <2>1. CASE c \in B /\ d \in B
    BY <1>4, <1>6, <2>1, TileIs
  <2>2. CASE c \in B /\ d = b
    BY <1>2, <1>4, <2>2
  <2>3. CASE c = b /\ d \in B
    <3>1. d \in Int /\ sz[d] >= 4 /\ sz[d] \in Nat /\ d + sz[d] <= n + 1
      BY <1>2, <2>3
    <3> QED
      BY <1>1, <1>6, <2>3, <3>1
  <2>4. CASE c = b /\ d = b
    BY <1>1, <1>6, <2>4
  <2> QED
    BY <2>1, <2>2, <2>3, <2>4
<1>7. n + k > 0 => 1 \in B \cup {b}
  BY <1>1
<1> QED
  BY <1>1, <1>3, <1>4, <1>5, <1>6, <1>7 DEF Tile, sz2

LEMMA StretchTile ==
  ASSUME NEW B, NEW sz, NEW n, Tile(B, sz, n), NEW k \in Nat, NEW b \in B, b + sz[b] = n + 1
  PROVE  Tile(B, [sz EXCEPT ![b] = sz[b] + k], n + k)
<1> DEFINE sz2 == [sz EXCEPT ![b] = sz[b] + k]
<1>1. n \in Nat /\ b \in Int /\ b >= 1 /\ sz[b] \in Nat /\ sz[b] >= 4 /\ sz \in [Int -> Nat]
      /\ (n > 0 => 1 \in B) /\ n + k \in Nat
  BY TileIs DEF Tile
<1>2. \A c \in B : c \in Int /\ c >= 1 /\ sz[c] \in Nat /\ sz[c] >= 4 /\ c + sz[c] <= n + 1
                   /\ (c + sz[c] = n + 1 \/ c + sz[c] \in B) /\ (c < b => c + sz[c] <= b)
                   /\ (b < c => b + sz[b] <= c)
  BY TileIs
<1>4. sz2 \in [Int -> Nat] /\ sz2[b] = sz[b] + k /\ \A c \in B \ {b} : sz2[c] = sz[c]
  BY <1>1
<1> HIDE DEF sz2
<1>5. ASSUME NEW c \in B
      PROVE  /\ c \in Int /\ c >= 1 /\ sz2[c] >= 4 /\ c + sz2[c] <= (n + k) + 1
             /\ c + sz2[c] = (n + k) + 1 \/ c + sz2[c] \in B
  <2>1. CASE c = b
    BY <1>1, <1>4, <2>1
  <2>2. CASE c # b
    <3>1. c \in Int /\ c >= 1 /\ sz[c] \in Nat /\ sz[c] >= 4 /\ c + sz[c] <= n + 1
          /\ (c + sz[c] = n + 1 \/ c + sz[c] \in B) /\ (c < b => c + sz[c] <= b)
          /\ (b < c => b + sz[b] <= c) /\ sz2[c] = sz[c]
      BY <1>2, <1>4, <2>2
    <3>2. c + sz[c] # n + 1
      BY <1>1, <2>2, <3>1
    <3> QED
      BY <1>1, <3>1, <3>2
  <2> QED
    BY <2>1, <2>2
<1>6. ASSUME NEW c \in B, NEW d \in B, c < d PROVE c + sz2[c] <= d
  <2>1. CASE c = b
    <3>1. d \in Int /\ sz[d] \in Nat /\ sz[d] >= 4 /\ d + sz[d] <= n + 1 /\ b + sz[b] <= d
      BY <1>2, <1>6, <2>1
    <3> QED
      BY <1>1, <3>1
  <2>2. CASE c # b
    BY <1>4, <1>6, <2>2, TileIs
  <2> QED
    BY <2>1, <2>2
<1>7. n + k > 0 => 1 \in B
  <2>1. n > 0
    BY <1>1
  <2> QED
    BY <1>1, <2>1
<1> QED
  BY <1>1, <1>4, <1>5, <1>6, <1>7 DEF Tile, sz2

-----------------------------------------------------------------------------
(* Sound heaps *)

\* A block of n words at b, free or allocated (a is 0 or 1): header and footer agree.
IsBlock(H, b, a, n) ==
  LET header == TagAt(H, b)
      footer == TagAt(H, b + n - 1)
  IN /\ header # NoTag /\ header.alloc = a /\ header.size = n
     /\ footer # NoTag /\ footer.alloc = a /\ footer.size = n /\ footer.padded = header.padded
     /\ a = 0 => header.padded = 0
     /\ a = 1 => footer.req + 2 = n \/ header.padded = 1

Kind(F, b) == IF b \in F THEN 0 ELSE 1
ClassFn(sz) == [b \in Int |-> Class(sz[b])]

\* The blocks at B fill the heap, those of F are free; the tags of those in X are not
\* written yet.
Paved(H, B, F, sz, X) ==
  /\ HeapType(H) /\ ~H.lost /\ F \subseteq B
  /\ Tile(B, sz, Len(H.mem))
  /\ \A b \in B \ X : IsBlock(H, b, Kind(F, b), sz[b])

\* A heap without harm: the blocks tile it, and the lists hold the free ones.
Sound(H, B, F, sz) == Paved(H, B, F, sz, {}) /\ LinkedSomehow(H, F, ClassFn(sz))

\* Allocated blocks but those of X keep their words.
Keep(H, B, F, sz, X, G) ==
  \A c \in B : c \notin F /\ c \notin X => \A a \in Span(c, sz[c]) : Word(G, a) = Word(H, a)

\* The links of F and the blocks of X.
Wide(F, sz, X) == Links(F) \cup UNION {Span(x, sz[x]) : x \in X}

LEMMA TagsApart ==
  ASSUME NEW B, NEW sz, NEW n, Tile(B, sz, n), NEW F \in SUBSET B, NEW X \in SUBSET B,
         NEW c \in B, c \notin X
  PROVE  /\ c \notin Wide(F, sz, X) /\ c + sz[c] - 1 \notin Wide(F, sz, X)
         /\ c \notin F => Span(c, sz[c]) \cap Wide(F, sz, X) = {}
<1>1. c \in Int /\ c >= 1 /\ sz[c] \in Nat /\ sz[c] >= 4
  BY TileIs
<1>2. ASSUME NEW a \in Span(c, sz[c]), a \in Wide(F, sz, X)
      PROVE  c \in F /\ a # c /\ a # c + sz[c] - 1
  <2>1. a \in Int /\ c <= a /\ a <= c + sz[c] - 1
    BY <1>1 DEF Span
  <2>2. ASSUME NEW x \in X, a \in Span(x, sz[x]) PROVE FALSE
    <3>1. x \in B /\ x # c
      BY <2>2
    <3>2. x \in Int /\ sz[x] \in Nat /\ (x < c => x + sz[x] <= c) /\ (c < x => c + sz[c] <= x)
      BY <3>1, TileIs
    <3>3. x <= a /\ a <= x + sz[x] - 1
      BY <2>2, <3>2 DEF Span
    <3> QED
      BY <1>1, <2>1, <3>1, <3>2, <3>3
  <2>3. PICK b \in F : a = b + 1 \/ a = b + 2
    BY <1>2, <2>2 DEF Wide, Links
  <2>4. b \in Int /\ sz[b] \in Nat /\ sz[b] >= 4 /\ (b < c => b + sz[b] <= c) /\ (c < b => c + sz[c] <= b)
    BY TileIs
  <2>5. b = c
    BY <1>1, <2>1, <2>3, <2>4
  <2> QED
    BY <1>1, <2>3, <2>5
<1>3. c \in Span(c, sz[c]) /\ c + sz[c] - 1 \in Span(c, sz[c])
  BY <1>1 DEF Span
<1> QED
  BY <1>2, <1>3

\* A block whose tags are not written is there still.
LEMMA BlockFrame ==
  ASSUME NEW H, NEW G, NEW A, Alike(H, G, A), NEW b, NEW a, NEW n, IsBlock(H, b, a, n),
         b \notin A, b + n - 1 \notin A
  PROVE  IsBlock(G, b, a, n)
<1>1. TagAt(G, b) = TagAt(H, b) /\ TagAt(G, b + n - 1) = TagAt(H, b + n - 1)
  BY AlikeReads
<1> QED
  BY <1>1 DEF IsBlock

\* Steps that write the links of free blocks, and what they like in the blocks of X.
LEMMA PavedFrame ==
  ASSUME NEW H, NEW B, NEW F, NEW sz, NEW X \in SUBSET B, NEW Y \in SUBSET B, Paved(H, B, F, sz, X),
         NEW G, Alike(H, G, Wide(F, sz, Y))
  PROVE  /\ \A b \in B : b \notin X /\ b \notin Y => IsBlock(G, b, Kind(F, b), sz[b])
         /\ Keep(H, B, F, sz, Y, G)
         /\ X \subseteq Y => Paved(G, B, F, sz, Y)
<1>1. F \in SUBSET B /\ Tile(B, sz, Len(H.mem)) /\ Tile(B, sz, Len(G.mem))
      /\ HeapType(G) /\ ~G.lost
  BY DEF Paved, Alike
<1>2. ASSUME NEW b \in B, b \notin X, b \notin Y PROVE IsBlock(G, b, Kind(F, b), sz[b])
  <2>1. IsBlock(H, b, Kind(F, b), sz[b])
    BY <1>2 DEF Paved
  <2>2. b \notin Wide(F, sz, Y) /\ b + sz[b] - 1 \notin Wide(F, sz, Y)
    BY <1>1, <1>2, TagsApart
  <2> QED
    BY <2>1, <2>2, BlockFrame
<1>3. ASSUME NEW c \in B, c \notin F, c \notin Y, NEW a \in Span(c, sz[c]) PROVE Word(G, a) = Word(H, a)
  <2>1. Span(c, sz[c]) \cap Wide(F, sz, Y) = {}
    BY <1>1, <1>3, TagsApart
  <2>2. a \notin Wide(F, sz, Y)
    BY <2>1
  <2> QED
    BY <2>2, AlikeReads
<1>4. Keep(H, B, F, sz, Y, G)
  BY <1>3 DEF Keep
<1> QED
  BY <1>1, <1>2, <1>4 DEF Paved

=============================================================================
