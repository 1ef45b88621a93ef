-------------------------- MODULE SfAllocator_proofs --------------------------
(***************************************************************************)
(* Until the allocator is harmed, the blocks tile the heap, the lists hold *)
(* the free blocks exactly, every region lies in a block of its own, what  *)
(* was written stays, and every call returns.                              *)
(***************************************************************************)
EXTENDS SfHeap_proofs

-----------------------------------------------------------------------------
(* Blocks are written *)

TagSet(H, G, a, w) == Alike(H, G, {a}) /\ G.heads = H.heads /\ TagAt(G, a) = w /\ w # NoTag

LEMMA TagAfter ==
  ASSUME NEW H, NEW K, NEW A, Alike(H, K, A), NEW a, a \in DOMAIN H.mem, NEW w, w \in Tags
  PROVE  TagSet(K, Set(K, a, w), a, w)
<1>1. HeapType(K) /\ ~K.lost /\ a \in DOMAIN K.mem /\ w # NoTag
  BY CellKinds DEF Alike
<1> QED
  BY <1>1, SetTagReads DEF TagSet

LEMMA AllocTags ==
  ASSUME NEW s \in Nat, s + 2 <= 4 * PAGE_SZ
  PROVE  Tag(1, s % 2, Need(s), 0) \in Tags /\ Tag(1, s % 2, Need(s), s) \in Tags
<1>1. PICK r \in 0 .. 1 : r = s % 2
  BY NeedIs
<1>2. PICK m \in Evens : m = Need(s)
  BY NeedEven
<1>3. s \in Extent /\ 0 \in Extent
  BY Page DEF Extent
<1>4. Tag(1, r, m, 0) \in Tags /\ Tag(1, r, m, s) \in Tags
  BY <1>3 DEF Tag, Tags
<1> QED
  BY <1>1, <1>2, <1>4

LEMMA AllocReads ==
  ASSUME NEW H, HeapType(H), ~H.lost, NEW s \in Nat, s > 0, s + 2 <= 4 * PAGE_SZ,
         NEW b \in DOMAIN H.mem, b + Need(s) - 1 \in DOMAIN H.mem
  PROVE  /\ Alike(H, Alloc(H, b, s), {b, b + Need(s) - 1})
         /\ Alloc(H, b, s).heads = H.heads
         /\ IsBlock(Alloc(H, b, s), b, 1, Need(s))
<1> DEFINE n == Need(s)
           v == Tag(1, s % 2, n, 0)
           w == Tag(1, s % 2, n, s)
           z == b + n - 1
           G1 == Set(H, b, v)
           G == Set(G1, z, w)
<1>1. n \in Nat /\ n >= 4 /\ b \in Int /\ n = s + 2 + (s % 2) /\ s % 2 \in 0 .. 1
  BY NeedIs, InHeap
<1>2. v \in Tags /\ w \in Tags
  BY AllocTags
<1>3. Alloc(H, b, s) = G
  BY Zenon DEF Alloc, G, G1, v, w, z, n
<1>4. b # z /\ z \in DOMAIN H.mem
  BY <1>1
<1>v. v.alloc = 1 /\ v.padded = s % 2 /\ v.size = n
  BY DEF Tag
<1>w. w.alloc = 1 /\ w.padded = s % 2 /\ w.size = n /\ w.req = s
  BY DEF Tag
<1>z. z = b + n - 1 /\ n = Need(s)
  OBVIOUS
<1> HIDE DEF v, w, z, n
<1>5. TagSet(H, G1, b, v)
  BY <1>2, AlikeSelf, TagAfter
<1> HIDE DEF G1
<1>6. TagSet(G1, G, z, w)
  BY <1>2, <1>4, <1>5, TagAfter DEF TagSet, Alike
<1> HIDE DEF G
<1>7. Alike(H, G, {b, z}) /\ G.heads = H.heads
  BY <1>5, <1>6, AlikeTrans DEF TagSet
<1>8. TagAt(G, b) = v /\ TagAt(G, z) = w /\ v # NoTag /\ w # NoTag
  <2>1. TagAt(G, b) = TagAt(G1, b)
    BY <1>4, <1>6, AlikeReads DEF TagSet
  <2> QED
    BY <1>5, <1>6, <2>1 DEF TagSet
<1>9. IsBlock(G, b, 1, n)
  <2>1. w.req + 2 = n \/ v.padded = 1
    BY <1>1, <1>v, <1>w, <1>z
  <2> QED
    BY <1>8, <1>v, <1>w, <1>z, <2>1 DEF IsBlock
<1> QED
  BY <1>3, <1>7, <1>9, <1>z

LEMMA CarveReads ==
  ASSUME NEW H, HeapType(H), ~H.lost, NEW n \in Evens, n >= 4,
         NEW f \in DOMAIN H.mem, f + n - 1 \in DOMAIN H.mem
  PROVE  /\ Alike(H, Carve(H, f, n), Span(f, n)) /\ Carve(H, f, n).heads = H.heads
         /\ IsBlock(Carve(H, f, n), f, 0, n)
         /\ NextOf(Carve(H, f, n), f) = Null /\ PrevOf(Carve(H, f, n), f) = Null
<1> DEFINE t == Tag(0, 0, n, 0)
           z == f + n - 1
           G1 == Set(H, f, t)
           G2 == SetNext(G1, f, Null)
           G3 == SetPrev(G2, f, Null)
           G == Set(G3, z, t)
<1>1. n \in Nat /\ f \in Int /\ ~(n < 0)
  BY EvensAre, InHeap
<1>2. t \in Tags
  BY Page DEF Tag, Tags, Extent
<1>3. Carve(H, f, n) = G
  BY <1>1, Zenon DEF Carve, G, G1, G2, G3, t, z
<1>4. f # z /\ f + 1 # z /\ f + 2 # z /\ z \in Int /\ f + 1 \in DOMAIN H.mem /\ f + 2 \in DOMAIN H.mem
      /\ f # f + 1 /\ f # f + 2 /\ z \in DOMAIN H.mem
  <2>1. PICK l \in Nat : l = Len(H.mem) /\ DOMAIN H.mem = 1 .. l
    BY MemType
  <2> QED
    BY <1>1, <2>1
<1>5. f \in Span(f, n) /\ f + 1 \in Span(f, n) /\ f + 2 \in Span(f, n) /\ z \in Span(f, n)
  BY <1>1 DEF Span
<1>t. t.alloc = 0 /\ t.padded = 0 /\ t.size = n
  BY DEF Tag
<1>z. z = f + n - 1
  OBVIOUS
<1> HIDE DEF t, z
<1>6. TagSet(H, G1, f, t)
  BY <1>2, AlikeSelf, TagAfter
<1>7. Alike(H, G1, Span(f, n))
  BY <1>5, <1>6 DEF TagSet, Alike
<1> HIDE DEF G1
<1>8. NextSet(G1, G2, f, Null)
  BY <1>1, <1>4, <1>7, AddressInt, NextAfter, Zenon
<1>9. Alike(H, G2, Span(f, n))
  BY <1>5, <1>7, <1>8 DEF NextSet, Alike
<1> HIDE DEF G2
<1>10. PrevSet(G2, G3, f, Null)
  BY <1>1, <1>4, <1>9, AddressInt, PrevAfter, Zenon
<1>11. Alike(H, G3, Span(f, n))
  BY <1>5, <1>9, <1>10 DEF PrevSet, Alike
<1> HIDE DEF G3
<1>12. TagSet(G3, G, z, t)
  BY <1>2, <1>4, <1>11, TagAfter
<1>13. Alike(H, G, Span(f, n))
  BY <1>5, <1>11, <1>12 DEF TagSet, Alike
<1> HIDE DEF G
<1>14. G.heads = H.heads
  BY <1>6, <1>8, <1>10, <1>12 DEF TagSet, NextSet, PrevSet
<1>15. TagAt(G, f) = t /\ TagAt(G, z) = t /\ t # NoTag
  <2>1. TagAt(G, f) = TagAt(G3, f)
    BY <1>4, <1>12, AlikeReads DEF TagSet
  <2>2. TagAt(G3, f) = TagAt(G2, f)
    BY <1>4, <1>10, AlikeReads DEF PrevSet
  <2>3. TagAt(G2, f) = TagAt(G1, f)
    BY <1>4, <1>8, AlikeReads DEF NextSet
  <2> QED
    BY <1>6, <1>12, <2>1, <2>2, <2>3 DEF TagSet
<1>16. NextOf(G, f) = Null /\ PrevOf(G, f) = Null
  <2>1. NextOf(G, f) = NextOf(G3, f) /\ PrevOf(G, f) = PrevOf(G3, f)
    BY <1>4, <1>12, AlikeReads DEF TagSet, NextOf, PrevOf
  <2>2. NextOf(G3, f) = Null
    BY <1>1, <1>8, <1>10 DEF NextSet, PrevSet
  <2> QED
    BY <1>10, <2>1, <2>2 DEF PrevSet
<1>17. IsBlock(G, f, 0, n)
  BY <1>15, <1>t, <1>z DEF IsBlock
<1> QED
  BY <1>3, <1>13, <1>14, <1>16, <1>17


LEMMA SpanIn ==
  ASSUME NEW H, HeapType(H), NEW B, NEW sz, Tile(B, sz, Len(H.mem)), NEW b \in B
  PROVE  /\ Span(b, sz[b]) \subseteq DOMAIN H.mem
         /\ b \in DOMAIN H.mem /\ b + sz[b] - 1 \in DOMAIN H.mem
         /\ b \in Span(b, sz[b]) /\ b + sz[b] - 1 \in Span(b, sz[b])
<1>1. DOMAIN H.mem = 1 .. Len(H.mem)
  BY MemType
<1>2. b \in Int /\ b >= 1 /\ sz[b] \in Nat /\ sz[b] >= 4 /\ Len(H.mem) \in Nat
      /\ b + sz[b] <= Len(H.mem) + 1
  BY TileIs
<1>3. b \in Span(b, sz[b]) /\ b + sz[b] - 1 \in Span(b, sz[b])
  BY <1>2 DEF Span
<1>4. Span(b, sz[b]) \subseteq DOMAIN H.mem
  BY <1>1, <1>2 DEF Span
<1> QED
  BY <1>3, <1>4

LEMMA LinksApart ==
  ASSUME NEW B, NEW sz, NEW n, Tile(B, sz, n), NEW F \in SUBSET B, NEW b \in B
  PROVE  b \notin Links(F) /\ b + sz[b] - 1 \notin Links(F)
<1>1. Wide(F, sz, {}) = Links(F)
  BY DEF Wide
<1> QED
  BY <1>1, TagsApart

\* Block p is given out as a whole.
LEMMA WholePaved ==
  ASSUME NEW H, NEW B, NEW F, NEW sz, NEW p \in B, Paved(H, B, F, sz, {p}),
         NEW s \in Nat, s > 0, s + 2 <= 4 * PAGE_SZ, Need(s) = sz[p],
         NEW G, Alike(Alloc(H, p, s), G, Links(F))
  PROVE  Paved(G, B, F \ {p}, sz, {}) /\ Keep(H, B, F, sz, {p}, G)
<1> DEFINE K == Alloc(H, p, s)
           z == p + sz[p] - 1
<1>1. HeapType(H) /\ ~H.lost /\ F \in SUBSET B /\ Tile(B, sz, Len(H.mem))
  BY DEF Paved
<1>2. p \in DOMAIN H.mem /\ z \in DOMAIN H.mem /\ {p, z} \subseteq Span(p, sz[p])
  BY <1>1, SpanIn
<1>3. Alike(H, K, {p, z}) /\ IsBlock(K, p, 1, sz[p])
  BY <1>1, <1>2, AllocReads
<1>4. Alike(H, G, Wide(F, sz, {p}))
  BY <1>2, <1>3, AlikeTrans DEF Wide
<1>5. /\ \A b \in B : b # p => IsBlock(G, b, Kind(F, b), sz[b])
      /\ Keep(H, B, F, sz, {p}, G) /\ Paved(G, B, F, sz, {p})
  BY <1>4, PavedFrame
<1>6. IsBlock(G, p, 1, sz[p])
  <2>1. p \notin Links(F) /\ p + sz[p] - 1 \notin Links(F)
    BY <1>1, LinksApart
  <2> QED
    BY <1>3, <2>1, BlockFrame
<1>7. \A b \in B : IsBlock(G, b, Kind(F \ {p}, b), sz[b])
  BY <1>5, <1>6 DEF Kind
<1> QED
  BY <1>5, <1>7 DEF Paved

\* Block p is split, the front is given out and the rest is free.
SplitSize(sz, p, m) == [sz EXCEPT ![p] = m, ![p + m] = sz[p] - m]

Divided(H, B, F, sz, p, n, f, K) ==
  /\ Alike(H, K, Span(p, sz[p]) \ {p + 1, p + 2}) /\ K.heads = H.heads
  /\ NextOf(K, f) = Null /\ PrevOf(K, f) = Null /\ TagAt(K, f) # NoTag
  /\ TagAt(K, p) # NoTag /\ SizeAt(K, p) = n /\ f \notin B
  /\ \A G : Alike(K, G, Links(F \cup {f})) =>
       /\ Paved(G, B \cup {f}, (F \ {p}) \cup {f}, SplitSize(sz, p, n), {})
       /\ Keep(H, B, F, sz, {p}, G)

LEMMA SplitPaved ==
  ASSUME NEW H, NEW B, NEW F, NEW sz, NEW p \in B, Paved(H, B, F, sz, {p}),
         NEW s \in Nat, s > 0, s + 2 <= 4 * PAGE_SZ, NEW f, f = p + Need(s),
         NEW rest \in Evens, rest >= 4, sz[p] = Need(s) + rest
  PROVE  Divided(H, B, F, sz, p, Need(s), f, Carve(Alloc(H, p, s), f, rest))
<1> DEFINE n == Need(s)
           H1 == Alloc(H, p, s)
           K == Carve(H1, f, rest)
           z == p + n - 1
           y == f + rest - 1
           B2 == B \cup {f}
           F2 == (F \ {p}) \cup {f}
           sz2 == SplitSize(sz, p, n)
<1>1. HeapType(H) /\ ~H.lost /\ F \in SUBSET B /\ Tile(B, sz, Len(H.mem))
  BY DEF Paved
<1>2. n \in Nat /\ n >= 4 /\ rest \in Nat
  BY NeedIs, EvensAre
<1>3. f \notin B /\ f # p /\ f \in Int /\ Tile(B2, sz2, Len(H.mem))
  <2>1. sz[p] - n = rest
    BY <1>2
  <2>2. sz2 = [sz EXCEPT ![p] = n, ![f] = rest]
    BY <2>1, Zenon DEF SplitSize
  <2>3. sz[p] = n + rest /\ f = p + n
    OBVIOUS
  <2> HIDE DEF n, sz2
  <2>4. f \notin B /\ f # p /\ f \in Int /\ Tile(B \cup {f}, [sz EXCEPT ![p] = n, ![f] = rest], Len(H.mem))
    BY <1>1, <1>2, <2>3, SplitTile
  <2> QED
    BY <2>2, <2>4
<1>4. sz2[p] = n /\ sz2[f] = rest /\ \A b \in B : b # p => sz2[b] = sz[b]
  <2>1. sz \in [Int -> Nat] /\ B \subseteq Int /\ p \in Int
    BY <1>1 DEF Tile
  <2>2. sz[p] - n = rest
    BY <1>2
  <2> QED
    BY <1>3, <2>1, <2>2 DEF SplitSize
<1>5. /\ p \in DOMAIN H.mem /\ z \in DOMAIN H.mem /\ f \in DOMAIN H.mem /\ y \in DOMAIN H.mem
  <2>1. p \in B2 /\ f \in B2
    OBVIOUS
  <2> HIDE DEF B2, sz2, n
  <2>2. p \in DOMAIN H.mem /\ p + sz2[p] - 1 \in DOMAIN H.mem
    BY <1>1, <1>3, <2>1, SpanIn
  <2>3. f \in DOMAIN H.mem /\ f + sz2[f] - 1 \in DOMAIN H.mem
    BY <1>1, <1>3, <2>1, SpanIn
  <2> QED
    BY <1>4, <2>2, <2>3
<1>6. Alike(H, H1, {p, z}) /\ H1.heads = H.heads /\ IsBlock(H1, p, 1, n)
  BY <1>1, <1>5, AllocReads
<1>n. n = Need(s)
  OBVIOUS
<1> HIDE DEF n, H1
<1>7. /\ Alike(H1, K, Span(f, rest)) /\ K.heads = H1.heads /\ IsBlock(K, f, 0, rest)
      /\ NextOf(K, f) = Null /\ PrevOf(K, f) = Null
  <2>1. HeapType(H1) /\ ~H1.lost /\ f \in DOMAIN H1.mem /\ y \in DOMAIN H1.mem
    BY <1>5, <1>6 DEF Alike
  <2> QED
    BY <2>1, CarveReads
<1> HIDE DEF K
<1>8. p \in Int /\ f = p + n
  BY <1>1, <1>n DEF Tile
<1>9. p \notin Span(f, rest) /\ z \notin Span(f, rest)
      /\ Span(f, rest) \subseteq Span(p, sz[p]) \ {p + 1, p + 2}
      /\ {p, z} \subseteq Span(p, sz[p]) \ {p + 1, p + 2}
  <2>1. sz[p] = n + rest
    BY <1>n
  <2> QED
    BY <1>2, <1>8, <2>1 DEF Span
<1>10. Alike(H, K, Span(p, sz[p]) \ {p + 1, p + 2}) /\ K.heads = H.heads
  BY <1>6, <1>7, <1>9, AlikeTrans
<1>11. IsBlock(K, p, 1, n)
  BY <1>6, <1>7, <1>9, BlockFrame
<1>12. ASSUME NEW G, Alike(K, G, Links(F \cup {f}))
       PROVE  Paved(G, B2, F2, sz2, {}) /\ Keep(H, B, F, sz, {p}, G)
  <2>1. Alike(H, G, Wide(F, sz, {p}))
    <3>1. Links(F \cup {f}) \subseteq Wide(F, sz, {p})
      <4>1. f + 1 \in Span(p, sz[p]) /\ f + 2 \in Span(p, sz[p])
        <5>1. sz[p] = n + rest
          BY <1>n
        <5> QED
          BY <1>2, <1>8, <5>1 DEF Span
      <4> QED
        BY <4>1 DEF Links, Wide
    <3>2. Span(p, sz[p]) \ {p + 1, p + 2} \subseteq Wide(F, sz, {p})
      BY DEF Wide
    <3> QED
      BY <1>10, <1>12, <3>1, <3>2, AlikeTrans
  <2>2. /\ \A b \in B : b # p => IsBlock(G, b, Kind(F, b), sz[b])
        /\ Keep(H, B, F, sz, {p}, G)
    BY <2>1, PavedFrame
  <2>3. IsBlock(G, p, 1, n) /\ IsBlock(G, f, 0, rest)
    <3>1. F \cup {f} \in SUBSET B2 /\ p \in B2 /\ f \in B2
      BY <1>1
    <3> HIDE DEF B2, sz2
    <3>2. /\ p \notin Links(F \cup {f}) /\ p + sz2[p] - 1 \notin Links(F \cup {f})
          /\ f \notin Links(F \cup {f}) /\ f + sz2[f] - 1 \notin Links(F \cup {f})
      BY <1>3, <3>1, LinksApart
    <3> QED
      BY <1>4, <1>7, <1>11, <1>12, <3>2, BlockFrame
  <2>4. HeapType(G) /\ ~G.lost /\ Len(G.mem) = Len(H.mem)
    BY <2>1 DEF Alike
  <2>5. ASSUME NEW b \in B2 PROVE IsBlock(G, b, Kind(F2, b), sz2[b])
    <3>1. CASE b = p
      BY <1>3, <1>4, <2>3, <3>1 DEF Kind
    <3>2. CASE b = f
      BY <1>4, <2>3, <3>2 DEF Kind
    <3>3. CASE b # p /\ b # f
      <4>1. b \in B /\ sz2[b] = sz[b] /\ Kind(F2, b) = Kind(F, b)
        BY <1>4, <3>3 DEF Kind
      <4> QED
        BY <2>2, <3>3, <4>1
    <3> QED
      BY <3>1, <3>2, <3>3
  <2>6. F2 \subseteq B2
    BY <1>1
  <2> QED
    BY <1>3, <2>2, <2>4, <2>5, <2>6 DEF Paved
<1>13. TagAt(K, f) # NoTag /\ TagAt(K, p) # NoTag /\ SizeAt(K, p) = n
  BY <1>7, <1>11 DEF IsBlock, SizeAt
<1> QED
  BY <1>3, <1>7, <1>10, <1>12, <1>13 DEF K, H1, n, Divided

-----------------------------------------------------------------------------
(* sf_malloc takes a free block *)

LEMMA SoundIs ==
  ASSUME NEW H, NEW B, NEW F, NEW sz, Sound(H, B, F, sz)
  PROVE  /\ HeapType(H) /\ ~H.lost /\ F \in SUBSET B /\ Tile(B, sz, Len(H.mem))
         /\ Tagged(H, F)
         /\ \A X : Paved(H, B, F, sz, X)
         /\ \A b \in B : /\ sz[b] \in Evens /\ SizeAt(H, b) = sz[b] /\ b \in Int
                         /\ TagAt(H, b) # NoTag /\ IsBlock(H, b, Kind(F, b), sz[b])
                         /\ TagAt(H, b).alloc = Kind(F, b)
<1>1. HeapType(H) /\ ~H.lost /\ F \in SUBSET B /\ Tile(B, sz, Len(H.mem))
      /\ (\A b \in B : IsBlock(H, b, Kind(F, b), sz[b]))
  BY DEF Sound, Paved
<1>2. \A X : Paved(H, B, F, sz, X)
  BY <1>1 DEF Paved
<1>3. ASSUME NEW b \in B
      PROVE  /\ sz[b] \in Evens /\ SizeAt(H, b) = sz[b] /\ b \in Int
             /\ TagAt(H, b) # NoTag /\ TagAt(H, b).alloc = Kind(F, b)
  <2>1. TagAt(H, b) # NoTag /\ TagAt(H, b).alloc = Kind(F, b) /\ TagAt(H, b).size = sz[b]
    BY <1>1 DEF IsBlock
  <2>2. SizeAt(H, b) \in Evens
    BY <1>1, <2>1, WordType
  <2> QED
    BY <1>1, <2>1, <2>2, TileIs DEF SizeAt
<1>4. Tagged(H, F)
  BY <1>1, <1>3 DEF Tagged
<1> QED
  BY <1>1, <1>2, <1>3, <1>4

\* The blocks and lists after a step, in which the allocated blocks but those of X stay.
Kept(H, B, F, sz, X, G, B2, F2, sz2) ==
  /\ Sound(G, B2, F2, sz2) /\ Keep(H, B, F, sz, X, G)
  /\ \A c \in B : c \notin F /\ c \notin X => c \in B2 /\ c \notin F2 /\ sz2[c] = sz[c]

\* A block for s words, that no caller had.
NewBlock(B, F, B2, F2, sz2, b, s) ==
  b \in B2 /\ b \notin F2 /\ (b \in B => b \in F) /\ s + 2 <= sz2[b]

Gives(H, B, F, sz, G, b, s) ==
  \E B2, F2, sz2 : Kept(H, B, F, sz, {}, G, B2, F2, sz2) /\ NewBlock(B, F, B2, F2, sz2, b, s)

LEMMA ClassFnIs ==
  ASSUME NEW sz
  PROVE  ClassFn(sz) \in [Int -> Lists] /\ \A b \in Int : ClassFn(sz)[b] = Class(sz[b])
BY ClassIs DEF ClassFn

\* Three ways to take the block off its list.
LEMMA WholeOff ==
  ASSUME NEW K, NEW F, NEW cl, NEW rk, Linked(K, F, cl, rk), NEW p \in F, NEW i, i = cl[p],
         NEW G, G = IF p # K.heads[i] THEN Detach(K, p)
                    ELSE IF NextOf(K, p) = Null THEN SetHead(K, i, Null) ELSE PopHead(K, i)
  PROVE  Off(K, G, F, cl, rk, p)
<1>1. i \in Lists /\ p # Null /\ (p # K.heads[i] => PrevOf(K, p) # Null)
  BY LinkedIs
<1> QED
  BY <1>1, DetachOff, SoleOff, PopHeadOff

LEMMA NeedFits ==
  ASSUME NEW n \in Evens, NEW s \in Nat, s + 2 <= n
  PROVE  Need(s) <= n
<1>1. PICK k \in Nat : n = 2 * k
  BY EvensAre
<1>2. PICK j \in Nat, m \in Nat : m = Need(s) /\ m = 2 * j /\ m <= s + 3
  BY NeedIs
<1>3. 2 * j <= 2 * k + 1
  BY <1>1, <1>2
<1>4. j <= k
  BY <1>3
<1> QED
  BY <1>1, <1>2, <1>4

\* The last block of the heap is given out as a whole.
LEMMA TakeWholeSound ==
  ASSUME NEW H, NEW B, NEW F, NEW sz, Sound(H, B, F, sz), NEW p \in F, NEW i, i = Class(sz[p]),
         NEW s \in Nat, s > 0, s + 2 <= 4 * PAGE_SZ, s + 2 <= sz[p],
         p + Need(s) = Len(H.mem) + 1,
         NEW K, K = Alloc(H, p, s),
         NEW G, G = IF p # H.heads[i] THEN Detach(K, p)
                    ELSE IF NextOf(K, p) = Null THEN SetHead(K, i, Null) ELSE PopHead(K, i)
  PROVE  Gives(H, B, F, sz, G, p, s)
<1>1. /\ HeapType(H) /\ ~H.lost /\ F \in SUBSET B /\ Tile(B, sz, Len(H.mem))
      /\ Paved(H, B, F, sz, {p}) /\ sz[p] \in Evens /\ p \in B
  BY SoundIs
<1>2. p \in Int /\ sz[p] \in Nat /\ p + sz[p] <= Len(H.mem) + 1 /\ Len(H.mem) \in Nat
  BY <1>1, TileIs
<1>3. Need(s) = sz[p] /\ Need(s) \in Nat
  <2>1. PICK m \in Nat : m = Need(s)
    BY NeedIs
  <2>2. m <= sz[p]
    BY <1>1, <2>1, NeedFits
  <2> QED
    BY <1>2, <2>1, <2>2
<1>4. p \in DOMAIN H.mem /\ p + Need(s) - 1 \in DOMAIN H.mem
  BY <1>1, <1>3, SpanIn
<1>5. Alike(H, K, {p, p + Need(s) - 1}) /\ K.heads = H.heads
  BY <1>1, <1>4, AllocReads
<1>6. PICK rk : Linked(H, F, ClassFn(sz), rk)
  BY DEF Sound, LinkedSomehow
<1>7. Linked(K, F, ClassFn(sz), rk)
  <2>1. p \notin Links(F) /\ p + sz[p] - 1 \notin Links(F)
    BY <1>1, LinksApart
  <2>2. {p, p + Need(s) - 1} \cap Links(F) = {}
    BY <1>3, <2>1
  <2> QED
    BY <1>5, <1>6, <2>2, LinkedFrame
<1>8. Off(K, G, F, ClassFn(sz), rk, p)
  <2>1. i = ClassFn(sz)[p]
    BY <1>2, ClassFnIs
  <2> QED
    BY <1>5, <1>7, <2>1, WholeOff
<1>9. Paved(G, B, F \ {p}, sz, {}) /\ Keep(H, B, F, sz, {p}, G)
  BY <1>1, <1>3, <1>8, WholePaved DEF Off
<1>10. Sound(G, B, F \ {p}, sz)
  BY <1>8, <1>9 DEF Sound, Off, LinkedSomehow
<1>11. Keep(H, B, F, sz, {}, G)
  BY <1>9 DEF Keep
<1>12. Kept(H, B, F, sz, {}, G, B, F \ {p}, sz) /\ NewBlock(B, F, B, F \ {p}, sz, p, s)
  BY <1>1, <1>10, <1>11 DEF Kept, NewBlock
<1> QED
  BY <1>12 DEF Gives

\* A block is put on the list of its size.
Agree(F, sz, sz2) == \A b \in F : sz2[b] = sz[b]
NoStale(H, i, f) == H.heads[i] = Null => NextOf(H, f) = Null /\ PrevOf(H, f) = Null

LEMMA JoinList ==
  ASSUME NEW H, NEW F, NEW sz, LinkedSomehow(H, F, ClassFn(sz)), NEW f, Room(F, f, Len(H.mem)),
         NEW sz2, Agree(F, sz, sz2), NEW i, i = Class(sz2[f]), NoStale(H, i, f),
         NEW G, G = Push(H, i, f)
  PROVE  /\ Alike(H, G, Links(F \cup {f})) /\ LinkedSomehow(G, F \cup {f}, ClassFn(sz2))
         /\ PrevOf(G, f) = Null
<1>1. PICK rk : Linked(H, F, ClassFn(sz), rk)
  BY DEF LinkedSomehow
<1>2. i \in Lists
  BY ClassIs
<1> DEFINE cl == [ClassFn(sz) EXCEPT ![f] = i]
<1>0. H.heads[i] = Null => NextOf(H, f) = Null /\ PrevOf(H, f) = Null
  BY DEF NoStale
<1>3. Alike(H, G, Links(F \cup {f})) /\ LinkedSomehow(G, F \cup {f}, cl) /\ PrevOf(G, f) = Null
  BY <1>0, <1>1, <1>2, PushOn, Zenon
<1>4. PICK rk2 : Linked(G, F \cup {f}, cl, rk2)
  BY <1>3, Zenon DEF LinkedSomehow
<1>5. F \in SUBSET Int /\ f \in Int
  BY <1>1 DEF Linked, Room
<1>6. \A b \in F \cup {f} : ClassFn(sz2)[b] = cl[b]
  <2>1. ASSUME NEW b \in F \cup {f} PROVE ClassFn(sz2)[b] = cl[b]
    <3>1. ClassFn(sz2)[b] = Class(sz2[b])
      BY <1>5, ClassFnIs
    <3>2. ClassFn(sz) \in [Int -> Lists]
      BY ClassFnIs
    <3>3. CASE b = f
      BY <1>5, <3>1, <3>2, <3>3
    <3>4. CASE b # f
      <4>1. ClassFn(sz)[b] = Class(sz[b])
        BY <1>5, <3>4, ClassFnIs
      <4>2. cl[b] = ClassFn(sz)[b]
        BY <1>5, <3>2, <3>4
      <4> QED
        BY <3>1, <3>4, <4>1, <4>2 DEF Agree
    <3> QED
      BY <3>3, <3>4
  <2> QED
    BY <2>1
<1> HIDE DEF cl
<1>7. LinksRead(G, G, F \cup {f})
  <2>1. HeapType(G) /\ ~G.lost
    BY <1>3 DEF Alike
  <2>2. Len(G.mem) \in Nat
    BY <2>1, MemType
  <2> QED
    BY <2>1, <2>2 DEF LinksRead
<1>8. Linked(G, F \cup {f}, ClassFn(sz2), rk2)
  BY <1>4, <1>6, <1>7, ClassFnIs, LinkedSame
<1> QED
  BY <1>3, <1>8 DEF LinkedSomehow

\* There is room for the links of a block in its own words.
LEMMA RoomOf ==
  ASSUME NEW B, NEW sz, NEW n, Tile(B, sz, n), NEW F \in SUBSET B, NEW f \in B, f \notin F
  PROVE  Room(F, f, n)
<1>1. f \in Int /\ f >= 1 /\ sz[f] \in Nat /\ sz[f] >= 4 /\ f + sz[f] <= n + 1 /\ n \in Nat
  BY TileIs
<1>2. ASSUME NEW b \in F PROVE (f < b => f + 4 <= b) /\ (b <= f => b + 4 <= f)
  <2>1. b \in Int /\ sz[b] \in Nat /\ sz[b] >= 4 /\ (b < f => b + sz[b] <= f) /\ (f < b => f + sz[f] <= b)
    BY TileIs
  <2> QED
    BY <1>1, <2>1
<1> QED
  BY <1>1, <1>2 DEF Room

\* A link that is null is written once more.
LEMMA PrevAgain ==
  ASSUME NEW H, NEW F, NEW cl, LinkedSomehow(H, F, cl), NEW f \in F, PrevOf(H, f) = Null
  PROVE  Alike(H, SetPrev(H, f, Null), Links(F)) /\ LinkedSomehow(SetPrev(H, f, Null), F, cl)
<1> DEFINE G == SetPrev(H, f, Null)
<1>1. PICK rk : Linked(H, F, cl, rk)
  BY DEF LinkedSomehow
<1>2. HeapType(H) /\ ~H.lost /\ f \in Int /\ f + 2 \in DOMAIN H.mem /\ Alike(H, H, {})
  BY <1>1, LinkedIs, AlikeSelf
<1>3. PrevSet(H, G, f, Null)
  BY <1>2, AddressInt, PrevAfter, Zenon
<1> HIDE DEF G
<1>4. Alike(H, G, Links(F))
  BY <1>3, LinksAre DEF PrevSet, Alike
<1>5. \A b \in F : NextOf(G, b) = NextOf(H, b) /\ PrevOf(G, b) = PrevOf(H, b)
  <2> TAKE b \in F
  <2>1. b \in Int /\ b # f + 1
    BY <1>1, LinkedIs
  <2> QED
    BY <1>3, <2>1 DEF PrevSet
<1>6. LinksRead(H, G, F)
  <2>1. Len(H.mem) \in Nat
    BY <1>2, MemType
  <2> QED
    BY <1>3, <1>4, <1>5, <2>1 DEF LinksRead, Alike, PrevSet
<1>7. Linked(G, F, cl, rk)
  <2>1. cl \in [Int -> Lists]
    BY <1>1 DEF Linked
  <2> QED
    BY <1>1, <1>6, <2>1, LinkedSame
<1> QED
  BY <1>4, <1>7 DEF G, LinkedSomehow

\* A block has left its list, and another goes on the list of its size.
Moved(H, G, F, p, f, sz) ==
  Alike(H, G, Links(F \cup {f})) /\ LinkedSomehow(G, (F \ {p}) \cup {f}, ClassFn(sz))

LEMMA MoveLinks ==
  ASSUME NEW H, NEW K, NEW F, Alike(H, K, Links(F)), NEW p, NEW sz,
         LinkedSomehow(K, F \ {p}, ClassFn(sz)), NEW f, Room(F \ {p}, f, Len(K.mem)),
         NEW sz2, Agree(F \ {p}, sz, sz2), NEW i, i = Class(sz2[f]), NoStale(K, i, f),
         NEW L, L = Push(K, i, f), NEW G, G = SetPrev(L, f, Null)
  PROVE  Moved(H, G, F, p, f, sz2)
<1> DEFINE F2 == (F \ {p}) \cup {f}
<1>1. Alike(K, L, Links(F2)) /\ LinkedSomehow(L, F2, ClassFn(sz2)) /\ PrevOf(L, f) = Null
  BY JoinList
<1>2. f \in F2 /\ Links(F2) \subseteq Links(F \cup {f}) /\ Links(F) \subseteq Links(F \cup {f})
  BY DEF Links
<1> HIDE DEF F2
<1>3. Alike(L, G, Links(F2)) /\ LinkedSomehow(G, F2, ClassFn(sz2))
  BY <1>1, <1>2, PrevAgain
<1>4. Alike(H, L, Links(F \cup {f}))
  BY <1>1, <1>2, AlikeTrans
<1>5. Alike(H, G, Links(F \cup {f}))
  <2>1. Alike(L, G, Links(F2)) /\ Links(F2) \subseteq Links(F \cup {f})
    BY <1>2, <1>3
  <2> QED
    BY <1>4, <2>1 DEF Alike
<1> QED
  BY <1>3, <1>5 DEF F2, Moved

\* The block is split, and the rest goes to the list of its size.
LEMMA TakeSplitSound ==
  ASSUME NEW H, NEW B, NEW F, NEW sz, Sound(H, B, F, sz), NEW p,
         NEW s \in Nat, s > 0, s + 2 <= 4 * PAGE_SZ, NEW i \in Lists,
         p = SeekSet(H, Chain(H, H.heads[i]), AtLeast(H, s + 2)), p # Null, NextOf(H, p) = Null,
         NEW f, f = p + Need(s), NEW rest, rest = SizeAt(H, p) - Need(s), rest >= 4,
         NEW K, K = Carve(Alloc(H, p, s), f, rest),
         NEW L, L = Push(RemoveSplit(K, i, Need(s)), Place(rest), f),
         NEW G, G = SetPrev(L, f, Null)
  PROVE  Gives(H, B, F, sz, G, p, s)
<1> DEFINE n == Need(s)
           cl == ClassFn(sz)
           M == RemoveSplit(K, i, n)
           sz2 == SplitSize(sz, p, n)
           B2 == B \cup {f}
           F2 == (F \ {p}) \cup {f}
<1>1. /\ HeapType(H) /\ ~H.lost /\ F \in SUBSET B /\ Tile(B, sz, Len(H.mem)) /\ Tagged(H, F)
      /\ Paved(H, B, F, sz, {p})
      /\ \A b \in B : sz[b] \in Evens /\ SizeAt(H, b) = sz[b] /\ b \in Int
  BY SoundIs
<1>2. PICK rk : Linked(H, F, cl, rk)
  BY DEF Sound, LinkedSomehow
<1>3. FirstOf(F, cl, rk, p, AtLeast(H, s + 2)) /\ cl[p] = i
  <2> HIDE DEF cl
  <2> QED
    BY <1>1, <1>2, SeekFirst
<1>4. p \in F /\ p \in B /\ sz[p] \in Evens /\ s + 2 <= sz[p] /\ sz[p] = n + rest /\ n \in Nat /\ n >= 4
      /\ n >= s + 2
  <2>1. p \in F /\ SizeAt(H, p) >= s + 2 /\ SizeAt(H, p) = sz[p] /\ sz[p] \in Evens
    BY <1>1, <1>3 DEF FirstOf, AtLeast
  <2>2. PICK m \in Nat : m = n /\ m >= 4 /\ m >= s + 2
    BY NeedIs
  <2>3. PICK k \in Nat : k = sz[p]
    BY <2>1, EvensAre
  <2> QED
    BY <1>1, <2>1, <2>2, <2>3
<1>5. rest \in Evens
  <2>1. PICK k \in Nat : n = 2 * k
    BY NeedIs
  <2>2. sz[p] - n < 0 \/ sz[p] - n \in Evens
    BY <1>4, <2>1, EvenLeft
  <2>3. PICK l \in Nat : l = sz[p]
    BY <1>4, EvensAre
  <2>4. rest = l - n
    BY <1>1, <1>4, <2>3
  <2> QED
    BY <1>4, <2>2, <2>3, <2>4
<1>n. n = Need(s)
  OBVIOUS
<1>6. /\ Alike(H, K, Span(p, sz[p]) \ {p + 1, p + 2}) /\ K.heads = H.heads
      /\ NextOf(K, f) = Null /\ PrevOf(K, f) = Null /\ TagAt(K, f) # NoTag
      /\ TagAt(K, p) # NoTag /\ SizeAt(K, p) = n /\ f \notin B
      /\ \A N : Alike(K, N, Links(F \cup {f})) =>
           Paved(N, B2, F2, sz2, {}) /\ Keep(H, B, F, sz, {p}, N)
  <2>1. Divided(H, B, F, sz, p, Need(s), f, K)
    BY <1>1, <1>4, <1>5, SplitPaved
  <2> QED
    BY <2>1 DEF Divided
<1> HIDE DEF n, sz2
<1>7. Linked(K, F, cl, rk)
  <2>1. (Span(p, sz[p]) \ {p + 1, p + 2}) \cap Links(F) = {}
    <3> SUFFICES ASSUME NEW a \in Span(p, sz[p]), a # p + 1, a # p + 2, NEW b \in F, a = b + 1 \/ a = b + 2
                 PROVE  FALSE
      BY Zenon DEF Links
    <3>1. p \in Int /\ sz[p] \in Nat /\ sz[p] >= 4 /\ b \in Int /\ sz[b] \in Nat /\ sz[b] >= 4
          /\ (b < p => b + sz[b] <= p) /\ (p < b => p + sz[p] <= b)
      BY <1>1, <1>4, TileIs
    <3>2. a \in Int /\ p <= a /\ a <= p + sz[p] - 1
      BY <3>1 DEF Span
    <3>3. b = p
      BY <3>1, <3>2
    <3> QED
      BY <3>3
  <2> HIDE DEF cl
  <2> QED
    BY <1>2, <1>6, <2>1, LinkedFrame
<1>8. \A b \in F : b # p => SizeAt(K, b) = SizeAt(H, b) /\ TagAt(K, b) # NoTag
  <2> TAKE b \in F
  <2>1. ASSUME b # p PROVE b \notin Span(p, sz[p])
    <3>1. p \in Int /\ sz[p] \in Nat /\ b \in Int /\ sz[b] \in Nat /\ sz[b] >= 4
          /\ (b < p => b + sz[b] <= p) /\ (p < b => p + sz[p] <= b)
      BY <1>1, <1>4, TileIs
    <3> QED
      BY <2>1, <3>1 DEF Span
  <2> QED
    BY <1>1, <1>6, <2>1, AlikeReads DEF Tagged
<1>9. Tagged(K, F) /\ NextOf(K, p) = Null /\ FirstOf(F, cl, rk, p, OfSize(K, n))
  <2>1. Tagged(K, F)
    BY <1>6, <1>8 DEF Tagged
  <2>2. NextOf(K, p) = Null
    <3>1. p + 1 \notin Span(p, sz[p]) \ {p + 1, p + 2}
      OBVIOUS
    <3> QED
      BY <1>6, <3>1, AlikeReads DEF NextOf
  <2>3. ASSUME NEW c \in F, cl[c] = cl[p], c \in OfSize(K, n) PROVE c = p \/ rk[c] < rk[p]
    <3>1. CASE c # p
      <4>1. SizeAt(H, c) = n /\ c \in Int
        BY <1>8, <2>3, <3>1 DEF OfSize
      <4>2. c \in AtLeast(H, s + 2)
        BY <1>4, <4>1 DEF AtLeast
      <4> QED
        BY <1>3, <2>3, <4>2 DEF FirstOf
    <3> QED
      BY <3>1
  <2>4. p \in OfSize(K, n)
    BY <1>1, <1>4, <1>6 DEF OfSize
  <2> HIDE DEF cl
  <2> QED
    BY <1>4, <2>1, <2>2, <2>3, <2>4 DEF FirstOf
<1>10. Off(K, M, F, cl, rk, p)
  <2> HIDE DEF cl
  <2> QED
    BY <1>3, <1>7, <1>9, RemoveSplitOff
<1> HIDE DEF M
<1>11. LinkedSomehow(M, F \ {p}, ClassFn(sz)) /\ Alike(K, M, Links(F))
  BY <1>10 DEF Off, LinkedSomehow
<1>12. Tile(B2, sz2, Len(H.mem)) /\ F2 \subseteq B2
  <2>1. Alike(K, K, Links(F \cup {f}))
    BY <1>6 DEF Alike
  <2>2. Paved(K, B2, F2, sz2, {}) /\ Len(K.mem) = Len(H.mem)
    BY <1>6, <2>1 DEF Alike
  <2> QED
    BY <2>2 DEF Paved
<1>13. sz2[f] = rest /\ \A b \in B : b # p => sz2[b] = sz[b]
  <2>1. sz \in [Int -> Nat] /\ f \in Int /\ p \in Int /\ B \subseteq Int /\ f # p
    <3>1. sz \in [Int -> Nat] /\ p \in Int /\ B \subseteq Int /\ f \notin B
      BY <1>1, <1>4, <1>6 DEF Tile
    <3> QED
      BY <1>4, <1>n, <3>1
  <2>2. sz[p] - n = rest
    BY <1>4, <1>5, EvensAre
  <2> QED
    BY <1>6, <1>n, <2>1, <2>2 DEF SplitSize, sz2
<1>14. Room(F \ {p}, f, Len(M.mem))
  <2>1. F \ {p} \in SUBSET B2 /\ f \in B2 /\ f \notin F \ {p}
    BY <1>1, <1>6
  <2>2. Len(M.mem) = Len(H.mem)
    BY <1>6, <1>11 DEF Alike
  <2> HIDE DEF B2
  <2> QED
    BY <1>12, <2>1, <2>2, RoomOf
<1>15. NextOf(M, f) = Null /\ PrevOf(M, f) = Null
  <2>1. f + 1 \notin Links(F) /\ f + 2 \notin Links(F)
    <3> SUFFICES ASSUME NEW b \in F, f + 1 = b + 1 \/ f + 1 = b + 2 \/ f + 2 = b + 1 \/ f + 2 = b + 2
                 PROVE  FALSE
      BY DEF Links
    <3>1. b \in B2 /\ f \in B2 /\ b # f
      BY <1>1, <1>6
    <3> HIDE DEF B2
    <3>2. b \in Int /\ f \in Int /\ sz2[b] \in Nat /\ sz2[b] >= 4 /\ sz2[f] \in Nat /\ sz2[f] >= 4
          /\ (b < f => b + sz2[b] <= f) /\ (f < b => f + sz2[f] <= b)
      BY <1>12, <3>1, TileIs
    <3> QED
      BY <3>1, <3>2
  <2> QED
    BY <1>6, <1>11, <2>1, AlikeReads DEF NextOf, PrevOf
<1>16. L = Push(M, Class(sz2[f]), f)
  <2>1. Place(rest) = Class(rest)
    BY DEF Place, LIST_1_MIN
  <2> QED
    BY <1>13, <1>n, <2>1 DEF M
<1>17. Moved(K, G, F, p, f, sz2)
  <2>1. Agree(F \ {p}, sz, sz2)
    BY <1>1, <1>13 DEF Agree
  <2>2. NoStale(M, Class(sz2[f]), f)
    BY <1>15 DEF NoStale
  <2> QED
    <3>1. ASSUME NEW j, j = Class(sz2[f]) PROVE Moved(K, SetPrev(Push(M, j, f), f, Null), F, p, f, sz2)
      <4>1. NoStale(M, j, f) /\ LinkedSomehow(M, F \ {p}, ClassFn(sz)) /\ Alike(K, M, Links(F))
        BY <1>11, <2>2, <3>1
      <4> QED
        BY <1>14, <2>1, <3>1, <4>1, MoveLinks, ZenonT(30)
    <3> QED
      BY <1>16, <3>1
<1> HIDE DEF F2, B2
<1>18. LinkedSomehow(G, F2, ClassFn(sz2)) /\ Alike(K, G, Links(F \cup {f}))
  BY <1>17 DEF F2, Moved
<1>20. Paved(G, B2, F2, sz2, {}) /\ Keep(H, B, F, sz, {p}, G)
  BY <1>6, <1>18
<1>21. Sound(G, B2, F2, sz2) /\ Keep(H, B, F, sz, {}, G)
  BY <1>4, <1>18, <1>20 DEF Sound, Keep
<1>22. sz2[p] = n /\ f # p
  <2>1. sz \in [Int -> Nat] /\ p \in Int
    BY <1>1, <1>4 DEF Tile
  <2> QED
    BY <1>4, <1>6, <1>n, <2>1 DEF SplitSize, sz2
<1>23. Kept(H, B, F, sz, {}, G, B2, F2, sz2)
  BY <1>4, <1>6, <1>13, <1>21 DEF Kept, B2, F2
<1>24. NewBlock(B, F, B2, F2, sz2, p, s)
  BY <1>4, <1>22 DEF NewBlock, B2, F2
<1> QED
  BY <1>23, <1>24 DEF Gives


\* What a call of sf_malloc may return.
Serves(H, B, F, sz, r, s) ==
  /\ r.abort = FALSE
  /\ \E B2, F2, sz2 :
       /\ Kept(H, B, F, sz, {}, r.heap, B2, F2, sz2)
       /\ r.ptr # Null => NewBlock(B, F, B2, F2, sz2, r.ptr - 1, s)

LEMMA GrantedServes ==
  ASSUME NEW H, NEW B, NEW F, NEW sz, NEW G, NEW b, NEW s, Gives(H, B, F, sz, G, b, s), NEW safe
  PROVE  Serves(H, B, F, sz, Granted(G, b, safe), s)
<1>1. PICK B2, F2, sz2 : Kept(H, B, F, sz, {}, G, B2, F2, sz2) /\ NewBlock(B, F, B2, F2, sz2, b, s)
  BY DEF Gives
<1>2. ~G.lost /\ b \in Int
  BY <1>1, SoundIs DEF Kept, NewBlock
<1>3. Granted(G, b, safe).heap = G /\ Granted(G, b, safe).ptr - 1 = b /\ Granted(G, b, safe).abort = FALSE
  BY <1>2 DEF Granted, Result
<1> QED
  BY <1>1, <1>3 DEF Serves

LEMMA RefusedServes ==
  ASSUME NEW H, NEW B, NEW F, NEW sz, Sound(H, B, F, sz), NEW errno, NEW safe, NEW s
  PROVE  Serves(H, B, F, sz, Refused(H, errno, safe), s)
<1>1. ~H.lost
  BY SoundIs
<1>2. Refused(H, errno, safe).heap = H /\ Refused(H, errno, safe).ptr = Null
      /\ Refused(H, errno, safe).abort = FALSE
  BY <1>1 DEF Refused, Result
<1>3. Kept(H, B, F, sz, {}, H, B, F, sz)
  BY DEF Kept, Keep
<1> QED
  BY <1>2, <1>3 DEF Serves

LEMMA TakeSound ==
  ASSUME NEW H, NEW B, NEW F, NEW sz, Sound(H, B, F, sz), NEW i \in Lists,
         NEW s \in Nat, s > 0, s + 2 <= 4 * PAGE_SZ,
         NEW p, p = SeekSet(H, Chain(H, H.heads[i]), AtLeast(H, s + 2)), p # Null,
         Take(H, i, p, s).safe
  PROVE  Serves(H, B, F, sz, Take(H, i, p, s), s)
<1> DEFINE f == p + Need(s)
           rest == SizeAt(H, p) - Need(s)
           H1 == Alloc(H, p, s)
           whole == IF p # H.heads[i] THEN Detach(H1, p)
                    ELSE IF NextOf(H1, p) = Null THEN SetHead(H1, i, Null) ELSE PopHead(H1, i)
           K == Carve(H1, f, rest)
           L == Push(RemoveSplit(K, i, Need(s)), Place(rest), f)
           split == SetPrev(L, f, Null)
           safe == rest >= LIST_1_MIN /\ NextOf(H, p) = Null
<1>1. Take(H, i, p, s) = IF f = Len(H.mem) + 1 THEN Granted(whole, p, TRUE) ELSE Granted(split, p, safe)
  BY Zenon DEF Take, safe, split, L, K, whole, H1, rest, f
<1>2. PICK rk : Linked(H, F, ClassFn(sz), rk)
  BY DEF Sound, LinkedSomehow
<1>3. FirstOf(F, ClassFn(sz), rk, p, AtLeast(H, s + 2)) /\ ClassFn(sz)[p] = i
  BY <1>2, SoundIs, SeekFirst
<1>4. p \in F /\ p \in Int /\ s + 2 <= sz[p] /\ i = Class(sz[p])
  <2>1. p \in F /\ p \in B /\ SizeAt(H, p) >= s + 2
    BY <1>3, SoundIs DEF FirstOf, AtLeast
  <2>2. SizeAt(H, p) = sz[p] /\ p \in Int /\ sz[p] \in Nat
    BY <2>1, SoundIs, EvensAre
  <2> QED
    BY <1>3, <2>1, <2>2, ClassFnIs
<1>5. CASE f = Len(H.mem) + 1
  <2>1. Gives(H, B, F, sz, whole, p, s)
    BY <1>4, <1>5, TakeWholeSound
  <2> HIDE DEF whole, split, safe, f
  <2> QED
    BY <1>1, <1>5, <2>1, GrantedServes
<1>6. CASE f # Len(H.mem) + 1
  <2>1. safe
    <3>1. Granted(split, p, safe).safe = safe
      BY Zenon DEF Granted, Result
    <3> HIDE DEF whole, split, safe, f
    <3> QED
      BY <1>1, <1>6, <3>1
  <2>2. rest >= 4 /\ NextOf(H, p) = Null
    BY <2>1 DEF LIST_1_MIN
  <2>3. Gives(H, B, F, sz, split, p, s)
    BY <2>2, TakeSplitSound, Zenon
  <2> HIDE DEF whole, split, safe, f
  <2> QED
    BY <1>1, <1>6, <2>3, GrantedServes
<1> QED
  BY <1>5, <1>6


-----------------------------------------------------------------------------
(* sf_malloc grows the heap *)

\* K is H grown: block b at the end of K has no tags yet, and no caller had it.
Hole(H, B, F, sz, K, B1, F1, sz1, b) ==
  /\ Paved(K, B1, F1, sz1, {b}) /\ LinkedSomehow(K, F1, ClassFn(sz1))
  /\ b \in B1 /\ b \notin F1 /\ b + sz1[b] = Len(K.mem) + 1 /\ sz1[b] \in Evens
  /\ Keep(H, B, F, sz, {}, K)
  /\ \A c \in B : c \notin F => c \in B1 /\ c \notin F1 /\ sz1[c] = sz[c] /\ c # b

LEMMA HoleFilled ==
  ASSUME NEW H, NEW B, NEW F, NEW sz, NEW K, NEW B1, NEW F1, NEW sz1, NEW b,
         Hole(H, B, F, sz, K, B1, F1, sz1, b),
         NEW G, NEW B2, NEW F2, NEW sz2, Sound(G, B2, F2, sz2), Keep(K, B1, F1, sz1, {b}, G),
         \A c \in B1 : c # b /\ c \notin F1 => c \in B2 /\ c \notin F2 /\ sz2[c] = sz1[c],
         b \in B2, b \notin F2, NEW s, s + 2 <= sz2[b]
  PROVE  Gives(H, B, F, sz, G, b, s)
<1>1. Keep(H, B, F, sz, {}, G)
  <2> SUFFICES ASSUME NEW c \in B, c \notin F, NEW a \in Span(c, sz[c]) PROVE Word(G, a) = Word(H, a)
    BY DEF Keep
  <2>1. c \in B1 /\ c \notin F1 /\ sz1[c] = sz[c] /\ c \notin {b}
    BY DEF Hole
  <2>2. Word(K, a) = Word(H, a)
    BY DEF Hole, Keep
  <2>3. Word(G, a) = Word(K, a)
    BY <2>1 DEF Keep
  <2> QED
    BY <2>2, <2>3
<1>2. \A c \in B : c \notin F => c \in B2 /\ c \notin F2 /\ sz2[c] = sz[c] /\ c # b
  BY DEF Hole
<1>3. Kept(H, B, F, sz, {}, G, B2, F2, sz2) /\ NewBlock(B, F, B2, F2, sz2, b, s)
  BY <1>1, <1>2 DEF Kept, NewBlock
<1> QED
  BY <1>3 DEF Gives

\* All of it is given out.
LEMMA FillWhole ==
  ASSUME NEW H, NEW B, NEW F, NEW sz, NEW K, NEW B1, NEW F1, NEW sz1, NEW b,
         Hole(H, B, F, sz, K, B1, F1, sz1, b),
         NEW s \in Nat, s > 0, s + 2 <= 4 * PAGE_SZ, Need(s) = sz1[b]
  PROVE  Gives(H, B, F, sz, Alloc(K, b, s), b, s)
<1> DEFINE G == Alloc(K, b, s)
           z == b + Need(s) - 1
<1>1. HeapType(K) /\ ~K.lost /\ F1 \in SUBSET B1 /\ Tile(B1, sz1, Len(K.mem))
      /\ b \in B1 /\ b \notin F1 /\ Paved(K, B1, F1, sz1, {b})
  BY DEF Hole, Paved
<1>2. b \in DOMAIN K.mem /\ z \in DOMAIN K.mem
  BY <1>1, SpanIn
<1>3. Alike(K, G, {b, z}) /\ G.heads = K.heads
  BY <1>1, <1>2, AllocReads
<1> HIDE DEF G
<1>4. Alike(G, G, Links(F1))
  BY <1>3 DEF Alike
<1>5. Paved(G, B1, F1 \ {b}, sz1, {}) /\ Keep(K, B1, F1, sz1, {b}, G)
  BY <1>1, <1>4, WholePaved DEF G
<1>6. F1 \ {b} = F1
  BY <1>1
<1>7. PICK rk : Linked(K, F1, ClassFn(sz1), rk)
  BY DEF Hole, LinkedSomehow
<1>8. Linked(G, F1, ClassFn(sz1), rk)
  <2>1. b \notin Links(F1) /\ b + sz1[b] - 1 \notin Links(F1)
    BY <1>1, LinksApart
  <2>2. {b, z} \cap Links(F1) = {}
    BY <2>1
  <2> QED
    BY <1>3, <1>7, <2>2, LinkedFrame
<1>9. Sound(G, B1, F1, sz1)
  BY <1>5, <1>6, <1>8 DEF Sound, LinkedSomehow
<1>10. s + 2 <= sz1[b]
  BY NeedIs
<1> QED
  BY <1>1, <1>5, <1>9, <1>10, HoleFilled DEF G

\* The rest of it becomes the only block of its list.
LEMMA FillSplit ==
  ASSUME NEW H, NEW B, NEW F, NEW sz, NEW K, NEW B1, NEW F1, NEW sz1, NEW b,
         Hole(H, B, F, sz, K, B1, F1, sz1, b),
         NEW s \in Nat, s > 0, s + 2 <= 4 * PAGE_SZ,
         NEW rest \in Evens, rest >= 4, sz1[b] = Need(s) + rest,
         K.heads[Class(rest)] = Null, NEW f, f = b + Need(s)
  PROVE  Gives(H, B, F, sz, SetHead(Carve(Alloc(K, b, s), f, rest), Class(rest), f), b, s)
<1> DEFINE n == Need(s)
           C == Carve(Alloc(K, b, s), f, rest)
           G == SetHead(C, Class(rest), f)
           sz2 == SplitSize(sz1, b, n)
           B2 == B1 \cup {f}
           F2 == (F1 \ {b}) \cup {f}
<1>1. HeapType(K) /\ ~K.lost /\ F1 \in SUBSET B1 /\ Tile(B1, sz1, Len(K.mem))
      /\ b \in B1 /\ b \notin F1 /\ Paved(K, B1, F1, sz1, {b})
  BY DEF Hole, Paved
<1>2. Divided(K, B1, F1, sz1, b, n, f, C)
  BY <1>1, SplitPaved
<1>3. n \in Nat /\ n >= 4 /\ n >= s + 2 /\ rest \in Nat /\ f = b + n /\ b \in Int
  BY <1>1, NeedIs, EvensAre, TileIs
<1>n. sz1[b] = n + rest
  OBVIOUS
<1> HIDE DEF n, C
<1>4. /\ Alike(K, C, Span(b, sz1[b]) \ {b + 1, b + 2}) /\ C.heads = K.heads
      /\ NextOf(C, f) = Null /\ PrevOf(C, f) = Null /\ f \notin B1
      /\ \A N : Alike(C, N, Links(F1 \cup {f})) =>
           Paved(N, B2, F2, sz2, {}) /\ Keep(K, B1, F1, sz1, {b}, N)
  BY <1>2 DEF Divided
<1>5. sz2[b] = n /\ sz2[f] = rest /\ (\A c \in B1 : c # b => sz2[c] = sz1[c]) /\ f # b
  <2>1. sz1 \in [Int -> Nat] /\ B1 \subseteq Int
    BY <1>1 DEF Tile
  <2>2. f \in Int /\ f # b
    BY <1>3
  <2>3. sz1[b] - n = rest
    BY <1>3, <1>n
  <2>4. sz2 = [sz1 EXCEPT ![b] = n, ![f] = rest]
    BY <1>3, <2>3 DEF SplitSize
  <2> HIDE DEF sz2
  <2> QED
    BY <1>3, <1>4, <2>1, <2>2, <2>4
<1> HIDE DEF sz2
<1>6. PICK rk : Linked(K, F1, ClassFn(sz1), rk)
  BY DEF Hole, LinkedSomehow
<1>7. LinkedSomehow(C, F1, ClassFn(sz1))
  <2>1. Span(b, sz1[b]) \cap Links(F1) = {}
    <3>1. Span(b, sz1[b]) \cap Wide(F1, sz1, {}) = {}
      BY <1>1, TagsApart
    <3> QED
      BY <3>1 DEF Wide
  <2>2. Linked(C, F1, ClassFn(sz1), rk)
    BY <1>4, <1>6, <2>1, LinkedFrame
  <2> QED
    BY <2>2 DEF LinkedSomehow
<1>8. Room(F1, f, Len(C.mem))
  <2>1. Alike(C, C, Links(F1 \cup {f}))
    BY <1>4 DEF Alike
  <2>2. Tile(B2, sz2, Len(C.mem)) /\ F1 \in SUBSET B2 /\ f \in B2 /\ f \notin F1
    BY <1>1, <1>4, <2>1 DEF Paved
  <2> HIDE DEF B2
  <2> QED
    BY <2>2, RoomOf
<1>9. G = Push(C, Class(rest), f)
  BY <1>4 DEF Push
<1> HIDE DEF G
<1>10. Alike(C, G, Links(F1 \cup {f})) /\ LinkedSomehow(G, F1 \cup {f}, ClassFn(sz2))
  <2>1. Agree(F1, sz1, sz2)
    BY <1>1, <1>5 DEF Agree
  <2>2. NoStale(C, Class(rest), f)
    BY <1>4 DEF NoStale
  <2>3. ASSUME NEW j, j = Class(sz2[f]) PROVE j = Class(rest)
    BY <1>5, <2>3
  <2> QED
    BY <1>5, <1>7, <1>8, <1>9, <2>1, <2>2, JoinList
<1>11. Paved(G, B2, F2, sz2, {}) /\ Keep(K, B1, F1, sz1, {b}, G)
  BY <1>4, <1>10
<1>12. Sound(G, B2, F2, sz2)
  <2>1. F2 = F1 \cup {f}
    BY <1>1
  <2> QED
    BY <1>10, <1>11, <2>1 DEF Sound
<1>13. /\ \A c \in B1 : c # b /\ c \notin F1 => c \in B2 /\ c \notin F2 /\ sz2[c] = sz1[c]
       /\ b \in B2 /\ b \notin F2 /\ s + 2 <= sz2[b]
  BY <1>1, <1>3, <1>4, <1>5
<1> HIDE DEF B2, F2
<1>14. Gives(H, B, F, sz, G, b, s)
  BY <1>11, <1>12, <1>13, HoleFilled
<1> QED
  BY <1>14 DEF G, C


LEMMA FillSound ==
  ASSUME NEW H, NEW B, NEW F, NEW sz, NEW K, NEW B1, NEW F1, NEW sz1, NEW b,
         Hole(H, B, F, sz, K, B1, F1, sz1, b),
         NEW s \in Nat, s > 0, s + 2 <= 4 * PAGE_SZ,
         NEW total, total = sz1[b], FillSafe(K, total, s)
  PROVE  Gives(H, B, F, sz, Fill(K, b, total, s), b, s)
<1> DEFINE f == b + Need(s)
           rest == total - Need(s)
           A == Alloc(K, b, s)
           split == SetHead(Carve(A, f, rest), Place(rest), f)
<1>1. Fill(K, b, total, s) = IF f = Len(K.mem) + 1 THEN A ELSE split
  BY Zenon DEF Fill, split, A, rest, f
<1>2. rest = 0 \/ (rest >= LIST_1_MIN /\ K.heads[Place(rest)] = Null)
  BY DEF FillSafe
<1>3. Need(s) \in Nat /\ b \in Int /\ total \in Evens /\ total \in Nat
      /\ b + total = Len(K.mem) + 1 /\ Len(K.mem) \in Nat
  <2>1. b \in B1 /\ Tile(B1, sz1, Len(K.mem)) /\ sz1[b] \in Evens /\ b + sz1[b] = Len(K.mem) + 1
    BY DEF Hole, Paved
  <2> QED
    BY <2>1, TileIs, EvensAre, NeedIs
<1>4. CASE rest = 0
  <2>1. f = Len(K.mem) + 1 /\ Need(s) = sz1[b]
    BY <1>3, <1>4
  <2>2. Gives(H, B, F, sz, A, b, s)
    BY <2>1, FillWhole
  <2> HIDE DEF f, A, split, rest
  <2> QED
    BY <1>1, <2>1, <2>2
<1>5. CASE rest >= LIST_1_MIN /\ K.heads[Place(rest)] = Null
  <2>1. rest >= 4 /\ f # Len(K.mem) + 1 /\ sz1[b] = Need(s) + rest
    BY <1>3, <1>5 DEF LIST_1_MIN
  <2>2. rest \in Evens
    <3>1. PICK m \in Nat, j \in Nat : m = Need(s) /\ m = 2 * j
      BY NeedIs
    <3>2. total - m < 0 \/ total - m \in Evens
      BY <1>3, <3>1, EvenLeft
    <3> QED
      BY <1>3, <2>1, <3>1, <3>2
  <2>3. Place(rest) = Class(rest)
    BY <2>1, <1>3 DEF Place, LIST_1_MIN
  <2>4. K.heads[Class(rest)] = Null
    BY <1>5, <2>3, Zenon
  <2> HIDE DEF rest
  <2>5. Gives(H, B, F, sz, SetHead(Carve(A, f, rest), Class(rest), f), b, s)
    BY <2>1, <2>2, <2>4, FillSplit
  <2> HIDE DEF f, A
  <2> QED
    BY <1>1, <2>1, <2>3, <2>5
<1> QED
  BY <1>2, <1>4, <1>5

\* G is H with more words.
Longer(H, G) ==
  /\ HeapType(G) /\ ~G.lost /\ G.heads = H.heads /\ Len(H.mem) <= Len(G.mem)
  /\ \A a \in DOMAIN H.mem : Word(G, a) = Word(H, a)

LEMMA SbrkLonger ==
  ASSUME NEW H, HeapType(H), ~H.lost, NEW k \in 1 .. 4, k <= PagesLeft(H)
  PROVE  Longer(H, Sbrk(H, k)) /\ Len(Sbrk(H, k).mem) = Len(H.mem) + k * PAGE_SZ
<1> DEFINE G == Sbrk(H, k)
<1>1. /\ HeapType(G) /\ ~G.lost /\ G.heads = H.heads
      /\ Len(G.mem) = Len(H.mem) + k * PAGE_SZ
      /\ \A a \in DOMAIN H.mem : G.mem[a] = H.mem[a]
  BY SbrkIs
<1> HIDE DEF G
<1>2. Len(H.mem) \in Nat /\ DOMAIN H.mem = 1 .. Len(H.mem) /\ Len(G.mem) \in Nat
      /\ DOMAIN G.mem = 1 .. Len(G.mem)
  BY <1>1, MemType
<1>3. PICK m \in Nat : m = k * PAGE_SZ
  BY PagesEven
<1>4. Len(H.mem) <= Len(G.mem)
  BY <1>1, <1>2, <1>3
<1>5. \A a \in DOMAIN H.mem : Word(G, a) = Word(H, a)
  BY <1>1, <1>2, <1>4 DEF Word
<1> QED
  BY <1>1, <1>4, <1>5 DEF Longer, G

LEMMA LongerReads ==
  ASSUME NEW H, NEW G, Longer(H, G), NEW a \in DOMAIN H.mem
  PROVE  TagAt(G, a) = TagAt(H, a) /\ SizeAt(G, a) = SizeAt(H, a) /\ Pointer(G, a) = Pointer(H, a)
<1>1. Word(G, a) = Word(H, a)
  BY DEF Longer
<1>2. TagAt(G, a) = TagAt(H, a)
  BY <1>1 DEF TagAt
<1> QED
  BY <1>1, <1>2 DEF Pointer, SizeAt

LEMMA LongerSound ==
  ASSUME NEW H, NEW B, NEW F, NEW sz, Sound(H, B, F, sz), NEW G, Longer(H, G)
  PROVE  /\ \A b \in B : IsBlock(G, b, Kind(F, b), sz[b])
         /\ Keep(H, B, F, sz, {}, G)
         /\ \E rk : Linked(H, F, ClassFn(sz), rk) /\ Linked(G, F, ClassFn(sz), rk)
<1>1. HeapType(H) /\ Tile(B, sz, Len(H.mem))
  BY SoundIs
<1>2. ASSUME NEW b \in B PROVE IsBlock(G, b, Kind(F, b), sz[b])
  <2>1. b \in DOMAIN H.mem /\ b + sz[b] - 1 \in DOMAIN H.mem
    BY <1>1, SpanIn
  <2>2. TagAt(G, b) = TagAt(H, b) /\ TagAt(G, b + sz[b] - 1) = TagAt(H, b + sz[b] - 1)
    BY <2>1, LongerReads
  <2>3. IsBlock(H, b, Kind(F, b), sz[b])
    BY SoundIs
  <2> QED
    BY <2>2, <2>3 DEF IsBlock
<1>3. Keep(H, B, F, sz, {}, G)
  <2> SUFFICES ASSUME NEW c \in B, NEW a \in Span(c, sz[c]) PROVE Word(G, a) = Word(H, a)
    BY DEF Keep
  <2>1. a \in DOMAIN H.mem
    BY <1>1, SpanIn
  <2> QED
    BY <2>1 DEF Longer
<1>4. PICK rk : Linked(H, F, ClassFn(sz), rk)
  BY DEF Sound, LinkedSomehow
<1>5. LinksRead(H, G, F)
  <2>1. ASSUME NEW b \in F PROVE NextOf(G, b) = NextOf(H, b) /\ PrevOf(G, b) = PrevOf(H, b)
    <3>1. b + 1 \in DOMAIN H.mem /\ b + 2 \in DOMAIN H.mem
      BY <1>4, LinkedIs
    <3> QED
      BY <3>1, LongerReads DEF NextOf, PrevOf
  <2> QED
    BY <2>1 DEF Longer, LinksRead
<1>6. Linked(G, F, ClassFn(sz), rk)
  BY <1>4, <1>5, ClassFnIs, LinkedSame
<1> QED
  BY <1>2, <1>3, <1>4, <1>6


\* New pages become one more block.
LEMMA NewHole ==
  ASSUME NEW H, NEW B, NEW F, NEW sz, Sound(H, B, F, sz), NEW G, Longer(H, G),
         NEW m \in Evens, m >= 4, Len(G.mem) = Len(H.mem) + m, NEW b, b = Len(H.mem) + 1
  PROVE  \E B1, F1, sz1 : Hole(H, B, F, sz, G, B1, F1, sz1, b) /\ sz1[b] = m
<1> DEFINE B1 == B \cup {b}
           sz1 == [sz EXCEPT ![b] = m]
<1>1. F \in SUBSET B /\ Tile(B, sz, Len(H.mem)) /\ HeapType(G) /\ ~G.lost
      /\ B \in SUBSET Int /\ sz \in [Int -> Nat] /\ Len(H.mem) \in Nat /\ m \in Nat
  BY SoundIs, EvensAre DEF Tile, Longer
<1>2. b \notin B /\ Tile(B1, sz1, Len(G.mem))
  <2>1. Tile(B, sz, Len(H.mem)) /\ m \in Nat
    BY <1>1
  <2>2. b \notin B /\ Tile(B \cup {b}, [sz EXCEPT ![b] = m], Len(H.mem) + m)
    BY <2>1, GrowTile
  <2> HIDE DEF sz1
  <2>3. Tile(B1, sz1, Len(H.mem) + m)
    BY <2>2 DEF sz1
  <2> QED
    BY <2>2, <2>3
<1>3. b \in Int /\ sz1[b] = m /\ \A c \in B : sz1[c] = sz[c]
  <2>1. b \in Int
    BY <1>1
  <2> QED
    BY <1>1, <1>2, <2>1
<1> HIDE DEF sz1
<1>4. /\ \A c \in B : IsBlock(G, c, Kind(F, c), sz[c])
      /\ Keep(H, B, F, sz, {}, G)
      /\ \E rk : Linked(H, F, ClassFn(sz), rk) /\ Linked(G, F, ClassFn(sz), rk)
  BY LongerSound
<1>5. Paved(G, B1, F, sz1, {b})
  <2>1. \A c \in B1 \ {b} : IsBlock(G, c, Kind(F, c), sz1[c])
    BY <1>3, <1>4
  <2>2. F \subseteq B1
    BY <1>1
  <2> QED
    BY <1>1, <1>2, <2>1, <2>2 DEF Paved
<1>6. LinkedSomehow(G, F, ClassFn(sz1))
  <2>1. PICK rk : Linked(G, F, ClassFn(sz), rk)
    BY <1>4
  <2>2. \A c \in F : ClassFn(sz1)[c] = ClassFn(sz)[c]
    <3> TAKE c \in F
    <3>1. c \in Int /\ sz1[c] = sz[c]
      BY <1>1, <1>3
    <3> QED
      BY <3>1, ClassFnIs
  <2>3. LinksRead(G, G, F)
    BY <1>1, MemType DEF LinksRead
  <2>4. Linked(G, F, ClassFn(sz1), rk)
    BY <2>1, <2>2, <2>3, ClassFnIs, LinkedSame
  <2> QED
    BY <2>4 DEF LinkedSomehow
<1>7. b + sz1[b] = Len(G.mem) + 1 /\ sz1[b] \in Evens /\ b \in B1 /\ b \notin F
  BY <1>1, <1>2, <1>3
<1>8. \A c \in B : c \notin F => c \in B1 /\ c \notin F /\ sz1[c] = sz[c] /\ c # b
  BY <1>2, <1>3
<1>9. Hole(H, B, F, sz, G, B1, F, sz1, b)
  BY <1>4, <1>5, <1>6, <1>7, <1>8 DEF Hole
<1> QED
  BY <1>3, <1>9

\* New pages and the free block before them become one block.
LEMMA WiderHole ==
  ASSUME NEW H, NEW B, NEW F, NEW sz, Sound(H, B, F, sz), NEW G, Longer(H, G),
         NEW p \in F, p + sz[p] = Len(H.mem) + 1, NEW n, n = sz[p], H.heads[Class(n)] = p,
         NEW m \in Evens, Len(G.mem) = Len(H.mem) + m, n + m \in Evens,
         NEW K, K = RemoveLast(G, n)
  PROVE  \E B1, F1, sz1 : Hole(H, B, F, sz, K, B1, F1, sz1, p) /\ sz1[p] = n + m
<1> DEFINE F1 == F \ {p}
           sz1 == [sz EXCEPT ![p] = sz[p] + m]
<1>1. F \in SUBSET B /\ Tile(B, sz, Len(H.mem)) /\ HeapType(G) /\ ~G.lost /\ p \in B
      /\ B \in SUBSET Int /\ sz \in [Int -> Nat] /\ Len(H.mem) \in Nat /\ m \in Nat
      /\ G.heads = H.heads
  BY SoundIs, EvensAre, ZenonT(30) DEF Tile, Longer
<1>2. Tile(B, sz1, Len(G.mem))
  <2>1. Tile(B, sz1, Len(H.mem) + m)
    BY <1>1, StretchTile
  <2> HIDE DEF sz1
  <2> QED
    BY <2>1
<1>3. p \in Int /\ sz1[p] = n + m /\ \A c \in B : c # p => sz1[c] = sz[c]
  BY <1>1
<1> HIDE DEF sz1
<1>4. /\ \A c \in B : IsBlock(G, c, Kind(F, c), sz[c])
      /\ Keep(H, B, F, sz, {}, G)
      /\ \E rk : Linked(H, F, ClassFn(sz), rk) /\ Linked(G, F, ClassFn(sz), rk)
  BY LongerSound
<1>5. PICK rk : Linked(G, F, ClassFn(sz), rk)
  BY <1>4
<1>6. Alike(G, K, Links(F)) /\ Linked(K, F1, ClassFn(sz), rk)
  <2>1. IsBlock(G, p, Kind(F, p), sz[p])
    BY <1>1, <1>4
  <2>2. SizeAt(G, p) = n
    BY <2>1 DEF IsBlock, SizeAt
  <2>3. p = G.heads[Class(n)] /\ p # Null
    <3>1. p # Null
      BY <1>5, LinkedIs
    <3> QED
      BY <1>1, <3>1, Zenon
  <2>4. Off(G, RemoveLast(G, n), F, ClassFn(sz), rk, p)
    BY <1>5, <2>2, <2>3, RemoveLastOff
  <2> QED
    BY <2>4 DEF Off
<1>7. ASSUME NEW c \in B, c # p PROVE IsBlock(K, c, Kind(F1, c), sz1[c])
  <2>1. IsBlock(G, c, Kind(F, c), sz[c])
    BY <1>4
  <2>2. c \notin Links(F) /\ c + sz[c] - 1 \notin Links(F)
    BY <1>1, LinksApart
  <2>3. IsBlock(K, c, Kind(F, c), sz[c])
    BY <1>6, <2>1, <2>2, BlockFrame
  <2> QED
    BY <1>3, <1>7, <2>3 DEF Kind
<1>8. Paved(K, B, F1, sz1, {p})
  <2>1. HeapType(K) /\ ~K.lost /\ Len(K.mem) = Len(G.mem)
    BY <1>6 DEF Alike
  <2>2. F1 \subseteq B
    BY <1>1
  <2> QED
    BY <1>2, <1>7, <2>1, <2>2 DEF Paved
<1>9. LinkedSomehow(K, F1, ClassFn(sz1))
  <2>1. \A c \in F1 : ClassFn(sz1)[c] = ClassFn(sz)[c]
    <3> TAKE c \in F1
    <3>1. c \in Int /\ sz1[c] = sz[c]
      BY <1>1, <1>3
    <3> QED
      BY <3>1, ClassFnIs
  <2>2. LinksRead(K, K, F1)
    BY <1>6, MemType DEF LinksRead, Alike
  <2>3. Linked(K, F1, ClassFn(sz1), rk)
    BY <1>6, <2>1, <2>2, ClassFnIs, LinkedSame
  <2> QED
    BY <2>3 DEF LinkedSomehow
<1>10. p + sz1[p] = Len(K.mem) + 1
  <2>1. Len(K.mem) = Len(H.mem) + m
    BY <1>6 DEF Alike
  <2>2. n \in Nat
    BY <1>1
  <2>3. PICK l \in Nat : l = Len(H.mem)
    BY <1>1
  <2>4. p + n = l + 1 /\ Len(K.mem) = l + m /\ sz1[p] = n + m
    BY <1>3, <2>1, <2>3
  <2>5. p \in Int /\ m \in Nat
    BY <1>1, <1>3
  <2>6. p + (n + m) = (l + m) + 1
    <3>1. PICK x \in Int, y \in Int, z \in Int : x = p /\ y = n /\ z = m
      BY <2>2, <2>5
    <3>2. x + y = l + 1
      BY <2>4, <3>1
    <3>3. x + (y + z) = (l + z) + 1
      BY <3>2
    <3> QED
      BY <3>1, <3>3
  <2> QED
    BY <2>4, <2>6, Zenon
<1>11. Keep(H, B, F, sz, {}, K)
  <2> SUFFICES ASSUME NEW c \in B, c \notin F, NEW a \in Span(c, sz[c]) PROVE Word(K, a) = Word(H, a)
    BY DEF Keep
  <2>1. Word(G, a) = Word(H, a)
    BY <1>4 DEF Keep
  <2>2. Span(c, sz[c]) \cap Wide(F, sz, {}) = {}
    BY <1>1, TagsApart
  <2>3. a \notin Links(F)
    BY <2>2 DEF Wide
  <2> QED
    BY <1>6, <2>1, <2>3, AlikeReads
<1>12. \A c \in B : c \notin F => c \in B /\ c \notin F1 /\ sz1[c] = sz[c] /\ c # p
  BY <1>3
<1>13. Hole(H, B, F, sz, K, B, F1, sz1, p)
  BY <1>1, <1>3, <1>8, <1>9, <1>10, <1>11, <1>12 DEF Hole
<1> QED
  BY <1>3, <1>13


\* The heap ends with a block, unless it is empty.
LEMMA LastBlock ==
  ASSUME NEW B, NEW sz, NEW n, Tile(B, sz, n), n > 0
  PROVE  \E p \in B : p + sz[p] = n + 1
<1>1. 1 \in B /\ n \in Nat /\ B \in SUBSET Int
  BY DEF Tile
<1>2. B \in SUBSET Nat /\ B # {} /\ \A b \in B : b <= n
  <2>1. ASSUME NEW b \in B PROVE b \in Nat /\ b <= n
    <3>1. b \in Int /\ b >= 1 /\ sz[b] \in Nat /\ sz[b] >= 4 /\ b + sz[b] <= n + 1
      BY TileIs
    <3> QED
      BY <1>1, <3>1
  <2> QED
    BY <1>1, <2>1
<1>3. PICK p \in B : \A b \in B : b <= p
  BY <1>1, <1>2, GreatestOf
<1>4. p \in Int /\ sz[p] \in Nat /\ sz[p] >= 4 /\ (p + sz[p] = n + 1 \/ p + sz[p] \in B)
  BY TileIs
<1>5. p + sz[p] \notin B
  <2>1. ~(p + sz[p] <= p)
    BY <1>4
  <2> QED
    BY <1>3, <2>1
<1> QED
  BY <1>4, <1>5

LEMMA HoleServes ==
  ASSUME NEW H, NEW B, NEW F, NEW sz, NEW K, NEW b, NEW m,
         \E B1, F1, sz1 : Hole(H, B, F, sz, K, B1, F1, sz1, b) /\ sz1[b] = m,
         NEW s \in Nat, s > 0, s + 2 <= 4 * PAGE_SZ, FillSafe(K, m, s), NEW safe
  PROVE  Serves(H, B, F, sz, Granted(Fill(K, b, m, s), b, safe), s)
<1>1. PICK B1, F1, sz1 : Hole(H, B, F, sz, K, B1, F1, sz1, b) /\ m = sz1[b]
  OBVIOUS
<1>2. Gives(H, B, F, sz, Fill(K, b, m, s), b, s)
  BY <1>1, FillSound
<1> QED
  BY <1>2, GrantedServes

LEMMA FreshServes ==
  ASSUME NEW H, NEW B, NEW F, NEW sz, Sound(H, B, F, sz), NEW k \in 1 .. 4, k <= PagesLeft(H),
         NEW s \in Nat, s > 0, s + 2 <= 4 * PAGE_SZ, NEW m, m = k * PAGE_SZ,
         FillSafe(Sbrk(H, k), m, s), NEW b, b = Len(H.mem) + 1, NEW safe
  PROVE  Serves(H, B, F, sz, Granted(Fill(Sbrk(H, k), b, m, s), b, safe), s)
<1> DEFINE G == Sbrk(H, k)
<1>1. Longer(H, G) /\ Len(G.mem) = Len(H.mem) + m
  BY SoundIs, SbrkLonger
<1> HIDE DEF G
<1>2. m \in Evens /\ m >= 4
  <2>1. m \in Evens
    BY PagesEven
  <2>2. k \in {1, 2, 3, 4}
    OBVIOUS
  <2> QED
    BY <2>1, <2>2, Page
<1>3. \E B1, F1, sz1 : Hole(H, B, F, sz, G, B1, F1, sz1, b) /\ sz1[b] = m
  BY <1>1, <1>2, NewHole
<1> QED
  BY <1>3, HoleServes DEF G

LEMMA WideServes ==
  ASSUME NEW H, NEW B, NEW F, NEW sz, Sound(H, B, F, sz), NEW k \in 1 .. 4, k <= PagesLeft(H),
         NEW s \in Nat, s > 0, s + 2 <= 4 * PAGE_SZ,
         NEW p \in F, p + sz[p] = Len(H.mem) + 1, NEW n, n = sz[p], H.heads[Class(n)] = p,
         NEW m, m = n + k * PAGE_SZ, NEW K, K = RemoveLast(Sbrk(H, k), n),
         FillSafe(K, m, s), NEW safe
  PROVE  Serves(H, B, F, sz, Granted(Fill(K, p, m, s), p, safe), s)
<1> DEFINE G == Sbrk(H, k)
<1>1. Longer(H, G) /\ Len(G.mem) = Len(H.mem) + k * PAGE_SZ
  BY SoundIs, SbrkLonger
<1> HIDE DEF G
<1>2. PICK x \in Evens : x = k * PAGE_SZ
  BY PagesEven
<1>3. n + x \in Evens
  <2>1. p \in B /\ F \in SUBSET B /\ Tile(B, sz, Len(H.mem)) /\ sz[p] \in Evens /\ HeapType(G)
    BY <1>1, SoundIs DEF Longer
  <2>2. PICK i \in Nat, j \in Nat : n = 2 * i /\ x = 2 * j /\ n \in Nat /\ x \in Nat
    BY <2>1, EvensAre
  <2>3. PICK l \in Nat : l = Len(H.mem)
    BY <2>1 DEF Tile
  <2>4. p \in Int /\ p >= 1
    BY <2>1, TileIs
  <2>5. p + n = l + 1
    BY <2>3
  <2>6. n <= l
    BY <2>2, <2>4, <2>5
  <2>7. PICK y \in Nat : y = Len(G.mem) /\ y <= 4 * PAGE_SZ
    BY <2>1, MemType
  <2>8. y = l + x
    BY <1>1, <1>2, <2>3, <2>7
  <2>9. n + x <= 4 * PAGE_SZ
    BY <2>2, <2>6, <2>7, <2>8, Page
  <2> QED
    BY <2>2, <2>9, EvenSum
<1>4. \E B1, F1, sz1 : Hole(H, B, F, sz, K, B1, F1, sz1, p) /\ sz1[p] = n + x
  <2>1. Len(G.mem) = Len(H.mem) + x
    BY <1>1, <1>2
  <2> QED
    BY <1>1, <1>3, <2>1, WiderHole DEF G
<1>5. m = n + x
  BY <1>2
<1> QED
  BY <1>4, <1>5, HoleServes


LEMMA FirstServes ==
  ASSUME NEW H, NEW B, NEW F, NEW sz, Sound(H, B, F, sz), NEW s \in Nat, s > 0, s + 2 <= 4 * PAGE_SZ
  PROVE  /\ H.mem = <<>> /\ firstAllocation(H, s).safe =>
              Serves(H, B, F, sz, firstAllocation(H, s), s)
         /\ multiplePageAllocations(H, s).safe =>
              Serves(H, B, F, sz, multiplePageAllocations(H, s), s)
<1>1. /\ PagesLeft(H) \in 0 .. 4 /\ PagesLeft(H) * PAGE_SZ + Len(H.mem) = 4 * PAGE_SZ
  <2>1. HeapType(H) /\ ~H.lost /\ 0 \in Nat
    BY SoundIs
  <2> QED
    BY <2>1, SbrkType, Zenon
<1>2. ASSUME H.mem = <<>>, firstAllocation(H, s).safe PROVE Serves(H, B, F, sz, firstAllocation(H, s), s)
  <2> DEFINE G == Sbrk(H, 1)
             m == 1 * PAGE_SZ
             safe == FillSafe(G, PAGE_SZ, s)
  <2>1. firstAllocation(H, s) = Granted(Fill(G, 1, PAGE_SZ, s), 1, safe)
    BY Zenon DEF firstAllocation, G, safe
  <2>2. safe
    <3>1. Granted(Fill(G, 1, PAGE_SZ, s), 1, safe).safe = safe
      BY Zenon DEF Granted, Result
    <3> HIDE DEF safe
    <3> QED
      BY <1>2, <2>1, <3>1
  <2>3. m = PAGE_SZ /\ 1 \in 1 .. 4 /\ 1 = Len(H.mem) + 1
    BY <1>2, Page
  <2>4. 1 <= PagesLeft(H)
    <3>1. PagesLeft(H) * PAGE_SZ = 4 * PAGE_SZ
      BY <1>1, <1>2, Page
    <3>2. PagesLeft(H) # 0
      BY <3>1, Page
    <3> QED
      BY <1>1, <3>2
  <2>5. FillSafe(Sbrk(H, 1), m, s)
    BY <2>2, <2>3, Zenon
  <2> HIDE DEF m, safe
  <2>6. Serves(H, B, F, sz, Granted(Fill(Sbrk(H, 1), 1, m, s), 1, safe), s)
    BY <2>3, <2>4, <2>5, FreshServes DEF m
  <2> QED
    BY <2>1, <2>3, <2>6
<1>3. ASSUME multiplePageAllocations(H, s).safe PROVE Serves(H, B, F, sz, multiplePageAllocations(H, s), s)
  <2> DEFINE k == 1 + s \div PAGE_SZ
             G == Sbrk(H, k)
             b == IF PagesLeft(H) = 0 THEN Wild ELSE Len(H.mem) + 1
             m == k * PAGE_SZ
             K == Fill(G, b, m, s)
             safe == k <= PagesLeft(H) /\ FillSafe(G, m, s)
  <2>1. multiplePageAllocations(H, s) = Granted(K, b, safe)
    BY Zenon DEF multiplePageAllocations, K, G, k, b, m, safe
  <2>2. safe
    <3>1. Granted(K, b, safe).safe = safe
      BY Zenon DEF Granted, Result
    <3> HIDE DEF safe, K, b
    <3> QED
      BY <1>3, <2>1, <3>1
  <2>3. k \in 1 .. 4
    BY PagesFor
  <2> HIDE DEF k
  <2>4. k <= PagesLeft(H) /\ FillSafe(G, m, s) /\ PagesLeft(H) # 0
    <3>1. k <= PagesLeft(H) /\ FillSafe(G, m, s)
      BY <2>2, Zenon
    <3> HIDE DEF m, G
    <3> QED
      BY <1>1, <2>3, <3>1
  <2>5. b = Len(H.mem) + 1
    BY <2>4
  <2> HIDE DEF b, safe
  <2>6. Serves(H, B, F, sz, Granted(Fill(Sbrk(H, k), b, m, s), b, safe), s)
    BY <2>3, <2>4, <2>5, FreshServes
  <2> QED
    BY <2>1, <2>6
<1> QED
  BY <1>2, <1>3

LEMMA GrowServes ==
  ASSUME NEW H, NEW B, NEW F, NEW sz, Sound(H, B, F, sz), H.mem # <<>>,
         NEW s \in Nat, s > 0, s + 2 <= 4 * PAGE_SZ, Grow(H, s).safe
  PROVE  Serves(H, B, F, sz, Grow(H, s), s)
<1> DEFINE end  == Len(H.mem)
           foot == TagAt(H, end)
           free == foot.alloc = 0
           n == IF free THEN foot.size ELSE 0
           b == end + 1 - n
           asked == Min({k \in 1 .. 4 : k = 4 \/ s <= k * PAGE_SZ})
           T == {k \in 1 .. 5 : s + 2 <= n + k * PAGE_SZ}
           taken == Min(T)
           total == n + taken * PAGE_SZ
           G == Sbrk(H, taken)
           K == IF free THEN RemoveLast(G, n) ELSE G
           R == Fill(K, b, total, s)
           safe == (free => H.heads[Class(n)] = b) /\ FillSafe(K, total, s)
<1>1. Grow(H, s) = IF asked > PagesLeft(H) THEN Refused(H, "ENOMEM", TRUE)
                   ELSE IF foot = NoTag THEN Granted(LostHeap, Null, FALSE)
                   ELSE IF taken > PagesLeft(H) THEN Refused(Sbrk(H, PagesLeft(H)), "ENOMEM", FALSE)
                   ELSE Granted(R, b, safe)
  BY Zenon DEF Grow, safe, R, K, G, total, taken, T, asked, b, n, free, foot, end
<1>2. /\ PagesLeft(H) \in 0 .. 4 /\ HeapType(H) /\ Tile(B, sz, end) /\ end \in Nat /\ end > 0
      /\ F \in SUBSET B
  <2>1. HeapType(H) /\ ~H.lost /\ 0 \in Nat /\ Tile(B, sz, end) /\ F \in SUBSET B
    BY SoundIs
  <2>2. PagesLeft(H) \in 0 .. 4
    BY <2>1, SbrkType, Zenon
  <2>3. H.mem \in Seq(Cells) /\ end \in Nat
    BY <2>1, MemType
  <2>4. end # 0
    BY <2>3
  <2> QED
    BY <2>1, <2>2, <2>3, <2>4
<1>3. PICK p \in B : p + sz[p] = end + 1
  BY <1>2, LastBlock
<1>4. p \in Int /\ sz[p] \in Nat /\ sz[p] \in Evens /\ end = p + sz[p] - 1
      /\ IsBlock(H, p, Kind(F, p), sz[p])
  <2>1. p \in Int /\ sz[p] \in Nat /\ sz[p] \in Evens /\ IsBlock(H, p, Kind(F, p), sz[p])
    BY SoundIs, EvensAre
  <2> HIDE DEF end
  <2> QED
    BY <1>2, <1>3, <2>1
<1>5. foot # NoTag /\ foot.alloc = Kind(F, p) /\ foot.size = sz[p]
  <2> HIDE DEF end
  <2> QED
    BY <1>4 DEF IsBlock
<1> HIDE DEF foot
<1>6. /\ free => p \in F /\ n = sz[p] /\ b = p
      /\ ~free => n = 0 /\ b = end + 1
  <2>1. free => p \in F
    BY <1>5 DEF Kind
  <2> HIDE DEF end
  <2> QED
    BY <1>2, <1>3, <1>4, <1>5, <2>1
<1>7. n \in Nat
  BY <1>4, <1>6
<1> HIDE DEF n, free, b, end
<1>8. taken \in 1 .. 5
  <2>1. 4 \in T
    BY <1>7, Page
  <2>2. T \in SUBSET Nat /\ T # {}
    BY <2>1
  <2>3. taken \in T
    BY <2>2, LeastOf
  <2> QED
    BY <2>3
<1>9. (asked > PagesLeft(H)) \/ (~(taken > PagesLeft(H)) /\ safe)
  <2>1. Granted(R, b, safe).safe = safe /\ Refused(Sbrk(H, PagesLeft(H)), "ENOMEM", FALSE).safe = FALSE
    BY Zenon DEF Granted, Refused, Result
  <2> HIDE DEF R, safe, asked, taken
  <2> QED
    BY <1>1, <1>5, <2>1
<1>10. CASE asked > PagesLeft(H)
  <2>1. Serves(H, B, F, sz, Refused(H, "ENOMEM", TRUE), s)
    BY RefusedServes
  <2> HIDE DEF asked
  <2> QED
    BY <1>1, <1>10, <2>1
<1>11. CASE ~(asked > PagesLeft(H)) /\ ~(taken > PagesLeft(H)) /\ safe
  <2>1. taken \in 1 .. 4 /\ taken <= PagesLeft(H)
    <3> HIDE DEF taken
    <3> QED
      BY <1>2, <1>8, <1>11
  <2>2. Grow(H, s) = Granted(R, b, safe)
    <3> HIDE DEF R, safe, asked, taken
    <3> QED
      BY <1>1, <1>5, <1>11
  <2>3. (free => H.heads[Class(n)] = b) /\ FillSafe(K, total, s)
    BY <1>11, Zenon
  <2> HIDE DEF taken, safe
  <2>4. CASE free
    <3>1. p \in F /\ n = sz[p] /\ b = p /\ H.heads[Class(n)] = p
      BY <1>6, <2>3, <2>4
    <3>2. p + sz[p] = Len(H.mem) + 1
      BY <1>3 DEF end
    <3>3. K = RemoveLast(Sbrk(H, taken), n)
      BY <2>4
    <3> HIDE DEF K
    <3>4. FillSafe(K, total, s)
      BY <2>3
    <3>5. Serves(H, B, F, sz, Granted(Fill(K, p, total, s), p, safe), s)
      BY <2>1, <3>1, <3>2, <3>3, <3>4, WideServes
    <3> HIDE DEF total
    <3> QED
      BY <2>2, <3>1, <3>5
  <2>5. CASE ~free
    <3>1. n = 0 /\ b = Len(H.mem) + 1
      BY <1>6, <2>5 DEF end
    <3>2. K = Sbrk(H, taken)
      BY <2>5
    <3>3. total = taken * PAGE_SZ
      BY <2>1, <3>1, PagesEven
    <3> HIDE DEF K, total
    <3>4. FillSafe(Sbrk(H, taken), total, s)
      BY <2>3, <3>2
    <3>5. Serves(H, B, F, sz, Granted(Fill(Sbrk(H, taken), b, total, s), b, safe), s)
      BY <2>1, <3>1, <3>3, <3>4, FreshServes
    <3> QED
      BY <2>2, <3>2, <3>5
  <2> QED
    BY <2>4, <2>5
<1> QED
  BY <1>9, <1>10, <1>11


\* Until the heap is harmed, sf_malloc returns a block of its own or NULL.
LEMMA MallocServes ==
  ASSUME NEW H, NEW B, NEW F, NEW sz, Sound(H, B, F, sz), NEW s \in Nat, sf_malloc(H, s).safe
  PROVE  Serves(H, B, F, sz, sf_malloc(H, s), s)
<1> DEFINE fit(i) == Seek(H, H.heads[i], LAMBDA b : SizeAt(H, b) >= s + 2)
           L == {i \in Class(s) .. 3 : fit(i) # Null}
<1>1. sf_malloc(H, s) =
        IF s = 0 \/ s > 4 * PAGE_SZ THEN Refused(H, "EINVAL", TRUE)
        ELSE IF s + 2 > 4 * PAGE_SZ THEN Refused(H, "ENOMEM", TRUE)
        ELSE IF s >= PAGE_SZ /\ \A i \in 0 .. 3 : H.heads[i] = Null
             THEN multiplePageAllocations(H, s)
        ELSE IF H.mem = <<>> THEN firstAllocation(H, s)
        ELSE IF L # {} THEN Take(H, Min(L), fit(Min(L)), s)
        ELSE Grow(H, s)
  BY Zenon DEF sf_malloc
<1>2. CASE s = 0 \/ s > 4 * PAGE_SZ
  <2>1. sf_malloc(H, s) = Refused(H, "EINVAL", TRUE)
    BY <1>1, <1>2
  <2> QED
    BY <2>1, RefusedServes
<1>3. CASE ~(s = 0 \/ s > 4 * PAGE_SZ) /\ s + 2 > 4 * PAGE_SZ
  <2>1. sf_malloc(H, s) = Refused(H, "ENOMEM", TRUE)
    BY <1>1, <1>3
  <2> QED
    BY <2>1, RefusedServes
<1>4. CASE ~(s = 0 \/ s > 4 * PAGE_SZ) /\ ~(s + 2 > 4 * PAGE_SZ)
  <2>1. s > 0 /\ s + 2 <= 4 * PAGE_SZ
    BY <1>4, Page
  <2>2. /\ H.mem = <<>> /\ firstAllocation(H, s).safe => Serves(H, B, F, sz, firstAllocation(H, s), s)
        /\ multiplePageAllocations(H, s).safe => Serves(H, B, F, sz, multiplePageAllocations(H, s), s)
    BY <2>1, FirstServes
  <2>3. H.mem # <<>> /\ Grow(H, s).safe => Serves(H, B, F, sz, Grow(H, s), s)
    BY <2>1, GrowServes
  <2>4. L # {} /\ Take(H, Min(L), fit(Min(L)), s).safe =>
          Serves(H, B, F, sz, Take(H, Min(L), fit(Min(L)), s), s)
    <3>1. Class(s) \in 0 .. 3
      BY ClassIs DEF Lists
    <3>2. L \in SUBSET Nat /\ L \subseteq Lists
      <4>1. L \subseteq Class(s) .. 3
        BY Zenon
      <4> HIDE DEF L
      <4>2. Class(s) .. 3 \subseteq 0 .. 3 /\ 0 .. 3 \subseteq Nat
        BY <3>1
      <4> QED
        BY <4>1, <4>2 DEF Lists
    <3>3. ASSUME L # {} PROVE Min(L) \in Lists /\ fit(Min(L)) # Null
      <4>1. Min(L) \in L
        BY <3>2, <3>3, LeastOf
      <4>2. \A i \in L : fit(i) # Null
        BY Zenon
      <4> HIDE DEF L, fit
      <4> QED
        BY <3>2, <4>1, <4>2
    <3> HIDE DEF L
    <3>4. ASSUME NEW i \in Lists PROVE fit(i) = SeekSet(H, Chain(H, H.heads[i]), AtLeast(H, s + 2))
      <4>1. HeapType(H)
        BY SoundIs
      <4>2. H.heads[i] \in Int
        BY <4>1, HeadIs
      <4> QED
        BY <4>1, <4>2, SeekIs, Zenon
    <3> HIDE DEF fit
    <3> QED
      BY <2>1, <3>3, <3>4, TakeSound
  <2> HIDE DEF L, fit
  <2> QED
    BY <1>1, <1>4, <2>1, <2>2, <2>3, <2>4
<1> QED
  BY <1>2, <1>3, <1>4


-----------------------------------------------------------------------------
(* sf_free *)

LEMMA TagRewrite ==
  ASSUME NEW K, HeapType(K), ~K.lost, NEW a, TagAt(K, a) # NoTag, NEW w \in Tags
  PROVE  TagSet(K, SetTag(K, a, w), a, w)
<1>1. a \in DOMAIN K.mem
  BY WordType
<1>2. SetTag(K, a, w) = Set(K, a, w)
  BY DEF SetTag
<1> QED
  BY <1>1, <1>2, AlikeSelf, TagAfter

\* Two tags are written.
TagsSet(K, L, h, x, f, y) ==
  Alike(K, L, {h, f}) /\ L.heads = K.heads /\ TagAt(L, h) = x /\ TagAt(L, f) = y /\ x # NoTag /\ y # NoTag

LEMMA TwoTags ==
  ASSUME NEW K, HeapType(K), ~K.lost, NEW h, NEW f, h # f, NEW x \in Tags, NEW y \in Tags,
         TagAt(K, h) # NoTag, TagAt(K, f) # NoTag
  PROVE  /\ TagAt(SetTag(K, h, x), f) = TagAt(K, f)
         /\ TagsSet(K, SetTag(SetTag(K, h, x), f, y), h, x, f, y)
<1> DEFINE M == SetTag(K, h, x)
           L == SetTag(M, f, y)
<1>1. TagSet(K, M, h, x)
  BY TagRewrite
<1> HIDE DEF M
<1>2. TagAt(M, f) = TagAt(K, f)
  BY <1>1, AlikeReads DEF TagSet
<1>3. TagSet(M, L, f, y)
  BY <1>1, <1>2, TagRewrite DEF TagSet, Alike
<1> HIDE DEF L
<1>4. TagAt(L, h) = x
  BY <1>1, <1>3, AlikeReads DEF TagSet
<1>5. Alike(K, L, {h, f}) /\ L.heads = K.heads
  BY <1>1, <1>3, AlikeTrans DEF TagSet
<1>6. TagsSet(K, L, h, x, f, y)
  BY <1>1, <1>3, <1>4, <1>5 DEF TagSet, TagsSet
<1> QED
  BY <1>2, <1>6 DEF M, L

\* The bits of header and footer are reset.
ResetBoth(K, h, f) ==
  LET Reset(G, a) == SetTag(G, a, [TagAt(G, a) EXCEPT !.alloc = 0])
  IN Reset(Reset(K, h), f)
UnpadBoth(K, h, f) ==
  LET Unpad(G, a) == SetTag(G, a, [TagAt(G, a) EXCEPT !.padded = 0])
  IN Unpad(Unpad(K, h), f)

LEMMA BitsReset ==
  ASSUME NEW K, HeapType(K), ~K.lost, NEW h, NEW f, h # f, NEW v \in Tags, NEW w \in Tags,
         v = TagAt(K, h), w = TagAt(K, f)
  PROVE  /\ TagsSet(K, ResetBoth(K, h, f), h, [v EXCEPT !.alloc = 0], f, [w EXCEPT !.alloc = 0])
         /\ TagsSet(K, UnpadBoth(K, h, f), h, [v EXCEPT !.padded = 0], f, [w EXCEPT !.padded = 0])
<1>1. TagAt(K, h) # NoTag /\ TagAt(K, f) # NoTag
  BY CellKinds
<1>2. /\ [v EXCEPT !.alloc = 0] \in Tags /\ [w EXCEPT !.alloc = 0] \in Tags
      /\ [v EXCEPT !.padded = 0] \in Tags /\ [w EXCEPT !.padded = 0] \in Tags
  <2>1. ASSUME NEW t \in Tags PROVE [t EXCEPT !.alloc = 0] \in Tags /\ [t EXCEPT !.padded = 0] \in Tags
    <3>1. 0 \in 0 .. 1
      OBVIOUS
    <3> QED
      BY <3>1, TagWith, Zenon
  <2> QED
    BY <2>1, Zenon
<1>3. PICK x \in Tags, y \in Tags, x2 \in Tags, y2 \in Tags :
        /\ x = [v EXCEPT !.alloc = 0] /\ y = [w EXCEPT !.alloc = 0]
        /\ x2 = [v EXCEPT !.padded = 0] /\ y2 = [w EXCEPT !.padded = 0]
  BY <1>2
<1>4. ResetBoth(K, h, f) = SetTag(SetTag(K, h, x), f, y)
  <2>1. TagAt(SetTag(K, h, x), f) = w
    BY <1>1, TwoTags
  <2>2. ResetBoth(K, h, f) =
          SetTag(SetTag(K, h, [TagAt(K, h) EXCEPT !.alloc = 0]), f,
                 [TagAt(SetTag(K, h, [TagAt(K, h) EXCEPT !.alloc = 0]), f) EXCEPT !.alloc = 0])
    BY Zenon DEF ResetBoth
  <2>3. [TagAt(K, h) EXCEPT !.alloc = 0] = x
    BY <1>3
  <2>4. ResetBoth(K, h, f) = SetTag(SetTag(K, h, x), f, [TagAt(SetTag(K, h, x), f) EXCEPT !.alloc = 0])
    BY <2>2, <2>3, Zenon
  <2>5. [TagAt(SetTag(K, h, x), f) EXCEPT !.alloc = 0] = y
    BY <1>3, <2>1, Zenon
  <2> QED
    BY <2>4, <2>5, Zenon
<1>5. UnpadBoth(K, h, f) = SetTag(SetTag(K, h, x2), f, y2)
  <2>1. TagAt(SetTag(K, h, x2), f) = w
    BY <1>1, TwoTags
  <2>2. UnpadBoth(K, h, f) =
          SetTag(SetTag(K, h, [TagAt(K, h) EXCEPT !.padded = 0]), f,
                 [TagAt(SetTag(K, h, [TagAt(K, h) EXCEPT !.padded = 0]), f) EXCEPT !.padded = 0])
    BY Zenon DEF UnpadBoth
  <2>3. [TagAt(K, h) EXCEPT !.padded = 0] = x2
    BY <1>3
  <2>4. UnpadBoth(K, h, f) = SetTag(SetTag(K, h, x2), f, [TagAt(SetTag(K, h, x2), f) EXCEPT !.padded = 0])
    BY <2>2, <2>3, Zenon
  <2>5. [TagAt(SetTag(K, h, x2), f) EXCEPT !.padded = 0] = y2
    BY <1>3, <2>1, Zenon
  <2> QED
    BY <2>4, <2>5, Zenon
<1>6. TagsSet(K, ResetBoth(K, h, f), h, x, f, y) /\ TagsSet(K, UnpadBoth(K, h, f), h, x2, f, y2)
  BY <1>1, <1>4, <1>5, TwoTags
<1> QED
  BY <1>3, <1>6, Zenon

\* G is H with block h free, and on no list yet.
Loose(H, B, F, sz, G, B1, F1, sz1, h) ==
  /\ Paved(G, B1, F1 \cup {h}, sz1, {}) /\ LinkedSomehow(G, F1, ClassFn(sz1))
  /\ h \in B1 /\ h \notin F1
  /\ Keep(H, B, F, sz, {h}, G)
  /\ \A c \in B : c \notin F /\ c # h => c \in B1 /\ c \notin F1 /\ sz1[c] = sz[c]

LEMMA ReleaseKept ==
  ASSUME NEW H, NEW B, NEW F, NEW sz, NEW G, NEW B1, NEW F1, NEW sz1, NEW h,
         Loose(H, B, F, sz, G, B1, F1, sz1, h),
         NEW i, i = Class(SizeAt(G, h)), NoStale(G, i, h)
  PROVE  Kept(H, B, F, sz, {h}, Release(G, h), B1, F1 \cup {h}, sz1)
<1> DEFINE R == Release(G, h)
           F2 == F1 \cup {h}
<1>1. /\ HeapType(G) /\ ~G.lost /\ F2 \in SUBSET B1 /\ F1 \in SUBSET B1 /\ h \in B1 /\ h \notin F1
      /\ Tile(B1, sz1, Len(G.mem)) /\ Paved(G, B1, F2, sz1, {})
      /\ IsBlock(G, h, Kind(F2, h), sz1[h])
  BY DEF Loose, Paved
<1>2. i = Class(sz1[h])
  BY <1>1 DEF IsBlock, SizeAt
<1>3. R = Push(G, i, h)
  BY DEF Release, Push
<1> HIDE DEF R
<1>4. Alike(G, R, Links(F2)) /\ LinkedSomehow(R, F2, ClassFn(sz1))
  <2>1. Room(F1, h, Len(G.mem))
    BY <1>1, RoomOf
  <2>2. Agree(F1, sz1, sz1) /\ LinkedSomehow(G, F1, ClassFn(sz1))
    BY DEF Agree, Loose
  <2> QED
    BY <1>2, <1>3, <2>1, <2>2, JoinList
<1> HIDE DEF F2
<1>5. Paved(R, B1, F2, sz1, {}) /\ Keep(G, B1, F2, sz1, {}, R)
  <2>1. Alike(G, R, Wide(F2, sz1, {}))
    BY <1>4 DEF Wide, Alike
  <2> QED
    BY <1>1, <2>1, PavedFrame
<1>6. Keep(H, B, F, sz, {h}, R)
  <2> SUFFICES ASSUME NEW c \in B, c \notin F, c # h, NEW a \in Span(c, sz[c]) PROVE Word(R, a) = Word(H, a)
    BY DEF Keep
  <2>1. c \in B1 /\ c \notin F2 /\ sz1[c] = sz[c] /\ Word(G, a) = Word(H, a)
    BY DEF Loose, Keep, F2
  <2>2. Word(R, a) = Word(G, a)
    BY <1>5, <2>1 DEF Keep
  <2> QED
    BY <2>1, <2>2
<1>7. Sound(R, B1, F2, sz1)
  BY <1>4, <1>5 DEF Sound
<1>8. \A c \in B : c \notin F /\ c \notin {h} => c \in B1 /\ c \notin F2 /\ sz1[c] = sz[c]
  BY DEF Loose, F2
<1> QED
  BY <1>6, <1>7, <1>8 DEF Kept, R, F2


LEMMA BlockEnds ==
  ASSUME NEW H, NEW B, NEW F, NEW sz, Sound(H, B, F, sz), NEW h \in B, NEW f, f = h + sz[h] - 1
  PROVE  /\ h \in Int /\ f \in Int /\ h # f /\ h # f + 1 /\ f + 1 = h + sz[h] /\ f <= Len(H.mem)
         /\ Len(H.mem) \in Nat /\ (f = Len(H.mem) \/ f + 1 \in B)
         /\ TagAt(H, h) \in Tags /\ TagAt(H, f) \in Tags
         /\ TagAt(H, h).size = sz[h] /\ TagAt(H, f).size = sz[h] /\ SizeAt(H, h) = sz[h]
         /\ TagAt(H, h).alloc = Kind(F, h) /\ TagAt(H, f).alloc = Kind(F, h)
         /\ TagAt(H, f).padded = TagAt(H, h).padded
         /\ sz[h] \in Nat /\ sz[h] >= 4 /\ h >= 1
         /\ h \notin Links(F) /\ f \notin Links(F)
<1>1. HeapType(H) /\ F \in SUBSET B /\ Tile(B, sz, Len(H.mem)) /\ IsBlock(H, h, Kind(F, h), sz[h])
  BY SoundIs
<1>2. /\ h \in Int /\ h >= 1 /\ sz[h] \in Nat /\ sz[h] >= 4 /\ Len(H.mem) \in Nat
      /\ h + sz[h] <= Len(H.mem) + 1 /\ (h + sz[h] = Len(H.mem) + 1 \/ h + sz[h] \in B)
  BY <1>1, TileIs
<1>3. PICK m \in Nat, l \in Nat : m = sz[h] /\ l = Len(H.mem)
  BY <1>2
<1>4. f = h + m - 1 /\ f \in Int /\ h # f /\ h # f + 1 /\ f + 1 = h + m
  <2>1. f = h + m - 1 /\ m >= 4 /\ h \in Int
    BY <1>2, <1>3
  <2> QED
    BY <2>1
<1>5. f <= Len(H.mem) /\ (f = Len(H.mem) \/ f + 1 \in B)
  <2>1. h \in Int /\ h + m <= l + 1 /\ (h + m = l + 1 \/ h + m \in B)
    BY <1>2, <1>3
  <2>2. f <= l /\ (f = l \/ f + 1 \in B)
    BY <1>4, <2>1
  <2> QED
    BY <1>3, <2>2
<1>6. /\ TagAt(H, h) # NoTag /\ TagAt(H, f) # NoTag
      /\ TagAt(H, h).size = sz[h] /\ TagAt(H, f).size = sz[h]
      /\ TagAt(H, h).alloc = Kind(F, h) /\ TagAt(H, f).alloc = Kind(F, h)
      /\ TagAt(H, f).padded = TagAt(H, h).padded
  BY <1>1 DEF IsBlock
<1>7. TagAt(H, h) \in Tags /\ TagAt(H, f) \in Tags
  BY <1>1, <1>6, WordType
<1>8. h \notin Links(F) /\ f \notin Links(F)
  BY <1>1, LinksApart
<1> QED
  BY <1>2, <1>3, <1>4, <1>5, <1>6, <1>7, <1>8 DEF SizeAt

\* The block behind is allocated, or there is none.
LEMMA FreedAlone ==
  ASSUME NEW H, NEW B, NEW F, NEW sz, Sound(H, B, F, sz), NEW h \in B, h \notin F,
         NEW f, f = h + sz[h] - 1, NEW G, G = UnpadBoth(ResetBoth(H, h, f), h, f)
  PROVE  Loose(H, B, F, sz, G, B, F, sz, h)
<1> DEFINE M == ResetBoth(H, h, f)
<1>1. HeapType(H) /\ ~H.lost /\ F \in SUBSET B /\ Tile(B, sz, Len(H.mem)) /\ Paved(H, B, F, sz, {h})
  BY SoundIs
<1>2. PICK v \in Tags, w \in Tags : v = TagAt(H, h) /\ w = TagAt(H, f) /\ v.size = sz[h] /\ w.size = sz[h]
  BY BlockEnds
<1>3. h # f /\ h \in Int /\ f \in Int /\ h \notin Links(F) /\ f \notin Links(F)
      /\ h \in Span(h, sz[h]) /\ f \in Span(h, sz[h])
  <2>1. h # f /\ h \in Int /\ f \in Int /\ h \notin Links(F) /\ f \notin Links(F)
    BY BlockEnds
  <2>2. h \in Span(h, sz[h]) /\ f \in Span(h, sz[h])
    BY <1>1, SpanIn
  <2> QED
    BY <2>1, <2>2
<1>4. PICK x, y : x = [v EXCEPT !.alloc = 0] /\ y = [w EXCEPT !.alloc = 0] /\ TagsSet(H, M, h, x, f, y)
  BY <1>1, <1>2, <1>3, BitsReset
<1>5. x \in Tags /\ y \in Tags /\ x.alloc = 0 /\ y.alloc = 0 /\ x.size = sz[h] /\ y.size = sz[h]
  BY <1>2, <1>4 DEF Tags
<1> HIDE DEF M
<1>6. PICK x2, y2 : x2 = [x EXCEPT !.padded = 0] /\ y2 = [y EXCEPT !.padded = 0] /\ TagsSet(M, G, h, x2, f, y2)
  <2>1. HeapType(M) /\ ~M.lost /\ x = TagAt(M, h) /\ y = TagAt(M, f)
    BY <1>4 DEF TagsSet, Alike
  <2> QED
    BY <1>3, <1>5, <2>1, BitsReset DEF M
<1>7. /\ x2.alloc = 0 /\ y2.alloc = 0 /\ x2.size = sz[h] /\ y2.size = sz[h]
      /\ x2.padded = 0 /\ y2.padded = 0
  BY <1>5, <1>6 DEF Tags
<1>8. Alike(H, G, {h, f}) /\ G.heads = H.heads
  BY <1>4, <1>6, AlikeTrans DEF TagsSet
<1>9. IsBlock(G, h, 0, sz[h])
  BY <1>6, <1>7 DEF TagsSet, IsBlock
<1>10. /\ \A b \in B : b # h => IsBlock(G, b, Kind(F, b), sz[b])
       /\ Keep(H, B, F, sz, {h}, G)
  <2>1. Alike(H, G, Wide(F, sz, {h}))
    BY <1>3, <1>8 DEF Alike, Wide
  <2> QED
    BY <1>1, <2>1, PavedFrame
<1>11. Paved(G, B, F \cup {h}, sz, {})
  <2>1. \A b \in B : IsBlock(G, b, Kind(F \cup {h}, b), sz[b])
    BY <1>9, <1>10 DEF Kind
  <2> QED
    BY <1>1, <1>8, <2>1 DEF Paved, Alike
<1>12. LinkedSomehow(G, F, ClassFn(sz))
  <2>1. PICK rk : Linked(H, F, ClassFn(sz), rk)
    BY DEF Sound, LinkedSomehow
  <2>2. {h, f} \cap Links(F) = {}
    BY <1>3
  <2> QED
    BY <1>8, <2>1, <2>2, LinkedFrame DEF LinkedSomehow
<1> QED
  BY <1>10, <1>11, <1>12 DEF Loose


\* Two blocks become one, before the second one leaves its list.
JoinBoth(K, h, n) ==
  LET both == SizeAt(K, h) + n
      g == h + both - 1
      K1 == SetTag(K, h, [TagAt(K, h) EXCEPT !.size = both])
  IN SetTag(K1, g, [TagAt(K1, g) EXCEPT !.size = both])

LEMMA SizesJoined ==
  ASSUME NEW K, HeapType(K), ~K.lost, NEW h, NEW g, h # g, NEW v \in Tags, NEW w \in Tags,
         v = TagAt(K, h), w = TagAt(K, g), NEW n, NEW both \in Evens, both = v.size + n,
         g = h + both - 1
  PROVE  TagsSet(K, JoinBoth(K, h, n), h, [v EXCEPT !.size = both], g, [w EXCEPT !.size = both])
<1>1. TagAt(K, h) # NoTag /\ TagAt(K, g) # NoTag
  BY CellKinds
<1>2. PICK x \in Tags, y \in Tags : x = [v EXCEPT !.size = both] /\ y = [w EXCEPT !.size = both]
  <2>1. ASSUME NEW t \in Tags PROVE [t EXCEPT !.size = both] \in Tags
    BY TagWith, Zenon
  <2> QED
    BY <2>1
<1>3. SizeAt(K, h) + n = both
  BY DEF SizeAt
<1>4. JoinBoth(K, h, n) = SetTag(SetTag(K, h, x), g, y)
  <2>1. TagAt(SetTag(K, h, x), g) = w
    BY <1>1, TwoTags
  <2>2. JoinBoth(K, h, n) =
          SetTag(SetTag(K, h, [TagAt(K, h) EXCEPT !.size = SizeAt(K, h) + n]), h + (SizeAt(K, h) + n) - 1,
                 [TagAt(SetTag(K, h, [TagAt(K, h) EXCEPT !.size = SizeAt(K, h) + n]),
                        h + (SizeAt(K, h) + n) - 1) EXCEPT !.size = SizeAt(K, h) + n])
    BY Zenon DEF JoinBoth
  <2>3. [TagAt(K, h) EXCEPT !.size = SizeAt(K, h) + n] = x /\ h + (SizeAt(K, h) + n) - 1 = g
    BY <1>2, <1>3, Zenon
  <2>4. JoinBoth(K, h, n) =
          SetTag(SetTag(K, h, x), g, [TagAt(SetTag(K, h, x), g) EXCEPT !.size = SizeAt(K, h) + n])
    BY <2>2, <2>3, Zenon
  <2>5. [TagAt(SetTag(K, h, x), g) EXCEPT !.size = SizeAt(K, h) + n] = y
    BY <1>2, <1>3, <2>1, Zenon
  <2> QED
    BY <2>4, <2>5, Zenon
<1>5. TagsSet(K, JoinBoth(K, h, n), h, x, g, y)
  BY <1>1, <1>4, TwoTags
<1> QED
  BY <1>2, <1>5, Zenon

\* Blocks h and e lie side by side, with their footers at f and g.
Adjacent(sz, h, f, e, g) == f + 1 = e /\ h + sz[h] = e /\ g + 1 = e + sz[e]

LEMMA AdjacentEnds ==
  ASSUME NEW H, NEW B, NEW F, NEW sz, Sound(H, B, F, sz), NEW h \in B, NEW e \in B,
         NEW f \in Int, NEW g \in Int, Adjacent(sz, h, f, e, g)
  PROVE  /\ h # f /\ g # h /\ g # f /\ e # h /\ e # f /\ g = h + (sz[h] + sz[e]) - 1
         /\ h \notin Links(F) /\ f \notin Links(F) /\ g \notin Links(F)
         /\ sz[h] + sz[e] \in Evens
         /\ \A c \in B : c # h => c # f /\ c # g
         /\ TagAt(H, h) \in Tags /\ TagAt(H, f) \in Tags /\ TagAt(H, g) \in Tags
         /\ TagAt(H, h).size = sz[h]
         /\ TagAt(H, g).alloc = Kind(F, e) /\ (e \in F => TagAt(H, g).padded = 0)
         /\ {h, f} \subseteq Span(h, sz[h]) /\ g \in Span(e, sz[e])
<1>1. HeapType(H) /\ F \in SUBSET B /\ Tile(B, sz, Len(H.mem))
  BY SoundIs
<1>2. PICK a \in Nat, b \in Nat : a = sz[h] /\ b = sz[e] /\ a >= 4 /\ b >= 4 /\ h \in Int /\ e \in Int
  BY <1>1, TileIs
<1>3. f + 1 = e /\ h + a = e /\ g + 1 = e + b
  BY <1>2 DEF Adjacent
<1>4. h # f /\ g # h /\ g # f /\ e # h /\ e # f /\ g = h + (a + b) - 1 /\ f = h + a - 1 /\ g = e + b - 1
  BY <1>2, <1>3
<1>5. f = h + sz[h] - 1 /\ g = e + sz[e] - 1
  BY <1>2, <1>4
<1>6. /\ h \notin Links(F) /\ f \notin Links(F)
      /\ TagAt(H, h) \in Tags /\ TagAt(H, f) \in Tags /\ TagAt(H, h).size = sz[h]
  BY <1>5, BlockEnds
<1>7. g \notin Links(F) /\ TagAt(H, g) \in Tags /\ TagAt(H, g).alloc = Kind(F, e) /\ g <= Len(H.mem)
  BY <1>5, BlockEnds, SMTT(20)
<1>8. sz[h] + sz[e] \in Evens
  <2>1. sz[h] \in Evens /\ sz[e] \in Evens
    BY SoundIs
  <2>2. PICK i \in Nat, j \in Nat : a = 2 * i /\ b = 2 * j
    BY <1>2, <2>1, EvensAre
  <2>3. PICK l \in Nat : l = Len(H.mem) /\ l <= 4 * PAGE_SZ
    BY <1>1, MemType
  <2>4. h >= 1
    BY <1>1, TileIs
  <2>5. a + b <= l
    <3>1. g <= l /\ g = h + (a + b) - 1 /\ h \in Int
      BY <1>2, <1>4, <1>7, <2>3
    <3> QED
      BY <2>3, <2>4, <3>1
  <2>6. a + b <= 4 * PAGE_SZ
    BY <2>3, <2>5, Page
  <2>7. a + b \in Evens
    BY <2>2, <2>6, EvenSum
  <2> QED
    BY <1>2, <2>7
<1>9. ASSUME NEW c \in B, c # h PROVE c # f /\ c # g
  <2>1. PICK d \in Nat : d = sz[c] /\ d >= 4 /\ c \in Int
    BY <1>1, TileIs
  <2>2. /\ (c < h => c + d <= h) /\ (h < c => h + a <= c)
        /\ (c < e => c + d <= e) /\ (e < c => e + b <= c)
    BY <1>1, <1>2, <2>1, TileIs
  <2> QED
    BY <1>2, <1>3, <1>9, <2>1, <2>2
<1>10. e \in F => TagAt(H, g).padded = 0
  <2>1. ASSUME e \in F PROVE TagAt(H, g).padded = 0
    <3>1. IsBlock(H, e, 0, sz[e])
      BY <2>1, SoundIs DEF Kind
    <3> QED
      BY <1>5, <3>1 DEF IsBlock
  <2> QED
    BY <2>1
<1>11. {h, f} \subseteq Span(h, sz[h]) /\ g \in Span(e, sz[e])
  <2>1. /\ h \in Span(h, sz[h]) /\ h + sz[h] - 1 \in Span(h, sz[h])
        /\ e + sz[e] - 1 \in Span(e, sz[e])
    BY <1>1, SpanIn
  <2> QED
    BY <1>5, <2>1
<1>12. g = h + (sz[h] + sz[e]) - 1
  BY <1>2, <1>4
<1> QED
  BY <1>4, <1>6, <1>7, <1>8, <1>9, <1>10, <1>11, <1>12

\* sf_free finds the block to join behind the head of its list.
FirstInList(H, F, sz, e) ==
  \A rk : Linked(H, F, ClassFn(sz), rk) =>
    FirstOf(F, ClassFn(sz), rk, e, OfSize(H, sz[e])) /\ ClassFn(sz)[e] = Class(sz[e])

LEMMA FirstFound ==
  ASSUME NEW H, NEW B, NEW F, NEW sz, Sound(H, B, F, sz), NEW e \in F,
         SeekSize(H, H.heads[Class(sz[e])], sz[e]) = e
  PROVE  FirstInList(H, F, sz, e)
<1> SUFFICES ASSUME NEW rk, Linked(H, F, ClassFn(sz), rk)
             PROVE  FirstOf(F, ClassFn(sz), rk, e, OfSize(H, sz[e])) /\ ClassFn(sz)[e] = Class(sz[e])
  BY DEF FirstInList
<1>1. HeapType(H) /\ Tagged(H, F)
  BY SoundIs
<1>2. PICK n, i, p : n = sz[e] /\ i = Class(n) /\ p = SeekSet(H, Chain(H, H.heads[i]), OfSize(H, n))
  OBVIOUS
<1>3. i \in Lists /\ H.heads[i] \in Int
  BY <1>1, <1>2, ClassIs, HeadIs
<1>4. p = e
  BY <1>1, <1>2, <1>3, SeekIs
<1>5. p # Null
  BY <1>4, LinkedIs
<1>6. FirstOf(F, ClassFn(sz), rk, p, OfSize(H, n)) /\ ClassFn(sz)[p] = i
  <2>1. p = SeekSet(H, Chain(H, H.heads[i]), OfSize(H, n))
    BY <1>2
  <2>2. Tagged(H, F) /\ i \in Lists
    BY <1>1, <1>3
  <2> QED
    BY <1>5, <2>1, <2>2, SeekFirst
<1> QED
  BY <1>2, <1>4, <1>6, Zenon


\* Block h is joined with the free one behind it.
JoinSteps(H, h, f, n, K, M, N, G) ==
  /\ K = ResetBoth(H, h, f) /\ M = JoinBoth(K, h, n)
  /\ N = RemoveNext(M, n) /\ G = UnpadBoth(N, h, f)

Merged(sz, h, e) == [sz EXCEPT ![h] = sz[h] + sz[e]]

\* Before e leaves its list.
HalfJoined(H, h, f, g, both, M, x, y, z) ==
  /\ Alike(H, M, {h, f, g}) /\ M.heads = H.heads
  /\ TagAt(M, h) = x /\ TagAt(M, f) = y /\ TagAt(M, g) = z
  /\ x \in Tags /\ y \in Tags /\ z \in Tags
  /\ x.alloc = 0 /\ x.size = both /\ z.alloc = 0 /\ z.padded = 0 /\ z.size = both

LEMMA TagsJoined ==
  ASSUME NEW H, NEW B, NEW F, NEW sz, Sound(H, B, F, sz), NEW h \in B, NEW e \in F,
         NEW f \in Int, NEW g \in Int, Adjacent(sz, h, f, e, g),
         NEW K, NEW M, NEW N, NEW G, JoinSteps(H, h, f, sz[e], K, M, N, G)
  PROVE  \E x, y, z : HalfJoined(H, h, f, g, sz[h] + sz[e], M, x, y, z)
<1>1. HeapType(H) /\ ~H.lost /\ e \in B
  BY SoundIs
<1>2. /\ h # f /\ g # h /\ g # f /\ g = h + (sz[h] + sz[e]) - 1 /\ sz[h] + sz[e] \in Evens
      /\ TagAt(H, h) \in Tags /\ TagAt(H, f) \in Tags /\ TagAt(H, g) \in Tags
      /\ TagAt(H, h).size = sz[h] /\ TagAt(H, g).alloc = Kind(F, e) /\ TagAt(H, g).padded = 0
  BY <1>1, AdjacentEnds
<1>3. PICK v \in Tags, w \in Tags, t \in Tags :
        /\ v = TagAt(H, h) /\ w = TagAt(H, f) /\ t = TagAt(H, g) /\ v.size = sz[h]
        /\ t.alloc = 0 /\ t.padded = 0
  BY <1>2 DEF Kind
<1>4. PICK both \in Evens : both = sz[h] + sz[e]
  BY <1>2
<1>5. K = ResetBoth(H, h, f) /\ M = JoinBoth(K, h, sz[e])
  BY DEF JoinSteps
<1>6. PICK x, y : x = [v EXCEPT !.alloc = 0] /\ y = [w EXCEPT !.alloc = 0] /\ TagsSet(H, K, h, x, f, y)
  BY <1>1, <1>2, <1>3, <1>5, BitsReset
<1>7. x \in Tags /\ y \in Tags /\ x.alloc = 0 /\ x.size = sz[h]
  BY <1>3, <1>6 DEF Tags
<1>8. HeapType(K) /\ ~K.lost /\ TagAt(K, h) = x /\ TagAt(K, g) = t /\ TagAt(K, f) = y
  <2>1. TagAt(K, g) = TagAt(H, g)
    BY <1>2, <1>6, AlikeReads DEF TagsSet
  <2> QED
    BY <1>3, <1>6, <2>1 DEF TagsSet, Alike
<1>9. TagsSet(K, M, h, [x EXCEPT !.size = both], g, [t EXCEPT !.size = both])
  <2>1. both = x.size + sz[e] /\ g = h + both - 1
    BY <1>2, <1>4, <1>7
  <2>2. \A n : n = sz[e] => TagsSet(K, JoinBoth(K, h, n), h, [x EXCEPT !.size = both], g, [t EXCEPT !.size = both])
    BY <1>2, <1>3, <1>7, <1>8, <2>1, SizesJoined
  <2> QED
    BY <1>5, <2>2
<1>10. PICK x2, z2 : x2 = [x EXCEPT !.size = both] /\ z2 = [t EXCEPT !.size = both] /\ TagsSet(K, M, h, x2, g, z2)
  BY <1>9
<1>11. /\ x2 \in Tags /\ z2 \in Tags /\ x2.alloc = 0 /\ x2.size = both
       /\ z2.alloc = 0 /\ z2.padded = 0 /\ z2.size = both
  BY <1>3, <1>7, <1>10 DEF Tags
<1>12. Alike(H, M, {h, f, g}) /\ M.heads = H.heads
  BY <1>6, <1>10, AlikeTrans DEF TagsSet
<1>13. TagAt(M, f) = y
  BY <1>2, <1>8, <1>10, AlikeReads DEF TagsSet
<1>14. HalfJoined(H, h, f, g, both, M, x2, y, z2)
  BY <1>7, <1>10, <1>11, <1>12, <1>13 DEF HalfJoined, TagsSet
<1> QED
  BY <1>4, <1>14

LEMMA ListJoined ==
  ASSUME NEW H, NEW B, NEW F, NEW sz, Sound(H, B, F, sz), NEW h \in B, h \notin F, NEW e \in F,
         NEW f \in Int, NEW g \in Int, Adjacent(sz, h, f, e, g), FirstInList(H, F, sz, e),
         NEW M, NEW both, NEW x, NEW y, NEW z, HalfJoined(H, h, f, g, both, M, x, y, z),
         NEW rk, Linked(H, F, ClassFn(sz), rk)
  PROVE  Off(M, RemoveNext(M, sz[e]), F, ClassFn(sz), rk, e)
<1>1. HeapType(H) /\ ~H.lost /\ e \in B /\ F \in SUBSET B /\ Tagged(H, F)
  BY SoundIs
<1>2. h \notin Links(F) /\ f \notin Links(F) /\ g \notin Links(F) /\ \A c \in B : c # h => c # f /\ c # g
  BY <1>1, AdjacentEnds
<1>3. Alike(H, M, {h, f, g}) /\ M.heads = H.heads
  BY DEF HalfJoined
<1>4. Linked(M, F, ClassFn(sz), rk)
  <2>1. {h, f, g} \cap Links(F) = {}
    BY <1>2
  <2> QED
    BY <1>3, <2>1, LinkedFrame
<1>5. \A c \in F : TagAt(M, c) = TagAt(H, c) /\ SizeAt(M, c) = SizeAt(H, c)
  <2> TAKE c \in F
  <2>1. c \notin {h, f, g}
    BY <1>1, <1>2
  <2> QED
    BY <1>3, <2>1, AlikeReads
<1>6. Tagged(M, F)
  BY <1>1, <1>5 DEF Tagged
<1>7. FirstOf(F, ClassFn(sz), rk, e, OfSize(H, sz[e])) /\ ClassFn(sz)[e] = Class(sz[e])
  BY DEF FirstInList
<1>8. FirstOf(F, ClassFn(sz), rk, e, OfSize(M, sz[e]))
  BY <1>5, <1>7 DEF FirstOf, OfSize
<1> QED
  BY <1>4, <1>6, <1>7, <1>8, RemoveNextOff

LEMMA FreedJoined ==
  ASSUME NEW H, NEW B, NEW F, NEW sz, Sound(H, B, F, sz), NEW h \in B, h \notin F, NEW e \in F,
         NEW f \in Int, NEW g \in Int, Adjacent(sz, h, f, e, g), FirstInList(H, F, sz, e),
         NEW K, NEW M, NEW N, NEW G, JoinSteps(H, h, f, sz[e], K, M, N, G)
  PROVE  Loose(H, B, F, sz, G, B \ {e}, F \ {e}, Merged(sz, h, e), h)
<1> DEFINE sz1 == Merged(sz, h, e)
           B1 == B \ {e}
           F1 == F \ {e}
           cl == ClassFn(sz)
<1>1. /\ HeapType(H) /\ ~H.lost /\ e \in B /\ F \in SUBSET B /\ Tile(B, sz, Len(H.mem))
      /\ Paved(H, B, F, sz, {})
  BY SoundIs
<1>2. /\ h # f /\ g # h /\ g # f /\ e # h /\ g = h + (sz[h] + sz[e]) - 1
      /\ h \notin Links(F) /\ f \notin Links(F) /\ g \notin Links(F)
      /\ {h, f} \subseteq Span(h, sz[h]) /\ g \in Span(e, sz[e])
  BY <1>1, AdjacentEnds
<1>3. PICK both, x, y, z : both = sz[h] + sz[e] /\ HalfJoined(H, h, f, g, both, M, x, y, z)
  BY TagsJoined
<1>4. PICK rk : Linked(H, F, cl, rk)
  BY DEF Sound, LinkedSomehow
<1>5. Alike(M, N, Links(F)) /\ Linked(N, F1, cl, rk)
  <2>1. Off(M, RemoveNext(M, sz[e]), F, cl, rk, e)
    BY <1>3, <1>4, ListJoined
  <2> QED
    BY <2>1 DEF Off, JoinSteps
<1> HIDE DEF cl
<1>6. TagAt(N, h) = x /\ TagAt(N, f) = y /\ TagAt(N, g) = z /\ HeapType(N) /\ ~N.lost
  <2>1. TagAt(N, h) = TagAt(M, h) /\ TagAt(N, f) = TagAt(M, f) /\ TagAt(N, g) = TagAt(M, g)
    BY <1>2, <1>5, AlikeReads
  <2> QED
    BY <1>3, <1>5, <2>1 DEF HalfJoined, Alike
<1>7. PICK x3, y3 : x3 = [x EXCEPT !.padded = 0] /\ y3 = [y EXCEPT !.padded = 0] /\ TagsSet(N, G, h, x3, f, y3)
  <2>1. x \in Tags /\ y \in Tags /\ G = UnpadBoth(N, h, f)
    BY <1>3 DEF HalfJoined, JoinSteps
  <2> QED
    BY <1>2, <1>6, <2>1, BitsReset
<1>8. x3 # NoTag /\ x3.alloc = 0 /\ x3.padded = 0 /\ x3.size = both
  <2>1. x3.alloc = 0 /\ x3.padded = 0 /\ x3.size = both
    BY <1>3, <1>7 DEF HalfJoined, Tags
  <2> QED
    BY <1>7, <2>1 DEF TagsSet
<1>9. IsBlock(G, h, 0, both)
  <2>1. TagAt(G, g) = z /\ TagAt(G, h) = x3
    BY <1>2, <1>6, <1>7, AlikeReads DEF TagsSet
  <2>2. z # NoTag /\ z.alloc = 0 /\ z.padded = 0 /\ z.size = both
    BY <1>3, CellKinds DEF HalfJoined
  <2>3. h + both - 1 = g
    BY <1>2, <1>3
  <2> QED
    BY <1>8, <2>1, <2>2, <2>3 DEF IsBlock
<1>10. Alike(H, G, Wide(F, sz, {h, e})) /\ Len(G.mem) = Len(H.mem)
  <2>1. {h, f, g} \subseteq Wide(F, sz, {h, e}) /\ Links(F) \subseteq Wide(F, sz, {h, e})
        /\ {h, f} \subseteq Wide(F, sz, {h, e})
    BY <1>2 DEF Wide
  <2>2. Alike(H, N, Wide(F, sz, {h, e}))
    <3>1. Alike(H, M, {h, f, g})
      BY <1>3 DEF HalfJoined
    <3> QED
      BY <1>5, <2>1, <3>1, AlikeThen
  <2>3. Alike(N, G, {h, f})
    BY <1>7 DEF TagsSet
  <2>4. Alike(H, G, Wide(F, sz, {h, e}))
    BY <2>1, <2>2, <2>3, AlikeThen
  <2> QED
    BY <2>4 DEF Alike
<1>11. /\ \A b \in B : b # h /\ b # e => IsBlock(G, b, Kind(F, b), sz[b])
       /\ Keep(H, B, F, sz, {h}, G)
  <2>1. {h, e} \in SUBSET B
    BY <1>1
  <2>2. /\ \A b \in B : b \notin {} /\ b \notin {h, e} => IsBlock(G, b, Kind(F, b), sz[b])
        /\ Keep(H, B, F, sz, {h, e}, G)
    BY <1>1, <1>10, <2>1, PavedFrame
  <2> QED
    BY <2>2 DEF Keep
<1>12. Tile(B1, sz1, Len(G.mem))
  <2>1. e = h + sz[h]
    BY DEF Adjacent
  <2>2. Tile(B1, sz1, Len(H.mem))
    BY <1>1, <2>1, JoinTile DEF Merged
  <2> QED
    BY <1>10, <2>2
<1>13. sz1[h] = both /\ \A b \in B : b # h => sz1[b] = sz[b]
  <2>1. sz \in [Int -> Nat] /\ B \in SUBSET Int
    BY <1>1 DEF Tile
  <2> QED
    BY <1>3, <2>1 DEF Merged
<1> HIDE DEF sz1
<1>14. Paved(G, B1, F1 \cup {h}, sz1, {})
  <2>1. ASSUME NEW b \in B1 PROVE IsBlock(G, b, Kind(F1 \cup {h}, b), sz1[b])
    <3>1. CASE b = h
      BY <1>9, <1>13, <3>1 DEF Kind
    <3>2. CASE b # h
      BY <1>11, <1>13, <3>2 DEF Kind
    <3> QED
      BY <3>1, <3>2
  <2>2. F1 \cup {h} \subseteq B1
    BY <1>1, <1>2
  <2> QED
    BY <1>10, <1>12, <2>1, <2>2 DEF Paved, Alike
<1>15. LinkedSomehow(G, F1, ClassFn(sz1))
  <2>1. h \notin Links(F1) /\ f \notin Links(F1)
    BY <1>2 DEF Links
  <2>2. {h, f} \cap Links(F1) = {}
    BY <2>1
  <2>3. Linked(G, F1, cl, rk)
    BY <1>5, <1>7, <2>2, LinkedFrame DEF TagsSet
  <2>4. \A c \in F1 : ClassFn(sz1)[c] = cl[c]
    <3> TAKE c \in F1
    <3>1. c \in Int /\ sz1[c] = sz[c]
      BY <1>1, <1>13, SoundIs
    <3> QED
      BY <3>1, ClassFnIs DEF cl
  <2>5. LinksRead(G, G, F1)
    BY <1>10, MemType DEF LinksRead, Alike
  <2> QED
    BY <2>3, <2>4, <2>5, ClassFnIs, LinkedSame DEF LinkedSomehow
<1>16. /\ h \in B1 /\ h \notin F1
       /\ \A c \in B : c \notin F /\ c # h => c \in B1 /\ c \notin F1 /\ sz1[c] = sz[c]
  BY <1>2, <1>13
<1> QED
  BY <1>11, <1>14, <1>15, <1>16 DEF Loose, sz1, B1, F1


\* A pointer to an allocated block passes the checks of sf_free and sf_realloc.
LEMMA AllocatedTrusted ==
  ASSUME NEW H, NEW B, NEW F, NEW sz, Sound(H, B, F, sz), NEW h \in B, h \notin F
  PROVE  Trusted(H, h + 1) = "yes"
<1> DEFINE p == h + 1
           header == TagAt(H, p - 1)
           f == p - 2 + header.size
           footer == TagAt(H, f)
           whole == footer.req + 2 = footer.size \/ footer.padded = 1 \/ header.padded = 1
<1>1. Trusted(H, p) = IF header = NoTag THEN "garbage"
                      ELSE IF f > Len(H.mem) \/ header.alloc = 0 THEN "no"
                      ELSE IF footer = NoTag THEN "garbage"
                      ELSE IF footer.alloc = 0 \/ ~whole \/ header.padded # footer.padded THEN "no"
                      ELSE "yes"
  BY Zenon DEF Trusted, whole, footer, f, header
<1>2. IsBlock(H, h, 1, sz[h])
  BY SoundIs DEF Kind
<1>3. h \in Int /\ sz[h] \in Nat /\ h + sz[h] - 1 <= Len(H.mem) /\ TagAt(H, h).size = sz[h]
      /\ Len(H.mem) \in Nat
  BY BlockEnds
<1>4. p - 1 = h /\ p - 2 = h - 1
  BY <1>3
<1>5. header = TagAt(H, h) /\ header.size = sz[h]
  BY <1>3, <1>4
<1> HIDE DEF header
<1>6. f = h + sz[h] - 1 /\ ~(f > Len(H.mem))
  BY <1>3, <1>4, <1>5
<1> HIDE DEF f, p
<1>7. /\ header # NoTag /\ header.alloc = 1 /\ footer # NoTag /\ footer.alloc = 1
      /\ footer.size = sz[h] /\ footer.padded = header.padded
      /\ (footer.req + 2 = sz[h] \/ header.padded = 1)
  BY <1>2, <1>5, <1>6 DEF IsBlock
<1>8. whole
  BY <1>7
<1> HIDE DEF footer, whole
<1>9. Trusted(H, p) = "yes"
  BY <1>1, <1>6, <1>7, <1>8
<1> QED
  BY <1>9 DEF p

\* What sf_free makes of block h.
LEMMA FreedLoose ==
  ASSUME NEW H, NEW B, NEW F, NEW sz, Sound(H, B, F, sz), NEW h \in B, h \notin F,
         NEW G, G = Freed(H, h), ReleaseSafe(H, h + SizeAt(H, h), G, h)
  PROVE  \E B1, F1, sz1 : Loose(H, B, F, sz, G, B1, F1, sz1, h)
<1> DEFINE f == h + SizeAt(H, h) - 1
           behind == TagAt(H, f + 1)
           H1 == ResetBoth(H, h, f)
           H2 == IF f = Len(H.mem) THEN H1
                 ELSE IF behind = NoTag THEN LostHeap
                 ELSE IF behind.alloc = 0 THEN coalescBlocks(H1, h, behind.size)
                 ELSE H1
<1>1. G = UnpadBoth(H2, h, f)
  BY Zenon DEF Freed, UnpadBoth, ResetBoth, H2, H1, behind, f
<1>2. /\ f = h + sz[h] - 1 /\ f \in Int /\ f + 1 = h + sz[h] /\ h # f
      /\ (f = Len(H.mem) \/ f + 1 \in B) /\ f <= Len(H.mem) /\ Len(H.mem) \in Nat
      /\ h + SizeAt(H, h) = f + 1
  <2>1. SizeAt(H, h) = sz[h]
    BY BlockEnds
  <2>2. f = h + sz[h] - 1 /\ h + SizeAt(H, h) = h + sz[h]
    BY <2>1
  <2> HIDE DEF f
  <2> QED
    BY <2>2, BlockEnds
<1>3. ReleaseSafe(H, f + 1, G, h)
  BY <1>2
<1> HIDE DEF f
<1>4. ASSUME f + 1 \in B
      PROVE  behind # NoTag /\ behind.alloc = Kind(F, f + 1) /\ behind.size = sz[f + 1]
             /\ f # Len(H.mem)
  <2>1. IsBlock(H, f + 1, Kind(F, f + 1), sz[f + 1])
    BY <1>4, SoundIs
  <2>2. f + 1 <= Len(H.mem)
    <3>1. HeapType(H) /\ Tile(B, sz, Len(H.mem))
      BY SoundIs
    <3>2. f + 1 \in DOMAIN H.mem
      BY <1>4, <3>1, SpanIn
    <3> QED
      BY <1>2, <3>1, <3>2, MemType
  <2> QED
    BY <1>2, <2>1, <2>2 DEF IsBlock
<1>5. CASE f = Len(H.mem) \/ f + 1 \notin F
  <2>1. H2 = H1
    <3>1. f # Len(H.mem) => f + 1 \in B
      BY <1>2
    <3>2. f # Len(H.mem) => behind # NoTag /\ behind.alloc = 1
      BY <1>4, <1>5, <3>1 DEF Kind
    <3> HIDE DEF behind, H1
    <3> QED
      BY <3>2
  <2> HIDE DEF H2
  <2>2. G = UnpadBoth(ResetBoth(H, h, f), h, f)
    BY <1>1, <2>1
  <2> QED
    BY <1>2, <2>2, FreedAlone
<1>6. CASE f # Len(H.mem) /\ f + 1 \in F
  <2> DEFINE e == f + 1
             n == sz[e]
             M == JoinBoth(H1, h, n)
             N == RemoveNext(M, n)
  <2>1. e \in B /\ e \in F /\ behind # NoTag /\ behind.alloc = 0 /\ behind.size = n
    BY <1>2, <1>4, <1>6 DEF Kind
  <2>2. H2 = coalescBlocks(H1, h, n)
    <3> HIDE DEF behind, H1, n
    <3> QED
      BY <1>6, <2>1
  <2>3. coalescBlocks(H1, h, n) = N
    BY Zenon DEF coalescBlocks, JoinBoth, N, M
  <2> HIDE DEF H2, behind
  <2>4. G = UnpadBoth(N, h, f)
    BY <1>1, <2>2, <2>3, Zenon
  <2> HIDE DEF M, N, H1
  <2>5. JoinSteps(H, h, f, n, H1, M, N, G)
    BY <2>4 DEF JoinSteps, M, N, H1
  <2>6. PICK g \in Int : Adjacent(sz, h, f, e, g)
    <3>1. e + sz[e] - 1 \in Int /\ (e + sz[e] - 1) + 1 = e + sz[e]
      BY <2>1, BlockEnds
    <3> QED
      BY <1>2, <3>1 DEF Adjacent
  <2>7. SeekSize(H, H.heads[Class(sz[e])], sz[e]) = e
    <3>1. e <= Len(H.mem)
      BY <1>2, <1>6
    <3>2. SizeAt(H, e) = sz[e] /\ TagAt(H, e).alloc = 0
      BY <2>1, SoundIs DEF Kind
    <3> HIDE DEF e
    <3> QED
      BY <1>3, <3>1, <3>2 DEF ReleaseSafe, e
  <2>8. FirstInList(H, F, sz, e)
    BY <2>1, <2>7, FirstFound
  <2>9. Loose(H, B, F, sz, G, B \ {e}, F \ {e}, Merged(sz, h, e), h)
    BY <1>2, <2>1, <2>5, <2>6, <2>8, FreedJoined
  <2> QED
    BY <2>9
<1> QED
  BY <1>5, <1>6

\* Until the heap is harmed, sf_free with the address of an allocated block returns.
LEMMA FreeServes ==
  ASSUME NEW H, NEW B, NEW F, NEW sz, Sound(H, B, F, sz), NEW h \in B, h \notin F,
         NEW r, r = sf_free(H, h + 1), r.safe
  PROVE  r.abort = FALSE /\ \E B2, F2, sz2 : Kept(H, B, F, sz, {h}, r.heap, B2, F2, sz2)
<1> DEFINE G == Freed(H, h)
           R == Release(G, h)
           safe == ReleaseSafe(H, h + SizeAt(H, h), G, h)
<1>1. h \in Int
  BY SoundIs
<1>2. r = Result(R, Null, "none", FALSE, safe)
  <2>1. Trusted(H, h + 1) = "yes"
    BY AllocatedTrusted
  <2>2. (h + 1) - 1 = h
    BY <1>1
  <2>3. sf_free(H, h + 1) = FreedInto(H, Freed(H, (h + 1) - 1), (h + 1) - 1)
    BY <2>1 DEF sf_free
  <2> QED
    BY <2>2, <2>3 DEF FreedInto
<1>3. safe /\ r.abort = FALSE /\ r.heap = IF R.lost THEN LostHeap ELSE R
  <2> HIDE DEF R, safe
  <2> QED
    BY <1>2 DEF Result
<1>4. PICK B1, F1, sz1 : Loose(H, B, F, sz, G, B1, F1, sz1, h)
  BY <1>3, FreedLoose
<1>5. NoStale(G, Class(SizeAt(G, h)), h)
  BY <1>3 DEF ReleaseSafe, NoStale
<1> HIDE DEF G
<1>6. Kept(H, B, F, sz, {h}, R, B1, F1 \cup {h}, sz1)
  BY <1>4, <1>5, ReleaseKept
<1>7. ~R.lost
  BY <1>6, SoundIs DEF Kept
<1> HIDE DEF R
<1> QED
  BY <1>3, <1>6, <1>7

-----------------------------------------------------------------------------
(* sf_realloc *)

\* The words between the header and the footer of a block of n words at b.
Inside(b, n) == b + 1 .. b + n - 2

\* Writing into an allocated block harms nothing but its words.
LEMMA InsideFrame ==
  ASSUME NEW H, NEW B, NEW F, NEW sz, Sound(H, B, F, sz), NEW c \in B, c \notin F,
         NEW G, NEW A, Alike(H, G, A), A \subseteq Inside(c, sz[c]), G.heads = H.heads
  PROVE  Kept(H, B, F, sz, {c}, G, B, F, sz)
<1>1. /\ HeapType(H) /\ ~H.lost /\ F \in SUBSET B /\ Tile(B, sz, Len(H.mem))
      /\ Paved(H, B, F, sz, {c}) /\ IsBlock(H, c, Kind(F, c), sz[c])
  BY SoundIs
<1>2. c \in Int /\ sz[c] \in Nat /\ sz[c] >= 4
  BY <1>1, TileIs
<1>3. A \subseteq Span(c, sz[c]) /\ c \notin A /\ c + sz[c] - 1 \notin A
  BY <1>2 DEF Inside, Span
<1>4. /\ \A b \in B : b # c => IsBlock(G, b, Kind(F, b), sz[b])
      /\ Keep(H, B, F, sz, {c}, G)
  <2>1. Alike(H, G, Wide(F, sz, {c}))
    BY <1>3 DEF Alike, Wide
  <2> QED
    BY <1>1, <2>1, PavedFrame
<1>5. IsBlock(G, c, Kind(F, c), sz[c])
  BY <1>1, <1>3, BlockFrame
<1>6. Paved(G, B, F, sz, {})
  BY <1>1, <1>4, <1>5 DEF Paved, Alike
<1>7. LinkedSomehow(G, F, ClassFn(sz))
  <2>1. PICK rk : Linked(H, F, ClassFn(sz), rk)
    BY DEF Sound, LinkedSomehow
  <2>2. A \cap Links(F) = {}
    <3>1. Span(c, sz[c]) \cap Wide(F, sz, {}) = {}
      BY <1>1, TagsApart
    <3> QED
      BY <1>3, <3>1 DEF Wide
  <2> QED
    BY <2>1, <2>2, LinkedFrame DEF LinkedSomehow
<1> QED
  BY <1>4, <1>6, <1>7 DEF Kept, Sound

\* What sf_realloc leaves of the s words asked for in the block at c, which were at h.
Carried(H, h, n, G, c, s) ==
  \A j \in Nat : 1 <= j /\ j <= s /\ j <= n - 2 => Word(G, c + j) = Word(H, h + j)

\* What sf_realloc(h + 1, s) promises, for a block at h.
Moves(H, B, F, sz, h, r, s) ==
  /\ r.abort = FALSE
  /\ \E B2, F2, sz2 :
       /\ Kept(H, B, F, sz, {h}, r.heap, B2, F2, sz2)
       /\ s > 0 /\ r.ptr = Null => Kept(H, B, F, sz, {}, r.heap, B2, F2, sz2)
       /\ s > 0 /\ r.ptr # Null =>
            /\ r.ptr - 1 \in B2 /\ r.ptr - 1 \notin F2 /\ s + 2 <= sz2[r.ptr - 1]
            /\ r.ptr - 1 \in B => r.ptr - 1 = h \/ r.ptr - 1 \in F
            /\ Carried(H, h, sz[h], r.heap, r.ptr - 1, s)


\* The footer of a block notes another request, which has no padding only if it fits.
LEMMA ShrunkInPlace ==
  ASSUME NEW H, NEW B, NEW F, NEW sz, Sound(H, B, F, sz), NEW h \in B, h \notin F,
         NEW s \in Extent, NEW f, f = h + sz[h] - 1, NEW v \in Tags, v = TagAt(H, f),
         s + 2 = sz[h] \/ v.padded = 1, NEW w, w = [v EXCEPT !.req = s],
         NEW G, G = Set(H, f, w)
  PROVE  Kept(H, B, F, sz, {h}, G, B, F, sz) /\ Alike(H, G, {f})
<1>1. /\ HeapType(H) /\ ~H.lost /\ F \in SUBSET B /\ Tile(B, sz, Len(H.mem))
      /\ Paved(H, B, F, sz, {h}) /\ IsBlock(H, h, 1, sz[h])
  BY SoundIs DEF Kind
<1>2. /\ f \in DOMAIN H.mem /\ f \in Span(h, sz[h]) /\ f # h /\ f \notin Links(F)
  <2>1. f # h /\ f \notin Links(F)
    BY BlockEnds
  <2> QED
    BY <1>1, <2>1, SpanIn
<1>3. w \in Tags /\ w.alloc = v.alloc /\ w.padded = v.padded /\ w.size = v.size /\ w.req = s
  BY TagWith DEF Tags
<1>4. TagSet(H, G, f, w)
  <2>1. Alike(H, H, {})
    BY <1>1, AlikeSelf
  <2> QED
    BY <1>2, <1>3, <2>1, TagAfter
<1>5. /\ \A b \in B : b # h => IsBlock(G, b, Kind(F, b), sz[b])
      /\ Keep(H, B, F, sz, {h}, G)
  <2>1. Alike(H, G, Wide(F, sz, {h}))
    BY <1>2, <1>4 DEF Alike, Wide, TagSet
  <2> QED
    BY <1>1, <2>1, PavedFrame
<1>6. IsBlock(G, h, 1, sz[h])
  <2>1. TagAt(G, h) = TagAt(H, h) /\ TagAt(G, h + sz[h] - 1) = w /\ w # NoTag
    BY <1>2, <1>4, AlikeReads DEF TagSet
  <2>2. v.padded = TagAt(H, h).padded /\ v.alloc = 1 /\ v.size = sz[h]
    BY <1>1 DEF IsBlock
  <2>3. w.req + 2 = sz[h] \/ TagAt(H, h).padded = 1
    BY <1>3, <2>2
  <2>4. TagAt(H, h) # NoTag /\ TagAt(H, h).alloc = 1 /\ TagAt(H, h).size = sz[h]
    BY <1>1 DEF IsBlock
  <2>5. w.alloc = 1 /\ w.size = sz[h] /\ w.padded = TagAt(H, h).padded
    BY <1>3, <2>2
  <2>6. 1 # 0
    OBVIOUS
  <2> QED
    BY <2>1, <2>3, <2>4, <2>5, <2>6, Zenon DEF IsBlock
<1>7. Paved(G, B, F, sz, {})
  BY <1>1, <1>4, <1>5, <1>6 DEF Paved, Alike, TagSet, Kind
<1>8. LinkedSomehow(G, F, ClassFn(sz))
  <2>1. PICK rk : Linked(H, F, ClassFn(sz), rk)
    BY DEF Sound, LinkedSomehow
  <2>2. {f} \cap Links(F) = {}
    BY <1>2
  <2> QED
    BY <1>4, <2>1, <2>2, LinkedFrame DEF LinkedSomehow, TagSet
<1> QED
  BY <1>4, <1>5, <1>7, <1>8 DEF Kept, Sound, TagSet

\* A block of m words at h is one of n words and one of rest words, at e .. f.
CutAt(h, m, n, rest, e, f) ==
  /\ n \in Nat /\ n >= 4 /\ rest \in Nat /\ rest >= 4
  /\ m = n + rest /\ e = h + n /\ f = e + rest - 1

LEMMA CutEnds ==
  ASSUME NEW h \in Int, NEW m, NEW n, NEW rest, NEW e, NEW f, CutAt(h, m, n, rest, e, f)
  PROVE  /\ e \in Int /\ f \in Int /\ e - 1 \in Int /\ e - 1 = h + n - 1 /\ f = h + m - 1
         /\ e # h /\ h # e - 1 /\ h # f /\ e # f /\ e - 1 # f /\ e - 1 # e
         /\ {h, e - 1, e, f} \subseteq Span(h, m) /\ m - n = rest
         /\ \A j \in Nat : 1 <= j /\ j <= n - 2 => h + j \notin {h, e - 1, e, f}
         /\ Span(h, n) \subseteq Span(h, m)
<1>1. /\ n \in Int /\ rest \in Int /\ n >= 4 /\ rest >= 4
      /\ m = n + rest /\ e = h + n /\ f = e + rest - 1 /\ e \in Int /\ f \in Int /\ m \in Int
  BY DEF CutAt
<1>2. e - 1 \in Int /\ e - 1 = h + n - 1 /\ f = h + m - 1 /\ m - n = rest
  BY <1>1
<1>3. e # h /\ h # e - 1 /\ h # f /\ e # f /\ e - 1 # f /\ e - 1 # e
  BY <1>1
<1>4. {h, e - 1, e, f} \subseteq Span(h, m) /\ Span(h, n) \subseteq Span(h, m)
  BY <1>1 DEF Span
<1>5. \A j \in Nat : 1 <= j /\ j <= n - 2 => h + j \notin {h, e - 1, e, f}
  BY <1>1
<1> QED
  BY <1>1, <1>2, <1>3, <1>4, <1>5

LEMMA CutTile ==
  ASSUME NEW B, NEW sz, NEW N, Tile(B, sz, N), NEW h \in B, NEW n, NEW rest, NEW e, NEW f,
         CutAt(h, sz[h], n, rest, e, f)
  PROVE  e \notin B /\ Tile(B \cup {e}, [sz EXCEPT ![h] = n, ![e] = rest], N)
<1>1. n \in Nat /\ n >= 4 /\ rest \in Nat /\ rest >= 4 /\ sz[h] = n + rest /\ e = h + n
  BY DEF CutAt
<1> QED
  BY <1>1, SplitTile

\* The tags that divide an allocated block into two.
Cut(H, h, rest, e, f, req, s, K) ==
  K = Set(Set(Alloc(H, h, s), e, Tag(1, 1, rest, 0)), f, Tag(1, 1, rest, req))

\* The block is divided into a smaller one and one behind it, both allocated.
LEMMA CutSound ==
  ASSUME NEW H, NEW B, NEW F, NEW sz, Sound(H, B, F, sz), NEW h \in B, h \notin F,
         NEW s \in Nat, s > 0, s + 2 <= 4 * PAGE_SZ, NEW n, n = Need(s),
         NEW rest \in Evens, NEW e, NEW f, CutAt(h, sz[h], n, rest, e, f), NEW req \in Extent,
         NEW K, Cut(H, h, rest, e, f, req, s, K)
  PROVE  /\ Sound(K, B \cup {e}, F, SplitSize(sz, h, n)) /\ e \notin B
         /\ Alike(H, K, {h, e - 1, e, f}) /\ Keep(H, B, F, sz, {h}, K)
<1> DEFINE H1 == Alloc(H, h, s)
           x == Tag(1, 1, rest, 0)
           y == Tag(1, 1, rest, req)
           H2 == Set(H1, e, x)
           sz2 == SplitSize(sz, h, n)
           B2 == B \cup {e}
<1>1. /\ HeapType(H) /\ ~H.lost /\ F \in SUBSET B /\ Tile(B, sz, Len(H.mem))
      /\ Paved(H, B, F, sz, {h}) /\ h \in Int
  BY SoundIs
<1>2. n \in Nat /\ n >= 4 /\ rest \in Nat /\ rest >= 4 /\ sz[h] = n + rest /\ e = h + n
      /\ f = e + rest - 1
  BY DEF CutAt
<1>3. e \notin B /\ e # h /\ e \in Int /\ Tile(B2, sz2, Len(H.mem))
  <2>1. sz[h] - n = rest
    BY <1>1, CutEnds
  <2>2. sz2 = [sz EXCEPT ![h] = n, ![e] = rest]
    BY <1>2, <2>1, Zenon DEF SplitSize
  <2> HIDE DEF sz2
  <2>4. e \notin B /\ e # h /\ e \in Int /\ Tile(B \cup {e}, [sz EXCEPT ![h] = n, ![e] = rest], Len(H.mem))
    BY <1>1, CutTile, CutEnds
  <2> QED
    BY <2>2, <2>4
<1>4. sz2[h] = n /\ sz2[e] = rest /\ \A b \in B : b # h => sz2[b] = sz[b]
  <2>1. sz \in [Int -> Nat] /\ B \subseteq Int
    BY <1>1 DEF Tile
  <2>2. sz[h] - n = rest
    BY <1>1, CutEnds
  <2> QED
    BY <1>1, <1>2, <1>3, <2>1, <2>2 DEF SplitSize
<1>5. f \in Int /\ e - 1 = h + n - 1 /\ f = h + sz[h] - 1 /\ e - 1 \in Int
  BY <1>1, CutEnds
<1>6. /\ h \in DOMAIN H.mem /\ e - 1 \in DOMAIN H.mem /\ e \in DOMAIN H.mem /\ f \in DOMAIN H.mem
  <2>1. h \in B2 /\ e \in B2
    OBVIOUS
  <2> HIDE DEF B2, sz2
  <2>2. h \in DOMAIN H.mem /\ h + sz2[h] - 1 \in DOMAIN H.mem
    BY <1>1, <1>3, <2>1, SpanIn
  <2>3. e \in DOMAIN H.mem /\ e + sz2[e] - 1 \in DOMAIN H.mem
    BY <1>1, <1>3, <2>1, SpanIn
  <2> QED
    BY <1>2, <1>4, <1>5, <2>2, <2>3
<1>7. h # e - 1 /\ h # f /\ e # f /\ e - 1 # f /\ e - 1 # e
  BY <1>1, CutEnds
<1>8. Alike(H, H1, {h, e - 1}) /\ H1.heads = H.heads /\ IsBlock(H1, h, 1, n)
  <2>1. h + Need(s) - 1 \in DOMAIN H.mem /\ h + Need(s) - 1 = e - 1
    BY <1>5, <1>6
  <2> HIDE DEF H1
  <2> QED
    BY <1>1, <1>6, <2>1, AllocReads DEF H1
<1> HIDE DEF H1
<1>9. TagSet(H1, H2, e, x)
  <2>1. x \in Tags
    <3>1. 0 \in Extent
      BY Page DEF Extent
    <3> QED
      BY <3>1 DEF Tags, Tag
  <2> HIDE DEF x
  <2> QED
    BY <1>6, <1>8, <2>1, TagAfter
<1>10. TagSet(H2, K, f, y)
  <2>1. y \in Tags
    BY DEF Tags, Tag
  <2>2. K = Set(H2, f, y)
    BY Zenon DEF Cut, H2, H1, x, y
  <2>3. Alike(H1, H2, {e}) /\ f \in DOMAIN H1.mem
    BY <1>6, <1>8, <1>9 DEF TagSet, Alike
  <2> HIDE DEF H2, y
  <2> QED
    BY <2>1, <2>2, <2>3, TagAfter
<1>11. x.alloc = 1 /\ x.padded = 1 /\ x.size = rest /\ y.alloc = 1 /\ y.padded = 1 /\ y.size = rest
  BY DEF Tag
<1> HIDE DEF H2, x, y
<1>12. Alike(H, K, {h, e - 1, e, f}) /\ K.heads = H.heads
  <2>1. Alike(H, H2, {h, e - 1, e, f})
    BY <1>8, <1>9, AlikeTrans DEF TagSet
  <2>2. Alike(H, K, {h, e - 1, e, f})
    BY <1>10, <2>1, AlikeTrans DEF TagSet
  <2> QED
    BY <1>8, <1>9, <1>10, <2>2 DEF TagSet
<1>13. IsBlock(K, h, 1, n)
  <2>1. IsBlock(H2, h, 1, n)
    BY <1>3, <1>5, <1>7, <1>8, <1>9, BlockFrame DEF TagSet
  <2> QED
    BY <1>5, <1>7, <1>10, <2>1, BlockFrame DEF TagSet
<1>14. IsBlock(K, e, 1, rest)
  <2>1. TagAt(K, e) = x /\ x # NoTag
    BY <1>7, <1>9, <1>10, AlikeReads DEF TagSet
  <2>2. TagAt(K, e + rest - 1) = y /\ y # NoTag
    BY <1>2, <1>10 DEF TagSet
  <2> QED
    BY <1>11, <2>1, <2>2 DEF IsBlock
<1>15. h \in Span(h, sz[h]) /\ e - 1 \in Span(h, sz[h]) /\ e \in Span(h, sz[h]) /\ f \in Span(h, sz[h])
  <2>1. {h, e - 1, e, f} \subseteq Span(h, sz[h])
    BY <1>1, CutEnds
  <2> QED
    BY <2>1
<1>16. /\ \A b \in B : b # h => IsBlock(K, b, Kind(F, b), sz[b])
       /\ Keep(H, B, F, sz, {h}, K)
  <2>1. Alike(H, K, Wide(F, sz, {h}))
    BY <1>12, <1>15 DEF Alike, Wide
  <2> QED
    BY <1>1, <2>1, PavedFrame
<1>17. Paved(K, B2, F, sz2, {})
  <2>1. ASSUME NEW b \in B2 PROVE IsBlock(K, b, Kind(F, b), sz2[b])
    <3>1. CASE b = h
      BY <1>4, <1>13, <3>1 DEF Kind
    <3>2. CASE b = e
      BY <1>1, <1>3, <1>4, <1>14, <3>2 DEF Kind
    <3>3. CASE b # h /\ b # e
      BY <1>4, <1>16, <3>3
    <3> QED
      BY <3>1, <3>2, <3>3
  <2> HIDE DEF sz2
  <2> QED
    BY <1>1, <1>3, <1>12, <2>1 DEF Paved, Alike
<1>18. LinkedSomehow(K, F, ClassFn(sz2))
  <2>1. PICK rk : Linked(H, F, ClassFn(sz), rk)
    BY DEF Sound, LinkedSomehow
  <2>2. {h, e - 1, e, f} \cap Links(F) = {}
    <3>1. Span(h, sz[h]) \cap Wide(F, sz, {}) = {}
      BY <1>1, TagsApart
    <3> QED
      BY <1>15, <3>1 DEF Wide
  <2>3. Linked(K, F, ClassFn(sz), rk)
    BY <1>12, <2>1, <2>2, LinkedFrame
  <2>4. LinksRead(K, K, F)
    BY <2>3, MemType DEF LinksRead, Linked
  <2>5. ClassFn(sz2) \in [Int -> Lists] /\ \A b \in F : ClassFn(sz2)[b] = ClassFn(sz)[b]
    <3>1. \A b \in F : b \in Int /\ sz2[b] = sz[b]
      BY <1>1, <1>4 DEF Tile
    <3> HIDE DEF sz2
    <3> QED
      BY <3>1, ClassFnIs
  <2> HIDE DEF sz2
  <2> QED
    BY <2>3, <2>4, <2>5, LinkedSame DEF LinkedSomehow
<1> QED
  BY <1>3, <1>12, <1>16, <1>17, <1>18 DEF Sound

\* The block at h is still there, with room for s words and those it had.
Stays(H, sz, h, G, B2, F2, sz2, s) ==
  h \in B2 /\ h \notin F2 /\ s + 2 <= sz2[h] /\ Carried(H, h, sz[h], G, h, s)

LEMMA CutFreed ==
  ASSUME NEW H, NEW B, NEW F, NEW sz, Sound(H, B, F, sz), NEW h \in B, h \notin F,
         NEW s \in Nat, s > 0, s + 2 <= 4 * PAGE_SZ, NEW n, n = Need(s),
         NEW rest \in Evens, NEW e, NEW f, CutAt(h, sz[h], n, rest, e, f), NEW req \in Extent,
         NEW K, Cut(H, h, rest, e, f, req, s, K), NEW t, t = sf_free(K, e + 1), t.safe
  PROVE  t.abort = FALSE /\ \E B2, F2, sz2 : Kept(H, B, F, sz, {h}, t.heap, B2, F2, sz2)
                                            /\ Stays(H, sz, h, t.heap, B2, F2, sz2, s)
<1> DEFINE B1 == B \cup {e}
           sz1 == SplitSize(sz, h, n)
           G == t.heap
<1>1. /\ Sound(K, B1, F, sz1) /\ e \notin B
      /\ Alike(H, K, {h, e - 1, e, f}) /\ Keep(H, B, F, sz, {h}, K)
  BY CutSound, ZenonT(30)
<1>2. F \in SUBSET B /\ Tile(B, sz, Len(H.mem)) /\ h \in Int
  BY SoundIs
<1>3. e \in B1 /\ e \notin F /\ e # h
  BY <1>1, <1>2
<1>4. sz1[h] = n /\ sz1[e] = rest /\ \A c \in B : c # h => sz1[c] = sz[c]
  <2>1. sz \in [Int -> Nat] /\ B \subseteq Int
    BY <1>2 DEF Tile
  <2>2. sz[h] - n = rest /\ e = h + n /\ e \in Int
    <3>1. e = h + n
      BY DEF CutAt
    <3> QED
      BY <1>2, <3>1, CutEnds
  <2> QED
    BY <1>1, <1>2, <1>3, <2>1, <2>2 DEF SplitSize
<1> HIDE DEF B1, sz1
<1>5. PICK B2, F2, sz2 : t.abort = FALSE /\ Kept(K, B1, F, sz1, {e}, G, B2, F2, sz2)
  BY <1>1, <1>3, FreeServes
<1> HIDE DEF G
<1>6. ASSUME NEW c \in B, c \notin F, c # h
      PROVE  /\ c \in B2 /\ c \notin F2 /\ sz2[c] = sz[c]
             /\ \A a \in Span(c, sz[c]) : Word(G, a) = Word(H, a)
  <2>1. c \in B1 /\ c # e /\ sz1[c] = sz[c]
    BY <1>1, <1>4, <1>6 DEF B1
  <2>2. \A a \in Span(c, sz[c]) : Word(G, a) = Word(K, a)
    BY <1>5, <1>6, <2>1 DEF Kept, Keep
  <2>3. \A a \in Span(c, sz[c]) : Word(K, a) = Word(H, a)
    BY <1>1, <1>6 DEF Keep
  <2>4. c \in B2 /\ c \notin F2 /\ sz2[c] = sz1[c]
    BY <1>5, <1>6, <2>1 DEF Kept
  <2> QED
    BY <2>1, <2>2, <2>3, <2>4
<1>7. Kept(H, B, F, sz, {h}, G, B2, F2, sz2)
  BY <1>5, <1>6 DEF Kept, Keep
<1>8. /\ h \in B2 /\ h \notin F2 /\ sz2[h] = n
      /\ \A a \in Span(h, n) : Word(G, a) = Word(K, a)
  <2>1. h \in B1 /\ h \notin F /\ h # e
    BY <1>3 DEF B1
  <2> QED
    BY <1>4, <1>5, <2>1 DEF Kept, Keep
<1>9. n \in Nat /\ n >= s + 2
  BY NeedIs
<1>10. Carried(H, h, sz[h], G, h, s)
  <2> SUFFICES ASSUME NEW j \in Nat, 1 <= j, j <= s PROVE Word(G, h + j) = Word(H, h + j)
    BY DEF Carried
  <2>1. j <= n - 2
    BY <1>9
  <2>2. h + j \in Span(h, n)
    BY <1>2, <1>9, <2>1 DEF Span
  <2>3. h + j \notin {h, e - 1, e, f}
    BY <1>2, <2>1, CutEnds
  <2>4. Word(K, h + j) = Word(H, h + j)
    BY <1>1, <2>3, AlikeReads
  <2> QED
    BY <1>8, <2>2, <2>4
<1>11. Stays(H, sz, h, G, B2, F2, sz2, s)
  BY <1>8, <1>9, <1>10 DEF Stays
<1> QED
  BY <1>5, <1>7, <1>11 DEF G

LEMMA CutFits ==
  ASSUME NEW m \in Evens, NEW s \in Nat, s > 0, m - 2 - s >= 4, NEW h \in Int, NEW n, n = Need(s),
         NEW rest, rest = m - n, NEW e, e = h + n, NEW f, f = h + m - 1
  PROVE  rest \in Evens /\ CutAt(h, m, n, rest, e, f)
<1>1. PICK k \in Nat : m = 2 * k /\ m \in Nat
  BY EvensAre
<1>2. PICK j \in Nat : n = 2 * j /\ n \in Nat /\ n >= 4 /\ n <= s + 3
  BY NeedIs
<1>3. rest >= 4
  BY <1>1, <1>2
<1>4. rest \in Evens
  BY <1>2, <1>3, EvenLeft
<1>5. rest \in Nat /\ m = n + rest /\ f = e + rest - 1
  BY <1>1, <1>2, <1>3
<1> QED
  BY <1>2, <1>3, <1>4, <1>5 DEF CutAt

LEMMA SmallerMoves ==
  ASSUME NEW H, NEW B, NEW F, NEW sz, Sound(H, B, F, sz), NEW h \in B, h \notin F,
         NEW s \in Nat, s > 0, s <= sz[h] - 2, NEW p, p = h + 1,
         NEW r, r = Smaller(H, p, s), r.safe
  PROVE  Moves(H, B, F, sz, h, r, s)
<1> DEFINE g == p - 1
           m == SizeAt(H, g)
           f == g + m - 1
           e == g + Need(s)
           rest == m - Need(s)
           v == TagAt(H, f)
           K == Set(Set(Alloc(H, g, s), e, Tag(1, 1, rest, 0)), f, Tag(1, 1, rest, v.req))
           kept == Set(H, f, [v EXCEPT !.req = s])
<1>1. r = IF m - 2 - s >= LIST_1_MIN THEN [sf_free(K, e + 1) EXCEPT !.ptr = p]
          ELSE Granted(kept, g, s + 2 = m \/ v.padded = 1)
  BY Zenon DEF Smaller, g, m, f, e, rest, v, K, kept
<1>2. h \in Int /\ sz[h] \in Evens /\ sz[h] \in Nat /\ sz[h] <= 4 * PAGE_SZ /\ SizeAt(H, h) = sz[h]
  BY SoundIs, EvensAre
<1>3. g = h /\ p # Null /\ p - 1 = h
  <2>1. h >= 1
    BY BlockEnds
  <2> QED
    BY <1>2, <2>1 DEF Null
<1>4. m = sz[h]
  BY <1>2, <1>3
<1> HIDE DEF g, m
<1>5. f = h + sz[h] - 1 /\ e = h + Need(s) /\ rest = sz[h] - Need(s)
  BY <1>3, <1>4
<1> HIDE DEF f, e, rest
<1>6. v \in Tags
  BY <1>5, BlockEnds
<1>7. s + 2 <= 4 * PAGE_SZ /\ s \in Extent
  BY <1>2, Page DEF Extent
<1> HIDE DEF v
<1>8. CASE sz[h] - 2 - s >= 4
  <2> DEFINE t == sf_free(K, e + 1)
  <2>1. r = [t EXCEPT !.ptr = p]
    <3> HIDE DEF K
    <3> QED
      BY <1>1, <1>4, <1>8 DEF LIST_1_MIN
  <2>2. rest \in Evens /\ CutAt(h, sz[h], Need(s), rest, e, f)
    BY <1>2, <1>5, <1>8, CutFits
  <2>3. v.req \in Extent
    BY <1>6 DEF Tags
  <2>4. Cut(H, h, rest, e, f, v.req, s, K)
    BY <1>3 DEF Cut
  <2> HIDE DEF K
  <2>5. t = [heap |-> t.heap, ptr |-> t.ptr, errno |-> t.errno, abort |-> t.abort, safe |-> t.safe]
    <3>1. HeapType(K)
      <4>1. Alike(H, K, {h, e - 1, e, f})
        BY <1>7, <2>2, <2>3, <2>4, CutSound, ZenonT(30)
      <4> QED
        BY <4>1 DEF Alike
    <3>2. e + 1 \in Int
      BY <1>2, <2>2, CutEnds
    <3>3. ResultType(t)
      BY <3>1, <3>2, FreeType
    <3> HIDE DEF t
    <3> QED
      BY <3>3 DEF ResultType
  <2>6. r.heap = t.heap /\ r.ptr = p /\ r.abort = t.abort /\ r.safe = t.safe
    <3> HIDE DEF t
    <3> QED
      BY <2>1, <2>5
  <2>7. t.safe
    BY <2>6
  <2>8. t.abort = FALSE /\ \E B2, F2, sz2 : Kept(H, B, F, sz, {h}, t.heap, B2, F2, sz2)
                                            /\ Stays(H, sz, h, t.heap, B2, F2, sz2, s)
    BY <1>7, <2>2, <2>3, <2>4, <2>7, CutFreed
  <2> HIDE DEF t
  <2> QED
    BY <1>3, <2>6, <2>8 DEF Moves, Stays
<1>9. CASE ~(sz[h] - 2 - s >= 4)
  <2> DEFINE safe == s + 2 = m \/ v.padded = 1
  <2>1. r = Granted(kept, g, safe)
    <3> HIDE DEF kept, safe
    <3>1. ~(m - 2 - s >= LIST_1_MIN)
      BY <1>4, <1>9 DEF LIST_1_MIN
    <3> QED
      BY <1>1, <3>1 DEF safe
  <2>2. r.safe = safe /\ r.abort = FALSE /\ r.heap = (IF kept.lost THEN LostHeap ELSE kept)
        /\ (~kept.lost => r.ptr = g + 1)
    <3> HIDE DEF kept, safe
    <3> QED
      BY <2>1 DEF Granted, Result
  <2>3. Kept(H, B, F, sz, {h}, kept, B, F, sz) /\ Alike(H, kept, {f})
    <3>1. s + 2 = sz[h] \/ v.padded = 1
      BY <1>4, <2>2
    <3> QED
      BY <1>5, <1>6, <1>7, <3>1, ShrunkInPlace, ZenonT(30) DEF v, kept
  <2>4. ~kept.lost
    BY <2>3 DEF Alike
  <2> HIDE DEF kept
  <2>5. r.heap = kept /\ r.ptr = p
    BY <1>3, <2>2, <2>4
  <2>6. Stays(H, sz, h, kept, B, F, sz, s)
    <3>1. ASSUME NEW j \in Nat, 1 <= j, j <= sz[h] - 2 PROVE h + j # f
      BY <1>2, <1>5, <3>1
    <3>2. Carried(H, h, sz[h], kept, h, s)
      BY <2>3, <3>1, AlikeReads DEF Carried
    <3> QED
      BY <1>2, <3>2 DEF Stays
  <2> QED
    BY <1>3, <2>2, <2>3, <2>5, <2>6 DEF Moves, Stays
<1> QED
  BY <1>8, <1>9

LEMMA KeptThen ==
  ASSUME NEW H, NEW B, NEW F, NEW sz, NEW X, NEW G, NEW B1, NEW F1, NEW sz1,
         Kept(H, B, F, sz, X, G, B1, F1, sz1),
         NEW Y, NEW K, NEW B2, NEW F2, NEW sz2, Kept(G, B1, F1, sz1, Y, K, B2, F2, sz2),
         NEW Z, \A c \in B : c \notin F /\ c \notin Z => c \notin X /\ c \notin Y
  PROVE  Kept(H, B, F, sz, Z, K, B2, F2, sz2)
<1>1. ASSUME NEW c \in B, c \notin F, c \notin Z
      PROVE  /\ c \in B2 /\ c \notin F2 /\ sz2[c] = sz[c]
             /\ \A a \in Span(c, sz[c]) : Word(K, a) = Word(H, a)
  <2>1. /\ c \in B1 /\ c \notin F1 /\ sz1[c] = sz[c]
        /\ \A a \in Span(c, sz[c]) : Word(G, a) = Word(H, a)
    BY <1>1 DEF Kept, Keep
  <2>2. /\ c \in B2 /\ c \notin F2 /\ sz2[c] = sz1[c]
        /\ \A a \in Span(c, sz1[c]) : Word(K, a) = Word(G, a)
    BY <1>1, <2>1 DEF Kept, Keep
  <2> QED
    BY <2>1, <2>2
<1> QED
  BY <1>1 DEF Kept, Keep

\* Words of the heap are replaced.
Replaced(H, A, m, G) ==
  /\ m \in [DOMAIN H.mem -> Cells]
  /\ \A a \in DOMAIN H.mem : a \notin A => m[a] = H.mem[a]
  /\ G = [H EXCEPT !.mem = m]

LEMMA WordsReplaced ==
  ASSUME NEW H, HeapType(H), ~H.lost, NEW A, NEW m, NEW G, Replaced(H, A, m, G)
  PROVE  /\ Alike(H, G, A) /\ G.heads = H.heads
         /\ \A a \in DOMAIN H.mem : Word(G, a) = m[a]
<1>1. Len(H.mem) \in Nat /\ DOMAIN H.mem = 1 .. Len(H.mem)
  BY MemType
<1>2. m \in Seq(Cells) /\ Len(m) = Len(H.mem) /\ DOMAIN m = DOMAIN H.mem
      /\ \A a \in DOMAIN H.mem : a \notin A => m[a] = H.mem[a]
  BY <1>1 DEF Replaced
<1>3. /\ G.mem = m /\ G.heads = H.heads /\ G.fresh = H.fresh /\ G.lost = H.lost
      /\ G \in [mem : Seq(Cells), heads : [Lists -> Int], fresh : {Zero, Data(NoUser)},
                lost : BOOLEAN]
  BY <1>2 DEF HeapType, Replaced
<1>4. HeapType(G)
  BY <1>2, <1>3 DEF HeapType
<1> QED
  BY <1>2, <1>3, <1>4 DEF Alike, Word

\* memcpy writes the words it is told to.
Copied(H, h, c, n, G) == G = Copy(H, h + 1, c + 1, n)
Fits(H, c, n) == c >= 1 /\ c + n <= Len(H.mem)
CopyDone(H, h, c, n, G) ==
  /\ Alike(H, G, c + 1 .. c + n) /\ G.heads = H.heads
  /\ \A j \in Nat : 1 <= j /\ j <= n => Word(G, c + j) = Word(H, h + j)

LEMMA CopyReads ==
  ASSUME NEW H, HeapType(H), ~H.lost, NEW h, h \in Int, NEW c, c \in Int, NEW n, n \in Nat,
         Fits(H, c, n), NEW G, Copied(H, h, c, n, G)
  PROVE  CopyDone(H, h, c, n, G)
<1> DEFINE from == h + 1
           to == c + 1
           m == [a \in DOMAIN H.mem |-> IF a \in to .. to + n - 1 THEN Word(H, from + a - to) ELSE H.mem[a]]
<1>1. Len(H.mem) \in Nat /\ DOMAIN H.mem = 1 .. Len(H.mem) /\ c >= 1 /\ c + n <= Len(H.mem)
  BY MemType DEF Fits
<1>2. to + n - 1 = c + n
  OBVIOUS
<1>3. Copy(H, from, to, n) = IF n < 0 \/ to + n - 1 > Len(H.mem) THEN LostHeap
                             ELSE [H EXCEPT !.mem = m]
  BY Zenon DEF Copy, m
<1>4. m \in [DOMAIN H.mem -> Cells]
  <2>1. \A a : Word(H, a) \in Cells
    BY WordType
  <2>2. \A a \in DOMAIN H.mem : H.mem[a] \in Cells
    BY MemType
  <2> QED
    BY <2>1, <2>2
<1>5. \A a \in DOMAIN H.mem : a \notin c + 1 .. c + n => m[a] = H.mem[a]
  BY <1>2
<1>6. ASSUME NEW j \in Nat, 1 <= j, j <= n
      PROVE  c + j \in DOMAIN H.mem /\ m[c + j] = Word(H, h + j)
  <2>1. c + j \in DOMAIN H.mem /\ c + j \in to .. to + n - 1 /\ from + (c + j) - to = h + j
    BY <1>1, <1>6
  <2> HIDE DEF from, to
  <2> QED
    BY <2>1
<1> HIDE DEF m
<1>7. G = [H EXCEPT !.mem = m]
  BY <1>1, <1>2, <1>3 DEF Copied
<1>8. Replaced(H, c + 1 .. c + n, m, G)
  BY <1>4, <1>5, <1>7 DEF Replaced
<1>9. /\ Alike(H, G, c + 1 .. c + n) /\ G.heads = H.heads
      /\ \A a \in DOMAIN H.mem : Word(G, a) = m[a]
  BY <1>8, WordsReplaced
<1> QED
  BY <1>6, <1>9, Zenon DEF CopyDone

\* The words of the block at h are copied into the larger block at c, then h is freed.
Frees(H, h, t) == t = sf_free(H, h + 1) /\ t.safe
Outgrown(sz, h, c, s, m) == s + 2 <= sz[c] /\ s > m /\ m = sz[h] - 2

LEMMA Within ==
  ASSUME NEW c \in Int, NEW m \in Nat, NEW k \in Nat, NEW n \in Nat, m <= k - 2, c + k - 1 \in 1 .. n
  PROVE  c + m <= n
OBVIOUS
LEMMA CopiedFreed ==
  ASSUME NEW H, NEW B, NEW F, NEW sz, Sound(H, B, F, sz), NEW h \in B, h \notin F,
         NEW c \in B, c \notin F, c # h, NEW s \in Nat, NEW m, m \in Nat, Outgrown(sz, h, c, s, m),
         NEW N, Copied(H, h, c, m, N), NEW t, Frees(N, h, t)
  PROVE  t.abort = FALSE /\ \E B2, F2, sz2 :
           /\ Kept(H, B, F, sz, {h, c}, t.heap, B2, F2, sz2)
           /\ c \in B2 /\ c \notin F2 /\ sz2[c] = sz[c]
           /\ Carried(H, h, sz[h], t.heap, c, s)
<1>1. HeapType(H) /\ ~H.lost /\ Tile(B, sz, Len(H.mem)) /\ h \in Int /\ c \in Int
  BY SoundIs
<1>3. PICK k \in Nat : k = sz[c] /\ c >= 1 /\ k >= 4
  BY <1>1, TileIs
<1>4. m <= k - 2
  BY <1>3 DEF Outgrown
<1>5. Fits(H, c, m)
  <2>1. c + sz[c] - 1 \in DOMAIN H.mem
    BY <1>1, SpanIn
  <2>2. c + k - 1 \in 1 .. Len(H.mem) /\ Len(H.mem) \in Nat
    BY <1>1, <1>3, <2>1, MemType
  <2> QED
    BY <1>1, <1>3, <1>4, <2>2, Within DEF Fits
<1>7. /\ Alike(H, N, c + 1 .. c + m) /\ N.heads = H.heads
      /\ \A j \in Nat : 1 <= j /\ j <= m => Word(N, c + j) = Word(H, h + j)
  <2>1. CopyDone(H, h, c, m, N)
    BY <1>1, <1>5, CopyReads
  <2> QED
    BY <2>1, Zenon DEF CopyDone
<1>8. Kept(H, B, F, sz, {c}, N, B, F, sz)
  <2>1. c + 1 .. c + m \subseteq Inside(c, sz[c])
    BY <1>1, <1>3, <1>4 DEF Inside
  <2> QED
    BY <1>7, <2>1, InsideFrame
<1>9. Sound(N, B, F, sz)
  BY <1>8 DEF Kept
<1>10. PICK B2, F2, sz2 : t.abort = FALSE /\ Kept(N, B, F, sz, {h}, t.heap, B2, F2, sz2)
  BY <1>9, FreeServes DEF Frees
<1>11. Kept(H, B, F, sz, {h, c}, t.heap, B2, F2, sz2)
  BY <1>8, <1>10, KeptThen
<1>12. /\ c \in B2 /\ c \notin F2 /\ sz2[c] = sz[c]
       /\ \A a \in Span(c, sz[c]) : Word(t.heap, a) = Word(N, a)
  BY <1>10 DEF Kept, Keep
<1>13. Carried(H, h, sz[h], t.heap, c, s)
  <2> SUFFICES ASSUME NEW j \in Nat, 1 <= j, j <= m PROVE Word(t.heap, c + j) = Word(H, h + j)
    BY DEF Carried, Outgrown
  <2>1. c + j \in c .. c + k - 1
    BY <1>1, <1>3, <1>4
  <2>2. c + j \in Span(c, sz[c])
    BY <1>3, <2>1 DEF Span
  <2> QED
    BY <1>7, <1>12, <2>2
<1> QED
  BY <1>10, <1>11, <1>12, <1>13

LEMMA LargerMoves ==
  ASSUME NEW H, NEW B, NEW F, NEW sz, Sound(H, B, F, sz), NEW h \in B, h \notin F,
         NEW s \in Nat, s > sz[h] - 2, NEW p, p = h + 1, NEW r, r = Larger(H, p, s), r.safe
  PROVE  Moves(H, B, F, sz, h, r, s)
<1> DEFINE m == sf_malloc(H, s)
           M == m.heap
           N == CopyTo(m, M, p)
           t == sf_free(N, p)
<1>1. r = IF m.ptr = Null THEN m ELSE After(m, t)
  BY Zenon DEF Larger, Move, m, M, N, t
<1>2. HeapType(H) /\ ~H.lost /\ Tile(B, sz, Len(H.mem)) /\ h \in Int /\ p - 1 = h /\ p \in Int
  BY SoundIs
<1>3. ResultType(m)
  BY <1>2, MallocType
<1>4. HeapType(M)
  BY <1>3 DEF ResultType
<1> HIDE DEF m
<1>5. ResultType(t)
  <2>1. HeapType(N)
    <3>1. m.ptr \in Int
      BY <1>3, AddressInt DEF ResultType
    <3>2. SizeAt(m.heap, p - 1) - 2 \in Int
      BY <1>4, WordType
    <3>3. \A n \in Int : Onto(M, Copy(M, p, m.ptr, n))
      <4> HIDE DEF M
      <4> QED
        BY <1>2, <1>4, <3>1, CopyOnto
    <3> QED
      BY <3>2, <3>3 DEF CopyTo, Onto
  <2> QED
    BY <1>2, <2>1, FreeType
<1> HIDE DEF M, N, t
<1>6. m.safe /\ (m.ptr # Null => t.safe)
  <2>1. t = [heap |-> t.heap, ptr |-> t.ptr, errno |-> t.errno, abort |-> t.abort, safe |-> t.safe]
    BY <1>5 DEF ResultType
  <2>2. m.ptr # Null => r.safe = (t.safe /\ m.safe)
    BY <1>1, <2>1 DEF After
  <2> QED
    BY <1>1, <2>2
<1>7. PICK B2, F2, sz2 :
        /\ m.abort = FALSE /\ Kept(H, B, F, sz, {}, M, B2, F2, sz2)
        /\ m.ptr # Null => NewBlock(B, F, B2, F2, sz2, m.ptr - 1, s)
  <2>1. Serves(H, B, F, sz, m, s)
    BY <1>6, MallocServes DEF m
  <2> QED
    BY <2>1 DEF Serves, M
<1>8. s > 0
  <2>1. sz[h] \in Nat /\ sz[h] >= 4
    BY <1>2, TileIs
  <2> QED
    BY <2>1
<1>9. CASE m.ptr = Null
  <2>1. Kept(H, B, F, sz, {h}, M, B2, F2, sz2)
    BY <1>7 DEF Kept, Keep
  <2> QED
    BY <1>1, <1>7, <1>9, <2>1 DEF Moves, M
<1>10. CASE m.ptr # Null
  <2>1. r.heap = t.heap /\ r.ptr = m.ptr /\ r.abort = t.abort
    <3>1. t = [heap |-> t.heap, ptr |-> t.ptr, errno |-> t.errno, abort |-> t.abort, safe |-> t.safe]
      BY <1>5 DEF ResultType
    <3> QED
      BY <1>1, <1>10, <3>1 DEF After
  <2>2. PICK c \in Int : c = m.ptr - 1 /\ m.ptr = c + 1
    <3>1. m.ptr \in Int
      BY <1>3, AddressInt DEF ResultType
    <3> QED
      BY <3>1
  <2>3. c \in B2 /\ c \notin F2 /\ (c \in B => c \in F) /\ s + 2 <= sz2[c]
    BY <1>7, <1>10, <2>2 DEF NewBlock
  <2>4. Sound(M, B2, F2, sz2) /\ h \in B2 /\ h \notin F2 /\ sz2[h] = sz[h] /\ c # h
    BY <1>7, <2>3 DEF Kept
  <2>5. PICK m2 \in Nat : m2 = sz2[h] - 2
    <3>1. sz[h] \in Nat /\ sz[h] >= 4
      BY <1>2, TileIs
    <3> QED
      BY <2>4, <3>1
  <2>n. Copied(M, h, c, m2, N)
    <3>1. SizeAt(M, h) = sz2[h]
      BY <2>4, SoundIs
    <3> QED
      BY <1>2, <2>2, <2>5, <3>1 DEF Copied, N, CopyTo, M
  <2>6. PICK B3, F3, sz3 :
          /\ t.abort = FALSE /\ Kept(M, B2, F2, sz2, {h, c}, t.heap, B3, F3, sz3)
          /\ c \in B3 /\ c \notin F3 /\ sz3[c] = sz2[c]
          /\ Carried(M, h, sz[h], t.heap, c, s)
    <3>1. Frees(N, h, t)
      BY <1>6, <1>10 DEF t, Frees
    <3>2. Outgrown(sz2, h, c, s, m2)
      BY <2>3, <2>4, <2>5 DEF Outgrown
    <3>3. t.abort = FALSE /\ \E B3, F3, sz3 :
            /\ Kept(M, B2, F2, sz2, {h, c}, t.heap, B3, F3, sz3)
            /\ c \in B3 /\ c \notin F3 /\ sz3[c] = sz2[c]
            /\ Carried(M, h, sz2[h], t.heap, c, s)
      <4>1. m2 \in Nat
        BY <2>5
      <4> QED
        BY <2>3, <2>4, <2>n, <3>1, <3>2, <4>1, CopiedFreed
    <3> QED
      BY <2>4, <3>3
  <2>7. Kept(H, B, F, sz, {h}, t.heap, B3, F3, sz3)
    BY <1>7, <2>3, <2>6, KeptThen
  <2>8. Carried(H, h, sz[h], t.heap, c, s)
    <3> SUFFICES ASSUME NEW j \in Nat, 1 <= j, j <= s, j <= sz[h] - 2
                 PROVE  Word(t.heap, c + j) = Word(H, h + j)
      BY DEF Carried
    <3>1. sz[h] \in Nat
      BY <1>2, TileIs
    <3>2. h + j \in Span(h, sz[h])
      BY <1>2, <3>1 DEF Span
    <3>3. Word(M, h + j) = Word(H, h + j)
      BY <1>7, <3>2 DEF Kept, Keep
    <3> QED
      BY <2>6, <3>3 DEF Carried
  <2> QED
    BY <2>1, <2>2, <2>3, <2>6, <2>7, <2>8, <1>10 DEF Moves
<1> QED
  BY <1>9, <1>10

\* Until the heap is harmed, sf_realloc with the address of an allocated block returns.
LEMMA ReallocMoves ==
  ASSUME NEW H, NEW B, NEW F, NEW sz, Sound(H, B, F, sz), NEW h \in B, h \notin F,
         NEW s \in Nat, NEW p, p = h + 1, NEW r, r = sf_realloc(H, p, s), r.safe
  PROVE  Moves(H, B, F, sz, h, r, s)
<1>1. h \in Int /\ p - 1 = h /\ SizeAt(H, h) = sz[h] /\ sz[h] \in Int
  BY SoundIs, EvensAre
<1>2. r = IF s = 0 THEN sf_free(H, p)
          ELSE IF s > sz[h] - 2 THEN Larger(H, p, s) ELSE Smaller(H, p, s)
  <2>1. Trusted(H, p) = "yes"
    BY AllocatedTrusted
  <2>2. sf_realloc(H, p, s) = IF s = 0 THEN sf_free(H, p)
                              ELSE IF s > SizeAt(H, p - 1) - 2 THEN Larger(H, p, s)
                              ELSE Smaller(H, p, s)
    BY <2>1 DEF sf_realloc
  <2> QED
    BY <1>1, <2>2
<1>3. CASE s = 0
  <2>1. r = sf_free(H, h + 1)
    BY <1>2, <1>3
  <2>2. r.abort = FALSE /\ \E B2, F2, sz2 : Kept(H, B, F, sz, {h}, r.heap, B2, F2, sz2)
    BY <2>1, FreeServes
  <2> QED
    BY <1>3, <2>2 DEF Moves
<1>4. CASE s > 0 /\ s > sz[h] - 2
  BY <1>2, <1>4, LargerMoves
<1>5. CASE s > 0 /\ ~(s > sz[h] - 2)
  <2>1. s <= sz[h] - 2
    BY <1>1, <1>5
  <2> QED
    BY <1>2, <1>5, <2>1, SmallerMoves
<1> QED
  BY <1>3, <1>4, <1>5

-----------------------------------------------------------------------------
(* What the callers hold *)

\* The region x of caller u lies in an allocated block, with what u wrote.
Owns(H, B, F, sz, u, x) ==
  /\ x.at - 1 \in B /\ x.at - 1 \notin F
  /\ x.size + 2 <= sz[x.at - 1] /\ x.kept <= x.size
  /\ \A j \in Nat : j < x.kept => Word(H, x.at + j) = Data(u)

Regions == [at : Address, size : Extent, kept : Extent]

\* The regions R of all callers do, each in a block of its own.
Owned(H, B, F, sz, R) ==
  /\ R \in [Users -> Regions]
  /\ \A u \in Users : R[u] # Nothing => Owns(H, B, F, sz, u, R[u])
  /\ \A u, v \in Users : u # v /\ R[u] # Nothing /\ R[v] # Nothing => R[u].at # R[v].at

\* The inductive invariant.
Healthy ==
  ~harmed => aborted = FALSE /\ \E B, F, sz : Sound(heap, B, F, sz) /\ Owned(heap, B, F, sz, region)

LEMMA OwnsKept ==
  ASSUME NEW H, NEW B, NEW F, NEW sz, Sound(H, B, F, sz), NEW u, NEW x \in Regions,
         Owns(H, B, F, sz, u, x), NEW X, x.at - 1 \notin X,
         NEW G, NEW B2, NEW F2, NEW sz2, Kept(H, B, F, sz, X, G, B2, F2, sz2)
  PROVE  Owns(G, B2, F2, sz2, u, x)
<1>1. PICK a \in Int : a = x.at
  BY AddressInt DEF Regions
<1>2. PICK n \in Nat, k \in Nat : n = x.size /\ k = x.kept
  BY DEF Regions, Extent
<1>3. PICK c \in Int, m \in Nat : c = a - 1 /\ m = sz[c]
  <2>1. a - 1 \in Int /\ a - 1 \in B
    BY <1>1 DEF Owns
  <2>2. sz[a - 1] \in Nat
    BY <2>1, SoundIs, TileIs
  <2> QED
    BY <2>1, <2>2
<1>4. c \in B /\ c \notin F /\ c \notin X /\ n + 2 <= m /\ k <= n
  BY <1>1, <1>2, <1>3 DEF Owns
<1>5. /\ c \in B2 /\ c \notin F2 /\ sz2[c] = m
      /\ \A b \in Span(c, m) : Word(G, b) = Word(H, b)
  BY <1>3, <1>4 DEF Kept, Keep
<1>6. ASSUME NEW j \in Nat, j < k
      PROVE  Word(G, a + j) = Data(u)
  <2>1. a + j \in Span(c, m)
    BY <1>3, <1>4, <1>6 DEF Span
  <2>2. Word(H, a + j) = Data(u)
    BY <1>1, <1>2, <1>6 DEF Owns
  <2> QED
    BY <1>5, <2>1, <2>2
<1> QED
  BY <1>1, <1>2, <1>3, <1>4, <1>5, <1>6 DEF Owns

\* The others keep what they have.
OthersKeep(R, u, X, x) ==
  \A v \in Users : v # u /\ R[v] # Nothing => R[v].at - 1 \notin X /\ R[v].at # x.at

LEMMA OwnedAfter ==
  ASSUME NEW H, NEW B, NEW F, NEW sz, Sound(H, B, F, sz), NEW R, Owned(H, B, F, sz, R),
         NEW X, NEW G, NEW B2, NEW F2, NEW sz2, Kept(H, B, F, sz, X, G, B2, F2, sz2),
         NEW u \in Users, NEW x \in Regions, OthersKeep(R, u, X, x),
         x # Nothing => Owns(G, B2, F2, sz2, u, x)
  PROVE  Owned(G, B2, F2, sz2, [R EXCEPT ![u] = x])
<1> DEFINE S == [R EXCEPT ![u] = x]
<1>1. S \in [Users -> Regions] /\ S[u] = x /\ \A v \in Users : v # u => S[v] = R[v]
  BY DEF Owned
<1>2. ASSUME NEW v \in Users, S[v] # Nothing
      PROVE  Owns(G, B2, F2, sz2, v, S[v])
  <2>1. CASE v = u
    BY <1>1, <1>2, <2>1
  <2>2. CASE v # u
    <3>1. S[v] = R[v] /\ R[v] \in Regions /\ Owns(H, B, F, sz, v, R[v]) /\ R[v].at - 1 \notin X
      BY <1>1, <1>2, <2>2 DEF Owned, OthersKeep
    <3> QED
      BY <3>1, OwnsKept
  <2> QED
    BY <2>1, <2>2
<1>3. \A v, w \in Users : v # w /\ S[v] # Nothing /\ S[w] # Nothing => S[v].at # S[w].at
  <2>1. \A v, w \in Users : v # w /\ R[v] # Nothing /\ R[w] # Nothing => R[v].at # R[w].at
    BY DEF Owned
  <2>2. \A v \in Users : v # u /\ R[v] # Nothing => R[v].at # x.at
    BY DEF OthersKeep
  <2> HIDE DEF S
  <2> QED
    BY <1>1, <2>1, <2>2
<1> QED
  BY <1>1, <1>2, <1>3 DEF Owned

LEMMA OwnedSame ==
  ASSUME NEW H, NEW B, NEW F, NEW sz, Sound(H, B, F, sz), NEW R, Owned(H, B, F, sz, R),
         NEW G, NEW B2, NEW F2, NEW sz2, Kept(H, B, F, sz, {}, G, B2, F2, sz2)
  PROVE  Owned(G, B2, F2, sz2, R)
<1>1. \A v \in Users : R[v] # Nothing => Owns(G, B2, F2, sz2, v, R[v])
  BY OwnsKept DEF Owned
<1> QED
  BY <1>1 DEF Owned

\* A region that is held starts behind the header of an allocated block, and no other does.
LEMMA HeldBlock ==
  ASSUME NEW H, NEW B, NEW F, NEW sz, Sound(H, B, F, sz), NEW R, Owned(H, B, F, sz, R),
         NEW u \in Users, R[u] # Nothing
  PROVE  \E h \in B : /\ h \notin F /\ R[u].at = h + 1 /\ h = R[u].at - 1 /\ h \in Int
                      /\ R[u].size + 2 <= sz[h] /\ R[u].kept <= R[u].size
                      /\ \A v \in Users : v # u /\ R[v] # Nothing => R[v].at - 1 # h
<1>1. \A v \in Users : R[v].at \in Int
  BY AddressInt DEF Owned, Regions
<1>2. PICK h \in Int : h = R[u].at - 1 /\ R[u].at = h + 1
  BY <1>1
<1>3. h \in B /\ h \notin F /\ R[u].size + 2 <= sz[h] /\ R[u].kept <= R[u].size
  BY <1>2 DEF Owned, Owns
<1>4. ASSUME NEW v \in Users, v # u, R[v] # Nothing
      PROVE  R[v].at - 1 # h
  <2>1. R[v].at # R[u].at
    BY <1>4 DEF Owned
  <2> QED
    BY <1>1, <1>2, <2>1
<1> QED
  BY <1>2, <1>3, <1>4

LEMMA HealthyInit == Init => Healthy
<1> SUFFICES ASSUME Init PROVE Healthy
  OBVIOUS
<1> DEFINE sz == [b \in Int |-> 0]
           rk == [b \in Int |-> 0]
<1>1. HeapType(heap) /\ ~heap.lost /\ Len(heap.mem) = 0 /\ \A i \in Lists : heap.heads[i] = Null
  <2>1. HeapType(heap)
    BY TypedInit DEF Typed
  <2>2. PICK w : heap = [mem |-> <<>>, heads |-> [i \in Lists |-> Null], fresh |-> w, lost |-> FALSE]
    BY DEF Init
  <2>3. heap.mem = <<>> /\ heap.lost = FALSE /\ heap.heads = [i \in Lists |-> Null]
    BY <2>2
  <2>4. Len(heap.mem) = 0
    BY <2>3
  <2> QED
    BY <2>1, <2>3, <2>4
<1>2. Tile({}, sz, 0)
  BY DEF Tile
<1>3. Paved(heap, {}, {}, sz, {})
  BY <1>1, <1>2 DEF Paved
<1>4. ClassFn(sz) \in [Int -> Lists]
  BY ClassFnIs
<1>5. Linked(heap, {}, ClassFn(sz), rk)
  <2> HIDE DEF sz
  <2>1. Threaded({}, ClassFn(sz), rk, heap.heads, [b \in Int |-> NextOf(heap, b)], [b \in Int |-> PrevOf(heap, b)])
    BY <1>1 DEF Threaded
  <2> QED
    BY <1>1, <1>4, <2>1 DEF Linked
<1>6. Owned(heap, {}, {}, sz, region)
  <2>1. Nothing \in Regions
    BY NullAddress, Page DEF Nothing, Regions, Extent
  <2> QED
    BY <2>1 DEF Init, Owned
<1>7. Sound(heap, {}, {}, sz)
  BY <1>3, <1>5 DEF Sound, LinkedSomehow
<1> HIDE DEF sz
<1> QED
  BY <1>6, <1>7 DEF Healthy, Init


\* What a step finds before a call, if the heap is not harmed by it.
Found(B, F, sz) == Sound(heap, B, F, sz) /\ Owned(heap, B, F, sz, region)

LEMMA CallFinds ==
  ASSUME Typed, Healthy, ~harmed', NEW r, Call(r)
  PROVE  r.safe /\ heap' = r.heap /\ aborted' = r.abort /\ \E B, F, sz : Found(B, F, sz)
BY DEF Call, Healthy, Found

LEMMA MallocHealthy ==
  ASSUME Typed, Healthy, NEW u \in Users, NEW s \in Sizes, Malloc(u, s), ~harmed'
  PROVE  aborted' = FALSE /\ \E B, F, sz : Sound(heap', B, F, sz) /\ Owned(heap', B, F, sz, region')
<1> DEFINE x(r) == [at |-> r.ptr, size |-> s, kept |-> 0]
<1>1. PICK r : /\ r = sf_malloc(heap, s)
               /\ region' = IF r.ptr = Null THEN region ELSE [region EXCEPT ![u] = x(r)]
               /\ Call(r)
  BY DEF Malloc
<1>2. r.safe /\ heap' = r.heap /\ aborted' = r.abort
  BY <1>1, CallFinds
<1>3. PICK B, F, sz : Found(B, F, sz)
  BY <1>1, CallFinds
<1>4. s \in Nat
  BY SizesAssumption
<1>5. PICK B2, F2, sz2 :
        /\ r.abort = FALSE /\ Kept(heap, B, F, sz, {}, r.heap, B2, F2, sz2)
        /\ r.ptr # Null => NewBlock(B, F, B2, F2, sz2, r.ptr - 1, s)
  <2>1. Serves(heap, B, F, sz, r, s)
    BY <1>1, <1>2, <1>3, <1>4, MallocServes DEF Found
  <2> QED
    BY <2>1 DEF Serves
<1>6. Sound(r.heap, B2, F2, sz2)
  BY <1>5 DEF Kept
<1>7. CASE r.ptr = Null
  <2>1. Owned(r.heap, B2, F2, sz2, region)
    BY <1>3, <1>5, OwnedSame DEF Found
  <2> QED
    BY <1>1, <1>2, <1>5, <1>6, <1>7, <2>1
<1>8. CASE r.ptr # Null
  <2>1. x(r) \in Regions
    <3>1. ResultType(r) /\ s \in Extent
      BY <1>1, <1>3, <1>4, <1>8, MallocType, SoundIs DEF Found
    <3>2. 0 \in Extent
      BY Page DEF Extent
    <3> QED
      BY <3>1, <3>2 DEF Regions, ResultType
  <2>2. NewBlock(B, F, B2, F2, sz2, r.ptr - 1, s)
    BY <1>5, <1>8
  <2>3. Owns(r.heap, B2, F2, sz2, u, x(r))
    BY <1>4, <2>2 DEF Owns, NewBlock
  <2>4. OthersKeep(region, u, {}, x(r))
    <3> SUFFICES ASSUME NEW v \in Users, region[v] # Nothing PROVE region[v].at # r.ptr
      BY DEF OthersKeep
    <3>1. PICK h \in B : h \notin F /\ h = region[v].at - 1
      BY <1>3, HeldBlock DEF Found
    <3> QED
      BY <2>2, <3>1 DEF NewBlock
  <2>5. Owned(r.heap, B2, F2, sz2, [region EXCEPT ![u] = x(r)])
    BY <1>3, <1>5, <2>1, <2>3, <2>4, OwnedAfter DEF Found
  <2> QED
    BY <1>1, <1>2, <1>5, <1>6, <1>8, <2>5
<1> QED
  BY <1>7, <1>8

LEMMA FreeHealthy ==
  ASSUME Typed, Healthy, NEW u \in Users, Free(u), ~harmed'
  PROVE  aborted' = FALSE /\ \E B, F, sz : Sound(heap', B, F, sz) /\ Owned(heap', B, F, sz, region')
<1>1. PICK r : r = sf_free(heap, region[u].at) /\ Call(r)
  BY DEF Free
<1>2. r.safe /\ heap' = r.heap /\ aborted' = r.abort
  BY <1>1, CallFinds
<1>3. PICK B, F, sz : Found(B, F, sz)
  BY <1>1, CallFinds
<1>4. PICK h \in B : /\ h \notin F /\ region[u].at = h + 1
                     /\ \A v \in Users : v # u /\ region[v] # Nothing => region[v].at - 1 # h
  BY <1>3, HeldBlock DEF Found, Free
<1>5. PICK B2, F2, sz2 : r.abort = FALSE /\ Kept(heap, B, F, sz, {h}, r.heap, B2, F2, sz2)
  BY <1>1, <1>2, <1>3, <1>4, FreeServes DEF Found
<1>6. Nothing \in Regions
  BY NullAddress, Page DEF Nothing, Regions, Extent
<1>7. OthersKeep(region, u, {h}, Nothing)
  <2> SUFFICES ASSUME NEW v \in Users, v # u, region[v] # Nothing
               PROVE  region[v].at - 1 # h /\ region[v].at # Nothing.at
    BY DEF OthersKeep
  <2>1. region[v].at # Null
    <3>1. PICK g \in B : region[v].at = g + 1 /\ g \in Int
      BY <1>3, HeldBlock DEF Found
    <3>2. g >= 1
      BY <1>3, BlockEnds DEF Found
    <3> QED
      BY <3>1, <3>2 DEF Null
  <2> QED
    BY <1>4, <2>1 DEF Nothing
<1>8. Owned(r.heap, B2, F2, sz2, [region EXCEPT ![u] = Nothing])
  BY <1>3, <1>5, <1>6, <1>7, OwnedAfter DEF Found
<1>9. region' = [region EXCEPT ![u] = Nothing]
  BY DEF Free
<1> QED
  BY <1>2, <1>5, <1>8, <1>9 DEF Kept

\* What realloc does to a region: the smaller of the two sizes is what is left.
LEMMA LeastTwo ==
  ASSUME NEW s \in Nat, NEW k \in Nat, NEW m, m = Min({s, k})
  PROVE  m \in Nat /\ m <= s /\ m <= k
<1>1. {s, k} \in SUBSET Nat /\ {s, k} # {}
  OBVIOUS
<1> QED
  BY <1>1, LeastOf

LEMMA ReallocHealthy ==
  ASSUME Typed, Healthy, NEW u \in Users, NEW s \in Sizes, Realloc(u, s), ~harmed'
  PROVE  aborted' = FALSE /\ \E B, F, sz : Sound(heap', B, F, sz) /\ Owned(heap', B, F, sz, region')
<1> DEFINE x(r) == [at |-> r.ptr, size |-> s, kept |-> Min({s, region[u].kept})]
<1>1. PICK r : /\ r = sf_realloc(heap, region[u].at, s)
               /\ region' = IF s = 0 THEN [region EXCEPT ![u] = Nothing]
                            ELSE IF r.ptr = Null THEN region ELSE [region EXCEPT ![u] = x(r)]
               /\ Call(r)
  BY DEF Realloc, Typed
<1>2. r.safe /\ heap' = r.heap /\ aborted' = r.abort
  BY <1>1, CallFinds
<1>3. PICK B, F, sz : Found(B, F, sz)
  BY <1>1, CallFinds
<1>4. s \in Nat
  BY SizesAssumption
<1>5. PICK h \in B : /\ h \notin F /\ region[u].at = h + 1 /\ h \in Int
                     /\ region[u].size + 2 <= sz[h] /\ region[u].kept <= region[u].size
                     /\ \A v \in Users : v # u /\ region[v] # Nothing => region[v].at - 1 # h
  BY <1>3, HeldBlock DEF Found, Realloc
<1>6. Moves(heap, B, F, sz, h, r, s)
  BY <1>1, <1>2, <1>3, <1>4, <1>5, ReallocMoves DEF Found
<1>7. PICK B2, F2, sz2 :
        /\ r.abort = FALSE /\ Kept(heap, B, F, sz, {h}, r.heap, B2, F2, sz2)
        /\ s > 0 /\ r.ptr = Null => Kept(heap, B, F, sz, {}, r.heap, B2, F2, sz2)
        /\ s > 0 /\ r.ptr # Null =>
             /\ r.ptr - 1 \in B2 /\ r.ptr - 1 \notin F2 /\ s + 2 <= sz2[r.ptr - 1]
             /\ r.ptr - 1 \in B => r.ptr - 1 = h \/ r.ptr - 1 \in F
             /\ Carried(heap, h, sz[h], r.heap, r.ptr - 1, s)
  BY <1>6 DEF Moves
<1>8. Sound(r.heap, B2, F2, sz2)
  BY <1>7 DEF Kept
<1>9. \A v \in Users : region[v] # Nothing =>
        region[v].at # Null /\ region[v].at - 1 \in B /\ region[v].at - 1 \notin F
  <2> SUFFICES ASSUME NEW v \in Users, region[v] # Nothing
               PROVE  region[v].at # Null /\ region[v].at - 1 \in B /\ region[v].at - 1 \notin F
    OBVIOUS
  <2>1. PICK g \in B : region[v].at = g + 1 /\ g \in Int /\ g = region[v].at - 1 /\ g \notin F
    BY <1>3, HeldBlock DEF Found
  <2>2. g >= 1
    BY <1>3, BlockEnds DEF Found
  <2> QED
    BY <2>1, <2>2 DEF Null
<1>10. CASE s = 0
  <2>1. Nothing \in Regions
    BY NullAddress, Page DEF Nothing, Regions, Extent
  <2>2. OthersKeep(region, u, {h}, Nothing)
    BY <1>5, <1>9 DEF OthersKeep, Nothing
  <2>3. Owned(r.heap, B2, F2, sz2, [region EXCEPT ![u] = Nothing])
    BY <1>3, <1>7, <2>1, <2>2, OwnedAfter DEF Found
  <2> QED
    BY <1>1, <1>2, <1>7, <1>8, <1>10, <2>3
<1>11. CASE s > 0 /\ r.ptr = Null
  <2>1. Owned(r.heap, B2, F2, sz2, region)
    BY <1>3, <1>7, <1>11, OwnedSame DEF Found
  <2> QED
    BY <1>1, <1>2, <1>7, <1>8, <1>11, <2>1
<1>12. CASE s > 0 /\ r.ptr # Null
  <2>1. ResultType(r) /\ s \in Extent /\ r.ptr \in Address /\ r.ptr \in Int
    <3>1. HeapType(heap) /\ ~heap.lost /\ region[u].at \in Int
      BY <1>3, <1>5, SoundIs DEF Found
    <3>2. ResultType(r) /\ s \in Extent
      BY <1>1, <1>4, <1>12, <3>1, ReallocType
    <3> QED
      BY <3>2, AddressInt DEF ResultType
  <2>2. PICK c \in Int : c = r.ptr - 1 /\ r.ptr = c + 1
    BY <2>1
  <2>3. /\ c \in B2 /\ c \notin F2 /\ s + 2 <= sz2[c] /\ (c \in B => c = h \/ c \in F)
        /\ Carried(heap, h, sz[h], r.heap, c, s)
    BY <1>7, <1>12, <2>2
  <2>4. PICK k \in Nat, n \in Nat : k = region[u].kept /\ n = region[u].size
    BY DEF Typed, Extent
  <2>5. PICK m \in Nat : m = Min({s, k}) /\ m <= s /\ m <= k
    BY <1>4, LeastTwo
  <2>6. PICK y : y = x(r) /\ y = [at |-> c + 1, size |-> s, kept |-> m]
    BY <2>2, <2>4, <2>5
  <2>7. y.at = c + 1 /\ y.size = s /\ y.kept = m /\ y \in Regions /\ c = y.at - 1
    <3>1. m \in Extent
      BY <1>4, <2>1, <2>5, Page DEF Extent
    <3>2. c + 1 \in Address
      BY <2>1, <2>2
    <3> QED
      BY <2>1, <2>6, <3>1, <3>2 DEF Regions
  <2>8. ASSUME NEW j \in Nat, j < m
        PROVE  Word(r.heap, (c + 1) + j) = Data(u)
    <3>1. Word(heap, (h + 1) + j) = Data(u)
      <4>1. j < k
        BY <2>5, <2>8
      <4>2. Owns(heap, B, F, sz, u, region[u])
        BY <1>3 DEF Found, Owned, Realloc
      <4> QED
        BY <1>5, <2>4, <4>1, <4>2 DEF Owns
    <3>2. PICK z \in Nat : z = sz[h]
      BY <1>3, SoundIs, TileIs DEF Found
    <3>3. j + 1 \in Nat /\ 1 <= j + 1 /\ j + 1 <= s /\ j + 1 <= z - 2
      BY <1>4, <1>5, <2>4, <2>5, <2>8, <3>2
    <3>4. Word(r.heap, c + (j + 1)) = Word(heap, h + (j + 1))
      BY <2>3, <3>2, <3>3 DEF Carried
    <3>5. c + (j + 1) = (c + 1) + j /\ h + (j + 1) = (h + 1) + j
      BY <1>5
    <3> QED
      BY <3>1, <3>4, <3>5
  <2>9. Owns(r.heap, B2, F2, sz2, u, y)
    BY <2>3, <2>5, <2>7, <2>8 DEF Owns
  <2>10. OthersKeep(region, u, {h}, y)
    <3> SUFFICES ASSUME NEW v \in Users, v # u, region[v] # Nothing
                 PROVE  region[v].at - 1 # h /\ region[v].at # y.at
      BY DEF OthersKeep
    <3> QED
      BY <1>5, <1>9, <2>3, <2>7
  <2>11. Owned(r.heap, B2, F2, sz2, [region EXCEPT ![u] = y])
    BY <1>3, <1>7, <2>7, <2>9, <2>10, OwnedAfter DEF Found
  <2>12. region' = [region EXCEPT ![u] = y]
    BY <1>1, <1>12, <2>6
  <2> QED
    BY <1>2, <1>7, <1>8, <2>11, <2>12
<1>13. s = 0 \/ s > 0
  BY <1>4
<1> QED
  BY <1>10, <1>11, <1>12, <1>13, Zenon

LEMMA WriteHealthy ==
  ASSUME Typed, Healthy, NEW u \in Users, Write(u), ~harmed'
  PROVE  aborted' = FALSE /\ \E B, F, sz : Sound(heap', B, F, sz) /\ Owned(heap', B, F, sz, region')
<1> DEFINE own == region[u].at .. region[u].at + region[u].size - 1
           m == [a \in DOMAIN heap.mem |-> IF a \in own THEN Data(u) ELSE heap.mem[a]]
           x == [region[u] EXCEPT !.kept = region[u].size]
<1>1. /\ heap' = [heap EXCEPT !.mem = m] /\ region' = [region EXCEPT ![u].kept = region[u].size]
      /\ aborted' = aborted /\ harmed' = harmed /\ region[u].kept < region[u].size
  BY Zenon DEF Write
<1>2. PICK B, F, sz : Found(B, F, sz)
  BY <1>1 DEF Healthy, Found
<1>3. aborted = FALSE
  BY <1>1 DEF Healthy
<1>4. region[u] \in Regions /\ region \in [Users -> Regions]
  BY DEF Typed, Regions
<1>5. PICK k \in Nat, n \in Nat : k = region[u].kept /\ n = region[u].size
  BY <1>4 DEF Regions, Extent
<1>6. region[u] # Nothing
  BY <1>1 DEF Nothing
<1>7. PICK h \in B : /\ h \notin F /\ region[u].at = h + 1 /\ h \in Int
                     /\ region[u].size + 2 <= sz[h]
                     /\ \A v \in Users : v # u /\ region[v] # Nothing => region[v].at - 1 # h
  BY <1>2, <1>6, HeldBlock DEF Found
<1>8. own = h + 1 .. h + n
  <2>1. own = (h + 1) .. (h + 1) + n - 1
    BY <1>5, <1>7
  <2> QED
    BY <1>7, <2>1
<1> HIDE DEF own
<1>9. Replaced(heap, own, m, heap')
  <2>1. Data(u) \in Cells
    BY DEF Data, Cells
  <2>2. \A a \in DOMAIN heap.mem : heap.mem[a] \in Cells
    BY <1>2, SoundIs, MemType DEF Found
  <2> QED
    BY <1>1, <2>1, <2>2 DEF Replaced
<1>10. /\ Alike(heap, heap', own) /\ heap'.heads = heap.heads
       /\ \A a \in DOMAIN heap.mem : Word(heap', a) = m[a]
  <2>1. HeapType(heap) /\ ~heap.lost
    BY <1>2, SoundIs DEF Found
  <2> HIDE DEF m
  <2> QED
    BY <1>9, <2>1, WordsReplaced
<1>11. own \subseteq Inside(h, sz[h]) /\ own \subseteq DOMAIN heap.mem
  <2>1. PICK z \in Nat : z = sz[h]
    BY <1>2, SoundIs, TileIs DEF Found
  <2>2. n + 2 <= z
    BY <1>5, <1>7, <2>1
  <2>3. own \subseteq h + 1 .. h + z - 2 /\ own \subseteq h .. h + z - 1
    BY <1>7, <1>8, <2>2
  <2>4. Span(h, sz[h]) \subseteq DOMAIN heap.mem
    BY <1>2, SoundIs, SpanIn DEF Found
  <2> QED
    BY <2>1, <2>3, <2>4 DEF Span, Inside
<1>12. Kept(heap, B, F, sz, {h}, heap', B, F, sz)
  BY <1>2, <1>7, <1>10, <1>11, InsideFrame DEF Found
<1>13. x \in Regions /\ x.at = h + 1 /\ x.size = n /\ x.kept = n
  BY <1>4, <1>5, <1>7 DEF Regions
<1> HIDE DEF x
<1>14. ASSUME NEW j \in Nat, j < n
       PROVE  Word(heap', (h + 1) + j) = Data(u)
  <2>1. (h + 1) + j \in own
    BY <1>7, <1>8, <1>14
  <2> QED
    BY <1>10, <1>11, <2>1
<1>15. Owns(heap', B, F, sz, u, x)
  <2>1. x.at - 1 = h /\ n + 2 <= sz[h]
    BY <1>5, <1>7, <1>13
  <2> QED
    BY <1>7, <1>13, <1>14, <2>1 DEF Owns
<1>16. OthersKeep(region, u, {h}, x)
  <2>1. \A v \in Users : region[v].at \in Int
    BY <1>4, AddressInt DEF Regions
  <2>2. ASSUME NEW v \in Users, v # u, region[v] # Nothing
        PROVE  region[v].at - 1 # h /\ region[v].at # h + 1
    <3>1. region[v].at - 1 # h
      BY <1>7, <2>2
    <3> QED
      BY <1>7, <2>1, <3>1
  <2> QED
    BY <1>13, <2>2 DEF OthersKeep
<1>17. Owned(heap', B, F, sz, [region EXCEPT ![u] = x])
  BY <1>2, <1>12, <1>13, <1>15, <1>16, OwnedAfter DEF Found
<1>18. region' = [region EXCEPT ![u] = x]
  BY <1>1, <1>4 DEF x
<1>19. Sound(heap', B, F, sz)
  BY <1>12 DEF Kept
<1> QED
  BY <1>1, <1>3, <1>17, <1>18, <1>19, ZenonT(30)

LEMMA HealthyStep == Typed /\ Healthy /\ [Next]_vars => Healthy'
<1> SUFFICES ASSUME Typed, Healthy, [Next]_vars, ~harmed'
             PROVE  aborted' = FALSE /\ \E B, F, sz : Sound(heap', B, F, sz) /\ Owned(heap', B, F, sz, region')
  BY DEF Healthy
<1>1. ASSUME NEW u \in Users, Free(u)
      PROVE  aborted' = FALSE /\ \E B, F, sz : Sound(heap', B, F, sz) /\ Owned(heap', B, F, sz, region')
  BY <1>1, FreeHealthy
<1>2. ASSUME NEW u \in Users, Write(u)
      PROVE  aborted' = FALSE /\ \E B, F, sz : Sound(heap', B, F, sz) /\ Owned(heap', B, F, sz, region')
  BY <1>2, WriteHealthy
<1>3. ASSUME NEW u \in Users, NEW s \in Sizes, Malloc(u, s)
      PROVE  aborted' = FALSE /\ \E B, F, sz : Sound(heap', B, F, sz) /\ Owned(heap', B, F, sz, region')
  BY <1>3, MallocHealthy
<1>4. ASSUME NEW u \in Users, NEW s \in Sizes, Realloc(u, s)
      PROVE  aborted' = FALSE /\ \E B, F, sz : Sound(heap', B, F, sz) /\ Owned(heap', B, F, sz, region')
  BY <1>4, ReallocHealthy
<1>5. CASE UNCHANGED vars
  BY <1>5 DEF vars, Healthy
<1> QED
  BY <1>1, <1>2, <1>3, <1>4, <1>5 DEF Next

LEMMA AlwaysHealthy == Spec => [](Typed /\ Healthy)
<1>1. Init => Typed /\ Healthy
  BY TypedInit, HealthyInit
<1>2. Typed /\ Healthy /\ [Next]_vars => Typed' /\ Healthy'
  BY TypedStep, HealthyStep
<1> QED
  BY <1>1, <1>2, PTL DEF Spec

-----------------------------------------------------------------------------
(* What a walk over the heap finds *)

LEMMA EndsOf ==
  ASSUME NEW w \in Seq(Int), Len(w) >= 1
  PROVE  /\ Last(w) = w[Len(w)] /\ ToSet(w) = {w[j] : j \in 1 .. Len(w)}
         /\ ToSet(Front(w)) = {w[j] : j \in 1 .. Len(w) - 1}
<1>1. Last(w) = w[Len(w)]
  BY DEF Last
<1>2. ToSet(w) = {w[j] : j \in 1 .. Len(w)}
  BY DEF ToSet
<1>3. Front(w) = SubSeq(w, 1, Len(w) - 1)
  BY DEF Front
<1>4. DOMAIN Front(w) = 1 .. Len(w) - 1 /\ \A j \in 1 .. Len(w) - 1 : Front(w)[j] = w[j]
  BY <1>3
<1> QED
  BY <1>1, <1>2, <1>4 DEF ToSet

Over(H) == Walk(H, [b \in Int |-> b + SizeAt(H, b)], 1)

\* The walk meets each block, and ends behind the last one.
Covers(B, n, w) ==
  /\ w \in Seq(Int) /\ Len(w) >= 1 /\ w[Len(w)] = n + 1
  /\ {w[j] : j \in 1 .. Len(w) - 1} = B

LEMMA WalkCovers ==
  ASSUME NEW H, NEW B, NEW F, NEW sz, Sound(H, B, F, sz), NEW w, w = Over(H)
  PROVE  Covers(B, Len(H.mem), w)
<1> DEFINE step == [b \in Int |-> b + SizeAt(H, b)]
<1>1. /\ HeapType(H) /\ ~H.lost /\ Tile(B, sz, Len(H.mem))
      /\ \A b \in B : b \in Int /\ SizeAt(H, b) = sz[b] /\ TagAt(H, b) # NoTag
  BY SoundIs
<1>2. PICK n \in Nat : n = Len(H.mem) /\ DOMAIN H.mem = 1 .. n
  BY <1>1, MemType
<1>3. step \in [Int -> Int] /\ \A b \in Int : step[b] = b + SizeAt(H, b)
  BY <1>1, WordType
<1>4. w = Walk(H, step, 1)
  BY DEF Over
<1> HIDE DEF step
<1>5. IsWalk(H, step, 1, w) /\ (Len(w) = n + 1 \/ TagAt(H, w[Len(w)]) = NoTag)
  <2>1. 1 \in Int
    OBVIOUS
  <2>2. /\ IsWalk(H, step, 1, w)
        /\ Len(w) = Len(H.mem) + 1 \/ TagAt(H, w[Len(w)]) = NoTag
    BY <1>1, <1>3, <1>4, <2>1, WalkIs, ZenonT(30)
  <2> QED
    BY <1>2, <2>2
<1>6. PICK l \in Nat : l = Len(w) /\ l >= 1 /\ l <= n + 1 /\ w \in Seq(Int) /\ w[1] = 1
  BY <1>2, <1>5 DEF IsWalk, NonEmpty
<1>7. \A j \in 1 .. l : w[j] \in Int
  BY <1>6
<1>8. ASSUME NEW j \in Nat, j >= 1, j < l, w[j] \in B
      PROVE  /\ w[j + 1] = w[j] + sz[w[j]] /\ w[j + 1] > w[j]
             /\ w[j + 1] \in B \/ w[j + 1] = n + 1
             /\ \A c \in B : c > w[j] => c >= w[j + 1]
  <2>1. PICK b \in Int, m \in Nat : b = w[j] /\ m = sz[b] /\ m >= 4
    BY <1>1, <1>8, TileIs
  <2>2. w[j + 1] = b + m
    <3>1. w[j + 1] = step[w[j]]
      BY <1>5, <1>6, <1>8 DEF IsWalk
    <3> QED
      BY <1>1, <1>3, <1>8, <2>1, <3>1
  <2>3. b + m = n + 1 \/ b + m \in B
    BY <1>1, <1>2, <1>8, <2>1, TileIs
  <2>4. \A c \in B : c \in Int /\ (c > b => c >= b + m)
    BY <1>1, <1>8, <2>1, TileIs
  <2> QED
    BY <2>1, <2>2, <2>3, <2>4
<1>9. ASSUME NEW j \in Nat, j >= 1, j < l, w[j] \in B \/ w[j] = n + 1
      PROVE  w[j] \in B
  <2>1. TagAt(H, w[j]) # NoTag
    BY <1>5, <1>6, <1>9 DEF IsWalk
  <2>2. w[j] \in 1 .. n
    BY <1>1, <1>2, <2>1, WordType
  <2> QED
    BY <1>9, <2>2
<1>10. \A b \in B : b >= 1 /\ b <= n
  <2> SUFFICES ASSUME NEW b \in B PROVE b >= 1 /\ b <= n
    OBVIOUS
  <2>1. b \in DOMAIN H.mem
    BY <1>1, SpanIn
  <2> QED
    BY <1>2, <2>1
<1>11. ASSUME NEW j \in Nat, j >= 1, j <= l
       PROVE  (w[j] \in B \/ w[j] = n + 1) /\ w[j] >= j
  <2> DEFINE S == {i \in Nat : i + 1 <= l => (w[i + 1] \in B \/ w[i + 1] = n + 1) /\ w[i + 1] >= i + 1}
  <2>1. 0 \in S
    <3>1. 1 \in B \/ 1 = n + 1
      BY <1>1, <1>2 DEF Tile
    <3> QED
      BY <1>6, <3>1
  <2>2. ASSUME NEW i \in S PROVE i + 1 \in S
    <3> SUFFICES ASSUME i + 2 <= l
                 PROVE  (w[i + 2] \in B \/ w[i + 2] = n + 1) /\ w[i + 2] >= i + 2
      OBVIOUS
    <3>1. i + 1 \in Nat /\ i + 1 >= 1 /\ i + 1 < l
      BY <2>2
    <3>2. (w[i + 1] \in B \/ w[i + 1] = n + 1) /\ w[i + 1] >= i + 1
      BY <2>2, <3>1
    <3>3. w[i + 1] \in B
      BY <1>9, <3>1, <3>2
    <3>4. (i + 1) + 1 = i + 2
      BY <2>2
    <3>5. w[i + 2] > w[i + 1] /\ (w[i + 2] \in B \/ w[i + 2] = n + 1)
      BY <1>8, <3>1, <3>3, <3>4
    <3>6. w[i + 1] \in Int /\ w[i + 2] \in Int
      BY <1>7, <2>2, <3>1
    <3> QED
      BY <2>2, <3>2, <3>5, <3>6
  <2>3. S = Nat
    BY <2>1, <2>2, Induction
  <2>4. j - 1 \in S /\ (j - 1) + 1 = j
    <3> HIDE DEF S
    <3> QED
      BY <1>11, <2>3
  <2> QED
    BY <1>11, <2>4
<1>12. w[l] = n + 1
  <2>1. (w[l] \in B \/ w[l] = n + 1) /\ w[l] >= l
    BY <1>6, <1>11
  <2>2. l = n + 1 \/ TagAt(H, w[l]) = NoTag
    BY <1>5, <1>6
  <2> QED
    BY <1>1, <1>7, <1>10, <2>1, <2>2
<1>13. \A j \in 1 .. l - 1 : w[j] \in B
  BY <1>9, <1>11
<1>14. ASSUME NEW c \in B PROVE \E j \in 1 .. l - 1 : w[j] = c
  <2> SUFFICES ASSUME \A j \in 1 .. l - 1 : w[j] # c PROVE FALSE
    OBVIOUS
  <2> DEFINE S == {i \in Nat : i + 1 <= l => c >= w[i + 1]}
  <2>1. 0 \in S
    BY <1>1, <1>6, <1>10
  <2>2. ASSUME NEW i \in S PROVE i + 1 \in S
    <3> SUFFICES ASSUME i + 2 <= l PROVE c >= w[i + 2]
      OBVIOUS
    <3>1. i + 1 \in Nat /\ i + 1 >= 1 /\ i + 1 < l /\ i + 1 \in 1 .. l - 1 /\ (i + 1) + 1 = i + 2
      BY <2>2
    <3>2. c >= w[i + 1] /\ w[i + 1] # c /\ w[i + 1] \in B
      BY <1>13, <2>2, <3>1
    <3>3. c > w[i + 1]
      BY <1>1, <3>2
    <3> QED
      BY <1>8, <3>1, <3>2, <3>3
  <2>3. S = Nat
    BY <2>1, <2>2, Induction
  <2>4. l - 1 \in S /\ (l - 1) + 1 = l
    <3> HIDE DEF S
    <3> QED
      BY <1>6, <2>3
  <2>5. c >= n + 1
    BY <1>6, <1>12, <2>4
  <2> QED
    BY <1>1, <1>10, <2>5
<1>15. {w[j] : j \in 1 .. l - 1} = B
  BY <1>13, <1>14
<1> QED
  BY <1>2, <1>6, <1>12, <1>15 DEF Covers

-----------------------------------------------------------------------------
(* The properties.  Each follows from the inductive invariant. *)

LEMMA FoundIs ==
  ASSUME Healthy, ~harmed
  PROVE  aborted = FALSE /\ ~heap.lost /\ \E B, F, sz : Found(B, F, sz)
BY SoundIs DEF Healthy, Found

LEMMA BlocksAre ==
  ASSUME NEW B, NEW F, NEW sz, Found(B, F, sz)
  PROVE  /\ Last(Blocks) = Len(heap.mem) + 1 /\ ToSet(Front(Blocks)) = B
         /\ ToSet(Blocks) = B \cup {Len(heap.mem) + 1}
<1>1. PICK w : w = Over(heap)
  OBVIOUS
<1>2. Covers(B, Len(heap.mem), w)
  BY <1>1, WalkCovers DEF Found
<1>3. Blocks = w
  BY <1>1 DEF Blocks, Over
<1>4. PICK l \in Nat : l = Len(w) /\ l >= 1 /\ w \in Seq(Int)
  BY <1>2 DEF Covers
<1>5. w[l] = Len(heap.mem) + 1 /\ {w[j] : j \in 1 .. l - 1} = B
  BY <1>2, <1>4 DEF Covers
<1>6. /\ Last(w) = w[l] /\ ToSet(w) = {w[j] : j \in 1 .. l}
      /\ ToSet(Front(w)) = {w[j] : j \in 1 .. l - 1}
  BY <1>4, EndsOf
<1>7. {w[j] : j \in 1 .. l} = {w[j] : j \in 1 .. l - 1} \cup {w[l]}
  BY <1>4
<1> QED
  BY <1>3, <1>5, <1>6, <1>7

\* ValidCallsReturn: no call aborts, writes outside the heap or hangs, unless a call met
\* one of the cases that sf_malloc, sf_free and sf_realloc do not survive.
THEOREM CallsReturn == Spec => []ValidCallsReturn
<1>1. Typed /\ Healthy => ValidCallsReturn
  BY FoundIs DEF ValidCallsReturn
<1> QED
  BY <1>1, AlwaysHealthy, PTL

\* DataKept: what a caller wrote stays until it frees the block, whatever is split,
\* joined, grown or moved in between.
THEOREM DataStays == Spec => []DataKept
<1>1. ASSUME Typed, Healthy, ~harmed, NEW u \in Held, NEW j \in 0 .. region[u].kept - 1
      PROVE  Word(heap, region[u].at + j) = Data(u)
  <2>1. PICK B, F, sz : Found(B, F, sz)
    BY <1>1, FoundIs
  <2>2. u \in Users /\ region[u] # Nothing /\ region[u].kept \in Nat
    BY <1>1, <2>1 DEF Held, Found, Owned, Regions, Extent
  <2>3. j \in Nat /\ j < region[u].kept
    BY <1>1, <2>2
  <2> QED
    BY <2>1, <2>2, <2>3 DEF Found, Owned, Owns
<1>2. Typed /\ Healthy => DataKept
  BY <1>1 DEF DataKept
<1> QED
  BY <1>2, AlwaysHealthy, PTL

\* BlocksTile: the blocks lie side by side from one end of the heap to the other, and
\* the footer of each agrees with its header.
THEOREM BlocksSideBySide == Spec => []BlocksTile
<1>1. ASSUME Typed, Healthy, ~harmed, NEW B, NEW F, NEW sz, Found(B, F, sz), NEW b \in B
      PROVE  /\ SizeAt(heap, b) >= LIST_1_MIN
             /\ TagAt(heap, b + SizeAt(heap, b) - 1).size = SizeAt(heap, b)
             /\ TagAt(heap, b + SizeAt(heap, b) - 1).alloc = TagAt(heap, b).alloc
             /\ TagAt(heap, b + SizeAt(heap, b) - 1).padded = TagAt(heap, b).padded
  <2>1. SizeAt(heap, b) = sz[b] /\ IsBlock(heap, b, Kind(F, b), sz[b]) /\ sz[b] >= 4
    BY <1>1, SoundIs, TileIs DEF Found
  <2> QED
    BY <2>1 DEF IsBlock, LIST_1_MIN
<1>2. Typed /\ Healthy => BlocksTile
  <2> SUFFICES ASSUME Typed, Healthy, ~harmed
               PROVE  /\ Last(Blocks) = Len(heap.mem) + 1
                      /\ \A b \in ToSet(Front(Blocks)) :
                           LET header == TagAt(heap, b)
                               footer == TagAt(heap, b + header.size - 1)
                           IN /\ header.size >= LIST_1_MIN
                              /\ footer.size = header.size
                              /\ footer.alloc = header.alloc /\ footer.padded = header.padded
    BY Zenon DEF BlocksTile
  <2>1. PICK B, F, sz : Found(B, F, sz)
    BY FoundIs
  <2>2. Last(Blocks) = Len(heap.mem) + 1 /\ ToSet(Front(Blocks)) = B
    BY <2>1, BlocksAre
  <2> QED
    BY <1>1, <2>1, <2>2 DEF SizeAt
<1> QED
  BY <1>2, AlwaysHealthy, PTL

\* The n words of caller u lie in the allocated block of m words at h.
Lies(B, F, sz, u, h, n, m) ==
  /\ h \in B /\ h \notin F /\ h = region[u].at - 1 /\ n = region[u].size /\ m = sz[h]
  /\ n + 2 <= m /\ Words(u) = h + 1 .. h + n

\* RegionsInBlocks: what a caller was given lies in one allocated block, large enough,
\* and no two callers share a word.
THEOREM RegionsApart == Spec => []RegionsInBlocks
<1>1. ASSUME Typed, Healthy, NEW B, NEW F, NEW sz, Found(B, F, sz), NEW u \in Held
      PROVE  \E h \in Int, n \in Nat, m \in Nat : Lies(B, F, sz, u, h, n, m)
  <2>1. PICK h \in B : /\ h \notin F /\ region[u].at = h + 1 /\ h = region[u].at - 1 /\ h \in Int
                       /\ region[u].size + 2 <= sz[h]
    BY <1>1, HeldBlock DEF Held, Found
  <2>2. region[u].size \in Nat /\ sz[h] \in Nat
    BY <1>1, <2>1, SoundIs, TileIs DEF Held, Found, Owned, Regions, Extent
  <2>3. PICK n \in Nat, m \in Nat : n = region[u].size /\ m = sz[h]
    BY <2>2
  <2>4. Words(u) = h + 1 .. h + 1 + n - 1 /\ h + 1 + n - 1 = h + n
    BY <2>1, <2>3 DEF Words
  <2> QED
    BY <2>1, <2>3, <2>4 DEF Lies
<1>2. ASSUME Typed, Healthy, NEW B, NEW F, NEW sz, Found(B, F, sz)
      PROVE  RegionsAreOwn
  <2>1. ASSUME NEW u \in Held PROVE Words(u) \subseteq DOMAIN heap.mem
    <3>1. PICK h \in Int, n \in Nat, m \in Nat : Lies(B, F, sz, u, h, n, m)
      BY <1>1, <1>2, <2>1
    <3>2. PICK l \in Nat : l = Len(heap.mem) /\ DOMAIN heap.mem = 1 .. l
      BY <1>2, SoundIs, MemType DEF Found
    <3>3. h >= 1 /\ h + m <= l + 1 /\ n + 2 <= m /\ Words(u) = h + 1 .. h + n
      BY <1>2, <3>1, <3>2, SoundIs, TileIs DEF Found, Lies
    <3> QED
      BY <3>2, <3>3
  <2>2. ASSUME NEW u \in Held, NEW v \in Held, u # v PROVE Words(u) \cap Words(v) = {}
    <3>1. PICK h \in Int, n \in Nat, m \in Nat : Lies(B, F, sz, u, h, n, m)
      BY <1>1, <1>2, <2>2
    <3>2. PICK g \in Int, k \in Nat, l \in Nat : Lies(B, F, sz, v, g, k, l)
      BY <1>1, <1>2, <2>2
    <3>3. h # g
      <4>1. region[u].at - 1 = h /\ region[v].at - 1 = g
        BY <3>1, <3>2 DEF Lies
      <4>2. u \in Users /\ v \in Users /\ region[u] # Nothing /\ region[v] # Nothing
        BY <2>2 DEF Held
      <4> QED
        BY <1>2, <2>2, <4>1, <4>2, HeldBlock DEF Found
    <3>4. Tile(B, sz, Len(heap.mem)) /\ h \in B /\ g \in B /\ m = sz[h] /\ l = sz[g]
      BY <1>2, <3>1, <3>2, SoundIs DEF Found, Lies
    <3>5. (h < g => h + m <= g) /\ (g < h => g + l <= h)
      BY <3>4, TileIs
    <3>6. n + 2 <= m /\ Words(u) = h + 1 .. h + n /\ k + 2 <= l /\ Words(v) = g + 1 .. g + k
      BY <3>1, <3>2 DEF Lies
    <3> QED
      BY <3>3, <3>5, <3>6
  <2> QED
    BY <2>1, <2>2 DEF RegionsAreOwn
<1>3. ASSUME Typed, Healthy, NEW B, NEW F, NEW sz, Found(B, F, sz), NEW u \in Held,
             NEW b, b = region[u].at - 1
      PROVE  b \in ToSet(Blocks) /\ TagAt(heap, b).alloc = 1 /\ region[u].size + 2 <= SizeAt(heap, b)
  <2>1. b \in B /\ b \notin F /\ region[u].size + 2 <= sz[b]
    BY <1>1, <1>3 DEF Lies
  <2>2. SizeAt(heap, b) = sz[b] /\ TagAt(heap, b).alloc = Kind(F, b)
    BY <1>3, <2>1, SoundIs DEF Found
  <2> QED
    BY <1>3, <2>1, <2>2, BlocksAre DEF Kind
<1>4. Typed /\ Healthy => RegionsInBlocks
  <2> SUFFICES ASSUME Typed, Healthy, ~harmed
               PROVE  RegionsAreOwn /\ \A u \in Held :
                        LET b == region[u].at - 1
                        IN /\ b \in ToSet(Blocks) /\ TagAt(heap, b).alloc = 1
                           /\ region[u].size + 2 <= SizeAt(heap, b)
    BY DEF RegionsInBlocks
  <2>1. PICK B, F, sz : Found(B, F, sz)
    BY FoundIs
  <2> QED
    BY <1>2, <1>3, <2>1
<1> QED
  BY <1>4, AlwaysHealthy, PTL

\* The chain of list i holds the blocks of F of class i.
Holds(F, i, chain) ==
  /\ Last(chain) = Null
  /\ ToSet(Front(chain)) = {b \in F : Class(SizeAt(heap, b)) = i}
  /\ IsInjective(chain)
  /\ \A k \in 1 .. Len(chain) - 1 : PrevOf(heap, chain[k]) = IF k = 1 THEN Null ELSE chain[k - 1]

LEMMA ListHolds ==
  ASSUME NEW B, NEW F, NEW sz, Found(B, F, sz), NEW i \in Lists,
         NEW w, w = Chain(heap, heap.heads[i])
  PROVE  Holds(F, i, w)
<1>1. PICK cl, rk : cl = ClassFn(sz) /\ Linked(heap, F, cl, rk)
  BY DEF Found, Sound, LinkedSomehow
<1>2. PICK a : a = heap.heads[i] /\ a \in F \cup {Null} /\ (a # Null => cl[a] = i)
  BY <1>1, LinkedIs
<1>3. ChainOf(heap, F, cl, rk, a, w)
  <2>1. Tagged(heap, F)
    BY SoundIs DEF Found
  <2> QED
    BY <1>1, <1>2, <2>1, ChainOn
<1>4. \A b \in F : cl[b] = Class(SizeAt(heap, b)) /\ rk[b] \in Nat /\ b # Null
  BY <1>1, ClassFnIs, SoundIs, LinkedIs DEF Found
<1>5. PICK l \in Nat : l = Len(w) /\ l >= 1 /\ w \in Seq(Int) /\ w[l] = Null /\ w[1] = a
  BY <1>3 DEF ChainOf
<1>6. \A j \in 1 .. l - 1 : w[j] \in F /\ a \in F /\ cl[w[j]] = cl[a] /\ w[j + 1] = NextOf(heap, w[j])
  BY <1>3, <1>5 DEF ChainOf
<1>7. Last(w) = Null /\ ToSet(Front(w)) = {w[j] : j \in 1 .. l - 1}
  BY <1>5, EndsOf
<1>8. ASSUME NEW c \in F, cl[c] = i
      PROVE  \E j \in 1 .. l - 1 : w[j] = c
  <2>1. a \in F /\ cl[a] = cl[c] /\ (c = a \/ rk[c] < rk[a])
    BY <1>1, <1>2, <1>8, HeadMost
  <2>2. rk[c] <= rk[a]
    BY <1>4, <2>1
  <2> QED
    BY <1>3, <1>5, <2>1, <2>2 DEF ChainOf
<1>9. {w[j] : j \in 1 .. l - 1} = {b \in F : Class(SizeAt(heap, b)) = i}
  <2>1. \A j \in 1 .. l - 1 : w[j] \in F /\ cl[w[j]] = i
    BY <1>2, <1>4, <1>6
  <2> QED
    BY <1>4, <1>8, <2>1
<1>10. ASSUME NEW j \in 1 .. l, NEW k \in 1 .. l, j < k PROVE w[j] # w[k]
  <2>1. j \in 1 .. l - 1 /\ w[j] \in F /\ w[j] # Null
    BY <1>4, <1>6, <1>10
  <2>2. CASE k = l
    BY <1>5, <2>1, <2>2
  <2>3. CASE k # l
    <3>1. k \in 1 .. l - 1 /\ w[k] \in F
      BY <1>6, <2>3
    <3>2. rk[w[k]] < rk[w[j]]
      BY <1>3, <1>5, <1>10, <2>1, <3>1 DEF ChainOf
    <3>3. rk[w[k]] \in Nat
      BY <1>4, <3>1
    <3>4. rk[w[k]] # rk[w[j]]
      BY <3>2, <3>3
    <3> QED
      BY <3>4
  <2> QED
    BY <2>2, <2>3
<1>11. IsInjective(w)
  <2>1. DOMAIN w = 1 .. l
    BY <1>5
  <2>2. ASSUME NEW j \in 1 .. l, NEW k \in 1 .. l, w[j] = w[k] PROVE j = k
    <3>1. ~(j < k) /\ ~(k < j)
      BY <1>10, <2>2
    <3> QED
      BY <3>1
  <2> QED
    BY <2>1, <2>2 DEF IsInjective
<1>12. ASSUME NEW k \in 1 .. l - 1
       PROVE  PrevOf(heap, w[k]) = IF k = 1 THEN Null ELSE w[k - 1]
  <2>1. CASE k = 1
    <3>1. w[k] = heap.heads[i] /\ heap.heads[i] # Null
      BY <1>2, <1>4, <1>5, <1>6, <2>1
    <3> QED
      BY <1>1, <2>1, <3>1, LinkedIs
  <2>2. CASE k # 1
    <3>1. k - 1 \in 1 .. l - 1 /\ (k - 1) + 1 = k
      BY <2>2
    <3>2. w[k - 1] \in F /\ w[k] = NextOf(heap, w[k - 1]) /\ w[k] # Null
      BY <1>4, <1>6, <3>1
    <3>3. PrevOf(heap, w[k]) = w[k - 1]
      BY <1>1, <3>2, LinkedIs
    <3> QED
      BY <2>2, <3>3
  <2> QED
    BY <2>1, <2>2
<1> QED
  BY <1>5, <1>7, <1>9, <1>11, <1>12 DEF Holds

\* ListsExact: the list of each class holds the free blocks of that class, each once, in
\* the order in which next leads from one to the other and prev back, up to Null.
THEOREM ExactLists == Spec => []ListsExact
<1>1. ASSUME Typed, Healthy, NEW B, NEW F, NEW sz, Found(B, F, sz)
      PROVE  FreeBlocks = F
  <2>1. ToSet(Blocks) = B \cup {Len(heap.mem) + 1} /\ F \subseteq B
    BY <1>1, BlocksAre, SoundIs DEF Found
  <2>2. \A b \in B : TagAt(heap, b).alloc = 0 <=> b \in F
    BY <1>1, SoundIs DEF Found, Kind
  <2>3. TagAt(heap, Len(heap.mem) + 1).alloc # 0
    <3>1. HeapType(heap) /\ DOMAIN heap.mem = 1 .. Len(heap.mem) /\ Len(heap.mem) \in Nat
      BY <1>1, SoundIs, MemType DEF Found
    <3>2. Len(heap.mem) + 1 \notin DOMAIN heap.mem
      BY <3>1
    <3>3. TagAt(heap, Len(heap.mem) + 1) = NoTag
      BY <3>1, <3>2, WordType
    <3>4. NoTag.alloc = Wild /\ Wild # 0
      BY Page DEF NoTag, Tag, Wild
    <3> QED
      BY <3>3, <3>4
  <2> QED
    BY <2>1, <2>2, <2>3 DEF FreeBlocks
<1>2. Typed /\ Healthy => ListsExact
  <2> SUFFICES ASSUME Typed, Healthy, ~harmed
               PROVE  \A i \in Lists : Holds(FreeBlocks, i, Chain(heap, heap.heads[i]))
    BY Zenon DEF ListsExact, Holds
  <2>1. PICK B, F, sz : Found(B, F, sz)
    BY FoundIs
  <2>2. FreeBlocks = F
    BY <1>1, <2>1
  <2> QED
    BY <2>1, <2>2, ListHolds
<1> QED
  BY <1>2, AlwaysHealthy, PTL

=============================================================================
