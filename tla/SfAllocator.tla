---------------------------- MODULE SfAllocator ----------------------------
(***************************************************************************)
(* sf_malloc, sf_free and sf_realloc of Memory_Allocator/src/sfmm.c: four  *)
(* segregated free lists over a heap of at most four pages.                *)
(*                                                                         *)
(* The heap is a sequence of words of 8 bytes, and all sizes count words:  *)
(* a row of 16 bytes is 2, an odd size is one that is no multiple of 16.   *)
(* A block of n words at address b has its header at b, its footer at      *)
(* b + n - 1, and while it is free its next and prev at b + 1 and b + 2.   *)
(* A word is                                                               *)
(*   a tag      a header or a footer; Zero is also a null pointer          *)
(*   [at |-> a] a pointer                                                  *)
(*   [of |-> u] data of caller u, or what malloc'ed memory happens to hold *)
(*                                                                         *)
(* An access outside the heap, through a null or a garbage pointer or to   *)
(* a garbage tag, and a loop that does not end, make the heap Lost: the    *)
(* program crashes, hangs or goes on with other memory, and the model      *)
(* stops.                                                                  *)
(***************************************************************************)
EXTENDS Integers, Sequences, SequencesExt, FiniteSets

CONSTANTS
  Users,       \* the pointer variables of the program that calls sfmm.c
  NoUser,      \* whose data uninitialized memory holds
  PAGE_SZ, LIST_1_MAX, LIST_2_MAX, LIST_3_MAX,  \* sfmm.h, in words
  Sizes,       \* the sizes callers ask for
  MaxCalls     \* bound: how often the allocator is called

LIST_1_MIN == 4

ASSUME SizesAssumption ==
  /\ {PAGE_SZ, LIST_1_MAX, LIST_2_MAX, LIST_3_MAX} \subseteq {2 * k : k \in 2 .. PAGE_SZ}
  /\ LIST_1_MAX < LIST_2_MAX /\ LIST_2_MAX < LIST_3_MAX
  /\ Sizes \subseteq Nat /\ NoUser \notin Users
  /\ MaxCalls \in Nat

VARIABLES
  heap,     \* mem, heads: seg_free_list, fresh: what a new page holds, lost
  region,   \* what each user holds: its address, its size, and how many of
            \* its words the user has written
  sf_errno, \* the program resets it before each call
  aborted,  \* abort was called
  harmed,   \* history: a call met a case the allocator does not survive
  calls     \* history: the number of calls

vars == <<heap, region, sf_errno, aborted, harmed, calls>>

-----------------------------------------------------------------------------
(* Words.  Null and Wild are addresses whose fields are outside any heap. *)

Null == -8
Wild == -8 * PAGE_SZ

Tag(a, p, n, r) == [alloc |-> a, padded |-> p, size |-> n, req |-> r]
Zero == Tag(0, 0, 0, 0)
NoTag == Tag(Wild, Wild, Wild, Wild)
Ptr(a) == IF a = Null THEN Zero ELSE [at |-> a]
Data(u) == [of |-> u]

LostHeap ==
  [mem |-> <<>>, heads |-> [i \in 0 .. 3 |-> Null], fresh |-> Zero, lost |-> TRUE]

Word(H, a) == IF a \in DOMAIN H.mem THEN H.mem[a] ELSE Data(NoUser)
TagAt(H, a) == IF "size" \in DOMAIN Word(H, a) THEN Word(H, a) ELSE NoTag
SizeAt(H, a) == TagAt(H, a).size
Pointer(H, a) ==
  IF Word(H, a) = Zero THEN Null
  ELSE IF "at" \in DOMAIN Word(H, a) THEN Word(H, a).at ELSE Wild
NextOf(H, a) == Pointer(H, a + 1)
PrevOf(H, a) == Pointer(H, a + 2)

Set(H, a, w) == IF a \in DOMAIN H.mem THEN [H EXCEPT !.mem[a] = w] ELSE LostHeap
SetTag(H, a, w) == IF TagAt(H, a) = NoTag THEN LostHeap ELSE Set(H, a, w)
SetNext(H, a, b) == Set(H, a + 1, Ptr(b))
SetPrev(H, a, b) == Set(H, a + 2, Ptr(b))
SetHead(H, i, a) == [H EXCEPT !.heads[i] = a]

\* sf_sbrk, k times: it fails beyond the fourth page.
PagesLeft(H) == 4 - Len(H.mem) \div PAGE_SZ
Sbrk(H, k) ==
  LET grown == IF k < PagesLeft(H) THEN k ELSE PagesLeft(H)
  IN [H EXCEPT !.mem = @ \o [j \in 1 .. grown * PAGE_SZ |-> H.fresh]]

-----------------------------------------------------------------------------
(* Blocks and lists *)

\* Mutant: no padding.
NeedUnpadded(s) == 2 + s

\* The size of a block for a request of s words: header, footer, padding.
Need(s) == 2 + s + (s % 2)

Class(n) == Cardinality({m \in {LIST_1_MAX, LIST_2_MAX, LIST_3_MAX} : m < n})

\* Where a remainder of n words goes.
Place(n) == IF n < LIST_1_MIN THEN 3 ELSE Class(n)

\* The header and the footer of a block allocated at b.
Alloc(H, b, s) ==
  LET n == Need(s)
  IN Set(Set(H, b, Tag(1, s % 2, n, 0)), b + n - 1, Tag(1, s % 2, n, s))

\* A free block of n words at f, in no list.  With less than LIST_1_MIN words the
\* links lie in the block behind it, and with none the footer before it.
Carve(H, f, n) ==
  LET header == Set(H, f, Tag(0, 0, n, 0))
      links  == SetPrev(SetNext(header, f, Null), f, Null)
  IN IF n < 0 THEN LostHeap ELSE Set(links, f + n - 1, Tag(0, 0, n, 0))

\* The addresses a walk from a meets: up to the first that is no block, or until
\* it must have come back to one.
Walk(H, step, a) ==
  LET met[w \in Seq(Int) \ {<<>>}] ==
        IF Len(w) > Len(H.mem) \/ TagAt(H, Last(w)) = NoTag THEN w
        ELSE met[Append(w, step[Last(w)])]
  IN met[<<a>>]

Chain(H, a) == Walk(H, [b \in Int |-> NextOf(H, b)], a)

\* Where a loop along next that looks for a block stops: at the block, at Null,
\* or never (Wild).
Seek(H, a, Test(_)) ==
  LET chain == Chain(H, a)
      k == SelectInSeq(chain, LAMBDA b : b = Null \/ (TagAt(H, b) # NoTag /\ Test(b)))
  IN IF k = 0 THEN Wild ELSE chain[k]

SeekSize(H, a, n) == Seek(H, a, LAMBDA b : SizeAt(H, b) = n)

Push(H, i, f) ==
  LET old == H.heads[i]
      linked == SetPrev(SetPrev(SetNext(H, f, old), f, Null), old, f)
  IN SetHead(IF old = Null THEN H ELSE linked, i, f)

\* The head's successor becomes the head.
PopHead(H, i) ==
  LET q == NextOf(H, H.heads[i])
      cut == SetNext(SetHead(H, i, q), PrevOf(H, q), Null)
  IN SetPrev(cut, q, Null)

\* Block p leaves the list between its neighbours.
Detach(H, p) ==
  LET a == NextOf(H, p)
      b == PrevOf(H, p)
      before == SetNext(H, b, a)
      around == IF a = Null THEN before ELSE SetPrev(before, a, b)
  IN SetPrev(SetNext(around, p, Null), p, Null)

-----------------------------------------------------------------------------
(* sf_malloc.  What a call leaves and returns: the heap, the block, the    *)
(* errno it sets, whether it calls abort, and whether it met no case that  *)
(* harms the heap.                                                         *)

Result(H, p, errno, abort, safe) ==
  [heap |-> IF H.lost THEN LostHeap ELSE H, ptr |-> IF H.lost THEN Null ELSE p,
   errno |-> errno, abort |-> abort, safe |-> safe]
Granted(H, b, safe) == Result(H, b + 1, "none", FALSE, safe)
Refused(H, errno, safe) == Result(H, Null, errno, FALSE, safe)
Abort(H) == Result(H, Null, "none", TRUE, TRUE)

\* A block at b out of total new words; what is left becomes the head of its list,
\* and whatever was in that list is dropped.
Fill(H, b, total, s) ==
  LET f == b + Need(s)
      rest == total - Need(s)
      H1 == Alloc(H, b, s)
  IN IF f = Len(H.mem) + 1 THEN H1 ELSE SetHead(Carve(H1, f, rest), Place(rest), f)

FillSafe(H, total, s) ==
  LET rest == total - Need(s)
  IN rest = 0 \/ (rest >= LIST_1_MIN /\ H.heads[Place(rest)] = Null)

firstAllocation(H, s) ==
  LET G == Sbrk(H, 1) IN Granted(Fill(G, 1, PAGE_SZ, s), 1, FillSafe(G, PAGE_SZ, s))

multiplePageAllocations(H, s) ==
  LET k == 1 + s \div PAGE_SZ
      G == Sbrk(H, k)
      b == IF PagesLeft(H) = 0 THEN Wild ELSE Len(H.mem) + 1
  IN Granted(Fill(G, b, k * PAGE_SZ, s), b,
             k <= PagesLeft(H) /\ FillSafe(G, k * PAGE_SZ, s))

\* The list from which a split takes the block of n words: emptied when it has one
\* block, else searched behind the head for a block of that size.
RemoveSplit(H, i, n) ==
  LET h == H.heads[i]
      q == SeekSize(H, NextOf(H, h), n)
  IN IF NextOf(H, h) = Null /\ PrevOf(H, h) = Null THEN SetHead(H, i, Null)
     ELSE IF q = Null THEN H
     ELSE SetNext(H, PrevOf(H, q), NextOf(H, q))

\* Mutant: the last block of the heap is given out and stays in its list.
TakeListed(H, i, p, s) ==
  LET f == p + Need(s)
      rest == SizeAt(H, p) - Need(s)
      H1 == Alloc(H, p, s)
      split == SetPrev(Push(RemoveSplit(Carve(H1, f, rest), i, Need(s)), Place(rest), f), f, Null)
  IN IF f = Len(H.mem) + 1 THEN Granted(H1, p, TRUE)
     ELSE Granted(split, p, rest >= LIST_1_MIN /\ NextOf(H, p) = Null)

\* The block at p of list i is large enough.  A block that reaches the end of the heap
\* leaves its list; any other is split, even when nothing is left.
Take(H, i, p, s) ==
  LET f == p + Need(s)
      rest == SizeAt(H, p) - Need(s)
      H1 == Alloc(H, p, s)
      whole ==
        IF p # H.heads[i] THEN Detach(H1, p)
        ELSE IF NextOf(H1, p) = Null THEN SetHead(H1, i, Null)
        ELSE PopHead(H1, i)
      split == SetPrev(Push(RemoveSplit(Carve(H1, f, rest), i, Need(s)), Place(rest), f), f, Null)
  IN IF f = Len(H.mem) + 1 THEN Granted(whole, p, TRUE)
     ELSE Granted(split, p, rest >= LIST_1_MIN /\ NextOf(H, p) = Null)

\* The free block of n words at the end of the heap leaves its list.  The loop behind
\* the head does not advance once it has found a block of that size.
RemoveLast(H, n) ==
  LET i == Class(n)
      h == H.heads[i]
  IN IF NextOf(H, h) = Null /\ PrevOf(H, h) = Null THEN SetHead(H, i, Null)
     ELSE IF SizeAt(H, h) = n THEN PopHead(H, i)
     ELSE IF SeekSize(H, NextOf(H, h), n) = Null THEN H
     ELSE LostHeap

\* New pages, together with the last block when it is free.
Grow(H, s) ==
  LET end  == Len(H.mem)
      foot == TagAt(H, end)
      free == foot.alloc = 0
      n == IF free THEN foot.size ELSE 0
      b == end + 1 - n
      asked == Min({k \in 1 .. 4 : k = 4 \/ s <= k * PAGE_SZ})
      taken == Min({k \in 1 .. 5 : s + 2 <= n + k * PAGE_SZ})
      G == Sbrk(H, taken)
      K == IF free THEN RemoveLast(G, n) ELSE G
  IN IF asked > PagesLeft(H) THEN Refused(H, "ENOMEM", TRUE)
     ELSE IF foot = NoTag THEN Granted(LostHeap, Null, FALSE)
     ELSE IF taken > PagesLeft(H) THEN Refused(Sbrk(H, PagesLeft(H)), "ENOMEM", FALSE)
     ELSE Granted(Fill(K, b, n + taken * PAGE_SZ, s), b,
                  /\ free => H.heads[Class(n)] = b
                  /\ FillSafe(K, n + taken * PAGE_SZ, s))

sf_malloc(H, s) ==
  LET fit(i) == Seek(H, H.heads[i], LAMBDA b : SizeAt(H, b) >= s + 2)
      lists == {i \in Class(s) .. 3 : fit(i) # Null}
  IN IF s = 0 \/ s > 4 * PAGE_SZ THEN Refused(H, "EINVAL", TRUE)
     ELSE IF s + 2 > 4 * PAGE_SZ THEN Refused(H, "ENOMEM", TRUE)
     ELSE IF s >= PAGE_SZ /\ \A i \in 0 .. 3 : H.heads[i] = Null
          THEN multiplePageAllocations(H, s)
     ELSE IF H.mem = <<>> THEN firstAllocation(H, s)
     ELSE IF lists # {} THEN Take(H, Min(lists), fit(Min(lists)), s)
     ELSE Grow(H, s)

-----------------------------------------------------------------------------
(* sf_free and sf_realloc *)

\* What both look at before they trust a pointer.
Trusted(H, p) ==
  LET header == TagAt(H, p - 1)
      f == p - 2 + header.size
      footer == TagAt(H, f)
      whole == footer.req + 2 = footer.size \/ footer.padded = 1 \/ header.padded = 1
  IN IF header = NoTag THEN "garbage"
     ELSE IF f > Len(H.mem) \/ header.alloc = 0 THEN "no"
     ELSE IF footer = NoTag THEN "garbage"
     ELSE IF footer.alloc = 0 \/ ~whole \/ header.padded # footer.padded THEN "no"
     ELSE "yes"

\* Mutant: the block joined stays in its list.
RemoveNextNot(H, n) == H

\* The free block of n words behind the one being freed leaves its list.
RemoveNext(H, n) ==
  LET i == Class(n)
      h == H.heads[i]
      q == SeekSize(H, NextOf(H, h), n)
  IN IF NextOf(H, h) = Null THEN SetHead(H, i, Null)
     ELSE IF SizeAt(H, h) = n THEN PopHead(H, i)
     ELSE IF q = Null THEN H ELSE Detach(H, q)

\* Mutant: the footer keeps the old size.
coalescHeader(H, h, n) ==
  RemoveNext(SetTag(H, h, [TagAt(H, h) EXCEPT !.size = @ + n]), n)

coalescBlocks(H, h, n) ==
  LET both == SizeAt(H, h) + n
      g == h + both - 1
      H1 == SetTag(H, h, [TagAt(H, h) EXCEPT !.size = both])
  IN RemoveNext(SetTag(H1, g, [TagAt(H1, g) EXCEPT !.size = both]), n)

\* The block at h with its bits reset, joined with the block behind it if that is free.
Freed(H, h) ==
  LET f == h + SizeAt(H, h) - 1
      behind == TagAt(H, f + 1)
      Reset(G, a) == SetTag(G, a, [TagAt(G, a) EXCEPT !.alloc = 0])
      Unpad(G, a) == SetTag(G, a, [TagAt(G, a) EXCEPT !.padded = 0])
      H1 == Reset(Reset(H, h), f)
      H2 == IF f = Len(H.mem) THEN H1
            ELSE IF behind = NoTag THEN LostHeap
            ELSE IF behind.alloc = 0 THEN coalescBlocks(H1, h, behind.size)
            ELSE H1
  IN Unpad(Unpad(H2, h), f)

\* Into an empty list it goes with the links it has.
Release(G, h) ==
  LET i == Class(SizeAt(G, h))
  IN IF G.heads[i] = Null THEN SetHead(G, i, h) ELSE Push(G, i, h)

\* The block at e behind is the first of its size in its list, and the words that
\* become the links of the only block in a list are null.
ReleaseSafe(H, e, G, h) ==
  /\ (e <= Len(H.mem) /\ TagAt(H, e).alloc = 0) =>
       SeekSize(H, H.heads[Class(SizeAt(H, e))], SizeAt(H, e)) = e
  /\ G.heads[Class(SizeAt(G, h))] = Null =>
       NextOf(G, h) = Null /\ PrevOf(G, h) = Null

\* The block at h of H, which is G once the block is freed.
FreedInto(H, G, h) ==
  Result(Release(G, h), Null, "none", FALSE, ReleaseSafe(H, h + SizeAt(H, h), G, h))

sf_free(H, p) ==
  CASE Trusted(H, p) = "yes" -> FreedInto(H, Freed(H, p - 1), p - 1)
    [] Trusted(H, p) = "no" -> Abort(H)
    [] OTHER -> Refused(LostHeap, "none", FALSE)

\* memcpy of n words, between blocks that do not overlap.
Copy(H, from, to, n) ==
  IF n < 0 \/ to + n - 1 > Len(H.mem) THEN LostHeap
  ELSE [H EXCEPT !.mem = [a \in DOMAIN @ |->
          IF a \in to .. to + n - 1 THEN Word(H, from + a - to) ELSE @[a]]]

\* The outcome of a call that went on with another one.
After(r, last) == [last EXCEPT !.ptr = r.ptr, !.safe = @ /\ r.safe]

CopyTo(r, H, p) == Copy(H, p, r.ptr, SizeAt(r.heap, p - 1) - 2)

\* Mutant: frees the old block before it copies.
MoveFreesFirst(r, p) ==
  LET last == sf_free(r.heap, p)
  IN IF r.ptr = Null THEN r
     ELSE After(r, [last EXCEPT !.heap = CopyTo(r, last.heap, p)])

\* To the block of r, if there is one.
Move(r, p) ==
  IF r.ptr = Null THEN r ELSE After(r, sf_free(CopyTo(r, r.heap, p), p))

Larger(H, p, s) == Move(sf_malloc(H, s), p)

\* Mutant: the header of the part split off is not marked as padded.
SmallerHeader(H, p, s) ==
  LET h == p - 1
      n == SizeAt(H, h)
      f == h + n - 1
      rest == n - Need(s)
      H1 == Set(Alloc(H, h, s), h + Need(s), Tag(1, 0, rest, 0))
      H2 == Set(H1, f, Tag(1, 1, rest, TagAt(H, f).req))
      kept == Set(H, f, [TagAt(H, f) EXCEPT !.req = s])
  IN IF n - 2 - s >= LIST_1_MIN THEN [sf_free(H2, h + Need(s) + 1) EXCEPT !.ptr = p]
     ELSE Granted(kept, h, s + 2 = n \/ TagAt(H, f).padded = 1)

\* With room for a block behind it the block is split and the rest is freed; else
\* only the footer's requested_size changes.
Smaller(H, p, s) ==
  LET h == p - 1
      n == SizeAt(H, h)
      f == h + n - 1
      e == h + Need(s)
      rest == n - Need(s)
      H1 == Alloc(H, h, s)
      H2 == Set(H1, e, Tag(1, 1, rest, 0))
      H3 == Set(H2, f, Tag(1, 1, rest, TagAt(H, f).req))
      kept == Set(H, f, [TagAt(H, f) EXCEPT !.req = s])
  IN IF n - 2 - s >= LIST_1_MIN THEN [sf_free(H3, e + 1) EXCEPT !.ptr = p]
     ELSE Granted(kept, h, s + 2 = n \/ TagAt(H, f).padded = 1)

sf_realloc(H, p, s) ==
  CASE Trusted(H, p) = "no" -> Abort(H)
    [] Trusted(H, p) = "garbage" -> Refused(LostHeap, "none", FALSE)
    [] OTHER -> IF s = 0 THEN sf_free(H, p)
                ELSE IF s > SizeAt(H, p - 1) - 2 THEN Larger(H, p, s)
                ELSE Smaller(H, p, s)

-----------------------------------------------------------------------------
(* The program: each of its pointers is null or to one block, and it calls *)
(* sf_free and sf_realloc with pointers it was given and did not free.     *)

Nothing == [at |-> Null, size |-> 0, kept |-> 0]
Lists == 0 .. 3

Init ==
  /\ \E w \in {Zero, Data(NoUser)} :
       heap = [mem |-> <<>>, heads |-> [i \in Lists |-> Null], fresh |-> w, lost |-> FALSE]
  /\ region = [u \in Users |-> Nothing]
  /\ sf_errno = "none"
  /\ aborted = FALSE /\ harmed = FALSE /\ calls = 0

Call(r) ==
  /\ ~aborted /\ ~heap.lost /\ calls < MaxCalls
  /\ calls' = calls + 1
  /\ heap' = r.heap
  /\ sf_errno' = r.errno
  /\ aborted' = r.abort
  /\ harmed' = (harmed \/ ~r.safe)

Malloc(u, s) ==
  /\ region[u] = Nothing
  /\ \E r \in {sf_malloc(heap, s)} :
       /\ region' = IF r.ptr = Null THEN region
                    ELSE [region EXCEPT ![u] = [at |-> r.ptr, size |-> s, kept |-> 0]]
       /\ Call(r)

Realloc(u, s) ==
  /\ region[u] # Nothing
  /\ \E r \in {sf_realloc(heap, region[u].at, s)} :
       /\ region' =
            IF s = 0 THEN [region EXCEPT ![u] = Nothing]
            ELSE IF r.ptr = Null THEN region
            ELSE [region EXCEPT ![u] = [at |-> r.ptr, size |-> s, kept |-> Min({s, @.kept})]]
       /\ Call(r)

Free(u) ==
  /\ region[u] # Nothing
  /\ region' = [region EXCEPT ![u] = Nothing]
  /\ \E r \in {sf_free(heap, region[u].at)} : Call(r)

\* The program uses the memory it was given.
Write(u) ==
  LET at == region[u].at
      size == region[u].size
  IN /\ ~aborted /\ ~heap.lost
     /\ region[u].kept < size
     /\ heap' = [heap EXCEPT !.mem = [a \in DOMAIN @ |->
                   IF a \in at .. at + size - 1 THEN Data(u) ELSE @[a]]]
     /\ region' = [region EXCEPT ![u].kept = size]
     /\ UNCHANGED <<sf_errno, aborted, harmed, calls>>

Next ==
  \E u \in Users :
    \/ Free(u)
    \/ Write(u)
    \/ \E s \in Sizes : Malloc(u, s) \/ Realloc(u, s)

Spec == Init /\ [][Next]_vars

-----------------------------------------------------------------------------
(* Properties.  harmed separates the histories the allocator survives from *)
(* those it does not: until a call splits a block that is not the last of  *)
(* its list or leaves less than LIST_1_MIN of it, grows the heap past a    *)
(* free block that is not the head of its list or drops a list's blocks,   *)
(* coalesces with a block whose size an earlier one in its list has, puts  *)
(* a block that was written into an empty list, shrinks an unpadded block  *)
(* in place, asks for a size that leaves no room for header and footer in  *)
(* the pages it takes, or runs out of pages half way, what follows holds.  *)

Address == {Null, Wild} \cup 1 .. 4 * PAGE_SZ

TypeOK ==
  /\ Len(heap.mem) \in {k * PAGE_SZ : k \in 0 .. 4}
  /\ \A a \in DOMAIN heap.mem :
       LET w == heap.mem[a]
       IN \/ "of" \in DOMAIN w /\ w.of \in Users \cup {NoUser}
          \/ "at" \in DOMAIN w /\ w.at \in Address
          \/ "size" \in DOMAIN w /\ w.alloc \in 0 .. 1 /\ w.padded \in 0 .. 1
             /\ w.size \in {2 * k : k \in 0 .. 2 * PAGE_SZ} /\ w.req \in 0 .. 4 * PAGE_SZ
  /\ heap.heads \in [Lists -> Address \ {Wild}]
  /\ region \in [Users -> [at : Address, size : 0 .. 4 * PAGE_SZ, kept : 0 .. 4 * PAGE_SZ]]
  /\ sf_errno \in {"none", "EINVAL", "ENOMEM"}
  /\ aborted \in BOOLEAN /\ harmed \in BOOLEAN /\ calls \in 0 .. MaxCalls

Held == {u \in Users : region[u] # Nothing}
Words(u) == region[u].at .. region[u].at + region[u].size - 1

\* The headers a walk from the start of the heap meets, and where it stops.
Blocks == Walk(heap, [b \in Int |-> b + SizeAt(heap, b)], 1)
FreeBlocks == {b \in ToSet(Blocks) : TagAt(heap, b).alloc = 0}

\* The blocks lie side by side from one end of the heap to the other, each with a
\* footer that agrees with its header, whatever was split, joined and grown before.
BlocksTile ==
  (~harmed /\ heap.mem # <<>>) =>
    /\ Last(Blocks) = Len(heap.mem) + 1
    /\ \A b \in ToSet(Front(Blocks)) :
         LET header == TagAt(heap, b)
             footer == TagAt(heap, b + header.size - 1)
         IN /\ header.size >= LIST_1_MIN
            /\ footer.size = header.size
            /\ footer.alloc = header.alloc /\ footer.padded = header.padded

\* Every free block is in exactly one list, the one of its size, once, and the lists
\* hold nothing else; prev undoes next.  sf_malloc unlinks by size and sf_free sets no
\* links in an empty list, so this is what a long history would break first.
ListsExact ==
  ~harmed =>
    LET free == FreeBlocks
    IN \A i \in Lists :
         LET chain == Chain(heap, heap.heads[i])
         IN /\ Last(chain) = Null
            /\ ToSet(Front(chain)) = {b \in free : Class(SizeAt(heap, b)) = i}
            /\ IsInjective(chain)
            /\ \A k \in 1 .. Len(chain) - 1 :
                 PrevOf(heap, chain[k]) = IF k = 1 THEN Null ELSE chain[k - 1]

\* sfmm.h:122: "the pointer to a valid region of memory of the requested size".
RegionsAreOwn ==
  ~heap.lost =>
    \A u, v \in Held :
      /\ Words(u) \subseteq DOMAIN heap.mem
      /\ u # v => Words(u) \cap Words(v) = {}

\* What sf_malloc and sf_realloc hand out lies inside one allocated block, large enough,
\* that nobody else was given.
RegionsInBlocks ==
  ~harmed =>
    /\ RegionsAreOwn
    /\ LET blocks == ToSet(Blocks)
       IN \A u \in Held :
            LET b == region[u].at - 1
            IN /\ b \in blocks /\ TagAt(heap, b).alloc = 1
               /\ region[u].size + 2 <= SizeAt(heap, b)

\* What a caller wrote stays until it frees the block, through every split, join, growth
\* and move of other blocks and of its own.
DataKept ==
  ~harmed =>
    \A u \in Held : \A j \in 0 .. region[u].kept - 1 :
      Word(heap, region[u].at + j) = Data(u)

\* sf_free and sf_realloc abort for no pointer they gave (sfmm.h:153), and no call
\* writes outside the heap, follows a garbage link or hangs.
ValidCallsReturn == (aborted \/ heap.lost) => harmed
=============================================================================
