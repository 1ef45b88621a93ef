------------------------- MODULE CreamQueue_proofs -------------------------
(***************************************************************************)
(* Theorems about CreamQueue, for any number of producers, consumers,      *)
(* destroyers and calls.                                                   *)
(***************************************************************************)
EXTENDS CreamQueue, FiniteSetTheorems, SequenceTheorems, TLAPS

-----------------------------------------------------------------------------
(* Typing and mutual exclusion *)

\* A sequence cut after its first n elements (queue.c:25-30).
LEMMA SplitSeq ==
  ASSUME NEW s \in Seq(Nat), NEW n \in Nat, n <= Len(s)
  PROVE  /\ SubSeq(s, 1, n) \in Seq(Nat)
         /\ Len(SubSeq(s, 1, n)) = n
         /\ \A i \in 1 .. n : SubSeq(s, 1, n)[i] = s[i]
         /\ SubSeq(s, n + 1, Len(s)) \in Seq(Nat)
         /\ Len(SubSeq(s, n + 1, Len(s))) = Len(s) - n
         /\ \A i \in 1 .. Len(s) - n : SubSeq(s, n + 1, Len(s))[i] = s[n + i]
<1>1. Len(s) \in Nat /\ \A i \in 1 .. Len(s) : s[i] \in Nat
  BY LenProperties
<1>2. \A i \in 1 .. n : s[i] \in Nat
  BY <1>1
<1>3. \A i \in n + 1 .. Len(s) : s[i] \in Nat
  BY <1>1
<1>4. /\ SubSeq(s, 1, n) \in Seq(Nat)
      /\ Len(SubSeq(s, 1, n)) = IF 1 <= n THEN n - 1 + 1 ELSE 0
      /\ \A i \in 1 .. n - 1 + 1 : SubSeq(s, 1, n)[i] = s[1 + i - 1]
  BY <1>2, SubSeqProperties
<1>5. /\ SubSeq(s, n + 1, Len(s)) \in Seq(Nat)
      /\ Len(SubSeq(s, n + 1, Len(s)))
           = IF n + 1 <= Len(s) THEN Len(s) - (n + 1) + 1 ELSE 0
      /\ \A i \in 1 .. Len(s) - (n + 1) + 1 :
           SubSeq(s, n + 1, Len(s))[i] = s[n + 1 + i - 1]
  <2>1. n + 1 \in Int /\ Len(s) \in Int
    BY <1>1
  <2> QED
    BY ONLY <2>1, <1>3, SubSeqProperties, SMTT(30)
<1> QED
  BY <1>1, <1>4, <1>5

\* Every action keeps the types (queue.c as a whole).
LEMMA TypeStep == ASSUME TypeOK, [Next]_vars PROVE TypeOK'
<1> USE DEF TypeOK
<1>1. CASE UNCHANGED vars
  BY <1>1 DEF vars
<1>2. ASSUME NEW p \in Producers, ProducerStep(p) PROVE TypeOK'
  <2> p \in Threads
    BY DEF Threads
  <2>1. CASE EnqueueLock(p)
    BY <2>1 DEF EnqueueLock, Lock, Places, history
  <2>2. CASE EnqueuePost(p)
    BY <2>2 DEF EnqueuePost, Places, history
  <2>3. ASSUME NEW arg \in {"item", "NULL"}, Enqueue(p, arg) PROVE TypeOK'
    <3>1. CASE EnqueueReject(p, arg)
      BY <3>1 DEF EnqueueReject, Unlock, Places, history
    <3>2. CASE EnqueueOutOfMemory(p, arg)
      BY <3>2 DEF EnqueueOutOfMemory, Places, history
    <3>3. ASSUME Link(p, arg), list' \in Seq(Nat) PROVE TypeOK'
      BY <3>3 DEF Link, Unlock, Places
    <3>4. CASE LinkFirst(p, arg)
      BY <3>3, <3>4 DEF LinkFirst
    <3>5. CASE LinkAfterRear(p, arg)
      BY <3>3, <3>5 DEF LinkAfterRear
    <3>6. CASE LinkAfterFreedRear(p, arg)
      BY <3>3, <3>6 DEF LinkAfterFreedRear
    <3> QED
      BY <2>3, <3>1, <3>2, <3>4, <3>5, <3>6 DEF Enqueue
  <2> QED
    BY <1>2, <2>1, <2>2, <2>3 DEF ProducerStep
<1>3. ASSUME NEW c \in Consumers, ConsumerStep(c) PROVE TypeOK'
  <2> c \in Threads
    BY DEF Threads
  <2>1. CASE DequeueWait(c)
    BY <2>1 DEF DequeueWait, Places, history
  <2>2. CASE DequeueLock(c)
    BY <2>2 DEF DequeueLock, Lock, Places, history
  <2>3. CASE DequeueReject(c)
    BY <2>3 DEF DequeueReject, Unlock, Places, history
  <2>4. CASE DequeueTake(c)
    <3>1. Head(list) \in Nat /\ Tail(list) \in Seq(Nat)
      BY <2>4, HeadTailProperties DEF DequeueTake
    <3> QED
      BY <2>4, <3>1 DEF DequeueTake, Unlock, Places
  <2>5. CASE DequeueCrash(c)
    BY <2>5 DEF DequeueCrash, history
  <2> QED
    BY <1>3, <2>1, <2>2, <2>3, <2>4, <2>5 DEF ConsumerStep
<1>4. ASSUME NEW d \in Destroyers, DestroyerStep(d) PROVE TypeOK'
  <2> d \in Threads
    BY DEF Threads
  <2>1. CASE InvalidateLock(d)
    BY <2>1 DEF InvalidateLock, Lock, Places, history
  <2>2. ASSUME NEW arg, InvalidateReject(d, arg) PROVE TypeOK'
    BY <2>2 DEF InvalidateReject, Unlock, Places, history
  <2>3. ASSUME NEW arg, Invalidate(d, arg) PROVE TypeOK'
    <3>1. /\ SubSeq(list, 1, items) \in Seq(Nat)
          /\ SubSeq(list, items + 1, Len(list)) \in Seq(Nat)
      BY <2>3, SplitSeq DEF Invalidate
    <3>2. destroyed \o SubSeq(list, 1, items) \in Seq(Nat)
      BY <3>1, ConcatProperties
    <3> QED
      BY <2>3, <3>1, <3>2 DEF Invalidate, Unlock, Places
  <2>4. ASSUME NEW arg, InvalidateCrash(d, arg) PROVE TypeOK'
    BY <2>4 DEF InvalidateCrash, history
  <2> QED
    BY <1>4, <2>1, <2>2, <2>3, <2>4 DEF DestroyerStep
<1> QED
  BY <1>1, <1>2, <1>3, <1>4 DEF Next

\* The variables of the queue keep their types.
THEOREM TypeCorrect == Spec => []TypeOK
<1>1. Init => TypeOK
  <2>1. <<>> \in Seq(Nat)
    BY EmptySeq
  <2>2. Init => pc \in [Threads -> Places]
    BY DEF Init, Places
  <2>3. 0 \in Nat /\ FALSE \in BOOLEAN
    OBVIOUS
  <2> QED
    BY <2>1, <2>2, <2>3, Zenon DEF Init, TypeOK
<1> QED
  BY <1>1, TypeStep, PTL DEF Spec

\* The mutex is held by exactly the thread that is inside a critical section
\* of enqueue, dequeue or invalidate_queue, or whose calloc failed there.
THEOREM MutexHeldByOne == Spec => []MutualExclusion
<1> USE DEF Holding
<1>1. Init => MutualExclusion
  BY ThreadsAssumption DEF Init, MutualExclusion
<1>2. ASSUME TypeOK, MutualExclusion, [Next]_vars PROVE MutualExclusion'
  <2> USE ThreadsAssumption DEF TypeOK, MutualExclusion
  <2>1. ASSUME NEW t \in Threads, NEW from, NEW to \in Holding,
               from \notin Holding, Lock(t, from, to)
        PROVE  MutualExclusion'
    BY <1>2, <2>1 DEF Lock
  <2>2. ASSUME NEW t \in Threads, NEW from \in Holding, NEW to,
               to \notin Holding, Unlock(t, from, to)
        PROVE  MutualExclusion'
    BY <1>2, <2>2 DEF Unlock
  <2>3. ASSUME NEW t \in Threads, NEW to,
               lock' = lock, pc' = [pc EXCEPT ![t] = to],
               pc[t] \in Holding <=> to \in Holding
        PROVE  MutualExclusion'
    BY <1>2, <2>3
  <2>4. CASE UNCHANGED <<lock, pc>>
    BY <1>2, <2>4
  <2>5. ASSUME NEW p \in Producers, ProducerStep(p) PROVE MutualExclusion'
    <3>1. p \in Threads
      BY DEF Threads
    <3>2. CASE EnqueueLock(p)
      BY <3>1, <3>2, <2>1 DEF EnqueueLock
    <3>3. CASE EnqueuePost(p)
      BY <3>1, <3>3, <2>3 DEF EnqueuePost
    <3>4. ASSUME NEW arg \in {"item", "NULL"}, Enqueue(p, arg)
          PROVE  MutualExclusion'
      <4>1. CASE EnqueueReject(p, arg)
        BY <3>1, <4>1, <2>2 DEF EnqueueReject
      <4>2. CASE EnqueueOutOfMemory(p, arg)
        BY <3>1, <4>2, <2>3 DEF EnqueueOutOfMemory
      <4>3. CASE Link(p, arg)
        BY <3>1, <4>3, <2>2 DEF Link
      <4> QED
        BY <3>4, <4>1, <4>2, <4>3
           DEF Enqueue, LinkFirst, LinkAfterRear, LinkAfterFreedRear
    <3> QED
      BY <2>5, <3>2, <3>3, <3>4 DEF ProducerStep
  <2>6. ASSUME NEW c \in Consumers, ConsumerStep(c) PROVE MutualExclusion'
    <3>1. c \in Threads
      BY DEF Threads
    <3>2. CASE DequeueWait(c)
      BY <3>1, <3>2, <2>3 DEF DequeueWait
    <3>3. CASE DequeueLock(c)
      BY <3>1, <3>3, <2>1 DEF DequeueLock
    <3>4. CASE DequeueReject(c) \/ DequeueTake(c)
      BY <3>1, <3>4, <2>2 DEF DequeueReject, DequeueTake
    <3>5. CASE DequeueCrash(c)
      BY <3>5, <2>4 DEF DequeueCrash
    <3> QED
      BY <2>6, <3>2, <3>3, <3>4, <3>5 DEF ConsumerStep
  <2>7. ASSUME NEW d \in Destroyers, DestroyerStep(d) PROVE MutualExclusion'
    <3>1. d \in Threads
      BY DEF Threads
    <3>2. CASE InvalidateLock(d)
      BY <3>1, <3>2, <2>1 DEF InvalidateLock
    <3>3. ASSUME NEW arg, InvalidateReject(d, arg) \/ Invalidate(d, arg)
          PROVE  MutualExclusion'
      BY <3>1, <3>3, <2>2 DEF InvalidateReject, Invalidate
    <3>4. ASSUME NEW arg, InvalidateCrash(d, arg) PROVE MutualExclusion'
      BY <3>4, <2>4 DEF InvalidateCrash
    <3> QED
      BY <2>7, <3>2, <3>3, <3>4 DEF DestroyerStep
  <2> QED
    BY <1>2, <2>4, <2>5, <2>6, <2>7 DEF Next, vars
<1> QED
  BY <1>1, <1>2, TypeCorrect, PTL DEF Spec

-----------------------------------------------------------------------------
(* Tokens: the semaphore and the operations in flight, against the list *)

\* The sets of threads in flight are finite.
LEMMA InFlightFinite ==
  /\ IsFiniteSet(Posting) /\ IsFiniteSet(Claimed)
  /\ Cardinality(Posting) \in Nat /\ Cardinality(Claimed) \in Nat
<1>1. Posting \subseteq Producers /\ Claimed \subseteq Consumers
  BY DEF Posting, Claimed
<1>2. IsFiniteSet(Posting) /\ IsFiniteSet(Claimed)
  BY <1>1, ThreadsAssumption, FS_Subset
<1> QED
  BY <1>2, FS_CardinalityType

\* How the sets in flight change when one thread moves.
LEMMA Recount ==
  ASSUME TypeOK, NEW t \in Threads, NEW to, pc' = [pc EXCEPT ![t] = to]
  PROVE  /\ Posting' = IF t \in Producers /\ to = "posting"
                       THEN Posting \cup {t} ELSE Posting \ {t}
         /\ Claimed' = IF t \in Consumers /\ to \in {"claimed", "dequeuing"}
                       THEN Claimed \cup {t} ELSE Claimed \ {t}
<1>1. \A u \in Threads : pc'[u] = IF u = t THEN to ELSE pc[u]
  BY DEF TypeOK
<1> QED
  BY <1>1 DEF Posting, Claimed, Threads

\* A thread at a place counts for one token if the operation it is inside has
\* announced, or taken, an item that the semaphore does not show.
Weight(t, place) ==
  IF \/ t \in Producers /\ place = "posting"
     \/ t \in Consumers /\ place \in {"claimed", "dequeuing"}
  THEN 1 ELSE 0

\* The weights of the places a thread of each kind can be at.
LEMMA Weights ==
  /\ \A p \in Producers :
       /\ \A place \in {"idle", "enqueuing", "leaked"} : Weight(p, place) = 0
       /\ Weight(p, "posting") = 1
  /\ \A c \in Consumers :
       /\ Weight(c, "idle") = 0
       /\ Weight(c, "claimed") = 1 /\ Weight(c, "dequeuing") = 1
  /\ \A d \in Destroyers, place \in Places : Weight(d, place) = 0
BY ThreadsAssumption DEF Weight

\* The move of one thread changes the tokens, and the number of operations in
\* flight, by its weight.
LEMMA MoveTokens ==
  ASSUME TypeOK, TypeOK', NEW t \in Threads, NEW from, NEW to,
         pc[t] = from, pc' = [pc EXCEPT ![t] = to]
  PROVE  /\ Tokens' = Tokens + (items' - items) + Weight(t, to) - Weight(t, from)
         /\ InFlight' = InFlight + Weight(t, to) - Weight(t, from)
<1> DEFINE P == Cardinality(Posting)
           C == Cardinality(Claimed)
<1>1. /\ Posting' = IF t \in Producers /\ to = "posting"
                    THEN Posting \cup {t} ELSE Posting \ {t}
      /\ Claimed' = IF t \in Consumers /\ to \in {"claimed", "dequeuing"}
                    THEN Claimed \cup {t} ELSE Claimed \ {t}
  BY Recount
<1>2. /\ Cardinality(Posting \cup {t}) = IF t \in Posting THEN P ELSE P + 1
      /\ Cardinality(Posting \ {t}) = IF t \in Posting THEN P - 1 ELSE P
      /\ Cardinality(Claimed \cup {t}) = IF t \in Claimed THEN C ELSE C + 1
      /\ Cardinality(Claimed \ {t}) = IF t \in Claimed THEN C - 1 ELSE C
  BY InFlightFinite, FS_AddElement, FS_RemoveElement
<1>3. /\ t \in Posting <=> t \in Producers /\ pc[t] = "posting"
      /\ t \in Claimed <=> t \in Consumers /\ pc[t] \in {"claimed", "dequeuing"}
      /\ t \in Producers => t \notin Consumers
  BY ThreadsAssumption DEF Posting, Claimed
<1>4. P \in Nat /\ C \in Nat
  BY InFlightFinite
<1>5. /\ Cardinality(Posting)'
           = IF t \in Producers /\ to = "posting"
             THEN IF t \in Posting THEN P ELSE P + 1
             ELSE IF t \in Posting THEN P - 1 ELSE P
      /\ Cardinality(Claimed)'
           = IF t \in Consumers /\ to \in {"claimed", "dequeuing"}
             THEN IF t \in Claimed THEN C ELSE C + 1
             ELSE IF t \in Claimed THEN C - 1 ELSE C
  BY <1>1, <1>2
<1>6. /\ Tokens = items + (P + C)
      /\ Tokens' = items' + (Cardinality(Posting)' + Cardinality(Claimed)')
  BY DEF Tokens, InFlight
<1>7. items \in Nat /\ items' \in Nat
  BY DEF TypeOK
<1>8. Tokens' = Tokens + (items' - items) + Weight(t, to) - Weight(t, from)
  BY <1>3, <1>4, <1>5, <1>6, <1>7 DEF Weight
<1>9. InFlight' = InFlight + Weight(t, to) - Weight(t, from)
  <2>1. InFlight = P + C /\ InFlight' = Cardinality(Posting)' + Cardinality(Claimed)'
    BY DEF InFlight
  <2> QED
    BY <1>3, <1>4, <1>5, <2>1 DEF Weight
<1> QED
  BY <1>8, <1>9

\* The tokens are a number, no less than the semaphore, and exactly the
\* semaphore when nothing is in flight.
LEMMA TokensBound ==
  TypeOK => /\ Tokens \in Nat /\ items <= Tokens
            /\ Posting \cup Claimed = {} <=> Tokens = items
            /\ InFlight \in Nat /\ Tokens = items + InFlight
            /\ Len(list) \in Nat /\ items \in Nat
<1>1. /\ Cardinality(Posting) \in Nat /\ Cardinality(Claimed) \in Nat
      /\ Cardinality(Posting) = 0 <=> Posting = {}
      /\ Cardinality(Claimed) = 0 <=> Claimed = {}
  BY InFlightFinite, FS_EmptySet
<1>2. TypeOK => Len(list) \in Nat /\ items \in Nat
  BY LenProperties DEF TypeOK
<1> QED
  BY <1>1, <1>2 DEF Tokens, InFlight

\* Every step keeps the list no longer than the tokens while the queue is
\* valid, and exactly as long if no enqueue overlapped another operation.
TokenInv == NoStrandedItem /\ SerialExact

LEMMA TokenStep ==
  ASSUME TypeOK, TypeOK', TokenInv, [Next]_vars
  PROVE  TokenInv'
<1> USE DEF TokenInv, NoStrandedItem, SerialExact
<1>a. /\ Tokens \in Nat /\ items <= Tokens
      /\ Posting \cup Claimed = {} <=> Tokens = items
      /\ Len(list) \in Nat /\ items \in Nat
  BY TokensBound
<1>b. (Tokens \in Nat /\ Len(list) \in Nat /\ items \in Nat)'
  BY TokensBound, PTL
<1>0. \A t \in Threads, from \in Places, to \in Places :
        pc[t] = from /\ pc' = [pc EXCEPT ![t] = to]
          => Tokens' = Tokens + (items' - items) + Weight(t, to) - Weight(t, from)
  BY MoveTokens
<1>1. ASSUME UNCHANGED <<list, items, invalid, pc, overlapped, crashed>>
      PROVE  TokenInv'
  BY <1>1 DEF Tokens, InFlight, Posting, Claimed
<1>2. ASSUME NEW p \in Producers, ProducerStep(p) PROVE TokenInv'
  <2>1. \A from, to \in Places :
          pc[p] = from /\ pc' = [pc EXCEPT ![p] = to]
            => Tokens' = Tokens + (items' - items) + Weight(p, to) - Weight(p, from)
    BY <1>0 DEF Threads
  <2>k. \A from, to \in {"idle", "enqueuing", "leaked"} :
          pc[p] = from /\ pc' = [pc EXCEPT ![p] = to] /\ items' = items
            => Tokens' = Tokens
    <3> SUFFICES ASSUME NEW from \in {"idle", "enqueuing", "leaked"},
                        NEW to \in {"idle", "enqueuing", "leaked"},
                        pc[p] = from, pc' = [pc EXCEPT ![p] = to], items' = items
                 PROVE  Tokens' = Tokens
      OBVIOUS
    <3>1. Tokens' = Tokens + (items' - items) + Weight(p, to) - Weight(p, from)
      <4>1. from \in Places /\ to \in Places
        BY DEF Places
      <4> QED
        BY <2>1, <4>1, Zenon
    <3>2. Weight(p, to) = 0 /\ Weight(p, from) = 0
      BY Weights
    <3> QED
      BY <1>a, <3>1, <3>2
  <2>l. pc[p] = "enqueuing" /\ pc' = [pc EXCEPT ![p] = "posting"] /\ items' = items
          => Tokens' = Tokens + 1
    <3>1. Weight(p, "enqueuing") = 0 /\ Weight(p, "posting") = 1
      BY Weights
    <3> QED
      BY <1>a, <2>1, <3>1 DEF Places
  <2>p. pc[p] = "posting" /\ pc' = [pc EXCEPT ![p] = "idle"] /\ items' = items + 1
          => Tokens' = Tokens
    <3>1. Weight(p, "posting") = 1 /\ Weight(p, "idle") = 0
      BY Weights
    <3> QED
      BY <1>a, <2>1, <3>1 DEF Places
  <2>2. CASE EnqueueLock(p)
    <3>1. Tokens' = Tokens
      BY <1>a, <2>k, <2>2 DEF EnqueueLock, Lock
    <3> QED
      BY <2>2, <3>1 DEF EnqueueLock, history
  <2>3. CASE EnqueuePost(p)
    <3>1. Tokens' = Tokens
      BY <1>a, <2>p, <2>3 DEF EnqueuePost
    <3> QED
      BY <2>3, <3>1 DEF EnqueuePost, history
  <2>4. ASSUME NEW arg \in {"item", "NULL"}, Enqueue(p, arg) PROVE TokenInv'
    <3>1. CASE EnqueueReject(p, arg)
      <4>1. Tokens' = Tokens
        BY <1>a, <2>k, <3>1 DEF EnqueueReject, Unlock
      <4> QED
        BY <3>1, <4>1 DEF EnqueueReject, history
    <3>2. CASE EnqueueOutOfMemory(p, arg)
      <4>1. Tokens' = Tokens
        BY <1>a, <2>k, <3>2 DEF EnqueueOutOfMemory
      <4> QED
        BY <3>2, <4>1 DEF EnqueueOutOfMemory, history
    <3>3. ASSUME Link(p, arg)
          PROVE  /\ Tokens' = Tokens + 1
                 /\ ~overlapped' => ~overlapped /\ Tokens = items
                 /\ UNCHANGED <<items, invalid, crashed>> /\ ~invalid
      BY <1>a, <2>l, <3>3 DEF Link, Unlock
    <3>4. CASE LinkFirst(p, arg)
      <4>1. Len(list') = 1
        BY <3>4 DEF LinkFirst
      <4> QED
        BY <1>a, <1>b, <3>3, <3>4, <4>1 DEF LinkFirst
    <3>5. CASE LinkAfterRear(p, arg)
      <4>1. Len(list') = Len(list) + 1
        BY <3>5, AppendProperties DEF LinkAfterRear, TypeOK
      <4> QED
        BY <1>a, <1>b, <3>3, <3>5, <4>1 DEF LinkAfterRear
    <3>6. CASE LinkAfterFreedRear(p, arg)
      <4>1. Len(list) = 0 /\ list' = list /\ items > 0
        BY <3>6 DEF LinkAfterFreedRear
      <4> QED
        BY <1>a, <1>b, <3>3, <3>6, <4>1 DEF LinkAfterFreedRear
    <3> QED
      BY <2>4, <3>1, <3>2, <3>4, <3>5, <3>6 DEF Enqueue
  <2> QED
    BY <1>2, <2>2, <2>3, <2>4 DEF ProducerStep
<1>3. ASSUME NEW c \in Consumers, ConsumerStep(c) PROVE TokenInv'
  <2>1. \A from, to \in Places :
          pc[c] = from /\ pc' = [pc EXCEPT ![c] = to]
            => Tokens' = Tokens + (items' - items) + Weight(c, to) - Weight(c, from)
    BY <1>0 DEF Threads
  <2>w. Weight(c, "idle") = 0 /\ Weight(c, "claimed") = 1 /\ Weight(c, "dequeuing") = 1
    BY Weights
  <2>2. CASE DequeueWait(c)
    <3>1. Tokens' = Tokens
      BY <1>a, <2>1, <2>w, <2>2 DEF DequeueWait, Places
    <3> QED
      BY <2>2, <3>1 DEF DequeueWait, history
  <2>3. CASE DequeueLock(c)
    <3>1. Tokens' = Tokens
      BY <1>a, <2>1, <2>w, <2>3 DEF DequeueLock, Lock, Places
    <3> QED
      BY <2>3, <3>1 DEF DequeueLock, history
  <2>4. CASE DequeueReject(c)
    BY <1>a, <1>b, <2>4 DEF DequeueReject, history
  <2>5. CASE DequeueTake(c)
    <3>1. Tokens' = Tokens - 1
      BY <1>a, <2>1, <2>w, <2>5 DEF DequeueTake, Unlock, Places
    <3>2. Len(list') = Len(list) - 1
      BY <2>5, HeadTailProperties DEF DequeueTake, TypeOK
    <3>3. ~invalid /\ UNCHANGED <<invalid, overlapped, crashed>>
      BY <2>5 DEF DequeueTake
    <3> QED
      BY <1>a, <1>b, <3>1, <3>2, <3>3
  <2>6. CASE DequeueCrash(c)
    <3>1. c \in Posting \cup Claimed /\ Len(list) = 0 /\ ~invalid
      BY <2>6 DEF DequeueCrash, Claimed
    <3>2. overlapped
      BY <1>a, <1>b, <3>1
    <3>3. UNCHANGED <<list, items, invalid, pc, overlapped>>
      BY <2>6 DEF DequeueCrash, history
    <3>4. Tokens' = Tokens
      BY <3>3 DEF Tokens, InFlight, Posting, Claimed
    <3> QED
      BY <3>2, <3>3, <3>4
  <2> QED
    BY <1>3, <2>2, <2>3, <2>4, <2>5, <2>6 DEF ConsumerStep
<1>4. ASSUME NEW d \in Destroyers, DestroyerStep(d) PROVE TokenInv'
  <2>1. \A from, to \in Places :
          pc[d] = from /\ pc' = [pc EXCEPT ![d] = to]
            => Tokens' = Tokens + (items' - items) + Weight(d, to) - Weight(d, from)
    BY <1>0 DEF Threads
  <2>w. Weight(d, "idle") = 0 /\ Weight(d, "invalidating") = 0 /\ Weight(d, "false") = 0
    BY Weights DEF Places
  <2>2. CASE InvalidateLock(d)
    <3>1. Tokens' = Tokens
      BY <1>a, <2>1, <2>w, <2>2 DEF InvalidateLock, Lock, Places
    <3> QED
      BY <2>2, <3>1 DEF InvalidateLock, history
  <2>3. ASSUME NEW arg, InvalidateReject(d, arg) PROVE TokenInv'
    <3>1. Tokens' = Tokens
      BY <1>a, <2>1, <2>w, <2>3 DEF InvalidateReject, Unlock, Places
    <3> QED
      BY <2>3, <3>1 DEF InvalidateReject, history
  <2>4. ASSUME NEW arg, Invalidate(d, arg) PROVE TokenInv'
    BY <2>4 DEF Invalidate
  <2>5. ASSUME NEW arg, InvalidateCrash(d, arg) PROVE TokenInv'
    <3>1. overlapped
      BY <1>a, <1>b, <2>5 DEF InvalidateCrash
    <3>2. UNCHANGED <<list, items, invalid, pc, overlapped>>
      BY <2>5 DEF InvalidateCrash, history
    <3>3. Tokens' = Tokens
      BY <3>2 DEF Tokens, InFlight, Posting, Claimed
    <3> QED
      BY <3>1, <3>2, <3>3
  <2> QED
    BY <1>4, <2>2, <2>3, <2>4, <2>5 DEF DestroyerStep
<1> QED
  BY <1>1, <1>2, <1>3, <1>4 DEF Next, vars

\* The new queue holds no item and announces none.
LEMMA TokenInit == Init => TokenInv
<1> SUFFICES ASSUME Init PROVE TokenInv
  OBVIOUS
<1>1. Posting = {} /\ Claimed = {}
  BY DEF Init, Posting, Claimed, Threads
<1>2. items = 0 /\ Len(list) = 0
  BY DEF Init
<1>3. Tokens = 0
  BY <1>1, <1>2, FS_EmptySet DEF Tokens, InFlight
<1>4. Len(list) = Tokens /\ Len(list) <= Tokens
  BY <1>2, <1>3
<1>5. ~crashed
  BY DEF Init
<1> QED
  BY <1>4, <1>5 DEF TokenInv, NoStrandedItem, SerialExact

\* dequeue cannot leave an item behind: the list of a valid queue is never
\* longer than the tokens that will fetch it.
THEOREM NoItemStranded == Spec => []NoStrandedItem
<1>2. TokenInv => NoStrandedItem
  BY DEF TokenInv
<1> QED
  BY <1>2, TokenInit, TokenStep, TypeCorrect, PTL DEF Spec

\* As long as no enqueue overlaps another operation, the list and the
\* semaphore agree and no operation dereferences a null front.
THEOREM ExactWithoutOverlap == Spec => []SerialExact
<1>2. TokenInv => SerialExact
  BY DEF TokenInv
<1> QED
  BY <1>2, TokenInit, TokenStep, TypeCorrect, PTL DEF Spec

-----------------------------------------------------------------------------
(* The order of the items *)

\* Moving the head of t to the end of s keeps the concatenation (dequeue).
LEMMA TakeKeepsAll ==
  ASSUME NEW s \in Seq(Nat), NEW t \in Seq(Nat), t # <<>>
  PROVE  Append(s, Head(t)) \o <<>> \o Tail(t) = s \o <<>> \o t
<1>1. Head(t) \in Nat /\ Tail(t) \in Seq(Nat) /\ <<Head(t)>> \in Seq(Nat)
  BY HeadTailProperties
<1>2. <<Head(t)>> \o Tail(t) = t
  OBVIOUS
<1>3. Append(s, Head(t)) = s \o <<Head(t)>>
  BY <1>1, AppendIsConcat
<1>4. (s \o <<Head(t)>>) \o Tail(t) = s \o (<<Head(t)>> \o Tail(t))
  BY <1>1, ConcatAssociative, SMTT(20)
<1>5. s \o <<>> = s /\ (s \o <<Head(t)>>) \o <<>> = s \o <<Head(t)>>
  BY <1>1, ConcatEmptySeq, ConcatProperties
<1> QED
  BY <1>2, <1>3, <1>4, <1>5

\* Cutting t in two keeps the concatenation (invalidate_queue).
LEMMA SplitKeepsAll ==
  ASSUME NEW s \in Seq(Nat), NEW t \in Seq(Nat), NEW n \in Nat, n <= Len(t)
  PROVE  s \o (<<>> \o SubSeq(t, 1, n)) \o SubSeq(t, n + 1, Len(t)) = s \o <<>> \o t
<1> DEFINE a == SubSeq(t, 1, n)
           b == SubSeq(t, n + 1, Len(t))
<1>1. a \in Seq(Nat) /\ b \in Seq(Nat)
  BY SplitSeq
<1>2. a \o b = t
  <2>1. Len(t) \in Nat
    BY LenProperties
  <2>2. 1 \in 1 .. Len(t) + 1 /\ n \in 1 - 1 .. Len(t) /\ Len(t) \in n .. Len(t)
    BY <2>1
  <2>3. SubSeq(t, 1, n) \o SubSeq(t, n + 1, Len(t)) = SubSeq(t, 1, Len(t))
    BY ONLY <2>2, ConcatAdjacentSubSeq, t \in Seq(Nat)
  <2> QED
    BY <2>3, SubSeqFull
<1>3. <<>> \o a = a /\ s \o <<>> = s
  BY <1>1, ConcatEmptySeq
<1>4. (s \o a) \o b = s \o (a \o b)
  <2> HIDE DEF a, b
  <2> QED
    BY <1>1, ConcatAssociative, SMTT(20)
<1> HIDE DEF a, b
<1> QED
  BY <1>2, <1>3, <1>4 DEF a, b

\* Appending n + 1 to an ascending sequence of numbers up to n (enqueue).
LEMMA AppendAscends ==
  ASSUME NEW s \in Seq(Nat), NEW n \in Nat,
         Ascending(s), \A i \in 1 .. Len(s) : s[i] <= n
  PROVE  /\ Ascending(Append(s, n + 1))
         /\ \A i \in 1 .. Len(Append(s, n + 1)) : Append(s, n + 1)[i] <= n + 1
<1> DEFINE a == Append(s, n + 1)
<1>1. /\ Len(a) = Len(s) + 1 /\ Len(s) \in Nat
      /\ \A i \in 1 .. Len(s) : a[i] = s[i]
      /\ a[Len(s) + 1] = n + 1
      /\ \A i \in 1 .. Len(s) : s[i] \in Nat
  BY AppendProperties, LenProperties
<1> HIDE DEF a
<1>2. Ascending(a)
  <2> SUFFICES ASSUME NEW i \in 1 .. Len(a), NEW j \in 1 .. Len(a), i < j
               PROVE  a[i] < a[j]
    BY DEF Ascending
  <2>1. CASE j = Len(s) + 1
    BY <1>1, <2>1
  <2>2. CASE j \in 1 .. Len(s)
    BY <1>1, <2>2 DEF Ascending
  <2> QED
    BY <1>1, <2>1, <2>2
<1>3. \A i \in 1 .. Len(a) : a[i] <= n + 1
  BY <1>1
<1> QED
  BY <1>2, <1>3 DEF a

\* A prefix of an ascending sequence ascends.
LEMMA PrefixAscends ==
  ASSUME NEW s \in Seq(Nat), NEW t \in Seq(Nat), NEW n \in Nat,
         Ascending(s \o t), \A i \in 1 .. Len(s \o t) : (s \o t)[i] <= n
  PROVE  Ascending(s) /\ \A i \in 1 .. Len(s) : s[i] <= n
<1> DEFINE a == s \o t
<1>1. /\ Len(a) = Len(s) + Len(t) /\ Len(s) \in Nat /\ Len(t) \in Nat
      /\ \A i \in 1 .. Len(s) : a[i] = s[i]
  BY ConcatProperties, LenProperties
<1>2. Ascending(a) /\ \A i \in 1 .. Len(a) : a[i] <= n
  OBVIOUS
<1> HIDE DEF a
<1> QED
  BY <1>1, <1>2 DEF Ascending

\* The items handed out, destroyed and still queued, in this order.
All == delivered \o destroyed \o list

\* Order: all items ascend and none is newer than the last one linked;
\* without an overlap they are exactly the items linked.
OrderInv ==
  /\ Ascending(All)
  /\ \A i \in 1 .. Len(All) : All[i] <= linked
  /\ ~invalid => destroyed = <<>>
  /\ ~overlapped => Len(All) = linked /\ \A i \in 1 .. linked : All[i] = i

\* What linking a node does to the three sequences.
LEMMA LinkOrder ==
  ASSUME TypeOK, TokenInv, OrderInv, NEW p \in Producers, NEW arg,
         LinkFirst(p, arg) \/ LinkAfterRear(p, arg) \/ LinkAfterFreedRear(p, arg)
  PROVE  OrderInv'
<1>0. /\ ~invalid /\ invalid' = invalid /\ linked' = linked + 1 /\ destroyed' = destroyed
      /\ delivered' = delivered /\ destroyed = <<>>
      /\ overlapped' = (overlapped \/ Posting \cup Claimed # {})
  BY DEF LinkFirst, LinkAfterRear, LinkAfterFreedRear, Link, OrderInv
<1>1. linked \in Nat /\ list \in Seq(Nat) /\ delivered \in Seq(Nat)
  BY DEF TypeOK
<1>2. delivered \o <<>> = delivered
  BY <1>1, ConcatEmptySeq
<1>3. All = delivered \o list
  BY <1>0, <1>2 DEF All
<1>4. All \in Seq(Nat) /\ Len(All) \in Nat
  BY <1>1, <1>3, ConcatProperties, LenProperties
<1>5. Ascending(All) /\ \A i \in 1 .. Len(All) : All[i] <= linked
  BY DEF OrderInv
<1>6. ~overlapped' => ~overlapped /\ Len(list) = items
  BY <1>0, TokensBound DEF TokenInv, SerialExact
<1>7. ASSUME NEW s \in Seq(Nat), All' = Append(s, linked + 1), Ascending(s),
             \A i \in 1 .. Len(s) : s[i] <= linked, ~overlapped' => s = All
      PROVE  OrderInv'
  <2>1. Ascending(All') /\ \A i \in 1 .. Len(All') : All'[i] <= linked'
    BY <1>0, <1>1, <1>7, AppendAscends
  <2>2. ASSUME ~overlapped'
        PROVE  Len(All') = linked' /\ \A i \in 1 .. linked' : All'[i] = i
    <3>1. Len(All) = linked /\ \A i \in 1 .. linked : All[i] = i
      BY <1>6, <2>2 DEF OrderInv
    <3>2. /\ Len(All') = Len(All) + 1 /\ All'[Len(All) + 1] = linked + 1
          /\ \A i \in 1 .. Len(All) : All'[i] = All[i]
      BY <1>1, <1>4, <1>7, <2>2, AppendProperties
    <3> QED
      BY <1>0, <1>1, <3>1, <3>2
  <2> QED
    BY <1>0, <2>1, <2>2 DEF OrderInv
<1>8. CASE LinkFirst(p, arg)
  <2>1. All' = Append(delivered, linked + 1)
    <3>1. list' = <<linked + 1>> /\ linked + 1 \in Nat
      BY <1>1, <1>8 DEF LinkFirst
    <3> QED
      BY <1>0, <1>1, <1>2, <3>1, AppendIsConcat DEF All
  <2>2. Ascending(delivered) /\ \A i \in 1 .. Len(delivered) : delivered[i] <= linked
    BY <1>1, <1>3, <1>5, PrefixAscends
  <2>3. ~overlapped' => delivered = All
    <3>1. ~overlapped' => list = <<>>
      BY <1>1, <1>6, <1>8, EmptySeq DEF LinkFirst
    <3> QED
      BY <1>2, <1>3, <3>1
  <2> QED
    BY <1>1, <1>7, <2>1, <2>2, <2>3
<1>9. CASE LinkAfterRear(p, arg)
  <2>1. list' = list \o <<linked + 1>> /\ <<linked + 1>> \in Seq(Nat)
    BY <1>1, <1>9, AppendIsConcat, SMTT(20) DEF LinkAfterRear
  <2>2. delivered \o (list \o <<linked + 1>>) = (delivered \o list) \o <<linked + 1>>
    BY <1>1, <2>1, ConcatAssociative
  <2>3. All' = Append(All, linked + 1)
    BY <1>0, <1>1, <1>2, <1>3, <1>4, <2>1, <2>2, AppendIsConcat DEF All
  <2> QED
    BY <1>4, <1>5, <1>7, <2>3
<1>10. CASE LinkAfterFreedRear(p, arg)
  <2>1. list' = list /\ overlapped'
    <3>1. list' = list /\ Len(list) = 0 /\ items # 0
      BY <1>10, TokensBound DEF LinkAfterFreedRear
    <3> QED
      BY <1>0, <1>6, <3>1
  <2>2. All' = All
    BY <1>0, <2>1 DEF All
  <2>3. \A i \in 1 .. Len(All) : All[i] <= linked + 1
    <3>1. \A i \in 1 .. Len(All) : All[i] \in Nat
      BY <1>4, LenProperties
    <3> QED
      BY <1>1, <1>5, <3>1
  <2> QED
    BY <1>0, <1>5, <2>1, <2>2, <2>3 DEF OrderInv
<1> QED
  BY <1>8, <1>9, <1>10

\* Every other step leaves the sequence All as it is.
LEMMA OrderStep ==
  ASSUME TypeOK, TokenInv, OrderInv, [Next]_vars
  PROVE  OrderInv'
<1>1. ASSUME UNCHANGED <<list, delivered, destroyed, linked, overlapped>>,
             UNCHANGED invalid
      PROVE  OrderInv'
  BY <1>1 DEF OrderInv, All
<1>2. ASSUME NEW p \in Producers, ProducerStep(p) PROVE OrderInv'
  <2>1. CASE EnqueueLock(p) \/ EnqueuePost(p)
    BY <1>1, <2>1 DEF EnqueueLock, EnqueuePost, history
  <2>2. ASSUME NEW arg \in {"item", "NULL"}, Enqueue(p, arg) PROVE OrderInv'
    BY <1>1, <2>2, LinkOrder DEF Enqueue, EnqueueReject, EnqueueOutOfMemory, history
  <2> QED
    BY <1>2, <2>1, <2>2 DEF ProducerStep
<1>3. ASSUME NEW c \in Consumers, ConsumerStep(c) PROVE OrderInv'
  <2>1. CASE DequeueWait(c) \/ DequeueLock(c) \/ DequeueReject(c) \/ DequeueCrash(c)
    BY <1>1, <2>1 DEF DequeueWait, DequeueLock, DequeueReject, DequeueCrash, history
  <2>2. CASE DequeueTake(c)
    <3>1. destroyed = <<>> /\ list # <<>>
      BY <2>2 DEF DequeueTake, OrderInv
    <3>2. All' = All
      BY <2>2, <3>1, TakeKeepsAll DEF DequeueTake, All, TypeOK
    <3>3. UNCHANGED <<invalid, linked, destroyed, overlapped>>
      BY <2>2 DEF DequeueTake
    <3> QED
      BY <3>2, <3>3 DEF OrderInv
  <2> QED
    BY <1>3, <2>1, <2>2 DEF ConsumerStep
<1>4. ASSUME NEW d \in Destroyers, DestroyerStep(d) PROVE OrderInv'
  <2>1. ASSUME NEW arg, InvalidateLock(d) \/ InvalidateReject(d, arg) \/ InvalidateCrash(d, arg)
        PROVE  OrderInv'
    BY <1>1, <2>1 DEF InvalidateLock, InvalidateReject, InvalidateCrash, history
  <2>2. ASSUME NEW arg, Invalidate(d, arg) PROVE OrderInv'
    <3>1. destroyed = <<>> /\ items <= Len(list) /\ items \in Nat
      BY <2>2 DEF Invalidate, OrderInv, TypeOK
    <3>2. All' = All
      BY <2>2, <3>1, SplitKeepsAll DEF Invalidate, All, TypeOK
    <3>3. invalid' /\ UNCHANGED <<linked, overlapped>>
      BY <2>2 DEF Invalidate
    <3> QED
      BY <3>2, <3>3 DEF OrderInv
  <2> QED
    BY <1>4, <2>1, <2>2 DEF DestroyerStep
<1> QED
  BY <1>1, <1>2, <1>3, <1>4 DEF Next, vars

\* Nothing is in order before the first enqueue.
LEMMA OrderInit == Init => OrderInv
<1> SUFFICES ASSUME Init PROVE OrderInv
  OBVIOUS
<1>1. destroyed = <<>> /\ linked = 0 /\ delivered = <<>> /\ list = <<>>
  BY DEF Init
<1>2. <<>> \o <<>> = <<>>
  BY EmptySeq, ConcatEmptySeq
<1>3. All = <<>>
  BY <1>1, <1>2 DEF All
<1>4. Len(All) = 0
  BY <1>3
<1> QED
  BY <1>1, <1>4 DEF OrderInv, Ascending

\* Items leave in the order in which they were linked, none of them twice.
THEOREM Fifo == Spec => []FifoOrder
<1>1. OrderInv => FifoOrder
  BY DEF OrderInv, FifoOrder, All
<1> QED
  BY <1>1, OrderInit, OrderStep, TokenInit, TokenStep, TypeCorrect, PTL DEF Spec

\* No item is lost as long as no enqueue overlaps another operation.
THEOREM NoLoss == Spec => []NoLossWithoutOverlap
<1>1. TypeOK /\ OrderInv => NoLossWithoutOverlap
  <2> SUFFICES ASSUME TypeOK, OrderInv, ~overlapped, NEW n \in 1 .. linked
               PROVE  \E s \in {list, delivered, destroyed} :
                        \E i \in 1 .. Len(s) : s[i] = n
    BY DEF NoLossWithoutOverlap, Lost
  <2>1. Len(All) = linked /\ All[n] = n
    BY DEF OrderInv
  <2> DEFINE a == delivered \o destroyed
  <2>2. /\ a \in Seq(Nat) /\ Len(a) = Len(delivered) + Len(destroyed)
        /\ \A i \in 1 .. Len(delivered) + Len(destroyed) :
             a[i] = IF i <= Len(delivered) THEN delivered[i]
                    ELSE destroyed[i - Len(delivered)]
    BY ConcatProperties DEF TypeOK
  <2> HIDE DEF a
  <2>3. /\ Len(All) = Len(a) + Len(list)
        /\ \A i \in 1 .. Len(a) + Len(list) :
             All[i] = IF i <= Len(a) THEN a[i] ELSE list[i - Len(a)]
    BY <2>2, ConcatProperties DEF a, TypeOK, All
  <2>4. Len(list) \in Nat /\ Len(delivered) \in Nat /\ Len(destroyed) \in Nat
    BY LenProperties DEF TypeOK
  <2>5. CASE n <= Len(delivered)
    BY <2>1, <2>2, <2>3, <2>4, <2>5, SMTT(20)
  <2>6. CASE n > Len(delivered) /\ n <= Len(a)
    <3>1. n - Len(delivered) \in 1 .. Len(destroyed)
      BY <2>2, <2>4, <2>6
    <3>2. destroyed[n - Len(delivered)] = n
      BY <2>1, <2>2, <2>3, <2>4, <2>6
    <3> QED
      BY <3>1, <3>2
  <2>7. CASE n > Len(a)
    <3>1. n - Len(a) \in 1 .. Len(list)
      BY <2>1, <2>2, <2>3, <2>4, <2>7
    <3> QED
      BY <2>1, <2>2, <2>3, <2>4, <2>7, <3>1
  <2> QED
    BY <2>2, <2>4, <2>5, <2>6, <2>7
<1> QED
  BY <1>1, OrderInit, OrderStep, TokenInit, TokenStep, TypeCorrect, PTL DEF Spec

-----------------------------------------------------------------------------
(* Closing, and the refinement *)

\* After invalidate_queue no item is handed out, destroyed or added.
THEOREM StaysClosed == Spec => ClosedForGood
<1>1. ASSUME Next, invalid PROVE UNCHANGED <<invalid, list, delivered, linked>>
  <2>1. ASSUME NEW p \in Producers, ProducerStep(p)
        PROVE  UNCHANGED <<invalid, list, delivered, linked>>
    BY <1>1, <2>1 DEF ProducerStep, Enqueue, EnqueueLock, EnqueuePost, EnqueueReject,
       EnqueueOutOfMemory, LinkFirst, LinkAfterRear, LinkAfterFreedRear, Link, history
  <2>2. ASSUME NEW c \in Consumers, ConsumerStep(c)
        PROVE  UNCHANGED <<invalid, list, delivered, linked>>
    BY <1>1, <2>2 DEF ConsumerStep, DequeueWait, DequeueLock, DequeueReject,
       DequeueTake, DequeueCrash, history
  <2>3. ASSUME NEW d \in Destroyers, DestroyerStep(d)
        PROVE  UNCHANGED <<invalid, list, delivered, linked>>
    BY <1>1, <2>3 DEF DestroyerStep, InvalidateLock, InvalidateReject, Invalidate,
       InvalidateCrash, history
  <2> QED
    BY <1>1, <2>1, <2>2, <2>3 DEF Next
<1>2. [Next]_vars => [invalid => UNCHANGED <<invalid, list, delivered, linked>>]_vars
  BY <1>1
<1> QED
  BY <1>2, PTL DEF Spec, ClosedForGood

\* A step of the queue is a step its callers may expect, or none.
LEMMA RefinementStep ==
  ASSUME TypeOK, TypeOK', TokenInv, TokenInv', [Next]_vars
  PROVE  [WQ!Next]_(WQ!wvars)
<1> DEFINE seen == <<list, linked, delivered, destroyed, invalid, overlapped, crashed>>
<1>0. /\ Tokens \in Nat /\ InFlight \in Nat /\ Tokens = items + InFlight
      /\ items \in Nat /\ Len(list) \in Nat
      /\ InFlight' \in Nat /\ list \in Seq(Nat)
      /\ Posting \cup Claimed = {} <=> InFlight = 0
  <2>1. (InFlight \in Nat)'
    BY TokensBound, PTL
  <2> QED
    BY <2>1, TokensBound DEF TypeOK
<1>m. \A t \in Threads, from, to \in Places :
        pc[t] = from /\ pc' = [pc EXCEPT ![t] = to]
          => InFlight' = InFlight + Weight(t, to) - Weight(t, from)
  BY MoveTokens
<1>1. ASSUME UNCHANGED seen, InFlight' = InFlight PROVE [WQ!Next]_(WQ!wvars)
  BY <1>1 DEF WQ!wvars
<1>2. ASSUME UNCHANGED seen, ~crashed, InFlight' = InFlight + 1 PROVE WQ!Ask
  BY <1>2 DEF WQ!Ask
<1>3. ASSUME UNCHANGED seen, ~crashed, InFlight' = InFlight - 1 PROVE WQ!Return
  BY <1>0, <1>3 DEF WQ!Return
<1>4. ASSUME NEW p \in Producers, NEW arg, ~crashed, Link(p, arg), InFlight' = InFlight + 1,
             LinkFirst(p, arg) \/ LinkAfterRear(p, arg) \/ LinkAfterFreedRear(p, arg)
      PROVE  WQ!Put
  <2>1. /\ ~invalid /\ linked' = linked + 1
        /\ overlapped' = (overlapped \/ InFlight > 0)
        /\ UNCHANGED <<delivered, destroyed, invalid, crashed>>
    BY <1>0, <1>4 DEF Link
  <2>2. ASSUME ~overlapped' PROVE Len(list) = items
    <3>1. ~overlapped /\ InFlight = 0
      <4>1. ~(InFlight > 0) /\ ~overlapped
        BY <2>1, <2>2, Zenon
      <4> QED
        BY ONLY <1>0, <4>1
    <3>2. Len(list) = Tokens
      BY <2>1, <3>1, Zenon DEF TokenInv, SerialExact
    <3> QED
      BY ONLY <1>0, <3>1, <3>2
  <2>3. list' = Append(list, linked') \/ (overlapped' /\ list' \in {<<linked'>>, list})
    <3>1. CASE LinkAfterRear(p, arg)
      BY <2>1, <3>1 DEF LinkAfterRear
    <3>2. CASE LinkFirst(p, arg)
      <4>1. list' = <<linked'>> /\ (~overlapped' => list = <<>>)
        BY <1>0, <2>1, <2>2, <3>2, EmptySeq DEF LinkFirst
      <4>2. ~overlapped' => list' = Append(list, linked')
        BY <4>1
      <4> QED
        BY <4>1, <4>2
    <3>3. CASE LinkAfterFreedRear(p, arg)
      BY <1>0, <2>2, <3>3 DEF LinkAfterFreedRear
    <3> QED
      BY <1>4, <3>1, <3>2, <3>3
  <2> QED
    BY <1>4, <2>1, <2>3 DEF WQ!Put
<1>5. ASSUME ~crashed, NEW p \in Producers, ProducerStep(p)
      PROVE  [WQ!Next]_(WQ!wvars)
  <2>1. \A from, to \in Places :
          pc[p] = from /\ pc' = [pc EXCEPT ![p] = to]
            => InFlight' = InFlight + Weight(p, to) - Weight(p, from)
    BY <1>m DEF Threads
  <2>2. /\ Weight(p, "idle") = 0 /\ Weight(p, "enqueuing") = 0 /\ Weight(p, "leaked") = 0
        /\ Weight(p, "posting") = 1
    BY Weights
  <2>3. CASE EnqueueLock(p)
    <3>1. InFlight' = InFlight
      BY <1>0, <2>1, <2>2, <2>3 DEF EnqueueLock, Lock, Places
    <3> QED
      BY <1>1, <2>3, <3>1 DEF EnqueueLock, history
  <2>4. CASE EnqueuePost(p)
    <3>1. InFlight' = InFlight - 1
      BY <1>0, <2>1, <2>2, <2>4 DEF EnqueuePost, Places
    <3> QED
      BY <1>3, <1>5, <2>4, <3>1 DEF EnqueuePost, history, WQ!Next
  <2>5. ASSUME NEW arg \in {"item", "NULL"}, Enqueue(p, arg)
        PROVE  [WQ!Next]_(WQ!wvars)
    <3>1. CASE EnqueueReject(p, arg) \/ EnqueueOutOfMemory(p, arg)
      <4>1. InFlight' = InFlight
        BY <1>0, <2>1, <2>2, <3>1 DEF EnqueueReject, EnqueueOutOfMemory, Unlock, Places
      <4> QED
        BY <1>1, <3>1, <4>1 DEF EnqueueReject, EnqueueOutOfMemory, history
    <3>2. CASE LinkFirst(p, arg) \/ LinkAfterRear(p, arg) \/ LinkAfterFreedRear(p, arg)
      <4>1. Link(p, arg)
        BY <3>2 DEF LinkFirst, LinkAfterRear, LinkAfterFreedRear
      <4>2. InFlight' = InFlight + 1
        BY <1>0, <2>1, <2>2, <4>1 DEF Link, Unlock, Places
      <4> QED
        BY <1>4, <1>5, <3>2, <4>1, <4>2 DEF WQ!Next
    <3> QED
      BY <2>5, <3>1, <3>2 DEF Enqueue
  <2> QED
    BY <1>5, <2>3, <2>4, <2>5 DEF ProducerStep
<1>6. ASSUME ~crashed, NEW c \in Consumers, ConsumerStep(c)
      PROVE  [WQ!Next]_(WQ!wvars)
  <2>1. \A from, to \in Places :
          pc[c] = from /\ pc' = [pc EXCEPT ![c] = to]
            => InFlight' = InFlight + Weight(c, to) - Weight(c, from)
    BY <1>m DEF Threads
  <2>2. Weight(c, "idle") = 0 /\ Weight(c, "claimed") = 1 /\ Weight(c, "dequeuing") = 1
    BY Weights
  <2>3. CASE DequeueWait(c)
    <3>1. InFlight' = InFlight + 1
      BY <1>0, <2>1, <2>2, <2>3 DEF DequeueWait, Places
    <3> QED
      BY <1>2, <1>6, <2>3, <3>1 DEF DequeueWait, history, WQ!Next
  <2>4. CASE DequeueLock(c)
    <3>1. InFlight' = InFlight
      BY <1>0, <2>1, <2>2, <2>4 DEF DequeueLock, Lock, Places
    <3> QED
      BY <1>1, <2>4, <3>1 DEF DequeueLock, history
  <2>5. ASSUME pc[c] = "dequeuing", pc' = [pc EXCEPT ![c] = "idle"]
        PROVE  InFlight' = InFlight - 1
    BY <1>0, <2>1, <2>2, <2>5 DEF Places
  <2>6. CASE DequeueReject(c)
    <3>1. InFlight' = InFlight - 1
      BY <2>5, <2>6 DEF DequeueReject, Unlock
    <3> QED
      BY <1>3, <1>6, <2>6, <3>1 DEF DequeueReject, history, WQ!Next
  <2>7. CASE DequeueTake(c)
    <3>1. InFlight' = InFlight - 1
      BY <2>5, <2>7 DEF DequeueTake, Unlock
    <3>2. InFlight > 0
      BY <1>0, <3>1
    <3> QED
      BY <1>6, <2>7, <3>1, <3>2 DEF DequeueTake, WQ!Next, WQ!Take
  <2>8. CASE DequeueCrash(c)
    <3>1. overlapped /\ crashed' = TRUE
      BY <2>8 DEF DequeueCrash, TokenInv, SerialExact, history
    <3>2. InFlight' = InFlight
      BY <2>8 DEF DequeueCrash, InFlight, Posting, Claimed
    <3> QED
      BY <1>6, <2>8, <3>1, <3>2 DEF DequeueCrash, history, WQ!Next, WQ!Fail
  <2> QED
    BY <1>6, <2>3, <2>4, <2>6, <2>7, <2>8 DEF ConsumerStep
<1>7. ASSUME ~crashed, NEW d \in Destroyers, DestroyerStep(d)
      PROVE  [WQ!Next]_(WQ!wvars)
  <2>1. \A from, to \in Places :
          pc[d] = from /\ pc' = [pc EXCEPT ![d] = to]
            => InFlight' = InFlight + Weight(d, to) - Weight(d, from)
    BY <1>m DEF Threads
  <2>2. Weight(d, "idle") = 0 /\ Weight(d, "invalidating") = 0 /\ Weight(d, "false") = 0
    BY Weights DEF Places
  <2>3. CASE InvalidateLock(d)
    <3>1. InFlight' = InFlight
      BY <1>0, <2>1, <2>2, <2>3 DEF InvalidateLock, Lock, Places
    <3> QED
      BY <1>1, <2>3, <3>1 DEF InvalidateLock, history
  <2>4. ASSUME pc[d] = "invalidating", pc' = [pc EXCEPT ![d] = "false"]
        PROVE  InFlight' = InFlight
    BY <1>0, <2>1, <2>2, <2>4 DEF Places
  <2>5. ASSUME NEW arg, InvalidateReject(d, arg) PROVE [WQ!Next]_(WQ!wvars)
    <3>1. InFlight' = InFlight
      BY <2>4, <2>5 DEF InvalidateReject, Unlock
    <3> QED
      BY <1>1, <2>5, <3>1 DEF InvalidateReject, history
  <2>6. ASSUME NEW arg, Invalidate(d, arg) PROVE WQ!Close
    <3>1. InFlight' = InFlight
      BY <2>4, <2>6 DEF Invalidate, Unlock
    <3>2. items \in 0 .. Len(list) /\ Len(list) - items <= InFlight
      BY <1>0, <2>6 DEF Invalidate, TokenInv, NoStrandedItem
    <3> QED
      BY <1>7, <2>6, <3>1, <3>2 DEF Invalidate, WQ!Close
  <2>7. ASSUME NEW arg, InvalidateCrash(d, arg) PROVE WQ!Fail
    <3>1. overlapped /\ crashed' = TRUE
      BY <2>7 DEF InvalidateCrash, TokenInv, SerialExact, history
    <3>2. InFlight' = InFlight
      BY <2>7 DEF InvalidateCrash, InFlight, Posting, Claimed
    <3> QED
      BY <1>7, <2>7, <3>1, <3>2 DEF InvalidateCrash, history, WQ!Fail
  <2> QED
    BY <1>7, <2>3, <2>5, <2>6, <2>7 DEF DestroyerStep, WQ!Next
<1>8. CASE UNCHANGED vars
  <2>1. InFlight' = InFlight
    BY <1>8 DEF vars, InFlight, Posting, Claimed
  <2> QED
    BY <1>1, <1>8, <2>1 DEF vars
<1> QED
  BY <1>5, <1>6, <1>7, <1>8 DEF Next

\* queue.c implements WorkQueue: FIFO without overlap, losses and failures only
\* after one, and no more items undestroyed than operations in flight.
THEOREM Refinement == Spec => ImplementsWorkQueue
<1>1. Init => WQ!Init
  <2>1. Init => Posting = {} /\ Claimed = {}
    BY DEF Init, Posting, Claimed, Threads
  <2>2. Init => InFlight = 0
    BY <2>1, FS_EmptySet DEF InFlight
  <2> QED
    BY <2>2 DEF Init, WQ!Init
<1> QED
  BY <1>1, RefinementStep, TokenInit, TokenStep, TypeCorrect, PTL
     DEF Spec, ImplementsWorkQueue, WQ!Spec
=============================================================================
