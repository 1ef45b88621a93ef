---------------------------- MODULE CreamQueue ----------------------------
(***************************************************************************)
(* The blocking queue of CREAM_Client/src/queue.c: a linked list guarded   *)
(* by a mutex, and a semaphore that counts its items.                      *)
(*                                                                         *)
(* enqueue decides whether the list is empty by reading the semaphore, but *)
(* posts it after it has unlocked, and dequeue waits on it before it       *)
(* locks: the semaphore and the list disagree while an operation is in     *)
(* flight.  The model keeps the order of those steps.                      *)
(*                                                                         *)
(* list is the chain of nodes reachable from self->front.  When it is not  *)
(* empty, self->rear is its last node; when it is empty, self->rear points *)
(* to a node already freed (see LinkAfterFreedRear).  Nodes are numbered   *)
(* in the order in which they are linked.                                  *)
(***************************************************************************)
EXTENDS Naturals, Sequences, FiniteSets

CONSTANTS
  Producers,    \* threads that call enqueue
  Consumers,    \* threads that call dequeue, again and again
  Destroyers,   \* threads that call invalidate_queue, once
  NoThread,     \* the owner of the mutex when it is free
  MaxCalls,     \* bound: how often enqueue is called
  AllocMayFail  \* whether calloc may return NULL in enqueue

Threads == Producers \cup Consumers \cup Destroyers

ASSUME ThreadsAssumption ==
  /\ Producers \cap Consumers = {}
  /\ Producers \cap Destroyers = {}
  /\ Consumers \cap Destroyers = {}
  /\ IsFiniteSet(Producers) /\ IsFiniteSet(Consumers)
  /\ NoThread \notin Threads

ASSUME BoundsAssumption == MaxCalls \in Nat /\ AllocMayFail \in BOOLEAN

VARIABLES
  list,        \* the nodes reachable from self->front, oldest first
  items,       \* the value of the semaphore self->items
  lock,        \* the owner of self->lock
  invalid,     \* self->invalid
  pc,          \* where each thread is inside its operation
  calls,       \* how often enqueue was called
  linked,      \* history: how many nodes enqueue linked
  delivered,   \* history: the items dequeue returned
  destroyed,   \* history: the items invalidate_queue destroyed
  overlapped,  \* history: an enqueue linked while an operation was in flight
  crashed      \* a null front was dereferenced: the process is gone

vars == <<list, items, lock, invalid, pc, calls, linked, delivered, destroyed,
          overlapped, crashed>>

\* The places of a thread inside an operation: it holds the lock in
\* "enqueuing", "dequeuing" and "invalidating", and for ever in "leaked".
\* In "false" it has come back from invalidate_queue with that value, the
\* only one that it returns (queue.c:20, 33).
Places == {"idle", "enqueuing", "posting", "claimed", "dequeuing",
           "invalidating", "leaked", "false"}

\* Producers that have linked a node and not yet posted the semaphore.
Posting == {p \in Producers : pc[p] = "posting"}

\* Consumers that have taken a unit of the semaphore and not yet an item.
Claimed == {c \in Consumers : pc[c] \in {"claimed", "dequeuing"}}

\* The operations between their effect on the list and the one on items.
InFlight == Cardinality(Posting) + Cardinality(Claimed)

\* The items announced or about to be: what the list ought to hold.
Tokens == items + InFlight

Init ==
  /\ list = <<>> /\ items = 0 /\ lock = NoThread /\ invalid = FALSE
  /\ pc = [t \in Threads |-> "idle"]
  /\ calls = 0 /\ linked = 0 /\ delivered = <<>> /\ destroyed = <<>>
  /\ overlapped = FALSE /\ crashed = FALSE

Lock(t, from, to) ==
  /\ pc[t] = from
  /\ lock = NoThread
  /\ lock' = t
  /\ pc' = [pc EXCEPT ![t] = to]

Unlock(t, from, to) ==
  /\ pc[t] = from
  /\ lock' = NoThread
  /\ pc' = [pc EXCEPT ![t] = to]

history == <<linked, delivered, destroyed, overlapped>>

-----------------------------------------------------------------------------
(* enqueue *)

EnqueueLock(p) ==
  /\ calls < MaxCalls
  /\ calls' = calls + 1
  /\ Lock(p, "idle", "enqueuing")
  /\ UNCHANGED <<list, items, invalid, history, crashed>>

\* Mutant: the error path forgets to unlock.
EnqueueRejectLocked(p, arg) ==
  /\ invalid \/ arg = "NULL"
  /\ pc[p] = "enqueuing"
  /\ pc' = [pc EXCEPT ![p] = "idle"]
  /\ UNCHANGED <<list, items, lock, invalid, calls, history, crashed>>

\* The queue is invalid or the caller passed a null item: EINVAL.
EnqueueReject(p, arg) ==
  /\ invalid \/ arg = "NULL"
  /\ Unlock(p, "enqueuing", "idle")
  /\ UNCHANGED <<list, items, invalid, calls, history, crashed>>

\* calloc fails: the function returns and keeps the lock.
EnqueueOutOfMemory(p, arg) ==
  /\ AllocMayFail
  /\ pc[p] = "enqueuing" /\ ~invalid /\ arg # "NULL"
  /\ pc' = [pc EXCEPT ![p] = "leaked"]
  /\ UNCHANGED <<list, items, lock, invalid, calls, history, crashed>>

\* What the three ways of linking a node have in common.
Link(p, arg) ==
  /\ ~invalid /\ arg # "NULL"
  /\ Unlock(p, "enqueuing", "posting")
  /\ linked' = linked + 1
  /\ overlapped' = (overlapped \/ Posting \cup Claimed # {})
  /\ UNCHANGED <<items, invalid, calls, delivered, destroyed, crashed>>

\* sem_getvalue says 0: the new node becomes front and rear, whatever the
\* list holds.
LinkFirst(p, arg) ==
  /\ items = 0
  /\ list' = <<linked + 1>>
  /\ Link(p, arg)

\* Mutant: the node is linked before the front.
LinkBeforeFront(p, arg) ==
  /\ items > 0 /\ list # <<>>
  /\ list' = <<linked + 1>> \o list
  /\ Link(p, arg)

\* The semaphore is positive: rear->next is the new node.
LinkAfterRear(p, arg) ==
  /\ items > 0 /\ list # <<>>
  /\ list' = Append(list, linked + 1)
  /\ Link(p, arg)

\* The semaphore is positive and the list empty: rear is a freed node, the
\* write goes nowhere and front stays NULL.
LinkAfterFreedRear(p, arg) ==
  /\ items > 0 /\ list = <<>>
  /\ list' = list
  /\ Link(p, arg)

\* Mutant: the semaphore is posted only when it was 0.
EnqueuePostFirst(p) ==
  /\ pc[p] = "posting"
  /\ items' = IF items = 0 THEN 1 ELSE items
  /\ pc' = [pc EXCEPT ![p] = "idle"]
  /\ UNCHANGED <<list, lock, invalid, calls, history, crashed>>

\* Mutant: the semaphore is posted twice.
EnqueuePostTwice(p) ==
  /\ pc[p] = "posting"
  /\ items' = items + 2
  /\ pc' = [pc EXCEPT ![p] = "idle"]
  /\ UNCHANGED <<list, lock, invalid, calls, history, crashed>>

\* sem_post, after the lock was released.
EnqueuePost(p) ==
  /\ pc[p] = "posting"
  /\ items' = items + 1
  /\ pc' = [pc EXCEPT ![p] = "idle"]
  /\ UNCHANGED <<list, lock, invalid, calls, history, crashed>>

-----------------------------------------------------------------------------
(* dequeue *)

\* Mutant: the semaphore is counted down without waiting for it.
DequeueNoWait(c) ==
  /\ pc[c] = "idle"
  /\ items' = items - 1
  /\ pc' = [pc EXCEPT ![c] = "claimed"]
  /\ UNCHANGED <<list, lock, invalid, calls, history, crashed>>

\* sem_wait, before the lock is taken.
DequeueWait(c) ==
  /\ pc[c] = "idle"
  /\ items > 0
  /\ items' = items - 1
  /\ pc' = [pc EXCEPT ![c] = "claimed"]
  /\ UNCHANGED <<list, lock, invalid, calls, history, crashed>>

DequeueLock(c) ==
  /\ Lock(c, "claimed", "dequeuing")
  /\ UNCHANGED <<list, items, invalid, calls, history, crashed>>

\* The queue is invalid: EINVAL and NULL.
DequeueReject(c) ==
  /\ invalid
  /\ Unlock(c, "dequeuing", "idle")
  /\ UNCHANGED <<list, items, invalid, calls, history, crashed>>

DequeueTake(c) ==
  /\ ~invalid
  /\ list # <<>>
  /\ list' = Tail(list)
  /\ delivered' = Append(delivered, Head(list))
  /\ Unlock(c, "dequeuing", "idle")
  /\ UNCHANGED <<items, invalid, calls, linked, destroyed, overlapped, crashed>>

\* self->front is NULL, and self->front->item is read all the same.
DequeueCrash(c) ==
  /\ pc[c] = "dequeuing"
  /\ ~invalid
  /\ list = <<>>
  /\ crashed' = TRUE
  /\ UNCHANGED <<list, items, lock, invalid, pc, calls, history>>

-----------------------------------------------------------------------------
(* invalidate_queue *)

InvalidateLock(d) ==
  /\ Lock(d, "idle", "invalidating")
  /\ UNCHANGED <<list, items, invalid, calls, history, crashed>>

\* Already invalid, or the caller passed no destroy_function: EINVAL.
InvalidateReject(d, arg) ==
  /\ invalid \/ arg = "NULL"
  /\ Unlock(d, "invalidating", "false")
  /\ UNCHANGED <<list, items, invalid, calls, history, crashed>>

\* Mutant: the newest node is kept.
InvalidateKeepsRear(d, arg) ==
  /\ ~invalid /\ arg # "NULL"
  /\ 0 < items /\ items <= Len(list)
  /\ destroyed' = destroyed \o SubSeq(list, 1, items - 1)
  /\ list' = SubSeq(list, items, Len(list))
  /\ invalid' = TRUE
  /\ Unlock(d, "invalidating", "false")
  /\ UNCHANGED <<items, calls, linked, delivered, overlapped, crashed>>

\* As many nodes are destroyed as the semaphore counts; it keeps its value.
\* The return value is false, as in the error path.
Invalidate(d, arg) ==
  /\ ~invalid /\ arg # "NULL"
  /\ items <= Len(list)
  /\ destroyed' = destroyed \o SubSeq(list, 1, items)
  /\ list' = SubSeq(list, items + 1, Len(list))
  /\ invalid' = TRUE
  /\ Unlock(d, "invalidating", "false")
  /\ UNCHANGED <<items, calls, linked, delivered, overlapped, crashed>>

\* The semaphore counts more nodes than there are: front becomes NULL in
\* the middle of the loop.
InvalidateCrash(d, arg) ==
  /\ pc[d] = "invalidating"
  /\ ~invalid /\ arg # "NULL"
  /\ items > Len(list)
  /\ crashed' = TRUE
  /\ UNCHANGED <<list, items, lock, invalid, pc, calls, history>>

-----------------------------------------------------------------------------
Enqueue(p, arg) ==
  \/ EnqueueReject(p, arg) \/ EnqueueOutOfMemory(p, arg)
  \/ LinkFirst(p, arg) \/ LinkAfterRear(p, arg) \/ LinkAfterFreedRear(p, arg)

ProducerStep(p) ==
  \/ EnqueueLock(p)
  \/ \E arg \in {"item", "NULL"} : Enqueue(p, arg)
  \/ EnqueuePost(p)

ConsumerStep(c) ==
  \/ DequeueWait(c) \/ DequeueLock(c)
  \/ DequeueReject(c) \/ DequeueTake(c) \/ DequeueCrash(c)

DestroyerStep(d) ==
  \/ InvalidateLock(d)
  \/ \E arg \in {"destroy", "NULL"} :
       InvalidateReject(d, arg) \/ Invalidate(d, arg) \/ InvalidateCrash(d, arg)

Next ==
  /\ ~crashed
  /\ \/ \E p \in Producers : ProducerStep(p)
     \/ \E c \in Consumers : ConsumerStep(c)
     \/ \E d \in Destroyers : DestroyerStep(d)

\* A thread inside an operation goes on, and a consumer calls dequeue again
\* as cream.c's workers do; nobody has to call enqueue or invalidate_queue.
\* Calls are bounded, so the mutex cannot be taken from a waiting thread for
\* ever and weak fairness is enough.
Fairness ==
  /\ \A p \in Producers :
       WF_vars(~crashed /\ pc[p] # "idle" /\ ProducerStep(p))
  /\ \A c \in Consumers : WF_vars(~crashed /\ ConsumerStep(c))
  /\ \A d \in Destroyers :
       WF_vars(~crashed /\ pc[d] # "idle" /\ DestroyerStep(d))

Spec == Init /\ [][Next]_vars

FairSpec == Spec /\ Fairness

-----------------------------------------------------------------------------
TypeOK ==
  /\ list \in Seq(Nat) /\ items \in Nat /\ lock \in Threads \cup {NoThread}
  /\ invalid \in BOOLEAN
  /\ pc \in [Threads -> Places]
  /\ calls \in Nat /\ linked \in Nat
  /\ delivered \in Seq(Nat) /\ destroyed \in Seq(Nat)
  /\ overlapped \in BOOLEAN /\ crashed \in BOOLEAN

Holding == {"enqueuing", "dequeuing", "invalidating", "leaked"}

\* The mutex is held by exactly the thread inside a critical section, and
\* by a producer whose allocation failed.
MutualExclusion == \A t \in Threads : lock = t <=> pc[t] \in Holding

\* No item is left in the list without a token that will fetch it: dequeue
\* cannot sleep in sem_wait while the list still holds an item, once the
\* operations in flight are done (queue.c:55-56, 61).
NoStrandedItem == ~invalid => Len(list) <= Tokens

Ascending(s) == \A i, j \in 1 .. Len(s) : i < j => s[i] < s[j]

\* Items leave in the order they were linked, none of them twice, whatever
\* threads interleave and however items are lost (queue.c:47-54, 68-71).
FifoOrder == Ascending(delivered \o destroyed \o list)

\* If no enqueue linked while another operation was in flight, the list
\* holds exactly what the semaphore announces and nothing crashes.
SerialExact == ~overlapped => ~crashed /\ (invalid \/ Len(list) = Tokens)

\* ... and no item is lost.
Lost == {n \in 1 .. linked :
           \A s \in {list, delivered, destroyed} :
             \A i \in 1 .. Len(s) : s[i] # n}

NoLossWithoutOverlap == ~overlapped => Lost = {}

\* dequeue returns "The item in the node at the head of the queue, or NULL
\* if the queue was empty" (queue.h:60-61): a call that got past sem_wait
\* does not dereference a null front.
DequeueFindsItem ==
  \A c \in Consumers : ~invalid /\ pc[c] = "dequeuing" => list # <<>>

\* Once the queue is invalid no item is handed out and none is added.
ClosedForGood == [][invalid => UNCHANGED <<invalid, list, delivered, linked>>]_vars

Leaked == \E p \in Producers : pc[p] = "leaked"

\* A queued item leaves the queue (it is taken, or overwritten by an
\* enqueue that saw the semaphore at 0), unless the queue is invalidated,
\* the process crashed, or a failed enqueue kept the lock.
QueuedItemLeaves ==
  \A n \in 1 .. MaxCalls :
    (\E i \in 1 .. Len(list) : list[i] = n)
      ~> (\/ \A i \in 1 .. Len(list) : list[i] # n
          \/ invalid \/ crashed \/ Leaked)

\* What the callers see of the queue.
WQ == INSTANCE WorkQueue WITH
        pending <- list, issued <- linked, closed <- invalid, failed <- crashed,
        inFlight <- InFlight

\* queue.c implements WorkQueue: what it loses, leaves undestroyed or crashes
\* on is due to the calls in flight, and no more than they account for.
ImplementsWorkQueue == WQ!Spec
=============================================================================
