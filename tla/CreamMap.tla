----------------------------- MODULE CreamMap -----------------------------
(***************************************************************************)
(* The hash map of CREAM_Client/src/hashmap.c: open addressing with linear *)
(* probing, write_lock around put, delete, clear_map and invalidate_map,   *)
(* and a readers' section of get built from fields_lock, num_readers and   *)
(* write_lock.                                                             *)
(*                                                                         *)
(* The n-th call of put brings the n-th key buffer and the n-th value      *)
(* buffer, as the callers malloc both for each call.  A slot holds         *)
(*   base  the buffer key_base points to, 0 for NULL; clear_map frees the  *)
(*         buffer and leaves the pointer                                   *)
(*   key   the key's bytes, NoKey when key_len is 0                        *)
(*   val   the buffer val_base points to, 0 when val_len is 0              *)
(*                                                                         *)
(* What runs under the write lock is one step: WriterExcludesReaders and   *)
(* StableWhileRead are the reason why that loses nothing.                  *)
(***************************************************************************)
EXTENDS Naturals, Sequences, FiniteSets

CONSTANTS
  Threads,   \* the callers
  Keys,      \* the keys
  NoKey,     \* the key of length 0
  Capacity,  \* self->capacity
  Hash,      \* get_index: the home slot of each key
  Free,      \* the owner of a mutex nobody holds
  Readers,   \* the owner of write_lock while get's readers hold it
  MaxPuts    \* bound: how often put is called

Slots == 0 .. Capacity - 1

ASSUME CapacityAssumption == Capacity \in Nat \ {0}
ASSUME HashAssumption == Hash \in [Keys -> Slots]
ASSUME ThreadsAssumption ==
  /\ IsFiniteSet(Threads)
  /\ Free \notin Threads /\ Readers \notin Threads /\ Free # Readers
ASSUME NoKeyAssumption == NoKey \notin Keys
ASSUME BoundAssumption == MaxPuts \in Nat

VARIABLES
  nodes,       \* self->nodes
  size,        \* self->size
  invalid,     \* self->invalid; the nodes are freed when it is set
  numReaders,  \* self->num_readers
  writeLock,   \* the owner of self->write_lock
  fieldsLock,  \* the owner of self->fields_lock
  pc,          \* where each thread is
  wanted,      \* the key each thread looks up, until it has looked
  answer,      \* the value buffer each thread's last get found, 0 for none
  putKeys,     \* history: the key of each put
  freed,       \* history: the buffers destroy_function freed
  badFree,     \* history: destroy_function freed a buffer twice
  staleRead,   \* history: get read the nodes after they were freed
  cleared,     \* history: clear_map emptied a slot
  latest       \* history: what hashmap.h says get returns for each key

vars == <<nodes, size, invalid, numReaders, writeLock, fieldsLock, pc, wanted,
          answer, putKeys, freed, badFree, staleRead, cleared, latest>>
locks == <<numReaders, writeLock, fieldsLock>>
table == <<nodes, size, invalid>>
buffers == <<freed, badFree>>
readers == <<wanted, answer, staleRead>>
history == <<putKeys, cleared, latest>>

Empty == [base |-> 0, key |-> NoKey, val |-> 0]

Init ==
  /\ nodes = [i \in Slots |-> Empty] /\ size = 0 /\ invalid = FALSE
  /\ numReaders = 0 /\ writeLock = Free /\ fieldsLock = Free
  /\ pc = [t \in Threads |-> "idle"]
  /\ wanted = [t \in Threads |-> NoKey]
  /\ answer = [t \in Threads |-> 0]
  /\ putKeys = <<>> /\ freed = {} /\ badFree = FALSE /\ staleRead = FALSE
  /\ cleared = FALSE /\ latest = [k \in Keys |-> 0]

-----------------------------------------------------------------------------
(* Probing *)

\* How many steps the probe that starts at slot h needs to reach slot i.
Distance(h, i) == (i + Capacity - h) % Capacity

\* The slot of S, a nonempty set, that a probe from h reaches first.
Nearest(h, S) == CHOOSE i \in S : \A j \in S : Distance(h, i) <= Distance(h, j)

Holders(k) == {i \in Slots : nodes[i].key = k}

\* What the scan of get finds: the first slot with that key, all slots tried.
Lookup(k) ==
  IF Holders(k) = {} THEN 0 ELSE nodes[Nearest(Hash[k], Holders(k))].val

\* The slots a probe of put takes for free: key_base is NULL.
Unused == {i \in Slots : nodes[i].base = 0}

\* The home slot takes the key: never used, or its key_len is 0.
HomeFree(k) == nodes[Hash[k]].base = 0 \/ nodes[Hash[k]].key = NoKey

\* The two buffers of an entry.
Owned(i) == {<<"key", nodes[i].base>>, <<"val", nodes[i].val>>}

\* destroy_function on the slots of S, one after the other: both buffers of
\* each are freed.
Destroy(S) ==
  /\ freed' = freed \cup UNION {Owned(i) : i \in S}
  /\ badFree' = \/ badFree
                \/ \E i \in S : Owned(i) \cap freed # {}
                \/ \E i, j \in S : i # j /\ Owned(i) \cap Owned(j) # {}

-----------------------------------------------------------------------------
(* The writers: put, delete, clear_map, invalidate_map *)

\* Mutant: the lock is taken from the readers.
WriteLockAnyway(t) ==
  /\ pc[t] = "idle"
  /\ writeLock \notin Threads
  /\ writeLock' = t
  /\ pc' = [pc EXCEPT ![t] = "writing"]
  /\ UNCHANGED <<table, numReaders, fieldsLock, readers, buffers, history>>

WriteLock(t) ==
  /\ pc[t] = "idle"
  /\ writeLock = Free
  /\ writeLock' = t
  /\ pc' = [pc EXCEPT ![t] = "writing"]
  /\ UNCHANGED <<table, numReaders, fieldsLock, readers, buffers, history>>

\* The end of an operation that holds the write lock.
WriteUnlock(t) ==
  /\ pc[t] = "writing"
  /\ writeLock' = Free
  /\ pc' = [pc EXCEPT ![t] = "idle"]
  /\ UNCHANGED <<numReaders, fieldsLock, readers>>

\* Any of the four on an invalid map, or on a null key or value: EINVAL.
WriteReject(t, k) ==
  /\ invalid \/ k = NoKey
  /\ WriteUnlock(t)
  /\ UNCHANGED <<table, buffers, history>>

\* A put with proper arguments; n is the number of its buffers.
PutCall(t, k, n) ==
  /\ ~invalid /\ k # NoKey
  /\ n <= MaxPuts
  /\ putKeys' = Append(putKeys, k)
  /\ WriteUnlock(t)
  /\ UNCHANGED <<invalid, cleared>>

Fill(i, k, n) == nodes' = [nodes EXCEPT ![i] = [base |-> n, key |-> k, val |-> n]]

\* The key is at home: its value is overwritten, the old buffer leaked.
PutUpdate(t, k, n) ==
  /\ PutCall(t, k, n)
  /\ nodes[Hash[k]].key = k
  /\ nodes' = [nodes EXCEPT ![Hash[k]].val = n]
  /\ latest' = [latest EXCEPT ![k] = n]
  /\ UNCHANGED <<size, buffers>>

\* The home slot is free.
PutHome(t, k, n) ==
  /\ PutCall(t, k, n)
  /\ HomeFree(k)
  /\ Fill(Hash[k], k, n)
  /\ size' = size + 1
  /\ latest' = [latest EXCEPT ![k] = n]
  /\ UNCHANGED buffers

\* Mutant: the entry is written to the home slot, not to the unused one.
PutProbeHome(t, k, n) ==
  /\ PutCall(t, k, n)
  /\ nodes[Hash[k]].key # k /\ ~HomeFree(k)
  /\ Unused # {}
  /\ Fill(Hash[k], k, n)
  /\ size' = size + 1
  /\ latest' = [latest EXCEPT ![k] = n]
  /\ UNCHANGED buffers

\* The home slot holds another key: the next unused slot takes the entry,
\* whether or not a further slot holds the same key.
PutProbe(t, k, n) ==
  /\ PutCall(t, k, n)
  /\ nodes[Hash[k]].key # k /\ ~HomeFree(k)
  /\ Unused # {}
  /\ Fill(Nearest(Hash[k], Unused), k, n)
  /\ size' = size + 1
  /\ latest' = [latest EXCEPT ![k] = n]
  /\ UNCHANGED buffers

\* Mutant: only the value of the entry at home is replaced.
PutForceKeepsKey(t, k, n) ==
  /\ PutCall(t, k, n)
  /\ nodes[Hash[k]].key # k /\ ~HomeFree(k)
  /\ Unused = {}
  /\ Destroy({Hash[k]})
  /\ Fill(Hash[k], nodes[Hash[k]].key, n)
  /\ latest' = [latest EXCEPT ![nodes[Hash[k]].key] = 0, ![k] = n]
  /\ UNCHANGED size

\* Mutant: the entry that replaces another is counted.
PutForceCounts(t, k, n) ==
  /\ PutCall(t, k, n)
  /\ nodes[Hash[k]].key # k /\ ~HomeFree(k)
  /\ Unused = {}
  /\ Destroy({Hash[k]})
  /\ Fill(Hash[k], k, n)
  /\ latest' = [latest EXCEPT ![nodes[Hash[k]].key] = 0, ![k] = n]
  /\ size' = size + 1

\* Mutant: force overwrites without looking for an unused slot.
PutForceFirst(t, k, n) ==
  /\ PutCall(t, k, n)
  /\ nodes[Hash[k]].key # k /\ ~HomeFree(k)
  /\ Destroy({Hash[k]})
  /\ Fill(Hash[k], k, n)
  /\ latest' = [latest EXCEPT ![nodes[Hash[k]].key] = 0, ![k] = n]
  /\ UNCHANGED size

\* No slot is unused and force is true: the entry at home is destroyed and
\* overwritten.
PutForce(t, k, n) ==
  /\ PutCall(t, k, n)
  /\ nodes[Hash[k]].key # k /\ ~HomeFree(k)
  /\ Unused = {}
  /\ Destroy({Hash[k]})
  /\ Fill(Hash[k], k, n)
  /\ latest' = [latest EXCEPT ![nodes[Hash[k]].key] = 0, ![k] = n]
  /\ UNCHANGED size

\* No slot is unused and force is false: ENOMEM, nothing is inserted.
PutFull(t, k, n) ==
  /\ PutCall(t, k, n)
  /\ nodes[Hash[k]].key # k /\ ~HomeFree(k)
  /\ Unused = {}
  /\ UNCHANGED <<nodes, size, buffers, latest>>

Put(t, k) ==
  LET n == Len(putKeys) + 1
  IN \/ PutUpdate(t, k, n) \/ PutHome(t, k, n) \/ PutProbe(t, k, n)
     \/ PutForce(t, k, n) \/ PutFull(t, k, n)

\* Mutant: size is counted down whether or not the key was found.
DeleteAlwaysCounts(t, k) ==
  /\ ~invalid /\ k # NoKey
  /\ nodes' = IF Holders(k) = {} THEN nodes
              ELSE [nodes EXCEPT ![Nearest(Hash[k], Holders(k))] = Empty]
  /\ size' = size - 1
  /\ latest' = [latest EXCEPT ![k] = 0]
  /\ WriteUnlock(t)
  /\ UNCHANGED <<invalid, buffers, putKeys, cleared>>

\* Mutant: the entry stays in the map.
DeleteNothing(t, k) ==
  /\ ~invalid /\ k # NoKey
  /\ latest' = [latest EXCEPT ![k] = 0]
  /\ WriteUnlock(t)
  /\ UNCHANGED <<nodes, size, invalid, buffers, putKeys, cleared>>

\* delete: the first slot with the key is emptied, its buffers are the
\* caller's.  If there is none, an uninitialised node is returned.
Delete(t, k) ==
  /\ ~invalid /\ k # NoKey
  /\ \/ /\ Holders(k) # {}
        /\ nodes' = [nodes EXCEPT ![Nearest(Hash[k], Holders(k))] = Empty]
        /\ size' = size - 1
     \/ /\ Holders(k) = {}
        /\ UNCHANGED <<nodes, size>>
  /\ latest' = [latest EXCEPT ![k] = 0]
  /\ WriteUnlock(t)
  /\ UNCHANGED <<invalid, buffers, putKeys, cleared>>

\* Mutant: the lengths are not set to 0.
DestroyEntriesOnly ==
  /\ Destroy({i \in Slots : nodes[i].key # NoKey \/ nodes[i].val # 0})
  /\ latest' = [k \in Keys |-> 0]
  /\ UNCHANGED <<nodes, cleared>>

\* The loop clear_map and invalidate_map share: entries are destroyed and
\* their lengths set to 0; key_base and size stay as they are.
DestroyEntries ==
  /\ Destroy({i \in Slots : nodes[i].key # NoKey \/ nodes[i].val # 0})
  /\ nodes' = [i \in Slots |-> [nodes[i] EXCEPT !.key = NoKey, !.val = 0]]
  /\ latest' = [k \in Keys |-> 0]
  /\ cleared' = (cleared \/ nodes' # nodes)

ClearMap(t) ==
  /\ ~invalid
  /\ DestroyEntries
  /\ WriteUnlock(t)
  /\ UNCHANGED <<size, invalid, putKeys>>

InvalidateMap(t) ==
  /\ ~invalid
  /\ DestroyEntries
  /\ invalid' = TRUE
  /\ WriteUnlock(t)
  /\ UNCHANGED <<size, putKeys>>

-----------------------------------------------------------------------------
(* The readers: get *)

GetLockFields(t) ==
  /\ pc[t] = "idle"
  /\ fieldsLock = Free
  /\ fieldsLock' = t
  /\ pc' = [pc EXCEPT ![t] = "checking"]
  /\ UNCHANGED <<table, numReaders, writeLock, readers, buffers, history>>

\* Mutant: the error path forgets to unlock.
GetRejectLocked(t, k) ==
  /\ pc[t] = "checking"
  /\ invalid \/ k = NoKey
  /\ pc' = [pc EXCEPT ![t] = "idle"]
  /\ UNCHANGED <<table, locks, readers, buffers, history>>

\* Invalid map or null key: EINVAL.
GetReject(t, k) ==
  /\ pc[t] = "checking"
  /\ invalid \/ k = NoKey
  /\ fieldsLock' = Free
  /\ pc' = [pc EXCEPT ![t] = "idle"]
  /\ UNCHANGED <<table, numReaders, writeLock, readers, buffers, history>>

\* num_readers is incremented; the first reader goes on to lock write_lock
\* and keeps fields_lock meanwhile.
GetEnter(t, k) ==
  /\ pc[t] = "checking"
  /\ ~invalid /\ k # NoKey
  /\ numReaders' = numReaders + 1
  /\ wanted' = [wanted EXCEPT ![t] = k]
  /\ \/ /\ numReaders = 0
        /\ pc' = [pc EXCEPT ![t] = "first"]
        /\ UNCHANGED fieldsLock
     \/ /\ numReaders # 0
        /\ pc' = [pc EXCEPT ![t] = "reading"]
        /\ fieldsLock' = Free
  /\ UNCHANGED <<table, writeLock, answer, staleRead, buffers, history>>

\* Mutant: the first reader does not wait for the writer.
GetNoLockWrite(t) ==
  /\ pc[t] = "first"
  /\ fieldsLock' = Free
  /\ pc' = [pc EXCEPT ![t] = "reading"]
  /\ UNCHANGED <<table, numReaders, writeLock, readers, buffers, history>>

GetLockWrite(t) ==
  /\ pc[t] = "first"
  /\ writeLock = Free
  /\ writeLock' = Readers
  /\ fieldsLock' = Free
  /\ pc' = [pc EXCEPT ![t] = "reading"]
  /\ UNCHANGED <<table, numReaders, readers, buffers, history>>

\* Mutant: only the lengths of the keys are compared.
GetScanLengthOnly(t) ==
  /\ pc[t] = "reading"
  /\ ~invalid
  /\ LET used == {i \in Slots : nodes[i].key # NoKey}
     IN answer' = [answer EXCEPT ![t] =
          IF used = {} THEN 0 ELSE nodes[Nearest(Hash[wanted[t]], used)].val]
  /\ wanted' = [wanted EXCEPT ![t] = NoKey]
  /\ pc' = [pc EXCEPT ![t] = "scanned"]
  /\ UNCHANGED <<table, locks, staleRead, buffers, history>>

\* The scan.
GetScan(t) ==
  /\ pc[t] = "reading"
  /\ ~invalid
  /\ answer' = [answer EXCEPT ![t] = Lookup(wanted[t])]
  /\ wanted' = [wanted EXCEPT ![t] = NoKey]
  /\ pc' = [pc EXCEPT ![t] = "scanned"]
  /\ UNCHANGED <<table, locks, staleRead, buffers, history>>

\* invalidate_map ran after the check of invalid: the nodes are freed, and
\* what the scan reads is left over; it may find nothing or any old value.
GetScanFreed(t) ==
  /\ pc[t] = "reading"
  /\ invalid
  /\ staleRead' = TRUE
  /\ \E v \in 0 .. Len(putKeys) : answer' = [answer EXCEPT ![t] = v]
  /\ wanted' = [wanted EXCEPT ![t] = NoKey]
  /\ pc' = [pc EXCEPT ![t] = "scanned"]
  /\ UNCHANGED <<table, locks, buffers, history>>

GetLockFieldsAgain(t) ==
  /\ pc[t] = "scanned"
  /\ fieldsLock = Free
  /\ fieldsLock' = t
  /\ pc' = [pc EXCEPT ![t] = "leaving"]
  /\ UNCHANGED <<table, numReaders, writeLock, readers, buffers, history>>

\* Mutant: every reader that leaves unlocks write_lock.
GetLeaveUnlocks(t) ==
  /\ pc[t] = "leaving"
  /\ numReaders' = numReaders - 1
  /\ writeLock' = Free
  /\ fieldsLock' = Free
  /\ pc' = [pc EXCEPT ![t] = "idle"]
  /\ UNCHANGED <<table, readers, buffers, history>>

\* The last reader unlocks write_lock, which another thread may have locked.
GetLeave(t) ==
  /\ pc[t] = "leaving"
  /\ numReaders' = numReaders - 1
  /\ writeLock' = IF numReaders' = 0 THEN Free ELSE writeLock
  /\ fieldsLock' = Free
  /\ pc' = [pc EXCEPT ![t] = "idle"]
  /\ UNCHANGED <<table, readers, buffers, history>>

-----------------------------------------------------------------------------
Write(t) ==
  \/ WriteLock(t)
  \/ \E k \in Keys \cup {NoKey} : WriteReject(t, k) \/ Put(t, k) \/ Delete(t, k)
  \/ ClearMap(t) \/ InvalidateMap(t)

Get(t) ==
  \/ GetLockFields(t)
  \/ \E k \in Keys \cup {NoKey} : GetReject(t, k) \/ GetEnter(t, k)
  \/ GetLockWrite(t) \/ GetScan(t) \/ GetScanFreed(t)
  \/ GetLockFieldsAgain(t) \/ GetLeave(t)

Next == \E t \in Threads : Write(t) \/ Get(t)

Spec == Init /\ [][Next]_vars

\* A thread inside an operation does not stop there.
Fairness == \A t \in Threads : WF_vars(pc[t] # "idle" /\ (Write(t) \/ Get(t)))

FairSpec == Spec /\ Fairness

-----------------------------------------------------------------------------
Places == {"idle", "writing", "checking", "first", "reading", "scanned", "leaving"}

Buffers == {"key", "val"} \X (0 .. MaxPuts)

SlotType == [base : 0 .. MaxPuts, key : Keys \cup {NoKey}, val : 0 .. MaxPuts]

TypeOK ==
  /\ nodes \in [Slots -> SlotType] /\ size \in Nat /\ invalid \in BOOLEAN
  /\ numReaders \in Nat
  /\ writeLock \in Threads \cup {Free, Readers}
  /\ fieldsLock \in Threads \cup {Free}
  /\ pc \in [Threads -> Places]
  /\ wanted \in [Threads -> Keys \cup {NoKey}]
  /\ answer \in [Threads -> 0 .. MaxPuts]
  /\ putKeys \in Seq(Keys) /\ Len(putKeys) <= MaxPuts
  /\ freed \subseteq Buffers
  /\ badFree \in BOOLEAN /\ staleRead \in BOOLEAN /\ cleared \in BOOLEAN
  /\ latest \in [Keys -> 0 .. MaxPuts]

\* The threads between the increment and the decrement of num_readers that
\* have been let in.
Inside == {t \in Threads : pc[t] \in {"reading", "scanned", "leaving"}}

\* A writer works alone: no second writer, and no reader between the two
\* updates of num_readers, although the readers share one lock that the last
\* of them releases (hashmap.c:112-123, 154-158).
WriterExcludesReaders ==
  \A t \in Threads : pc[t] = "writing" =>
    Inside = {} /\ \A u \in Threads : pc[u] = "writing" => u = t

\* The slots do not change while a reader scans them (hashmap.c:125-152).
StableWhileRead == [][Inside # {} => UNCHANGED <<nodes, invalid, freed>>]_vars

\* destroy_function gets each buffer at most once, whatever sequence of
\* overwriting, forced, deleting and clearing calls led there, with pointers
\* left dangling by clear_map (hashmap.c:93, 236-242, 254-260).
NoDoubleFree == ~badFree

\* What get found stays allocated until the reader leaves: only then may a
\* writer destroy it (hashmap.c:125-158).
AnswerAliveInside ==
  \A t \in Threads :
    pc[t] \in {"scanned", "leaving"} /\ answer[t] # 0 /\ ~staleRead
      => <<"val", answer[t]>> \notin freed

\* What get would find for a key was put under that key, and is not freed.
AnswersAreOwn ==
  ~invalid => \A k \in Keys :
    LET v == Lookup(k) IN v # 0 => putKeys[v] = k /\ <<"val", v>> \notin freed

\* A key that was put and neither deleted, cleared nor evicted is found by
\* get, wherever probing has put it and whatever was deleted in between
\* (hashmap.c:58-91, 129-146: no search stops at a deleted slot).
PresentIsFound == ~invalid => \A k \in Keys : latest[k] # 0 => Lookup(k) # 0

\* size counts the entries, through overwriting, forced and failed calls of
\* put, until clear_map empties a slot without counting down
\* (hashmap.c:55, 70, 87, 182, 199, 219).
SizeCountsEntries ==
  ~cleared => size = Cardinality({i \in Slots : nodes[i].key # NoKey})

\* "If the map is full and force is true, the entry at the index computed by
\* get_index() is overwritten" (hashmap.h:62-63): until clear_map has left its
\* pointers behind, a put that makes another key's entry disappear found
\* every slot taken.  (Afterwards a slot with such a pointer counts as taken.)
EvictsOnlyWhenFullUncleared ==
  [][(\E k \in Keys : Lookup(k) # 0 /\ Lookup(k)' = 0)
       /\ Len(putKeys') > Len(putKeys) /\ ~cleared
     => \A i \in Slots : nodes[i].key # NoKey]_vars

\* "If the key already exists, the corresponding value is overwritten."
\* (hashmap.h:60): get finds what was put last, and nothing once the key is
\* deleted, evicted or cleared.
FindsLatest == ~invalid => \A k \in Keys : Lookup(k) = latest[k]

\* With a slot of its own for every key the map is a key-value store: its
\* scans and writes take effect one at a time.
KV == INSTANCE KVStore WITH
        Values <- 1 .. MaxPuts, Missing <- 0, closed <- invalid, asked <- wanted,
        store <- [k \in Keys |-> Lookup(k)]

ImplementsKVStore == KV!Spec

\* An operation that was begun returns, if no thread begins another one
\* for ever: the locks are always released (hashmap.c as a whole).
OperationsReturn ==
  (<>[][\A t \in Threads : pc[t] = "idle" => pc'[t] = "idle"]_vars)
    => []<>(\A t \in Threads : pc[t] = "idle")
=============================================================================
