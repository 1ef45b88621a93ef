-------------------------- MODULE CreamMap_proofs --------------------------
(***************************************************************************)
(* Theorems about CreamMap, for any threads, keys, capacity, hash and      *)
(* number of puts.                                                         *)
(***************************************************************************)
EXTENDS CreamMap, FiniteSetTheorems, WellFoundedInduction, TLAPS

-----------------------------------------------------------------------------
(* The locks *)

Counted == {t \in Threads : pc[t] \in {"first", "reading", "scanned", "leaving"}}

LockType ==
  /\ pc \in [Threads -> Places]
  /\ writeLock \in Threads \cup {Free, Readers}
  /\ fieldsLock \in Threads \cup {Free}

\* num_readers counts the readers; fields_lock is held by the thread that
\* updates it, write_lock by one writer or by all readers together.
LockInv ==
  /\ LockType
  /\ numReaders = Cardinality(Counted)
  /\ \A t \in Threads : fieldsLock = t <=> pc[t] \in {"checking", "first", "leaving"}
  /\ \A t \in Threads : writeLock = t <=> pc[t] = "writing"
  /\ writeLock = Readers <=> Inside # {}
  /\ \A t \in Threads : pc[t] = "first" => Inside = {}

\* The readers are finitely many.
LEMMA CountedFinite ==
  /\ IsFiniteSet(Counted) /\ Cardinality(Counted) \in Nat
  /\ Cardinality(Counted) = 0 <=> Counted = {}
<1>1. IsFiniteSet(Counted)
  BY ThreadsAssumption, FS_Subset DEF Counted
<1> QED
  BY <1>1, FS_CardinalityType, FS_EmptySet

\* How the sets of readers change when one thread moves.
LEMMA MoveReader ==
  ASSUME LockType, NEW t \in Threads, NEW to, pc' = [pc EXCEPT ![t] = to]
  PROVE  /\ Counted' = IF to \in {"first", "reading", "scanned", "leaving"}
                       THEN Counted \cup {t} ELSE Counted \ {t}
         /\ Inside' = IF to \in {"reading", "scanned", "leaving"}
                      THEN Inside \cup {t} ELSE Inside \ {t}
<1>1. \A u \in Threads : pc'[u] = IF u = t THEN to ELSE pc[u]
  BY DEF LockType
<1> QED
  BY <1>1 DEF Counted, Inside

\* Nobody is inside, or counted, at first.
LEMMA LockInit == Init => LockInv
<1> SUFFICES ASSUME Init PROVE LockInv
  OBVIOUS
<1>1. pc = [t \in Threads |-> "idle"]
  BY DEF Init
<1>2. Counted = {} /\ Inside = {}
  BY <1>1 DEF Counted, Inside
<1>3. numReaders = Cardinality(Counted)
  BY <1>2, FS_EmptySet DEF Init
<1> QED
  BY <1>1, <1>2, <1>3, ThreadsAssumption DEF Init, LockInv, LockType, Places

\* Every step keeps the lock invariant.
LEMMA LockStep == ASSUME LockInv, [Next]_vars PROVE LockInv'
<1>0. \A t \in Threads : t # Free /\ t # Readers
  BY ThreadsAssumption
<1>1. CASE UNCHANGED <<pc, locks>>
  BY <1>1 DEF LockInv, LockType, Counted, Inside, locks
<1>2. ASSUME NEW t \in Threads, WriteLock(t) PROVE LockInv'
  <2>1. Counted' = Counted /\ Inside' = Inside
    BY <1>2, MoveReader DEF WriteLock, LockInv, LockType, Counted, Inside
  <2> QED
    BY <1>0, <1>2, <2>1, ThreadsAssumption DEF WriteLock, LockInv, LockType, Places
<1>3. ASSUME NEW t \in Threads, WriteUnlock(t) PROVE LockInv'
  <2>1. Counted' = Counted /\ Inside' = Inside
    BY <1>3, MoveReader DEF WriteUnlock, LockInv, LockType, Counted, Inside
  <2>2. Inside = {}
    BY <1>0, <1>3 DEF WriteUnlock, LockInv
  <2> QED
    BY <1>0, <1>3, <2>1, <2>2, ThreadsAssumption DEF WriteUnlock, LockInv, LockType, Places
<1>4. ASSUME NEW t \in Threads, GetLockFields(t) PROVE LockInv'
  <2>1. Counted' = Counted /\ Inside' = Inside
    BY <1>4, MoveReader DEF GetLockFields, LockInv, LockType, Counted, Inside
  <2> QED
    BY <1>0, <1>4, <2>1, ThreadsAssumption DEF GetLockFields, LockInv, LockType, Places
<1>5. ASSUME NEW t \in Threads, NEW k, GetReject(t, k) PROVE LockInv'
  <2>1. Counted' = Counted /\ Inside' = Inside
    BY <1>5, MoveReader DEF GetReject, LockInv, LockType, Counted, Inside
  <2> QED
    BY <1>0, <1>5, <2>1, ThreadsAssumption DEF GetReject, LockInv, LockType, Places
<1>6. ASSUME NEW t \in Threads, NEW k, GetEnter(t, k) PROVE LockInv'
  <2>1. t \notin Counted /\ t \notin Inside
    BY <1>6 DEF GetEnter, Counted, Inside
  <2>2. numReaders' = Cardinality(Counted \cup {t})
    BY <1>6, <2>1, CountedFinite, FS_AddElement DEF GetEnter, LockInv
  <2>3. fieldsLock = t /\ \A u \in Threads : pc[u] \in {"checking", "first", "leaving"} => u = t
    BY <1>6 DEF GetEnter, LockInv
  <2>4. CASE numReaders = 0 /\ pc' = [pc EXCEPT ![t] = "first"] /\ UNCHANGED fieldsLock
    <3>1. Counted = {} /\ Inside = {}
      BY <2>4, CountedFinite DEF LockInv, Counted, Inside
    <3>2. Counted' = Counted \cup {t} /\ Inside' = {}
      <4>1. \A u \in Threads : pc'[u] = IF u = t THEN "first" ELSE pc[u]
        BY <2>4 DEF LockInv, LockType
      <4>2. Counted' = Counted \cup {t}
        BY <4>1 DEF Counted
      <4>3. Inside' = Inside \ {t}
        BY <4>1 DEF Inside
      <4> QED
        BY <3>1, <4>2, <4>3
    <3>3. writeLock' = writeLock
      BY <1>6 DEF GetEnter
    <3> QED
      BY <1>0, <2>2, <2>3, <2>4, <3>1, <3>2, <3>3, ThreadsAssumption DEF LockInv, LockType, Places
  <2>5. CASE numReaders # 0 /\ pc' = [pc EXCEPT ![t] = "reading"] /\ fieldsLock' = Free
    <3>1. Counted # {} /\ Counted = Inside
      <4>1. Counted # {}
        BY <2>5, CountedFinite DEF LockInv
      <4>2. \A u \in Threads : pc[u] # "first"
        BY <1>6, <2>3 DEF GetEnter
      <4> QED
        BY <4>1, <4>2 DEF Counted, Inside
    <3>2. Counted' = Counted \cup {t} /\ Inside' = Inside \cup {t}
      BY <2>5, MoveReader DEF LockInv
    <3>3. writeLock' = writeLock /\ pc[t] = "checking"
      BY <1>6 DEF GetEnter
    <3>4. \A u \in Threads : pc'[u] # "first"
      BY <2>3, <2>5, <3>3 DEF LockInv, LockType
    <3> QED
      BY <1>0, <2>2, <2>3, <2>5, <3>1, <3>2, <3>3, <3>4, ThreadsAssumption
         DEF LockInv, LockType, Places
  <2> QED
    BY <1>6, <2>4, <2>5 DEF GetEnter
<1>7. ASSUME NEW t \in Threads, GetLockWrite(t) PROVE LockInv'
  <2>1. Counted' = Counted /\ Inside' = Inside \cup {t}
    BY <1>7, MoveReader DEF GetLockWrite, LockInv, LockType, Counted
  <2>2. fieldsLock = t /\ \A u \in Threads : pc[u] \in {"checking", "first", "leaving"} => u = t
    BY <1>7 DEF GetLockWrite, LockInv
  <2>3. \A u \in Threads : pc[u] # "writing"
    BY <1>0, <1>7 DEF GetLockWrite, LockInv
  <2> QED
    BY <1>0, <1>7, <2>1, <2>2, <2>3, ThreadsAssumption DEF GetLockWrite, LockInv, LockType, Places
<1>8. ASSUME NEW t \in Threads, GetScan(t) \/ GetScanFreed(t) PROVE LockInv'
  <2>1. Counted' = Counted /\ Inside' = Inside
    BY <1>8, MoveReader DEF GetScan, GetScanFreed, LockInv, LockType, Counted, Inside
  <2> QED
    BY <1>0, <1>8, <2>1, ThreadsAssumption
       DEF GetScan, GetScanFreed, LockInv, LockType, Places, locks
<1>9. ASSUME NEW t \in Threads, GetLockFieldsAgain(t) PROVE LockInv'
  <2>1. Counted' = Counted /\ Inside' = Inside
    BY <1>9, MoveReader DEF GetLockFieldsAgain, LockInv, LockType, Counted, Inside
  <2> QED
    BY <1>0, <1>9, <2>1, ThreadsAssumption DEF GetLockFieldsAgain, LockInv, LockType, Places
<1>10. ASSUME NEW t \in Threads, GetLeave(t) PROVE LockInv'
  <2>1. t \in Counted /\ t \in Inside /\ pc[t] = "leaving"
    BY <1>10 DEF GetLeave, Counted, Inside
  <2>2. Counted' = Counted \ {t} /\ Inside' = Inside \ {t}
    BY <1>10, MoveReader DEF GetLeave, LockInv
  <2>3. numReaders' = Cardinality(Counted')
    BY <1>10, <2>1, <2>2, CountedFinite, FS_RemoveElement DEF GetLeave, LockInv
  <2>4. \A u \in Threads : pc[u] \in {"checking", "first", "leaving"} => u = t
    BY <1>10 DEF GetLeave, LockInv
  <2>5. Counted = Inside /\ \A u \in Threads : pc[u] # "first"
    BY <2>1, <2>4 DEF Counted, Inside
  <2>6. numReaders' = 0 <=> Inside' = {}
    BY <2>2, <2>3, <2>5, CountedFinite, FS_RemoveElement, FS_EmptySet
  <2>7. writeLock = Readers
    BY <2>1 DEF LockInv
  <2>8. /\ pc' = [pc EXCEPT ![t] = "idle"] /\ fieldsLock' = Free
        /\ writeLock' = IF numReaders' = 0 THEN Free ELSE writeLock
    BY <1>10 DEF GetLeave
  <2> QED
    BY <1>0, <2>1, <2>3, <2>4, <2>5, <2>6, <2>7, <2>8, ThreadsAssumption
       DEF LockInv, LockType, Places
<1>11. ASSUME NEW t \in Threads, Write(t) PROVE LockInv'
  BY <1>2, <1>3, <1>11 DEF Write, WriteReject, Put, PutUpdate, PutHome, PutProbe,
     PutForce, PutFull, PutCall, Delete, ClearMap, InvalidateMap
<1>12. ASSUME NEW t \in Threads, Get(t) PROVE LockInv'
  BY <1>4, <1>5, <1>6, <1>7, <1>8, <1>9, <1>10, <1>12 DEF Get
<1> QED
  BY <1>1, <1>11, <1>12 DEF Next, vars, locks

\* A writer never works while another writer or a reader does, for any
\* number of threads.
THEOREM Exclusion == Spec => []WriterExcludesReaders
<1>1. LockInv => WriterExcludesReaders
  BY ThreadsAssumption DEF LockInv, WriterExcludesReaders
<1> QED
  BY <1>1, LockInit, LockStep, PTL DEF Spec

\* The slots, the validity of the map and the freed buffers do not change
\* while a reader is inside.
THEOREM StableForReaders == Spec => StableWhileRead
<1> DEFINE Stable == Inside # {} => UNCHANGED <<nodes, invalid, freed>>
<1>1. ASSUME LockInv, Next PROVE Stable
  <2>1. ASSUME NEW t \in Threads, WriteUnlock(t) PROVE Stable
    BY <1>1, <2>1, ThreadsAssumption DEF WriteUnlock, LockInv
  <2>2. ASSUME NEW t \in Threads, Get(t) \/ WriteLock(t) PROVE Stable
    BY <2>2 DEF Get, GetLockFields, GetReject, GetEnter, GetLockWrite, GetScan,
       GetScanFreed, GetLockFieldsAgain, GetLeave, WriteLock, table, buffers
  <2>3. ASSUME NEW t \in Threads, Write(t) PROVE Stable
    BY <2>1, <2>2, <2>3 DEF Write, WriteReject, Put, PutUpdate, PutHome, PutProbe,
       PutForce, PutFull, PutCall, Delete, ClearMap, InvalidateMap
  <2> QED
    BY <1>1, <2>2, <2>3 DEF Next
<1>2. LockInv /\ [Next]_vars => [Stable]_vars
  BY <1>1
<1> QED
  BY <1>2, LockInit, LockStep, PTL DEF Spec, StableWhileRead

-----------------------------------------------------------------------------
(* Probing *)

\* A probe ends in a slot of the set it looks for.
LEMMA NearestIsIn ==
  ASSUME NEW h \in Slots, NEW S \in SUBSET Slots, S # {}
  PROVE  Nearest(h, S) \in S
<1>1. \A i \in Slots : Distance(h, i) \in Nat
  BY CapacityAssumption DEF Distance, Slots
<1> DEFINE D == {Distance(h, i) : i \in S}
<1>2. D \subseteq Nat /\ D # {}
  BY <1>1
<1>3. \E d \in D : \A e \in D : ~ (<<e, d>> \in OpToRel(<, Nat))
  <2> HIDE DEF D
  <2> QED
    BY <1>2, NatLessThanWellFounded, WFMin
<1>4. PICK d \in D : \A e \in D : ~ (e < d)
  BY <1>2, <1>3 DEF OpToRel
<1>5. \E i \in S : \A j \in S : Distance(h, i) <= Distance(h, j)
  <2>1. PICK i \in S : d = Distance(h, i)
    OBVIOUS
  <2>2. ASSUME NEW j \in S PROVE Distance(h, i) <= Distance(h, j)
    <3>1. Distance(h, j) \in D /\ Distance(h, i) \in Nat /\ Distance(h, j) \in Nat
      BY <1>1
    <3> HIDE DEF D
    <3> QED
      BY ONLY <1>4, <2>1, <3>1
  <2> QED
    BY <2>2
<1> QED
  BY <1>5 DEF Nearest

-----------------------------------------------------------------------------
(* Entries and their buffers *)

Live == {i \in Slots : nodes[i].key # NoKey}

TableType ==
  /\ nodes \in [Slots -> SlotType]
  /\ putKeys \in Seq(Keys) /\ Len(putKeys) <= MaxPuts
  /\ latest \in [Keys -> 0 .. MaxPuts]
  /\ freed \subseteq Buffers
  /\ badFree \in BOOLEAN /\ cleared \in BOOLEAN /\ invalid \in BOOLEAN

\* Every entry owns the two buffers of a put of its key: they are not freed
\* and no other entry owns them.  A buffer is freed after it was put.
OwnInv ==
  /\ \A i \in Live :
       /\ nodes[i].base \in 1 .. Len(putKeys)
       /\ nodes[i].val \in 1 .. Len(putKeys)
       /\ putKeys[nodes[i].val] = nodes[i].key
       /\ Owned(i) \cap freed = {}
  /\ \A i \in Slots \ Live : nodes[i].val = 0
  /\ \A i, j \in Live : i # j => nodes[i].base # nodes[j].base
                               /\ nodes[i].val # nodes[j].val
  /\ \A b \in freed : b[2] <= Len(putKeys)
  /\ ~badFree

\* A key that is present for the callers has an entry.
FoundInv == \A k \in Keys : latest[k] # 0 => Holders(k) # {}

TableInv == TableType /\ OwnInv /\ FoundInv

\* The steps that leave the table, its buffers and the history of puts alone.
Idle == UNCHANGED <<nodes, invalid, freed, badFree, putKeys, latest, cleared, size>>

\* An idle step keeps the invariant.
LEMMA IdleStep == ASSUME TableInv, Idle PROVE TableInv'
BY DEF TableInv, TableType, OwnInv, FoundInv, Holders, Live, Owned, Idle

\* Which writers can touch the table at all.
LEMMA TableSteps ==
  ASSUME [Next]_vars
  PROVE  \/ Idle
         \/ \E t \in Threads, k \in Keys \cup {NoKey} : Put(t, k) \/ Delete(t, k)
         \/ \E t \in Threads : ClearMap(t) \/ InvalidateMap(t)
<1>1. ASSUME NEW t \in Threads, Get(t) \/ WriteLock(t) PROVE Idle
  BY <1>1 DEF Get, GetLockFields, GetReject, GetEnter, GetLockWrite, GetScan,
     GetScanFreed, GetLockFieldsAgain, GetLeave, WriteLock, table, buffers, history, Idle
<1>2. ASSUME NEW t \in Threads, NEW k, WriteReject(t, k) PROVE Idle
  BY <1>2 DEF WriteReject, table, buffers, history, Idle
<1>3. CASE UNCHANGED vars
  BY <1>3 DEF vars, Idle
<1> QED
  BY <1>1, <1>2, <1>3 DEF Next, Write

\* A new entry in slot i, whose old entry, if any, is destroyed.
LEMMA FillStep ==
  ASSUME TableInv, NEW i \in Slots, NEW k \in Keys, NEW n, n = Len(putKeys) + 1,
         n <= MaxPuts, putKeys' = Append(putKeys, k), Fill(i, k, n),
         UNCHANGED <<cleared, invalid>>,
         \/ i \notin Live /\ freed' = freed /\ badFree' = badFree
            /\ latest' = [latest EXCEPT ![k] = n]
         \/ i \in Live /\ Destroy({i})
            /\ latest' = [latest EXCEPT ![nodes[i].key] = 0, ![k] = n]
  PROVE  TableInv'
<1> DEFINE N == Len(putKeys)
<1>1. /\ N \in Nat /\ n \in 1 .. MaxPuts /\ n \notin 1 .. N
      /\ putKeys' \in Seq(Keys) /\ Len(putKeys') = n /\ putKeys'[n] = k
      /\ \A m \in 1 .. N : m \in 1 .. n /\ putKeys'[m] = putKeys[m]
      /\ k # NoKey
  BY NoKeyAssumption, BoundAssumption DEF TableInv, TableType
<1>2. /\ nodes'[i] = [base |-> n, key |-> k, val |-> n]
      /\ \A j \in Slots \ {i} : nodes'[j] = nodes[j]
      /\ nodes' \in [Slots -> SlotType]
  BY <1>1 DEF TableInv, TableType, Fill, SlotType
<1>3. Live' = Live \cup {i} /\ Slots' = Slots
  BY <1>1, <1>2 DEF Live, Slots
<1>4. \A j \in Live : /\ nodes[j].base \in 1 .. N /\ nodes[j].val \in 1 .. N
                      /\ putKeys[nodes[j].val] = nodes[j].key
                      /\ Owned(j) \cap freed = {}
  BY DEF TableInv, OwnInv
<1>5. \A j \in Live, l \in Live : j # l => /\ nodes[j].base # nodes[l].base
                                         /\ nodes[j].val # nodes[l].val
                                         /\ Owned(j) \cap Owned(l) = {}
  BY DEF TableInv, OwnInv, Owned
<1>6. /\ \A b \in freed : b \in Buffers /\ b[2] <= N
      /\ ~badFree
  BY DEF TableInv, TableType, OwnInv
<1>7. /\ freed' \subseteq freed \cup (IF i \in Live THEN Owned(i) ELSE {})
      /\ badFree' = FALSE
  <2>1. CASE i \notin Live /\ freed' = freed /\ badFree' = badFree
    BY <1>6, <2>1 DEF TableInv, TableType
  <2>2. CASE i \in Live /\ Destroy({i})
    <3>1. ~ (\/ badFree
             \/ \E j \in {i} : Owned(j) \cap freed # {}
             \/ \E j, l \in {i} : j # l /\ Owned(j) \cap Owned(l) # {})
      BY <1>4, <1>6, <2>2
    <3>2. badFree' = FALSE
      BY <2>2, <3>1 DEF Destroy
    <3> QED
      BY <2>2, <3>2 DEF Destroy
  <2> QED
    BY <2>1, <2>2
<1>8. /\ freed' \subseteq Buffers
      /\ \A b \in freed' : b[2] <= N
  <2>1. ASSUME i \in Live, NEW b \in Owned(i) PROVE b \in Buffers /\ b[2] <= N
    <3>1. \A m \in 1 .. N : m \in 0 .. MaxPuts /\ m <= N
      BY <1>1, BoundAssumption
    <3>2. b = <<"key", nodes[i].base>> \/ b = <<"val", nodes[i].val>>
      BY <2>1 DEF Owned
    <3>3. b[1] \in {"key", "val"} /\ b[2] \in 1 .. N /\ b = <<b[1], b[2]>>
      BY <1>4, <2>1, <3>2
    <3> QED
      BY <3>1, <3>3 DEF Buffers
  <2> QED
    BY <1>6, <1>7, <2>1
<1>9. \A j \in Live' : Owned(j)' \cap freed' = {}
  <2>1. Owned(i)' \cap freed' = {}
    BY <1>1, <1>2, <1>8 DEF Owned
  <2>2. ASSUME NEW j \in Live, j # i PROVE Owned(j)' \cap freed' = {}
    <3>1. Owned(j)' = Owned(j)
      BY <1>2, <2>2 DEF Owned, Live
    <3> QED
      BY <1>4, <1>5, <1>7, <2>2, <3>1
  <2> QED
    BY <1>3, <2>1, <2>2
<1>10. OwnInv'
  <2>1. \A j \in Live' : /\ nodes'[j].base \in 1 .. n /\ nodes'[j].val \in 1 .. n
                         /\ putKeys'[nodes'[j].val] = nodes'[j].key
    BY <1>1, <1>2, <1>3, <1>4 DEF Live
  <2>2. \A j \in Slots \ Live' : nodes'[j].val = 0
    BY <1>2, <1>3 DEF TableInv, OwnInv
  <2>3. \A j, l \in Live' : j # l => /\ nodes'[j].base # nodes'[l].base
                                    /\ nodes'[j].val # nodes'[l].val
    BY <1>1, <1>2, <1>3, <1>4, <1>5 DEF Live
  <2>4. \A b \in freed' : b[2] <= n
    <3>1. \A b \in freed' : b[2] \in Nat
      BY <1>8 DEF Buffers
    <3> QED
      BY <1>1, <1>8, <3>1
  <2> QED
    BY <1>1, <1>3, <1>7, <1>9, <2>1, <2>2, <2>3, <2>4 DEF OwnInv
<1>11. TableType'
  <2>1. latest' \in [Keys -> 0 .. MaxPuts]
    <3>1. 0 \in 0 .. MaxPuts /\ n \in 0 .. MaxPuts /\ latest \in [Keys -> 0 .. MaxPuts]
      BY <1>1, BoundAssumption DEF TableInv, TableType
    <3>2. CASE latest' = [latest EXCEPT ![k] = n]
      BY <3>1, <3>2
    <3>3. CASE latest' = [latest EXCEPT ![nodes[i].key] = 0, ![k] = n]
      BY <3>1, <3>3
    <3> QED
      BY <3>2, <3>3
  <2>2. badFree' \in BOOLEAN
    BY <1>7
  <2> QED
    BY <1>1, <1>2, <1>8, <2>1, <2>2 DEF TableInv, TableType
<1>12. FoundInv'
  <2> SUFFICES ASSUME NEW q \in Keys, latest'[q] # 0 PROVE Holders(q)' # {}
    BY DEF FoundInv
  <2>1. CASE q = k
    BY <1>2, <2>1 DEF Holders
  <2>2. CASE q # k
    <3>1. latest[q] # 0 /\ nodes[i].key # q
      <4>1. latest \in [Keys -> 0 .. MaxPuts]
        BY DEF TableInv, TableType
      <4>2. CASE i \notin Live /\ latest' = [latest EXCEPT ![k] = n]
        BY <2>2, <4>1, <4>2, NoKeyAssumption DEF Live
      <4>3. CASE i \in Live /\ latest' = [latest EXCEPT ![nodes[i].key] = 0, ![k] = n]
        BY <2>2, <4>1, <4>3
      <4> QED
        BY <4>2, <4>3
    <3>2. PICK j \in Slots : nodes[j].key = q
      BY <3>1 DEF TableInv, FoundInv, Holders
    <3> QED
      BY <1>2, <3>1, <3>2 DEF Holders
  <2> QED
    BY <2>1, <2>2
<1> QED
  BY <1>10, <1>11, <1>12 DEF TableInv

\* The home slot that put fills held no entry, and neither did an unused one.
LEMMA FreeSlots ==
  ASSUME TableInv, NEW k \in Keys
  PROVE  /\ Hash[k] \in Slots
         /\ HomeFree(k) => Hash[k] \notin Live
         /\ Unused \cap Live = {} /\ Unused \subseteq Slots
         /\ ~HomeFree(k) => Hash[k] \in Live
<1>1. Hash[k] \in Slots
  BY HashAssumption
<1>2. \A i \in Live : nodes[i].base # 0
  <2>1. \A i \in Live : nodes[i].base \in 1 .. Len(putKeys)
    BY DEF TableInv, OwnInv
  <2>2. Len(putKeys) \in Nat
    BY DEF TableInv, TableType
  <2> QED
    BY <2>1, <2>2
<1> QED
  BY <1>1, <1>2 DEF HomeFree, Live, Unused

\* put keeps the invariant.
LEMMA PutStep ==
  ASSUME TableInv, NEW t \in Threads, NEW k \in Keys \cup {NoKey}, Put(t, k)
  PROVE  TableInv'
<1> DEFINE n == Len(putKeys) + 1
<1>1. PutCall(t, k, n)
  BY DEF Put, PutUpdate, PutHome, PutProbe, PutForce, PutFull
<1>2. /\ k \in Keys /\ n <= MaxPuts /\ putKeys' = Append(putKeys, k)
      /\ UNCHANGED <<cleared, invalid>>
  BY <1>1 DEF PutCall
<1>3. Hash[k] \in Slots
  BY <1>2, FreeSlots
<1>4. CASE PutHome(t, k, n)
  BY <1>2, <1>3, <1>4, FreeSlots, FillStep DEF PutHome, buffers
<1>5. CASE PutProbe(t, k, n)
  <2>1. Nearest(Hash[k], Unused) \in Slots \ Live
    BY <1>2, <1>3, <1>5, FreeSlots, NearestIsIn DEF PutProbe
  <2> QED
    BY <1>2, <1>5, <2>1, FillStep DEF PutProbe, buffers
<1>6. CASE PutForce(t, k, n)
  <2>1. Hash[k] \in Live
    BY <1>2, <1>6, FreeSlots DEF PutForce
  <2> QED
    BY <1>2, <1>3, <1>6, <2>1, FillStep DEF PutForce
<1>7. /\ Len(putKeys) \in Nat /\ n \in 1 .. MaxPuts /\ n \notin 1 .. Len(putKeys)
      /\ putKeys' \in Seq(Keys) /\ Len(putKeys') = n /\ putKeys'[n] = k
      /\ \A m \in 1 .. Len(putKeys) : m \in 1 .. n /\ putKeys'[m] = putKeys[m]
      /\ k # NoKey
  BY <1>2, NoKeyAssumption, BoundAssumption DEF TableInv, TableType
<1>8. \A b \in freed : b[2] <= n
  <2>1. \A b \in freed : b[2] <= Len(putKeys) /\ b[2] \in Nat
    BY DEF TableInv, TableType, OwnInv, Buffers
  <2> QED
    BY <1>7, <2>1
<1> HIDE DEF n
<1>9. CASE PutUpdate(t, k, n)
  <2> DEFINE h == Hash[k]
  <2>1. /\ nodes[h].key = k /\ nodes' = [nodes EXCEPT ![h].val = n]
        /\ latest' = [latest EXCEPT ![k] = n] /\ freed' = freed /\ badFree' = badFree
    BY <1>9 DEF PutUpdate, buffers
  <2>2. /\ nodes' \in [Slots -> SlotType]
        /\ nodes'[h].val = n /\ nodes'[h].key = k /\ nodes'[h].base = nodes[h].base
        /\ \A j \in Slots \ {h} : nodes'[j] = nodes[j]
    <3>1. nodes \in [Slots -> SlotType] /\ n \in 0 .. MaxPuts
      BY <1>7, BoundAssumption DEF TableInv, TableType
    <3>2. nodes'[h] = [nodes[h] EXCEPT !.val = n]
      BY <1>3, <2>1, <3>1
    <3>3. nodes[h] \in SlotType
      BY <1>3, <3>1
    <3>4. [nodes[h] EXCEPT !.val = n] \in SlotType
      BY <3>1, <3>3 DEF SlotType
    <3>5. nodes' \in [Slots -> SlotType]
      BY <1>3, <2>1, <3>1, <3>2, <3>4
    <3> QED
      BY <1>3, <2>1, <3>1, <3>2, <3>3, <3>5 DEF SlotType
  <2>3. Live' = Live /\ h \in Live /\ Slots' = Slots
    BY <1>3, <1>7, <2>1, <2>2 DEF Live, Slots
  <2>4. TableType'
    <3>1. latest' \in [Keys -> 0 .. MaxPuts]
      BY <1>7, <2>1, BoundAssumption DEF TableInv, TableType
    <3> QED
      BY <1>2, <1>7, <2>1, <2>2, <3>1 DEF TableInv, TableType
  <2>5. FoundInv'
    <3> SUFFICES ASSUME NEW q \in Keys, latest'[q] # 0 PROVE Holders(q)' # {}
      BY DEF FoundInv
    <3>1. \A j \in Slots : nodes'[j].key = nodes[j].key
      BY <2>1, <2>2
    <3>2. CASE q = k
      BY <1>3, <2>2, <3>2 DEF Holders
    <3>3. CASE q # k
      BY <2>1, <3>1, <3>3 DEF TableInv, TableType, FoundInv, Holders
    <3> QED
      BY <3>2, <3>3
  <2>6. OwnInv'
    <3>1. \A j \in Live : /\ nodes[j].base \in 1 .. Len(putKeys)
                          /\ nodes[j].val \in 1 .. Len(putKeys)
                          /\ putKeys[nodes[j].val] = nodes[j].key
                          /\ Owned(j) \cap freed = {}
      BY DEF TableInv, OwnInv
    <3>2. \A j \in Live : /\ nodes'[j].base \in 1 .. n /\ nodes'[j].val \in 1 .. n
                          /\ putKeys'[nodes'[j].val] = nodes'[j].key
      BY <1>7, <2>2, <2>3, <3>1 DEF Live
    <3>3. <<"val", n>> \notin freed
      <4>1. \A b \in freed : b[2] <= Len(putKeys)
        BY DEF TableInv, OwnInv
      <4> QED
        BY <1>7, <4>1
    <3>4. \A j \in Live : Owned(j)' \cap freed = {}
      BY <2>2, <2>3, <3>1, <3>3 DEF Owned, Live
    <3>5. \A j, l \in Live : j # l => /\ nodes'[j].base # nodes'[l].base
                                     /\ nodes'[j].val # nodes'[l].val
      BY <1>7, <2>2, <2>3, <3>1 DEF TableInv, OwnInv, Live
    <3>6. \A j \in Slots \ Live : nodes'[j].val = 0
      BY <2>2, <2>3 DEF TableInv, OwnInv
    <3> QED
      BY <1>7, <1>8, <2>1, <2>3, <3>2, <3>4, <3>5, <3>6 DEF TableInv, OwnInv
  <2> QED
    BY <2>4, <2>5, <2>6 DEF TableInv
<1>10. CASE PutFull(t, k, n)
  <2>1. UNCHANGED <<nodes, freed, badFree, latest>>
    BY <1>10 DEF PutFull, buffers
  <2>2. TableType' /\ FoundInv'
    BY <1>2, <1>7, <2>1 DEF TableInv, TableType, FoundInv, Holders, Slots
  <2>3. OwnInv'
    BY <1>7, <1>8, <2>1 DEF TableInv, OwnInv, Live, Owned, Slots
  <2> QED
    BY <2>2, <2>3 DEF TableInv
<1> QED
  BY <1>4, <1>5, <1>6, <1>9, <1>10 DEF Put, n

\* delete keeps the invariant.
LEMMA DeleteStep ==
  ASSUME TableInv, NEW t \in Threads, NEW k \in Keys \cup {NoKey}, Delete(t, k)
  PROVE  TableInv'
<1>1. /\ k \in Keys /\ latest' = [latest EXCEPT ![k] = 0]
      /\ UNCHANGED <<freed, badFree, invalid, putKeys, cleared>>
  BY DEF Delete, buffers
<1>2. latest' \in [Keys -> 0 .. MaxPuts]
  BY <1>1, BoundAssumption DEF TableInv, TableType
<1>3. CASE Holders(k) = {} /\ UNCHANGED nodes
  <2>1. TableType' /\ OwnInv'
    BY <1>1, <1>2, <1>3 DEF TableInv, TableType, OwnInv, Live, Owned, Slots
  <2>2. FoundInv'
    BY <1>1, <1>3 DEF TableInv, TableType, FoundInv, Holders, Slots
  <2> QED
    BY <2>1, <2>2 DEF TableInv
<1>4. CASE Holders(k) # {}
  <2> DEFINE h == Nearest(Hash[k], Holders(k))
  <2>1. h \in Holders(k) /\ Hash[k] \in Slots
    <3>1. Holders(k) \in SUBSET Slots /\ Hash[k] \in Slots
      BY <1>1, HashAssumption DEF Holders
    <3> QED
      BY <1>4, <3>1, NearestIsIn
  <2>2. nodes' = [nodes EXCEPT ![h] = Empty]
    BY <1>4 DEF Delete
  <2> HIDE DEF h
  <2>3. /\ h \in Slots /\ nodes[h].key = k /\ nodes'[h] = Empty
        /\ \A j \in Slots \ {h} : nodes'[j] = nodes[j]
        /\ nodes' \in [Slots -> SlotType]
    BY <2>1, <2>2, BoundAssumption DEF TableInv, TableType, SlotType, Empty, Holders
  <2>4. Live' = Live \ {h} /\ Slots' = Slots
    BY <2>3 DEF Live, Empty, Slots
  <2>5. TableType'
    BY <1>1, <1>2, <2>3 DEF TableInv, TableType
  <2>6. OwnInv'
    BY <1>1, <2>3, <2>4 DEF TableInv, OwnInv, Owned, Empty, Live
  <2>7. FoundInv'
    <3> SUFFICES ASSUME NEW q \in Keys, latest'[q] # 0 PROVE Holders(q)' # {}
      BY DEF FoundInv
    <3>1. q # k /\ latest[q] # 0
      BY <1>1 DEF TableInv, TableType
    <3> QED
      BY <2>3, <2>4, <3>1 DEF TableInv, FoundInv, Holders
  <2> QED
    BY <2>5, <2>6, <2>7 DEF TableInv
<1> QED
  BY <1>3, <1>4 DEF Delete

\* The loop of clear_map and invalidate_map keeps the invariant.
LEMMA ClearStep ==
  ASSUME TableInv, DestroyEntries, invalid' \in BOOLEAN, UNCHANGED putKeys
  PROVE  TableInv'
<1>1. {i \in Slots : nodes[i].key # NoKey \/ nodes[i].val # 0} = Live
  BY DEF TableInv, OwnInv, Live
<1>2. Destroy(Live)
  BY <1>1 DEF DestroyEntries
<1>3. /\ nodes' \in [Slots -> SlotType]
      /\ \A i \in Slots : nodes'[i].key = NoKey /\ nodes'[i].val = 0
  <2>1. nodes' = [i \in Slots |-> [nodes[i] EXCEPT !.key = NoKey, !.val = 0]]
    BY DEF DestroyEntries
  <2>2. ASSUME NEW i \in Slots
        PROVE  /\ [nodes[i] EXCEPT !.key = NoKey, !.val = 0] \in SlotType
               /\ [nodes[i] EXCEPT !.key = NoKey, !.val = 0].key = NoKey
               /\ [nodes[i] EXCEPT !.key = NoKey, !.val = 0].val = 0
    <3>1. nodes[i] \in SlotType /\ 0 \in 0 .. MaxPuts
      BY BoundAssumption DEF TableInv, TableType
    <3> QED
      BY <3>1 DEF SlotType
  <2> QED
    BY <2>1, <2>2
<1>4. Live' = {} /\ Slots' = Slots
  BY <1>3 DEF Live, Slots
<1>5. badFree' = FALSE
  <2>1. ~ (\/ badFree
           \/ \E i \in Live : Owned(i) \cap freed # {}
           \/ \E i, j \in Live : i # j /\ Owned(i) \cap Owned(j) # {})
    BY DEF TableInv, OwnInv, Owned
  <2>2. badFree' = (\/ badFree
                    \/ \E i \in Live : Owned(i) \cap freed # {}
                    \/ \E i, j \in Live : i # j /\ Owned(i) \cap Owned(j) # {})
    BY <1>2 DEF Destroy
  <2> QED
    BY <2>1, <2>2
<1>6. /\ freed' \subseteq Buffers
      /\ \A b \in freed' : b[2] <= Len(putKeys)
  <2>1. ASSUME NEW i \in Live, NEW b \in Owned(i)
        PROVE  b \in Buffers /\ b[2] <= Len(putKeys)
    <3>1. /\ nodes[i].base \in 1 .. Len(putKeys) /\ nodes[i].val \in 1 .. Len(putKeys)
      BY DEF TableInv, OwnInv
    <3>2. b = <<"key", nodes[i].base>> \/ b = <<"val", nodes[i].val>>
      BY DEF Owned
    <3>3. b[1] \in {"key", "val"} /\ b[2] \in 1 .. Len(putKeys) /\ b = <<b[1], b[2]>>
      BY <3>1, <3>2
    <3>4. \A m \in 1 .. Len(putKeys) : m \in 0 .. MaxPuts /\ m <= Len(putKeys)
      BY BoundAssumption DEF TableInv, TableType
    <3> QED
      BY <3>3, <3>4 DEF Buffers
  <2>2. freed' = freed \cup UNION {Owned(i) : i \in Live}
    BY <1>2 DEF Destroy
  <2>3. \A b \in freed : b \in Buffers /\ b[2] <= Len(putKeys)
    BY DEF TableInv, TableType, OwnInv
  <2> QED
    BY <2>1, <2>2, <2>3
<1>7. latest' = [k \in Keys |-> 0] /\ cleared' \in BOOLEAN
  BY DEF DestroyEntries, TableInv, TableType
<1>8. TableType'
  <2>1. latest' \in [Keys -> 0 .. MaxPuts]
    BY <1>7, BoundAssumption
  <2>2. badFree' \in BOOLEAN
    BY <1>5
  <2>3. putKeys' \in Seq(Keys) /\ Len(putKeys') <= MaxPuts
    BY DEF TableInv, TableType
  <2> QED
    BY <1>3, <1>6, <1>7, <2>1, <2>2, <2>3 DEF TableType
<1>9. OwnInv' /\ FoundInv'
  BY <1>3, <1>4, <1>5, <1>6, <1>7 DEF OwnInv, FoundInv
<1> QED
  BY <1>8, <1>9 DEF TableInv

\* Every step keeps the table invariant.
LEMMA TableStep == ASSUME TableInv, [Next]_vars PROVE TableInv'
<1>1. ASSUME NEW t \in Threads, ClearMap(t) \/ InvalidateMap(t) PROVE TableInv'
  <2>1. DestroyEntries /\ UNCHANGED putKeys
    BY <1>1 DEF ClearMap, InvalidateMap
  <2>2. invalid' \in BOOLEAN
    BY <1>1 DEF ClearMap, InvalidateMap, TableInv, TableType
  <2> QED
    BY <2>1, <2>2, ClearStep
<1> QED
  BY <1>1, TableSteps, IdleStep, PutStep, DeleteStep

\* The new map has no entry.
LEMMA TableInit == Init => TableInv
<1> SUFFICES ASSUME Init PROVE TableInv
  OBVIOUS
<1>1. nodes = [i \in Slots |-> Empty] /\ putKeys = <<>> /\ latest = [k \in Keys |-> 0]
  BY DEF Init
<1>2. Live = {}
  BY <1>1 DEF Live, Empty
<1>3. freed = {} /\ badFree = FALSE /\ cleared = FALSE /\ invalid = FALSE
  BY DEF Init
<1>4. TableType
  <2>1. nodes \in [Slots -> SlotType]
    BY <1>1, BoundAssumption DEF SlotType, Empty
  <2>2. putKeys \in Seq(Keys) /\ Len(putKeys) <= MaxPuts
    BY <1>1, BoundAssumption
  <2>3. latest \in [Keys -> 0 .. MaxPuts]
    BY <1>1, BoundAssumption
  <2> QED
    BY <1>3, <2>1, <2>2, <2>3 DEF TableType
<1>5. OwnInv
  BY <1>1, <1>2, <1>3 DEF OwnInv, Empty
<1>6. FoundInv
  BY <1>1 DEF FoundInv
<1> QED
  BY <1>4, <1>5, <1>6 DEF TableInv
-----------------------------------------------------------------------------
(* What get finds *)

\* Both invariants together.
LEMMA Inductive ==
  /\ Init => LockInv /\ TableInv
  /\ LockInv /\ TableInv /\ [Next]_vars => LockInv' /\ TableInv'
BY LockInit, LockStep, TableInit, TableStep

\* A search that finds a value has found an entry with the key.
LEMMA LookupOwn ==
  ASSUME TableInv, NEW k \in Keys
  PROVE  /\ Lookup(k) \in 0 .. MaxPuts
         /\ Lookup(k) # 0 => \E i \in Live : nodes[i].key = k /\ nodes[i].val = Lookup(k)
         /\ Lookup(k) = 0 => Holders(k) = {}
<1>1. CASE Holders(k) = {}
  BY <1>1, BoundAssumption DEF Lookup
<1>2. CASE Holders(k) # {}
  <2> DEFINE i == Nearest(Hash[k], Holders(k))
  <2>1. Hash[k] \in Slots /\ Holders(k) \subseteq Slots
    BY HashAssumption DEF Holders
  <2>2. i \in Holders(k)
    BY <1>2, <2>1, NearestIsIn
  <2>3. i \in Live /\ nodes[i].key = k
    BY <1>2, <2>2, NoKeyAssumption DEF Holders, Live
  <2>4. Lookup(k) = nodes[i].val
    BY <1>2 DEF Lookup
  <2>5. nodes[i].val \in 1 .. Len(putKeys) /\ nodes[i].val \in 0 .. MaxPuts
    BY <2>1, <2>3 DEF TableInv, OwnInv, TableType, SlotType, Live
  <2>6. nodes[i].val # 0
    BY <2>5 DEF TableInv, TableType
  <2> QED
    BY <2>3, <2>4, <2>5, <2>6
<1> QED
  BY <1>1, <1>2

\* destroy_function gets no buffer twice (hashmap.c:93, 238, 256).
THEOREM FreedOnce == Spec => []NoDoubleFree
<1>1. LockInv /\ TableInv => NoDoubleFree
  BY DEF TableInv, OwnInv, NoDoubleFree
<1> QED
  BY <1>1, Inductive, PTL DEF Spec

\* What get would find was put under that key and is not freed.
THEOREM OwnAnswers == Spec => []AnswersAreOwn
<1>1. LockInv /\ TableInv => AnswersAreOwn
  <2> SUFFICES ASSUME TableInv, NEW k \in Keys, Lookup(k) # 0
               PROVE  putKeys[Lookup(k)] = k /\ <<"val", Lookup(k)>> \notin freed
    BY DEF AnswersAreOwn
  <2>1. PICK i \in Live : nodes[i].key = k /\ nodes[i].val = Lookup(k)
    BY LookupOwn
  <2> QED
    BY <2>1 DEF TableInv, OwnInv, Owned
<1> QED
  BY <1>1, Inductive, PTL DEF Spec

\* A key that was put and not removed since is found.
THEOREM Found == Spec => []PresentIsFound
<1>1. LockInv /\ TableInv => PresentIsFound
  BY LookupOwn DEF PresentIsFound, TableInv, FoundInv
<1> QED
  BY <1>1, Inductive, PTL DEF Spec

-----------------------------------------------------------------------------
(* The readers *)

\* A reader that has not looked yet wants a key, and what it found is alive.
ReaderInv ==
  /\ wanted \in [Threads -> Keys \cup {NoKey}]
  /\ answer \in [Threads -> 0 .. MaxPuts]
  /\ staleRead \in BOOLEAN
  /\ \A t \in Threads : pc[t] \in {"first", "reading"} => wanted[t] \in Keys
  /\ AnswerAliveInside

\* A get keeps it.
LEMMA GetStep ==
  ASSUME LockInv, TableInv, ReaderInv, NEW t \in Threads, Get(t)
  PROVE  ReaderInv'
<1> USE DEF ReaderInv
<1>0. pc \in [Threads -> Places] /\ UNCHANGED freed
  BY DEF LockInv, LockType, Get, GetLockFields, GetReject, GetEnter, GetLockWrite,
     GetScan, GetScanFreed, GetLockFieldsAgain, GetLeave, buffers
<1>1. CASE GetLockFields(t) \/ \E k \in Keys \cup {NoKey} : GetReject(t, k)
  BY <1>0, <1>1 DEF GetLockFields, GetReject, readers, AnswerAliveInside
<1>2. ASSUME NEW k \in Keys \cup {NoKey}, GetEnter(t, k) PROVE ReaderInv'
  BY <1>0, <1>2 DEF GetEnter, AnswerAliveInside
<1>3. CASE GetLockWrite(t) \/ GetLockFieldsAgain(t) \/ GetLeave(t)
  BY <1>0, <1>3 DEF GetLockWrite, GetLockFieldsAgain, GetLeave, readers,
     AnswerAliveInside
<1>4. CASE GetScan(t)
  <2> DEFINE v == Lookup(wanted[t])
  <2>1. wanted[t] \in Keys
    BY <1>4 DEF GetScan
  <2>2. v \in 0 .. MaxPuts /\ (v # 0 => <<"val", v>> \notin freed)
    BY <2>1, LookupOwn DEF TableInv, OwnInv, Owned
  <2>3. /\ answer' = [answer EXCEPT ![t] = v] /\ UNCHANGED staleRead
        /\ wanted' = [wanted EXCEPT ![t] = NoKey]
        /\ pc' = [pc EXCEPT ![t] = "scanned"]
    BY <1>4 DEF GetScan
  <2> HIDE DEF v
  <2> QED
    BY <1>0, <2>2, <2>3 DEF AnswerAliveInside
<1>5. CASE GetScanFreed(t)
  <2>1. PICK v \in 0 .. Len(putKeys) : answer' = [answer EXCEPT ![t] = v]
    BY <1>5 DEF GetScanFreed
  <2>2. v \in 0 .. MaxPuts
    BY BoundAssumption DEF TableInv, TableType
  <2> QED
    BY <1>0, <1>5, <2>1, <2>2 DEF GetScanFreed, AnswerAliveInside
<1> QED
  BY <1>1, <1>2, <1>3, <1>4, <1>5 DEF Get

\* A writer works while nobody is inside, so what it frees is nobody's.
LEMMA WriteStep ==
  ASSUME LockInv, ReaderInv, NEW t \in Threads, Write(t)
  PROVE  ReaderInv'
<1>0. pc \in [Threads -> Places]
  BY DEF LockInv, LockType
<1>1. CASE WriteLock(t)
  BY <1>0, <1>1 DEF WriteLock, ReaderInv, readers, buffers, AnswerAliveInside
<1>2. CASE ~WriteLock(t)
  <2>1. WriteUnlock(t)
    BY <1>2 DEF Write, WriteReject, Put, PutUpdate, PutHome, PutProbe, PutForce,
       PutFull, PutCall, Delete, ClearMap, InvalidateMap
  <2>2. Inside = {}
    BY <2>1, ThreadsAssumption DEF WriteUnlock, LockInv
  <2>3. \A u \in Threads : pc'[u] \notin {"scanned", "leaving"}
    BY <1>0, <2>1, <2>2 DEF WriteUnlock, Inside
  <2>4. \A u \in Threads : pc'[u] \in {"first", "reading"} => pc[u] = pc'[u]
    BY <1>0, <2>1 DEF WriteUnlock
  <2> QED
    BY <2>1, <2>3, <2>4 DEF WriteUnlock, ReaderInv, readers, AnswerAliveInside
<1> QED
  BY <1>1, <1>2

\* The whole invariant of the readers.
LEMMA ReaderStep ==
  /\ Init => ReaderInv
  /\ LockInv /\ TableInv /\ ReaderInv /\ [Next]_vars => ReaderInv'
<1>1. ASSUME Init PROVE ReaderInv
  <2>1. /\ wanted = [t \in Threads |-> NoKey] /\ answer = [t \in Threads |-> 0]
        /\ pc = [t \in Threads |-> "idle"] /\ staleRead = FALSE
    BY <1>1 DEF Init
  <2>2. /\ wanted \in [Threads -> Keys \cup {NoKey}]
        /\ answer \in [Threads -> 0 .. MaxPuts]
    BY <2>1, BoundAssumption
  <2>3. \A t \in Threads : pc[t] = "idle"
    BY <2>1
  <2> QED
    BY <2>1, <2>2, <2>3 DEF ReaderInv, AnswerAliveInside
<1>2. ASSUME ReaderInv, UNCHANGED vars PROVE ReaderInv'
  BY <1>2 DEF vars, ReaderInv, AnswerAliveInside
<1> QED
  BY <1>1, <1>2, GetStep, WriteStep DEF Next

\* What get found stays allocated until the reader leaves.
THEOREM AliveInside == Spec => []AnswerAliveInside
<1>1. ReaderInv => AnswerAliveInside
  BY DEF ReaderInv
<1> QED
  BY <1>1, Inductive, ReaderStep, PTL DEF Spec

-----------------------------------------------------------------------------
(* The size *)

\* size never runs below the entries, and exceeds them only after clear_map.
SizeInv ==
  /\ size \in Nat
  /\ Cardinality(Live) <= size
  /\ ~cleared => size = Cardinality(Live)

\* The entries are finitely many.
LEMMA LiveFinite == IsFiniteSet(Live) /\ Cardinality(Live) \in Nat
<1>1. IsFiniteSet(Slots)
  BY CapacityAssumption, FS_Interval DEF Slots
<1> QED
  BY <1>1, FS_Subset, FS_CardinalityType DEF Live

\* One more entry, counted.
LEMMA GrowSize ==
  ASSUME TableInv, SizeInv, NEW i \in Slots \ Live, NEW k \in Keys, NEW n \in Nat,
         Fill(i, k, n), size' = size + 1, UNCHANGED cleared
  PROVE  SizeInv'
<1>1. nodes'[i].key = k /\ \A j \in Slots \ {i} : nodes'[j] = nodes[j]
  BY DEF Fill, TableInv, TableType
<1>2. Live' = Live \cup {i}
  BY <1>1, NoKeyAssumption DEF Live, Slots
<1>3. Cardinality(Live') = Cardinality(Live) + 1
  BY <1>2, LiveFinite, FS_AddElement
<1> QED
  BY <1>3, LiveFinite DEF SizeInv

\* put keeps the count.
LEMMA PutSize ==
  ASSUME TableInv, SizeInv, NEW t \in Threads, NEW k \in Keys \cup {NoKey}, Put(t, k)
  PROVE  SizeInv'
<1> DEFINE n == Len(putKeys) + 1
<1>1. k \in Keys /\ UNCHANGED cleared /\ n \in Nat
  BY DEF Put, PutUpdate, PutHome, PutProbe, PutForce, PutFull, PutCall, TableInv,
     TableType
<1>2. Hash[k] \in Slots
  BY <1>1, FreeSlots
<1>3. CASE PutHome(t, k, n)
  BY <1>1, <1>2, <1>3, FreeSlots, GrowSize DEF PutHome
<1>4. CASE PutProbe(t, k, n)
  <2>1. Nearest(Hash[k], Unused) \in Slots \ Live
    BY <1>1, <1>2, <1>4, FreeSlots, NearestIsIn DEF PutProbe
  <2> QED
    BY <1>1, <1>4, <2>1, GrowSize DEF PutProbe
<1>5. CASE PutUpdate(t, k, n) \/ PutForce(t, k, n) \/ PutFull(t, k, n)
  <2> HIDE DEF n
  <2>1. UNCHANGED size
    BY <1>5 DEF PutUpdate, PutForce, PutFull
  <2>2. Live' = Live
    <3>1. CASE PutUpdate(t, k, n)
      <4>1. nodes' = [nodes EXCEPT ![Hash[k]].val = n] /\ nodes[Hash[k]].key = k
        BY <3>1 DEF PutUpdate
      <4>2. \A i \in Slots : nodes'[i].key = nodes[i].key
        BY <1>2, <4>1 DEF TableInv, TableType, SlotType
      <4> QED
        BY <4>2 DEF Live, Slots
    <3>2. CASE PutForce(t, k, n)
      <4>1. Hash[k] \in Live
        BY <1>1, <3>2, FreeSlots DEF PutForce
      <4>2. nodes'[Hash[k]].key = k /\ \A j \in Slots \ {Hash[k]} : nodes'[j] = nodes[j]
        BY <1>2, <3>2 DEF PutForce, Fill, TableInv, TableType
      <4> QED
        BY <1>1, <4>1, <4>2, NoKeyAssumption DEF Live, Slots
    <3>3. CASE PutFull(t, k, n)
      BY <3>3 DEF PutFull, Live, Slots
    <3> QED
      BY <1>5, <3>1, <3>2, <3>3
  <2> QED
    BY <1>1, <2>1, <2>2 DEF SizeInv
<1> QED
  BY <1>3, <1>4, <1>5 DEF Put

\* delete counts down by the entry it removes.
LEMMA DeleteSize ==
  ASSUME TableInv, SizeInv, NEW t \in Threads, NEW k \in Keys \cup {NoKey}, Delete(t, k)
  PROVE  SizeInv'
<1>1. k \in Keys /\ UNCHANGED cleared
  BY DEF Delete
<1>2. CASE Holders(k) = {}
  BY <1>1, <1>2 DEF Delete, SizeInv, Live, Slots
<1>3. CASE Holders(k) # {}
  <2> DEFINE i == Nearest(Hash[k], Holders(k))
  <2>1. Hash[k] \in Slots /\ Holders(k) \subseteq Slots
    BY <1>1, HashAssumption DEF Holders
  <2>2. i \in Live
    BY <1>1, <1>3, <2>1, NearestIsIn, NoKeyAssumption DEF Holders, Live
  <2>3. nodes' = [nodes EXCEPT ![i] = Empty] /\ size' = size - 1
    BY <1>3 DEF Delete
  <2> HIDE DEF i
  <2>4. Live' = Live \ {i}
    BY <2>2, <2>3 DEF Live, Slots, Empty, TableInv, TableType
  <2>5. Cardinality(Live') = Cardinality(Live) - 1 /\ Cardinality(Live') \in Nat
    BY <2>2, <2>4, LiveFinite, FS_RemoveElement, FS_CardinalityType
  <2> QED
    BY <1>1, <2>3, <2>5, LiveFinite DEF SizeInv
<1> QED
  BY <1>2, <1>3

\* clear_map and invalidate_map leave size, and note that they emptied slots.
LEMMA ClearSize ==
  ASSUME TableInv, SizeInv, DestroyEntries, UNCHANGED size
  PROVE  SizeInv'
<1>1. cleared' = (cleared \/ nodes' # nodes)
  BY DEF DestroyEntries
<1>2. CASE nodes' = nodes
  BY <1>1, <1>2 DEF SizeInv, Live, Slots, TableInv, TableType
<1>3. CASE nodes' # nodes
  <2>1. nodes' = [i \in Slots |-> [nodes[i] EXCEPT !.key = NoKey, !.val = 0]]
    BY DEF DestroyEntries
  <2>2. \A i \in Slots : nodes'[i].key = NoKey
    BY <2>1 DEF TableInv, TableType, SlotType
  <2>3. Live' = {}
    BY <2>2 DEF Live, Slots
  <2>4. Cardinality(Live') = 0
    BY <2>3, FS_EmptySet
  <2>5. cleared'
    BY <1>1, <1>3, Zenon
  <2> QED
    BY <2>4, <2>5 DEF SizeInv
<1> QED
  BY <1>2, <1>3

\* Initially, and for every step.
LEMMA SizeStep ==
  /\ Init => SizeInv
  /\ TableInv /\ SizeInv /\ [Next]_vars => SizeInv'
<1>1. ASSUME Init PROVE SizeInv
  <2>1. Live = {}
    BY <1>1 DEF Init, Live, Empty
  <2> QED
    BY <1>1, <2>1, FS_EmptySet DEF Init, SizeInv
<1>2. ASSUME TableInv, SizeInv, Idle PROVE SizeInv'
  BY <1>2 DEF Idle, SizeInv, Live, Slots
<1>3. ASSUME TableInv, SizeInv, NEW t \in Threads, ClearMap(t) \/ InvalidateMap(t)
      PROVE  SizeInv'
  BY <1>3, ClearSize DEF ClearMap, InvalidateMap
<1> QED
  BY <1>1, <1>2, <1>3, TableSteps, PutSize, DeleteSize

\* size counts the entries until clear_map empties a slot.
THEOREM SizeIsCount == Spec => []SizeCountsEntries
<1>1. SizeInv => SizeCountsEntries
  BY DEF SizeInv, SizeCountsEntries, Live
<1> QED
  BY <1>1, Inductive, SizeStep, PTL DEF Spec

\* Every variable has its type: no index of a buffer outside those put.
THEOREM TypeCorrect == Spec => []TypeOK
<1>1. LockInv /\ TableInv /\ ReaderInv /\ SizeInv => TypeOK
  BY CountedFinite DEF LockInv, LockType, TableInv, TableType, ReaderInv, SizeInv, TypeOK
<1> QED
  BY <1>1, Inductive, ReaderStep, SizeStep, PTL DEF Spec

-----------------------------------------------------------------------------
(* Eviction *)

\* Before clear_map has emptied a slot, a slot without a key has no key buffer.
CleanInv ==
  ~cleared => \A i \in Slots : nodes[i].key = NoKey => nodes[i].base = 0

\* Initially, and for every step.
LEMMA CleanStep ==
  /\ Init => CleanInv
  /\ TableInv /\ CleanInv /\ [Next]_vars => CleanInv'
<1>1. Init => CleanInv
  BY DEF Init, CleanInv, Empty
<1>2. ASSUME TableInv, CleanInv, Idle PROVE CleanInv'
  BY <1>2 DEF Idle, CleanInv, Slots
<1>3. ASSUME TableInv, CleanInv, NEW i \in Slots, NEW k \in Keys, NEW n, Fill(i, k, n),
             UNCHANGED cleared
      PROVE  CleanInv'
  BY <1>3, NoKeyAssumption DEF CleanInv, Fill, TableInv, TableType, Slots
<1>4. ASSUME TableInv, CleanInv, NEW t \in Threads, NEW k \in Keys \cup {NoKey}, Put(t, k)
      PROVE  CleanInv'
  <2> DEFINE n == Len(putKeys) + 1
  <2>1. k \in Keys /\ UNCHANGED cleared
    BY <1>4 DEF Put, PutUpdate, PutHome, PutProbe, PutForce, PutFull, PutCall
  <2>2. Hash[k] \in Slots
    BY <1>4, <2>1, FreeSlots
  <2> HIDE DEF n
  <2>3. CASE PutHome(t, k, n) \/ PutForce(t, k, n)
    BY <1>3, <1>4, <2>1, <2>2, <2>3 DEF PutHome, PutForce
  <2>4. CASE PutProbe(t, k, n)
    <3>1. Nearest(Hash[k], Unused) \in Slots
      BY <1>4, <2>1, <2>2, <2>4, FreeSlots, NearestIsIn DEF PutProbe
    <3> QED
      BY <1>3, <1>4, <2>1, <2>4, <3>1 DEF PutProbe
  <2>5. CASE PutUpdate(t, k, n)
    <3>1. nodes' = [nodes EXCEPT ![Hash[k]].val = n]
      BY <2>5 DEF PutUpdate
    <3>2. \A i \in Slots : nodes'[i].key = nodes[i].key /\ nodes'[i].base = nodes[i].base
      BY <1>4, <2>2, <3>1 DEF TableInv, TableType, SlotType
    <3> QED
      BY <1>4, <2>1, <3>2 DEF CleanInv, Slots
  <2>6. CASE PutFull(t, k, n)
    BY <1>4, <2>1, <2>6 DEF PutFull, CleanInv, Slots
  <2> QED
    BY <1>4, <2>3, <2>4, <2>5, <2>6 DEF Put, n
<1>5. ASSUME TableInv, CleanInv, NEW t \in Threads, NEW k \in Keys \cup {NoKey}, Delete(t, k)
      PROVE  CleanInv'
  <2>1. UNCHANGED cleared /\ (UNCHANGED nodes \/ \E j : nodes' = [nodes EXCEPT ![j] = Empty])
    BY <1>5 DEF Delete
  <2>2. CASE UNCHANGED nodes
    BY <1>5, <2>1, <2>2 DEF CleanInv, Slots
  <2>3. ASSUME NEW j, nodes' = [nodes EXCEPT ![j] = Empty] PROVE CleanInv'
    <3>1. \A i \in Slots : nodes'[i] = IF i = j THEN Empty ELSE nodes[i]
      BY <1>5, <2>3 DEF TableInv, TableType
    <3> QED
      BY <1>5, <2>1, <3>1 DEF CleanInv, Empty, Slots
  <2> QED
    BY <2>1, <2>2, <2>3
<1>6. ASSUME TableInv, CleanInv, NEW t \in Threads, ClearMap(t) \/ InvalidateMap(t)
      PROVE  CleanInv'
  <2>1. cleared' = (cleared \/ nodes' # nodes)
    BY <1>6 DEF ClearMap, InvalidateMap, DestroyEntries
  <2> QED
    BY <1>6, <2>1 DEF CleanInv, Slots, TableInv, TableType
<1> QED
  BY <1>1, <1>2, <1>3, <1>4, <1>5, <1>6, TableSteps

\* A key whose holders all keep their keys is still found.
LEMMA StillFound ==
  ASSUME TableInv, TableInv', NEW k \in Keys, Lookup(k) # 0,
         \A i \in Live : nodes'[i].key = nodes[i].key
  PROVE  Lookup(k)' # 0
<1>1. PICK i \in Live : nodes[i].key = k
  BY LookupOwn
<1>2. nodes'[i].key = k /\ i \in Slots
  BY <1>1 DEF Live
<1>3. Holders(k)' # {}
  BY <1>2 DEF Holders, Slots
<1>4. (Lookup(k) = 0 => Holders(k) = {})'
  BY LookupOwn, PTL
<1> QED
  BY <1>3, <1>4

\* Until clear_map has left its pointers behind, only a put that finds every slot
\* taken makes another key's entry disappear (hashmap.c:76-97).
THEOREM EvictsOnlyWhenFull == Spec => EvictsOnlyWhenFullUncleared
<1> DEFINE Evicts == (\E k \in Keys : Lookup(k) # 0 /\ Lookup(k)' = 0)
                     /\ Len(putKeys') > Len(putKeys) /\ ~cleared
           Full == \A i \in Slots : nodes[i].key # NoKey
<1>1. ASSUME TableInv, TableInv', CleanInv, Next, Evicts PROVE Full
  <2>1. Len(putKeys) \in Nat
    BY <1>1 DEF TableInv, TableType
  <2>2. putKeys' # putKeys
    BY <1>1, <2>1
  <2>3. PICK t \in Threads, k \in Keys \cup {NoKey} : Put(t, k)
    BY <1>1, <2>2, TableSteps DEF Idle, Delete, ClearMap, InvalidateMap
  <2> DEFINE n == Len(putKeys) + 1
  <2>4. k \in Keys
    BY <2>3 DEF Put, PutUpdate, PutHome, PutProbe, PutForce, PutFull, PutCall
  <2>5. PICK q \in Keys : Lookup(q) # 0 /\ Lookup(q)' = 0
    BY <1>1
  <2>6. ~ \A i \in Live : nodes'[i].key = nodes[i].key
    BY <1>1, <2>5, StillFound
  <2>7. Hash[k] \in Slots
    BY <2>4, HashAssumption
  <2> HIDE DEF n
  <2>8. PutForce(t, k, n)
    <3>1. ASSUME NEW i \in Slots \ Live, Fill(i, k, n) PROVE FALSE
      BY <1>1, <2>6, <3>1 DEF Fill, Live, TableInv, TableType
    <3>2. ~PutHome(t, k, n)
      BY <1>1, <2>4, <2>7, <3>1, FreeSlots DEF PutHome
    <3>3. ~PutProbe(t, k, n)
      <4>1. ASSUME PutProbe(t, k, n) PROVE Nearest(Hash[k], Unused) \in Slots \ Live
        BY <1>1, <2>4, <2>7, <4>1, FreeSlots, NearestIsIn DEF PutProbe
      <4> QED
        BY <3>1, <4>1 DEF PutProbe
    <3>4. ~PutUpdate(t, k, n)
      <4> SUFFICES ASSUME PutUpdate(t, k, n) PROVE FALSE
        OBVIOUS
      <4>1. /\ nodes[Hash[k]].key = k
            /\ nodes' = [nodes EXCEPT ![Hash[k]].val = n]
        BY Zenon DEF PutUpdate
      <4>2. \A i \in Slots : nodes'[i].key = nodes[i].key
        BY <1>1, <2>7, <4>1 DEF TableInv, TableType
      <4> QED
        BY <2>6, <4>2 DEF Live
    <3>5. ~PutFull(t, k, n)
      BY <2>6 DEF PutFull
    <3> QED
      BY <2>3, <3>2, <3>3, <3>4, <3>5 DEF Put, n
  <2> QED
    BY <1>1, <2>8 DEF PutForce, Unused, CleanInv
<1>2. TableInv /\ TableInv' /\ CleanInv /\ [Next]_vars => [Evicts => Full]_vars
  BY <1>1
<1>3. Spec => []TableInv /\ []CleanInv
  BY Inductive, CleanStep, PTL DEF Spec
<1> QED
  BY <1>2, <1>3, PTL DEF Spec, EvictsOnlyWhenFullUncleared

-----------------------------------------------------------------------------
(* A home slot for each key *)

\* No two keys have the same home slot.
OwnHomes == \A j, k \in Keys : Hash[j] = Hash[k] => j = k

\* Every entry is in the home slot of its key, and holds what was put last.
HomeInv ==
  /\ \A i \in Live : Hash[nodes[i].key] = i
  /\ \A k \in Keys :
       latest[k] = IF nodes[Hash[k]].key = k THEN nodes[Hash[k]].val ELSE 0

\* Where entries are in their home slots, get finds what was put last.
LEMMA HomeFinds ==
  ASSUME TableInv, HomeInv, NEW k \in Keys
  PROVE  Lookup(k) = latest[k]
<1>1. Hash[k] \in Slots
  BY HashAssumption
<1>2. \A i \in Holders(k) : i = Hash[k]
  BY NoKeyAssumption DEF HomeInv, Live, Holders
<1>3. CASE Holders(k) = {}
  BY <1>1, <1>3 DEF Lookup, Holders, HomeInv
<1>4. CASE Holders(k) # {}
  <2>1. Nearest(Hash[k], Holders(k)) \in Holders(k)
    BY <1>1, <1>4, NearestIsIn DEF Holders
  <2> QED
    BY <1>2, <1>4, <2>1 DEF Lookup, HomeInv, Holders
<1> QED
  BY <1>3, <1>4

\* With a home slot for each key, put takes the home slot or none.
LEMMA PutAtHome ==
  ASSUME OwnHomes, TableInv, CleanInv, HomeInv, NEW k \in Keys, ~HomeFree(k)
  PROVE  nodes[Hash[k]].key = k
<1>1. Hash[k] \in Live
  BY FreeSlots
<1>2. nodes[Hash[k]].key \in Keys
  BY <1>1 DEF Live, TableInv, TableType, SlotType
<1> QED
  BY <1>1, <1>2 DEF HomeInv, OwnHomes

\* Initially, and for every step.
LEMMA HomeStep ==
  ASSUME OwnHomes
  PROVE  /\ Init => HomeInv
         /\ TableInv /\ CleanInv /\ HomeInv /\ [Next]_vars => HomeInv'
<1>0. \A k \in Keys : Hash[k] \in Slots
  BY HashAssumption
<1>1. ASSUME Init PROVE HomeInv
  <2>1. \A i \in Slots : nodes[i].key = NoKey
    BY <1>1 DEF Init, Empty
  <2> QED
    BY <1>0, <1>1, <2>1, NoKeyAssumption DEF Init, HomeInv, Live
<1>2. ASSUME TableInv, HomeInv, Idle PROVE HomeInv'
  BY <1>2 DEF Idle, HomeInv, Live, Slots
<1>3. ASSUME TableInv, CleanInv, HomeInv, NEW t \in Threads, NEW k \in Keys \cup {NoKey},
             Put(t, k)
      PROVE  HomeInv'
  <2> DEFINE n == Len(putKeys) + 1
             h == Hash[k]
  <2>1. k \in Keys /\ h \in Slots
    BY <1>0, <1>3 DEF Put, PutUpdate, PutHome, PutProbe, PutForce, PutFull, PutCall
  <2>2. PutUpdate(t, k, n) \/ PutHome(t, k, n)
    BY <1>3, <2>1, PutAtHome DEF Put, PutProbe, PutForce, PutFull
  <2> HIDE DEF n
  <2>3. latest' = [latest EXCEPT ![k] = n]
    BY <2>2 DEF PutUpdate, PutHome
  <2>4. \A i \in Slots : i # h => nodes'[i] = nodes[i]
    BY <1>3, <2>1, <2>2 DEF PutUpdate, PutHome, Fill, TableInv, TableType
  <2>5. nodes'[h].key = k /\ nodes'[h].val = n
    <3>1. nodes \in [Slots -> SlotType]
      BY <1>3 DEF TableInv, TableType
    <3>2. CASE PutUpdate(t, k, n)
      <4>1. nodes'[h] = [nodes[h] EXCEPT !.val = n] /\ nodes[h].key = k
        BY <2>1, <3>1, <3>2 DEF PutUpdate
      <4> QED
        BY <2>1, <3>1, <4>1 DEF SlotType
    <3>3. CASE PutHome(t, k, n)
      BY <2>1, <3>1, <3>3 DEF PutHome, Fill
    <3> QED
      BY <2>2, <3>2, <3>3
  <2>6. ASSUME NEW i \in Live' PROVE Hash[nodes'[i].key] = i
    BY <1>3, <2>4, <2>5, <2>6 DEF Live, HomeInv, Slots
  <2>7. ASSUME NEW q \in Keys
        PROVE  latest'[q] = IF nodes'[Hash[q]].key = q THEN nodes'[Hash[q]].val ELSE 0
    <3>1. CASE q = k
      BY <1>3, <2>3, <2>5, <3>1 DEF TableInv, TableType
    <3>2. CASE q # k
      <4>1. Hash[q] # h /\ Hash[q] \in Slots
        BY <1>0, <2>1, <3>2 DEF OwnHomes
      <4>2. latest'[q] = latest[q]
        BY <1>3, <2>3, <3>2 DEF TableInv, TableType
      <4> QED
        BY <1>3, <2>4, <4>1, <4>2 DEF HomeInv
    <3> QED
      BY <3>1, <3>2
  <2> QED
    BY <2>6, <2>7 DEF HomeInv
<1>4. ASSUME TableInv, CleanInv, HomeInv, NEW t \in Threads, NEW k \in Keys \cup {NoKey},
             Delete(t, k)
      PROVE  HomeInv'
  <2>1. k \in Keys /\ latest' = [latest EXCEPT ![k] = 0]
    BY <1>4 DEF Delete
  <2>2. \A q \in Keys : latest'[q] = IF q = k THEN 0 ELSE latest[q]
    BY <1>4, <2>1 DEF TableInv, TableType
  <2>3. CASE Holders(k) = {}
    <3>1. UNCHANGED nodes /\ nodes[Hash[k]].key # k
      BY <1>0, <1>4, <2>1, <2>3 DEF Delete, Holders
    <3> QED
      BY <1>4, <2>1, <2>2, <3>1 DEF HomeInv, Live, Slots
  <2>4. CASE Holders(k) # {}
    <3>1. Nearest(Hash[k], Holders(k)) \in Holders(k)
      BY <1>0, <2>1, <2>4, NearestIsIn DEF Holders
    <3>2. Nearest(Hash[k], Holders(k)) = Hash[k]
      BY <1>4, <2>1, <3>1, NoKeyAssumption DEF HomeInv, Live, Holders
    <3>3. \A i \in Slots : nodes'[i] = IF i = Hash[k] THEN Empty ELSE nodes[i]
      BY <1>4, <2>4, <3>2 DEF Delete, TableInv, TableType
    <3>4. \A q \in Keys : q # k => Hash[q] # Hash[k]
      BY <2>1 DEF OwnHomes
    <3> QED
      BY <1>0, <1>4, <2>1, <2>2, <3>3, <3>4, NoKeyAssumption
      DEF HomeInv, Live, Slots, Empty
  <2> QED
    BY <2>3, <2>4
<1>5. ASSUME TableInv, HomeInv, NEW t \in Threads, ClearMap(t) \/ InvalidateMap(t)
      PROVE  HomeInv'
  <2>1. /\ nodes' = [i \in Slots |-> [nodes[i] EXCEPT !.key = NoKey, !.val = 0]]
        /\ latest' = [k \in Keys |-> 0]
    BY <1>5 DEF ClearMap, InvalidateMap, DestroyEntries
  <2>2. \A i \in Slots : nodes'[i].key = NoKey
    BY <1>5, <2>1 DEF TableInv, TableType, SlotType
  <2> QED
    BY <1>0, <2>1, <2>2, NoKeyAssumption DEF HomeInv, Live, Slots
<1> QED
  BY <1>1, <1>2, <1>3, <1>4, <1>5, TableSteps

\* With a home slot for each key, get finds what was put last, and nothing once the
\* key is deleted or cleared (hashmap.h:60), whatever the capacity.
THEOREM Latest == ASSUME OwnHomes PROVE Spec => []FindsLatest
<1>1. TableInv /\ HomeInv => FindsLatest
  BY HomeFinds DEF FindsLatest
<1> QED
  BY <1>1, HomeStep, Inductive, CleanStep, PTL DEF Spec

\* What the callers put, deleted or cleared is all that changes the latest values.
LEMMA LatestIsStore ==
  ASSUME TableInv, HomeInv
  PROVE  [k \in Keys |-> Lookup(k)] = latest
BY HomeFinds DEF TableInv, TableType

\* put stores a value, whichever slot it takes.
LEMMA PutIsPut ==
  ASSUME OwnHomes, TableInv, TableInv', CleanInv, HomeInv, HomeInv',
         NEW t \in Threads, NEW q \in Keys \cup {NoKey}, Put(t, q)
  PROVE  \E v \in 1 .. MaxPuts : KV!Put(q, v) /\ q \in Keys
<1> DEFINE n == Len(putKeys) + 1
<1>1. q \in Keys /\ ~invalid /\ n \in 1 .. MaxPuts /\ UNCHANGED <<invalid, readers>>
  BY BoundAssumption DEF Put, PutUpdate, PutHome, PutProbe, PutForce, PutFull, PutCall,
     WriteUnlock, TableInv, TableType
<1>2. latest' = [latest EXCEPT ![q] = n]
  BY <1>1, PutAtHome DEF Put, PutUpdate, PutHome, PutProbe, PutForce, PutFull
<1>3. /\ [k \in Keys |-> Lookup(k)] = latest
      /\ ([k \in Keys |-> Lookup(k)] = latest)'
  BY LatestIsStore, PTL
<1> QED
  BY <1>1, <1>2, <1>3 DEF KV!Put, readers

\* The scan of get answers with what is stored, or with anything once the map is invalid.
LEMMA ScanIsGet ==
  ASSUME TableInv, HomeInv, LockInv, ReaderInv, NEW t \in Threads,
         GetScan(t) \/ GetScanFreed(t)
  PROVE  KV!Get(t)
<1>1. wanted[t] \in Keys /\ UNCHANGED <<nodes, invalid>>
  BY DEF ReaderInv, GetScan, GetScanFreed, table
<1>2. UNCHANGED [k \in Keys |-> Lookup(k)]
  BY <1>1 DEF Lookup, Holders, Nearest, Distance, Slots
<1>3. CASE GetScan(t)
  BY <1>1, <1>2, <1>3 DEF GetScan, KV!Get
<1>4. CASE GetScanFreed(t)
  <2>1. PICK v \in 0 .. Len(putKeys) : answer' = [answer EXCEPT ![t] = v]
    BY <1>4 DEF GetScanFreed
  <2>2. v \in (1 .. MaxPuts) \cup {0}
    BY BoundAssumption DEF TableInv, TableType
  <2> QED
    BY <1>1, <1>2, <1>4, <2>1, <2>2 DEF GetScanFreed, KV!Get
<1> QED
  BY <1>3, <1>4

\* With a home slot for each key, every step of the map is a step of the key-value store
\* or invisible.
LEMMA StoreStep ==
  ASSUME OwnHomes, LockInv, TableInv, TableInv', CleanInv, HomeInv, HomeInv', ReaderInv,
         [Next]_vars
  PROVE  [KV!Next]_(KV!kvars)
<1>0. /\ [k \in Keys |-> Lookup(k)] = latest
      /\ ([k \in Keys |-> Lookup(k)] = latest)'
  BY LatestIsStore, PTL
<1> DEFINE Invisible == UNCHANGED <<latest, invalid, wanted, answer>>
<1>1. ASSUME Invisible PROVE UNCHANGED KV!kvars
  BY <1>0, <1>1 DEF KV!kvars
<1>2. ASSUME NEW t \in Threads, Get(t) PROVE Invisible \/ KV!Next
  <2>1. CASE GetScan(t) \/ GetScanFreed(t)
    BY <1>2, <2>1, ScanIsGet DEF KV!Next
  <2>2. ASSUME NEW k \in Keys \cup {NoKey}, GetEnter(t, k) PROVE KV!Next
    <3>1. k \in Keys /\ KV!Ask(t, k)
      BY <1>0, <2>2 DEF GetEnter, KV!Ask, table, history
    <3> QED
      BY <1>2, <3>1 DEF KV!Next
  <2> QED
    BY <1>2, <2>1, <2>2 DEF Get, GetLockFields, GetReject, GetLockWrite,
       GetLockFieldsAgain, GetLeave, table, readers, history
<1>3. ASSUME NEW t \in Threads, Write(t) PROVE Invisible \/ KV!Next
  <2>1. ASSUME NEW k \in Keys \cup {NoKey}, Put(t, k) PROVE KV!Next
    BY <1>3, <2>1, PutIsPut DEF KV!Next
  <2>2. ASSUME NEW k \in Keys \cup {NoKey}, Delete(t, k) PROVE KV!Next
    <3>1. k \in Keys /\ KV!Delete(k)
      BY <1>0, <2>2 DEF Delete, WriteUnlock, readers, KV!Delete
    <3> QED
      BY <3>1 DEF KV!Next
  <2>3. ASSUME ClearMap(t) \/ InvalidateMap(t) PROVE KV!Next
    <3>1. KV!Clear
      BY <1>0, <2>3 DEF ClearMap, InvalidateMap, DestroyEntries, WriteUnlock, readers,
         KV!Clear, TableInv, TableType
    <3> QED
      BY <3>1 DEF KV!Next
  <2> QED
    BY <1>3, <2>1, <2>2, <2>3 DEF Write, WriteLock, WriteReject, WriteUnlock, table, readers,
       history
<1>4. CASE UNCHANGED vars
  BY <1>1, <1>4 DEF vars
<1> QED
  BY <1>1, <1>2, <1>3, <1>4 DEF Next

\* With a home slot for each key, the map implements the key-value store that hashmap.h
\* describes: gets that overlap with one another and wait for writers take effect one at
\* a time, between call and return.
THEOREM Refinement == ASSUME OwnHomes PROVE Spec => ImplementsKVStore
<1>1. Init => KV!Init
  <2>1. ASSUME Init PROVE [k \in Keys |-> Lookup(k)] = [k \in Keys |-> 0]
    <3>1. \A k \in Keys : Holders(k) = {}
      BY <2>1, NoKeyAssumption DEF Init, Empty, Holders
    <3> QED
      BY <3>1 DEF Lookup
  <2> QED
    BY <2>1 DEF Init, KV!Init
<1>2. Spec => []LockInv /\ []TableInv /\ []CleanInv /\ []HomeInv /\ []ReaderInv
  BY Inductive, CleanStep, HomeStep, ReaderStep, PTL DEF Spec
<1> QED
  BY <1>1, <1>2, StoreStep, PTL DEF Spec, ImplementsKVStore, KV!Spec
=============================================================================
