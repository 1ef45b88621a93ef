------------------------- MODULE CreamServer_proofs -------------------------
(***************************************************************************)
(* Theorems about CreamServer, for any clients, workers, keys and codes:   *)
(* what CreamQueue_proofs shows of the queue holds of the server's queue.  *)
(* Connections that do not overlap are answered right.                     *)
(***************************************************************************)
EXTENDS CreamServer, FiniteSetTheorems, SequenceTheorems, WellFoundedInduction, TLAPS

\* What is not a step of the queue leaves the queue alone.
LEMMA OtherSteps ==
  ASSUME \/ \E c \in Clients, code \in Codes, k \in Keys : Connect(c, code, k)
         \/ \E c \in Clients : HangUp(c) \/ Accept(c)
         \/ Exit
         \/ \E w \in Workers : Work(w) /\ ~Dequeue(w)
  PROVE  UNCHANGED queue
<1>1. ASSUME NEW c \in Clients, HangUp(c) \/ Accept(c) PROVE UNCHANGED queue
  BY <1>1 DEF HangUp, Accept
<1>2. ASSUME NEW w \in Workers, Work(w), ~Dequeue(w) PROVE UNCHANGED queue
  BY <1>2, Zenon DEF Work, Follow, ReadCall, ReadHeader, ReadBody, Operate, Reply,
     ReplyValue, Close
<1> QED
  BY <1>1, <1>2, Zenon DEF Connect, Exit

\* main takes the steps of enqueue.
LEMMA EnqueueSteps == ASSUME ~crashed, Enqueue PROVE Q!Next
<1>1. Main \in {Main} /\ "item" \in {"item", "NULL"}
  OBVIOUS
<1>2. Q!EnqueueLock(Main) \/ Q!Enqueue(Main, "item") \/ Q!EnqueuePost(Main)
  BY Zenon DEF Enqueue, Q!Enqueue
<1>3. Q!ProducerStep(Main)
  BY <1>1, <1>2, Zenon DEF Q!ProducerStep
<1> QED
  BY <1>1, <1>3, Zenon DEF Q!Next

\* A worker takes the steps of dequeue.
LEMMA DequeueSteps ==
  ASSUME ~crashed, NEW w \in Workers, Dequeue(w) PROVE Q!Next
<1>1. Q!ConsumerStep(w)
  BY Zenon DEF Dequeue, Q!ConsumerStep
<1> QED
  BY <1>1, Zenon DEF Q!Next

\* Every step of the server is a step of the queue or leaves it alone.
LEMMA QueueSteps == [Next]_vars => [Q!Next]_(Q!vars)
<1>1. CASE Next
  BY <1>1, OtherSteps, EnqueueSteps, DequeueSteps, Zenon
  DEF Next, Running, queue, Q!vars
<1>2. CASE UNCHANGED vars
  BY <1>2 DEF vars, queue, Q!vars
<1> QED
  BY <1>1, <1>2

-----------------------------------------------------------------------------
(* The queue inside the server *)

QP == INSTANCE CreamQueue_proofs WITH
        Producers <- {Main}, Consumers <- Workers, Destroyers <- {},
        MaxCalls <- Cardinality(Clients), AllocMayFail <- TRUE

\* The assumptions of CreamQueue hold of the server.
LEMMA QueueAssumptions ==
  /\ Cardinality(Clients) \in Nat
  /\ {Main} \cap Workers = {} /\ {Main} \cap {} = {} /\ Workers \cap {} = {}
  /\ QP!IsFiniteSet({Main}) /\ QP!IsFiniteSet(Workers)
  /\ NoThread \notin QP!Threads
<1>1. IsFiniteSet({Main}) /\ Cardinality(Clients) \in Nat
  BY ServerAssumption, FS_Singleton, FS_CardinalityType
<1>2. QP!IsFiniteSet({Main}) /\ QP!IsFiniteSet(Workers)
  BY <1>1, ServerAssumption DEF IsFiniteSet, QP!IsFiniteSet
<1> QED
  BY <1>1, <1>2, ServerAssumption DEF QP!Threads

\* The server takes the steps of the queue, and what its proofs speak of is this queue.
LEMMA SameQueue ==
  /\ QP!Init <=> Q!Init
  /\ [QP!Next]_(QP!vars) <=> [Q!Next]_(Q!vars)
  /\ QP!TypeOK <=> Q!TypeOK
<1>1. QP!Init <=> Q!Init
  BY DEF QP!Init, Q!Init, QP!Threads, Q!Threads
<1>2. QP!TypeOK <=> Q!TypeOK
  BY DEF QP!TypeOK, Q!TypeOK, QP!Threads, Q!Threads, QP!Places, Q!Places
<1>3. QP!Next <=> Q!Next
  BY Zenon DEF QP!Next, Q!Next, QP!ProducerStep, Q!ProducerStep, QP!ConsumerStep,
     Q!ConsumerStep, QP!DestroyerStep, Q!DestroyerStep, QP!EnqueueLock, Q!EnqueueLock,
     QP!Lock, Q!Lock, QP!Unlock, Q!Unlock, QP!history, Q!history, QP!Enqueue, Q!Enqueue,
     QP!EnqueuePost, Q!EnqueuePost, QP!EnqueueReject, Q!EnqueueReject,
     QP!EnqueueOutOfMemory, Q!EnqueueOutOfMemory, QP!LinkFirst, Q!LinkFirst,
     QP!LinkAfterRear, Q!LinkAfterRear, QP!LinkAfterFreedRear, Q!LinkAfterFreedRear,
     QP!Link, Q!Link, QP!Posting, Q!Posting, QP!Claimed, Q!Claimed, QP!DequeueWait,
     Q!DequeueWait, QP!DequeueLock, Q!DequeueLock, QP!DequeueReject, Q!DequeueReject,
     QP!DequeueTake, Q!DequeueTake, QP!DequeueCrash, Q!DequeueCrash, QP!InvalidateLock,
     Q!InvalidateLock, QP!InvalidateReject, Q!InvalidateReject, QP!Invalidate,
     Q!Invalidate, QP!InvalidateCrash, Q!InvalidateCrash
<1> QED
  BY <1>1, <1>2, <1>3 DEF QP!vars, Q!vars

\* The invariants that CreamQueue_proofs proves of a queue.
QueueInv == Q!TypeOK /\ QP!TokenInv /\ QP!OrderInv

\* The server keeps them.
LEMMA QueueStep ==
  /\ Init => QueueInv
  /\ QueueInv /\ [Next]_vars => QueueInv'
<1>1. ASSUME QueueInv, [Q!Next]_(Q!vars) PROVE QueueInv'
  <2>1. (QP!TypeOK <=> Q!TypeOK) /\ (QP!TypeOK <=> Q!TypeOK)'
    BY SameQueue, PTL
  <2>2. QP!TypeOK /\ [QP!Next]_(QP!vars) /\ QP!TokenInv /\ QP!OrderInv
    BY <1>1, <2>1, SameQueue, Zenon DEF QueueInv
  <2>3. QP!TypeOK'
    BY <2>2, QueueAssumptions, QP!TypeStep
  <2>4. QP!TokenInv'
    BY <2>2, <2>3, QueueAssumptions, QP!TokenStep
  <2>5. QP!OrderInv'
    BY <2>2, QueueAssumptions, QP!OrderStep
  <2> QED
    BY <2>1, <2>3, <2>4, <2>5 DEF QueueInv
<1>2. ASSUME Init PROVE QueueInv
  <2>1. QP!Init
    BY <1>2, SameQueue DEF Init
  <2>2. QP!TokenInv /\ QP!OrderInv
    BY <2>1, QueueAssumptions, QP!TokenInit, QP!OrderInit
  <2>3. Q!TypeOK
    <3>1. <<>> \in Seq(Nat)
      OBVIOUS
    <3> QED
      BY <1>2, <3>1 DEF Init, Q!Init, Q!TypeOK, Q!Places
  <2> QED
    BY <2>2, <2>3 DEF QueueInv
<1> QED
  BY <1>1, <1>2, QueueSteps

\* The server's queue strands no connection, and keeps their order (cream.c:79, 87).
THEOREM QueueInServer == Spec => [](Q!NoStrandedItem /\ Q!FifoOrder)
<1>1. QP!NoStrandedItem <=> Q!NoStrandedItem
  BY Zenon DEF QP!NoStrandedItem, Q!NoStrandedItem, QP!Tokens, Q!Tokens, QP!InFlight,
     Q!InFlight, QP!Posting,
     Q!Posting, QP!Claimed, Q!Claimed, QP!Cardinality, Q!Cardinality, QP!IsFiniteSet,
     Q!IsFiniteSet
<1>2. QP!FifoOrder <=> Q!FifoOrder
  BY Zenon DEF QP!FifoOrder, Q!FifoOrder, QP!Ascending, Q!Ascending
<1>3. QueueInv => Q!NoStrandedItem /\ Q!FifoOrder
  BY <1>1, <1>2, Zenon DEF QueueInv, QP!TokenInv, QP!OrderInv, QP!FifoOrder, QP!All
<1> QED
  BY <1>3, QueueStep, PTL DEF Spec

-----------------------------------------------------------------------------
(* Types *)

\* The types of everything but the queue, in three parts.
ClientType ==
  /\ request \in [Clients -> [code : Codes \cup {"none"}, key : Keys \cup {Junk}]]
  /\ unread \in [Clients -> 0 .. 2]
  /\ gone \subseteq Clients
  /\ got \in [Clients -> Seq(Responses \cup Clients \cup {Junk})]

WorkerType ==
  /\ store \in [Keys -> Clients \cup {Junk, NoClient}]
  /\ answer \in [Workers -> Clients \cup {Junk, NoClient}]
  /\ closed = FALSE /\ freed \subseteq Clients \cup {Junk}
  /\ place \in [Workers -> Places]
  /\ clientFD \in [Workers -> FDs \cup {0}]
  /\ header \in [Workers -> AllCodes \cup {"none"}]
  /\ key \in [Workers -> Keys \cup {Junk}]
  /\ value \in [Workers -> Clients \cup {Junk}]
  /\ sock \in [Workers -> Clients \cup {NoClient}]
  /\ \A w \in Workers : place[w] = "value" => answer[w] # NoClient

\* A connection has at most one descriptor, and its client asked for something, once.
ConnType ==
  /\ connectionFD \in FDs \cup {0}
  /\ accepted \in Seq(Clients) /\ calls \in Nat /\ calls <= Len(accepted)
  /\ conn \in [FDs -> Clients \cup {NoClient}]
  /\ rushed \in BOOLEAN /\ stopped \in BOOLEAN
  /\ \A f \in Open : conn[f] \in Connected
  /\ \A f, g \in Open : conn[f] = conn[g] => f = g
  /\ \A i, j \in 1 .. Len(accepted) : accepted[i] = accepted[j] => i = j
  /\ \A i \in 1 .. Len(accepted) : request[accepted[i]] # None
  /\ \A c \in Clients : request[c] = None \/ request[c].key \in Keys

ServerType == ClientType /\ WorkerType /\ ConnType

\* A nonempty set of natural numbers has a least member.
LEMMA Least ==
  ASSUME NEW S \in SUBSET Nat, S # {}
  PROVE  Min(S) \in S /\ \A n \in S : Min(S) <= n
<1>1. PICK m \in S : \A n \in S : ~ (<<n, m>> \in OpToRel(<, Nat))
  BY NatLessThanWellFounded, WFMin
<1>2. \A n \in S : m <= n
  <2> TAKE n \in S
  <2>1. ~(n < m)
    BY <1>1 DEF OpToRel
  <2> QED
    BY <2>1
<1> QED
  BY <1>2 DEF Min

\* accept finds a free descriptor: there are as many as clients, and each open one has a
\* client of its own.
LEMMA FreeDescriptor ==
  ASSUME ConnType, NEW c \in Clients, c \notin Connected
  PROVE  Min(FDs \ Open) \in FDs \ Open
<1>1. IsFiniteSet(Clients) /\ Cardinality(Clients) \in Nat
  BY ServerAssumption, FS_CardinalityType
<1>2. IsFiniteSet(FDs) /\ Cardinality(FDs) = Cardinality(Clients) /\ FDs \subseteq Nat
  BY <1>1, FS_Interval DEF FDs
<1>3. /\ IsFiniteSet(Clients \ {c})
      /\ Cardinality(Clients \ {c}) = Cardinality(Clients) - 1
  BY <1>1, FS_RemoveElement
<1>4. FDs \ Open # {}
  <2> SUFFICES ASSUME FDs = Open PROVE FALSE
    BY DEF Open
  <2>1. \A f \in FDs : conn[f] \in Connected
    BY DEF ConnType
  <2>2. Connected \subseteq Clients \ {c}
    BY DEF ConnType, Connected
  <2>3. conn \in [FDs -> Clients \ {c}]
    BY <2>1, <2>2 DEF ConnType
  <2>4. Cardinality(Clients \ {c}) < Cardinality(FDs)
    BY <1>1, <1>2, <1>3
  <2>5. \E f, g \in FDs : f # g /\ conn[f] = conn[g]
    BY <1>2, <1>3, <2>3, <2>4, FS_PigeonHole, Zenon
  <2> QED
    BY <2>5 DEF ConnType
<1> QED
  BY <1>2, <1>4, Least

\* The types of the connections depend on these variables alone.
LEMMA ConnFrame ==
  ASSUME ConnType, stopped' \in BOOLEAN,
         UNCHANGED <<connectionFD, accepted, request, rushed, calls, conn>>
  PROVE  ConnType'
BY DEF ConnType, Connected, Open, FDs

\* The clients' steps and main's keep the types.
LEMMA MainTypes ==
  ASSUME Q!TypeOK, ServerType,
         \/ \E c \in Clients, code \in Codes, k \in Keys : Connect(c, code, k)
         \/ \E c \in Clients : HangUp(c) \/ Accept(c)
         \/ Enqueue \/ Exit
  PROVE  ServerType'
<1> USE DEF ServerType
<1>1. ASSUME NEW c \in Clients, NEW code \in Codes, NEW k \in Keys, Connect(c, code, k)
      PROVE  ServerType'
  <2>1. WorkerType'
    BY <1>1 DEF Connect, WorkerType, map, locals, FDs
  <2>2. ClientType'
    BY <1>1 DEF Connect, ClientType
  <2>3. \A d \in Clients : request'[d] = IF d = c THEN [code |-> code, key |-> k] ELSE request[d]
    BY <1>1 DEF Connect, ClientType
  <2>4. [code |-> code, key |-> k] # None
    BY ServerAssumption DEF None
  <2> QED
    BY <1>1, <2>1, <2>2, <2>3, <2>4 DEF Connect, ConnType, queue, Connected, Open, FDs
<1>2. ASSUME NEW c \in Clients, HangUp(c) PROVE ServerType'
  BY <1>2 DEF HangUp, ClientType, WorkerType, ConnType, queue, map, locals, Connected, Open, FDs
<1>3. ASSUME NEW c \in Clients, Accept(c) PROVE ServerType'
  <2> DEFINE f == Min(FDs \ Open)
  <2>1. /\ c \notin Connected /\ request[c] # None /\ AtAccept
        /\ connectionFD' = f /\ conn' = [conn EXCEPT ![f] = c]
        /\ accepted' = Append(accepted, c) /\ rushed' = (rushed \/ Busy)
        /\ UNCHANGED <<queue, map, clients, locals, place, stopped>>
    BY <1>3 DEF Accept
  <2>2. f \in FDs \ Open
    BY <1>3, <2>1, FreeDescriptor
  <2> HIDE DEF f
  <2>3. ClientType' /\ WorkerType'
    BY <2>1 DEF ClientType, WorkerType, clients, map, locals, FDs
  <2>4. /\ \A g \in FDs : conn'[g] = IF g = f THEN c ELSE conn[g]
        /\ Len(accepted') = Len(accepted) + 1 /\ accepted' \in Seq(Clients)
        /\ \A i \in 1 .. Len(accepted') :
             accepted'[i] = IF i = Len(accepted) + 1 THEN c ELSE accepted[i]
        /\ conn' \in [FDs -> Clients \cup {NoClient}]
    BY <2>1, <2>2 DEF ConnType
  <2>5. \A g \in Open' : g = f \/ (g \in Open /\ conn'[g] = conn[g])
    BY <2>4 DEF Open, FDs
  <2>6. Connected \cup {c} \subseteq Connected' /\ conn'[f] = c
    <3>1. \A i \in 1 .. Len(accepted) : i \in 1 .. Len(accepted') /\ accepted'[i] = accepted[i]
      BY <2>4 DEF ConnType
    <3>2. Len(accepted') \in 1 .. Len(accepted') /\ accepted'[Len(accepted')] = c
      BY <2>4 DEF ConnType
    <3> QED
      BY <2>2, <2>4, <3>1, <3>2 DEF Connected
  <2>7. /\ \A g \in Open' : conn'[g] \in Connected'
        /\ \A g, h \in Open' : conn'[g] = conn'[h] => g = h
    BY <2>1, <2>5, <2>6 DEF ConnType
  <2>8. \A i \in 1 .. Len(accepted) : accepted[i] # c
    BY <2>1 DEF Connected
  <2>9. \A i, j \in 1 .. Len(accepted') : accepted'[i] = accepted'[j] => i = j
    BY <2>4, <2>8 DEF ConnType
  <2>10. /\ \A i \in 1 .. Len(accepted') : request'[accepted'[i]] # None
         /\ \A d \in Clients : request'[d] = None \/ request'[d].key \in Keys
    BY <2>1, <2>4 DEF ConnType, clients
  <2>11. /\ connectionFD' \in FDs' \cup {0} /\ calls' = calls /\ stopped' = stopped
         /\ rushed' \in BOOLEAN
    BY <2>1, <2>2 DEF FDs, queue, ConnType, Busy
  <2>12. ConnType'
    BY <2>4, <2>7, <2>9, <2>10, <2>11 DEF ConnType, FDs
  <2> QED
    BY <2>3, <2>12
<1>4. CASE Enqueue
  <2>1. calls' \in Nat /\ calls' <= Len(accepted)
    BY <1>4 DEF Enqueue, ConnType, Q!EnqueueLock, Q!EnqueueOutOfMemory, Q!LinkFirst,
       Q!LinkAfterRear, Q!LinkAfterFreedRear, Q!Link, Q!EnqueuePost
  <2>2. UNCHANGED <<map, clients, locals, connectionFD, accepted, conn, place, rushed, stopped>>
    BY <1>4 DEF Enqueue
  <2> QED
    BY <2>1, <2>2 DEF ClientType, WorkerType, ConnType, map, clients, locals, Connected,
       Open, FDs
<1>5. CASE Exit
  <2>1. ClientType' /\ WorkerType'
    BY <1>5 DEF Exit, ClientType, WorkerType, queue, map, clients, locals, FDs
  <2>2. stopped' \in BOOLEAN /\ UNCHANGED <<connectionFD, accepted, request, rushed, calls, conn>>
    BY <1>5 DEF Exit, queue, clients
  <2> QED
    BY <2>1, <2>2, ConnFrame
<1> QED
  BY <1>1, <1>2, <1>3, <1>4, <1>5

\* An operation on the map changes no other worker's answer.
LEMMA OperateTypes ==
  ASSUME WorkerType, NEW w \in Workers, Operate(w)
  PROVE  /\ store' \in [Keys -> Clients \cup {Junk, NoClient}]
         /\ answer' \in [Workers -> Clients \cup {Junk, NoClient}]
         /\ closed' = FALSE /\ freed' \subseteq Clients \cup {Junk}
         /\ key' \in [Workers -> Keys \cup {Junk}]
         /\ \A v \in Workers \ {w} : answer'[v] = answer[v]
<1>1. CASE header[w] = "PUT" /\ key[w] \in Keys
  <2>1. KV!Put(key[w], value[w]) /\ UNCHANGED freed
    BY <1>1, Zenon DEF Operate
  <2> QED
    BY <2>1 DEF WorkerType, KV!Put
<1>2. CASE header[w] = "GET" /\ key[w] \in Keys
  <2>1. KV!Get(w) /\ UNCHANGED freed
    BY <1>2 DEF Operate
  <2> QED
    BY <1>2, <2>1 DEF WorkerType, KV!Get
<1>3. CASE header[w] = "GET" /\ key[w] \notin Keys
  <2>1. answer' = [answer EXCEPT ![w] = NoClient] /\ UNCHANGED <<store, closed, key, freed>>
    BY <1>3 DEF Operate
  <2> QED
    BY <2>1 DEF WorkerType
<1>4. CASE header[w] = "EVICT" /\ key[w] \in Keys
  <2>1. KV!Delete(key[w]) /\ UNCHANGED freed
    BY <1>4 DEF Operate
  <2> QED
    BY <2>1 DEF WorkerType, KV!Delete
<1>5. CASE header[w] = "CLEAR"
  <2>1. /\ UNCHANGED closed /\ KV!Clear
        /\ freed' = freed \cup ({store[k] : k \in Keys} \ {NoClient})
    BY <1>5 DEF Operate
  <2> QED
    BY <2>1 DEF WorkerType, KV!Clear
<1>6. CASE /\ ~(header[w] \in {"PUT", "EVICT"} /\ key[w] \in Keys)
           /\ header[w] \notin {"GET", "CLEAR"}
  <2>1. UNCHANGED <<store, closed, answer, freed, key>>
    BY <1>6 DEF Operate, map
  <2> QED
    BY <2>1 DEF WorkerType
<1> QED
  BY <1>1, <1>2, <1>3, <1>4, <1>5, <1>6

\* What no worker changes.
LEMMA WorkKeeps ==
  ASSUME NEW w \in Workers, Work(w)
  PROVE  UNCHANGED <<connectionFD, accepted, request, gone, rushed, calls>>
<1>1. WorkerFrame
  BY Zenon DEF Work, Dequeue, Follow, ReadCall, ReadHeader, ReadBody, Operate, Reply,
     ReplyValue, Close
<1>2. CASE Dequeue(w)
  BY <1>1, <1>2 DEF WorkerFrame, Dequeue, Q!DequeueWait, Q!DequeueLock, Q!DequeueCrash,
     Q!DequeueTake
<1>3. CASE ~Dequeue(w)
  BY <1>1, <1>3, OtherSteps DEF WorkerFrame, queue
<1> QED
  BY <1>2, <1>3

\* So do the workers'.
LEMMA WorkTypes ==
  ASSUME Q!TypeOK, ServerType, NEW w \in Workers, Work(w)
  PROVE  ServerType'
<1> USE DEF ServerType
<1>f. UNCHANGED <<connectionFD, accepted, request, gone, rushed, calls>>
  BY WorkKeeps
<1>c. ASSUME UNCHANGED <<unread, got>> PROVE ClientType'
  BY <1>c, <1>f DEF ClientType
<1>s. ASSUME UNCHANGED stopped PROVE stopped' \in BOOLEAN
  BY <1>s DEF ConnType
<1>r. ASSUME NEW n \in 1 .. 2, Receives(w, n) \/ ReadsNothing(w)
      PROVE  unread' \in [Clients -> 0 .. 2]
  <2>1. CASE Receives(w, n)
    <3>1. n - 1 \in 0 .. 2
      OBVIOUS
    <3> QED
      BY <2>1, <3>1 DEF Receives, ClientType
  <2> QED
    BY <1>r, <2>1 DEF ReadsNothing, ClientType
<1>1. CASE ReadCall(w)
  <2>1. WorkerType'
    BY <1>1 DEF ReadCall, Go, WorkerType, ConnType, map, queue, Places, FDs
  <2>2. UNCHANGED <<conn, unread, got, stopped>>
    BY <1>1, Zenon DEF ReadCall
  <2> QED
    BY <1>f, <1>c, <1>s, <2>1, <2>2, ConnFrame
<1>2. CASE ReadHeader(w)
  <2>1. PICK code \in AllCodes :
          /\ Receives(w, 2) \/ Receives(w, 1) \/ ReadsNothing(w)
          /\ header' = [header EXCEPT ![w] = code]
          /\ \E to \in {"body", "dequeue", "operate"} : Go(w, "in header", to)
    BY <1>2 DEF ReadHeader
  <2>2. /\ UNCHANGED <<store, closed, answer, freed, clientFD, key, value, sock>>
        /\ UNCHANGED <<conn, got, stopped>>
    BY <1>2, Zenon DEF ReadHeader, map
  <2>3. WorkerType'
    BY <2>1, <2>2 DEF Go, WorkerType, Places, FDs
  <2>4. 1 \in 1 .. 2 /\ 2 \in 1 .. 2
    OBVIOUS
  <2>5. (Receives(w, 2) \/ ReadsNothing(w)) \/ (Receives(w, 1) \/ ReadsNothing(w))
    BY <2>1
  <2>6. unread' \in [Clients -> 0 .. 2]
    BY <2>4, <2>5, <1>r, Zenon
  <2> QED
    BY <1>f, <1>s, <2>2, <2>3, <2>6, ConnFrame DEF ClientType
<1>3. CASE ReadBody(w)
  <2>1. PICK k \in Keys \cup {Junk}, v \in Clients \cup {Junk} :
          /\ Receives(w, 2) \/ Receives(w, 1) \/ ReadsNothing(w)
          /\ key' = [key EXCEPT ![w] = k]
          /\ value' = [value EXCEPT ![w] = v]
    BY <1>3, Zenon DEF ReadBody
  <2>2. /\ UNCHANGED <<store, closed, answer, freed, clientFD, header, sock>>
        /\ UNCHANGED <<conn, got, stopped>>
        /\ Go(w, "in body", "operate")
    BY <1>3, Zenon DEF ReadBody, map
  <2>3. WorkerType'
    BY <2>1, <2>2 DEF Go, WorkerType, Places, FDs
  <2>4. 1 \in 1 .. 2 /\ 2 \in 1 .. 2
    OBVIOUS
  <2>5. (Receives(w, 2) \/ ReadsNothing(w)) \/ (Receives(w, 1) \/ ReadsNothing(w))
    BY <2>1
  <2>6. unread' \in [Clients -> 0 .. 2]
    BY <2>4, <2>5, <1>r, Zenon
  <2> QED
    BY <1>f, <1>s, <2>2, <2>3, <2>6, ConnFrame DEF ClientType
<1>4. CASE Operate(w)
  <2>1. /\ UNCHANGED <<clientFD, header, value, sock, conn, unread, got, stopped>>
        /\ Go(w, "operate", "reply")
    BY <1>4, Zenon DEF Operate
  <2>2. /\ store' \in [Keys -> Clients \cup {Junk, NoClient}]
        /\ answer' \in [Workers -> Clients \cup {Junk, NoClient}]
        /\ closed' = FALSE /\ freed' \subseteq Clients \cup {Junk}
        /\ key' \in [Workers -> Keys \cup {Junk}]
    BY <1>4, OperateTypes
  <2>3. \A v \in Workers : place'[v] = "value" => answer'[v] # NoClient
    BY <1>4, <2>1, OperateTypes DEF Go, WorkerType
  <2>4. WorkerType'
    BY <2>1, <2>2, <2>3 DEF Go, WorkerType, Places, FDs
  <2> QED
    BY <1>f, <1>c, <1>s, <2>1, <2>4, ConnFrame
<1>5. ASSUME NEW what \in Responses \cup Clients \cup {Junk}, Send(w, what)
      PROVE  got' \in [Clients -> Seq(Responses \cup Clients \cup {Junk})]
  BY <1>5 DEF Send, ClientType, ConnType, Open
<1>6. CASE Reply(w)
  <2>1. WorkerType'
    BY <1>6 DEF Reply, Go, WorkerType, map, locals, queue, Places, FDs
  <2>2. got' \in [Clients -> Seq(Responses \cup Clients \cup {Junk})]
    BY <1>5, <1>6 DEF Reply, Response, Responses
  <2>3. UNCHANGED <<conn, unread, stopped>>
    BY <1>6, Zenon DEF Reply
  <2> QED
    BY <1>f, <1>s, <2>1, <2>2, <2>3, ConnFrame DEF ClientType
<1>7. CASE ReplyValue(w)
  <2>1. WorkerType'
    BY <1>7 DEF ReplyValue, Go, WorkerType, map, locals, queue, Places, FDs
  <2>2. answer[w] \in Clients \cup {Junk}
    BY <1>7 DEF ReplyValue, Go, WorkerType
  <2>3. got' \in [Clients -> Seq(Responses \cup Clients \cup {Junk})]
    BY <1>5, <1>7, <2>2 DEF ReplyValue
  <2>4. stopped' \in BOOLEAN /\ UNCHANGED <<conn, unread>>
    BY <1>7 DEF ReplyValue, ConnType
  <2> QED
    BY <1>f, <2>1, <2>3, <2>4, ConnFrame DEF ClientType
<1>8. CASE Close(w)
  <2>1. WorkerType'
    BY <1>8 DEF Close, Go, WorkerFrame, WorkerType, map, locals, queue, Places, FDs
  <2>2. /\ conn' = [conn EXCEPT ![connectionFD] = NoClient]
        /\ UNCHANGED <<unread, got, stopped>>
    BY <1>8, Zenon DEF Close
  <2>3. conn' \in [FDs -> Clients \cup {NoClient}]
    BY <2>2 DEF ConnType
  <2>4. \A g \in FDs : conn'[g] = IF g = connectionFD THEN NoClient ELSE conn[g]
    BY <2>2 DEF ConnType
  <2>5. \A g \in Open' : g \in Open /\ conn'[g] = conn[g]
    BY <2>4 DEF Open, FDs
  <2>6. Connected' = Connected
    BY <1>f DEF Connected
  <2>7. ConnType'
    BY <1>f, <1>s, <2>2, <2>3, <2>5, <2>6 DEF ConnType, FDs
  <2> QED
    BY <1>c, <2>1, <2>2, <2>7
<1>9. CASE Dequeue(w) \/ Follow(w)
  <2>1. WorkerType'
    BY <1>9 DEF Dequeue, Follow, Go, WorkerFrame, WorkerType, ConnType, map, locals,
       queue, Places, FDs
  <2>2. UNCHANGED <<conn, unread, got, stopped>>
    BY <1>9, Zenon DEF Dequeue, Follow
  <2> QED
    BY <1>f, <1>c, <1>s, <2>1, <2>2, ConnFrame
<1> QED
  BY <1>1, <1>2, <1>3, <1>4, <1>6, <1>7, <1>8, <1>9, Zenon DEF Work

\* Initially, and for every step.
LEMMA TypeStep ==
  /\ Init => ServerType
  /\ Q!TypeOK /\ ServerType /\ [Next]_vars => ServerType'
<1>1. ASSUME Init PROVE ServerType
  <2>1. <<>> \in Seq(Clients) /\ Len(<<>>) = 0 /\ <<>> \in Seq(Responses \cup Clients \cup {Junk})
    OBVIOUS
  <2>2. WorkerType
    BY <1>1 DEF Init, KV!Init, WorkerType, Places
  <2>3. ClientType
    BY <1>1, <2>1 DEF Init, None, ClientType
  <2>4. /\ connectionFD = 0 /\ accepted = <<>> /\ calls = 0 /\ rushed = FALSE /\ stopped = FALSE
        /\ conn = [f \in FDs |-> NoClient] /\ request = [c \in Clients |-> None]
    BY <1>1 DEF Init, Q!Init
  <2>5. Open = {}
    BY <2>4 DEF Open
  <2>6. /\ connectionFD \in FDs \cup {0} /\ accepted \in Seq(Clients)
        /\ calls \in Nat /\ calls <= Len(accepted)
        /\ conn \in [FDs -> Clients \cup {NoClient}]
        /\ \A i \in 1 .. Len(accepted) : FALSE
    BY <2>1, <2>4
  <2>7. ConnType
    BY <2>4, <2>5, <2>6 DEF ConnType
  <2> QED
    BY <2>2, <2>3, <2>7 DEF ServerType
<1>2. ASSUME ServerType, UNCHANGED vars PROVE ServerType'
  BY <1>2 DEF vars, queue, map, clients, locals, ServerType, ClientType, WorkerType,
     ConnType, Connected, Open, FDs
<1> QED
  BY <1>1, <1>2, MainTypes, WorkTypes DEF Next

\* Every variable has its type.  The descriptors are as many as the clients, so accept
\* always finds a free one, although close may leave others open (cream.c:63, 167).
THEOREM TypeCorrect == Spec => []TypeOK
<1>1. QueueInv /\ ServerType => TypeOK
  BY DEF QueueInv, ServerType, ClientType, WorkerType, ConnType, TypeOK
<1> QED
  BY <1>1, QueueStep, TypeStep, PTL DEF Spec, QueueInv

-----------------------------------------------------------------------------
(* The connections in turn *)

\* A worker is at a connection.
AtWork(w) == pc[w] # "idle" \/ place[w] # "dequeue"

\* The connection accepted last is on its way to a worker.
Waiting == ~AtAccept \/ items > 0

\* As long as connections come in turn there is at most one, either with main, or in
\* the queue, or with one worker.
Alone ==
  /\ \A w \in Workers : place[w] # "dequeue" => pc[w] = "idle"
  /\ calls + 1 >= Len(accepted)
  /\ pc[Main] # "idle" => calls = Len(accepted)
  /\ ~rushed =>
       /\ items \in 0 .. 1
       /\ ~AtAccept => items = 0
       /\ Waiting => Len(accepted) > 0 /\ \A w \in Workers : ~AtWork(w)
       /\ \A v, w \in Workers : AtWork(v) /\ AtWork(w) => v = w
       /\ \A w \in Workers : AtWork(w) => Len(accepted) > 0

\* What one step of enqueue does to the queue, seen from outside.
LEMMA EnqueueEffect ==
  ASSUME Q!TypeOK, Enqueue
  PROVE  /\ UNCHANGED <<map, clients, locals, connectionFD, accepted, conn, place, rushed,
                        stopped>>
         /\ \A w \in Workers : pc'[w] = pc[w]
         /\ \/ /\ pc[Main] = "idle" /\ calls < Len(accepted) /\ calls' = calls + 1
               /\ pc'[Main] # "idle" /\ items' = items
            \/ pc[Main] # "idle" /\ pc'[Main] # "idle" /\ UNCHANGED <<calls, items>>
            \/ pc[Main] # "idle" /\ pc'[Main] = "idle" /\ calls' = calls /\ items' = items + 1
<1>1. Main \notin Workers /\ pc \in [{Main} \cup Workers -> Q!Places]
  BY ServerAssumption DEF Q!TypeOK, Q!Threads
<1>2. UNCHANGED <<map, clients, locals, connectionFD, accepted, conn, place, rushed, stopped>>
  BY Zenon DEF Enqueue
<1>3. CASE calls < Len(accepted) /\ Q!EnqueueLock(Main)
  BY <1>1, <1>2, <1>3 DEF Q!EnqueueLock, Q!Lock
<1>4. CASE Q!EnqueueOutOfMemory(Main, "item")
  BY <1>1, <1>2, <1>4 DEF Q!EnqueueOutOfMemory
<1>5. CASE Q!Link(Main, "item")
  BY <1>1, <1>2, <1>5 DEF Q!Link, Q!Unlock
<1>6. CASE Q!EnqueuePost(Main)
  BY <1>1, <1>2, <1>6 DEF Q!EnqueuePost
<1> QED
  BY <1>3, <1>4, <1>5, <1>6 DEF Enqueue, Q!LinkFirst, Q!LinkAfterRear, Q!LinkAfterFreedRear

\* What one step of dequeue does, and that it leaves the other threads alone.
LEMMA DequeueEffect ==
  ASSUME Q!TypeOK, place \in [Workers -> Places], NEW w \in Workers, Dequeue(w)
  PROVE  /\ UNCHANGED <<map, locals, conn, unread, got, stopped>>
         /\ \A v \in Workers \ {w} : pc'[v] = pc[v] /\ place'[v] = place[v]
         /\ pc'[Main] = pc[Main] /\ calls' = calls /\ place[w] = "dequeue"
         /\ \/ /\ pc[w] = "idle" /\ items > 0 /\ items' = items - 1
               /\ pc'[w] # "idle" /\ place'[w] = "dequeue"
            \/ pc[w] # "idle" /\ pc'[w] # "idle" /\ items' = items /\ place'[w] = "dequeue"
            \/ pc[w] # "idle" /\ pc'[w] = "idle" /\ items' = items /\ place'[w] = "follow"
<1>1. Main \notin Workers /\ pc \in [{Main} \cup Workers -> Q!Places]
  BY ServerAssumption DEF Q!TypeOK, Q!Threads
<1>2. UNCHANGED <<map, locals, conn, unread, got, stopped>>
  BY Zenon DEF Dequeue
<1>3. CASE place[w] = "dequeue" /\ Q!DequeueWait(w) /\ UNCHANGED place
  BY <1>1, <1>2, <1>3 DEF Q!DequeueWait
<1>4. CASE place[w] = "dequeue" /\ Q!DequeueLock(w) /\ UNCHANGED place
  BY <1>1, <1>2, <1>4 DEF Q!DequeueLock, Q!Lock
<1>5. CASE place[w] = "dequeue" /\ Q!DequeueCrash(w) /\ UNCHANGED place
  BY <1>1, <1>2, <1>5 DEF Q!DequeueCrash
<1>6. CASE Go(w, "dequeue", "follow") /\ Q!DequeueTake(w)
  BY <1>1, <1>2, <1>6 DEF Q!DequeueTake, Q!Unlock, Go
<1> QED
  BY <1>3, <1>4, <1>5, <1>6, Zenon DEF Dequeue

\* A worker that is not in dequeue is past it, and leaves the other workers alone.
LEMMA WorkEffect ==
  ASSUME place \in [Workers -> Places], NEW w \in Workers, Work(w), ~Dequeue(w)
  PROVE  /\ UNCHANGED <<pc, items, calls>>
         /\ place[w] # "dequeue"
         /\ \A v \in Workers \ {w} : place'[v] = place[v]
<1>1. UNCHANGED <<pc, items, calls>>
  BY OtherSteps DEF queue
<1>2. \E from \in Places \ {"dequeue"}, to \in Places : Go(w, from, to)
  <2>1. \E to \in Places : Go(w, "in header", to) \/ ~ReadHeader(w)
    BY DEF ReadHeader, Places
  <2>2. \E to \in Places : Go(w, "reply", to) \/ ~Reply(w)
    BY DEF Reply, Places
  <2> QED
    BY <2>1, <2>2 DEF Work, Places, Follow, ReadCall, ReadBody, Operate, ReplyValue, Close
<1> QED
  BY <1>1, <1>2 DEF Go

\* Alone holds from the start, and every step keeps it.
LEMMA AloneStep ==
  /\ Init => Alone
  /\ Q!TypeOK /\ ServerType /\ Alone /\ [Next]_vars => Alone'
<1>1. ASSUME Init PROVE Alone
  <2>1. /\ accepted = <<>> /\ calls = 0 /\ items = 0 /\ Len(<<>>) = 0
        /\ \A t \in Workers \cup {Main} : pc[t] = "idle"
        /\ \A w \in Workers : place[w] = "dequeue"
    BY <1>1 DEF Init, Q!Init, Q!Threads
  <2> QED
    BY <2>1 DEF Alone, Waiting, AtAccept, AtWork
<1>2. SUFFICES ASSUME Q!TypeOK, ServerType, Alone, [Next]_vars PROVE Alone'
  BY <1>1
<1>3. /\ items \in Nat /\ calls \in Nat /\ Len(accepted) \in Nat /\ calls <= Len(accepted)
      /\ place \in [Workers -> Places] /\ accepted \in Seq(Clients)
  BY <1>2 DEF Q!TypeOK, ServerType, ConnType, WorkerType
<1>4. ASSUME UNCHANGED <<pc, items, calls, accepted, place, rushed>> PROVE Alone'
  BY <1>2, <1>4 DEF Alone, Waiting, AtAccept, AtWork
<1>5. ASSUME NEW c \in Clients, Accept(c) PROVE Alone'
  <2>1. /\ AtAccept /\ accepted' = Append(accepted, c) /\ rushed' = (rushed \/ Busy)
        /\ UNCHANGED <<pc, items, calls, place>>
    BY <1>5 DEF Accept, queue
  <2>2. Len(accepted') = Len(accepted) + 1
    BY <1>3, <2>1
  <2>3. ~rushed' => ~Busy
    BY <2>1, Zenon
  <2>4. ~rushed' => items = 0 /\ \A w \in Workers : ~AtWork(w)'
    BY <1>3, <2>1, <2>3 DEF Busy, AtWork
  <2> QED
    BY <1>2, <1>3, <2>1, <2>2, <2>4 DEF Alone, Waiting, AtAccept
<1>6. CASE Enqueue
  <2>1. \A w \in Workers : AtWork(w)' <=> AtWork(w)
    BY <1>2, <1>6, EnqueueEffect DEF AtWork
  <2> QED
    BY <1>2, <1>3, <1>6, <2>1, EnqueueEffect DEF Alone, Waiting, AtAccept
<1>7. ASSUME NEW w \in Workers, Dequeue(w) PROVE Alone'
  <2>1. UNCHANGED <<accepted, rushed>>
    BY <1>7 DEF Dequeue, WorkerFrame
  <2>2. \A v \in Workers \ {w} : AtWork(v)' <=> AtWork(v)
    BY <1>2, <1>3, <1>7, DequeueEffect DEF AtWork
  <2> QED
    BY <1>2, <1>3, <1>7, <2>1, <2>2, DequeueEffect DEF Alone, Waiting, AtAccept, AtWork
<1>8. ASSUME NEW w \in Workers, Work(w), ~Dequeue(w) PROVE Alone'
  <2>1. UNCHANGED <<accepted, rushed>>
    BY <1>8, WorkKeeps
  <2>2. UNCHANGED <<pc, items, calls>> /\ AtWork(w)
    BY <1>3, <1>8, WorkEffect DEF AtWork
  <2>3. \A v \in Workers \ {w} : place'[v] = place[v]
    BY <1>3, <1>8, WorkEffect
  <2>4. pc[w] = "idle"
    BY <1>2, <1>3, <1>8, WorkEffect DEF Alone
  <2> QED
    BY <1>2, <2>1, <2>2, <2>3, <2>4 DEF Alone, Waiting, AtAccept, AtWork
<1> QED
  <2>1. ASSUME \/ \E c \in Clients, code \in Codes, k \in Keys : Connect(c, code, k)
               \/ \E c \in Clients : HangUp(c)
               \/ Exit \/ UNCHANGED vars
        PROVE  UNCHANGED <<pc, items, calls, accepted, place, rushed>>
    BY <2>1 DEF Connect, HangUp, Exit, vars, queue
  <2> QED
    BY <1>2, <1>4, <1>5, <1>6, <1>7, <1>8, <2>1, Zenon DEF Next

\* A client that main has not accepted was sent nothing, and nothing of its request was
\* read; workers read from accepted clients only.
Fresh ==
  /\ \A c \in Clients \ Connected :
       got[c] = <<>> /\ (request[c] # None => unread[c] = 2)
  /\ \A w \in Workers : sock[w] # NoClient => sock[w] \in Connected

\* Fresh holds from the start, and every step keeps it.
LEMMA FreshStep ==
  /\ Init => Fresh
  /\ Q!TypeOK /\ ServerType /\ Fresh /\ [Next]_vars => Fresh'
<1>1. ASSUME Init PROVE Fresh
  BY <1>1 DEF Init, Fresh
<1>2. SUFFICES ASSUME Q!TypeOK, ServerType, Fresh, [Next]_vars PROVE Fresh'
  BY <1>1
<1>3. /\ accepted \in Seq(Clients)
      /\ request \in [Clients -> [code : Codes \cup {"none"}, key : Keys \cup {Junk}]]
      /\ unread \in [Clients -> 0 .. 2] /\ sock \in [Workers -> Clients \cup {NoClient}]
      /\ got \in [Clients -> Seq(Responses \cup Clients \cup {Junk})]
      /\ \A f \in Open : conn[f] \in Connected
      /\ \A i \in 1 .. Len(accepted) : request[accepted[i]] # None
  BY <1>2 DEF ServerType, ConnType, ClientType, WorkerType
<1>4. ASSUME UNCHANGED accepted PROVE Connected' = Connected
  BY <1>4 DEF Connected
<1>5. ASSUME NEW c \in Clients, NEW code \in Codes, NEW k \in Keys, Connect(c, code, k)
      PROVE  Fresh'
  <2>1. /\ unread' = [unread EXCEPT ![c] = 2]
        /\ request' = [request EXCEPT ![c] = [code |-> code, key |-> k]]
        /\ UNCHANGED <<accepted, got, sock>>
    BY <1>5 DEF Connect, locals
  <2> QED
    BY <1>2, <1>3, <1>4, <2>1 DEF Fresh
<1>6. ASSUME NEW c \in Clients, Accept(c) PROVE Fresh'
  <2>1. accepted' = Append(accepted, c) /\ UNCHANGED <<request, unread, got, sock>>
    BY <1>6 DEF Accept, clients, locals
  <2>2. Connected \subseteq Connected'
    BY <1>3, <2>1 DEF Connected
  <2> QED
    BY <1>2, <2>1, <2>2 DEF Fresh
<1>7. ASSUME UNCHANGED <<accepted, request, unread, got, sock>> PROVE Fresh'
  BY <1>2, <1>4, <1>7 DEF Fresh
<1>8. ASSUME NEW w \in Workers, Work(w) PROVE Fresh'
  <2>1. UNCHANGED <<accepted, request>>
    BY <1>8, WorkKeeps
  <2>2. \A c \in Clients \ Connected : got'[c] = got[c]
    <3>1. ASSUME NEW what, Send(w, what), NEW c \in Clients \ Connected
          PROVE  got'[c] = got[c]
      <4>1. CASE clientFD[w] \in Open
        <5>1. conn[clientFD[w]] # c
          BY <1>3, <3>1, <4>1
        <5> QED
          BY <1>3, <3>1, <4>1, <5>1 DEF Send
      <4> QED
        BY <3>1, <4>1 DEF Send
    <3>2. (\E what : Send(w, what)) \/ UNCHANGED got
      BY <1>8, Zenon DEF Work, Dequeue, Follow, ReadCall, ReadHeader, ReadBody, Operate,
         Reply, ReplyValue, Close
    <3> QED
      BY <3>1, <3>2
  <2>3. \A c \in Clients \ Connected : unread'[c] = unread[c]
    <3>1. ASSUME NEW n, Receives(w, n), NEW c \in Clients \ Connected
          PROVE  unread'[c] = unread[c]
      <4>1. sock[w] # c
        BY <1>2, <3>1 DEF Receives, Fresh
      <4> QED
        BY <1>3, <3>1, <4>1 DEF Receives
    <3>2. (\E n \in 1 .. 2 : Receives(w, n)) \/ UNCHANGED unread
      <4>0. 1 \in 1 .. 2 /\ 2 \in 1 .. 2
        OBVIOUS
      <4>1. CASE ReadHeader(w)
        BY <4>1, <4>0, Zenon DEF ReadHeader, ReadsNothing
      <4>2. CASE ReadBody(w)
        BY <4>2, <4>0, Zenon DEF ReadBody, ReadsNothing
      <4> QED
        BY <1>8, <4>1, <4>2, Zenon DEF Work, Dequeue, Follow, ReadCall, Operate, Reply,
           ReplyValue, Close
    <3> QED
      BY <3>1, <3>2
  <2>4. \A v \in Workers : sock'[v] # NoClient => sock'[v] \in Connected
    <3>1. CASE ReadCall(w)
      <4>1. sock' = [sock EXCEPT ![w] = IF clientFD[w] \in FDs THEN conn[clientFD[w]] ELSE NoClient]
        BY <3>1 DEF ReadCall
      <4> QED
        BY <1>2, <1>3, <4>1 DEF Fresh, Open
    <3>2. CASE ~ReadCall(w)
      <4>1. UNCHANGED sock
        BY <1>8, <3>2, Zenon DEF Work, Dequeue, Follow, ReadHeader, ReadBody, Operate,
           Reply, ReplyValue, Close, locals
      <4> QED
        BY <1>2, <4>1 DEF Fresh
    <3> QED
      BY <3>1, <3>2
  <2> QED
    BY <1>2, <1>4, <2>1, <2>2, <2>3, <2>4 DEF Fresh
<1> QED
  <2>1. ASSUME (\E c \in Clients : HangUp(c)) \/ Enqueue \/ Exit \/ UNCHANGED vars
        PROVE  UNCHANGED <<accepted, request, unread, got, sock>>
    BY <2>1, Zenon DEF HangUp, Enqueue, Exit, vars, clients, locals
  <2> QED
    BY <1>2, <1>5, <1>6, <1>7, <1>8, <2>1, Zenon DEF Next

-----------------------------------------------------------------------------
(* What the connections leave in the map *)

\* The connections up to the n-th that put under k, evict k or clear.
WritersOf(k, n) ==
  {i \in 1 .. n :
     LET r == request[accepted[i]]
     IN \/ r.code = "CLEAR"
        \/ r.code \in {"PUT", "EVICT"} /\ r.key = k}

\* What they leave under k.
Left(k, n) ==
  LET w == accepted[Max(WritersOf(k, n))]
  IN IF WritersOf(k, n) # {} /\ request[w].code = "PUT" THEN w ELSE NoClient

\* A nonempty set of numbers up to m has a greatest member, and only one.
LEMMA Greatest ==
  ASSUME NEW m \in Nat, NEW S \in SUBSET (1 .. m), S # {}
  PROVE  /\ Max(S) \in S /\ \A i \in S : i <= Max(S)
         /\ \A i \in S : (\A j \in S : j <= i) => Max(S) = i
<1> DEFINE T == {n \in Nat : m - n \in S}
<1>1. T \in SUBSET Nat /\ T # {}
  <2>1. PICK i \in S : TRUE
    OBVIOUS
  <2>2. m - i \in Nat /\ m - (m - i) = i
    BY <2>1
  <2>3. m - i \in T
    BY <2>1, <2>2
  <2> QED
    BY <2>3
<1>2. PICK t \in T : \A u \in T : t <= u
  <2> HIDE DEF T
  <2> QED
    BY <1>1, Least
<1>3. PICK i \in S : i = m - t
  BY <1>2
<1>4. ASSUME NEW j \in S PROVE j <= i
  <2>1. m - j \in Nat /\ m - (m - j) = j
    OBVIOUS
  <2>2. t <= m - j
    BY <1>2, <2>1
  <2> QED
    BY <1>3, <2>2
<1>5. Max(S) \in S /\ \A j \in S : Max(S) >= j
  <2>1. \E x \in S : \A y \in S : x >= y
    BY <1>4
  <2> QED
    BY <2>1, Zenon DEF Max
<1>6. ASSUME NEW k \in S, \A j \in S : j <= k PROVE Max(S) = k
  <2>1. Max(S) >= k /\ Max(S) <= k
    BY <1>5, <1>6
  <2>2. Max(S) \in 1 .. m /\ k \in 1 .. m
    BY <1>5
  <2> QED
    BY <2>1, <2>2
<1> QED
  BY <1>5, <1>6

\* The n-th connection decides alone what is left under the keys it writes, and leaves the
\* others as they were.
LEMMA LeftStep ==
  ASSUME NEW n \in Nat \ {0}, NEW k
  PROVE  LET r == request[accepted[n]]
             writes == r.code = "CLEAR" \/ (r.code \in {"PUT", "EVICT"} /\ r.key = k)
         IN /\ writes => Left(k, n) = IF r.code = "PUT" THEN accepted[n] ELSE NoClient
            /\ ~writes => Left(k, n) = Left(k, n - 1)
<1> DEFINE r == request[accepted[n]]
           writes == r.code = "CLEAR" \/ (r.code \in {"PUT", "EVICT"} /\ r.key = k)
<1>1. CASE writes
  <2>1. n \in WritersOf(k, n) /\ WritersOf(k, n) \in SUBSET (1 .. n)
    BY <1>1 DEF WritersOf
  <2>2. Max(WritersOf(k, n)) = n
    <3>1. n \in Nat /\ WritersOf(k, n) # {} /\ \A j \in WritersOf(k, n) : j <= n
      BY <2>1
    <3> QED
      BY <2>1, <3>1, Greatest, Zenon
  <2> QED
    BY <1>1, <2>1, <2>2 DEF Left
<1>2. CASE ~writes
  <2>1. WritersOf(k, n) = WritersOf(k, n - 1)
    BY <1>2 DEF WritersOf
  <2> QED
    BY <1>2, <2>1 DEF Left
<1> QED
  BY <1>1, <1>2

\* What the n-th connection should get is what those before it left.
LEMMA LatestIsLeft == \A n : Latest(n) = Left(request[accepted[n]].key, n - 1)
BY Zenon DEF Latest, Left, Writers, WritersOf

\* The accepted connections and what they asked for never change.
History ==
  /\ Len(accepted) <= Len(accepted')
  /\ \A i \in 1 .. Len(accepted) :
       accepted'[i] = accepted[i] /\ request'[accepted[i]] = request[accepted[i]]

\* So what they leave and should get never changes either.
LEMMA HistoryKeeps ==
  ASSUME Len(accepted) \in Nat, History
  PROVE  /\ \A n \in 0 .. Len(accepted) : \A k : Left(k, n)' = Left(k, n)
         /\ \A n \in 1 .. Len(accepted) :
              RightAnswer(n)' = RightAnswer(n) /\ Latest(n)' = Latest(n)
<1>1. ASSUME NEW n \in 0 .. Len(accepted), NEW k PROVE Left(k, n)' = Left(k, n)
  <2>1. WritersOf(k, n)' = WritersOf(k, n)
    BY DEF WritersOf, History
  <2>2. CASE WritersOf(k, n) # {}
    <3>1. Max(WritersOf(k, n)) \in 1 .. n
      <4>1. WritersOf(k, n) \in SUBSET (1 .. n) /\ n \in Nat
        BY DEF WritersOf
      <4>2. Max(WritersOf(k, n)) \in WritersOf(k, n)
        BY <2>2, <4>1, Greatest, Zenon
      <4> QED
        BY <4>1, <4>2
    <3>2. /\ accepted'[Max(WritersOf(k, n))] = accepted[Max(WritersOf(k, n))]
          /\ request'[accepted[Max(WritersOf(k, n))]] = request[accepted[Max(WritersOf(k, n))]]
      BY <3>1 DEF History
    <3> QED
      BY <2>1, <3>2 DEF Left
  <2> QED
    BY <2>1, <2>2 DEF Left
<1>2. ASSUME NEW n \in 1 .. Len(accepted) 
      PROVE  RightAnswer(n)' = RightAnswer(n) /\ Latest(n)' = Latest(n)
  <2>1. request'[accepted'[n]] = request[accepted[n]]
    BY DEF History
  <2>2. Latest(n)' = Latest(n)
    <3>1. (Latest(n) = Left(request[accepted[n]].key, n - 1))'
      BY Zenon DEF Latest, Left, Writers, WritersOf
    <3> QED
      BY <1>1, <2>1, <3>1, LatestIsLeft
  <2> QED
    BY <2>1, <2>2 DEF RightAnswer
<1> QED
  BY <1>1, <1>2

\* The map holds what the first n connections left, none of it freed.
MapAfter(n) ==
  /\ \A k \in Keys : /\ store[k] = Left(k, n)
                     /\ store[k] \notin freed
                     /\ store[k] # NoClient => \E i \in 1 .. n : store[k] = accepted[i]
  /\ \A v \in freed : \E i \in 1 .. n : v = accepted[i]

\* The n-th connection is done.
DoneWith(n) ==
  /\ got[accepted[n]] = RightAnswer(n)
  /\ request[accepted[n]].code # "OTHER" => \A f \in FDs : conn[f] # accepted[n]

Unread == {"dequeue", "follow", "header", "in header"}

\* What worker w has read of the n-th connection.
Reading(w, n) ==
  LET c == accepted[n]
      r == request[accepted[n]]
  IN /\ connectionFD \in FDs /\ conn[connectionFD] = c
     /\ place[w] \notin {"dequeue", "follow"} => clientFD[w] = connectionFD
     /\ place[w] \in {"in header", "in body"} => sock[w] = c
     /\ place[w] \in Unread => unread[c] = 2
     /\ place[w] \in {"body", "in body"} => unread[c] = 1
     /\ place[w] \notin Unread => header[w] = r.code /\ r.code # "OTHER"
     /\ place[w] \in {"body", "in body"} => r.code \in {"PUT", "GET", "EVICT"}
     /\ place[w] = "operate" /\ r.code \in {"PUT", "GET", "EVICT"} =>
          key[w] = r.key /\ value[w] = c

\* What it has found in the map and sent.
Answering(w, n) ==
  LET c == accepted[n]
      r == request[accepted[n]]
  IN /\ place[w] # "close" => got[c] = IF place[w] = "value" THEN <<"OK">> ELSE <<>>
     /\ place[w] \in {"reply", "value"} /\ r.code = "GET" =>
          answer[w] = Latest(n) /\ answer[w] \notin freed
     /\ place[w] = "value" => r.code = "GET" /\ answer[w] # NoClient
     /\ place[w] = "close" => got[c] = RightAnswer(n)
     /\ place[w] \in {"reply", "value", "close"} => MapAfter(n)
     /\ place[w] \notin {"reply", "value", "close"} => MapAfter(n - 1)

\* Where worker w is with the n-th connection.
Progress(w, n) == Reading(w, n) /\ Answering(w, n)

\* The n-th connection is with main or in the queue.
Handed(n) ==
  /\ connectionFD \in FDs /\ conn[connectionFD] = accepted[n]
  /\ got[accepted[n]] = <<>> /\ unread[accepted[n]] = 2
  /\ MapAfter(n - 1)

\* The connections before the n-th are done, and the n-th is at one of its stages.
Turn(n) ==
  /\ \A i \in 1 .. n - 1 : DoneWith(i)
  /\ Waiting => Handed(n)
  /\ \A w \in Workers : AtWork(w) => Progress(w, n)
  /\ ~Waiting /\ (\A w \in Workers : ~AtWork(w)) => (n > 0 => DoneWith(n)) /\ MapAfter(n)

\* As long as no connection is accepted before the last is done.
TurnInv == ~rushed => \A n \in {Len(accepted)} : Turn(n)

\* What the map holds stays what the connections left, as long as it is not changed.
LEMMA MapKeeps ==
  ASSUME Len(accepted) \in Nat, History, NEW n \in 0 .. Len(accepted), MapAfter(n),
         UNCHANGED <<store, freed>>
  PROVE  MapAfter(n)'
<1>1. \A k \in Keys : Left(k, n)' = Left(k, n)
  BY HistoryKeeps
<1>2. \A i \in 1 .. n : accepted'[i] = accepted[i]
  BY DEF History
<1> QED
  BY <1>1, <1>2 DEF MapAfter

\* What is done stays done, as long as the client is sent no more and not connected again.
LEMMA DoneKeeps ==
  ASSUME Len(accepted) \in Nat, History, NEW n \in 1 .. Len(accepted), DoneWith(n),
         got'[accepted[n]] = got[accepted[n]],
         \A f \in FDs : conn'[f] = conn[f] \/ conn'[f] # accepted[n]
  PROVE  DoneWith(n)'
<1>1. RightAnswer(n)' = RightAnswer(n)
  BY HistoryKeeps
<1>2. accepted'[n] = accepted[n] /\ request'[accepted[n]] = request[accepted[n]]
  BY DEF History
<1> QED
  BY <1>1, <1>2 DEF DoneWith, FDs

\* The connection accepted last has a client of its own, which asked for something.
LEMMA Guest ==
  ASSUME ServerType, NEW n \in Nat \ {0}, n = Len(accepted)
  PROVE  /\ n \in 1 .. Len(accepted) /\ n - 1 \in 0 .. Len(accepted) /\ n \in 0 .. Len(accepted)
         /\ accepted[n] \in Clients /\ accepted[n] # NoClient
         /\ request[accepted[n]] # None /\ request[accepted[n]].key \in Keys
         /\ \A i \in 1 .. n - 1 : i \in 1 .. Len(accepted) /\ accepted[i] # accepted[n]
<1>1. accepted \in Seq(Clients) /\ n \in 1 .. Len(accepted) /\ n - 1 \in 0 .. Len(accepted)
  BY DEF ServerType, ConnType
<1>2. accepted[n] \in Clients /\ accepted[n] # NoClient
  BY <1>1, ServerAssumption
<1>3. request[accepted[n]] # None /\ request[accepted[n]].key \in Keys
  BY <1>1, <1>2 DEF ServerType, ConnType
<1>4. ASSUME NEW i \in 1 .. n - 1 PROVE i \in 1 .. Len(accepted) /\ accepted[i] # accepted[n]
  BY <1>1 DEF ServerType, ConnType
<1> QED
  BY <1>1, <1>2, <1>3, <1>4

\* A step that changes nothing TurnInv speaks of keeps it.
LEMMA TurnFrame ==
  ASSUME ServerType, Alone, TurnInv, History,
         UNCHANGED <<accepted, rushed, conn, connectionFD, got, store, freed, answer, place,
                     clientFD, header, key, value, sock>>,
         \A i \in 1 .. Len(accepted) : unread'[accepted[i]] = unread[accepted[i]],
         Waiting' <=> Waiting, \A w \in Workers : AtWork(w)' <=> AtWork(w)
  PROVE  TurnInv'
<1> SUFFICES ASSUME ~rushed, NEW n \in Nat, n = Len(accepted) PROVE Turn(n)'
  BY DEF TurnInv
<1>1. Turn(n) /\ Len(accepted) \in Nat
  BY DEF TurnInv
<1>2. /\ \A i \in 1 .. Len(accepted) : DoneWith(i) => DoneWith(i)'
      /\ \A i \in 0 .. Len(accepted) : MapAfter(i) => MapAfter(i)'
  BY <1>1, DoneKeeps, MapKeeps
<1>3. CASE n = 0
  <2>1. ~Waiting /\ \A w \in Workers : ~AtWork(w)
    BY <1>3 DEF Alone, ServerType, ConnType
  <2> QED
    BY <1>1, <1>2, <1>3, <2>1 DEF Turn
<1>4. CASE n # 0
  <2>1. n \in 1 .. Len(accepted) /\ n - 1 \in 0 .. Len(accepted) /\ n \in 0 .. Len(accepted)
    BY <1>4
  <2>2. \A i \in 1 .. n - 1 : DoneWith(i)'
    BY <1>1, <1>2, <2>1 DEF Turn
  <2>3. request'[accepted'[n]] = request[accepted[n]] /\ accepted'[n] = accepted[n]
        /\ unread'[accepted[n]] = unread[accepted[n]]
    BY <2>1 DEF History
  <2>4. Waiting' => Handed(n)'
    BY <1>1, <1>2, <2>1, <2>3 DEF Turn, Handed, FDs
  <2>5. ASSUME NEW w \in Workers, AtWork(w)' PROVE Progress(w, n)'
    <3>1. Progress(w, n)
      BY <1>1, <2>5 DEF Turn
    <3>2. RightAnswer(n)' = RightAnswer(n) /\ Latest(n)' = Latest(n)
      BY <1>1, <2>1, HistoryKeeps
    <3>3. MapAfter(n)' \/ ~MapAfter(n)
      BY <1>2, <2>1
    <3>4. MapAfter(n - 1)' \/ ~MapAfter(n - 1)
      BY <1>2, <2>1
    <3>5. UNCHANGED <<conn, connectionFD, got, freed, answer, place, clientFD, header, key,
                      value, sock>>
      OBVIOUS
    <3>6. Reading(w, n)'
      BY ONLY <2>3, <3>1, <3>5 DEF Progress, Reading, Unread, FDs
    <3>7. Answering(w, n)'
      BY ONLY <2>3, <3>1, <3>2, <3>3, <3>4, <3>5 DEF Progress, Answering
    <3> QED
      BY <3>6, <3>7 DEF Progress
  <2>6. ~Waiting' /\ (\A w \in Workers : ~AtWork(w)') => (n > 0 => DoneWith(n)') /\ MapAfter(n)'
    BY <1>1, <1>2, <2>1 DEF Turn
  <2> QED
    BY <2>2, <2>4, <2>5, <2>6 DEF Turn
<1> QED
  BY <1>3, <1>4

\* accept takes the next connection when the last is done, and hands it to enqueue.
LEMMA AcceptTurn ==
  ASSUME ServerType, Alone, Fresh, TurnInv, NEW c \in Clients, Accept(c)
  PROVE  TurnInv'
<1> SUFFICES ASSUME ~rushed', NEW n \in Nat, n = Len(accepted') PROVE Turn(n)'
  <2>1. Len(accepted') \in Nat
    BY DEF Accept, ServerType, ConnType
  <2> QED
    BY <2>1 DEF TurnInv
<1>1. /\ AtAccept /\ c \notin Connected /\ request[c] # None
      /\ connectionFD' = Min(FDs \ Open) /\ conn' = [conn EXCEPT ![connectionFD'] = c]
      /\ accepted' = Append(accepted, c)
      /\ UNCHANGED <<items, pc, calls, store, freed, request, unread, got, place>>
  BY DEF Accept, queue, map, clients
<1>2. ~rushed /\ ~Busy
  BY Zenon DEF Accept
<1>3. /\ accepted \in Seq(Clients) /\ Len(accepted) \in Nat /\ n = Len(accepted) + 1
      /\ accepted'[n] = c /\ \A i \in 1 .. n - 1 : accepted'[i] = accepted[i]
  BY <1>1 DEF ServerType, ConnType
<1>4. History
  BY <1>1, <1>3 DEF History
<1>5. ~Waiting /\ \A w \in Workers : ~AtWork(w)
  BY <1>1, <1>2 DEF Waiting, Busy, AtWork
<1>6. Waiting' /\ \A w \in Workers : ~AtWork(w)'
  <2>1. calls' # Len(accepted')
    BY <1>1, <1>3 DEF AtAccept
  <2> QED
    BY <1>1, <1>5, <2>1 DEF Waiting, AtAccept, AtWork
<1>7. Turn(n - 1)
  BY <1>2, <1>3 DEF TurnInv
<1>8. MapAfter(n - 1)'
  <2>1. MapAfter(n - 1) /\ n - 1 \in 0 .. Len(accepted)
    BY <1>3, <1>5, <1>7 DEF Turn
  <2> QED
    BY <1>1, <1>3, <1>4, <2>1, MapKeeps
<1>9. /\ connectionFD' \in FDs /\ conn' \in [FDs -> Clients \cup {NoClient}]
      /\ conn'[connectionFD'] = c
      /\ \A f \in FDs : conn'[f] = conn[f] \/ conn'[f] = c
  <2>1. connectionFD' \in FDs
    BY <1>1, FreeDescriptor DEF ServerType
  <2> QED
    BY <1>1, <2>1 DEF ServerType, ConnType
<1>10. ASSUME NEW i \in 1 .. n - 1 PROVE DoneWith(i)'
  <2>1. DoneWith(i) /\ i \in 1 .. Len(accepted)
    <3>1. CASE i = n - 1
      BY <1>3, <1>5, <1>7, <3>1 DEF Turn
    <3>2. CASE i # n - 1
      BY <1>3, <1>7, <3>2 DEF Turn
    <3> QED
      BY <3>1, <3>2
  <2>2. accepted[i] # c
    BY <1>1, <2>1 DEF Connected
  <2> QED
    BY <1>1, <1>3, <1>4, <1>9, <2>1, <2>2, DoneKeeps
<1>11. Handed(n)'
  BY <1>1, <1>3, <1>8, <1>9 DEF Handed, Fresh, FDs
<1> QED
  BY <1>6, <1>10, <1>11 DEF Turn

\* The other clients and main leave the connection where it is.
LEMMA OthersTurn ==
  ASSUME Q!TypeOK, ServerType, Alone, Alone', TurnInv,
         \/ \E c \in Clients, code \in Codes, k \in Keys : Connect(c, code, k)
         \/ \E c \in Clients : HangUp(c)
         \/ Enqueue \/ Exit \/ UNCHANGED vars
  PROVE  TurnInv'
<1>0. Len(accepted) \in Nat /\ accepted \in Seq(Clients)
      /\ \A i \in 1 .. Len(accepted) : request[accepted[i]] # None
  BY DEF ServerType, ConnType
<1>1. ASSUME NEW c \in Clients, NEW code \in Codes, NEW k \in Keys, Connect(c, code, k)
      PROVE  TurnInv'
  <2>1. /\ request[c] = None
        /\ request' = [request EXCEPT ![c] = [code |-> code, key |-> k]]
        /\ unread' = [unread EXCEPT ![c] = 2]
        /\ UNCHANGED <<queue, map, gone, got, locals, connectionFD, accepted, conn, place,
                       rushed, stopped>>
    BY <1>1 DEF Connect
  <2>2. History /\ \A i \in 1 .. Len(accepted) : unread'[accepted[i]] = unread[accepted[i]]
    BY <1>0, <2>1 DEF History, ServerType, ClientType
  <2>3. /\ UNCHANGED <<items, pc, calls, accepted, rushed, conn, connectionFD, got, store,
                       freed, answer, place>>
        /\ UNCHANGED <<clientFD, header, key, value, sock>>
    BY <2>1 DEF queue, map, locals
  <2> QED
    BY <2>2, <2>3, TurnFrame DEF Waiting, AtAccept, AtWork
<1>2. CASE (\E c \in Clients : HangUp(c)) \/ Exit \/ UNCHANGED vars
  <2>1. /\ UNCHANGED <<items, pc, calls, accepted, rushed, conn, connectionFD, got, store,
                       freed, answer, place>>
        /\ UNCHANGED <<clientFD, header, key, value, sock, request, unread>>
    BY <1>2 DEF HangUp, Exit, vars, queue, map, locals, clients
  <2> QED
    BY <1>0, <2>1, TurnFrame DEF Waiting, AtAccept, AtWork, History
<1>3. CASE Enqueue
  <2>1. /\ UNCHANGED <<accepted, rushed, conn, connectionFD, got, store, freed, answer, place>>
        /\ UNCHANGED <<clientFD, header, key, value, sock, request, unread>>
    BY <1>3, EnqueueEffect DEF map, locals, clients
  <2>2. Waiting /\ Waiting'
    BY <1>3, EnqueueEffect DEF Waiting, AtAccept, Q!TypeOK, ServerType, ConnType
  <2>3. \A w \in Workers : AtWork(w)' <=> AtWork(w)
    BY <1>3, EnqueueEffect DEF AtWork
  <2> QED
    BY <1>0, <2>1, <2>2, <2>3, TurnFrame DEF History
<1> QED
  BY <1>1, <1>2, <1>3

\* What a step of the worker at the n-th connection has to keep.
LEMMA WorkTurn ==
  ASSUME ServerType, Alone, TurnInv, ~rushed, NEW n \in Nat, n = Len(accepted),
         NEW w \in Workers, AtWork(w), UNCHANGED <<accepted, request, rushed>>, ~Waiting',
         \A v \in Workers \ {w} : ~AtWork(v)',
         \A c \in Clients : c # accepted[n] => got'[c] = got[c],
         \A f \in FDs : conn'[f] \in {conn[f], NoClient},
         AtWork(w)' => Progress(w, n)',
         ~AtWork(w)' => DoneWith(n)' /\ MapAfter(n)'
  PROVE  TurnInv'
<1>1. n \in Nat \ {0} /\ Len(accepted) \in Nat /\ accepted \in Seq(Clients)
  BY DEF Alone, ServerType, ConnType
<1>2. Turn(n)
  BY DEF TurnInv
<1>3. History
  BY <1>1 DEF History
<1>4. ASSUME NEW i \in 1 .. n - 1 PROVE DoneWith(i)'
  <2>1. i \in 1 .. Len(accepted) /\ accepted[i] # accepted[n]
    BY <1>1, Guest
  <2>2. accepted[i] \in Clients /\ accepted[i] # NoClient
    BY <1>1, <2>1, ServerAssumption
  <2> QED
    BY <1>1, <1>2, <1>3, <2>1, <2>2, DoneKeeps DEF Turn
<1>5. Turn(n)'
  BY <1>4 DEF Turn
<1> QED
  BY <1>5 DEF TurnInv

\* What is known of the worker at the n-th connection.
LEMMA AtTurn ==
  ASSUME Q!TypeOK, ServerType, Alone, TurnInv, ~rushed, NEW n \in Nat, n = Len(accepted),
         NEW w \in Workers, AtWork(w)
  PROVE  /\ Progress(w, n) /\ n \in Nat \ {0} /\ Len(accepted) \in Nat
         /\ ~Waiting /\ \A v \in Workers \ {w} : ~AtWork(v)
BY DEF Alone, TurnInv, Turn, ServerType, ConnType

\* The worker takes the connection from the queue.
LEMMA DequeueTurn ==
  ASSUME Q!TypeOK, ServerType, Alone, TurnInv, NEW w \in Workers, Dequeue(w)
  PROVE  TurnInv'
<1> SUFFICES ASSUME ~rushed, NEW n \in Nat, n = Len(accepted) PROVE TurnInv'
  BY DEF Dequeue, WorkerFrame, TurnInv, ServerType, ConnType
<1>1. UNCHANGED <<connectionFD, accepted, request, rushed, calls>>
  BY WorkKeeps DEF Work
<1>2. /\ UNCHANGED <<conn, unread, got, store, freed, answer, clientFD, header, key, value, sock>>
      /\ \A v \in Workers \ {w} : AtWork(v)' <=> AtWork(v)
      /\ pc'[Main] = pc[Main] /\ place[w] = "dequeue"
      /\ \/ /\ pc[w] = "idle" /\ items > 0 /\ items' = items - 1
            /\ pc'[w] # "idle" /\ place'[w] = "dequeue"
         \/ pc[w] # "idle" /\ items' = items /\ place'[w] = "dequeue" /\ pc'[w] # "idle"
         \/ pc[w] # "idle" /\ items' = items /\ place'[w] = "follow"
  BY DequeueEffect DEF AtWork, map, locals, ServerType, WorkerType
<1>3. Len(accepted) \in Nat /\ items \in Nat /\ History /\ AtWork(w)'
  BY <1>1, <1>2 DEF ServerType, ConnType, Q!TypeOK, History, AtWork
<1>4. ASSUME n > 0, MapAfter(n - 1) PROVE MapAfter(n - 1)'
  BY <1>2, <1>3, <1>4, MapKeeps
<1>5. CASE pc[w] = "idle"
  <2>1. Waiting /\ items = 1 /\ AtAccept /\ n > 0
        /\ \A v \in Workers : ~AtWork(v)
    BY <1>2, <1>3, <1>5 DEF Alone, Waiting
  <2>2. ~Waiting'
    BY <1>1, <1>2, <1>5, <2>1 DEF Waiting, AtAccept
  <2>3. Turn(n)
    BY <1>3 DEF TurnInv
  <2>4. Progress(w, n)'
    BY <1>1, <1>2, <1>3, <1>4, <1>5, <2>1, <2>3 DEF Turn, Handed, Progress,
       Reading, Answering, Unread, FDs
  <2>5. \A i \in 1 .. n - 1 : DoneWith(i)'
    BY <1>2, <1>3, <2>1, <2>3, DoneKeeps DEF Turn
  <2>6. Turn(n)'
    BY <1>2, <1>3, <2>1, <2>2, <2>4, <2>5 DEF Turn
  <2> QED
    BY <1>1, <2>6 DEF TurnInv
<1>6. CASE pc[w] # "idle"
  <2>1. AtWork(w) /\ items' = items
    BY <1>2, <1>6 DEF AtWork
  <2>2. /\ Progress(w, n) /\ n \in Nat \ {0} /\ ~Waiting
        /\ \A v \in Workers \ {w} : ~AtWork(v)
    BY <1>3, <2>1, AtTurn
  <2>3. ~Waiting'
    BY <1>1, <1>2, <2>1, <2>2 DEF Waiting, AtAccept
  <2>4. Handed(n)
    BY <1>2, <2>2 DEF Progress, Reading, Answering, Unread, Handed
  <2>5. place'[w] \in {"dequeue", "follow"} /\ MapAfter(n - 1)'
    BY <1>2, <1>4, <1>6, <2>2, <2>4 DEF Handed
  <2>6. UNCHANGED <<connectionFD, accepted, request, conn, got, unread>>
    BY <1>1, <1>2
  <2>7. Progress(w, n)'
    BY <2>4, <2>5, <2>6 DEF Handed, Progress, Reading, Answering, Unread, FDs
  <2> QED
    BY <1>1, <1>2, <1>3, <2>1, <2>2, <2>3, <2>7, WorkTurn
<1> QED
  BY <1>5, <1>6

\* The history of the connections stays, and what the map holds unless a step changes it.
LEMMA WorkHistory ==
  ASSUME ServerType, NEW n \in Nat \ {0}, n = Len(accepted), UNCHANGED <<accepted, request>>
  PROVE  /\ History /\ Len(accepted) \in Nat
         /\ RightAnswer(n)' = RightAnswer(n) /\ Latest(n)' = Latest(n)
         /\ \A k : Left(k, n)' = Left(k, n)
         /\ UNCHANGED <<store, freed>> =>
              (MapAfter(n) => MapAfter(n)') /\ (MapAfter(n - 1) => MapAfter(n - 1)')
<1>1. Len(accepted) \in Nat
  BY DEF ServerType, ConnType
<1>2. History
  BY <1>1 DEF History
<1>3. n \in 1 .. Len(accepted) /\ n - 1 \in 0 .. Len(accepted) /\ n \in 0 .. Len(accepted)
  BY <1>1
<1>4. ASSUME UNCHANGED <<store, freed>>
      PROVE  (MapAfter(n) => MapAfter(n)') /\ (MapAfter(n - 1) => MapAfter(n - 1)')
  BY <1>1, <1>2, <1>3, <1>4, MapKeeps
<1> QED
  BY <1>1, <1>2, <1>3, <1>4, HistoryKeeps

\* The steps of a worker past dequeue: Progress goes on, or the connection is done.
LEMMA FollowTurn ==
  ASSUME ServerType, NEW n \in Nat \ {0}, n = Len(accepted), NEW w \in Workers,
         Progress(w, n), Follow(w)
  PROVE  Progress(w, n)'
<1>1. /\ place[w] = "follow" /\ place' = [place EXCEPT ![w] = "header"]
      /\ clientFD' = [clientFD EXCEPT ![w] = connectionFD]
      /\ UNCHANGED <<connectionFD, accepted, request, conn, unread, got, store, freed>>
  BY DEF Follow, Go, WorkerFrame, map
<1>2. place'[w] = "header" /\ clientFD'[w] = connectionFD
  BY <1>1 DEF ServerType, WorkerType
<1>3. MapAfter(n - 1)'
  BY <1>1, WorkHistory DEF Progress, Reading, Answering
<1>4. Handed(n)
  BY <1>1 DEF Progress, Reading, Answering, Unread, Handed
<1> QED
  BY <1>1, <1>2, <1>3, <1>4 DEF Handed, Progress, Reading, Answering, Unread, FDs

\* A read waits at the n-th client's connection.
LEMMA ReadCallTurn ==
  ASSUME ServerType, NEW n \in Nat \ {0}, n = Len(accepted), NEW w \in Workers,
         Progress(w, n), ReadCall(w)
  PROVE  Progress(w, n)'
<1>1. /\ sock' = [sock EXCEPT ![w] = IF clientFD[w] \in FDs THEN conn[clientFD[w]]
                                                          ELSE NoClient]
      /\ Go(w, "header", "in header") \/ Go(w, "body", "in body")
      /\ UNCHANGED <<connectionFD, accepted, request, conn, unread, got, store, freed,
                     clientFD, header, key, value>>
  BY DEF ReadCall, WorkerFrame, map
<1>2. place[w] \in {"header", "body"}
  BY <1>1 DEF Go
<1>3. sock'[w] = accepted[n]
  BY <1>1, <1>2 DEF ServerType, WorkerType, Progress, Reading, Answering
<1>4. MapAfter(n - 1)'
  BY <1>1, <1>2, WorkHistory DEF Progress, Reading, Answering
<1>5. CASE place[w] = "header"
  <2>1. place'[w] = "in header"
    BY <1>1, <1>5 DEF Go, ServerType, WorkerType
  <2>2. Handed(n) /\ clientFD[w] = connectionFD
    BY <1>5 DEF Progress, Reading, Answering, Unread, Handed
  <2> QED
    BY <1>1, <1>3, <1>4, <2>1, <2>2 DEF Handed, Progress, Reading, Answering, Unread, FDs
<1>6. CASE place[w] = "body"
  <2>1. place'[w] = "in body"
    BY <1>1, <1>6 DEF Go, ServerType, WorkerType
  <2> QED
    BY <1>1, <1>3, <1>4, <1>6, <2>1 DEF Progress, Reading, Answering, Unread, FDs
<1> QED
  BY <1>2, <1>5, <1>6

\* A header with an unsupported code ends the connection unanswered.
LEMMA ReadHeaderTurn ==
  ASSUME ServerType, NEW n \in Nat \ {0}, n = Len(accepted), NEW w \in Workers,
         Progress(w, n), ReadHeader(w)
  PROVE  IF place'[w] = "dequeue" THEN DoneWith(n)' /\ MapAfter(n)' ELSE Progress(w, n)'
<1> DEFINE code == request[accepted[n]].code
<1>0. accepted[n] \in Clients /\ accepted[n] # NoClient
  BY Guest
<1>1. /\ place[w] = "in header"
      /\ UNCHANGED <<connectionFD, accepted, request, conn, got, store, freed, clientFD,
                     key, value, sock>>
  BY DEF ReadHeader, WorkerFrame, Go, map
<1>2. sock[w] = accepted[n] /\ unread[accepted[n]] = 2 /\ clientFD[w] = connectionFD
      /\ got[accepted[n]] = <<>> /\ connectionFD \in FDs /\ conn[connectionFD] = accepted[n]
      /\ MapAfter(n - 1)
  BY <1>1 DEF Progress, Reading, Answering, Unread
<1>3. /\ header' = [header EXCEPT ![w] = code]
      /\ unread' = [unread EXCEPT ![accepted[n]] = 1]
      /\ Go(w, "in header", CASE code \in {"PUT", "GET", "EVICT"} -> "body"
                              [] code = "OTHER" -> "dequeue"
                              [] OTHER -> "operate")
  <2>1. ~Receives(w, 1) /\ ~ReadsNothing(w)
    BY <1>0, <1>2 DEF Receives, ReadsNothing
  <2>2. PICK d \in AllCodes :
          /\ Receives(w, 2) /\ d = request[sock[w]].code
          /\ header' = [header EXCEPT ![w] = d]
          /\ Go(w, "in header", CASE d \in {"PUT", "GET", "EVICT"} -> "body"
                                  [] d = "OTHER" -> "dequeue"
                                  [] OTHER -> "operate")
    BY <2>1, Zenon DEF ReadHeader
  <2>3. d = code
    BY <1>2, <2>2
  <2>4. unread' = [unread EXCEPT ![accepted[n]] = 1]
    <3>1. unread' = [unread EXCEPT ![sock[w]] = 2 - 1]
      BY <2>2, Zenon DEF Receives
    <3> QED
      BY <1>2, <3>1
  <2> QED
    BY <2>2, <2>3, <2>4
<1>4. /\ place'[w] = CASE code \in {"PUT", "GET", "EVICT"} -> "body"
                       [] code = "OTHER" -> "dequeue"
                       [] OTHER -> "operate"
      /\ header'[w] = code /\ unread'[accepted[n]] = 1
  BY <1>0, <1>3 DEF Go, ServerType, WorkerType, ClientType
<1>5. RightAnswer(n)' = RightAnswer(n)
  BY <1>1, WorkHistory
<1>6. MapAfter(n - 1)' /\ (MapAfter(n) => MapAfter(n)')
  BY <1>1, <1>2, WorkHistory
<1>7. CASE code = "OTHER"
  <2>1. \A k : Left(k, n) = Left(k, n - 1)
    BY <1>7, LeftStep
  <2>2. MapAfter(n)
    BY <1>2, <2>1 DEF MapAfter
  <2>3. MapAfter(n)'
    BY <1>6, <2>2
  <2>4. RightAnswer(n) = <<>>
    BY <1>7 DEF RightAnswer
  <2>5. RightAnswer(n)' = <<>>
    BY <1>5, <2>4
  <2>6. DoneWith(n)'
    BY <1>1, <1>2, <1>7, <2>5 DEF DoneWith
  <2>7. place'[w] = "dequeue"
    BY <1>4, <1>7
  <2> QED
    BY <2>3, <2>6, <2>7
<1>8. CASE code # "OTHER"
  <2>1. /\ place'[w] \in {"body", "operate"}
        /\ place'[w] = "body" <=> code \in {"PUT", "GET", "EVICT"}
    BY <1>4, <1>8
  <2>2. Progress(w, n)'
    BY <1>1, <1>2, <1>4, <1>6, <1>8, <2>1 DEF Progress, Reading, Answering, Unread, FDs
  <2> QED
    BY <2>1, <2>2
<1> QED
  BY <1>7, <1>8

\* The body that arrives is the n-th client's.
LEMMA ReadBodyTurn ==
  ASSUME ServerType, NEW n \in Nat \ {0}, n = Len(accepted), NEW w \in Workers,
         Progress(w, n), ReadBody(w)
  PROVE  Progress(w, n)'
<1>0. accepted[n] \in Clients /\ accepted[n] # NoClient
  BY Guest
<1>1. /\ place[w] = "in body" /\ place' = [place EXCEPT ![w] = "operate"]
      /\ UNCHANGED <<connectionFD, accepted, request, conn, got, store, freed, clientFD,
                     header, sock>>
  BY DEF ReadBody, WorkerFrame, Go, map
<1>2. sock[w] = accepted[n] /\ unread[accepted[n]] = 1
  BY <1>1 DEF Progress, Reading, Answering
<1>3. ~Receives(w, 2) /\ ~ReadsNothing(w)
  BY <1>0, <1>2 DEF Receives, ReadsNothing
<1>4. /\ key' = [key EXCEPT ![w] = request[accepted[n]].key]
      /\ value' = [value EXCEPT ![w] = accepted[n]]
  BY <1>2, <1>3 DEF ReadBody
<1>5. place'[w] = "operate" /\ key'[w] = request[accepted[n]].key /\ value'[w] = accepted[n]
  BY <1>1, <1>4 DEF ServerType, WorkerType
<1>6. MapAfter(n - 1)'
  BY <1>1, WorkHistory DEF Progress, Reading, Answering
<1> QED
  BY <1>1, <1>5, <1>6 DEF Progress, Reading, Answering, Unread, FDs

\* The operation leaves in the map what the connection should leave, and finds for GET what
\* those before it left.
LEMMA OperateTurn ==
  ASSUME ServerType, NEW n \in Nat \ {0}, n = Len(accepted), NEW w \in Workers,
         Progress(w, n), Operate(w)
  PROVE  Progress(w, n)'
<1> DEFINE c == accepted[n]
           r == request[c]
           k0 == r.key
<1>0. /\ c \in Clients /\ c # NoClient /\ k0 \in Keys
      /\ \A i \in 1 .. n - 1 : accepted[i] # c
  BY Guest
<1>1. /\ place[w] = "operate" /\ place'[w] = "reply"
      /\ UNCHANGED <<connectionFD, accepted, request, conn, got, clientFD, header>>
  BY DEF Operate, WorkerFrame, Go, ServerType, WorkerType
<1>2. /\ got[c] = <<>> /\ connectionFD \in FDs /\ conn[connectionFD] = c
      /\ clientFD[w] = connectionFD /\ header[w] = r.code /\ r.code # "OTHER"
      /\ r.code \in {"PUT", "GET", "EVICT"} => key[w] = k0 /\ value[w] = c
      /\ MapAfter(n - 1)
  BY <1>1 DEF Progress, Reading, Answering, Unread
<1>3. /\ store \in [Keys -> Clients \cup {Junk, NoClient}]
      /\ answer \in [Workers -> Clients \cup {Junk, NoClient}]
      /\ NoClient \notin freed
  BY ServerAssumption DEF ServerType, WorkerType
<1>4. \A k \in Keys : Left(k, n) = IF r.code = "CLEAR" \/ (r.code = "EVICT" /\ k = k0)
                                     THEN NoClient
                                     ELSE IF r.code = "PUT" /\ k = k0 THEN c ELSE Left(k, n - 1)
  BY LeftStep
<1>5. Latest(n) = Left(k0, n - 1)
  BY LatestIsLeft
<1>6. /\ \A k \in Keys : store'[k] = Left(k, n)
      /\ \A k \in Keys : store'[k] \notin freed'
      /\ \A k \in Keys : store'[k] # NoClient => \E i \in 1 .. n : store'[k] = accepted[i]
      /\ \A v \in freed' : \E i \in 1 .. n : v = accepted[i]
      /\ r.code = "GET" => answer'[w] = Latest(n) /\ answer'[w] \notin freed'
  <2>0. /\ \A k \in Keys : store[k] = Left(k, n - 1) /\ store[k] \notin freed
        /\ \A k \in Keys : store[k] # NoClient => \E i \in 1 .. n - 1 : store[k] = accepted[i]
        /\ \A v \in freed : \E i \in 1 .. n - 1 : v = accepted[i]
        /\ \A i \in 1 .. n - 1 : i \in 1 .. n
    BY <1>2 DEF MapAfter
  <2>1. CASE r.code = "PUT"
    <3>1. KV!Put(k0, c) /\ UNCHANGED freed
      BY <1>0, <1>2, <2>1 DEF Operate
    <3>2. store' = [store EXCEPT ![k0] = c] /\ freed' = freed
      BY <3>1 DEF KV!Put
    <3>3. c \notin freed
      <4> SUFFICES ASSUME c \in freed PROVE FALSE
        OBVIOUS
      <4>1. PICK i \in 1 .. n - 1 : c = accepted[i]
        BY <2>0
      <4> QED
        BY <1>0, <4>1
    <3>4. n \in 1 .. n
      OBVIOUS
    <3>5. \A k \in Keys : store'[k] = IF k = k0 THEN c ELSE store[k]
      BY <1>3, <3>2
    <3>6. \A k \in Keys : Left(k, n) = IF k = k0 THEN c ELSE Left(k, n - 1)
      BY <1>4, <2>1
    <3> HIDE DEF c, r, k0
    <3>7. \A k \in Keys : store'[k] # NoClient => \E i \in 1 .. n : store'[k] = accepted[i]
      BY <2>0, <3>4, <3>5 DEF c
    <3>8. \A v \in freed' : \E i \in 1 .. n : v = accepted[i]
      BY <2>0, <3>2
    <3> QED
      BY <2>0, <2>1, <3>2, <3>3, <3>5, <3>6, <3>7, <3>8
  <2>2. CASE r.code = "GET"
    <3>1. KV!Get(w) /\ UNCHANGED freed
      BY <1>0, <1>2, <2>2 DEF Operate
    <3>2. answer' = [answer EXCEPT ![w] = store[k0]] /\ UNCHANGED <<store, freed>>
      BY <1>2, <2>2, <3>1 DEF KV!Get, ServerType, WorkerType
    <3> QED
      BY <1>0, <1>3, <1>4, <1>5, <2>0, <2>2, <3>2
  <2>3. CASE r.code = "EVICT"
    <3>1. KV!Delete(k0) /\ UNCHANGED freed
      BY <1>0, <1>2, <2>3 DEF Operate
    <3>2. store' = [store EXCEPT ![k0] = NoClient] /\ freed' = freed
      BY <3>1 DEF KV!Delete
    <3> QED
      BY <1>0, <1>3, <1>4, <2>0, <2>3, <3>2
  <2>4. CASE r.code = "CLEAR"
    <3>1. /\ store' = [k \in Keys |-> NoClient]
          /\ freed' = freed \cup ({store[k] : k \in Keys} \ {NoClient})
      BY <1>2, <2>4 DEF Operate, KV!Clear
    <3> QED
      BY <1>3, <1>4, <2>0, <2>4, <3>1
  <2>5. CASE r.code \notin {"PUT", "GET", "EVICT", "CLEAR"}
    <3>1. UNCHANGED <<store, freed>>
      BY <1>2, <2>5 DEF Operate, map
    <3> QED
      BY <1>4, <2>0, <2>5, <3>1
  <2> QED
    BY <2>1, <2>2, <2>3, <2>4, <2>5
<1>7. MapAfter(n)' /\ Latest(n)' = Latest(n)
  <2>1. \A k : Left(k, n)' = Left(k, n)
    BY <1>1, WorkHistory
  <2>2. Latest(n)' = Latest(n)
    BY <1>1, WorkHistory
  <2> QED
    BY <1>1, <1>6, <2>1, <2>2 DEF MapAfter
<1> QED
  BY <1>1, <1>2, <1>6, <1>7 DEF Progress, Reading, Answering, Unread, FDs

\* What a worker sends at the n-th connection goes to its client.
LEMMA SendTurn ==
  ASSUME ServerType, NEW n \in Nat \ {0}, n = Len(accepted), NEW w \in Workers,
         Progress(w, n), place[w] \in {"reply", "value"}, NEW what, Send(w, what)
  PROVE  /\ got'[accepted[n]] = Append(got[accepted[n]], what)
         /\ \A c \in Clients : c # accepted[n] => got'[c] = got[c]
<1>1. accepted[n] \in Clients /\ accepted[n] # NoClient
  BY Guest
<1>2. clientFD[w] \in Open /\ conn[clientFD[w]] = accepted[n]
  BY <1>1 DEF Progress, Reading, Answering, Open
<1>3. got' = [got EXCEPT ![accepted[n]] = Append(got[accepted[n]], what)]
  BY <1>2 DEF Send
<1> QED
  BY <1>1, <1>3 DEF ServerType, ClientType

\* The answer is complete, or its value is still to be sent.
LEMMA ReplyTurn ==
  ASSUME ServerType, NEW n \in Nat \ {0}, n = Len(accepted), NEW w \in Workers,
         Progress(w, n), Reply(w)
  PROVE  /\ Progress(w, n)'
         /\ \A c \in Clients : c # accepted[n] => got'[c] = got[c]
<1> DEFINE r == request[accepted[n]]
           last == ~(r.code = "GET" /\ answer[w] # NoClient)
<1>1. /\ place[w] = "reply" /\ Send(w, Response(w))
      /\ UNCHANGED <<connectionFD, accepted, request, conn, unread, store, freed, answer,
                     clientFD, header>>
  BY DEF Reply, WorkerFrame, Go, map, locals
<1>2. /\ got[accepted[n]] = <<>> /\ connectionFD \in FDs /\ conn[connectionFD] = accepted[n]
      /\ clientFD[w] = connectionFD /\ header[w] = r.code /\ r.code # "OTHER" /\ MapAfter(n)
      /\ r.code = "GET" => answer[w] = Latest(n) /\ answer[w] \notin freed
  BY <1>1 DEF Progress, Reading, Answering, Unread
<1>3. place'[w] = IF last THEN "close" ELSE "value"
  <2>1. Go(w, "reply", IF header[w] = "GET" /\ answer[w] # NoClient THEN "value" ELSE "close")
    BY DEF Reply
  <2> QED
    BY <1>2, <2>1 DEF Go, ServerType, WorkerType
<1>4. /\ got'[accepted[n]] = <<Response(w)>>
      /\ \A c \in Clients : c # accepted[n] => got'[c] = got[c]
  <2>1. got'[accepted[n]] = Append(got[accepted[n]], Response(w))
    BY <1>1, SendTurn
  <2>2. \A c \in Clients : c # accepted[n] => got'[c] = got[c]
    BY <1>1, SendTurn
  <2> QED
    BY <1>2, <2>1, <2>2
<1>5. /\ MapAfter(n)' /\ RightAnswer(n)' = RightAnswer(n) /\ Latest(n)' = Latest(n)
  BY <1>1, <1>2, WorkHistory
<1>6. CASE last
  <2>1. <<Response(w)>> = RightAnswer(n)
    BY <1>2, <1>6 DEF Response, RightAnswer
  <2>2. got'[accepted[n]] = RightAnswer(n)' /\ place'[w] = "close"
    BY <1>3, <1>4, <1>5, <1>6, <2>1
  <2> QED
    BY <1>1, <1>2, <1>4, <1>5, <2>2 DEF Progress, Reading, Answering, Unread, FDs
<1>7. CASE ~last
  <2>1. Response(w) = "OK"
    BY <1>2, <1>7 DEF Response
  <2>2. got'[accepted[n]] = <<"OK">> /\ place'[w] = "value"
    BY <1>3, <1>4, <1>7, <2>1
  <2> QED
    BY <1>1, <1>2, <1>4, <1>5, <1>7, <2>2 DEF Progress, Reading, Answering, Unread, FDs
<1> QED
  BY <1>6, <1>7

\* The value that follows is the one the connections before it left.
LEMMA ReplyValueTurn ==
  ASSUME ServerType, NEW n \in Nat \ {0}, n = Len(accepted), NEW w \in Workers,
         Progress(w, n), ReplyValue(w)
  PROVE  /\ Progress(w, n)'
         /\ \A c \in Clients : c # accepted[n] => got'[c] = got[c]
<1> DEFINE r == request[accepted[n]]
<1>1. /\ place[w] = "value" /\ place'[w] = "close"
      /\ Send(w, IF answer[w] \in freed THEN Junk ELSE answer[w])
      /\ UNCHANGED <<connectionFD, accepted, request, conn, unread, store, freed, answer,
                     clientFD, header>>
  BY DEF ReplyValue, WorkerFrame, Go, map, locals, ServerType, WorkerType
<1>2. /\ got[accepted[n]] = <<"OK">> /\ connectionFD \in FDs /\ conn[connectionFD] = accepted[n]
      /\ clientFD[w] = connectionFD /\ header[w] = r.code /\ r.code = "GET" /\ MapAfter(n)
      /\ answer[w] = Latest(n) /\ answer[w] \notin freed /\ answer[w] # NoClient
  BY <1>1 DEF Progress, Reading, Answering, Unread
<1>3. /\ got'[accepted[n]] = <<"OK", answer[w]>>
      /\ \A c \in Clients : c # accepted[n] => got'[c] = got[c]
  <2>1. Send(w, answer[w])
    BY <1>1, <1>2
  <2>2. got'[accepted[n]] = Append(got[accepted[n]], answer[w])
    BY <1>1, <2>1, SendTurn
  <2>3. \A c \in Clients : c # accepted[n] => got'[c] = got[c]
    BY <1>1, <2>1, SendTurn
  <2>4. ASSUME NEW v PROVE Append(<<"OK">>, v) = <<"OK", v>>
    <3> DEFINE s == Append(<<"OK">>, v)
    <3>1. <<"OK">> \in Seq({"OK", v}) /\ <<"OK", v>> \in Seq({"OK", v})
      OBVIOUS
    <3>2. s \in Seq({"OK", v}) /\ Len(s) = 2 /\ s[1] = "OK" /\ s[2] = v
      BY <3>1
    <3>3. LET t == <<"OK", v>> IN Len(t) = 2 /\ t[1] = "OK" /\ t[2] = v
      OBVIOUS
    <3> HIDE DEF s
    <3>4. \A i \in 1 .. Len(s) : s[i] = <<"OK", v>>[i]
      BY <3>2, <3>3
    <3>5. s = <<"OK", v>>
      BY <3>1, <3>2, <3>3, <3>4, SeqEqual
    <3> QED
      BY <3>5 DEF s
  <2> QED
    BY <1>2, <2>2, <2>3, <2>4, Zenon
<1>4. RightAnswer(n) = <<"OK", answer[w]>>
  BY <1>2 DEF RightAnswer
<1>5. MapAfter(n)' /\ RightAnswer(n)' = RightAnswer(n)
  BY <1>1, <1>2, WorkHistory
<1> QED
  BY <1>1, <1>2, <1>3, <1>4, <1>5 DEF Progress, Reading, Answering, Unread, FDs

\* close frees the client's only descriptor, and the connection is done.
LEMMA CloseTurn ==
  ASSUME ServerType, NEW n \in Nat \ {0}, n = Len(accepted), NEW w \in Workers,
         Progress(w, n), Close(w)
  PROVE  /\ DoneWith(n)' /\ MapAfter(n)' /\ place'[w] = "dequeue"
         /\ \A f \in FDs : conn'[f] \in {conn[f], NoClient}
<1>0. accepted[n] \in Clients /\ accepted[n] # NoClient
  BY Guest
<1>1. /\ place[w] = "close" /\ place'[w] = "dequeue"
      /\ conn' = [conn EXCEPT ![connectionFD] = NoClient]
      /\ UNCHANGED <<connectionFD, accepted, request, got, store, freed>>
  BY DEF Close, WorkerFrame, Go, map, ServerType, WorkerType
<1>2. /\ connectionFD \in FDs /\ conn[connectionFD] = accepted[n]
      /\ got[accepted[n]] = RightAnswer(n) /\ MapAfter(n)
  BY <1>1 DEF Progress, Reading, Answering
<1>3. \A f \in FDs : conn'[f] = IF f = connectionFD THEN NoClient ELSE conn[f]
  BY <1>1 DEF ServerType, ConnType
<1>4. \A f \in FDs : conn'[f] # accepted[n]
  BY <1>0, <1>2, <1>3 DEF ServerType, ConnType, Open
<1>5. MapAfter(n)' /\ RightAnswer(n)' = RightAnswer(n)
  BY <1>1, <1>2, WorkHistory
<1> QED
  BY <1>1, <1>2, <1>3, <1>4, <1>5 DEF DoneWith, FDs

\* Every step of a worker past dequeue keeps the turn.
LEMMA WorkerTurn ==
  ASSUME Q!TypeOK, ServerType, Alone, TurnInv, NEW w \in Workers, Work(w), ~Dequeue(w)
  PROVE  TurnInv'
<1>1. UNCHANGED <<connectionFD, accepted, request, rushed, calls, pc, items>>
      /\ place[w] # "dequeue" /\ \A v \in Workers \ {w} : place'[v] = place[v]
  BY WorkKeeps, WorkEffect DEF ServerType, WorkerType
<1> SUFFICES ASSUME ~rushed, NEW n \in Nat, n = Len(accepted) PROVE TurnInv'
  BY <1>1 DEF TurnInv, ServerType, ConnType
<1>2. AtWork(w) /\ pc'[w] = "idle"
  BY <1>1 DEF AtWork, Alone
<1>3. /\ Progress(w, n) /\ n \in Nat \ {0}
      /\ ~Waiting /\ \A v \in Workers \ {w} : ~AtWork(v)
  BY <1>2, AtTurn
<1>4. ~Waiting' /\ \A v \in Workers \ {w} : ~AtWork(v)'
  BY <1>1, <1>3 DEF Waiting, AtAccept, AtWork
<1>5. AtWork(w)' <=> place'[w] # "dequeue"
  BY <1>2 DEF AtWork
<1>6. ASSUME \A c \in Clients : c # accepted[n] => got'[c] = got[c],
             \A f \in FDs : conn'[f] \in {conn[f], NoClient},
             IF place'[w] = "dequeue" THEN DoneWith(n)' /\ MapAfter(n)' ELSE Progress(w, n)'
      PROVE  TurnInv'
  BY <1>1, <1>2, <1>3, <1>4, <1>5, <1>6, WorkTurn
<1>7. ASSUME UNCHANGED <<got, conn>>, Progress(w, n)', place'[w] # "dequeue" PROVE TurnInv'
  BY <1>6, <1>7
<1>8. CASE Follow(w)
  <2>1. UNCHANGED <<got, conn>> /\ place'[w] # "dequeue"
    BY <1>8 DEF Follow, Go, ServerType, WorkerType
  <2> QED
    BY <1>3, <1>7, <1>8, <2>1, FollowTurn
<1>9. CASE ReadCall(w)
  <2>1. UNCHANGED <<got, conn>> /\ place'[w] # "dequeue"
    BY <1>9 DEF ReadCall, Go, ServerType, WorkerType
  <2> QED
    BY <1>3, <1>7, <1>9, <2>1, ReadCallTurn
<1>10. CASE ReadHeader(w)
  <2>1. UNCHANGED <<got, conn>>
    BY <1>10, Zenon DEF ReadHeader
  <2> QED
    BY <1>3, <1>6, <1>10, <2>1, ReadHeaderTurn
<1>11. CASE ReadBody(w)
  <2>1. UNCHANGED <<got, conn>> /\ place'[w] # "dequeue"
    BY <1>11 DEF ReadBody, Go, ServerType, WorkerType
  <2> QED
    BY <1>3, <1>7, <1>11, <2>1, ReadBodyTurn
<1>12. CASE Operate(w)
  <2>1. UNCHANGED <<got, conn>> /\ place'[w] # "dequeue"
    BY <1>12 DEF Operate, Go, ServerType, WorkerType
  <2> QED
    BY <1>3, <1>7, <1>12, <2>1, OperateTurn
<1>13. CASE Reply(w)
  <2>1. UNCHANGED conn /\ place'[w] # "dequeue"
    BY <1>13 DEF Reply, Go, ServerType, WorkerType
  <2>2. /\ Progress(w, n)'
        /\ \A c \in Clients : c # accepted[n] => got'[c] = got[c]
    BY <1>3, <1>13, ReplyTurn
  <2> QED
    BY <1>6, <2>1, <2>2
<1>14. CASE ReplyValue(w)
  <2>1. UNCHANGED conn /\ place'[w] # "dequeue"
    BY <1>14 DEF ReplyValue, Go, ServerType, WorkerType
  <2>2. /\ Progress(w, n)'
        /\ \A c \in Clients : c # accepted[n] => got'[c] = got[c]
    BY <1>3, <1>14, ReplyValueTurn
  <2> QED
    BY <1>6, <2>1, <2>2
<1>15. CASE Close(w)
  <2>1. UNCHANGED got
    BY <1>15, Zenon DEF Close
  <2> QED
    BY <1>3, <1>6, <1>15, <2>1, CloseTurn
<1> QED
  BY <1>8, <1>9, <1>10, <1>11, <1>12, <1>13, <1>14, <1>15, Zenon DEF Work

\* What the server's invariant adds to the queue's.
ServerInv == ServerType /\ Alone /\ Fresh /\ TurnInv

\* It holds from the start, and every step keeps it.
LEMMA TurnStep ==
  /\ Init => ServerInv
  /\ Q!TypeOK /\ ServerInv /\ [Next]_vars => ServerInv'
<1>1. ASSUME Init PROVE TurnInv
  <2>1. /\ accepted = <<>> /\ Len(<<>>) = 0 /\ items = 0 /\ calls = 0 /\ freed = {}
        /\ \A t \in Workers \cup {Main} : pc[t] = "idle"
        /\ \A w \in Workers : place[w] = "dequeue"
        /\ \A k \in Keys : store[k] = NoClient
    BY <1>1 DEF Init, Q!Init, Q!Threads, KV!Init
  <2>2. ~Waiting /\ \A w \in Workers : ~AtWork(w)
    BY <2>1 DEF Waiting, AtAccept, AtWork
  <2>3. \A k : Left(k, 0) = NoClient
    BY DEF Left, WritersOf
  <2>4. MapAfter(0)
    BY <2>1, <2>3 DEF MapAfter
  <2>5. Turn(0)
    BY <2>2, <2>4 DEF Turn
  <2> QED
    BY <2>1, <2>5 DEF TurnInv
<1>2. ASSUME Q!TypeOK, ServerInv, [Next]_vars PROVE ServerInv'
  <2>1. ServerType' /\ Alone' /\ Fresh'
    BY <1>2, TypeStep, AloneStep, FreshStep DEF ServerInv
  <2>2. TurnInv'
    <3>1. ASSUME NEW c \in Clients, Accept(c) PROVE TurnInv'
      BY <1>2, <3>1, AcceptTurn DEF ServerInv
    <3>2. ASSUME NEW w \in Workers, Work(w) PROVE TurnInv'
      BY <1>2, <3>2, DequeueTurn, WorkerTurn DEF ServerInv
    <3>3. ASSUME \/ \E c \in Clients, code \in Codes, k \in Keys : Connect(c, code, k)
                 \/ \E c \in Clients : HangUp(c)
                 \/ Enqueue \/ Exit \/ UNCHANGED vars
          PROVE  TurnInv'
      BY <1>2, <2>1, <3>3, OthersTurn DEF ServerInv
    <3> QED
      BY <1>2, <3>1, <3>2, <3>3, Zenon DEF Next
  <2> QED
    BY <2>1, <2>2 DEF ServerInv
<1> QED
  BY <1>1, <1>2, TypeStep, AloneStep, FreshStep DEF ServerInv

\* The prefixes of short answers.
LEMMA ShortPrefixes ==
  ASSUME NEW T, NEW s \in Seq(T), NEW a, NEW b
  PROVE  IsPrefix(s, s) /\ IsPrefix(<<>>, s) /\ IsPrefix(<<a>>, <<a, b>>)
<1>1. IsPrefix(s, s)
  BY DEF IsPrefix
<1>2. IsPrefix(<<>>, s)
  <2>1. Len(<<>>) = 0 /\ Len(s) \in Nat /\ SubSeq(<<>>, 1, 0) = SubSeq(s, 1, 0)
    OBVIOUS
  <2> QED
    BY <2>1 DEF IsPrefix
<1>3. IsPrefix(<<a>>, <<a, b>>)
  <2>1. Len(<<a>>) = 1 /\ Len(<<a, b>>) = 2 /\ SubSeq(<<a>>, 1, 1) = SubSeq(<<a, b>>, 1, 1)
    OBVIOUS
  <2> QED
    BY <2>1 DEF IsPrefix
<1> QED
  BY <1>1, <1>2, <1>3

\* As long as every connection is accepted after the last one was done, each client is sent
\* the answer to its own request and nothing else (cream.c:87-165).
THEOREM Answers == Spec => []AnswersAreRight
<1>1. ASSUME ServerInv PROVE AnswersAreRight
  <2> SUFFICES ASSUME ~rushed, NEW n \in Nat, n = Len(accepted), NEW i \in 1 .. n
               PROVE  IsPrefix(got[accepted[i]], RightAnswer(i))
    BY <1>1 DEF AnswersAreRight, ServerInv, ServerType, ConnType
  <2>1. Turn(n)
    BY <1>1 DEF ServerInv, TurnInv
  <2>2. accepted[i] \in Clients
    BY <1>1 DEF ServerInv, ServerType, ConnType
  <2>3. got[accepted[i]] \in Seq(Responses \cup Clients \cup {Junk})
    BY <1>1, <2>2 DEF ServerInv, ServerType, ClientType
  <2>4. DoneWith(i) => IsPrefix(got[accepted[i]], RightAnswer(i))
    BY <2>3, ShortPrefixes, Zenon DEF DoneWith
  <2>5. CASE i # n
    BY <2>1, <2>4, <2>5 DEF Turn
  <2>6. CASE i = n
    <3>1. got[accepted[n]] = <<>> \/ got[accepted[n]] = RightAnswer(n)
          \/ (got[accepted[n]] = <<"OK">> /\ \E v : RightAnswer(n) = <<"OK", v>>)
      <4>1. CASE Waiting
        BY <2>1, <4>1 DEF Turn, Handed
      <4>2. ASSUME NEW w \in Workers, AtWork(w) PROVE <3>1
        <5>1. Progress(w, n)
          BY <2>1, <4>2 DEF Turn
        <5>2. place[w] = "value" => RightAnswer(n) = <<"OK", Latest(n)>>
          BY <5>1 DEF Progress, Reading, Answering, RightAnswer
        <5> QED
          BY <5>1, <5>2 DEF Progress, Reading, Answering
      <4>3. CASE ~Waiting /\ \A w \in Workers : ~AtWork(w)
        BY <2>1, <4>3 DEF Turn, DoneWith
      <4> QED
        BY <4>1, <4>2, <4>3
    <3>2. \A v : IsPrefix(<<"OK">>, <<"OK", v>>)
      BY <2>3, ShortPrefixes, Zenon
    <3>3. IsPrefix(<<>>, RightAnswer(n))
      <4>0. RightAnswer(n) \in {<<"NOT_FOUND">>, <<"OK", Latest(n)>>, <<"BAD_REQUEST">>,
                                <<>>, <<"OK">>}
        BY Zenon DEF RightAnswer
      <4> DEFINE T == {"NOT_FOUND", "BAD_REQUEST", "OK", Latest(n)}
      <4>1. /\ \A a \in T : <<a>> \in Seq(T)
            /\ \A a, b \in T : <<a, b>> \in Seq(T)
            /\ <<>> \in Seq(T)
        OBVIOUS
      <4>2. RightAnswer(n) \in Seq(T)
        BY <4>0, <4>1, Zenon
      <4> QED
        BY <4>2, ShortPrefixes, Zenon
    <3>4. got[accepted[n]] = RightAnswer(n) => IsPrefix(got[accepted[n]], RightAnswer(n))
      BY <2>3, <2>6, ShortPrefixes, Zenon
    <3> QED
      BY <2>6, <3>1, <3>2, <3>3, <3>4, Zenon
  <2> QED
    BY <2>5, <2>6
<1> QED
  BY <1>1, QueueStep, TurnStep, PTL DEF Spec, QueueInv

\* ... and once the server is back in accept the answer is complete, and the connection
\* closed unless its code is unsupported (cream.c:162-165).
THEOREM Done == Spec => []DoneIsDone
<1>1. ASSUME ServerInv PROVE DoneIsDone
  <2> SUFFICES ASSUME ~rushed, AtAccept, ~Busy, NEW n \in Nat, n = Len(accepted),
                      NEW i \in 1 .. n
               PROVE  DoneWith(i)
    BY <1>1 DEF DoneIsDone, DoneWith, ServerInv, ServerType, ConnType
  <2>1. ~Waiting /\ \A w \in Workers : ~AtWork(w)
    BY DEF Busy, Waiting, AtWork
  <2>2. Turn(n)
    BY <1>1 DEF ServerInv, TurnInv
  <2> QED
    BY <2>1, <2>2 DEF Turn
<1> QED
  BY <1>1, QueueStep, TurnStep, PTL DEF Spec, QueueInv
=============================================================================
