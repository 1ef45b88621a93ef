---------------------------- MODULE CreamServer ----------------------------
(***************************************************************************)
(* The server of CREAM_Client/src/cream.c: main accepts connections and    *)
(* enqueues a pointer to each, the workers dequeue, read a request, work   *)
(* on the map, answer and close.                                           *)
(*                                                                         *)
(* The pointer is always &connectionFD: one variable, which main           *)
(* overwrites with the next connection, a worker reads when it has         *)
(* dequeued and reads again when it closes.                                *)
(*                                                                         *)
(* The queue is CreamQueue, step by step.  The map is KVStore: each of its *)
(* operations takes effect at once, and it has room for every key.  A      *)
(* client opens one connection, sends one request with it and may hang up  *)
(* at any time; its name stands for the value it puts.                     *)
(***************************************************************************)
EXTENDS Naturals, Sequences, FiniteSets, SequencesExt, FiniteSetsExt

CONSTANTS
  Clients, Workers, Main, NoThread,
  Keys,
  Codes,     \* the request codes clients send
  Junk,      \* bytes that nobody sent: left over in memory
  NoClient

ASSUME ServerAssumption ==
  /\ IsFiniteSet(Clients) /\ IsFiniteSet(Workers)
  /\ Main \notin Workers /\ NoThread \notin Workers \cup {Main}
  /\ NoClient \notin Clients \cup {Junk} /\ Junk \notin Clients \cup Keys

\* BAD stands for a PUT, GET or EVICT with a size out of bounds, OTHER for
\* any code that cream.h does not define.
AllCodes == {"PUT", "GET", "EVICT", "CLEAR", "BAD", "OTHER"}

VARIABLES
  list, items, lock, invalid, pc, calls, linked, delivered, destroyed,
  overlapped, crashed,  \* globalQueue: the variables of CreamQueue
  store, closed,  \* globalMap: the variables of KVStore
  answer,         \* what each worker's last get returned
  freed,          \* the values destroyHashMap freed
  connectionFD,   \* the global
  accepted,       \* history: the clients in the order of their connections
  conn,           \* which client is at the other end of each descriptor
  request,        \* what each client sent; none before it connects
  unread,         \* how many parts of it are unread: header and body
  gone,           \* the clients that hung up
  got,            \* what each client was sent
  place,          \* where each worker is in connectionHandler
  clientFD, header, key, value,  \* its local variables
  sock,           \* the connection its blocked read waits for
  rushed,         \* history: a connection was accepted before the last was done
  stopped         \* the process ended

queue == <<list, items, lock, invalid, pc, calls, linked, delivered, destroyed,
           overlapped, crashed>>
map == <<store, closed, answer, freed>>
clients == <<request, unread, gone, got>>
locals == <<clientFD, header, key, value, sock>>
vars == <<queue, map, clients, locals, connectionFD, accepted, conn, place, rushed,
          stopped>>

Q == INSTANCE CreamQueue WITH
       Producers <- {Main}, Consumers <- Workers, Destroyers <- {},
       MaxCalls <- Cardinality(Clients), AllocMayFail <- TRUE

KV == INSTANCE KVStore WITH
        Threads <- Workers, Values <- Clients \cup {Junk}, Missing <- NoClient,
        NoKey <- Junk, asked <- key

FDs == 1 .. Cardinality(Clients)
Open == {f \in FDs : conn[f] # NoClient}
Connected == {accepted[i] : i \in 1 .. Len(accepted)}
None == [code |-> "none", key |-> Junk]

Init ==
  /\ Q!Init /\ KV!Init /\ freed = {}
  /\ connectionFD = 0 /\ accepted = <<>>
  /\ conn = [f \in FDs |-> NoClient]
  /\ request = [c \in Clients |-> None]
  /\ unread = [c \in Clients |-> 0]
  /\ gone = {} /\ got = [c \in Clients |-> <<>>]
  /\ place = [w \in Workers |-> "dequeue"]
  /\ clientFD = [w \in Workers |-> 0]
  /\ header = [w \in Workers |-> "none"]
  /\ value = [w \in Workers |-> Junk]
  /\ sock = [w \in Workers |-> NoClient]
  /\ rushed = FALSE /\ stopped = FALSE

-----------------------------------------------------------------------------
(* The clients *)

Connect(c, code, k) ==
  /\ request[c] = None
  /\ request' = [request EXCEPT ![c] = [code |-> code, key |-> k]]
  /\ unread' = [unread EXCEPT ![c] = 2]
  /\ UNCHANGED <<queue, map, gone, got, locals, connectionFD, accepted, conn, place,
                 rushed, stopped>>

HangUp(c) ==
  /\ request[c] # None /\ c \notin gone
  /\ gone' = gone \cup {c}
  /\ UNCHANGED <<queue, map, request, unread, got, locals, connectionFD, accepted,
                 conn, place, rushed, stopped>>

-----------------------------------------------------------------------------
(* main *)

\* A connection is queued, or a worker is at one.
Busy == items > 0 \/ \E w \in Workers : pc[w] # "idle" \/ place[w] # "dequeue"

\* main is between two calls of enqueue, and has enqueued all it accepted.
AtAccept == pc[Main] = "idle" /\ calls = Len(accepted)

Accept(c) ==
  /\ AtAccept
  /\ request[c] # None /\ c \notin Connected
  /\ connectionFD' = Min(FDs \ Open)
  /\ conn' = [conn EXCEPT ![connectionFD'] = c]
  /\ accepted' = Append(accepted, c)
  /\ rushed' = (rushed \/ Busy)
  /\ UNCHANGED <<queue, map, clients, locals, place, stopped>>

\* Mutant: main enqueues once more than it has accepted.
EnqueueEarly ==
  /\ \/ calls <= Len(accepted) /\ Q!EnqueueLock(Main)
     \/ Q!LinkFirst(Main, "item") \/ Q!LinkAfterRear(Main, "item")
     \/ Q!EnqueuePost(Main)
  /\ UNCHANGED <<map, clients, locals, connectionFD, accepted, conn, place, rushed,
                 stopped>>

Enqueue ==
  /\ \/ calls < Len(accepted) /\ Q!EnqueueLock(Main)
     \/ Q!EnqueueOutOfMemory(Main, "item")
     \/ Q!LinkFirst(Main, "item") \/ Q!LinkAfterRear(Main, "item")
     \/ Q!LinkAfterFreedRear(Main, "item")
     \/ Q!EnqueuePost(Main)
  /\ UNCHANGED <<map, clients, locals, connectionFD, accepted, conn, place, rushed,
                 stopped>>

\* accept fails or SIGINT arrives: exit.
Exit ==
  /\ stopped' = TRUE
  /\ UNCHANGED <<queue, map, clients, locals, connectionFD, accepted, conn, place,
                 rushed>>

-----------------------------------------------------------------------------
(* connectionHandler *)

Go(w, from, to) == place[w] = from /\ place' = [place EXCEPT ![w] = to]

\* What a worker leaves alone wherever it is.
WorkerFrame == UNCHANGED <<connectionFD, accepted, request, gone, rushed>>

Dequeue(w) ==
  /\ \/ /\ place[w] = "dequeue"
        /\ (Q!DequeueWait(w) \/ Q!DequeueLock(w) \/ Q!DequeueCrash(w))
        /\ UNCHANGED place
     \/ Go(w, "dequeue", "follow") /\ Q!DequeueTake(w)
  /\ WorkerFrame /\ UNCHANGED <<map, locals, conn, unread, got, stopped>>

\* The pointer is followed: the connection accepted last.
Follow(w) ==
  /\ Go(w, "follow", "header")
  /\ clientFD' = [clientFD EXCEPT ![w] = connectionFD]
  /\ WorkerFrame
  /\ UNCHANGED <<queue, map, conn, unread, got, header, key, value, sock, stopped>>

\* A read finds its connection when it is called, and may wait there.
ReadCall(w) ==
  /\ (Go(w, "header", "in header") \/ Go(w, "body", "in body"))
  /\ sock' = [sock EXCEPT ![w] = IF clientFD[w] \in FDs THEN conn[clientFD[w]]
                                                         ELSE NoClient]
  /\ WorkerFrame
  /\ UNCHANGED <<queue, map, conn, unread, got, clientFD, header, key, value, stopped>>

\* The next part of the request arrives; n parts are unread.
Receives(w, n) ==
  /\ sock[w] # NoClient
  /\ unread[sock[w]] = n
  /\ unread' = [unread EXCEPT ![sock[w]] = n - 1]

\* Mutant: a read that meets the end of the connection is tried again.
ReadsNothingAgain(w) == sock[w] = NoClient /\ UNCHANGED unread

\* The descriptor is closed, or the client has hung up and sent no more.
ReadsNothing(w) ==
  /\ (sock[w] = NoClient \/ (sock[w] \in gone /\ unread[sock[w]] = 0))
  /\ UNCHANGED unread

\* The header is read.  If a body is read for it, or nothing arrives into a
\* local never written, the code may be any; else the last one remains.
ReadHeader(w) ==
  /\ \E code \in AllCodes :
       /\ \/ Receives(w, 2) /\ code = request[sock[w]].code
          \/ Receives(w, 1)
          \/ ReadsNothing(w) /\ header[w] \in {code, "none"}
       /\ header' = [header EXCEPT ![w] = code]
       /\ Go(w, "in header", CASE code \in {"PUT", "GET", "EVICT"} -> "body"
                               [] code = "OTHER" -> "dequeue"
                               [] OTHER -> "operate")
  /\ WorkerFrame
  /\ UNCHANGED <<queue, map, conn, got, clientFD, key, value, sock, stopped>>

\* Key and value are read; if nothing arrives, or another client's header,
\* the fresh buffers keep what malloc left in them.
ReadBody(w) ==
  /\ Go(w, "in body", "operate")
  /\ \E k \in Keys \cup {Junk}, v \in Clients \cup {Junk} :
       /\ \/ Receives(w, 1) /\ k = request[sock[w]].key /\ v = sock[w]
          \/ (Receives(w, 2) \/ ReadsNothing(w)) /\ v = Junk
       /\ key' = [key EXCEPT ![w] = k]
       /\ value' = [value EXCEPT ![w] = v]
  /\ WorkerFrame
  /\ UNCHANGED <<queue, map, conn, got, clientFD, header, sock, stopped>>

\* The map operation of the request.  What put replaces and delete returns
\* is leaked; a key nobody sent touches no client's entry.
Operate(w) ==
  /\ Go(w, "operate", "reply")
  /\ CASE header[w] = "PUT" /\ key[w] \in Keys ->
            KV!Put(key[w], value[w]) /\ UNCHANGED freed
       [] header[w] = "GET" /\ key[w] \in Keys ->
            KV!Get(w) /\ UNCHANGED freed
       [] header[w] = "GET" /\ key[w] \notin Keys ->
            answer' = [answer EXCEPT ![w] = NoClient] /\ UNCHANGED <<store, closed, key, freed>>
       [] header[w] = "EVICT" /\ key[w] \in Keys ->
            KV!Delete(key[w]) /\ UNCHANGED freed
       [] header[w] = "CLEAR" ->
            UNCHANGED closed /\ KV!Clear /\ freed' = freed \cup ({store[k] : k \in Keys} \ {NoClient})
       [] OTHER -> UNCHANGED <<map, key>>
  /\ WorkerFrame
  /\ UNCHANGED <<queue, clientFD, header, value, sock, conn, unread, got, stopped>>

\* write(clientFD, ...): whoever is at that descriptor now gets it.
Send(w, what) ==
  got' = IF clientFD[w] \in Open
         THEN [got EXCEPT ![conn[clientFD[w]]] = Append(@, what)] ELSE got

\* Mutant: a GET is answered OK whether or not the key was found.
ResponseMissOK(w) == IF header[w] = "BAD" THEN "BAD_REQUEST" ELSE "OK"

Response(w) ==
  IF header[w] = "BAD" THEN "BAD_REQUEST"
  ELSE IF header[w] = "GET" /\ answer[w] = NoClient THEN "NOT_FOUND" ELSE "OK"

\* Mutant: the value is not sent after the header.
ReplyHeaderOnly(w) ==
  /\ Send(w, Response(w))
  /\ Go(w, "reply", "close")
  /\ WorkerFrame /\ UNCHANGED <<queue, map, locals, conn, unread, stopped>>

Reply(w) ==
  /\ Send(w, Response(w))
  /\ Go(w, "reply", IF header[w] = "GET" /\ answer[w] # NoClient
                    THEN "value" ELSE "close")
  /\ WorkerFrame /\ UNCHANGED <<queue, map, locals, conn, unread, stopped>>

\* The value get returned, read after get has released the lock.  A second
\* write to a client that hung up may raise SIGPIPE.
ReplyValue(w) ==
  /\ Go(w, "value", "close")
  /\ Send(w, IF answer[w] \in freed THEN Junk ELSE answer[w])
  /\ \/ stopped' = stopped
     \/ clientFD[w] \in Open /\ conn[clientFD[w]] \in gone /\ stopped' = TRUE
  /\ WorkerFrame /\ UNCHANGED <<queue, map, locals, conn, unread>>

\* Mutant: the descriptor is not closed.
CloseForgotten(w) ==
  /\ Go(w, "close", "dequeue")
  /\ WorkerFrame /\ UNCHANGED <<queue, map, locals, conn, unread, got, stopped>>

\* close(connectionFD), not clientFD.
Close(w) ==
  /\ Go(w, "close", "dequeue")
  /\ conn' = [conn EXCEPT ![connectionFD] = NoClient]
  /\ WorkerFrame /\ UNCHANGED <<queue, map, locals, unread, got, stopped>>

Work(w) ==
  \/ Dequeue(w) \/ Follow(w) \/ ReadCall(w) \/ ReadHeader(w) \/ ReadBody(w)
  \/ Operate(w) \/ Reply(w) \/ ReplyValue(w) \/ Close(w)

-----------------------------------------------------------------------------
Running == ~stopped /\ ~crashed

Next ==
  /\ Running
  /\ \/ \E c \in Clients, code \in Codes, k \in Keys : Connect(c, code, k)
     \/ \E c \in Clients : HangUp(c) \/ Accept(c)
     \/ Enqueue \/ Exit
     \/ \E w \in Workers : Work(w)

Spec == Init /\ [][Next]_vars

\* main and the workers keep running; no client has to do anything.
FairSpec ==
  /\ Spec
  /\ WF_vars(Running /\ (Enqueue \/ \E c \in Clients : Accept(c)))
  /\ \A w \in Workers : WF_vars(Running /\ Work(w))

-----------------------------------------------------------------------------
Places == {"dequeue", "follow", "header", "in header", "body", "in body", "operate",
           "reply", "value", "close"}
Responses == {"OK", "NOT_FOUND", "BAD_REQUEST"}

TypeOK ==
  /\ Q!TypeOK
  /\ store \in [Keys -> Clients \cup {Junk, NoClient}]
  /\ answer \in [Workers -> Clients \cup {Junk, NoClient}]
  /\ closed = FALSE /\ freed \subseteq Clients \cup {Junk}
  /\ connectionFD \in FDs \cup {0}
  /\ accepted \in Seq(Clients) /\ calls <= Len(accepted)
  /\ conn \in [FDs -> Clients \cup {NoClient}]
  /\ request \in [Clients -> [code : Codes \cup {"none"}, key : Keys \cup {Junk}]]
  /\ unread \in [Clients -> 0 .. 2]
  /\ gone \subseteq Clients
  /\ got \in [Clients -> Seq(Responses \cup Clients \cup {Junk})]
  /\ place \in [Workers -> Places]
  /\ clientFD \in [Workers -> FDs \cup {0}]
  /\ header \in [Workers -> AllCodes \cup {"none"}]
  /\ key \in [Workers -> Keys \cup {Junk}]
  /\ value \in [Workers -> Clients \cup {Junk}]
  /\ sock \in [Workers -> Clients \cup {NoClient}]
  /\ rushed \in BOOLEAN /\ stopped \in BOOLEAN

\* The connections before the n-th that decide what its GET finds.
Writers(n) ==
  {i \in 1 .. n - 1 :
     LET r == request[accepted[i]]
     IN \/ r.code = "CLEAR"
        \/ r.code \in {"PUT", "EVICT"} /\ r.key = request[accepted[n]].key}

\* The value last put under its key by the connections before the n-th.
Latest(n) ==
  LET w == accepted[Max(Writers(n))]
  IN IF Writers(n) # {} /\ request[w].code = "PUT" THEN w ELSE NoClient

\* What the client of the n-th connection should be sent.
RightAnswer(n) ==
  LET code == request[accepted[n]].code
  IN CASE code = "GET" -> IF Latest(n) = NoClient THEN <<"NOT_FOUND">>
                                                   ELSE <<"OK", Latest(n)>>
       [] code = "BAD" -> <<"BAD_REQUEST">>
       [] code = "OTHER" -> <<>>
       [] OTHER -> <<"OK">>

\* As long as every connection is accepted after the last one was done,
\* each client is sent the answer to its own request and nothing else: GET
\* finds what the connections before it put (cream.c:87-165).
AnswersAreRight ==
  ~rushed => \A n \in 1 .. Len(accepted) : IsPrefix(got[accepted[n]], RightAnswer(n))

\* ... and once the server is back in accept, the answer is complete and
\* the descriptor closed, except that a client that sent an unsupported code
\* is neither answered nor disconnected (cream.c:162-165).
DoneIsDone ==
  ~rushed /\ AtAccept /\ ~Busy =>
    \A n \in 1 .. Len(accepted) :
      /\ got[accepted[n]] = RightAnswer(n)
      /\ request[accepted[n]].code # "OTHER" => \A f \in FDs : conn[f] # accepted[n]

\* An accepted connection is answered in full, unless connections overlap,
\* the server stops, or enqueue kept the lock when calloc failed.
AcceptedIsServed ==
  \A c \in Clients :
    c \in Connected ~>
      \/ \E n \in 1 .. Len(accepted) : accepted[n] = c /\ got[c] = RightAnswer(n)
      \/ rushed \/ ~Running \/ pc[Main] = "leaked"

\* The worker waits in read for bytes that another one has read, and the
\* client has not hung up.
Starved(w) ==
  /\ place[w] \in {"in header", "in body"}
  /\ sock[w] \in Clients \ gone /\ unread[sock[w]] = 0

\* A worker that followed a pointer comes back to dequeue, whatever the
\* clients do and however their connections overlap, share a descriptor or
\* lose it (cream.c:85-166): only overlapping ones can make it wait for bytes
\* that never come, and only for as long as that client stays.
HandlerEnds ==
  \A w \in Workers :
    place[w] # "dequeue" ~>
      place[w] = "dequeue" \/ (rushed /\ Starved(w)) \/ ~Running

\* "The number of worker threads used to service requests" (cream.c:45):
\* with idle workers, an accepted request of a supported kind is answered.
EveryRequestServed ==
  \A c \in Clients :
    c \in Connected /\ request[c].code # "OTHER" ~>
      got[c] # <<>> \/ ~Running \/ pc[Main] = "leaked"
=============================================================================
