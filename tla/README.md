# A TLA+ verification project for CSE320-Assignments

The repository holds seven independent C programs. This project models them
in TLA+, checks the models with TLC on small instances, and proves the main
safety properties with TLAPS for every instance.

## 1. The system

| Program | Core code | What is hard about it |
| --- | --- | --- |
| `CREAM_Client` (a multi-threaded key-value server) | `src/queue.c`, `src/hashmap.c`, `src/cream.c`, `src/extracredit.c` | threads, locks, a semaphore, one shared global, clients that hang up |
| `Memory_Allocator` (`sf_malloc`, `sf_free`, `sf_realloc`) | `src/sfmm.c` | long histories of calls, list surgery, boundaries of sizes |
| `Linux_Bash_Shell` | `src/main.c` | child processes, signals, job control |
| `Unicode_File_Converter` | `src/utf8.c`, `src/utf16le.c`, `src/utf16be.c`, `src/utf.c` | bit-level encodings and their boundaries |
| `Polybius_Fractionated_Morse_Cipher` | `src/polybiuscipher.c`, `src/morsecipher.c`, `src/hw1.c` | table lookups, round trips, argument parsing |
| `hw0` | `src/hi.c` | nothing: prints a greeting |

### Components, their state and operations

* **The queue** (`queue.c`). State: a linked list `front`..`rear`, the
  semaphore `items`, the mutex `lock`, the flag `invalid`. Operations:
  `create_queue`, `enqueue`, `dequeue`, `invalidate_queue`. The list is guarded
  by the mutex; the semaphore is posted after the mutex is released and waited
  for before it is taken, and `enqueue` reads the semaphore to decide whether
  the list is empty. Correct means: items leave in the order they came, none
  twice, none is lost, no caller sleeps while there is an item.
* **The map** (`hashmap.c`). State: an array of slots, `size`, `num_readers`,
  `invalid`, two mutexes. Operations: `create_map`, `put`, `get`, `delete`,
  `clear_map`, `invalidate_map`. Writers hold `write_lock`; readers count
  themselves under `fields_lock`, and the first takes and the last releases
  `write_lock`. Correct means: writers work alone, a search finds what was put,
  no buffer is freed twice or while it is read, an insertion displaces another
  entry only when it has to.
* **The server** (`cream.c`). `main` accepts connections and enqueues, workers
  dequeue, read a request, call the map, answer and close. State: the globals
  `globalQueue`, `globalMap`, `connectionFD` and the workers' locals. The pointer
  that goes through the queue is always `&connectionFD`. Correct means: every
  client gets the answer to its own request, and its connection is closed.
* **The allocator** (`sfmm.c`). State: the heap, up to four pages that `sf_sbrk`
  appends one by one, and `seg_free_list`, the heads of four doubly linked lists of
  free blocks by size, whose links lie in the blocks. Operations: `sf_malloc`
  (search, split, grow), `sf_free` (join with the free block behind), `sf_realloc`
  (move, split or shrink in place). Correct means: the blocks tile the heap,
  the lists hold the free blocks and nothing else, what callers hold is theirs and
  keeps its contents, a valid pointer is never refused.
* **The shell** (`Linux_Bash_Shell/src/main.c`). State: the job list (`array`, `used`,
  `size`, `jobNames`), the globals `pid`, `childPID` and `nameOfJob`, the masks of
  blocked signals, and the processes it has forked. Operations: a command or a
  pipeline in the foreground, `kill`, `fg`, `help`, `pwd`, `exit`, and the handler of
  SIGTSTP, which makes the entries of the list from whatever the globals say at
  that moment. Correct means: the prompt comes back, a stopped command is in the
  list, an entry reaches the process it was made for.
* **The converter** (`Unicode_File_Converter`). No state but its files; it tells the
  format by the byte order mark, and truncates the output when it knows that it
  is not the input. Correct means: a file converted through any formats stands for
  the same text, and no refusal costs the text.
* **The ciphers** (`Polybius_Fractionated_Morse_Cipher`). State: the tables made from
  the key, the digit or the symbols read and not yet turned into a letter.
  Correct means: what was encrypted is decrypted to the text.
* **The LRU map** (`extracredit.c`, compiled with `-DEC`) is a variant of the map and
  is not modelled (section 6).

The queue and the map are called by the server and by nothing else but their
tests; they do not call each other. The interactions that matter are the
shared global of the server, the two locks of the map, and the lock and the
semaphore of the queue. The shell, the converter and the ciphers share no state with
each other or with the server.

## 2. Modules

| Module | Models | Kind |
| --- | --- | --- |
| `WorkQueue` | what the queue gives its callers: FIFO unless an `enqueue` overlaps another call, and destroyed on closing but for what calls in flight save | abstract specification |
| `CreamQueue` | `queue.c` | detailed specification, implements `WorkQueue` |
| `CreamQueue_proofs` | | theorems about `CreamQueue` |
| `KVStore` | what `hashmap.h` promises while there is room | abstract specification |
| `CreamMap` | `hashmap.c` | detailed specification, implements `KVStore` |
| `CreamMap_proofs` | | theorems about `CreamMap` |
| `CreamServer` | `cream.c`, composed of `CreamQueue` and `KVStore` | composition |
| `CreamServer_proofs` | | theorems about `CreamServer`, by instance of the queue's |
| `SfAllocator` | `sfmm.c` | detailed specification |
| `SfHeap_proofs` | | what the operators of `SfAllocator` do to any heap, and a theorem about it; exact lists, tiling blocks and the steps that change them |
| `SfAllocator_proofs` | | theorems about the heaps that `SfAllocator` has not harmed |
| `Shell` | `Linux_Bash_Shell/src/main.c` | detailed specification |
| `Shell_proofs` | | theorems about `Shell` |
| `Unicode` | the conversions of `Unicode_File_Converter` | operators, and the standard as their reference |
| `Polybius` | `polybiuscipher.c`, the arguments of `hw1.c` | operators |
| `Morse` | `morsecipher.c`, the tables of `const.c` | operators |
| `TextTools` | both programs, run again and again on two files | specification over the three |
| `TextTools_proofs` | | theorems about the converter and the Polybius cipher |
| `TextMorse_proofs` | | theorems about the Morse cipher, and the types of `TextTools` |
| `MCCreamQueue`, `MCCreamMap`, `MCCreamServer`, `MCSfAllocator`, `MCShell`, `MCTextTools` | | instances for TLC |

Definitions whose comment begins with "Mutant" are slips a programmer could
make in the definition that follows. They are no part of the specifications: each
replaces that definition once, to see that a property notices.

### CreamQueue

One action for each stretch of code between two points where another thread
can get in. `enqueue` is `EnqueueLock`, then one of `EnqueueReject` (lines
38-42), `EnqueueOutOfMemory` (44), `LinkFirst` (48-50), `LinkAfterRear` (51-54) and
`LinkAfterFreedRear` (the same lines when `rear` is a node that `dequeue` freed),
then `EnqueuePost` (56), which needs no lock. `dequeue` is `DequeueWait` (61),
`DequeueLock` (62), then `DequeueReject`, `DequeueTake` or, when `front` is NULL,
`DequeueCrash`. `invalidate_queue` is `InvalidateLock`, then `InvalidateReject`,
`Invalidate` or `InvalidateCrash`; the loop of `Invalidate` runs under the lock, so it
is one step. It is called with a `destroy_function` or with NULL, which it refuses, and a
thread that has come back from it is at the place `"false"`, which is what it returns
whether or not it has invalidated the queue.

`list` is what can be reached from `front`. The write through a freed `rear` is
undefined behaviour; whatever it hits, `front` stays NULL, and that is what
the model keeps. A crash ends the behaviour (`crashed`). `overlapped` is a
history variable: an `enqueue` linked its node while another had linked and not
posted, or while a consumer held a unit of the semaphore. It separates what
the queue does guarantee from what it does only when it is not used
concurrently: `SerialExact` and the exactness of `WorkQueue` hold until it is set,
`NoStrandedItem` and `FifoOrder` always. Three more are proved and in no run:
`NoLossWithoutOverlap` until it is set, `MutualExclusion` and `ClosedForGood` always.

`InFlight` counts the producers that have linked and not posted, and the consumers
that have a unit of the semaphore and no item. By as many the semaphore differs from the
list, and so many nodes `Invalidate` may leave undestroyed, overlap or not.
`WorkQueue` therefore is not what `queue.h` promises but what can be relied on: its
`Close` destroys all that is pending but for at most `inFlight` of the newest, and all of it
when nothing is in flight. `queue.h:36-37` promises that it destroys all items in any case
(section 4).

### CreamMap

`put`, `delete`, `clear_map` and `invalidate_map` are `WriteLock` and one step that does
the work and unlocks (`WriteReject`, `PutUpdate`, `PutHome`, `PutProbe`, `PutForce`, `PutFull`,
`Delete`, `ClearMap`, `InvalidateMap`). Treating the work as one step is justified by
what the module itself shows: `WriterExcludesReaders` and `StableWhileRead` say that
nobody reads or writes the slots meanwhile. The one reader that can, the
scan that `invalidate_map` overtook (`hashmap.c:113` is checked before `write_lock` is
waited for), is `GetScanFreed`, whose answer is arbitrary. `get` is modelled lock
by lock, with the first reader holding `fields_lock` while it waits.

A slot has three fields because the code looks at three things: `key_base`
(does the probe of `put` take the slot), `key_len` (is the slot in use) and the
value. `clear_map` resets the lengths and not the pointer, so they differ
afterwards. Buffers are numbered by the call of `put` that brought them, which
makes ownership and double frees visible.

### CreamServer

`Accept` is line 76, `Enqueue` the five steps of `enqueue` taken by `main`, `Dequeue` the
steps of `dequeue` taken by a worker, `Follow` the dereference of line 87, and
`ReadCall`, `ReadHeader`, `ReadBody`, `Operate`, `Reply`, `ReplyValue` and `Close` the rest of
`connectionHandler`. The sockets are modelled from how the code uses them: a
`read` finds its connection by its descriptor when it is called and then waits for that
connection, even if the descriptor is closed meanwhile; it returns nothing
when the descriptor is closed or the client has hung up; a `write` goes to
whoever is at the descriptor at that moment; `accept` takes the lowest free
descriptor. When a `read` returns nothing the local header keeps the last request
(the same stack slot), or is any code if it was never written; the fresh key
and value buffers keep what `malloc` left in them.

A client opens one connection and sends one request at once, so a header or
a body arrives whole. The map has room for every key, so `put` evicts nothing
here (`CreamMap` covers that). `rushed` is a history variable: a connection was
accepted before the server was done with the previous one. What the server answers then is
what `server_lost_request` is about; `HandlerEnds` is the property that speaks of such histories
too. A worker that reads a connection another worker has read waits for bytes that
never come (`Starved`), but nothing else keeps it in its handler, no closed or shared
descriptor and no client that hung up.

### SfAllocator

The heap is a sequence of 8-byte words, and sizes count words: a row of 16
bytes is 2. A word is a tag (header or footer), a pointer, or somebody's data,
so that what the code reads from memory it has not written, or that a caller
has, is what the model reads. The functions are operators on the heap: `sf_malloc` is
`firstAllocation`, `multiplePageAllocations`, `Take` (lines 60-161) or `Grow` (168-292),
`sf_free` is `Trusted` (359-374), `Freed` with `coalescBlocks` (375-381, 402-443) and
`Release` (382-398), `sf_realloc` is `Larger` (316-322) or `Smaller` (323-353). Each has one
action, `Malloc`, `Free`, `Realloc`; `Write` is the caller that fills what it was given.
Callers are correct: they pass no pointer twice and write inside their regions.
New pages hold zeros or arbitrary data.

The allocator does not survive every sequence of correct calls, and the model
says from where on. Operators return `safe`: FALSE when the call
* splits a block that is not the last of its list, or leaves less than 32 bytes of
  it when it does not end the heap (lines 83-119);
* joins or grows over a free block that is not the one its list is searched for
  by size (200-218, 416-440), or makes a remainder the head of a list that has
  others (287-290, 497-500, 560-563);
* puts a block that was written into an empty list (391);
* shrinks an unpadded block in place (351);
* takes pages that leave no room for header and footer, or runs out of pages after
  it took some (184, 226, 509, 524).

`harmed` records it. Without harm everything in the module holds; after it the
blocks may overlap (`allocator_overlap`), and the program may crash, hang or abort.
An access outside the heap or through what is no pointer makes the heap `lost`, where
the model stops. A garbage pointer that is written back is the pointer `Wild`.

### Shell

`main` is a loop, and `pc` says where in it. A command is `BlockChild` (line 360),
`Unmask` (361), `Fork` (362), `Record` (409), `Name` (410), `Wait` (412, and the mask that
`sigsuspend` installs), `Suspend` (413, until a signal has come) and `Remask` (415-423);
a pipeline is the same without `Record` and `Name`, and its `Wait` (351) does not return
for a stop. `ForkHelper` and `WaitHelper` are `help` and `pwd`; `KillJob`, `KillPid` and
`Continue` the builtins on the list; `Leave` ends the shell.

Signals are sets: `mask` is what is blocked, `pending` what is due. `CtrlZ` and `CtrlC` are
the terminal, which reaches the whole process group, because the shell makes no
other: the shell, the foreground command and every earlier job. `sigtstp_handler` is
the handler, with `insertElement`; it runs before the next step of `main` when the
signal is not blocked (`Ready`), and reads `childPID` and `nameOfJob` as they are. A child is
`forked` until it has reset the handler (`bare` when its copy of `nameOfJob` is NULL, at
which the handler crashes), `default` until `execvp`, then `program`.

Process ids are given again once they were reaped, so that a stale entry may reach
another command; `serial` numbers the commands, and the name of a job is that number.
`nameOfJob` is `Junk` when its line was freed; the half of a doubled array that was
never written holds 0 or `Junk`. `caught` is a history variable: the entry was made while
`main` waited for a command that the Ctrl-Z had stopped and that was in no entry yet.
`missed` is another: the commands stopped between lines 362 and 409.

Abstractions: a pipeline is one process, the child that forks the stages and waits for
them; the arguments of a redirection that become null (375, 390) show as a child that
ends; the child of `pwd x` goes on as a second shell (215-222 do not exit), as does that of a
line with too many redirections (401), and is a process that ends sometime; `fork` does
not fail; the model stops where memory is read that was never written
(`Leave`, `HandlerCrash`).

### TextTools, Unicode, Polybius and Morse

A file is a sequence of bytes. A user has a text in the file `a`, and runs one of the
programs again and again from one file to the other, or from a file to itself: `Convert`
and `Refuse` are `utf`, `Encrypt` and `Decrypt` are `hw1 -p`, `EncryptMorse` and `DecryptMorse` are
`hw1 -f`. `holds` is a history variable: what was done to a file.

`Unicode` has an operator for each function of the converter: bits are cut out with `%` and
`\div`. `Encoded` says, independently of them, what file stands for a text. `Polybius` and
`Morse` have the tables as sequences, filled as the code fills them; the loops over
characters are folds whose accumulator is the program's state between two characters
(`inputTaken` and `decryptIndex`; the buffer of symbols and `lastCharWasX`). The loops of
both ciphers test `input` before anything was read into it; `begins` is what it holds
then. `encryptSpace` looks two places back in the buffer, which may be in front of it;
`stray` is what lies there.

Abstractions: the machine is little-endian; UTF-8 files end with a whole character and
UTF-16 files with a whole unit; each option is given at most once; the Morse buffer is
as long as it has to be.

## 3. Runs

| Run | Instance | Shows |
| --- | --- | --- |
| `queue` | 2 producers, 2 consumers, 2 destroyers, 4 calls of `enqueue`, `calloc` may fail | order, tokens and exactness of the queue, that queued items leave, and the refinement of `WorkQueue`, with what `invalidate_queue` may leave undestroyed |
| `queue_null_front` | the same without destroyers or failures | violation: `DequeueFindsItem` |
| `map` | 3 threads, 2 keys of one home slot, 2 slots, 3 calls of `put` | all safety properties of the map |
| `map_as_store` | 2 threads, 2 keys with a home slot each | the refinement of `KVStore`, and that operations return |
| `map_stale_value` | 2 threads, 2 colliding keys | violation: `FindsLatest` |
| `server` | 2 clients at any time, 2 workers, codes PUT, GET and an unsupported one | every worker comes back from its handler, overlaps included, but for one case that `HandlerEnds` names; service of connections that do not overlap |
| `server_in_turn` | 3 clients with any request, one after the other, 2 workers | right answers, closed descriptors |
| `server_lost_request` | as `server` | violation: `EveryRequestServed` |
| `allocator` | 3 pointers, 5 sizes, pages of 6 rows, 6 calls | all properties of the allocator |
| `allocator_overlap` | the same with 4 sizes | violation: `RegionsAreOwn` |
| `shell` | 2 process ids, 3 forks, 3 presses of Ctrl-Z, any of Ctrl-C | no wakeup is lost, stopped commands are listed, entries reach their command, the prompt comes back |
| `text_tools` | 241 texts of up to two of 15 code points; 57 texts for the Polybius cipher, 140 combinations of options; texts of up to 6 characters for Morse, 3 keys | files stand for their text, and both round trips |

Several properties hold of some histories only, and say in their conditions of which:
`overlapped` (queue), `Leaked` (a lock kept by a failed `enqueue`), `staleRead` (map),
`rushed` (server), `harmed` (allocator), `missed` and `caught` (shell). The hazards met outside
them are real: violation runs show the worst that contradict a document, and
elsewhere what the property shows is that the condition names the only cases.

### Bounds

* `MaxCalls` (calls of `enqueue`) is 4: two overlapping calls lose a node, a third
  and a fourth meet the state they left, including a freed `rear`.
* `MaxPuts` (calls of `put`) is 3: two fill the colliding map, and the third must evict
  or duplicate. All other operations are unbounded.
* Two slots with one home slot for both keys make every probe wrap around;
  with `OwnSlots` no probe is needed. Larger capacities are what the proofs are
  for.
* A client is one connection. Two overlap in every way main and two
  workers allow; three in turn are needed for "put, clear, get".
* The runs `server*` set CHECK_DEADLOCK FALSE because the process may exit and
  waits when nobody connects; `queue*` because the calls of `enqueue` are
  bounded and idle consumers wait. `map` and `map_as_store` check deadlock.

* The allocator's page has 6 rows, and the lists take blocks of 2, 3, 4 and more
  rows: a page can be split into blocks of one list or of different ones. The sizes 1
  (padded, shares a list with what is left), 4, 13 (more than a page) and 47
  (more than the heap after header and footer) reach every branch of
  `sf_malloc`, 0 the refusals and `sf_realloc`'s free. `MaxCalls` is 6: three to build a list
  of two blocks, one to disturb it and two to meet the result; the violation
  takes four.
* `HarmedBriefly` in `MCSfAllocator` follows a harmed heap no further than the second call. The
  properties of the run `allocator` but `TypeOK` speak of unharmed histories, and a step into
  harm is always taken; nothing those could refute is cut off. `TypeOK` speaks of harmed
  heaps too and is checked on the first of them only; `SfHeap_proofs!TypeCorrect` proves it
  on all.
* `allocator*` set CHECK_DEADLOCK FALSE since the number of calls is bounded and
  the program may abort.

* The shell's two process ids let one job be stopped while another command runs, and
  three forks let an id be given again; three presses stop, list twice and double
  the array. `shell` sets CHECK_DEADLOCK FALSE since the shell may end, or wait for ever
  for a program that does not end.
* `text_tools`: a conversion treats each character alone, so texts of two characters from
  both sides of every boundary of the encodings are enough; the tables have every
  size the arguments accept at a boundary, two too small for the alphabet and two refused.
  The grouping of Morse symbols by threes repeats after three characters with codes of
  lengths 1 to 5 and the spaces between them, which six characters exhaust.

### Fairness

Weak fairness for each thread that is inside an operation: the scheduler runs
it, and a mutex that is released often enough is not kept from it for ever (calls are
bounded). `CreamQueue` also lets consumers call `dequeue` again and again, as the
workers of `cream.c` do; nobody is obliged to call `enqueue`. `OperationsReturn` assumes
no fairness for beginning an operation and speaks of behaviours in which no
thread begins one for ever, since overlapping readers starve writers.
`CreamServer` assumes that main and the workers keep running; clients may do
nothing. `Shell` assumes that `main` takes its next step when it can (WF of `MainStep`); no
program has to end, and nobody has to type. `TextTools` states no fairness.

## 4. What disagrees with the documentation

* `queue.h:60-61`: `dequeue` returns "NULL if the queue was empty". It reads through
  a null `front` after overlapping calls of `enqueue` (`queue_null_front`).
* `queue.h:36-37`: `invalidate_queue` "calls destroy_function on all items in the
  queue". It destroys as many as the semaphore counts (`queue.c:25`): a node whose
  `enqueue` has not posted yet, or whose unit a `dequeue` has already taken, stays linked,
  is never destroyed and can no longer be dequeued. No `enqueue` needs to overlap
  another call for this. No run refutes the promise; `ImplementsWorkQueue` states what holds: at
  most as many nodes as calls are in flight, and those the newest.
* `queue.h:42`: it returns "true if the queue was successfully invalidated, false
  otherwise". It always returns false (`queue.c:33`); no run shows it, the
  place `"false"` of `CreamQueue` says it.
* `hashmap.h:60`: "If the key already exists, the corresponding value is
  overwritten." Only if it is in its home slot (`map_stale_value`).
* `hashmap.h:62-63`: an entry is overwritten "if the map is full and force is
  true". After `clear_map` also when it is not full, since the slots keep their key
  pointers; no run shows it, `EvictsOnlyWhenFullUncleared` states what holds.
* `cream.c:45`: worker threads are "used to service requests". With two connections
  accepted before a worker reads `connectionFD` the first is never served
  (`server_lost_request`).

* `sfmm.h:122-123`: `sf_malloc` returns "the pointer to a valid region of memory of
  the requested size". After a split the block taken may stay in its list, since line 107
  looks for it by its new size and behind the head; a later call returns the same
  address to somebody else (`allocator_overlap`).
* Remarked without a run: `const.h:48` and `50` say that rows and columns "must be
  between 10 and 16, inclusive"; `validargs` accepts 9 to 15 (`hw1.c:95`, `104`).
  `is_upper_surrogate_pair` (`utf.c:98`) excludes the first and the last of the upper
  surrogates, so a UTF-8 file made from a pair that begins with one is not UTF-8
  (`FilesStandForText` says what it is, exactly).
  `const.c:5-6` say "Any characters which do not appear in the alphabet string should be
  preserved"; only space, tab and newline are, and on any other `encrypt` returns 0
  (`polybiuscipher.c:96-99`) and the program fails. `PolyRoundTrip` speaks of texts that were
  encrypted with success.

## 5. Proofs

All proofs hold for every value of the constants under the assumptions named
in the modules (finite sets of threads; a free mutex is nobody's; the capacity is
positive; the hash function maps keys to slots).

**Queue** (`CreamQueue_proofs`). The invariant is `Inv`: types, the mutex, and the balance
of the semaphore against the list. `NoStrandedItem` is not inductive alone: that
`DequeueTake` removes one item and one token needs to know that the consumer is
counted among `Claimed`, which takes the finiteness of the sets of threads; and
`LinkFirst` needs that the list it replaces is covered by the other tokens.
`FifoOrder` follows from an invariant that numbers nodes by the order of linking.
`Refinement` maps each step to a step of `WorkQueue` or to a stutter. Its two hard cases
are `Link`, which overlaps another call exactly when something is in flight, and
`Invalidate`, which maps to `Close` because `NoStrandedItem` bounds what stays in the list by
`InFlight`.

**Map** (`CreamMap_proofs`). `LockInv` says who holds each lock in terms of where the
threads are, and that `num_readers` counts the readers; without the count "the
last reader releases" cannot be shown to be the last. `TableInv` says that every
entry owns the two buffers of one `put` of its key, that no two entries share
one, that none is freed, and that a key recorded as present has an entry; from
it follow `NoDoubleFree`, `AnswersAreOwn` and `PresentIsFound`. `NearestIsIn` (a probe ends in the set it
looks for, by the well-foundedness of the naturals) is what both probes rest
on. `ReaderInv` and `SizeInv` add what is needed for `AnswerAliveInside`, `SizeCountsEntries`
and `TypeOK`. `EvictsOnlyWhenFull` needs `CleanInv`: until `clear_map`, a slot with a key pointer
has a length. `Latest` and `Refinement` assume `OwnHomes`, a hash function that gives each
key a slot of its own; without it they are false (`map_stale_value`). Under it
`HomeInv` says that an entry is in its key's home slot and holds the latest value, so that no
probe goes further and no put evicts; then each write, and each scan of a `get`, is
the step of `KVStore` at which the operation takes effect.

**Server** (`CreamServer_proofs`; any number of clients and workers). By its
definition the server steps its queue through the actions of `CreamQueue` only (`QueueSteps`), so the
theorems about the queue are used by instance; `QueueInServer` states two of them. `TypeCorrect` needs that
`accept` finds a free descriptor even when unsupported requests keep theirs: each
open one belongs to another accepted client (a pigeonhole argument). `Answers` and `Done` are about
histories in which connections do not overlap. Their invariant is `ServerInv`: `Alone` (at
most one connection is under way: waiting in the queue, in a worker that holds a unit of the
semaphore, or in a handler), `Fresh` (a client not yet accepted was sent nothing) and
`TurnInv`. `Turn(n)` says, for the n-th connection accepted: all before it are done with; the
descriptor in the queue or in the worker's local is that of the n-th; what the handler
has read so far is that client's request (`Reading`), what it has sent so far begins the right
answer (`Answering`); and the map holds what the first n-1 operations leave, or the first n once
`Operate` is past. `LeftStep` and `HistoryKeeps` say how what "the connections before" leave
under a key grows by one connection. Each action has a lemma that it keeps `Turn`.

**Allocator** (`SfHeap_proofs`; any sizes, any number of pointers and calls). The operators are
total: on a heap that a call has damaged they follow garbage until they leave the heap.
`TypeCorrect` says what stays true of such a heap. `Onto(H, G)` is what each of the steps of a
call is shown to do: the program is astray, or the memory is as long as before and
its words have their types. A walk along `next` is a recursive function on sequences that nothing bounds by its
form; `WalkIs` shows by `LoopDefined` that it exists, since it meets at most one address
more than the heap has words, and `SeekIs` what a loop along a list therefore finds.

**Allocator, unharmed** (`SfHeap_proofs` from "Reading after writing" on, `SfAllocator_proofs`). The five properties of the run
`allocator` follow from one inductive invariant, `Healthy`: until a call meets one of the cases
listed under `SfAllocator`, there are addresses `B` of blocks, `F` of the free ones and
lengths `sz` such that
* the blocks tile the heap (`Tile`) and header and footer of each say its length and whether it
  is free; a free one is not marked as padded, and an allocated one that is not padded has a
  footer with the size requested, which is what `sf_free` looks at (`IsBlock`). Without these two
  a valid pointer could be refused;
* the lists hold the blocks of `F` (`Linked`). `Threaded` says it block by block, and no walk is
  part of it: `prev` undoes `next`, a block without `prev` is the head of its class, and a rank
  decreases along `next`. The rank excludes loops of blocks that no head reaches. From
  it follow `HeadMost` (the head has the greatest rank of its class), `Ordered` (nothing lies
  between a block and the next) and `ChainOn`: the walk of `Chain` meets the blocks of the class
  and ends at null. `SeekOn` then says at which block each loop of the code stops;
* every region lies in an allocated block of its own, with what its caller wrote (`Owned`).

`B`, `F` and `sz` are existential, and each operation is shown to have a next choice of them
(`Kept`: the next heap is right, and allocated blocks keep their place, length and words).
A block leaves its list by `SoleOff`, `PopHeadOff`, `DetachOff` or `CutOff`, and joins one by
`PushOn`; tiles are split (`SplitTile`), joined (`JoinTile`) and extended (`GrowTile`,
`StretchTile`). From these, `MallocServes`: `sf_malloc` refuses, or gives out a block of the
length needed that nobody had, by `TakeSound` (a listed block, whole or split) or `HoleServes`
(new pages, with the last block when it is free: `Hole` is a heap with one block whose tags are
not written yet). `FreeServes`: `sf_free` does not abort (`AllocatedTrusted`), and its block
joins the list of its class alone (`FreedAlone`) or with the block behind (`FreedJoined`).
`ReallocMoves`: `sf_realloc` frees, moves (`LargerMoves`), splits (`SmallerMoves`) or shrinks in place
(`ShrunkInPlace`), and the words that both lengths have are there afterwards. `AlwaysHealthy`
puts the actions together; `WalkCovers` says that the walk over the headers, in terms of which
`Blocks` and `BlocksTile` are stated, meets exactly `B`. The assumption is `SizesAssumption`:
even pages and limits of at least four words, the limits in order.

**Shell** (`Shell_proofs`; any number of process ids, commands and presses, any order of
signals). `Core` is the types with `Flow` (which signals are blocked at each `pc`, and whose
the process ids are: what `main` waits for is `pid`, and `childPID` is `pid` from `Record` on)
and `Budget` (a press makes at most one entry). `QuietList` follows from `Flow`: at the prompt
the signal is blocked. `NoLostWakeup` needs `Due`: from the fork to the wait, the SIGCHLD of
a child that has stopped or ended is due. `StoppedAreListed` needs `AllListed`: every
process that Ctrl-Z can stop, now or later, is listed, missed, or the one in the
foreground; without "or later" a job continued with `fg` and stopped again is not
covered. `EntriesAreTheirs` needs `AllFresh`: a process in an entry that was made for its
command is reaped by nobody but `kill`, which clears the entry; apart from that `main` reaps
only the process it has just forked, which is in such an entry only while it is
stopped and `waitpid` returns for that.

**Text tools** (`TextTools_proofs`; texts of any length, any number of runs). `Utf8ReadsBack`,
`Utf16ReadsBack` and `UnitReadsBack` hold for every code point by arithmetic in each range of the
encoding, `PlaceReadsBack` for every place of every table. What is proved of whole texts goes
along them by induction. The library's induction theorems take an operator; `SeqInduction` and
`InductionUpTo` say the same of a set. A loop is a fold, which the community modules define by
recursion over sets; `FoldDefined` and `FoldRun` show that it is the recursion along the numbers
(`Runs`), and `FlattenRun` and the lemmas behind it that what is written for a text is `Each`: the piece
of each character, one behind the other. `ReadsBack` says that a loop that takes such pieces off the
front of a file has the text; `Utf8FileReadsBack` and `Utf16FileReadsBack` are its instances. The
latter is about `Good` characters, those that the reader does not mistake: it takes a pair at the
edge for two of them (`Split`). `UtfInv` is the inductive invariant: every file that holds something
is one of four `Forms` of the text, its bytes in UTF-8, in UTF-16 of either order, or in UTF-8
split; `SplitIs` says that `SplitAtTheEdge`, in terms of which `FilesStandForText` is stated, is
that split. `ConvertForm` shows that a conversion leads from a form to a form. For the Polybius cipher `PolyInv` says what every file
holds: nothing, the text, its encryption or the text again. `KeyThenRest`: a key without
repetitions and the rest of the alphabet are a table in which every character has one
place. `EncryptPrints` and `DecryptRestores` follow the two loops; `Restores` is the state of the second
one after the digits of the first characters, among them that no digit is
pending (`inputTaken`), so that white space is copied between letters and not within one.

**Morse cipher** (`TextMorse_proofs`; texts of any length, any key, any number of runs).
`CodeTable` shows that no two characters have the same code, by numbers (`Num`) for the codes, and
`KeyIs` that a key without repetitions and the rest of the alphabet have every letter once. The
cipher is taken for a sender and a receiver. `Heard` says what a stream of dots,
dashes and x stands for, one symbol at a time: an x ends a letter, a second one is a space, a third
one is no sense. Three lemmas relate the program to it.
* `SecondDecryption`: what the decryption prints for a buffer is what is heard of it, whichever
  symbols its letters end at. A last letter without an x is printed too: a line comes back even when
  neither of the two x at its end completed a triple and was sent.
* `EncryptIsSends` and `DecryptIsTakes`: both loops look one character ahead for a newline and
  print early; a loop that prints when the newline comes prints the same. Only such
  loops can be followed one character at a time.
* `Feed`: a receiver who has heard `h` has heard the whole triples of a buffer when he has received
  their letters. `Tame` is what this needs of every buffer of the sender: no three x in a row, for
  which there is no letter, and an x at the end.

`InStep(p, u, e, key)` is the invariant along the text: `p` is the part that was sent, `e` the
state of the sender, `u` the text that the receiver will have printed when he has also heard what
`e` holds back. `p` and `u` are the same but for runs of spaces (`Alike`), and `u` is sent as `p`
is; without the last, a text that came back could be encrypted to something else the next
time. `LetterInStep`, `SpaceInStep`, `SpaceAgain`, `LineBehindLetter` and `LineAgain` keep it, one for
each kind of character and what came before it. `LineBehindLetter` is where a text changes: of
the two x at the end of a line the second one is sent only if it completes a triple, and is
then read as a space. `MorseReadsBack` puts them together, for a text of lines
(`InLines`) that is encrypted with success. `MorseInv` says what every file holds, as `PolyInv` does.
`TypeCorrect` follows from `UtfInv`, `PolyInv` and `MorseInv`.

**Only model-checked**: every liveness property (`QueuedItemLeaves`, `OperationsReturn`,
`HandlerEnds`, `AcceptedIsServed`, `PromptReturns`), since the prover does not handle ENABLED. Every invariant and
every safety property of a step that a passing run checks is also proved.
`Healthy` itself is in no run: TLC cannot enumerate its `B`, `F` and `sz`, and the
properties that follow from it are what the run `allocator` checks.

## 6. Not modelled

* The parsing of the command line and `openListenFD`: they run before the
  initial state of `CreamServer`.
* The bytes of requests and the Jenkins hash (`utils.c`): a key is a value of a
  set, its home slot a constant function.
* `errno`, the messages, and `pthread_detach`.
* `lib/sfutil.o` of the allocator has no source: `sf_sbrk` appends a page or fails
  beyond the fourth, as `sfmm.c` takes it to. The null pointer, at which
  `sf_free` and `sf_realloc` abort at once, is not passed.
* The shell's `parseLine` (string surgery), `cd` with `PPATH`, `color`, the prompt and what
  `jobs` prints; the stages of a pipeline and their arguments.
* The order of the arguments of the converter and the ciphers; an odd last byte or a
  character cut off at the end of a file; a line of Morse symbols that overruns the 257
  bytes of its buffer, and what lies behind the 90 places of the Morse table.
* The LRU map. It takes the locks and probes as `hashmap.c` does, which `CreamMap` covers.
  What is its own has no specification to check against (`extracredit.h:16`, "keep a counter
  for the least recently used"): `put` returns with `write_lock` held on its error path
  (29-31), `get` writes operation numbers under the shared lock (130-158), and `findLRU`
  (272-282) returns slot 0 whatever the numbers are.
* `hw0`.

## 7. Plan

What is left, in this order:

1. The stages of the shell's pipeline, each a process of its own.
2. The LRU map, as an instance of what `CreamMap` shares with it.
