# Verification of systems_projects

The repository holds five programs: a sharded key-value store (`kvstore`, C++,
threads and sockets), a caching file library (`fileio`, C), a small kernel
(`weensyos`, C++ and assembly), a game (`snake`, C) and a debugging allocator
(`dmalloc`, C++).  This directory holds TLA+ models of them, TLC configurations
that check the models on small instances, and proofs, checked by TLAPS, that
hold for every instance.  `PROJECT.json` maps each definition to the lines it
models and lists the runs, a mutant for every checked property, the hazards of
the code and the theorems.

## 1. The programs, their state and what makes them hard

| part | state | operations | what is hard |
|---|---|---|---|
| concurrent store (`kvstore/kvstore/concurrent_kvstore.*`) | bucket lists, a shared mutex per bucket | Get, Put, Append, Delete, MultiGet, MultiPut, AllKeys | several mutexes held at once; search-then-write and read-modify-write; operations on several keys must be atomic |
| simple store (`simple_kvstore.*`) | a map, one mutex | the same | explicit lock and unlock with early returns |
| server (`kvstore/server`) | listener, a queue per worker, connections, the configuration | start, stop, accept, work loop, process_request, process_config_loop, join, leave | connections handed between threads while stop() runs; blocking calls, one of them with config_mtx held |
| shard controller (`kvstore/shardcontroller`) | table of connections, condition variable | start, stop, accept, handle_client | detached threads that must be gone when stop() returns |
| network (`kvstore/net`, clients, `repl`) | streams of bytes, sockets | send_message, recv_message, the calls of two clients, the lines of three command lines | partial transfers, timeouts, closed peers, SIGPIPE, a connection that is used again after a failure |
| shards (`kvstore/common/shard.*`) | key ranges | split_into, split_shard, get_overlap, contains | inclusive bounds, conversions between strings and numbers |
| cached file (`fileio/impl/student.c`) | one cached block, offset, sizes | open, close, seek, read, write, filesize | block and file ends, holes, failing and partial disk calls |
| kernel (`weensyos/kernel.cc`) | reference counts, page tables, process table | page_alloc, fork, exit, yield, faults, timer, panics, the memory viewer | running out of memory half-way; shared pages |
| page-table iterators (`k-vmiter.*`) | tables in memory, an iterator | find, next, next_range, try_map, ptiter | large pages, absent levels, addresses that are not canonical; tables freed during the walk |
| hardware layer (`k-hardware.cc`, `k-exception.S`, `boot.cc`) | registers on the kernel stack, images, symbols, the keyboard's modifiers | entry and return, boot, backtrace, check_keyboard | layouts that two pieces of code must agree on; bytes with memory between them |
| library and console (`lib.*`, `u-lib.*`) | the screen, cursorpos | string and number functions, console_printf | edges of words and buffers; programs that print at the same time without a lock |
| game (`snake/src`) | board flags, the snake as a linked list, the name, the terminal | update, place_food, initialize_game, read_name, end_game | two representations of the snake; order of updates; decoding of boards and of UTF-8 |
| allocator (`dmalloc/dmalloc.cc`, `basealloc.cc`) | headers and footers in memory, statistics, tables | dmalloc, dcalloc, dfree | judging arbitrary pointers; reuse; sizes that wrap around |

The server calls a store; its clients, and those of the controller, talk to them
over the connections of `kvstore/net`, and the server is itself a client of the
controller.  In weensyos the kernel uses the iterators and the library; entry
code, console and keyboard lie below it.  The five programs are independent of
each other.

## 2. Modules

A component's module has its state, actions, specification and properties.  A
module `MC...` instantiates it for TLC, and `...Proofs` holds its proofs.  A
definition named "Mutant of X" in its comment is X with a plausible mistake; no
action uses it.  Definitions keep the names of the code where they can.

kvstore

* `KvInterface` - the requests and responses of a store.  `AtomicKvStore` - what a
  store promises: each call takes effect in one step between its call and its
  return.
* `ConcurrentKvStore`, `MCConcurrentKvStore`, `ConcurrentKvStoreProofs` - a step is
  one lock acquisition or one access to a bucket list, so `pc` says which access a
  thread is about to make and two conflicting ones are a data race.  `Locks(r)` has
  the two peculiarities of the code: MultiPut's loop tests `if (b)` and so leaves
  out bucket 0, and AllKeys takes no mutex.
* `SimpleKvStore`, `MCSimpleKvStore` - the returns of false that skip `unlock()` are
  `ReturnFalse`.
* `KvServer`, `MCKvServer`, `KvServerProofs` - start() and stop() step by step, the
  listener, the workers and the clients, with `SimpleKvStore` as the store that
  process_request calls.  accept_client has three outcomes: `Accept`, `AcceptFails`,
  and `AcceptLoses`, where accept() succeeds and getnameinfo() fails: the connection
  (`"lost"`) is then open, and nobody has it.
* `ShardController`, `MCShardController` - the listener, with the same three outcomes,
  the handler threads, and stop() with its condition variable, lost and spurious
  wake-ups included.
* `KvCommands` - which lines the three command lines refuse, which make a call, and
  which read past their tokens.  `KvNetwork`, `MCKvNetwork`, `KvNetworkProofs` - the
  calls themselves: four connections (the server's configuration thread, its admin
  connection, the sharded client, the simple client), the two streams of each, cell
  by cell, and the programs at their ends, the configuration thread with its counter
  and config_mtx, and stop(), which joins it.  A message is a head cell and data
  cells; a transfer may move any part of it, time out, find the peer closed or kill
  the process.  A receiver that takes other bytes for a head reads one of `Misread`.
  Of the server's store the model keeps what others can tell: whether a request has
  missed a key and left the mutex locked (`leaked`), so that the next one never gets
  an answer (`StoreAnswers`, `Stuck`).
* `Shards` - a key is a sequence of digits; the operators translate `shard.cpp`, and
  the state is a vector of shards that is split further.
* `ShardKvProofs` - the proofs about `SimpleKvStore`, `ShardController` and `Shards`,
  one after the other.

fileio

* `Io300File`, `MCIo300File`, `Io300FileProofs` - one action per call, and one per
  level of the recursion of io300_read and io300_write; `flush` and `fetch` are sets
  of outcomes, so that disk calls can fail or write less than asked.  `ByteFile` is
  the interface of `io300.h`: an array of bytes and an offset.

weensyos

* `WeensyKernel`, `MCWeensyKernel`, `WeensyKernelProofs` - the kernel runs with interrupts disabled, so
  `exception` and `syscall` are one step each; inside, pages are taken one at a
  time, in the order of the code, and any of them may be the one that is missing.
  Four user addresses (code, data, heap, stack) in two last-level tables stand for
  the address space, and a fifth one at 4 MB, past MEMSIZE_VIRTUAL, for those that
  page_alloc does not refuse but fork and exit pass over.  At an address that is not
  one of a page, or not canonical, page_alloc panics (`PageAllocPanics`).  `process_main` makes any of the calls and stores of the user
  programs.  `memshow` and `console_memviewer` are the viewer, which runs at the end
  of every interrupt.
* `WeensyVm` - vmiter and ptiter over tables in memory, with large pages, absent
  tables and tables that try_map allocates; the walk of the processor is the
  reference.
* `WeensyLib` - each function of `lib.cc` and `lib.hh` that computes something, loop
  by loop, against what it is for.
* `WeensyEntry` - the pushes and pops of `k-exception.S`, the order of `struct
  regstate`, and what make_syscall declares.  `WeensyMachine` - what reads the
  layout of others: boot loader, images, symbols, backtraces, strings of a process,
  the PCI bus, and the registers of `WeensyEntry`.
* `WeensyConsole` - printers, each with its own cell, and the shared cursorpos;
  programs interleave between characters.  The last words of a kernel that panics
  are laid one character at a time, with nobody else printing.
* `WeensyKeyboard` - keyboard_readc and check_keyboard over the bytes of the
  controller, which is external.  The proofs about it and about `WeensyConsole` are at
  the end of `WeensyKernelProofs`.
* `MCAlgorithms` - `Shards` and the five weensyos modules without a kernel, one of
  them in each behaviour.

snake

* `SnakeGame`, `SnakeGameProofs` - update() split by its outcome (`Collide`, `Move`,
  `Eat`), place_food, set-up, teardown.
* `SnakeList` - `linked_list.c` on a heap of nodes; its proofs are at the end of
  `SnakeGameProofs`.  `SnakeSetup` - initialize_game and
  decompress_board_str, and the first food, which is placed after a refusal too.  `SnakeScreen` - main() around the game: arguments,
  name, window, end of the game.  What is proved about the set-up and the name is at
  the end of `SnakeGameProofs` too.
* `MCSnakeGame` - the four, one of them in each behaviour.

dmalloc

* `Dmalloc`, `MCDmalloc`, `DmallocProofs` - memory in 8-byte words with the layout
  of the code; `verdict` has the tests of dfree in their order; `Places` is
  malloc(3).

## 3. Runs

| run | module, configuration | shows |
|---|---|---|
| `concurrent_safe` | `MCConcurrentKvStore`, `ConcurrentKvStore_safe.cfg` | no data race (`DataRaceFree`) and refinement of `AtomicKvStore` (`Linearizable`) for requests that avoid AllKeys and MultiPut in bucket 0 |
| `concurrent_all` | `MCConcurrentKvStore`, `ConcurrentKvStore_all.cfg` | with every request: races are confined to those two places (`RaceConfined`), and every call returns (`CallsReturn`) |
| `concurrent_bucket0` | `MCConcurrentKvStore`, `ConcurrentKvStore_bucket0.cfg` | violation: a MultiGet in bucket 0 sees two MultiPuts |
| `simple` | `MCSimpleKvStore`, `SimpleKvStore.cfg` | `Linearizable`; calls return until one has answered false and left the mutex locked (`CallsReturnOrLeak`) |
| `server` | `MCKvServer`, `KvServer.cfg` | a request is at one place on its way to one answer (`OneAnswerPerRequest`), `StopLeavesOnlyTheLost`, `RequestsAreAnswered`, `StopReturns` |
| `controller` | `MCShardController`, `ShardController.cfg` | `EraseFindsItsConnection`, `NoThreadOutlivesStop`, `StopReturns` |
| `network` | `MCKvNetwork`, `KvNetwork.cfg` | a response is the whole answer to its call, and no process ends by an exception, until a timeout cuts a payload (`AnswersMatch`); `CallsReturn`, `StopReturns` |
| `io300` | `MCIo300File`, `Io300File.cfg` | on a disk that works, refinement of `ByteFile` (`ImplementsFile`); on any disk the code's own assertions (`check_invariants`) and `CallsReturn` |
| `kernel` | `MCWeensyKernel`, `WeensyKernel.cfg` | `NoPageFreedInUse`, `ViewerTellsTheTruth`, `LossesAreKnown`, `ProcessIsolation`, `EveryoneRuns` |
| `snake` | `MCSnakeGame`, `SnakeGame.cfg` | list and board agree (`SnakeIsOnItsCells`), one connected snake and one food (`SnakeCanGoOn`), `BoardIsTheString`, `NameIsMeasured`, `ListIsSequence` |
| `dmalloc` | `MCDmalloc`, `Dmalloc.cfg` | `BlocksAreOwn`, `StatsAreExact`, `FreesAreJudged` |
| `algorithms` | `MCAlgorithms`, `Algorithms.cfg` | `ShardsPartitionTheKeys`, `OverlapIsExact`, `VmiterIsTheMmu`, `EveryTableFreedOnce`, `LibraryIsExact`, `LaidOutIsFound`, `ConsoleShowsTheText`, `ModifiersFollowTheKeys` |

Bounds and why they are enough:

* Store: three threads, so that two can conflict while a third waits; three
  buckets with keys in bucket 0 and in others, so that MultiPut's gap matters and
  locks are taken in more than one step; MultiGet and MultiPut list keys out of
  bucket order, twice, and with too few values.  In `concurrent_all` both need the
  mutexes of two buckets and more and name their keys in opposite orders, so that
  locking in the order of the keys would end in a deadlock (the mutant
  `NextInKeyOrder`).
* Server: one worker, so that a client waits behind another in its queue, or two, so
  that queues differ from the workers' own connections; two clients with one request
  each; clients may connect before start() is done, and accept_client may fail
  before or after accept().
* Controller: two clients, so that the table is emptied by one handler while
  another is being entered; accept_client may fail likewise.
* Network: payloads of two cells, so that a transfer can stop inside one; a counter
  of failures that ends the configuration thread after two; every connection by
  itself, and the configuration thread together with a client that needs
  config_mtx; one call after a cut, which is enough to read the rest of the old
  message.  Timeouts happen on a connection that is used by itself.
* Shards: two characters and keys of up to four, sixteen buckets; every number of
  shards from one to sixteen and every further split.
* File: blocks of two bytes and files of up to three blocks (two when the disk
  fails), so that one call crosses a block end, a hole spans blocks, and the end
  of the file lies before, in and after the cached block.
* Kernel: seventeen pages, twelve of them below PROC_START_ADDR, where the viewer
  without a process shows lost pages; a process needs eight and a fork seven more, so
  two processes with their own pages fill the machine, a fork with less memory fails
  at each of its allocations, and so does a page_alloc at 4 MB, which needs a table.
  Reference counts wrap at 256.
* Page tables: three levels of two entries, so that large pages exist at one level
  and walks stop at each; four tables besides the root, so that try_map runs out
  of pages half-way; two mappings, the second of which may replace the first.
* Library: words of six bits, so that every number of a word, and those just too
  large, are tried; buffers and strings of a few bytes, all overlaps of a copy.
* Machine: sectors of two bytes and segments that start and end inside them; stacks
  whose words are every mixture of frame pointers, and two pages of code around what
  they return to, mapped or not, so that the bytes looked at reach over the end of a
  page; three slots with two functions
  on the bus.  The registers of `WeensyEntry` are all those of x86-64.
* Console: two rows of two columns and two programs: four characters wrap and
  scroll.  Keyboard: three keys held together and two bytes in the controller.
* Game: a board of six by five cells with walls and grass, up to twelve foods:
  the snake fills the board.  The list has four nodes, so that the first, an inner
  and the last one can be removed.  Board strings have up to two rows of two runs,
  with each kind of mistake; names up to four bytes, of every UTF-8 length.
* Allocator: three calls in a heap of 32 words, with empty blocks, blocks that can
  hold a header, and the two sizes on either side of the overflow test.

`network`, `snake` and `algorithms` do not check for deadlock, because the systems
may stop there: processes exit, games end, and a question has one answer.  Nor does
`concurrent_all`, where threads that wait for each other violate `CallsReturn`.
Symmetry is used over the threads in `concurrent_safe` and over the programs of
the console in `algorithms`; neither run checks a liveness property.

Fairness.  The threads of the store, of the server, of the controller and of the
network are weakly fair: the operating system runs a thread that can run.  A
blocked lock is not an enabled step; std::shared_mutex and std::mutex are not
assumed to be fair, and each thread makes a bounded number of calls.  One
exception: the handlers of `network` are strongly fair, since one that waits for
config_mtx competes with the configuration thread for ever; that thread sleeps for
250 ms between two rounds with the mutex free.  The clients of `server` are fair
too: a client that can send, receive or close does.  The code needs it - see
section 5.  Nothing is assumed of the clients of `controller`, nor of a user of a
command line, and stop() does not rely on spurious wake-ups.  A call of the file
library that has begun goes on.  The timer of the kernel is strongly fair: an
interrupt that arrives while the kernel runs stays pending until a process runs.

## 4. Proofs

Eight modules prove, for every value of the constants, what the runs check on small
instances.  In each `IInvHolds` shows that an invariant `IInv` is inductive, and
the theorems named below follow from it; a second component of the same module has
an invariant of its own (`ControllerInv`, `ShardInv`, `KeyboardInv`, `ConsoleInv`).

`ConcurrentKvStoreProofs`: every set of threads and keys, every number of buckets,
hash function and set of well-formed requests.

* `IInv` is `TypeOK /\ MutexInv /\ HoldInv /\ ControlInv`.  `MutexInv` says that a
  shared mutex has one writer or any readers, `HoldInv` that a thread holds nothing,
  a prefix of `Locks` or all of it, depending on where it is, in the mode of its
  operation, and `ControlInv` which operation a thread is in and how far its loop
  has come.  None of these is inductive alone: what a thread holds depends on its
  request, and the request on where the thread is.
* From it `TypeCorrect`, `LocksAreDisciplined`, `LocksAreOrdered` (a waiting
  thread holds smaller buckets only), `RacesAreConfined`, and `UpdatesAreGuarded`.
* With `GuardedRequests` - no AllKeys, no MultiPut in bucket 0 -
  `GuardedStoreIsRaceFree` and `GuardedStoreHasNoDuplicates`.  The latter
  strengthens the invariant with `SearchIsCurrent`: what insertItem has found is
  still so when it writes, because no other thread may write the bucket.
* `GuardedStoreIsLinearizable`: for those requests the store implements
  `AtomicKvStore`.  `LinInv` adds to the invariant that what a thread has read is
  still so while it holds the bucket: Append and Delete have the item of their key,
  MultiGet the values of the keys it has been through.  MultiPut holds all its
  buckets from its comparison of the lengths on; the mapping adds to the map what
  its loop has still to store.

`ShardKvProofs`, the simple store: every set of threads, keys and requests, any
number of calls.

* `SimpleStoreIsLinearizable`: the store implements `AtomicKvStore`.  A single-key
  operation takes effect in its body, MultiGet at its last turn and MultiPut at its
  first; the mapping adds to the map what the loop of MultiPut has still to store.
* It needs that only the owner of the mutex is inside an operation (`OwnerInv`),
  that MultiGet's copies are still what the map has (`GetLoopInv`) and that MultiPut
  has compared the lengths before its loop turns (`PutLoopInv`).  That a failing
  MultiGet answers false rests on there being a first key that is missing.

`KvServerProofs`: every number of workers, clients and requests per client, clients
that connect before start() is done included.

* `StopShutsAllButTheLost` and `RequestsAreServedOnce`.  A connection is with the
  listener, in one queue or with one worker and nowhere twice (`PlaceInv`); the
  queues that stop() has been through have no open connection (`ShutInv`); how
  far stop() is says which threads have ended (`MainInv`); and a connection is lost
  only by the step that ends the listener, so that no second one is (`ListenerInv`).
  Without `PlaceInv` one worker could answer a request that another has already
  answered.

`ShardKvProofs`, the controller: every set of clients.

* `HandlersFindTheirConnection` and `StopOutlivesTheThreads`.  `ConnTableInv` says that
  threads run just for the connections in the table and the one the listener is
  about to enter; that this one cannot be erased before it is entered takes
  `ConnsMutexInv`, and that none is entered after stop() takes `ControllerStopInv`.
  `LostInv` says of lost connections what `ListenerInv` says in the server.

`ShardKvProofs`, the shards: every alphabet of two characters or more, every
granularity, and every number of shards up to the number of keys.

* `ShardsArePartition` and `OverlapsAreExact`.  `ShardInv` says that the shards are
  ranges of buckets, one behind the other from the first bucket to the last.  That
  this is about keys rests on the lemmas `KeysCompare` - keys of one length compare as
  their buckets, since the characters behind the first that differs add less than its
  power - and `BucketHasKey`: bucket_to_str and str_to_bucket undo each other.
* The loops of `shard.cpp` are functions from the number of turns to the value so far.
  `TurnsExist` shows that such a function has the values its loop computes, and
  `UpFrom` (a counterexample would have a least turn) takes the place of induction.

`KvNetworkProofs`: every length of a payload, every bound of the failures and every
set of connections used together.

* `ResponsesAnswerTheirRequests`.  `LinkInv` says of a connection without a timeout
  that it is quiet, or that one message is under way: the cells in the stream and
  those the sender still has are just what the receiver expects (`Flight`).  When
  an end is gone, the other has a prefix of that (`LostHandler`, `LostCaller`).
  `ExceptionInv` says that an exception ends a process only after a timeout, and
  only the server or the controller.

`Io300FileProofs`: every block size, size of the file and set of bytes.

* `AssertionsHold`: the code's own assertions hold whatever read() and write() do.
  The invariant is that the block is aligned and what is valid of it lies inside
  the bound, and that what a write has still to store fits into it.
* `CachedFileIsAFile`: on a disk that works, the cached file implements `ByteFile`,
  a write with its call and a read at its last level.  `DataInv` says what the disk and the
  block have together between calls (`Quiet`), which bytes a write has stored so far
  and which a read has returned.  The theorem is for uses with `WorkingUses`: a file
  open for reading is not written to, and a write has bytes.  Both are needed:
  the cache accepts a write to a file that cannot be written, and a write of no
  bytes past the end goes wrong (section 5).  The uses of the run satisfy it.

`DmallocProofs`: every heap, every set of sizes up to (size_t)-1, any number of calls.

* `BlocksStayApart`, `FreesAreRight`, `StatisticsAreExact`.  The invariant relates
  the pieces malloc() has handed out, the tables of the base allocator, the pointers
  of the program and the words of headers and footers; `StrayInv` says that a word
  which looks like the first one of a header is one, although the program may copy
  headers into its blocks: this is why dfree can trust what it reads.
* `StatsAreExact` has a sum over the live blocks.  `SumInv` says that active_size is
  the number of their words, a word being a pair of its block and its place there, so
  that a block that comes or goes changes a cardinality by its size.

`SnakeGameProofs`: every board whose walls enclose it, as the code assumes.

* `TypeCorrect` and `SnakeStaysOnItsCells`: the cells with FLAG_SNAKE are those of
  the list, each in it once.  The invariant also says that food is never on the
  snake or a wall (`FoodInv`) and that no cell of the snake is a wall (`BodyInv`);
  without them the head could leave the board, or eat itself.
* `SnakeCanAlwaysGoOn` adds `GoOnInv`: neighbours in the list are neighbours on the
  board, the next step does not lead to the second cell, and there is one food.

`SnakeGameProofs`, the list: every number of nodes and every set of contents.

* `ListInvHolds`: there is a sequence of nodes, each in it once, with the head first,
  whose pointers lead both ways through it, and every other node is free.
  `ListIsASequence` follows call by call: the invariant says which node stands at
  each place, and so what the walks find and which pointers a removal or the reversal
  changes.  `Cut` is what the three removals have in common.

`SnakeGameProofs`, the name: every name, of any length.

* `NameIsRight`.  After each turn of mbslen's loop the bytes passed over are as many
  characters as it has counted (`MbslenCounts`); and wherever the bytes can be cut into
  characters, the turns end at the cuts (`MbslenFinds`), so that -1 means that they
  cannot.

`SnakeGameProofs`, the set-up: every set of dimensions and runs, any number of rows.

* `BoardIsRight`.  `Filling` says that in front of each run the board is what stands in
  front of it in the string, that the rows read are as long as the board is wide, and
  that all cells are of the four kinds.  What has been read begins the cells of the
  whole string (`SpreadBegins`), so what is refused now makes the whole string
  unacceptable; rows of one length fill the board (`JoinedEven`), so what is accepted
  leaves no cell unwritten.  The food lies inside the array whenever the dimensions
  could be read (`FoodInside`), and on a free cell when the board is accepted
  (`FoodIsPlaced`).

`WeensyKernelProofs`: every amount of memory and every number of processes that a
reference count can hold.

* A page table has slots: its levels and the user addresses.  `IInv` says that a page
  stands in one slot of one page table, except a code page, which stands in the code
  slot of all processes that share it; that the count of a page is the number of its
  slots, or 1 for a lost page; that only code is mapped read-only; and that the table
  of a process is whole, so that a page mapped into it takes no page for a level.
* From it `UsedPagesAreCounted`, `ViewerIsRight` and `ProcessesAreIsolated`: no step of
  a process changes what another one finds in its memory.  `PagesAreLostAsKnown` says
  what a fork takes, page by page, and at which of them it may fail: a page is lost
  in four ways only, those of section 5, although page_alloc is called at addresses
  that it should refuse.
* They are for `DataOnly`: no program allocates over its code page.  The programs of
  the repository allocate above their data only.  The system call does not refuse
  such an address, and then counts go wrong as section 5 says: each time one reference
  too many is left behind, and after 256 of them the 8-bit count of a page in use
  would be 0.

`WeensyKernelProofs`, the keyboard: every number of keys held together and of bytes in
the controller.

* `ModifiersAreRight`.  `ModifiersToCome` is about the bytes still to be read: a
  modifier whose last byte there is that of a press has its key down, and one without
  a byte there is on only with a key down.

`WeensyKernelProofs`, the console: every size of the screen, set of programs and
position.

* `TextIsShown`.  `ShowsInv` says that what a printer has laid, alone, stands before its
  cell, the last character nearest, as much of it as fits; wrapping keeps that, and
  scrolling moves text and cell together.

The assumptions are those on the constants, which TLC evaluates on every run:
`BucketAssumption`, `HasherAssumption`, `RequestsAssumption` and `MaxOpsAssumption` of
the stores, `NWorkersAssumption` of the server, `NetworkAssumption`,
`CacheSizeAssumption`, `MaxSizeAssumption`, `BytesAssumption` and `UsesAssumption` of
the file (a write is not longer than the bound of the file), `DmallocAssumption`
(hdr_sz + ftr_sz and the addresses fit into a size_t), `KernelAssumption` (a count
holds every process, and memory the first ones), `KeyboardAssumption`,
`ConsoleAssumption`, `ShardAssumption` (split_into is asked for no more shards than
there are keys), and `DimensionAssumption`, `BoardAssumption` and
`EnclosedAssumption` of the game, `NodeAssumption` and `DataAssumption` of the list
(an element points to something, never NULL), and `NameBytesAssumption` (a byte is a
number) and `SetupAssumption` (dimensions and counts are numbers; the model, and so
the proof, leaves out counts that overflow an int).

Proved and checked: `DataRaceFree`, `RaceConfined`, `Linearizable` of both stores,
`StopLeavesOnlyTheLost`, `OneAnswerPerRequest`, `EraseFindsItsConnection`,
`NoThreadOutlivesStop`, `AnswersMatch`, `ShardsPartitionTheKeys`, `OverlapIsExact`,
`check_invariants`, `ImplementsFile`, `ProcessIsolation`, `NoPageFreedInUse`,
`ViewerTellsTheTruth`, `LossesAreKnown`, `ModifiersFollowTheKeys`,
`ConsoleShowsTheText`, `BlocksAreOwn`, `FreesAreJudged`, `StatsAreExact`,
`SnakeIsOnItsCells`, `SnakeCanGoOn`, `ListIsSequence`, `NameIsMeasured` and
`BoardIsTheString`.  Proved, and left out of the runs: the type
invariants, `LockDiscipline`, `LockOrder`, `NoDuplicateKeys` and `GuardedUpdates`.
Only model-checked:

* liveness (`CallsReturn`, `CallsReturnOrLeak`, `RequestsAreAnswered`, `StopReturns`,
  `EveryoneRuns`), which the prover cannot do;
* what `WeensyVm`, `WeensyLib` and `WeensyMachine` compute (`VmiterIsTheMmu`,
  `EveryTableFreedOnce`, `LibraryIsExact`, `LaidOutIsFound`).  Those of an iterator
  would need arithmetic of powers of two and trees of tables, which the solvers do not
  find; the other two are answers to lists of small questions, of which a proof would
  cover no more than the run does.

## 5. Where the code does not do what its documents say, or what one would expect

`concurrent_bucket0` is a run of its own.  These the models contain as the code
has them, and the properties are stated around them:

* `simple_kvstore.cpp` 11, 50, 68, 84: a failing operation leaves the mutex locked;
  the sequential tests make failing Gets and then go on.  `CallsReturnOrLeak`.  The
  server uses this store (`server.cpp` 9): after one request for a missing key the
  next one is never answered, and stop() waits for its worker for ever.
  `RequestsAreAnswered`, and `CallsReturn` and `StopReturns` of `KvServer` and
  `KvNetwork`, except that.
* `concurrent_kvstore.cpp` 130: AllKeys races with every update, which
  `test_parallel_allkeys_delete.cpp` expects to be safe.  `RaceConfined`.
* `server.cpp` 16: a client that connects before the queues are made makes the
  listener index an empty vector (`crashed` in `KvServer`).
* `server.cpp` 231: a worker stays with an idle client, and stop() waits for it;
  `server.hpp` says that a worker exits when the server has been stopped.  With
  clients that may be idle for ever, `StopReturns` of `KvServer` does not hold.
* `network_conn.cpp` 103: when getnameinfo() fails, accept_client forgets the
  connection that it has just accepted.  The client waits for ever, stop() does not
  close the connection, and the listener ends.  `StopLeavesOnlyTheLost`,
  `NoThreadOutlivesStop`.
* `server.cpp` 200: a failed accept ends the listener for good.  `server.cpp` 351:
  after too many failed rounds in a row the configuration thread ends for good.
* `static_shardcontroller.cpp` 159, `network_conn.cpp` 16: a connection is shut down
  but its descriptor is never closed ("should be automatically freed once it goes
  out of scope").
* `network_messages.cpp` 97: a timeout inside a payload leaves the rest of it in
  the stream, and the connection is used again: the next call reads the rest as a
  head.  It may throw, or wait for bytes that nobody sends, since a head is awaited
  without a timeout.  The properties of `KvNetwork` hold until such a cut.
  `network_messages.cpp` 42: the payload is sent without MSG_NOSIGNAL.
* `shard.hpp` 73: a key shorter than the granularity may be in no shard, although
  split_into "splits the entire valid character range".
* `student.c` 196, 210, 229, 303, 334: seek and close ignore disk errors, filesize
  does not count cached bytes, a failed level of a read is added up as -1 bytes,
  and a write of no bytes past the end of the file makes a later read skip a block.
* `kernel.cc` 426: page_alloc over a mapped page does not free it ("Any memory
  previously located at `addr` should be freed", `u-lib.hh`).  Over a shared code
  page, which `AllocAt` of the run leaves out, the reference count then grows with
  each fork and exit beyond what `valid()` accepts; `DataOnly` of the proofs excludes
  it.  `kernel.cc` 489: fork loses the copy of the stack page when the table for it
  cannot be had.  `kernel.cc` 428: so does page_alloc with the page it has taken.
  `LossesAreKnown`.
* `kernel.cc` 406: page_alloc takes any address, although `u-lib.hh` 99-101 promises
  an error for one that is not aligned, below PROC_START_ADDR or not below
  MEMSIZE_VIRTUAL.  One that is not aligned or not canonical ends in a panic.  A page
  from MEMSIZE_VIRTUAL on is not copied by fork (`kernel.cc` 471) and is not freed when
  its process exits (`kernel.cc` 540): it is lost (`LossesAreKnown`).  Below
  PROC_START_ADDR the mapping of the kernel is replaced (not modelled).
* `k-memviewer.cc` 126: once every process has exited, the viewer takes the pages
  from PROC_START_ADDR on for those of processes, so that only the lost pages below are
  shown as lost (`ViewerTellsTheTruth`).
* `k-vmiter.cc` 81: try_map(pa, 0) inside a large page
  answers 0 and changes nothing.
* `lib.cc`: base 16 takes the characters ':' to '?' for digits, and "0x" alone is
  E_INVAL with the end pointer at the start; `WeensyLib` states what happens.
  `u-lib.cc` 12: panic indexes its buffer with the length that vsnprintf would have
  liked.
* `lib.cc` 673: two programs that print from the same cursorpos overwrite each
  other; `ConsoleShowsTheText` is about a printer whose cells nobody else wrote.
* `k-hardware.cc`: lookup_symbol may miss an address that two symbols share;
  strlcpy_from_user goes on copying behind a NUL; both shift keys have one bit, so
  letting go of one turns the other off.  `k-exception.S` expects no error code from
  exceptions 21, 29 and 30, for which newer processors push one.  `k-pci.hh`: writew
  and writeb add the low bits of the address to the data, not to the port.
* `game.c` 147: place_food fails its assertion "No empty or grass-only cells" when
  its random draws have missed the free cells.
* `game_setup.c` 122: initialize_game calls place_food also when the board has been
  refused.  Once the dimensions could be read, the food lands in the array, on a cell
  that may never have been written, or the assertion about free cells fails; without
  dimensions the pointers and sizes it uses were never set (`BoardIsTheString`).
* `game_setup.c`: a bad character with the count 0 is accepted; `snake.c` 110: main
  plays on a board that was refused.  `linked_list.c` 124: malloc is not tested.
  read_name asks again and again at the end of input, and cuts a long name inside a
  character (which mbslen finds out).  `game_over.c` is off by one in the digits of
  a score that is a power of ten, which only moves the text.
* `dmalloc.cc` 122: the free of an empty block at the top of the heap is refused as
  "not in heap" (`FreesAreJudged`).  `dmalloc.cc` 202: an overflowing dcalloc sets
  fail_size instead of adding to it.

## 6. What is not modelled

* Unfinished parts of the repository (marked TODO there): Query, Join, Leave and
  Move of the controller, get_server and process_config.  The models have them as
  they are: they answer, find nothing and change nothing.
* The vendored `zpp_bits.hpp` (a quarter of the repository) and with it the bytes of
  a payload; the set-up of sockets and the resolution of addresses; the options of
  main().
* `naive.c` and `stdio.c` of fileio, which pass every call on and keep no state, and
  `student_old.c`, which the Makefile does not build.
* Of weensyos: the descriptor tables, the APICs, the boot sector's assembly and the
  parallel port, which are writes to registers; the parsing of format strings, which
  `WeensyLib` and `WeensyConsole` take as parsed; the seed of rand().  What
  the instructions that check_leaf looks at say is a choice; which bytes it reads is
  not.  Calls of page_alloc below PROC_START_ADDR, which replace mappings of the kernel,
  and other addresses past MEMSIZE_VIRTUAL than the one at 4 MB.
* Which character of the game is drawn where.
* The tests, the stress tools and the scripts of the repository.
* Signals other than SIGPIPE, stack depth, and exhaustion of memory other than where
  it is named.

## 7. Plan

The modelled part covers what the repository has of its own logic, and the safety
properties of its concurrent programs, of the kernel, of the shards and of the
allocator are proved.  What is left:

* The loops of `WeensyVm` and `WeensyLib` as functions of the number of turns, as
  those of `Shards` and of `SnakeList` are; then `VmiterIsTheMmu`, `EveryTableFreedOnce`
  and parts of `LibraryIsExact` can be proved for every number of levels and width of
  words.
