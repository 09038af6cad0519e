# Verification of the components in `clib` and `golib`

TLA+ specifications of the data structures and concurrent programs of this
repository, the TLC runs that check them on small instances, and TLAPS proofs of
what matters most for instances of any size.

Everything is translated from the source. `PROJECT.json` names, for each
definition, the lines it stands for; a definition "X of y.c" below is found there.

## 1. The system

The repository is a collection of small programs. Those with a logic of their own
are in `src/clib`, and one, an LRU cache, is in `src/golib`; each `.c` file is a program
with its own `main`, and two headers, `cond.h` and `list.h`, are components that
`thread_queue.c` composes.

| component | state | operations | interacts with |
|---|---|---|---|
| `cond.h`, counted condition variable | mutex, condition variable, `cnt` | `cond_init`, `cond_wakeup`, `cond_wait` | pthread mutex and condition variable; called by `thread_queue.c` |
| `list.h`, intrusive list | `prev` and `next` of every node and head | `list_init`, `list_add`, `list_add_tail`, `list_del`, `list_remove_head`, `list_empty`, `list_for_each` | called by `thread_queue.c` under its spin lock |
| `thread_queue.c` | spin lock, list of tasks, a `Cond`; the worker's `node` | `thread_queue_init`, `thread_queue_push`, the worker loop; `main` pushes two tasks, polls the list and exits | `list.h`, `cond.h`; the work functions of the tasks are callbacks |
| `kfifo.c`, lock-free ring buffer | buffer, `size`, `in`, `out` | `kfifo_init` (`nextPowerOfTwo`), `kfifo_put`, `kfifo_get` | one producer and one consumer share it; barriers of `util.h` |
| `pthread_lock_cond_sem.c` | per program: a rwlock, a spin lock, a mutex with condition and flag, a semaphore; `cnt` | `pthread_rwlock`, `pthread_spinlock`, `pthread_cond`, `pthread_sem`, each creates threads, joins them and asserts `cnt` | pthread |
| `pthread_sem_sync.c`, semaphore ring | one semaphore per thread, the line printed | `sync_print`, `do_print` | pthread |
| `hash.c` | buckets of linked entries, `cnt` | `dictCreate`, `dictAdd`, `dictDel`, `dictGet` | `malloc`, `free` |
| `hash_interface.c` | buckets, `used`, `MemTotal`; strings on the heap | `dictCreate`, `dictAdd`, `dictFind`, `dictDel`, `dictDestroy`, `dictDestruct` | callbacks of a `dictType` hash, compare and free keys and values |
| `heap_interface.c` | `root`, `cnt`, links in the callers' nodes | `heapAdd`, `heapGet`, `heapDestruct` | callback `cmp` |
| `heap.c` | as above; the nodes hold the values and are the heap's own | `heapAdd`, `heapGet` | `malloc`, `free`; the same loops as `heap_interface.c` |
| `epoll_multi_instance.c` | `epfds`, the kernel's interest lists and socket buffers | accept loop of `main`, four workers | kernel |
| `golib/lru.go` | map from keys to nodes, circular list of the nodes | `NewLRU`, `Add`, `Get` | - |

`array_and_string.c` and `gostudy` demonstrate language features, and `lintcode` is
notes with code fragments: they keep no state that could be specified.

What is hard, and what makes each component correct:

* **cond.h**: several threads inside `cond_wakeup` and `cond_wait`, signals that find
  nobody, spurious wakeups, a thread that takes the counter before the one that was
  signalled. Correct when it is a counting semaphore: no wakeup is lost, no wait
  returns without one, and a permit is not left while somebody waits.
* **thread_queue.c**: the worker looks at the list in one critical section and sleeps
  in another; wakeups pile up for tasks that are run already. Correct when tasks run
  one at a time, in order, once per push, the worker does not sleep on work, and it
  does go to sleep. Its `main` leaves while the last task may be running.
* **list.h**: order of stores, empty lists, repeated `list_del`, a loop whose body
  changes the list. Correct when the lists are disjoint sequences, on which each call acts as
  its name and its arguments say.
* **kfifo.c**: no lock, counters that wrap at different times, copies that wrap around
  the buffer, late stores. Correct when it is a bounded queue of bytes and the two
  sides never touch the same byte.
* **pthread_lock_cond_sem.c**: races on `cnt`, the lost signal. Correct when no
  assertion can fail and the programs end.
* **pthread_sem_sync.c**: a token left over from the previous line. Correct when each
  line is the one asked for, and the program ends.
* **hash.c, hash_interface.c**: chains after deletions and reuse of memory; who frees
  what, and the exact count of memory. Correct when they are dictionaries that neither
  leak nor dangle.
* **epoll_multi_instance.c**: connections that arrive while the accept loop runs, an
  instance that is not there yet, events a previous read has made stale, descriptors closed
  while events are queued, a `write` whose result nobody looks at. Correct when nobody is left
  in the backlog, no worker touches a closed descriptor, and what is written of a connection is
  what was sent, in order, with nothing missing but what a `write` has dropped.
* **heap_interface.c, heap.c**: exchanges that rewrite up to ten links of six nodes, some of
  them read again in the middle of the round; nodes freed
  after their links have been handed on. Correct when the tree stays complete and ordered,
  `heapGet` returns a greatest node, and the memory of `heap.c` is that of its tree.
* **lru.go**: two structures over the same nodes that each call must change alike. Correct
  when it is a bounded map that drops the key not used for longest and answers with the
  values last added.

`PROJECT.json` lists the hazards line by line ("hazards"), with the properties that
would catch them going wrong.

## 2. The modules

| module | models | state and actions |
|---|---|---|
| `Cond` | `cond.h` | One action per statement; `cpc[t]` is where thread t stands. It has no next-state relation: its owners EXTEND it. |
| `CondClients` | any callers of a `Cond` | each thread calls what it likes, at most `MaxCalls` times |
| `ThreadQueue` | `thread_queue.c` without `main` | EXTENDS `Cond`: `pc[t]` is where a thread stands in `thread_queue.c`, `cpc[t]` in `cond.h`. The list is a sequence, justified by `IntrusiveList`. |
| `ThreadQueueMain` | `main` of `thread_queue.c` | EXTENDS `ThreadQueue`; `mpc`, the history `done`, and `created`: whether `pthread_create` has made the worker, which `main` does not ask |
| `IntrusiveList` | `list.h` | `next` and `prev` as functions on the cells; a call is one step (callers hold a lock), a `list_for_each` iteration is one step; the history `call` is the last call with its arguments and what it returned |
| `PowerOfTwo` | `nextPowerOfTwo` and the masks | operators on sets of bits |
| `Kfifo` | `kfifo_init`, `kfifo_put`, `kfifo_get` | EXTENDS `PowerOfTwo`; a call is a start (length), one step per byte, and a publication; stores reach memory later |
| `PthreadDemos` | `pthread_lock_cond_sem.c` | `part` is the program `main` runs; `cnt++` is a load and a store |
| `SemRing` | `pthread_sem_sync.c` | the tokens, the threads and the line |
| `Dict` | `hash.c` | entries are cells of a heap with `next` pointers; an operation is one step |
| `DictInterface` | `hash_interface.c` with `DictTypeInt` and `DictTypeString` | `state` is the type of the dict there is; strings with content, ownership, `MemTotal`; a chain is a sequence |
| `Heap` | the tree and the loops of `heap_interface.c` and `heap.c` | links on the nodes; a call is a step for the insertion or removal and one per round of the loop, whose stores are applied in their order (`UpRound`, `DownRound`). It has no next-state relation |
| `ValueHeap` | both heap programs | EXTENDS `Heap`; `program` is the one that runs, `allocated` the memory of `heap.c` |
| `LRU` | `golib/lru.go` | `nodes` is the map, `ring` the links, `ret` the last call with its arguments and its answer; a call is one step |
| `EpollServer` | `epoll_multi_instance.c` after `listen` | `mpc` is where `main` stands, `wpc[w]` a worker; the kernel is `backlog`, `interest`, `ready` and the bytes `sent` and `taken`; what was read is in `out` when it was written, and in the history `lost` when `write` did not take it |

What the components promise is stated in `Semaphore`, `TaskQueue`, `SeqLists`,
`BoundedFifo`, `KeyValueMap` (used twice), `PriorityQueue` and `Recency`. `SeqLists`,
`KeyValueMap` and `Recency` have the last call, its arguments and its answer in a variable of
their own (`call`, `ret`), so that a refinement ties each step to the call that was made. The
detailed modules
instantiate these with a refinement mapping and have the abstract specification as a
property (`Implements...`). `ThreadQueue` is the composition of `Cond` with the queue;
its list is what `IntrusiveList` shows the links to implement.

Modules named `MC...` give values to constants, and `...Proofs` hold the proofs: those of
`CondClients` and `ThreadQueueMain` are in `ThreadQueueProofs`, which they share lemmas with,
those of `IntrusiveList` and `LRU` in `CircularListProofs`, those of `Kfifo` and `SemRing` in
`RingProofs`, those of `DictInterface` and `ValueHeap` in `InterfaceProofs`. The definitions
of `ValueHeap` are named for the heap (`HeapInit`, `HeapNext`, `HeapSpec`) because the latter
module has both. `CommonLemmas` has lemmas that several of them need: induction over the
natural numbers and over finite sets, sums over a finite set, and sequences that grow at the
front or lose an element, and powers of two.
`MCIntrusiveList` also puts the two circular lists of the repository, `list.h` and
`lru.go`, side by side: its `program` is chosen at the start, and the other one's state
stays as it is.
A definition marked "Mutant" is a plausible mistake in the definition after it. It is
used to check that a property depends on the code: with the mutant in its place, the
property named in `PROJECT.json` must be violated.

### Choices that matter

* *pthread.* `pthread_cond_wait` releases the mutex and starts to wait in one step; a
  signal releases one sleeper, any one, or is lost; spurious wakeups happen; a released
  sleeper competes for the mutex like everybody else. Locks are granted in no particular
  order. A rwlock is granted to readers past a waiting writer, as glibc does for the
  kind the code sets (the comment "no starvation" on line 55 of
  `pthread_lock_cond_sem.c` is about that kind; the loops are finite, so the program ends
  either way). The attribute `pthread_rwlock` sets the kind of is not initialised; the other
  fields it may contain choose nothing the model distinguishes.
* *kfifo.* The barriers of `util.h` are compiler barriers, because nothing defines
  `CONFIG_SMP`, and the assembly is that of x86. So a processor's loads stay in order, its
  stores stay in order and may be late: each side reads its own counter as it wrote it, and
  the other's as it is in memory. The bytes of a call are written at once, since they
  precede the store of the counter that covers them.
* *Preconditions on callers* are guards: a task that is queued is not pushed again
  (`Unlinked`), a node in a list is not added again (`Free`), a loop body does not delete
  the node the loop is at (`n # pos`), keys of `hash.c` are not negative, a caller of the
  string dict passes strings of its own and does not write to a key the dict holds (the
  test does, on line 364, and takes it back). None is checked by the code; the hazards list them.
  A program uses one type of dict: while it has strings it creates no dict of integers.
* *epoll.* A connection is in the `ready` set of an instance from the moment something
  arrives until `epoll_wait` reports it (edge-triggered): it does not come back for bytes
  that are left. The number the code reads per event (256) is `READ_BUF_LEN`. Bytes may
  arrive between the report and the read, so that the next event is about nothing
  (`EAGAIN`). A connection stands for its descriptor; that a number is used again after
  `close` is the reason for `HandlesOpenOnly`. `epfds[]` is read by `main` while a worker
  may store to it; the aligned `int` that is read is the old or the new one. `main` may
  return at each of its calls; the process, and all workers with it, then ends.
  Line 91 ignores the result of `write`: a `write` may take any number of the bytes it is given,
  none of them when it fails, and the others are dropped with the buffer. `lost` remembers
  them, up to `MaxLost` in a run; no theorem bounds them. That the output blocks for ever, or
  ends the process with `SIGPIPE`, is left out. The branch of lines 189 to 192, which closes
  a descriptor with an error, is never taken: `main`'s instance holds the listening socket only,
  which was opened for `EPOLLIN`.
* *Undefined behaviour.* A bucket `dictCreate` has not cleared is either 0 or `Wild`; an
  operation that follows `Wild` ends in "crashed". `dictAdd` does not check its allocation;
  when that fails the model ends in "nullStore".
* *dict sizes* are below `LONG_MAX`: from there on `_dictNextPower` returns `LONG_MAX` (line
  98), a table nobody can allocate. The `assert` at the end of `dictDestroy` is that `used` is
  the number of entries, which `MemExact` says at every moment.
* *heap rounds.* `heapAdjustUp` reads the old links into locals before it stores any;
  `heapAdjustDown` goes to the grandchildren through links it overwrites a few lines on. A
  link that is stored twice in a round keeps the later value, and a link that is read in
  the middle is read as the stores before it left it.

## 3. The runs

All runs but one pass. Bounds are named constants.

| run | instance | shows |
|---|---|---|
| `cond` | 3 threads, 2 calls each, 2 spurious wakeups | `Inv` (types, mutual exclusion, `cnt` never negative), `NoLostWakeup`, `ImplementsSemaphore` with its liveness |
| `thread_queue` | 2 pushers, 3 pushes of 2 tasks, a task without function, 1 spurious wakeup | `Inv`, `NoSleepOnWork`, `ImplementsTaskQueue` with its liveness, `WorkerSettles` |
| `thread_queue_main` | 3 tasks, 2 spurious wakeups, with and without a worker | `ExitAfterAllButLast`: no task is lost or out of order, and on exit all but the last have returned; `MainExits` (liveness) |
| `intrusive_list` | 2 lists, 4 nodes; or a cache of 3 of 4 keys in 4 nodes | links inverse, `list_for_each` complete and without repetition, `ImplementsSeqLists`: every call at the right end of the right list, a second `list_del` of a node harmless; `ImplementsRecency` of `lru.go`, arguments and answers included |
| `kfifo` | 4 slots, counters modulo 8, 20 bytes, calls of up to 5 bytes | `Occupancy`, `NoSlotRace`, `InOrder`, `ImplementsFifo`; `SizesArePowers` for 0 to 300, 588, and the numbers beside each power of two |
| `pthread_demos` | 3 + 3 threads, 2 rounds of each loop, 2 rounds of `main` | `AssertionsHold`, `WakeupsArrive` (a signal is remembered in the flag, every post in the semaphore), `Finishes` |
| `sem_ring` | the source's 4 threads and 6 lines, 3 numbers per thread | `LineInOrder`, `OneToken`, `Finishes` |
| `dict` | 2 buckets, 4 keys, 4 cells | `HeapMatchesTable` (no leak, no dangling pointer, one entry per key), `ImplementsMap` |
| `dict_interface` | size 3 (4 buckets), 3 integers; 3 texts, 5 strings | `HeldStringsLive`, `MemExact`, `ImplementsMap` |
| `dict_uninit` | the same | **violated**: `NeverFollowsWild`, see below |
| `heap` | 6 nodes of a caller, two of them equal; or 5 blocks with 3 values | `CompleteTree`, `HeapOrder`, `OwnedNodes`, `ImplementsQueue`, `EveryCallReturns` |
| `epoll_server` | 2 workers, 3 connections, 3 bytes, reads of 2, 2 events at a time, 1 hang-up, 1 byte lost | `HandlesOpenOnly`, `OutputInOrder`, `ClosedComplete`; `AcceptsAll` and `DeliveredWhenAlone` (liveness) |

Why the bounds are enough: three threads are a waker, a waiter and one that gets in
between; three pushes of two tasks contain a task pushed again while it runs, and more
wakeups than the worker needs. Four nodes give the middle, both ends and a free node of a
list. The counters of the ring wrap more than twice, requests are longer than the buffer,
and every offset of the wrap occurs. Chains of three entries have a first, a middle and a
last one, and cells are reused. Six nodes make a tree of three levels with one-child and
two-child parents, which the exchanges distinguish; five blocks suffice for the same
shapes and for equal values. A cache of three keys refreshes a first, a middle or a last
one, and with four nodes for four keys it reuses what it has dropped. The ring of
semaphores has more lines than threads, so that the first turn comes back to the first thread. Three connections to
two instances give one worker two of them, hence batches of two events in either order, and
two bytes per read leave the third behind. Of three bytes in two reads, a `write` may drop the
end of the first one, or all of it when it is a single byte, which leaves a gap before the
second (0.4 million states). With four bytes and two lost the invariants hold as well (1.8
million), but liveness takes too long there.

TLC's integers limit the width `W` of an `int` to 30 bits in the run of `kfifo`; the
definitions are for any width, and every shift of the 32-bit code is exercised. The 32 bits
themselves are in the theorem `SizesRoundedUp`.

### Fairness

* Each thread that can take a step takes one in the end (weak fairness per thread), as any
  scheduler of the platform provides. No lock is assumed to be fair: in the modules with
  fairness the calls are finitely many, so a lock is free for good in the end.
* Callers need not call; spurious wakeups need not happen.
* `ThreadQueueMain`: both threads are scheduled, which alone does not make `main` exit: it
  takes the spin lock again and again without a pause, and a pthread spin lock does not
  promise the worker that it gets in between. `MainExits` therefore has strong fairness of
  the worker's locking, and the existence of the worker, as its premise, and says that nothing
  else can keep `main` from exiting.
* `EpollServer`: `main` and the workers go on; the clients need not do anything.
  `AcceptsAll` is about the accept loop, and excuses it when `accept` fails (once, `refused`)
  with somebody in the backlog, because the code then waits for another edge, and when
  `main` returns. `DeliveredWhenAlone` is about a connection whose instance has no other one and
  which sends no more than one read takes: all it sent is handed to `write` in the end, and
  reaches the output but for what a `write` drops.
* `ValueHeap`: a call goes on to its end. The other sequential modules have no liveness.

### The finding

`dictCreate` of `hash_interface.c` allocates the next power of two of the size, and
clears only the first `size` buckets (line 123). For the size 3 of the tests the fourth
bucket is uninitialised, and the first operation on a key of that bucket follows it. The
tests (lines 288 to 298) create such a dict and assert that `dictAdd` returns `DICT_OK`
for seven keys; they pass when `malloc` happens to return zeroed memory. What
`memset` leaves out is the whole of it: `ClearedBucketsStay` proves that no other bucket is
ever followed into nowhere, and `ExactSizesAreSafe` that sizes which are not rounded up (4, 8,
...) are free of the fault.

## 4. The proofs

TLAPS checks, for any values of the constants that satisfy the named assumptions:

| theorem | statement |
|---|---|
| `CondInvariant`, `WakeupsNeverLost` | `ClientsSpec => []ClientsInv`, `ClientsSpec => []NoLostWakeup` (`CondClients`) |
| `RefinesSemaphore` | `ClientsSpec => Sem!SemSafety` |
| `QueueInvariant`, `NeverSleepsOnWork` | `Spec => []Inv`, `Spec => []NoSleepOnWork` (`ThreadQueue`) |
| `RefinesTaskQueue` | `Spec => TQ!QueueSafety` |
| `MainInvariant`, `ExitComplete` | `MainSpec => []MainInv`, `MainSpec => []ExitAfterAllButLast` (`ThreadQueueMain`) |
| `LinksInvariant`, `LinksStayInverse` | `Spec => []LinkInv`, `Spec => []InverseLinks` (`IntrusiveList`) |
| `ListInvariant`, `RefinesSequences` | `Spec => []ListInv`, `Spec => ImplementsSeqLists` |
| `LoopsVisitAll`, `LoopsVisitOnce` | `Spec => []LoopComplete`, `Spec => LoopMeetsOnce` |
| `CacheInvariant`, `RefinesRecency` | the invariant, `Spec => ImplementsRecency` (`LRU`) |
| `RingInvariant`, `OccupancyIsBounded` | `Spec => []RingInv`, `Spec => []Occupancy` (`Kfifo`) |
| `SlotsNeverShared`, `BytesInOrder` | `Spec => []NoSlotRace`, `Spec => []InOrder` |
| `RefinesBoundedFifo` | `Spec => ImplementsFifo` |
| `DemoInvariant`, `AssertionsAlwaysHold`, `WakeupsAlwaysArrive` | the invariant, `[]AssertionsHold`, `[]WakeupsArrive` (`PthreadDemos`) |
| `SizesRoundedUp` | `Spec => []SizesArePowers` if `W <= 32` |
| `SizesDivideRange` | the sizes of the code divide the range of its counters, if `W <= 32` |
| `AlwaysOneToken` | `LinesSpec => []OneToken` (`SemRing`) |
| `LineInvariant`, `LinesInOrder` | the invariant, `LinesSpec => []LineInOrder` |
| `ServerInvariant`, `OnlyOpenHandled` | the invariant, `Spec => []HandlesOpenOnly` (`EpollServer`) |
| `OutputAccounted`, `ClosedAfterAll` | `Spec => []OutputInOrder`, `Spec => []ClosedComplete` |
| `OwnershipInvariant`, `HeldStringsStayLive` | the invariant, `Spec => []HeldStringsLive` (`DictInterface`) |
| `MemoryIsExact`, `RefinesMap` | `Spec => []MemExact`, `Spec => ImplementsMap` |
| `ClearedBucketsStay` | `Spec => []OnlyUncleared` |
| `ExactSizesAreSafe` | `Spec => []NeverFollowsWild` if `TableSize <= Size` |
| `ChainInvariant`, `HeapFollowsTable` | the invariant, `Spec => []HeapMatchesTable` (`Dict`) |
| `RefinesMap` of `DictProofs` | `Spec => ImplementsMap` |
| `HeapInvariant`, `TreeComplete` | the invariant, `HeapSpec => []CompleteTree` (`ValueHeap`) |
| `TreeOrdered`, `BlocksOwned` | `HeapSpec => []HeapOrder`, `HeapSpec => []OwnedNodes` |
| `RefinesQueue` | `HeapSpec => ImplementsQueue` |

The arguments:

* **Cond.** `NoLostWakeup` says that while a thread sleeps, `cnt` is at most the number
  of threads about to test it plus the signals about to be sent. It is inductive together
  with the ownership of the mutex (`MutexInv`), the agreement of the wait set with the
  program counters (`SleepInv`) and `DecInv`: the increment adds a signaller, the signal
  turns a signaller into a tester when somebody sleeps, a tester leaves with a decrement,
  or falls asleep only when `cnt` is 0. `CondInvStep` is stated for one action of one
  thread (`CondAction`), so that `CondClients` and `ThreadQueue` both use it.
  `NoThread` is not a thread, and the set of threads is finite, since their number is
  compared with `cnt`.
* **ThreadQueue.** `NoSleepOnWork` is not inductive: it speaks of the moment the worker
  sleeps only. `WakeupInv` extends it to every point since the worker saw the list empty
  (`FoundEmpty`): as long as no wakeup has been consumed, a non-empty list means that `cnt`
  is positive or that a pusher is about to increment it (`OwesWakeup`). With `NoLostWakeup`
  it gives the property. `SpinInv` and `PlaceInv` say who is where.
* **ThreadQueueMain.** `main` takes the spin lock in its polling loop too, so `SpinInv` is
  replaced by `MainPlaces` (`MainHolds` counts that loop). `NothingLost` is the invariant that
  matters: what has been done, what the worker has in hand and what is in the list are
  together the program up to the last task linked. When `main` has seen the list empty,
  only the task in hand can be missing. What happens inside the `Cond` does not matter.
* **Circular lists.** A sequence `s` of distinct nodes is a `Circle` of `next` and a head
  when `next` leads from the head through `s` and back. `Inserted` and `TakenOut` say
  what the stores of an insertion and a removal make of a circle, for any function `next`, so
  that both lists use them. What the modules compute with recursion, the walk from the
  head (`Walk`, `Met`), is shown to exist by induction on its length (`WalkExists`, from
  `NatSet`, the induction of the natural numbers for a set), to follow the circle (`WalkRound`),
  and to be back at the head for the first time after `Len(s)` nodes (`RoundTrip`), which it
  reaches because a sequence of distinct nodes is not longer than there are nodes.
* **IntrusiveList.** `next` and `prev` being inverse on linked cells is inductive as it
  is; one lemma per primitive (`AddInv`, `AddTailInv`, `UnlinkInv`). `Listed` says that
  the lists are disjoint circles and every node is free or in one of them: what a call does
  to the circle of its list is the abstract operation of the same call, and other circles do not
  change because their cells are not written. For the loops, `LoopInv` says that of the nodes that stayed
  in the list the loop has met exactly those that are not after it, which no insertion or
  removal changes, as they keep the order of the others (`Precedes`).
* **LRU.** `Ring`: the links form a circle on which `pre` is the inverse of `next`, and nothing
  is said of nodes outside it, since `del` leaves a node its links. `Held`: the circle has
  exactly the nodes of the map, each carrying its key, so that the size of the map is the length
  of the circle (`KeysAre`), and the node before the head is the one that leaves both.
* **Kfifo.** The counters are read as the unbounded numbers `sent` and `received` modulo
  `M`. `Lag` is how far a value of a counter is behind: what is on its way to memory is not
  older than what is there (`Newer`), what the consumer has begun to take has been published,
  and what the producer has begun to put fits beside what has not been released
  (`Counters`). Positions that differ by less than `Size` have different slots, which gives
  `NoSlotRace`, and, with `Written` (byte p + 1 of the stream is in its slot until it is got),
  `InOrder`. The refinement maps the publication of a call to the abstract operation; every
  other step is invisible. `Size` divides `M` and is less than `M`; nothing else is assumed
  of it. `SizesDivideRange` shows that this is so for a size of the code and `M = 2^W`. `Slot`
  is modulo `Size`; the code masks, and `SizesArePowers` says that this is the same.
* **nextPowerOfTwo.** The provers evaluate a power of two when its exponent is a number, and know
  nothing of it otherwise. So the powers are shown to double one exponent after the other, up
  to 31 (`Doubled`), which is why the theorems speak of ints of at most 32 bits, and are hidden
  from then on (`Pow`). The bits of a number are the remainders of its quotients (`BitIs`,
  `NumberIs`), and the ones below place e are its remainder modulo 2^e (`LowBits`, hence
  `MaskIs`). `FoldIs` unfolds the six shifts; each spreads the highest bit further (`Top`,
  `SpreadOnce`), so that at the end it is in all places below (`SpreadAll`): one less than
  the next power (`AllOnes`), which is the least that holds the request (`SizeIs`).
* **Dict.** `HeapMatchesTable` speaks of the chains that the `next` pointers spell (`Linked`),
  which says nothing of what a store does to them. `Path` says that a sequence of distinct entries
  is what a pointer leads to; there is one such sequence, and `Linked` computes it, since it
  is no longer than there are entries (`LinkedIs`). The stores of an operation are then
  followed on the sequence: `PathGrown` and `PathCut` for the chain they are in, `PathKept`
  for the others, which have no entry in common with it (`Apart`). `Holds` ties the chains
  to the keys and to what is allocated. `cnt` is at most the number of keys because the key of
  an entry tells the entry. For the refinement, `PutIn` and `DropIn` say what a step does to the
  keys and values of the allocated entries, which is all the map is made of. Assumed are
  finitely many entries, at least as many as keys, and no negative key.
* **DictInterface.** `HeldStringsLive` is not inductive: that a deletion frees strings nobody
  else holds needs that an entry is found by its content only where its hash puts it
  (`Keyed`, which is `Fits` of each chain: right bucket, contents allowed, no two of a kind),
  and that each string is in one entry, on one side of it (`Owned`). The sums the code keeps
  are `Counted` (`used` is the total length of the chains, and the dict holds twice as many
  strings) and `MemExact`, which is inductive with them. Chains are handled by what an operation does
  to their sets of entries (`AddNewTable`, `AddExistingTable`, `DeleteTable`), and what freed
  and allocated strings do to the sum of the bytes by `FreedBytes` and `AllocatedBytes`.
  `IsMap` reads a set of entries as a function from contents to contents; `WalkOfKey` says
  that the walk along a chain finds a key's entry when there is one, so the refinement follows
  from what each operation does to the set (`MapPut`, `MapDrop`, `MapKept`): that what the
  dict and its caller free is in no entry that stays is what keeps the other keys' values.
  Assumed are finitely many strings, none an integer; a positive `TableSize`, which is that the loop of
  `_dictNextPower` ends (a search among all powers of two, of which the provers know nothing);
  and that `Wild` is no chain. A bucket that was not cleared is allowed, and the theorems hold
  up to the crash it may cause and after it. `OnlyUncleared` bounds that crash: a bucket below
  the size asked for is never `Wild`, because `dictCreate` clears it, and no operation turns
  a chain into `Wild` (`StaysCleared`). Only `FollowWild` leads to "crashed" (`CrashIs`), so a
  size that is not rounded up is safe.
* **PthreadDemos.** `cnt` is the sum of what the threads have added (`LockedCount`,
  `SemCount`), counting an increment from its store on (`Stored`), and the lock makes the value
  loaded the current one (`Exclusion`). The lemmas on sums over a set of threads are proved
  by a smallest counterexample. `Flag` follows the condition variable through its one signal,
  and `PostsKept` counts posts: those made are the value of the semaphore and the waits returned.
* **SemRing.** `OneToken` needs `Handover`: when a line starts, all semaphores are 0 and
  nobody has the turn, because threads are joined, and the semaphores made anew, in between.
  `LineInOrder` needs the number of rounds: `Rounds(q, r)` says that the threads up to the
  `r`-th from the first have written q + 1 numbers, the others q, and that the turn is
  the `r`-th's.
* **Heaps.** `CompleteTree` finds the nodes by walking down from the top, which no store
  keeps; the proofs hold them in a sequence instead. `Tree(at, n, ...)` says that the links are
  those of the complete tree with node `at[k]` at place k, and there is one lemma for what the
  stores of an operation do to it: the six nodes a round touches are different ones in the tree
  (`TreeApart`), so that the stores of either loop, in its order, are one exchange
  (`RoundsExchange`); `AddTree` appends a place, `TakeTree` moves the last node to
  the first place, `ExchangeTree` swaps the nodes of two places (`Swapped`), for a child on
  either side, and with or without a node above, beside and below. That the loop over the
  bits of a position arrives at its node (`PositionIs`) is by the quotients of the number
  (`ReachIs`), and needs of `HeapGetOffset` only that it is the weight of the second bit
  as the doubling loop computes it (`IsFrom`). The order is stated on the
  priorities of the places: `Ups` for the node that goes up (every other one is in order with
  its parent), `Downs` for the one that goes down, and `Spans`, without which neither is
  inductive: the children of the node that moves are in order with its parent.
  `UpSwap` and `DownSwap` are one round, and `ChildIs` shows that the child exchanged is the
  greater of the two. `Shape` adds the root pointer, which lags behind in one case only, and
  `Memory` the blocks. The abstract queue sees the set of the nodes in the sequence, which
  the rounds do not change (`Same`), so that a removal takes the first place, which holds a
  greatest node (`GreatestFirst`). Assumed are finitely many nodes, `Null` none of them, and
  integer priorities.
* **EpollServer.** A connection is in the interest list of at most one instance, from its
  registration to its close (`Registered`), so only one worker has events of it
  (`Handling`), and only that worker reads and writes it: what has been read has been written or
  dropped by a `write` (`Account`), but for what that worker has in hand (`Bytes`, `InHand`). `Closing` says that only a connection that
  has ended, with everything taken, is closed. Instances that are not there yet have no
  events, and a close ends the loop over the batch, so that no event is left behind it.

Only model-checked: everything about liveness and ENABLED, which TLAPS does not do. Every
safety property of a passing run is stated by a theorem, and so is the safety part of
`ImplementsSemaphore` and `ImplementsTaskQueue`.

## 5. Not modelled

* Delivery by the epoll server beyond `DeliveredWhenAlone`. A worker reads once per edge and
  drops the rest of its batch at the first `EAGAIN` or end of stream (lines 79 to 92), so
  bytes, or the end itself, may stay in a socket for ever. No text in the repository promises
  otherwise; `EpollServer` has these behaviours, and states what holds of the part that is
  delivered. Bytes that a short or failed `write` drops are lost for good; every property of
  the output says so (`Handed` is written or lost). An output that blocks a worker for ever, and
  the signal of a closed one, are not modelled.
* Failures the code cannot survive and no caller meets: of `malloc` in `hash.c`, of `cond_init`
  in `thread_queue_init` (which returns before the lock and the list are initialised, a result
  `main` ignores), and of the calls that set a pthread program up. The failures the code
  handles are modelled (`DictCreateFails`, `PushRejected`, no node for `heapAdd`) or change
  nothing, and two that it ignores, too: of `pthread_create` (`created`) and of `malloc` in
  `dictAdd` (`AddNoMemory`).
* Negative keys of `hash.c`, sizes of a ring above 2^30, and a task pushed while it is queued:
  see the preconditions above.
* `cond_construct`, `cond_destruct`, `cond_destroy`: allocation and release of a `Cond`.
* The demonstration of `list.h` in `main` of `thread_queue.c`: one sequence of the calls that
  `IntrusiveList` makes in any order.
* `array_and_string.c`, `gostudy`, `lintcode`: no state (section 1).
* printing, except for the line `SemRing` is about.

## 6. Plan

Done: sections 2 to 4. Every component with a state of its own is modelled, and each of their
safety properties is proved. Left is to keep the modules beside the code
when it changes: the lines of `PROJECT.json` first, then the runs, then the proofs.
