# A TLA+ verification of moderncli

moderncli (namespace `tycho`) is a header-only C++ library: every component is a
header under `src/` of the repository, written `x.hpp` below. This directory
holds TLA+ models of its threads, its synchronisation and lock-free classes, its
owners of memory, files, sockets, processes and keys, and its readers of text;
the TLC configurations that check them; and TLAPS proofs, for every value of the
constants, about most of the components. `PROJECT.json` maps each definition to the lines it models and lists the runs,
the mutants, the findings, the hazards and the theorems.

## 1. Inventory

| Component | State | Operations | What is hard | What makes it correct | Modules |
|---|---|---|---|---|---|
| `task_queue` (`tasks.hpp`) | deque of closures, `running_`, one thread, handlers | dispatch, priority, notify, clear, startup, shutdown, setters | notifications outside the lock, a wait without predicate, restart against an unfinished stop, a task stopping its own queue | nothing run twice or out of order, no lost wakeup, a stop that is seen and returns | TaskQueue, TaskService, TaskQueueProofs |
| `task_pool` (`tasks.hpp`) | queue, workers, `accepting_`, `started_` | start, dispatch, resize, shutdown | one `notify_one` per task, joins outside the lock, several owners, a task that drains its own pool | nothing left behind by a drain, no idle worker beside a queued task | TaskPool, TaskService, CondVar, TaskPoolProofs |
| `timer_queue` (`tasks.hpp`) | multimap time -> (id, period, closure), `stop_`, one thread | at, once, periodic, repeats, finish, cancel, reset, refresh, clear, startup, shutdown | sleep with a deadline against changes of the front, a task that stops its own queue | in order, in time, no drift, cancellation is final | TimerQueue, TimerQueueProofs |
| `semaphore_t` (`sync.hpp`) | `count_`, `active_`, admitted threads | acquire forms, release, resize, reset, wait | waiters counted as active, timeouts, cancellation | exact accounting, admission bound | Semaphore, SemaphoreProofs |
| `barrier_t`, `event_sync`, `wait_group` (`sync.hpp`) | counts, `sequence_`, `signaled_` | waits, release, reset, notify, add | slow wakers, signals consumed early, work added late | lockstep, one pass per signal, waiters leave when all is settled | Barrier, EventSync, WaitGroup, SyncProofs |
| `semaphore_lock`, `sync_counting`, `sync_group`, locked pointers (`sync.hpp`) | a reference to the object they hold | construct, move, assign, destroy; `unlock`, `lock`, `release`, `swap` of the locks the pointers inherit from | moves, also between threads; members of the lock that leave the pointer | given back once, a pointer tied to the lock of what it reaches | Permits, WaitGroup, LockedPtr, SyncProofs |
| `sequence_t`, `once_t`, `atomic_ref`, `stack_t`, `buffer_t`, `dictionary_t` (`atomics.hpp`) | atomics, arrays, linked buckets | fetch, exchange, push, pull, pop, insert, remove, find, clear | every atomic access is a step of its own, a search with a key that was moved from | what goes in comes out, once | AtomicWord, Stack, Buffer, Dictionary, DataProofs |
| `mempager`, `mempool`, `memreuse`, `shared_mem` (`memory.hpp`) | pages, slots, spare objects, shared blocks | alloc, create, release, clear, moves | moves, page ends, use counts read by several threads | handed out to one user, freed once, wiped by the last | MemPager, MemPool, SharedMem, DataProofs |
| `args` (`args.hpp`), hash ring (`hash.hpp`) | options and their values; map of points | parse, set; insert, remove, get | precedence and repetition; collisions | every argument used once; keys move only with their node | Args, HashRing, DataProofs |
| `Socket`, `ref_t`, `posix_file` | a descriptor | open, adopt, copy, move, release | numbers are used again | closed once, by the one holder | Descriptors, SystemProofs |
| `map_t`, children (`process.hpp`) | a mapping and a name; processes | create, access, detach; async, spawn, wait | two objects, one name; failed fork, interrupted wait | points at mapped memory; answers for its own child | SharedMap, Children, SystemProofs |
| `address_t`, `service`, `interfaces` (`socket.hpp`) | a `sockaddr`; a list of the system's | set, assign, parse, print; update, release, move | families, scopes and lengths, a size taken from what was held before; a second update | comes back from its text, as far as it has one; list freed once | Address, SystemProofs |
| `pager_file` (`filesystem.hpp`), `keyfile` | file and copies of its header; shared sections | open, get, put, resize, sync; load, write | several handles; a crash or a full disk in the middle of a line or a page, newlines in values | read back as written, or as the named part of it | PagerFile, KeyFile, SystemProofs |
| `serial_t`, `socket_stream` | terminal settings; buffers and `so_` | open, set, dtr, close; put, get, sync, wait, stop | several handles; partial sends, bytes buffered when the stream ends, a stop from another thread | settings restored; bytes in order, once, and missing only for a known cause | Serial, Stream, SystemProofs |
| `scan`, `encoding` | none | readers; base64 and hex | ends of the text, widths | a text is read as what it says, or refused | Scan, Encoding |
| `bignum`, `x509`, `sign`, `eckey`, `digest`, `cipher` | handles of OpenSSL | copies, moves, operators, derive, sign, update, set | reference counts, failures half way and unnoticed, a key without a cipher | freed once, never shared uncounted | BigNum, KeyHandles, Digest, Cipher, CryptoProofs |
| `thread_t`, `parallel_task`, `funcs`, `sync_arrival`, `wait_arrival`, `print`, `secure`, `random`, `endian`, `array`, `select`, language helpers, Windows branches | little or none | thin wrappers | the wrapped library | | not modelled, see section 6 |

The components interact through calls only. Closures run in the threads of a
queue or pool and may call any public operation back: the calls that do to the
thread they run in what a client's would not, a stop or a drain of their own
queue or pool, are actions of their own in the models; `task_pool` and
`task_queue` offer the same promise to their callers, which `TaskService` states
once. The classes that own descriptors meet in the kernel's table, which
`Descriptors` therefore has in common for all of them. The faults the code can
meet are in the models: exceptions, timeouts, spurious wakeups,
`std::terminate`, failing and interrupted system calls, short sends, writes that
stop in the middle of a line or a page, a crash or a full disk during a save, a
peer that hangs up, allocations, keys and derivations refused by OpenSSL.

## 2. Plan

1. (done) `tasks.hpp` with the abstract service, the blocking half of `sync.hpp`,
   proofs about `TaskQueue`.
2. (done) `atomics.hpp`, the scoped handles of `sync.hpp`, memory, args and hash
   ring; the owners of system resources; the readers of text; the classes over
   OpenSSL.
3. (done) Proofs about the threads (`TaskQueue`, `TaskPool`, `TimerQueue`), all of
   the blocking classes and scoped handles of `sync.hpp`, the classes of
   `atomics.hpp` and `memory.hpp`, the parser of arguments, the hash ring, the
   classes over OpenSSL, and the owners of descriptors, mappings, children,
   addresses, address lists and terminals, key files, pager files and streams.
4. What is left of the partly modelled components: moves of a `dictionary_t`,
   `hmac_t`, and moves of a `pager_file`.

The modules are written to be proved about: constants with named assumptions,
one action per critical section or atomic step, invariants as conjunctions of
named parts. Only `Scan`, which is checked and not proved about, has RECURSIVE
operators.

## 3. Modules

A critical section of a component's mutex is one action, because nothing else
can look at the protected state inside it. What the code does outside the lock
(a notification after `unlock()`, a join, running a closure) is a step of its
own, with a program counter (`pc`, `disp`, `thr`, `wpc`) that says where the
thread is. In the lock-free classes, and where a second thread may intervene
(`Stream`, `SharedMem`, `Children`), every access to shared state is a step. The
classes that one thread uses at a time (owners of memory, files, keys; readers)
have one action per call, and what can go wrong is the sequence of calls.

Calls that only read, or return early without a change, are not actions. Time is
a counter or an unconstrained choice. Variables marked "history" do not exist in
the code: they record what the properties are about and guard nothing. Each
module names the mutated forms of its definitions before the definitions.

Threads:

* **TaskService** - the promise of a dispatcher: a line of accepted closures,
  from whose front they begin, each once. `line`, `begun`, `dropped`.
* **TaskQueue** - `task_queue`. `disp` is the place in `process()`: `"loop"`,
  `"waiting"` (in `wait_for`), `"running"` (a closure), `"closing"` (the shutdown
  strategy), `"done"`. `wait_for` has no predicate, so waking takes a task without
  testing `running_` again (`Wake`). `aborted` is `std::terminate` through
  assignment to a joinable `thread_`. A closure of `StopTasks` calls `shutdown()`
  on its own queue: `join` throws, `process()` catches it, and `thread_` stays
  joinable.
* **TaskPool** - `task_pool`. `drain()` is three steps: stop accepting and notify,
  join, forget the workers. Walking `workers_` without the lock while another
  owner changes it is undefined behaviour; the model lets it pass or end the
  process. `raced` remembers that owners overlapped. A closure of `DrainTasks`
  calls `shutdown()` or `resize()` on its own pool: it waits for the workers before
  its own (`"joining"`), and the join of itself leaves the noexcept `drain()`.
* **TimerQueue** - `timer_queue`. The multimap is the sequence of its elements in
  iteration order; `emplace` goes after equal keys. `deadline` is what the
  sleeping thread waits for. `reset()` and `refresh()` copy a closure through a
  reference to the element they erased: `broken` may become true, and the
  behaviour ends there. `misuse` remembers what may end the process: a restart, a
  task that stopped its own queue (`TaskStops`: `stop_` is set, the join throws and
  is swallowed, `thread_` stays joinable for the destructor) and a task that threw
  what is no `std::exception` (`TaskEscapes`).
* **Semaphore**, **Barrier**, **EventSync**, **WaitGroup** - the classes of the
  same names. `~0U` is the constant `Cancelled`. **CondVar** is
  `std::condition_variable` as they use it: who sleeps, and what `notify_one` and
  `notify_all` do. A thread in a wait is `"asleep"` or, once notified or woken
  spuriously, about to `"test"` its predicate.
* **LockedPtr**, **Permits** - the scoped handles. A locked pointer has its `ptr_`
  and, apart from it, the mutex its base class refers to (`lock`) and whether it
  owns it (`owned`), because the members of `std::unique_lock` and
  `std::shared_lock` are public: `Unlock`, `Relock`, `Release` (what it leaves locked
  is in `raw`, for `RawUnlock`) and `Swap` leave `ptr_` as it is. `opened` and
  `detached` remember which were called. `Permits` gives each handle the thread it
  is in, because `semaphore_t` remembers thread ids.

Data:

* **AtomicWord**, **Stack**, **Buffer**, **Dictionary** - one action per atomic
  access. A word is `Width` bits wide and wraps. The comparison of the `int`
  `count_` with the `size_t` `S` in `stack_t` is modelled with its conversion.
  `Dictionary` is one bucket; deleted nodes stay in the model so that a step onto
  one is seen. `try_emplace()` moves its key into a node before it searches, and
  looks for what is left (`Searched`): the key itself, or `EmptyKey` for types that a
  move empties (`EmptiesOnMove`).
* **MemPager**, **MemPool**, **SharedMem** - pages, slots and blocks with an
  identity each, so that a second use or a second free is seen.
* **Args**, **HashRing** - an argument is what `parse()` tells apart, a hash any
  placement of the virtual nodes. The constructor of a ring from a list is given by
  what it leaves: each point has the first node of the list that is placed on it.
* **Scan**, **Encoding** - the functions themselves, over sequences of characters;
  the state is one call and its answer. Integer types
  keep their wrap-around at a smaller width.
* **BigNum**, **KeyHandles**, **Digest**, **Cipher** - who holds which handle of
  OpenSSL. The library is external: a reference count, a number, what a context
  was fed, and a refusal wherever it may refuse. `derive()` does not look at the
  result of its last step: `Leaves` has what it may then hand out under the size
  asked for. A `keyphrase_t` that was default-constructed has no cipher, and an
  object keyed with it reads through a null pointer (`NullCipher`, after which
  nothing happens).

System:

* **Descriptors** - `Socket`, `ref_t`, `posix_file` over one table of numbers, in
  which a closed number is handed out again; every open file has an identity the
  program cannot see. **SharedMap**, and the lists in **Address**, likewise.
* **Children**, **Address**, **KeyFile**, **PagerFile**, **Serial**, **Stream** - the
  classes of these names; what the system holds (processes, the file, the
  terminal, the connection) is state of its own beside the objects'. A Unix path is
  a prefix of one path, known by its length; `FirstSlash` is where its first slash
  is, without which a text is no path. The size of a path that `set(sockaddr *)`
  copies is that of the path held before, and of any length where an address with
  a port is held (`PathHeld`). A value of a `keyfile` is a blank, a text, one with
  blanks around it, one with a newline, whose rest becomes a line of its own
  (`Strays`), and what may be left of the text when its line is cut off (`Cuts`). A
  page or header that was written in part is `Torn`. `lost` in `Stream` is the set of
  causes for which bytes written have gone.

For TLC:

* **MCSync**, **MCData** (with the classes over OpenSSL), **MCTools** (which adds the
  readers of text to `MCData`) and **MCSystem** instantiate the modules that
  share no state. `focus`, fixed at the beginning, says which of them moves, so
  that the run is the sum of the runs over each, and none multiplies the states
  of another. They are parametric where something is proved of them: their
  constants get their values, and a word on each, in the `.cfg`.

For TLAPS: **TaskQueueProofs**, **TaskPoolProofs**, **TimerQueueProofs**,
**SemaphoreProofs**, **SyncProofs** over `MCSync`, **DataProofs** and
**CryptoProofs** over `MCData`, **SystemProofs** over `MCSystem`.

## 4. Runs

| Run | Shows |
|---|---|
| `queue` | Two owners, a restart and a closure that stops its own queue: `QueueInv` (no lost wakeup, a stop is seen, at most one task started after it), nothing run twice (`AtMostOnce`) or out of order (`DispatchOrder`), `std::terminate` only while somebody is inside `shutdown()` or after a closure stopped the queue (`AbortNeedsOverlap`), refinement of `TaskService`; `shutdown()` returns, and a queue seen empty and then joined has finished its tasks (`ShutdownReturns`); queued tasks are run without the timeout of `wait_for` (`QueuedIsRun`). |
| `pool` | Two owners, a closure that throws and one that drains its own pool: enough workers awake, the process ends only after a race, a throw or such a drain (`PoolInv`); a drain leaves nothing and a resize takes effect unless owners raced (`OwnerServed`); refinement of `TaskService`; `drain()` returns, accepted tasks finish. |
| `timers` | Order, wakeups in time, termination only after a restart, a task that stopped its own queue or one that threw what is no `std::exception` (`TimerInv`); no drift, nothing early, cancellation final (`OnSchedule`); due timers are run, `shutdown()` returns. |
| `sync` | `SemaphoreInv` and `SemaphoreServes`: `active_` exact, nobody admitted beyond the count, cancellation lets everyone go, the last admitted thread to release wakes `wait()`. `BarrierInv`, `EveryoneLeaves`: arrivals counted in their round, a thread whose round is over leaves, undisturbed threads stay in lockstep. `EventInv`, `SignalConsumed`: a signal is neither slept through nor spent twice. `GroupInv`, `GroupServes`: work settled once through any moves, waiters leave exactly when all is. `HandlesInv`: a locked pointer is tied to the lock of what it reaches, and owns it, unless it was unlocked, released or swapped; permits through any moves. |
| `data` | `WordKept`: tickets unique until the wrap, `once_t` once, no update lost. `ClaimsBalance`: failed calls of a stack cancel nobody's claim, nothing is written outside the arrays, no slot is read from a buffer before it was written. `DictionaryKept`: while `remove()` and `clear()` run alone no node is lost, no deleted one touched, no key missed, and a key is there twice only if inserts overlapped or `try_emplace()` searched with a key that its move had emptied. `MemoryKept`, `EachArgumentOnce`, `RingKept`, `TextRead`, `CryptoHeld`: see the inventory. |
| `system` | `DescriptorsOwned`, `MappingsHeld`, `AnswersForItsChild`, `AddressesKept`, `FilesKept`, `SettingsKept`, `DeliveredInOrder`: one owner per resource, and what is stored or sent comes back, whole or as the part the comment of the property names. |
| `timer_refresh` | Violation. `refresh()` of a periodic timer that is due erases it and returns true. |
| `semaphore_binary` | Violation. Two threads and a count of one: the releaser comes back before the woken waiter runs, and both sleep for ever. |
| `stack` | Violation. `pop()` reads the slot above the one `push()` wrote. |
| `buffer` | Violation. `pull()` and `pop()` store `tail_` and never move `head_`. |
| `pager` | Violation. A block the size of a page less a pointer ends beyond its page. |
| `stream` | Violation. `stop()` from another thread closes a descriptor the stream is about to use. |

A property of `sync`, `data` or `system` that speaks of several classes has a
mutant in several of them (`PROJECT.json`, "mutants").

Many properties carry an exception, and the exception is what the code does:
each is named in the comment of the property. Examples: a cancelled or timed-out waiter that leaves a semaphore last does not
wake `wait()`, and of two threads in `wait()` only one is woken; a `start()` by
another owner can leave `drain()` waiting for workers that nobody stops; a
`semaphore_lock` released in another thread loses its permit; a `posix_file`
moved by assignment is closed twice; a spawn whose `fork` failed reaps any child;
a single byte encoded in base64 comes back with a zero behind it; a locked pointer
that was unlocked, released or swapped reaches its data without the lock (this is
what is left of `FEATURES.md:190-193`, which has the data accessed "only when a lock
is being actively asserted"; `test/sync.cpp` itself calls `unlock()` and keeps the
pointer); a derivation whose last step fails hands out bytes without a secret; a
scope is not in the text of an address, and a path cut before its slash has no
text that reads back; a stream that ends drops what it has buffered. A property
with its exception says that nothing else can go wrong, and TLC refutes it for
the exact form without. `DueIsRun` is checked with offsets above zero: a client
that keeps resetting due timers to the present can keep one from being run.

### Bounds

Two clients suffice for every race between two calls, and the dispatch, timer
or worker threads race with both. Two or three closures show order and a queue
that is longer than one; three against up to three workers make a pool queue
tasks while some workers sleep. Two starts are one restart. Two timers and two
ticks make one timer overtake another, and a periodic one run late. Three
threads, a limit that `reset()` lowers and three rounds let a slow thread meet
later rounds. Four waiters on an event make `notify_one` choose.

Three threads at a word of two bits make it wrap; a stack and a buffer of three
slots, the least the code allows, are filled and emptied beyond their ends. Two
threads and two keys in one bucket are every pair of operations on a list; three
nodes let one be removed between two. Two objects of each owning class, or
three handles, reach every copy, move and assignment between them, and as many
numbers, blocks or lists as let one be used again. Two readers, a writer and a
guard reach every exchange between two locked pointers beside a third. One of the
two keys of the bucket is what a move leaves of the other. A path may be cut before,
at and behind its slash, and be longer than `sun_path`. Two bytes come in on a
stream, so that they could change places. Three nodes of two virtual
nodes on six points collide in every way with each other. Texts are all the
sequences of up to four characters over the ones a reader tells apart, and
longer ones where a width or a third colon matters; data to encode has up to
six bytes, two groups.

Widths are scaled with everything that is compared to them: `int` to 1023,
`uint64_t` to 2^20, `size_t` to 256 for lengths up to six, a word to two bits.
The digits that overflow them are among the inputs.

`MaxStarts`, `MaxConfigs`, `MaxTimers`, `MaxTime`, `MaxRounds`, `MaxNotifies`,
`MaxCount`, `MaxOps`, `MaxPush`, `MaxPop`, `MaxPull`, `MaxNodes`, `MaxPages`,
`MaxBlocks`, `MaxShared`, `MaxArrays`, `MaxObjects`, `MaxArgs`, `MaxSets`, `MaxRingCalls`,
`MaxFd`, `MaxOpens`, `MaxMapped`, `MaxSegments`, `MaxFaults`, `MaxLists`,
`MaxLength`, `MaxData`, `MaxCalls`, `MaxPagerCalls`, `MaxSerialCalls`,
`MaxBytes`, `MaxInput`, `MaxRaw`, `MaxUp`, `MaxLeaks`, `MaxPieces` and `MaxLive` are bounds
of the model, each in the guard of the action it limits. `CHECK_DEADLOCK FALSE`
stands where the process may have ended in `std::terminate`, where a bound is
reached with every thread at rest, or where threads may all sleep as in the
semaphore finding.

### Fairness

A thread that can run is scheduled, closures return, an admitted thread
releases its semaphore, and the threads of a barrier keep coming to it (in
`MCSync`, while the barrier is in focus). No client is obliged to begin a call,
no spurious wakeup is owed, and no timeout of `wait_for` is: the default is a
minute and any value may be set, so liveness of the queue must come from
notifications. Only the timer thread is sure to wake at its deadline, for that
is what `wait_until` is there to do, and its clock advances. `MCData` and
`MCSystem` check safety only and assume no fairness.

## 5. Proofs

Each theorem holds for any number of threads, objects, calls and values that the
named assumptions allow. They ask for little: that the sets of threads or
objects that play a part are among the threads or objects, that bounds are
naturals, that sets which are counted are finite, that model values which stand
for "nothing" are not among the values. What else they ask for is what the code
asks for: `SemaphoreAssumption`, that `~0U` is more than any count given to a
semaphore and more than the threads that could be counted twice in it;
`StackAssumption` and `BufferAssumption`, the `static_assert` that a size is above
two; `PagerAssumption`, that a pointer has a size; `WordAssumption`, a word of at least two bits; `AddressAssumption`, that a port
in an address is not zero; `KeyAssumption` of `KeyFile`, that there is data for one
keyfile at least; `RingAssumption`, that a node has virtual nodes (without any it is
in the ring by name only) and that there are fewer nodes than `size_` can count;
`ArgsAssumption`, that a counter takes no value, as the constructors of `option` have
it; `KeyAssumption` of `KeyHandles`, that a variable is of one class. TLC evaluates
all of them in the runs.

**TaskQueueProofs**

* `TypeCorrect`: the type invariant, action by action.
* `Invariance`: `QueueInv`. `NoLostWakeup` and `StopIsSeen` are not inductive
  alone. That a client in `join` finds a notified sleeper needs to know that it
  is alone there and that `running_` stays false (`StopperAlone`), which needs a
  dispatch thread to exist exactly while `thread_` is joinable (`OneDispatcher`).
  That at most one task is late needs that `late` is zero while the thread
  sleeps or the queue runs (`LateOnlyFromSleep`): only `Wake` can take a task
  after `running_` fell, and it leads to the top of the loop, which tests.
  `WakeupTheorem`, `StopTheorem` and `LateTheorem` are read off it.
* `TerminateTheorem`: `AbortNeedsOverlap`. Inductive as `StopHasCause`: a joinable
  thread of a stopped queue, or a process that ended, has its cause, namely a
  client inside `shutdown()` or a self-stopping closure that was started. A client
  leaves `shutdown()` only by joining the thread, and what was started stays so.
* `Refinement`: each step is one of `TaskService` or changes none of its variables.
* `OnceTheorem`, `OrderTheorem`: from `OrderInv` over `Whole`, the started closures
  followed by the queued ones. Taking the front leaves `Whole` as it is;
  `dispatch()` appends with a rank above all others; `priority()` inserts a
  closure without a rank between the two parts; `clear()` cuts the second part
  off, whose elements are not in the first because `Whole` has no duplicates.

**TaskPoolProofs**

* `PoolTheorem`: `PoolInv`. It is inductive with `WorkersKnown` (the vector is empty
  exactly when the pool is not started, what was joined had exited), `TargetsKnown`
  and `TakenIsRunning` (a task taken from the queue has returned or is in a
  worker). That enough workers are awake for the tasks queued is an inequality
  between cardinalities; each action moves one worker, or one task, in it.
* `OwnerTheorem`: `OwnerServed`, an action property. `Unraced` says what an owner may
  rely on until the calls of two of them overlap: it is alone, it has joined every
  worker when it clears the vector, and finds the pool stopped when it starts it.
* `Refinement`: the pool implements `TaskService` too.

**TimerQueueProofs**

* `TimerCorrect`: `TimerInv`; `ScheduleKept`: `OnSchedule`. Both follow from
  `TimerIInv`. The multimap is proved about first: what `emplace` and `erase` do to
  the set of elements, and that they keep it ordered and ids distinct
  (`WellOrdered`). `OnTime` ties the expiry of each element to the time its id was
  set for plus whole periods, which the lemma `LapsTimesPeriod` carries over one
  more lap; `DeadlineFirst` says the sleeping thread waits for nothing later than
  the front unless it has been notified; `StopKnown` and `StopIsSeen` are as in the
  queue, but for a queue that a task of its own stopped, whose thread is on its way
  out; with them `AbortNeedsMisuse` is inductive.

**SemaphoreProofs**

* `ActiveIsExact`: `active_` is the number of threads admitted plus the number
  acquiring, no action can make it count one twice, and while the count is
  cancelled no thread sleeps. `AdmissionBounded`: the action property that no
  step admits beyond the count in force.

**SyncProofs** (over `MCSync`)

* `SemaphoreTheorem`: `ActiveIsExact`, carried over by INSTANCE.
* `BarrierTheorem`: `BarrierInv`. `ArrivalsCounted` is about the round in progress,
  so that no thread may be waiting in a round to come (`RoundsBegun`). Lockstep
  becomes inductive as `InStep`, which places each thread by whether it is about
  to leave: that everyone arrived is the cardinality of all threads but one.
* `EventTheorem`: `EventInv`, with `UnspentSignal`: a signal that stands has not
  been passed on, so passes stay behind notifications.
* `GroupTheorem`: `GroupInv`, the count is what handles and unclaimed work add up to
  through any moves. `GroupLeaveMeansDone`: the step in which a waiter leaves.
* `HandlesKept`: `HandlesInv`. For the pointers, two handles own one mutex only as
  readers (`LocksExclusive`), and one that was not parted from the mutex of its data
  refers to it and owns it unless it was unlocked (`PtrTied`); what `AccessIsLocked`
  says of the data follows, for a swap parts mutexes from pointers but leaves each
  with one owner.
* Each is first proved of the component's own specification; `StepOfEach` shows
  that a step of `MCSync` is a step or a stutter of each component.

**DataProofs** (over `MCData`)

* `ContainersCorrect`: `ClaimsBalance`. For the stack, `ItemsDistinct` and
  `AnswersNumbered` make each write and each answer count once in the balance
  between `count_` and what threads have claimed and not settled; for the buffer,
  `HeadNeverMoves`, which is the finding of the run `buffer`, and `FirstSlotFilled`.
* `WordsCorrect`: `WordKept`. `DrawnInTurn` gives each draw of a `sequence_t` as a
  distance from the first modulo the width, so that two of less than a turn
  differ; `NetIsCell` says the cell is the sum of all updates modulo the width.
* `MemoryCorrect`: `MemoryKept`, from one invariant for each class. `PagesInv`: a page
  is in one list, and every block of it ends where the rest of the page begins or
  before (`BlocksBelow`), so that a block cut off the rest meets no other, wherever
  the page ends. `SlotsInv`: a `mempool` has its array to itself (`ArraysOwned`), and
  the slots it counts as used are those on its list and those outside, each once
  and below the count (`SlotsSplit`), which is what makes the next unused slot new;
  it is claimed until `clear()` is called with slots outside.
  `SparesInv`: an object is alive, or on one list of a `memreuse`, once. `MemInv`:
  nobody joins the handle of a `shared_mem` that is about to wipe, and one that lets
  go of a block with contents leaves it to a live handle, unless it was wiped, two
  destructors met or a move assignment let it go (`WiperAlone`). That a list without repetitions is as long as its
  set is large (`OnceCounted`) is a bijection, not an induction.
* `DictionaryCorrect`: `DictionaryKept`. That the list holds exactly the live nodes is a
  statement about reachability, and without induction over data it has to be said in
  another way: there are ranks that fall along the links, differ between live nodes,
  and leave out none between a node and its successor (`Ranked`). A node put in front
  gets the highest rank, a node taken out leaves the others theirs, and that all live
  nodes are reached follows because the naturals are well-founded. A search is placed
  by the rank it is at: what it looks for is not behind it (`AheadOf`). The rest of
  `DictGood` is who may be where: a remover is alone, the nodes it unlinks or drops are
  its own, `count` differs from the list by the threads between their two steps
  (`DictCounted`), and of two nodes of one key two inserts overlapped, or one was made
  after a search with the emptied key (`KeysOnce`). It
  is claimed as long as `remove()` and `clear()` run alone, as the property is.
* `RingCorrect`: `RingKept`, an action property and an invariant. `MovesOnlyItsKeys`
  compares the owner of a key in two rings, which is the least point at or above the
  key's, if any (`OwnerPoint`): a step that adds or removes the points of one node
  leaves every other least point. `RingHeld`: without collisions every point of a member
  is its own and there are no others; with collisions nothing of the sort holds.
* `ArgsCorrect`: `EachArgumentOnce`. While `parse()` runs, `Tallied` says of every option
  what its value tells of the mentions in the arguments before the one at hand and in
  the letters of that one already taken, and `ValuesGiven` whose value each argument is;
  each step adds one mention to one tally, as named (`TalliedNamed`) or spelt
  (`TalliedSpelt`).

**CryptoProofs** (over `MCData`)

* `CryptoCorrect`: `CryptoHeld`, from one invariant for each class.
  `BigInv` and `CipherInv` rest on `OwnedBy`: the objects point to distinct numbers or
  contexts, and there are no others; one lemma each for a fresh one, a freed one and
  one handed over. That an allocation finds a free handle is the pigeonhole: there is one
  handle more than objects (`HandleFree`). `CiphersKeyed` is kept with it, for the objects
  that the library did not refuse a key. `DigestInv` is the property with its types.
  `KeyInv` gives the references of a key as the number of objects and of certificates
  that have it and of those `derive()` lost (`KeysCounted`), and those of a certificate
  as the number of its objects (`CertsCounted`). A call changes what one object has, and
  the count by what it gets less what it had (`HaveItChanged`); a move is two such
  changes. That a certificate without references has no key, and an object that is not
  there nothing (`Vacant`), is what the constructors rely on when they count nothing back.

**SystemProofs** (over `MCSystem`)

* `MapsCorrect`: `MappingsHeld`. Mappings are numbered as they are made
  (`MappingInv`), and names are distinct until two objects created one (`NameInv`).
* `ChildrenCorrect`: `AnswersForItsChild`, with `ClaimedOnce`: no two threads wait
  for one child, and a child that is gone while its waiter is still there was taken
  by a `waitpid(-1)`.
* `SerialCorrect`: `SettingsKept`, with `FirstKept`: until somebody opens an open
  terminal, every handle has the first settings to put back.
* `AddressesCorrect`: `AddressesKept`. Every operation stays among the sockaddrs it
  can make and the zero address, and each of these reads back from its text as
  itself, without its scope, or as no address when it is a path without a slash; a list is held once, and its length is known
  until a second `update()` (`ListsMade`, `CountIsLength`).
* `DescriptorsCorrect`: `DescriptorsOwned`. `Sound` is the ownership of descriptors
  as a relation between the kernel's table and the objects' fields; close, open,
  transfer and forget keep it (one lemma each), and each call of the library is a
  sequence of these. The lowest free number exists because the naturals are
  well-founded.
* `FilesCorrect`: `FilesKept`. For `keyfile`, `FileInv` says which entries the lines on
  disk are: all but the pending ones while `write()` runs, all of them once it
  completed, some after a crash or a full disk, and then the line of one more, cut
  off; one line each, in the section of its entry, which appending a line does not change for the lines before it
  (`SecAppend`: the last header above a line exists, by well-foundedness again).
  That no key is twice in a section (`Functional`) is kept by `load()`, whose last
  line for a key counts. For `pager_file`, `PagesHeld` counts pages behind the end
  of the file as zero, which makes it inductive over `resize()`, and `HeaderHeld`
  says who has the last header: the only handle that writes it, or the file. A put
  that stops part way is the put of `Torn`.
* `StreamCorrect`: `DeliveredInOrder`. Bytes are numbered; `Way` says that those in
  three places (delivered, buffered, unread) rise within each and from one to the
  next, and `Whole` is their concatenation. Each action is a move of a prefix, a byte
  appended or bytes thrown away with their cause, one lemma each (`WayOn`, `WayRead`, `WayMore`,
  `WayFill`, `WayLess`); `recv()` fills the buffer only when it has been read.

What stays with TLC:

* liveness (`ShutdownReturns`, `QueuedIsRun`, `DrainReturns`, `DispatchedIsRun`,
  `DueIsRun`, `SemaphoreServes`, `EveryoneLeaves`, `SignalConsumed`, `GroupServes`):
  fairness and ENABLED are outside what the prover handles;
* `TextRead`: what the readers of text compute is defined by recursion over the text
  (`Scan` has RECURSIVE operators), and induction over data is outside it as well.

## 6. Not modelled

* Windows branches: the POSIX ones are modelled.
* `thread_t`, `parallel_task`, the helpers of `funcs.hpp`, `sync_arrival` and
  `wait_arrival`: one standard object each, with no state beside it.
* `secure.hpp`, `random.hpp`, `hmac_t`, PEM I/O, the transformations of ciphers and
  digests: OpenSSL's.
* Moves of a `dictionary_t` and of a `pager_file` (the double close the latter
  inherits from `posix_file` is in `Descriptors`); byte arrays that forward to a
  vector; that `shared_mem` allocates one element only (`memory.hpp:45`).
* Socket options, multicast, directory helpers, reading and writing of a serial
  line, environment and pipes of `process.hpp`: calls passed on to the system.
* `print`, `endian`, `array`, `select`, `datetime`, `strings`, `ranges`, `monadic`,
  `output`, `expected`, `templates`: formatting and stateless templates.
* The 32-bit wrap of `sequence_` and of `count_` in `wait_group`, and the
  `uint32_t` subtraction in `timer_queue::periodic` (a `shorten` above the period
  puts the first expiry 49 days away), are outside the bounds.
