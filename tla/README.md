# Verification of the workflow kernel

TLA+ models of the C and C++ sources under `workflow-step-by-step/src`, TLC
configurations that check them on small instances, and TLAPS proofs for every
instance. Paths below are relative to `src/workflow-step-by-step/src/`.
`PROJECT.json` holds the same information for tools: components, runs, the
mutants that show each property can fail, the line map, findings, hazards and
theorems.

## The system

A client task is dispatched, routed to a set of addresses, and scheduled onto
one connection of one address. The kernel runs it with a fixed cast of threads:

```
 user threads           request() / schedule()              (any thread)
      |                          |
      v                          v
 Communicator  --add/del-->  poller threads  --results-->  result queue
      ^                      (epoll, pipe,                      |
      |                       timerfd)                          v
      |                                                  handler threads
      +----- idle connections, ref counts <-----  (pool tasks) handle(), request()
      |
 CommScheduler (targets, groups) <-- Router (breaker) <-- client tasks <-- series
                                          ^                    ^
                          DNS cache (LRUCache), upstream   HTTP parser (append)

 Executor: session queues that are tasks of a compute thread pool
```

### Inventory

| component | state | operations | what is hard | correct when |
|---|---|---|---|---|
| thread pool, `kernel/thrdpool.c` | task queue, `nthreads`, `tid`, `terminate` | create, schedule, increase, worker routine, destroy | count incremented outside the mutex, signal after the unlock, threads joining each other in a chain, calls from inside tasks and `pending()` | tasks run or are handed back once; the pool is freed after its last user |
| executor, `kernel/Executor.cc` | a list of sessions per queue | request, routine, cancel | two workers on one queue, cancellation calling back into `request` | a queue is a pool task exactly while it has sessions; each is handled once |
| result queue, `kernel/poller.c` 108-228 | two lists, two mutexes, count, bound | add, get, swap, nonblock, stop | the swap publishes its list before it takes the second mutex; bound; shutdown by one signal | a bounded FIFO in which nobody sleeps for ever |
| poller, `kernel/poller.c` | nodes by fd, timeout list and tree, pipe | add, del, set_timeout, thread routine, stop | event, deletion and timeout of one node in one batch | one final result per node, which holds but for a timeout before the node's own event in the batch |
| communicator, `kernel/Communicator.cc` | connection entries (state, ref, session), idle list | request, append, handle results, deinit | reply overtaken by the end of its connection, reuse racing with closing, one timer for three limits | each session handled at most once and not forgotten, each entry freed once |
| scheduler, `kernel/CommScheduler.cc` | loads, waiters, heap | acquire, release, add, remove | membership changes under acquire/release, indices into a heap | loads add up, least loaded target chosen, no slot unnoticed |
| route manager, `manager/RouteManager.cc` | group members, breaker list, `nleft`, `nbreak` | get, notify_available, notify_unavailable, check_breaker | late reports on targets others have moved; counters tested without the mutex | the group is never empty and every target comes back |
| LRU cache, `util/LRUCache.h` | map, two lists, ref counts, size | put, get, del, release, prune, resize | handles evicted while held | freed once, when unreferenced |
| tasks and series, `kernel/SubTask.cc`, `factory/Workflow.cc` | ring buffer, `canceled`, `last`; `nleft` of a parallel | push at both ends, pop, cancel, dismiss, dispatch, `subtask_done` | growth while wrapped, `canceled` read before the mutex, the last finisher | tasks run in order, none is left behind, a parallel ends after its last series |
| client tasks, `factory/WFTaskFactory.*`, `HttpTaskImpl.cc` | init state, route, retry and redirect counts | init, dispatch, route, done, callback | re-entry into the series, two limits that reset each other, a route kept in an object that is used again | a route serves one exchange; a request ends with its callback (it does not without a target) |
| upstream manager, `manager/UpstreamManager.cc` | servers, groups, weights, breaker lists | add, del, disable, enable, select, notify | one weight changed under the mutex of different groups; reports on servers that were moved or removed | counters are right, a server that is down comes back |
| DNS cache, `manager/DNSCache.cc` | entries with two deadlines on an `LRUCache` | get, get_ttl, get_confident, put, release, del | cached values changed through a shared handle | an expired entry is resolved anew once for each increment that it is late; every handle is released |
| HTTP messages, `protocol/http_parser.c`, `HttpMessage.cc` | parser state and offsets, `cur_size` | append, end of parsing, get_body | bytes arrive in any pieces, limits, interim responses, 100-continue, unsigned differences | pieces make no difference; exactly one message is taken |
| URI parser, strings, MD5, logging, `HttpUtil.cc` | | | | parsing and formatting without state |
| Linux AIO, map-reduce | | | | nothing else calls them |
| red-black tree, list | | | | taken over from the Linux kernel; used as sorted collection and sequence |
| watchdog, process handshake, demonstrations (`src/src`, `gdb_demo`) | | | | separate small programs |

## The modules

In all modules a step is what the code does between locking a mutex and
unlocking it or waiting on a condition; whatever it does outside a mutex is a
step of its own. A waiting thread may wake spuriously wherever it sleeps on a
condition variable. Names follow the source; the map in `PROJECT.json` gives
the lines of each definition. `history` variables record what happened and
guard nothing. Definitions commented "Mutant of X" are faulty versions of X
that are in no specification; they document which property catches which
mistake. `TypeOK` (`ExecTypeOK`, `QueueTypeOK`) gives the types of a module's
variables; where a module has theorems the types are part of the inductive
invariant and proved with it. Modules that share a proof module have different
names for their initial states and steps (`Executor` with `ThrdPool`,
`PollerQueue` with `Poller`).

**TaskPool** is what callers of the pool rely on: a FIFO of tasks, each taken
once while the pool is open, none started once it is closing, the rest handed
back, in order, when it is closed. A task that `pending()` itself queues may be
dropped (`late`).

**ThrdPool** is `thrdpool.c`. `opc` is the owner's program counter through
create, terminate and destroy; `pc` that of each pool thread. `CountThread` is
separate from `CreateThread` because `nthreads` is incremented after the thread
runs; `Signal` is separate from `Schedule` because it follows the unlock;
`CreateThreadFails` and `CreateFails` are the error paths. `HandOver` is the
`list_for_each_safe` walk with its saved next pointer, which is why a task
queued by the last `pending()` call is missed. `AbsWaiting`, `AbsRunning` and
`AbsPhase` map it to `TaskPool`.

**Executor** uses `TaskPool` in place of the pool: its tasks are the session
queues. `PopEntry` takes the head session and schedules the queue again before
the session runs; `CancelQueue` and `CancelEntry` are the cancellation during
`thrdpool_destroy`, in which `handle(CANCELED)` may request again.

**ResultFifo** and **PollerQueue**: a FIFO, and the result queue with its two
lists. Nothing enters the FIFO once it is closed, and a handler thread is told
that there is nothing, which ends it, only when it is closed and empty.
`BeginSwap` moves `get_list` before `put_mutex` is taken; `SwapWaits`
waits there. Queue contents are mapped to the FIFO as the get list followed by
the put list, counted once while they are the same list.

**Poller** is the life of a node. `Wait` takes any batch of at most `EventsMax`
events; `HandlePipe` and `HandleTimeout` follow each event of the batch, as in
the code, which is how a later event of the batch can be of a node that was
handed out meanwhile, and how the pipe is read again although it is empty
(`BlockedOnPipe`). As long as no handler thread has freed such a node its event
is handled like any other: a node that timed out is not marked removed, so
`RemoveNode` hands it out a second time and clears the entry of its descriptor,
which may by now be another node's. If it was freed, what follows is undefined,
and the model stops (`HandleStale`); both outcomes are explored. The order of timeouts is left out: any
node with a timeout may expire at any time. `poller_stop` is modelled up to its
`pthread_join`; what follows the join cannot be reached.

**Communicator** is the client side of `Communicator.cc` with a single poller
thread and FIFO results. `Barrier` is the empty critical section in
`create_message`; `RefAfterReply`, `SessionToEnd`, `Final` and `Unref` are the
parts of `handle_incoming_reply`. A write may end completely, in an error or
partly (`stuck`: the code neither waits for nor ends such a session).

**CommSched** has targets, groups and the heap. `Up` and `Down` say
where `heap_adjust` and `heapify` move their target next; `Way` is the set of
positions it passes, the smallest set that contains the first and with each the
next, and `Moved` shifts the targets on the way. Stated like this, the loops
need no recursion and can be reasoned about for heaps of any size.

**Router** has the targets of one name, the breaker list and the client tasks.
The tests that `get` and `notify_available` make before they take the mutex,
and the clock that `check_breaker` reads before it does, are in steps of their
own (`GetReadsClock`, `Succeed`). `Acquire` stands for `CommSched`: it picks any
target of the group.

**ClientTask** extends Router: some of its tasks are `WFComplexClientTask`s as
`HttpTaskImpl` uses them. A task is in one place at a time (`at`): at the front
of its series, behind its router task, in an exchange, deleted, or `left`, when
the series has gone on and nobody called it back or deleted it. `init_state_`, the retry and the
redirect count, the route and the validity of the URI are as in the code; the
callback may redirect the task again (`MaxUser`). A redirect whose `init` fails
with a system error goes on to `set_retry` (`SetRedirectThenRetry`).

**LRUCache** is every public operation of the template, with handles as objects
that are freed when their count drops to 0.

**DNSCache** extends LRUCache by the two deadlines of an entry and by the
router tasks that look hosts up. A lookup tests the deadline, takes `mutex_`,
tests again and moves the deadline on; a task that finds nothing resolves, puts
the result and routes by the handle it holds. The clock is read in a step
before the tests. `Bypass` is level 0, which does not look. `since` and `moved`
record what the deadline was when the entry was put and how often it was moved.

**Upstream** is one upstream. `lock` is who holds the read-write lock; a step is
what is done under a group's mutex. `available_weight_` is a plain `int`
changed under the mutex of any one group, so `Change` computes the new value
and a later step stores it. Selections take every candidate that weights,
hashes and random numbers could pick. `notify_available` and
`notify_unavailable` read the group in a step before they lock it. Weights are
added up as numbers of units (`Weight`), the cardinality of a set of pairs of a
server and a number up to its weight.

**Series** is one ring buffer per series, with `front`, `back` and the slots as
in `Workflow.cc`, `canceled` read in a step before the mutex, and the
`ParallelTask` with its count. `Run` is the thread of a series; pushes, cancel
and dismiss come from any thread while a task of the series runs. `queued` is a
plain sequence beside the buffer, which the buffer is compared with.

**HttpParser** is the receiving side of HTTP. A stream is a sequence of tokens:
CR, LF, blanks, colons and digits are bytes, and words that the code compares as
a whole are one token each. `Read(n)` hands the next `n` tokens to the message
and loops as the poller's read loop does while the message takes less than it
was given (`AppendAll`); `EndParsing` is the end of the connection. The line,
header and chunk parsers return what the C functions return: the amount
consumed, "more", or an error. Numbers have the widths of the code, with an
`int` of `IntValues` and a `size_t` of `SizeValues` values: `Number` stops at
`LONG_MAX` as `strtol` does, `AsInt` is the conversion in `atoi`, and
`header_offset + transfer_length` and the difference in `*n` wrap around. A
`Content-Length` that an `int` cannot hold can so end a message inside its
header, where `http_parser_get_body` would return a length below 0 (`"undefined"`).

Composition: `Executor` is built on `TaskPool`, which `ThrdPool` implements;
`Communicator` assumes the FIFO that `PollerQueue` implements and a single
final result for a connection, which `Poller` establishes except after a timeout
that comes before the node's own event in a batch (see the findings); `Router` assumes of the group what
`CommSched` models; `ClientTask` is `Router` with real client tasks in it, and
is proved to implement it; `DNSCache` is `LRUCache` with its callers.

## The runs

| run | instance | result |
|---|---|---|
| `thrdpool` | 3 threads (2 created, 1 by increase), 2 clients, 3 tasks | 20 thousand states |
| `executor` | 2 queues, 4 sessions, 2 workers, requests from cancellations | 59 thousand |
| `poller_queue` | 2 producers, 2 consumers, 3 results, bound 1 | 62 thousand |
| `poller` | 2 nodes (one connecting, one reading), 2 descriptors, batches of 2 | 148 thousand |
| `communicator` | 2 sessions, 2 entries, 1 client, 2 handlers | 254 thousand |
| `comm_sched` | 4 targets with different limits, 1 group, 3 callers, symmetric callers | 615 thousand |
| `client_task` | 2 targets, a client task and another one, 3 breaker nodes, MTTR 1, one retry, one redirect | 185 thousand |
| `dns_cache` | 2 keys, 2 handles, 2 router tasks, sizes 0 (no bound) and 1, a clock of two increments, symmetric keys, handles and tasks | 774 thousand |
| `upstream` | 2 servers, 2 addresses, groups 0 and default, 2 threads of which one manages, symmetric servers and addresses | 3.3 million |
| `series` | 2 series of a parallel task, buffers of 2 slots at first, up to 5 tasks pushed to one of them | 457 thousand |
| `http_parser` | 9 good messages, an interim response before an answer to HEAD, and each good message with one token changed, missing or added, in all pieces | 1.04 million |
| `poller_stop` | the finding below | violated |

What the passing runs check:

- `thrdpool`: `QuietWhenFreed`, `JoinedExactlyOnce`, the refinement
  `ImplementsTaskPool`, and the liveness of tasks (`TasksSettled`) and of
  destroy (`DestroyReturns`). Three threads are the least for which a chain of
  joins has a middle; a third task is needed for a task to be queued while one
  runs and one waits.
- `executor`: `ScheduledOnceIffWork`, `HandledAtMostOnce`, `SessionsHandled`.
  Four sessions on two queues give a queue with a session running, one waiting,
  and cancellations that request again.
- `poller_queue`: `ImplementsFifo`, `ResultsTaken`, `HandlersEnd`. With a bound
  of 1 both producers can be asleep at once, so that a single wakeup would not
  do.
- `poller`: `OneFinalResult`, `DeletedHandedOut`, `ExpiredHandedOut`. Two events
  per batch are enough for the pipe, the timer and a stale event to meet.
  `OneFinalResult` states the one race that is lost: a node that times out before
  its own event of the same batch is handed out twice, never three times, and not
  if it was deleted.
- `communicator`: `HandledAtMostOnce`, `FreedWhenUnused` (each entry once, when
  nobody uses it, and none leaked), `IdleListSound`, `ReplyUndisturbed` (no
  expected reply is refused, and its timer cannot be set only once `stop_flag`
  is), `SessionsHandled` (an accepted session is handled, or its connection stays
  in the poller for ever, or its message was partly written). Two handlers are
  what lets a reply be overtaken by the end of its connection.
- `comm_sched`: `LoadsAddUp` (also within the maximum), `HeapSound` (indices,
  order, least loaded on top), `FreeSlotsNoticed`. Four targets give a heap of
  three levels. The case in which `heap_remove` moves its last element upwards
  needs six targets and is not reached; the proof covers it.
- `client_task`: `CountsAgree`, `GroupNeverEmpty`, `NoneForgotten`,
  `TargetsReturn` of the router, and of the client task `RouteForOneExchange` and
  `RequestEnds`: each request is called back and its task deleted, unless the task
  is left behind without a target or failures and redirections alternate for ever. Three nodes allow a target to be on the breaker list twice while
  the other one is out; a retry, a redirect by the server and one by the user
  are enough for the counts to be reset and used again.
- `dns_cache`: `CacheSound` (reference counts, lists, map and frees of
  `LRUCache`), `HeldByTasks`, `OneMoveForEachIncrement`. Two handles over two keys
  allow one that is held or unused to be replaced or evicted by the other; with
  size 1 the second put evicts; more handles are left to the proof. Two tasks can
  pass the first test of one entry together, and with two increments of time an
  entry can be over by more than one, so that it is moved, and resolved, twice.
- `upstream`: `CountersRight` (`nalive` and `weight` of every group,
  `available_weight_` without groups), `DownIsListed`. Two servers in one group or in
  two, with weighted selection that tries another and with consistent hashing,
  give every path of selection and notification; with `max_fails` 1 each
  failure and each success moves a server.
- `series`: `RunsInOrder`, `NothingLeftBehind`, `ParallelDoneLast`,
  `ParallelEnds`. Five tasks make the buffer grow twice, also while its contents
  wrap.
- `http_parser`: `FragmentsDontMatter`, `TakesExactlyTheMessage`,
  `ContinueAnsweredOnce`. `TakesExactlyTheMessage` also says of bad messages that
  one that is complete ends between its header and the last byte that came, unless
  a `Content-Length` in it does not fit an `int` (`LengthsFit`). The maxima are exactly those of the good messages, so
  that every limit is met and exceeded by one. An `int` ends at 15 here, so that
  a token "3" added to or put in a length makes it wrap.

Bounds named in the modules: `MaxMessages` (Poller), `MaxHeld` (LRUCache),
`MaxTime` (Router, DNSCache, Upstream), `Nodes` (Router), `MaxUser` (ClientTask),
`MaxFail`, `MaxBreak` and `Managers` (Upstream), `MaxTasks` and `Growing`
(Series). Objects that are allocated (`Tasks`, `Sessions`, `Results`, `Entries`,
`Handles`, `Servers`, `Nodes` of the poller) are used once each, which bounds
the length of a behaviour. Deadlock is checked except in `poller`,
`communicator`, `dns_cache` and `upstream`, where the instance runs out of
objects or time, in `http_parser`, where the message ends, and in `poller_stop`.

### Fairness

Threads that can take a step take it (weak fairness per thread), user code that
was called returns, and a call that was begun is finished; nobody has to call
anything. Beyond that:

- `Poller`: epoll reports a pipe or a timer that stays ready in some later batch
  (strong fairness of `Reported`): level-triggered epoll serves its ready list
  in turn.
- `Communicator`: a node that was deleted comes back through the pipe, as
  `Poller`'s `DeletedHandedOut` says (strong fairness, as the poller thread serves
  others in between). Nothing else is assumed of a connection in the poller:
  servers need not answer or close it, timeouts may be -1 and `receive_timeout`
  unlimited, and the poller thread may block in the pipe.
- `Series`: a task that runs ends, and its thread goes on with the series (weak
  fairness per series). Nobody has to push, cancel or dismiss.
- `ClientTask`: as for `Router` below, and the router and DNS tasks in front of
  a client task end, as does its exchange.
- `Router`: time passes, each task ends after finitely many exchanges (strong
  fairness), and requests keep being made, since only a request looks at the
  breaker list.

## The proofs

**ExecutorProofs** has two parts. The first, about the thread pool, proves for
any number of threads, clients and tasks that the variables keep their types (`TypeCorrect`), that `nthreads` is right
(`CountCorrect`), and that nobody can touch the pool when it is freed
(`FreedQuietly`). The only assumption is `ThrdPoolAssumption`: `Threads` is
finite, and threads, clients and owner are different. `QuietWhenFreed` is not
inductive: the owner joins one thread only. `IInv` therefore carries the reason
why that is enough. Threads that have left are ordered by `rank`; `pool->tid` is
the last of them (`LastLeft`); a thread in its join waits for the one just
before it, so a dead thread has only dead threads before it (`Chain`); the owner
gets to its join when no thread works any more (`Phases`, which needs
`ThreadsCounted`); and a caller that still has to signal is inside a task or a
`pending()` call that has not returned (`CallsNested`). `IInvInductive` goes
through Next action by action. `JoinedOnce` is `JoinedExactlyOnce`: `JoinInv`
adds that the threads that have left form a chain without forks whose end is
`pool->tid` (`NoForks`), and which of them have been joined so far
(`JoinsCounted`). `PoolRefinement` is `Spec => ImplementsTaskPool`, step by step;
`TaskInv` is what the mapping needs: only a running thread has a task, a pool
that could not be created never had one, and what the walk of `destroy` passed
by was queued by `pending()`.

The second part proves `ScheduledOnceIffWork` (`ScheduledCorrectly`) and
`HandledAtMostOnce` (`HandledOnce`) of the executor for any number of queues,
sessions and workers, from `ExecutorAssumption`. The pool is `TaskPool`, as
`PoolRefinement` allows. A queue has entries exactly while it has an owner, the
pool, a worker about to take an entry, or the canceller (`OwnedIffWork`,
`OneOwner`); an entry is in one place of one queue (`ListedOnce`), and a session
is told something only when it leaves the executor (`Pending`).

**PollerProofs** proves `OneFinalResult` (`FinalResultOnce`) for any number of
nodes and descriptors and any size of a batch, from `PollerAssumption` (`Nodes`
is finite, the special values are different). The thread removes a node without
looking at `poller->nodes`. `OnePlace` says what comes of it: a node that was
added is in the table, in the pipe or handed out, and only one of these, unless a
node of the same descriptor was handed out twice (`Spoiled`). It needs that a
pointer is in the pipe once (`SentOnce`), that what is in the pipe is marked
removed (`MarksRight`), and that a node whose event still waits is deleted, not
handed out, or handed out by its timeout alone, the last only in batches of more
than one event (`BatchSound`, `Untouched`). So the timeout is the one way to a
second result, and with batches of one event every node has one place.

The second part is about the result queue: `QueueRefinement` is
`QueueSpec => ImplementsFifo` for any number of pollers, handler threads and
results and any bound, from `PollerQueueAssumption`. A put and a get are steps of
the FIFO and a swap is none, although it moves `get_list` to the put list before
it has that list's mutex. `QueueInv` says why this is right. `get_list` and
`put_list` are different except while the holder of `get_mutex` swaps, and then
the list it saved, which becomes the put list, is empty (`ListsOf`): nothing is
overtaken. The count a swap returns is the length of the list it hands over
(`CountRight`), so `poller_queue_get` never takes from an empty list; and when it
is 0 the queue is closed, with nobody left who could put (`ProducersOK`): NULL is
got only when closed and empty, and for ever.

**CommunicatorProofs** proves `HandledAtMostOnce` (`SessionHandledOnce`),
`FreedWhenUnused` (`EntryFreedOnce`), `IdleListSound` (`IdleListStaysSound`) and
`ReplyUndisturbed` (`RepliesUndisturbed`) for any number of sessions, entries,
clients and handlers, from `CommunicatorAssumption` (finite sets, special values
different from the others). Two kinds of results are on their way for an entry.
One will end it: the poller has its node, or the result is queued, or a handler
has it (`Life`, then `Done`), and there is one of these (`OneLife`). The others
are replies, of which one at most is not handled yet (`Pend`, `OneReply`).
`StateRight` says what the state of the entry tells about the two: a reply is to
come exactly in `SUCCESS` while the connection lives, or in `CLOSING` when it has
ended first. With that the count is right (`Counted`): one reference for the
connection, handed to the reply that outlives it, and one for every reply being
handled. `SessionsOnce` says that a session is owed by one entry, or about to be
handled by one handler, and not handled yet. `Locked` ties the mutex of an entry
and the idle list to state `IDLE`; `Reading` says why the poller thread, which
takes no lock but the empty critical section, finds the state it expects. The
smallest index that `get_idle_conn` finds exists by `SmallestOf`.

**SeriesProofs** proves `RunsInOrder` (`OrderKept`), `NothingLeftBehind`
(`NothingLeft`) and `ParallelDoneLast` (`DoneComesLast`) for any number of series
and tasks and any initial size of the buffer, from `SeriesAssumption`. The lemmas
about the ring buffer come first: `Holds(n, q, f, b, l)` says that the slots from
front to back hold the list `l`, and `push_front`, `push_back`, `expand_queue` and
`pop_task` keep it. The rest of the invariant is about the series: one that has
ended is empty, the one task dispatched after `cancel()` was under way when it
came (`StopsAfterOne`), and `nleft` counts the series that are not counted yet
(`ParallelCounts`).

**DNSCacheProofs** proves `CacheSound` (`CacheStaysSound`), `HeldByTasks`
(`ReferencesHeld`) and `OneMoveForEachIncrement` (`MovesAreLateness`) for any number of keys,
handles and tasks, any maximal size and any times to live, from
`LRUCacheAssumption` and `DNSCacheAssumption` (`Handles` and `Routers` are
finite). `CacheInductive` is about `LRUCache` alone: whoever calls them, its
operations keep counts, lists, map and `size_` consistent; the lists are
distinct sequences, and taking one node out (`Unlinked`) is a lemma of its own.
`TasksInv` counts the references by the tasks that hold them; `EntriesInv` says
that a limit is what it was when the entry was put plus one increment for each
move, and that one that was moved is less than an increment ahead of the clock
(`Timely`): each move had the second test, under the mutex, find the entry over.

**CommSchedProofs** proves `LoadsAddUp` (`LoadsStayRight`), `HeapSound`
(`HeapsStaySound`) and `FreeSlotsNoticed` (`NoSlotOverlooked`) for any number of
targets, groups and callers and any maximal loads, from `CommSchedAssumption`
(`Targets` and `Callers` are finite, maximal loads are positive, targets, groups
and the special values are different). The first lemmas are about the heap.
Relative loads order the targets, although they are compared by cross products
(`LessOrder`). A way through the heap does not fork, passes each position once
and has an end (`WayLinear`, `WayOnce`, `WayHasEnd`), so moving the targets on it
keeps the set of targets and gives each its index (`Rearranged`). When only one
target is out of order, letting it climb or sink puts it right (`Climbed`,
`Sunk`); after `heap_remove` it may have to do either, and doing both is right
(`Refilled`). Hence the top is a least loaded target (`TopIsLeast`). `acquire` of
a group tests the figures of the group and then uses the top: that this one has
room is `GroupRoom`, because a group whose members are all full is full
(`FullGroup`, an injection of the slots into the callers who use them). The
inductive invariant is `CommSchedInv`: `Placed` and `InOrder` are what makes a
heap, `CallersOK` says what a caller waits for or uses, and `WaitsCounted` that
`wait_cnt` is the number of callers who wait or are woken, which
`FreeSlotsNoticed` needs because `release` tests the count and not the callers.

**UpstreamProofs** proves `CountersRight` (`CountersStayRight`) and `DownIsListed`
(`DownStaysListed`) for any number of servers, addresses, groups and threads, any
weights and values of `max_fails` and any MTTR, from `UpstreamAssumption`
(`Servers` is finite, weights and limits are positive, group ids are natural
numbers, the special values are different). Neither property is inductive. The
code adjusts the counters by what it believes to change, and `UpstreamInv` is
why it is right to. It takes a server that is not on the breaker list for one
that is up: for a server in a group, being listed and being down are the same
(`ServersOK`). It compares the server's group with the pointer read before the
mutex was taken: the two differ only if the server was removed, and then for
good, so a late report on it must not count (`RequestOK`). `nbreak` may be higher
than the number of listed servers, because `notify_available` does not decrement
it, but not lower (`ListedCounted`), so the unlocked test in `check_one_breaker`
skips no group that has one. `available_weight_` is what the thread that holds
the default group's mutex is about to store, or is right already
(`AvailableRight`); mutexes are held between two steps only for that
(`MutexOK`). `BreakStep` and `BackStep` are what every way down and every way
back have in common; the lemmas on units (`UnitsUnion`, `OwnAfterLoss`,
`OwnAfterGain`) take the place of sums over sets, which would need an induction.

**ClientTaskProofs** has two parts. The first is about the router alone: it
proves `CountsAgree`, `GroupNeverEmpty` and `NoneForgotten` for
any number of targets, tasks and nodes and any MTTR, from `RouterAssumption`
(finite sets, at least one target). The invariant adds `TargetsKnown`: a task
that will report, and a node on the list, have a target. The counters are needed
for `GroupNeverEmpty`, because the code tests `nleft` and not the group;
`NoneForgotten` is what makes it safe to delete an expired node.

The second part proves that `ClientSpec` implements `Router!Spec`: each step
of a client task is a step of a router task or leaves the router alone
(`ClientImplementsRouter`). Everything proved of the router therefore holds
under client tasks with any number of retries and redirections
(`ClientBreakerSound`). `RouteCorrect` is `RouteForOneExchange` for any number of
tasks, retries and redirections: a task goes into an exchange with the route made
for its present URI and comes out of it with neither route nor target. It follows
from `PlaceInv`, which adds that a task whose `init` failed has not been anywhere;
`Fits` is what it says of one task. It needs `ClientAssumption`.

Only model-checked: liveness (fairness and ENABLED are out of the prover's
reach) and the invariants of `HttpParser`. `HttpParser` uses RECURSIVE operators
for the loops of the parser, so nothing can be proved about it with SMT, and what
its recursion computes would need induction over the input.

## Findings

`poller_stop` never returns (`kernel/poller.c:896`). The `break` on the NULL in
the pipe leaves the loop over the batch, not the `while (1)` around it. Run
`poller_stop`.

Observations on the code, met while modelling; the models follow the code in
each case.

- Scheduler and kernel. A waiter for a group is not woken while the target
  released has waiters of its own, and `add` wakes one waiter however much room
  it brings (`CommScheduler.cc:143`). `wait_timeout` is documented in
  microseconds (`CommScheduler.h:89`) and used as milliseconds. With batches of
  more than one event the poller may use a node it has handed out
  (`poller.c:878`), and hand it out again if its timeout came first, since
  `__poller_handle_timeout` does not set `removed`; or block in the pipe
  (`poller.c:893`). A partly written
  message leaves its session pending (`Communicator.cc:207`). A descriptor
  closed between `mpoller_add` and the check of `stop_flag` may be reused before
  `mpoller_del` (`Communicator.cc:379`). "This set_timeout() never fails"
  (`Communicator.cc:453`) holds until `stop_flag` is set, which
  `ReplyUndisturbed` states. Sessions requested while the executor cancels, and
  tasks scheduled by the last `pending()` call, may be lost.
- Router. A target that was reported available and fails again can come back
  before `MTTR_SECOND`, because its older breaker node is still listed
  (`RouteManager.cc:156`).
- Client tasks. A task that comes to its end without a target (none could be
  acquired, `init` failed, or a URI to retry or redirect to is invalid) is neither
  called back nor deleted, although a comment says that a timer will run its
  callback (`WFTaskFactory.inl:552-565`): the timer is commented out. `RequestEnds`
  names these tasks (`LeftBehind`). Failures and redirections that alternate never end, as each
  resets the count of the other (`WFTaskFactory.inl:541`). `has_original_uri_` is
  true from the start (124), so every `init` overwrites `original_uri_`, and a
  retry goes to the URI redirected to, not to the first one.
- DNS cache. `get_inner` adds the increment to the old deadline
  (`DNSCache.cc:27` and `:42`), so an entry that nobody asked for in a long time
  sends several tasks, one after another, to resolve it.
- Upstream. The weight of a master in a group is never added to
  `available_weight_`, because `gain_one_server` runs before `group->weight` is
  increased (`UpstreamManager.cc:296-300`); with weighted selection another
  server is then not tried while only a group is alive. `available_weight_` is
  read twice without a lock at 454 and 457, and may be 0 the second time.
- HTTP. Header continuation lines are never folded: the test at
  `http_parser.c:393` is always true. After an interim response the message is
  reset without `parse_zero_body` (`HttpMessage.cc:307-317`), so that the answer
  to a HEAD request is awaited with a body. `content_length = atoi(value)` is not
  checked (`http_parser.c:227`): a number beyond an `int` can come out negative,
  `total` falls below `header_offset`, and `*n` at 606 wraps around.

## Not modelled

Addresses, sockets and their options, memory exhaustion where the code returns
at once, the timeout list, tree and timerfd of the poller, sleep nodes,
`poller_mod` and the listen and write handlers (nothing calls them),
`Communicator::sleep`, the arithmetic of `first_timeout`, `next_timeout` and
`__get_abstime` (a timer may go off at any time instead), `Router::deinit`
(nothing calls it), the key of a route, tasks for a fixed socket address, timer,
thread and server tasks, the sending side of HTTP (`message_out`, `encode`, the
cursors), `HttpUtil.cc`, the URI parser (a URI is valid or not), and the
components marked so in the inventory: Linux AIO and map-reduce, which nothing
calls, the trees and lists of the Linux kernel, and the demonstrations.

## Plan

1. `PollerTimers`: the list, the tree and the timerfd against "the earliest
   deadline is armed", to replace the free expiry of `Poller`, and the
   arithmetic of the timers that `Communicator` sets.
2. The sending side of HTTP, the watchdog.
