# Verification of gs (green-socket)

gs lets a program send data over non-blocking sockets without blocking and
without its own event loop. A background thread runs libev, which the repository
carries, and collects events; the program calls `gs_work` from its own threads to
run the callbacks. This directory models that machinery in TLA+, checks it with
TLC and proves with TLAPS, for instances of any size, the invariants of the loop
and of the tasks, and those of libev's signals, stat watchers, io watchers, heap
and iteration. The models of gs and of libev are translated from
the code, not from its manuals.

Paths below are relative to the root of the repository (`src/loop.c`,
`libs/libev/ev.c`, ...).

## 1. Inventory

### What is built

`src/libev.c` is the only file through which libev is compiled. It sets, and
`libs/libev/ev.c` takes for all else its defaults for Linux:

| Setting | Consequence |
|---|---|
| `EV_MULTIPLICITY 0` | one loop: the checks of `signals[].loop` (`ev.c:2897`, `2931`, `4653`) are not there |
| `EV_CHILD_ENABLE 0` | no child watchers, no handler for SIGCHLD |
| `EV_PERIODIC_ENABLE 0` | no periodics, hence no timerfd of the loop (`ev.c:561`); timers are the only heap; with a monotonic clock the loop waits up to `MAX_BLOCKTIME2` (`ev.c:4102-4107`) |
| `EV_USE_MONOTONIC 1` | the monotonic clock is used if the system has it, a test at run time (`ev.c:3270`) |
| defaults | epoll, poll, select, io_uring (with a timerfd of its own), eventfd, inotify, signalfd, and idle, prepare, check, fork, cleanup, stat, async and signal watchers |

The models are of this build: what the preprocessor removes is not modelled, and
what it leaves is in scope even where gs itself does not call it, because it is
part of the library and shares the loop's state. A Release build turns on
optimisation across translation units (`CMakeLists.txt:50-54`), so that a call into
another file is no barrier to the compiler; see `GsShared` below.

### Components, their state and operations

| Component | Code | State | Operations |
|---|---|---|---|
| Background loop | `src/loop.c`, `src/gs.c` | `sync`, `stop_loop`, `async_watcher`, `pending_work` | `gs_loop_start`, `gs_loop_stop`, `gs_loop_has_work`, `gs_loop_work`, the registration calls and their `*_within` forms, `invoke_pending_cb`, `thread_start` |
| Thread and lock | `src/sync.c` | thread, mutex, condition variable | `gs_sync_init` (three steps that can fail), lock, unlock, wake, wait, join, clean-up |
| Tasks | `src/task.c` | `struct gs_task`: type, active, done, cancel_once, cancelled, retcode, timeout | reset, setup, start, `write_cb`, `read_cb`, `timeout_cb`, finish, cancel, delete |
| Contexts | `src/ctx.c` | the queue of available tasks | new, send, put back, delete |
| Data of a task | `read_fn`, `write_fn` | the socket's buffer | read, write |
| libev: wake-up channel | `evpipe_write`, `pipecb`, `ev_async_*` in `ev.c` | `async_pending`, `sent`, `pipe_write_wanted`, `pipe_write_skipped`, the event descriptor | send, consume |
| libev: iteration | `ev_run`, `ev_invoke_pending`, `ev_feed_event`, `ev_break`, prepare, check, idle, fork, cleanup watchers | arrays of watchers by kind, pending events by priority, `activecnt`, `loop_done`, `postfork` | run (all flags, nested), invoke, feed, break, start, stop |
| libev: descriptors | `ev_io_*`, `fd_change`, `fd_reify`, `fd_event`, `fd_kill`, `fd_ebadf`, `fd_enomem`, `fd_rearm_all` | `anfds`, `fdchanges` | start, stop, reify, report |
| libev: back ends | `ev_epoll.c`, `ev_poll.c`, `ev_select.c`, `ev_iouring.c` | what each asked the kernel for | modify, poll, fork |
| libev: timers | `ev_timer_*`, the heap, `time_update` | the heap, `ev_rt_now`, `mn_now`, `now_floor`, `rtmn_diff` | start, stop, again, reify, adjust after a jump, choose the sleep |
| libev: signals | `ev_sighandler`, `ev_feed_signal`, `sigfdcb`, `pipecb` | `signals[]`, `sig_pending`, the signalfd | start, stop, raise, deliver |
| libev: stat watchers | `ev_stat_*`, `infy_*` | `fs_hash`, watch descriptors, attributes, timers | start, stop, compare, watch again |

### How they interact

- The background thread holds the lock all the time, except inside the system call
  of the back end (libev calls `unlock_cb` and `lock_cb` around it) and while it
  waits in `gs_sync_wait`.
- When an iteration has collected events, libev calls `invoke_pending_cb` in
  place of `ev_invoke_pending`. It sets `pending_work` and waits. A client that
  calls `gs_work` sees the flag, takes the lock, runs the callbacks itself, clears
  the flag, signals and unlocks.
- Clients register watchers under the lock and send an async wake-up. Callbacks
  already hold the lock and use the `*_within` calls.
- `gs_loop_stop` takes the three callbacks away under the lock, sets `stop_loop`,
  signals, unlocks and joins.
- User callbacks (`write_cb`, `when_done_cb`) run inside `task.c` and may call
  `gs_task_cancel` and `gs_task_del` again: calls nest.
- Inside libev, watchers note a change (`fdchanges`, the heap, lists), the loop passes
  it on before it polls (`fd_reify` to the back end's modify), the back end reports
  events by descriptor, and `fd_event`, `timers_reify`, `pipecb` and
  `stat_timer_cb` turn them into pending events, which `ev_invoke_pending` runs.
- gs takes the default loop, `ev_default_loop(0)`: epoll, unless the environment
  variable `LIBEV_FLAGS` asks for select, poll or io_uring.

### What is hard here

- `gs_loop_stop` changes what the background thread reads *without* the lock;
  `gs_loop_start` creates a thread that reads what is assigned *after* it.
- The hand-over of pending events: flag, count, wait and signal. The wake-up
  channel mostly avoids the system call and must lose nothing.
- Steps of `gs_loop_start` that fail, followed by another start.
- Reentrant cancellation, timeouts that meet ready sockets, events that are
  pending for a task that has just ended, tasks that are reused while the other
  thread is still inside `gs_ctx_send`, contexts deleted while tasks run.
- Libev tells the kernel as little as it can: a descriptor that is closed and
  opened again between two polls, stopped watchers left in the epoll set, requests
  of io_uring that complete late, rings and arrays that overflow, forks.
- Two clocks, one of which jumps, cached between iterations; timers count from the
  cached time, which grows old while the loop waits or a client does not dispatch.
- Signal handlers that run between any two memory accesses; a signal that stands
  for several; files that change while they are being watched anew.
- Progress: `gs_stop` must return, events must be dispatched, a task with a
  timeout must end, a ready descriptor must be told.

### What makes each component correct

- Loop: at most one thread inside libev; callbacks on client threads, under the
  lock, while the thread is parked; no iteration starts before the last one is
  dispatched; no lost wake-up; start and stop leave nothing behind; stop returns.
- Channel: a recorded wake-up can always be found, and is consumed.
- Tasks: libev knows exactly the tasks that run; each ends once, with one outcome; a
  timeout beats a ready socket of the same iteration; a timed task ends.
- Contexts: a task handed out is unknown to libev; memory is freed only when libev
  does not know it.
- Data: a task that ends as a success has sent its data.
- Descriptors and back ends: what the kernel was asked for is what the active
  watchers want; a watcher hears only of what it waits for and of its own file, or
  of an error that stopped it.
- Timers: the heap is in order; no sleep past a timer; nothing due is left; a jump
  of the wall clock puts none off.
- Signals, files: nothing that happened is forgotten on its way.
- Iteration: priorities are kept, and nothing is pending at the poll.

`PROJECT.json` lists the hazards one by one with the properties that cover them.

## 2. Modules

| Module | Models | State and actions |
|---|---|---|
| `EvAsync` | the wake-up channel, one step per call | Pure operators on one record `Channel` with a field per C flag. |
| `GsLoop` | `loop.c`, `sync.c`, `gs.c` over the skeleton of `ev_run` | One variable per C variable, `pcL` for the background thread and `pc[c]` for each client. An action is a piece of code between two points where another thread can act; `gs_loop_stop` is split down to single assignments. |
| `GsLoopProofs`, `GsTaskProofs`, `GsSharedProofs`, `EvSignalProofs`, `EvRunProofs`, `EvIoLoopProofs`, `MCEvEventsProofs` | | Theorems about the module they are named after (section 4). |
| `ListLemmas` | | Lemmas about natural numbers, finite sets, lists and loops that several proofs use, and the theorems about the heap of `EvHeap`. |
| `TaskLife` | abstract life cycle of tasks | A task is free, running or ended, ends once with one outcome, and a context closes only when no task runs. |
| `GsTask` | `task.c`, `ctx.c` over libev's watchers | The fields of each task, the pool, the watcher list, the timers and the pending stack; the client has a stack of frames, because user callbacks call gs again. |
| `GsShared` | the same tasks between two threads | A sender and a thread in `gs_work`; the fields of a task are read and written one step at a time. |
| `SendData` | `write_fn` with the callback of `test/gs.c` | Bytes left, room in the socket. |
| `EvIo` | abstract contract of io watchers | What each watcher wants, is told, and what its file is ready for. |
| `EvFd` | descriptors and io watchers, for any back end | A record `c` with libev's part `ev` and the back end's part `back`, and the table of open files. A back end hands `fd_reify` and the loop its modify and poll operators. |
| `EvEpoll`, `EvPoll`, `EvSelect`, `EvIoUring` | the four back ends and the kernel behind each | Each extends `EvFd`. `poll` and `select` keep no state in the kernel; epoll keeps entries by descriptor *and file*; io_uring keeps requests and two rings. |
| `EvIoLoop` | the io side of a loop on whichever back end | Extends the four, which share the state of `EvFd`; its own step is the one by which io_uring gives up and epoll goes on. |
| `EvHeap` | the heap of timers, array and index | Pure operators on a record of the array, the index `active` and the time `at` of each watcher. |
| `EvHeapUse` | the same | Starts, stops and moves watchers of one heap in any order, with more of them than a loop with clocks allows. |
| `EvTimers` | timers and clocks | A real clock, the wall clock's offset and libev's cached readings in a record `l`; uses the operators of `EvHeap` for the heap. |
| `EvSignal` | signals, and the wake-up channel access by access | A program counter per thread or handler (`pc`) and one for the loop (`lp`). |
| `EvRun` | `ev_run`, priorities and the watchers around the poll | A stack of calls of `ev_run` and of callbacks, since callbacks may run the loop. |
| `EvStat` | stat watchers with inotify | The file system, the kernel's watches and queue, and libev's state in a record `x`. |
| `EvSteps` | | Applies an operator to each item of a sequence, one after another: a recursive function, so that proofs can follow it. |
| `MCEvIoLoop`, `MCEvTimers`, `MCEvEvents` | | Run several instances one *part* at a time: the variable `part` is chosen at the start and the parts not chosen stand still. `MCEvIoLoop` extends `EvIoLoop` and adds an instance of it with other constants, so its properties are those of `EvIoLoop`. The other configurations need no module of their own. |

Definitions marked "a faulty variant" are not used by any specification. Each is
a definition with a plausible mistake; putting it in place of the correct one
makes the property it is paired with in `PROJECT.json` fail, which shows that the
property says something about the code.

### Correspondence and abstraction

`GsLoop`

- `lock` is the owner of `sync->lock`. Unlocking a mutex one does not own (the
  end of `thread_start` when `gs_loop_stop` has removed `lock_cb`) frees it, as a
  default mutex of the C library does.
- `invoke_cb`, `release_cb` and `acquire_cb` are libev's three loop callbacks.
  The thread reads each at the moment it uses it; a plain variable written by
  another thread is taken to become visible in program order.
- `pending` is a set of watchers. The order within one iteration does not matter
  to the loop (it does to tasks: `GsTask` keeps a sequence). `clear_pending`
  leaves a dummy entry, so the count never drops without a callback being run:
  `NoLostWakeup` rests on that.
- `InvokeOne` runs one callback. What a callback may do to libev is any set of
  stops and timer restarts.
- `CancelUnlocked` says whether a client may call `gs_task_cancel` outside a
  callback. Nothing in the headers forbids it.
- A program calls `gs_stop` when its other threads are out of gs.

`GsTask`

- There is one client thread. The background thread is reduced to `poll` and
  `feed`: it polls only when nothing is pending, which is `PollOnlyWhenDrained`
  of `GsLoop`.
- `gs_ctx_send` is two actions, `gs_ctx_send` and `gs_task_start`, one per
  critical section; the background thread may poll and feed in between.
- `wlist` holds the io watchers of the socket, newest first, as `wlist_add`
  leaves them. `feed` appends ready watchers in that order and expired timers
  after them; `ev_invoke_pending` takes the last. `reify` drops the io events of
  a poll during which the watchers changed.
- A timer is active or not. It may expire in any iteration while it is active.
- `RECV` tasks exist in `task.c` although no public function starts one yet.
- `Careful` programs keep three rules: they do not cancel a task that is done; a
  callback that has cancelled its own task returns an error; `gs_ctx_del` waits
  for its tasks. The headers state none of them. `task_careful` shows what they
  buy, `task_careless` what is left without them. All programs give back only
  tasks that are done, once (the queue is intrusive).
- `gs_ctx_send` is not called from callbacks: it would block on the lock that
  `gs_work` holds in the same thread.

`GsShared`

- One thread sends, looks at `done` and gives tasks back; another calls `gs_work`.
  A single sender, because the queue of a context has no lock. The sender cancels
  nothing, since `gs_task_cancel` outside of `gs_work` takes no lock.
- `done` is read without a lock, a data race. That the plain writes of one thread
  reach the other in program order is an *assumption* of this module, and
  `OutcomeReady` means no more than that the code writes in the right order. Nothing
  in the code enforces it: a Release build may optimise across translation units
  (`CMakeLists.txt:50-54`), and no fence or lock stands between the writes.
- Two constants are assumptions about the program, and each is necessary: with
  `Waits` FALSE, `WatchedWhileRunning` and `EndsOnce` fail, with `Prompt` FALSE all
  three invariants. They assume away two hazards, which therefore no property
  covers. `Waits`: a task is given back only after
  `when_done_cb` has returned; otherwise `task->active = 0` (`src/task.c:66`)
  hits a task that is running again, and its timeout is ignored. `Prompt`: no
  timeout is shorter than `gs_ctx_send` itself; otherwise the task may be finished
  between the start of its timer and that of its io watcher, which then stays
  active.

`SendData` keeps the number of bytes and drops their values. The socket takes any
part of what is offered, up to its room.

`EvFd`, the back ends, `EvIoLoop`

- The program starts, stops and feeds watchers, and closes, duplicates and opens
  descriptors at any time, also while another thread sits in the system call,
  since the back ends run it without the lock. Files become ready and not ready.
- `anfd` masks, `reify` flags and generations are kept; `events` of a watcher are
  the set of the bits READ and WRITE; a hang-up is both.
- Each system call may do what its manual lets it: `epoll_ctl` gives `EEXIST`,
  `ENOENT`, `EPERM`, `ENOSPC`; `poll` and `select` `EBADF`, `ENOMEM`, `EINTR`;
  `io_uring_enter` its overflow, after which libev doubles the ring or gives up.
- Constants exclude a few cases in which libev does go wrong; section 5 lists them.

`EvHeap`, `EvHeapUse`, `EvTimers`

- Time is discrete, and there are no periodics (see "What is built"). The cached
  readings lag behind the clocks as in the code; `Gaps` lets the clock advance
  between the two reads of one `time_update`, and one more reading stands for the up
  to three that follow when the clocks moved apart. Watchers may be started and
  stopped by callbacks and, while the loop waits, by another thread.
- `MIN_TIMEJUMP`, `MAX_BLOCKTIME`, `MAX_BLOCKTIME2` and `EV_TSTAMP_HUGE` keep their
  roles and their order, not their values. `timeout_blocktime` and `io_blocktime` are
  0, as gs leaves them.
- `due` and `asked` are histories: when a timer should run by the clock of the
  kernel, and the delay it was given.

`EvSignal`

- A handler runs between any two accesses of the loop or of another thread, and
  the order of accesses is that of the code's fences. `EvAsync`, which `GsLoop`
  uses, has the same channel in single steps: in `GsLoop` senders and the loop
  exclude each other but for the poll.

`EvRun`: a callback may do any operation on watchers of any priority, break the
loop or call `ev_run` again up to `MaxDepth`. A poll feeds any watchers of the kind
"io".

`EvStat`: all watchers watch one path, in a directory that stays. Files are
changed, unlinked (with or without another name) and replaced; a version is used
once, so no change is undone. A change may come inside of libev's callback,
between its look at the file and the new watch. A watch descriptor that runs out
(`ENOSPC`) and a failed `inotify_init` make watchers poll. Whether a file system
counts as local is chosen at the start; the hash table is a set.

## 3. Runs

| Run | Instance | Result |
|---|---|---|
| `loop` | 2 clients, 1 io watcher, 1 timer, 3 starts, fair | lock protocol, hand-over and channel are safe, and `StopReturns`, `WorkDispatched`, `WakeupConsumed` hold (59,000 states) |
| `loop_stop_race` | 1 client, 1 start | **violated**: `CallbacksInCriticalSection` |
| `loop_start_race` | 1 client, 1 start | **violated**: `StartedLoopRuns` |
| `loop_cancel_race` | 1 client, 1 start, unlocked cancels | **violated**: `LibevExclusive` |
| `task_careful` | 2 tasks of both kinds, 3 sends, 1 retry, fair | all invariants, the refinement of `TaskLife` and `TimedTaskEnds` hold (261,000 states) |
| `task_careless` | 2 send tasks, 3 sends, 1 retry | `EndsAtMostTwice`, `SocketOfRunningTasks` hold (122,000 states) |
| `task_shared` | 3 tasks, 2 threads | a running task is watched, an ended one has its outcome, each end is told once (70,000 states) |
| `send_data` | 3 bytes, room for 2 | **violated**: `CompletedMeansSent` |
| `io` | 1 watcher, 2 descriptors, 2 files, 5 operations, four back ends; epoll with a refused file and one entry | what is in force is what is wanted; every back end implements `EvIo` (664,000 states) |
| `io_live` | 3 watchers, 3 descriptors, 1 file, 3 operations, fair | no change of a watcher is forgotten; errors and readiness are told in the end (200,000 states) |
| `timers` | heap of 10 from empty and from full; 2 timers; 1 timer with jumps; 1 timer without a monotonic clock | heap in order and complete, no sleep past a timer, nothing due left, no timer put off by a jump (831,000 states) |
| `events` | signals by handler, with forks, by signalfd; iteration; stat watchers | no signal and no wake-up forgotten on its way (`NothingForgotten`); no change of a file missed (`NoneMissed`); order kept (`RunsInOrder`); signals and asyncs told in the end (470,000 states) |

### What the violated runs show

- **Stop while polling** (`src/loop.c:85`). The thread is inside `epoll_wait`
  without the lock. `gs_loop_stop` takes the lock and clears `acquire_cb`. The
  thread returns, does not take the lock, feeds what is ready and, since the invoke
  callback is `ev_invoke_pending` again, runs the callbacks of tasks itself. The
  comments on the `*_within` functions ask for the critical section. That no two
  threads meet *inside libev* still holds (`LibevExclusive`): `gs_loop_stop` clears
  `acquire_cb` in its last access to libev.
- **First start** (`src/loop.c:54`). The thread can lock through `sync` before
  `sync = gs_sync_init(...)` has stored the pointer.
- **Unlocked cancel** (`src/task.c:214`). A client that cancels a task outside a
  callback changes libev's lists while the background thread uses them. The
  hand-over survives even this: `NoLostWakeup` and `PollOnlyWhenDrained` are proved
  without excluding it.
- **Full socket** (`src/task.c:41`). `write_fn` answers a full socket with
  `GS_EOF`; the callback of `test/gs.c` passes it on, and the task ends done and not
  cancelled with bytes unsent.

Two more observations have no property. If `gs_stop` is called while the thread
is parked, `pending_work` stays set, so after the next start the first `gs_work`
returns true with nothing to run. And once `stop_loop` is set, a thread that is
past `lock_cb` may leave and destroy the mutex while `gs_loop_stop` has still to
signal and unlock it.

### Bounds, and why they are enough

- `loop`: two clients, one to start, stop and register, and one more that
  dispatches at the same time. Clients other than `Main` are alike, and the
  theorems hold for any number. `MaxStarts` = 3: a start after a failed one, after
  a stop, and after both. All other counters are finite by themselves. One io
  watcher and one timer: a callback may stop its own watcher, the other, or both,
  and both may be pending with `pipe_w`, `async` and the dummy.
- `task_*`: `NTasks` = 2, `MaxSends` = 3: two tasks run at once and one of them is
  given back and used again, which is what stale events need. `MaxWrites` = 1: a
  callback puts its timeout off once before the next event meets the same state.
  `task_shared` has no bound but the number of tasks.
- `send_data`: `Size` = 3, `Cap` = 2: a write that is cut short and then finds the
  socket full.
- `io`: `MaxOps` = 5 lets a descriptor be watched, closed, opened for another file
  and watched again within one poll, plus one more change: what stale entries of
  epoll and stale completions of io_uring need. Two descriptors are enough for the
  last entry of `polls` to take another's place, and for a duplicate to keep an
  epoll entry alive. One watcher, because watchers of a descriptor meet only in
  `fd_reify` and `fd_event`, which `io_live` has with three. `Entries` = 1 fills
  the rings at the second request, `StartMax` = 1 the array of epoll at the second
  event, `NFDBITS` = 2 splits three descriptors over two words of select. `MaxWatches`
  = 4 is an entry for each descriptor with each file, so that the part whose watchers may
  restart is not refused any; the part with a refused file has `MaxWatches` = 1.
- `timers`: from empty, seven operations with three times build a heap whose third
  level is begun. That the last element has to go *up* when another is stopped needs
  it to be the child of another node than the one it replaces: the last must be below
  a parent that is early, and the place that is free below one that is late. Ten
  elements are the fewest with which two nodes of the second level have children, so
  the part `filled` begins with ten, in every order of two times that `verify_heap`
  accepts and that starting them in turn leaves where they are, and stops and moves
  them (`FilledOps` = 2). The mutant of `HeapsInOrder`, a stop that only moves the
  last element down, is found there. Jumps are longer than `MIN_TIMEJUMP`, either
  way; `MAX_BLOCKTIME2` is longer than each delay but below `MaxTime`.
- `events`: `SignalOps`, `SignalfdOps`, `RunOps`, `StatOps` bound the program and the
  kernel, not the loop: two signals and two senders meet in each pair of accesses;
  three watchers and one nested `ev_run` meet at two priorities; four operations let a file be replaced while a
  watcher moves, with a second watcher on the same watch descriptor. `MaxOps` = 5
  for `EvStat` alone holds as well (640,000 states).

Deadlock is checked in every run except `timers` and `events`, where a part may
come to its bounds with nothing active; where the program of `GsLoop` and `GsTask`
has stopped, `Terminated` says so.

### Fairness, and why the code justifies it

- `GsLoop`: each thread that can move again and again moves. Strong fairness is
  needed where a thread waits for the mutex: the background thread locks again
  right after each poll with a zero timeout, so the code itself does not guarantee
  a client its turn; it relies on the mutex. Nothing is assumed of spurious
  wake-ups. Some client calls `gs_work` again and again, as the loops of
  `test/gs.c` do; no client is assumed to start, stop or register.
- `GsTask`: the thread keeps polling; a timer that stays active expires in some
  iteration; the program keeps calling `gs_work` and its callbacks return. A
  socket need never become ready.
- `EvIoLoop`: the loop runs on (`thread_start` calls `ev_run` in a loop); a system
  call asked again and again answers at some time without `EINTR` or `ENOMEM`; the
  kernel completes a request whose file stays ready.
- `MCEvEvents`: the loop and the threads run on. That the wait ends by itself is
  not assumed: a timeout would hide a lost wake-up. `ToldInTheEnd` leaves out the
  part with forks: after a fork `loop_fork` leaves the pipe's event pending, and
  the loop polls, and may wait, before it runs the callback.

## 4. Proofs

Every theorem holds for every value of the constants that satisfies the
assumptions of its module: any sets of threads, watchers and signals, any number
of tasks, priorities and operations. Where a theorem has a hypothesis of its own,
the property is false without it, and the hypothesis is a rule the program of gs or
of libev has to keep.

Each proof has the same shape: an inductive invariant `IInv`, a conjunction of
named parts; one lemma per action, or per part and group of actions, that the step
keeps it; a short lemma that it implies the property; and a last step in temporal
logic. TLC finds no violation of any `IInv` on the instances of section 3.

| Module | Theorem | Statement | Hypothesis |
|---|---|---|---|
| `GsLoopProofs` | `TypeCorrect` | `[](TypeOK /\ AsyncRegisteredOnce)` | |
| | `Exclusive` | `[]LibevExclusive` | `~CancelUnlocked` |
| | `WakeupKept` | `[]NoLostWakeup` | |
| | `Drained` | `[]PollOnlyWhenDrained` | |
| | `Dispatch` | `[](CallbacksWhileParked /\ CallbacksOnClients)` | |
| | `WakeupRecorded` | `[]AsyncNotForgotten` | |
| | `SyncAlive` | `[]SyncAliveWhileUsed` | |
| `GsTaskProofs` | `Types` | `[]TypeOK` | |
| | `Sockets` | `[]SocketOfRunningTasks` | |
| | `NotForgotten` | `[]RunningTasksWatched` | |
| | `Ordered` | `[]CallbackOrder` | |
| | `ToldTwice` | `[]EndsAtMostTwice` | |
| | `Known_Running` | `[]WatchersOfRunningTasks` | `Careful` |
| | `ToldOnce` | `[]EndsOnce` | `Careful` |
| | `Outcome` | `[]OutcomeTold` | `Careful` |
| | `Freed` | `[]FreedUnknown` | `Careful` |
| | `Refinement` | `LifeCycle`, that is, `GsTask` implements `TaskLife` | `Careful` |
| `GsSharedProofs` | `Watched` | `[]WatchedWhileRunning` | `Prompt`, `Waits` |
| | `Ready` | `[]OutcomeReady` | `Prompt`, `Waits` |
| | `ToldOnce` | `[]EndsOnce` | `Prompt`, `Waits` |
| `EvSignalProofs` | `NothingLost` | `[](TypeOK /\ NoLostWakeup /\ SignalOnItsWay)` | |
| `EvRunProofs` | `ArraysRight` | `[](TypeOK /\ ActiveCounted)` | |
| | `InOrder` | `[][HighestFirst /\ IdleWhenIdle /\ PollsWhenDone]_vars` | |
| | `ForksFirst` | `[][ForkBeforePoll]_vars` | `~LateFork` |
| `EvIoLoopProofs` | `Types` | `[]TypeOK` | |
| | `Listed` | `[]ChangesListed` | |
| | `ErrorTold` | `ErrorIsTold` | |
| | `PollArray` | `[](backend = "POLL" => ArrayAsWanted)` | |
| | `SelectBits` | `[](backend = "SELECT" => BitsAsWanted)` | |
| | `EpollSet` | `[](backend = "EPOLL" => ArmedAsWanted)` | `Supposed` |
| | `Handover` | `[](backend = "IOURING" => SwitchRegistersAll)` | |
| | `Requests` | `[](backend = "IOURING" => OneRequest)` | `Patient` |
| | `AskedAsWanted` | `[]InForce` | `Supposed`, `Patient` |
| `MCEvEventsProofs` | `Nothing_Forgotten` | `[]NothingForgotten` | |
| | `Runs_In_Order` | `RunsInOrder` | |
| | `Types` | `[]TypeOK` | |
| | `None_Missed` | `[]NoneMissed` | |
| `ListLemmas` | `HeapStarts`, `HeapStops`, `HeapMoves`, `HeapRootMoves`, `HeapAdjusts`, `HeapRoot` | what an operation makes of a heap | |

Each module but the last two has a theorem `Inductive` as well, and `GsTaskProofs` a
`CarefulInductive`: the inductive invariant holds.

### The loop: `GsLoopProofs`

None of the invariants is inductive alone. `IInv` joins

- `TypeInv`: the types, with the registration of `async_watcher`, because
  `asynccnt` stays in {0, 1} only by following the control state of `gs_start` and
  `gs_stop`;
- `PhaseInv`: which states of the background thread go with which states of
  `Main`;
- `LockInv`: who holds the lock where. The key part is that the thread holds it
  everywhere inside `ev_run` *as long as `lock_cb` is installed*, and that
  `gs_loop_stop` keeps the lock from its first step until the thread may have left;
- `DrainInv`: nothing is pending on the way to the poll unless `stop_loop` is set,
  and only a thread whose invoke callback was put back drains by itself;
- `AliveInv`: when the mutex exists;
- `NoLostWakeup`, which needs `LockInv` (no client changes `pending_work` while the
  thread decides to wait) and `ClearedKeepsCount` (a cleared event still counts);
- `AsyncNotForgotten`, from the lemmas on `ev_async_send` and `pipecb` at the start
  of the module.

Each step lemma (`...LoopStep`, `...MainStep`, `...ClientStep`) treats the actions
of one thread. `Exclusive` carries its hypothesis because without it the property
is false (`loop_cancel_race`). The assumptions are that threads have distinct
names, that watchers are not called "async" or "dummy", and that the bound is a
natural number.

### Tasks: `GsTaskProofs`

The proof is in two layers. The first holds of every program:

- `ListInv`: the watchers of the socket belong to running tasks that wait for their
  event, the newest first;
- `PendingInv`: so do the io events that are pending. `clear_pending`, which
  `ev_io_stop` calls, is what keeps this: an event of a task that has ended would
  reach the task that reuses its memory;
- `CallbackOrder`: in each queue of pending events the timeouts come before the io
  events and older tasks before newer ones. It follows from the order of `wlist`
  only for queues that one `feed` has made, so `FeedInv` shows it of all that
  `feed` can make;
- `RunningTasksWatched`, and `SendingInv` for the task between the two critical
  sections of `gs_ctx_send`;
- `RunningInv`: a running task is not in the queue and has no outcome;
- `FrameInv`: what the frames of the client's stack say of their tasks. Callbacks
  call gs again, so that a task may end inside of its own callback; the invariant
  says what the code after the callback may still find;
- `EndsInv`: how often `when_done_cb` ran, by the fields of the task and the frames
  still to return.

The second, `CareInv`, needs `Careful`: that a program does not cancel a task that
is done, that a callback which has cancelled its own task returns an error, and
that a context is deleted when no task runs. Then timers and pending timeouts are
of running tasks only, and ends are told once. Without these rules `write_cb`
starts the timer of a task that has just ended, and `task_finish` is called twice;
`ToldTwice` says that there it remains.

`Refinement` maps a task to *free* (in the queue), *running* or *ended*. Nearly all
steps stutter. Those that move are `gs_ctx_send`, the two calls of `task_finish`
(`FinishLife`, `CancelLife`), `gs_task_del` and `gs_ctx_del`; the invariants say
that the task is then in the phase from which `TaskLife` lets it go.

### Tasks between threads: `GsSharedProofs`

`IInv` describes a task by phases (`StartInv`, `RunInv`, `EndingInv`, `EndedInv`,
`AvailInv`): what each thread has written and what libev knows when the sender and
the dispatcher are where they are. Both hypotheses are used at one place each:
`Prompt` where a timer expires, `Waits` where a task is given back.

### Signals and asyncs: `EvSignalProofs`

The handler may run between any two accesses of the loop, and each thread has its
own program counter, so that `NoLostWakeup` has to be carried over every
interleaving.

- `FlagInv`: a flag of the channel that is set (`sig_pending`, `async_pending`)
  is `Covered`: by a byte in the pipe, by the pending event of the pipe, by
  `pipe_write_skipped`, which the loop looks at before it waits, by a writer that
  has still to write, or by a fork that the loop will notice;
- `SkipInv`: when `skipped` is set and the loop waits all the same, the writer has
  still to look at `wanted`, or is about to write. This is the argument for the two fences in `evpipe_write`: the
  loop sets `wanted` before it reads `skipped`, the writer sets `skipped` before it
  reads `wanted`;
- `WayInv`: a signal with a watcher that was raised is in the kernel, with a
  handler, in `signals[]` with its flag, with the loop, or pending;
- `LoopInv`, `HandlerInv`, `HeadInv`: where the loop is, and which signals have
  watchers.

### Iteration: `EvRunProofs`

- `ArrayInv`: a watcher's `active` is its index and the watcher at the index has
  it: removal puts the last in the place of the removed;
- `PriorityInv` and `AboveInv`: an event is on the stack of its watcher's priority,
  and nothing is pending above the level at which `ev_invoke_pending` is.
  `ev_feed_event` raises that level again;
- `FrameInv`: only `ev_invoke_pending` is interrupted by a callback, only the call
  on top of the stack runs, and nothing is pending at the places between the
  invocations;
- `ActiveCounted`: `activecnt` is the number of active watchers, of which cleanup
  watchers do not count, and the program's own `ev_ref`. Cardinalities of sets are
  followed through start and stop, for which the set of watchers must be finite;
- `ForkInv`: the fork watchers not yet told are pending, from the moment they were
  queued until they have run. It needs `~LateFork`: a callback between the fork
  watchers and the poll that calls `ev_loop_fork` comes too late for them.

### Io watchers and back ends: `EvIoLoopProofs`

One invariant for four back ends. Its first part, `Good(n)`, is about libev alone:
the watchers of a descriptor are different ones and set for it (`HeadsInv`), the
changed descriptors are on the list after its first `n` places, each once
(`ListInv`), and the mask of a descriptor that has not changed is what its watchers
want (`MaskInv`). The `n` is what `fd_reify` needs: while it walks the list, the
entries it has dealt with are still there, and the back end may add new ones, because
`fd_kill` in `epoll_modify` stops watchers and so changes descriptors again. At the
end of the walk the first `n` places are dropped and `Good(0)` holds once more
(`ReifyEnd`). Between two steps it is always `Good(0)`.

- `FdChange`, `IoStart`, `IoStop`, `FdKill`, `FdEbadf`, `FdEnomem`, `FdRearmAll`,
  `FdEvent`: what each function of the descriptor layer keeps, wherever in
  `fd_reify` it is called from. `Follows` says what the loop itself does to the
  watchers: it stops none without an error and takes no change off the list.
  `ErrorTold` is its consequence for every step of a back end.
- `PollAgrees`: array and index of poll are inverse to each other, and the entries are
  the masks in force. `poll_modify` is the only function that changes either, and it
  is told the old mask by `fd_reify`, so the invariant ties the back end's state to
  libev's. `PollState` adds what is known between `poll` and the look at its result:
  the array is still the one that was polled, although watchers may have changed.
- `SelectAgrees`: the same for the bits, for all descriptors there could be, and not
  only those in use; `OneBit` is the arithmetic of words and bits. `SelectFits`: only
  bits that were asked for come back.
- `Armed`, a second layer over `IInv`, says what the kernel's set of epoll holds.
  libev never reads that set: it leaves removals to `close`, and `epoll_modify` guesses
  from `emask`, from its generations and from the errors of `epoll_ctl`. `KnownOf` is
  what it may trust: an entry under a descriptor's present file has the descriptor's
  generation, and its mask is `emask` unless that was reset; a refused descriptor is in
  `epoll_eperms`. `InSet` is the goal, for `Registered` descriptors only: between
  `ev_io_set` with its first start (`EV__IOFDSET`) and the next `fd_reify` the descriptor may refer
  to another file than the one registered. `Sound` joins both, and claims
  `InSet` only if no fork has invalidated the set (`postfork`); `MadeAnew` says that
  `loop_fork` has then made it anew before the poll. Reports of old generations are why a
  return from `epoll_wait` has to keep it too: `epoll_poll` modifies or deletes entries by
  what it finds in them. `Tidy` is what the program contributes: watchers are set for open
  descriptors and ask for something, and an active one has been started since it was set.
- `Supposed` is the hypothesis, and without it `EpollSet` is false. A descriptor that
  comes to refer to an earlier file again, through a duplicate, finds an old entry there
  (`EEXIST`), and its mask is not checked. And when the kernel is out of entries,
  `fd_kill` stops the watchers with an error; one that starts again without `ev_io_set`
  and with the same mask is not registered, because `fd_reify` sees neither
  `EV__IOFDSET` nor a new mask. So either watchers are set again (`~Restart`), and the
  kernel may refuse as it likes, or it grants what is asked for. The two parts of the run `io`
  are these two cases.
- `Handover` uses `Tidy` as well: `fd_rearm_all` puts the descriptors with watchers on the list
  and clears their masks, so that each mask that is wanted counts as a change.
- `Calm`, the same layer for io_uring, says of each descriptor what is *on its way*: a submission
  that has not been entered (`Unsent`), a request in the kernel (`Waiting`) or a completion
  that has not been looked at (`Answered`), each of the present generation. There is exactly one
  (`One`) if libev's mask is not empty and none otherwise (`Flow`). Its other parts are
  what the steps need: submissions are for open descriptors, and nothing has a generation to come (`Dated`), so that
  a removal never hits the request that replaces it; and everything was sent before the loop
  goes into the kernel (`Sent`). Between the calls of `iouring_sqe_get` in one modification
  the ring may be full and be entered early, which completes some requests in the middle of `fd_reify`:
  `FlowsOn` says that a step keeps `Flow` whatever the masks are. `Settled` is the point
  of the walk over the completions: it clears the mask of exactly those descriptors whose
  current completion it consumed, and puts them on the list of changes, so that `fd_reify` arms
  them anew. Lost completions (`overflow`) end `Flow`, and `CompleteFlow` shows that
  the ring which is set up in their place starts with all masks empty.
- `Patient` is the hypothesis of `Requests`. `~CloseWhilePolling`: a program
  that closes a descriptor while the loop enters the kernel has the request answered with
  `EBADF`, and its watchers are stopped in a way libev asserts cannot be (section 5). `~NoDrop`: the
  kernel drops the completions that do not fit, and says so. One that keeps them refuses
  `io_uring_enter` while it has no room, and libev then takes for sent what is still in
  the ring (section 5). The run `io` has both constants so.
- `AskedAsWanted` joins the four back ends: it is `InForce` as the run `io` checks it.
- `EpollBack`, `UringBack`: types, among them that the entries of io_uring's rings are
  never more than it was set up with, through `iouring_overflow` and forks.

The loops of the code run over lists while their body changes the state. `LoopStays`
of `ListLemmas` says of the recursive function in `EvSteps` that it stays in a
family of sets `S[n]` when its n-th step leads from `S[n - 1]` to `S[n]`.

### Files and the composed instance: `MCEvEventsProofs`

The run `events` composes three instances of `EvSignal`, two of `EvRun` and one of
`EvStat`, which share variables. `IInv` has a conjunct per part, and the parts not
chosen stand still. Stat watchers are proved about in this module, for two watchers
and any number of files, events of the queue and operations.

- `StatInv`: a watcher without a timer is in the hash with a descriptor, and
  *sees* its file (`Sees`): either an event on its way tells it that its watch is
  gone, or its watch is on the file it knows and an event is on its way for each
  difference. What `stat_timer_cb` has found and not told is pending. The invariant
  has to hold in the middle of `infy_cb`, which handles a buffer of events one by
  one: there, an event on its way is one of the queue or of the rest of the buffer
  (the set `E` of `Sees`). A step of the file system may move or remove watches and
  adds events (`Change`); `infy_wd` (`WdGoes`) takes an event away, and each
  watcher of its descriptor compares its file and watches it again, while the file
  may change once more (`MeanwhileKeeps`). Two watchers can share a watch, so
  `infy_del` of the one may remove the watch of the other, and the new watch of
  the first has to be on the file of the second again, or the kernel says that the
  watch is gone.
- What is excluded (`Races <- {}`, section 5) is excluded here as well.

For signals and iterations the step lemmas of `EvSignalProofs` and `EvRunProofs`
are used through instances of those modules with the same substitution. The prover
takes the definitions of two instances for different ones even where they expand to
the same formula, so there are lemmas, such as `SameRun` and `SameFork`, that a step
of the one is a step of the other, action by action.

### The heap: `ListLemmas`

`Heaps(E)` are the heaps of watchers of a set `E`, of any size, that are right:
`VerifyHeap` holds, which translates libev's `verify_heap`, and each active watcher
is in the array. A new loop's heaps are (`HeapEmpty`). For each function of the code
that changes a heap a theorem says that it makes a heap that is right of one that
is, which times it leaves, and that the watchers in it are those it should have:
`HeapStarts`, `HeapStops`, `HeapMoves`, `HeapRootMoves`, `HeapAdjusts`. By `HeapRoot` the
root of a heap that is right is then the earliest of all.

- `upheap` and `downheap` are both a *path*, computed by a recursive function, and a
  rotation along it. `PathsExist`, `PathsArePaths` and `PathFalls` are about such
  functions in general, `RotateRotates` about the rotation: nothing is lost or
  doubled and each watcher learns its index.
- The order needs the right invariant for one element out of place. `TooEarly` and
  `TooLate` say that all others are in order *and* that the children of that place
  are in order with its parent, without which filling the hole would break what is
  below it (`OrderUp`, `OrderDown`). `Misplaced` is both; with it `adjustheap`
  decides rightly which of the two to call (`AdjustheapOrders`).
- In the middle of `heap_stop` a watcher is out of the array and still active, and
  a place may hold the last element of an array that ends before it (`Without`).

### How the proofs do without induction over data

The prover cannot use the library's induction theorems, which take an operator as
a parameter. `ListLemmas` states induction over *sets* instead: `LeastNat` (a
non-empty set of natural numbers has a least element) and `InductionOnSet`. That is
enough for existence and the properties of a recursive function: the set of
counter-examples is named, and its least element refuted. So `fd_event_nocheck` of
`GsTask`, which walks the list of watchers, `queue_events` of `EvRun`, which
feeds an array of watchers one after another, and `Steps`, the loops of the io side,
are recursive functions; what they
return for lists of any length is proved (`QueueExists`, `QueueNext`,
`QueuedInOrder`, `Queued`, `LoopRuns`, `LoopStays`).

### Only model-checked

- All liveness: `StopReturns`, `WorkDispatched`, `WakeupConsumed`, `TimedTaskEnds`,
  `ReadyIsTold`, `ToldInTheEnd`, `NoneLeftExpired`. The prover does not handle
  ENABLED, on which fairness rests.
- Of `MCEvIoLoop`, that the io side implements its contract (`IoContract`). `InForce` is proved
  for each back end.
- Of the run `timers`, what the loop does with its clocks (`SleepsNotPast`, `NotFar`),
  and that each operation meets the hypotheses of the theorems about the heap
  when it calls them (`HeapsInOrder`). `SleepsNotPast` is about a wait that no
  operation has cut short: one during the poll wakes the loop, which computes its
  wait anew.

## 5. Not modelled, and what the constants exclude

Not modelled:

- What `src/libev.c` compiles out: child watchers, periodics and the timerfd that
  notices jumps for them, more than one loop.
- Back ends that are not compiled on Linux or off by default: `ev_linuxaio.c`
  (needs `EV_USE_LINUXAIO`), `ev_kqueue.c`, `ev_port.c`, `ev_win32.c`.
- `ev_embed`, `ev_once`, `ev_walk`, `ev_suspend` and `ev_resume`, creation and
  destruction of loops, `io_blocktime` and `timeout_blocktime`: gs uses none of them.
- `read_fn` (no public function starts a receiving task), the queue of cco (a
  fetched library, used as first-in first-out), `gs_sleep`, logging, the test
  helpers, the build.
- Undefined behaviour after a data race; races are shown as violations of
  exclusion, not by their effects.

Excluded by constants, because the code does not meet the property there. None of
it can be reached through the functions of gs alone:

- `DupBack`: epoll answers `EEXIST` for an entry kept alive by a duplicate, and
  libev then keeps the old entry's mask (`ev_epoll.c:111`).
- `CloseWhilePolling`: poll and io_uring report a descriptor that is closed during
  the system call, and libev asserts that this cannot be (`ev_poll.c:121`,
  `ev_iouring.c:525`).
- `NoDrop`: on a kernel that keeps completions, a refused call still resets
  `iouring_to_submit` (`ev_iouring.c:242`), so `iouring_sqe_get` may spin (`:259`).
- `Restart`: a watcher that `fd_kill` stopped and that is started again without
  `ev_io_set` may stay unregistered (`ev.c:2452`).
- `LateFork`: a prepare callback that calls `ev_loop_fork` comes too late for the
  fork watchers of that iteration (`ev.c:4071`).
- `Races` of `EvStat`: `ev_stat_start` looks at the file before it watches it, so
  a change in between is not seen until the next; `infy_fork` watches anew without
  a look, so the child loses what was still unread; and an overflow of the
  kernel's queue can lose the event that a watch is gone.

Other observations met while modelling: timers count from the cached time, so one
that is started or restarted long after the last iteration, while the thread waits in
`epoll_wait` (up to `MAX_BLOCKTIME2`, seventeen days) or is parked, ends early, that of
a task even at once (`ev.c:4451`); `ev_resume` without a monotonic clock may adjust
timers twice; setting `loop_done` around the poll loses an `ev_break` made by another
thread meanwhile (`ev.c:4158`); a stopped signal watcher leaves `signals[].pending` set
(`ev.c:4638-4674`); the outer `EVBREAK_ALL` is undone by a nested `ev_run`
(`ev.c:4029`); the generation of epoll wraps after 2^32 (`ev_epoll.c:92`);
`iouring_fork` lacks an `ev_unref` (`ev_iouring.c:429`), and `activecnt` is not
followed there.

## 6. Plan

1. Done: the models of gs (`GsLoop`, `GsTask`, `GsShared`, `SendData`, with
   `TaskLife` above the tasks) and of libev (the channel, the io layer with four
   back ends, timers, signals, iteration, stat watchers), and their runs.
2. Done: proofs for the loop, the tasks in one thread and between two, the step
   simulation of `TaskLife`, signals and asyncs, the order of an iteration, and
   descriptors with io watchers on any back end.
3. Done: the same for the changes of files, and with them all that the run `events`
   checks but liveness; the order of the heap.
4. Done: what poll, select, epoll and io_uring have in force. Open: the invariants of
   `EvTimers`, from the theorems about the heap; that the io side implements `EvIo`.
5. Open: an abstract hand-over (collect, dispatch, collect) that `GsLoop` is shown
   to implement, by TLC and by TLAPS.
6. Open: receiving tasks and `read_fn` in `SendData`.
