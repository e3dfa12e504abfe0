# FixBrowser & Co: verification project

TLA+ models of the concurrent and crash-prone core of this repository, checked
with TLC, with theorems proved by TLAPS. Five parts are the subject:

- **fixtask** (`src/fixtask`), which gives FixScript programs threads: tasks,
  channels, channel sets, barriers, compute tasks, and the `Dispatcher` class that
  runs timers and channel callbacks. Everything that runs concurrently in the
  browser, the game and the tools goes through it;
- the **event loop of fixio** (`src/fixio/fixio.c`), alone and integrated with the
  channel sets of fixtask;
- the **atomic files of fixio** (`src/fixio/io/atomic_file.fix`): transactions with a
  rollback log, under crashes of processes and of the machine;
- the **workers of fixgui** (`src/fixgui`): threads that exchange messages with the GUI
  thread, on GTK and on Windows;
- the **pages of the browser** (`src/fixbrowser/browser`): views with their history, the
  workers that load pages and the tasks that fetch style sheets.

The directories `fixbrowser` and `fixbrowser/gateopener` keep copies of these files.

1. [The system](#1-the-system)
2. [The modules](#2-the-modules)
3. [What is checked](#3-what-is-checked)
4. [What is proved](#4-what-is-proved)
5. [Disagreements between code and documentation](#5-disagreements-between-code-and-documentation)
6. [Abstractions and limits](#6-abstractions-and-limits)
7. [Plan](#7-plan)

## 1. The system

FixScript is a scripting language with one heap per thread and no shared
memory between heaps but shared arrays of numbers. Threads exchange values by
copying them from heap to heap, and that happens in fixtask.

| component | state | operations | hard behaviour | what makes it correct |
|---|---|---|---|---|
| **Channel** (fixtask.c 5681-6628) | one slot (`send_heap`, `send_msg`, `send_error`) or a queue in a heap of its own; `notify_entries`; a mutex and `send_cond`, `send_cond2`, `receive_cond` | `create`, `send`, `receive`, `set_size`, `get_sender`, `get_receiver` | a rendezvous of any number of senders and receivers, each with its own timeout; a receiver may refuse a message it cannot copy; single signals | order, at most once, truthful answers to senders, no lost wakeup, every send returns |
| **Channel set** (5864-5947, 6652-7205) | a hash table of entries, `notify_list` of the entries believed ready, a mutex and one cond | `create`, `add`, `remove`, `receive` | the list changes while it is walked; two mutexes taken in turn | a ready channel is listed, the set never sleeps next to a message |
| **Barrier** (5539-5678, Windows conds 353-392) | `num_waiting`, `counter_value` (32 bits, wraps), a cond per waiting task, the first task's heap and marker | `create`, `wait` | rounds follow each other at once and reuse everything | nobody passes before all have come, everybody passes, the marker is compared in a heap that stands still |
| **Task** (105-121, 470-767, 865-1197) | two queues of up to 100 messages in a common heap, one mutex, one cond, `refcnt` | `create`, `send`, `receive`, `receive_wait`, on both sides | two directions and several parents on one condition variable; the end of the thread against the last handle | nobody sleeps next to what it waits for, freed exactly when unused |
| **Compute tasks** (123-155, 1218-1858, 7498-7550) | worker heaps on three stacks (`inactive`, `active`, `finished`), `parallel_mode`, `quit` | `run`, `check_finished`, `finish_all`, `run_parallel`, native functions, the core threads | finish functions called with the mutex released that call back in; errors half way; reading the script's heap from other threads | every heap in one place, every job finished once, the script's heap stands still while others read it (the code keeps that only in part) |
| **Dispatcher** (`task/channel.fix` 220-420) | the list of timers, `leave_loop`, the channel set; a stack of loops entered from callbacks | `run_later`, `enter_loop`, `leave_loop`, `dispatch` | callbacks change the list that `dispatch` walks by offset; the clock wraps | no timer lost, run twice, early or out of order; all are run |
| **Event loop** (`fixio.c` 6786-8000) | `timers`, `thread_results`, the thread pool, the poll and the events it returned, the operation under way on each socket | `async_run_later`, `open`, `read`, `write`, `close`, `async_process`, `async_quit` | callbacks make requests while the lists are worked off; pool threads come and go | one callback for each request |
| **Integration** of the two (fixtask.c 7137-7263, fixio.c 14690-14801) | `has_events`, `wait_mutex`, `sending_signal`, `foreign_processed` | notify, receive, process_events | an event thread and the heap share the poll by turns; a set may be freed after receive | one user of the poll, the set outlives the notify, no event is slept through |
| **Atomic files** (`io/atomic_file.fix`) | the header (state, two log offsets, length), data pages, two places for the log; per transaction the saved pages and what to undo | `open`, `begin`, `write`, `set_length`, `commit`, `rollback`, nested; locks between processes | crashes between any two file operations and during recovery, unsynced writes lost, torn or reordered, the log moved while the file grows into it | atomic, durable, isolated; recovery always possible |
| **GUI workers** (`fixgui.c` 2530-2909, `fixgui_gtk.c` 2064-2170, `fixgui_win32.c` 1458-1521) | two queues of up to 1000 messages, one mutex and one condition variable, `finished`, `refcnt`; the list of workers to notify, or messages posted to a window | `worker_create`, `worker_send`, `worker_receive` on both sides, `worker_notify_func`, the end of the thread | notifications are merged or nested in callbacks; the handle, the thread and the notifications let go in any order; one signal for both sides | freed by the last user, callback data outlive the messages, messages get through |
| **Pages** (`view/view.fix`, `worker/worker.fix`, `worker/html.fix`, `worker/fetch_task.fix` of `fixbrowser/browser`) | of the view `history`, `request_id`, `cancel_channel`, `redirect_count`, the document it shows; of each page worker the sheets asked for and received, `fetched_resources`; `fetch_channel` | `open_url`, `open_image`, `back`, `forward`, `reload`, `stop`, the reports of the workers; loading a page; `handle_message` of a fetch task | loads that were replaced go on and report later; cancelling is a message a worker looks at now and then; bounded queues in both directions between workers and tasks | what is listened to is for the entry the view stands on, a cancel reaches the right worker and blocks nobody, all loads end |
| Script heaps, ParentRef, globals, atomics | nested interpreters, read-only references, a global table, hashed mutexes | many small operations | mostly one critical section each | not modelled |
| the rest of **fixio** | streams, websockets, zip, database drivers | formats over byte streams | mostly sequential | not modelled |
| **fixscript** (`src/fixscript`) | parser, interpreter, JIT, heap and collector | | single-threaded, large | not modelled; copying a value between heaps appears as "succeeds or fails" |
| the rest of **fixbrowser** | HTML, CSS, layout, scripts, TLS, the cache task, images of pages, the proxy | | large data transformations; a cache over channels | not modelled |
| the rest of fixgui, fiximage, mathlib, png, zcomp, fixnative, fixbuild, fixutil, bindiff, cellsplit | | | window systems, codecs, build tools, a game | not modelled |

Interaction: senders and receivers call into a channel under its mutex; a
channel that becomes ready or empty calls into every set that watches it
(`notify_sets`, `unnotify_sets`), taking the mutex of the set inside its own; a
set calls `channel_receive` with its own mutex released. The script side of
compute tasks is called back from inside `run`, `check_finished` and
`finish_all`. `run_parallel` is built from `run` and `finish_all`. A `Dispatcher` sleeps in
`channel_set_receive` with the time of its first timer as timeout. With the
integration the event thread of fixio waits in epoll, announces events through
`channel_set_loop_notify`, and the heap processes them inside `channel_set_receive`;
without it `async_process` does both. A GUI worker and its owner put messages into queues
of a heap of their own under the mutex of the worker; each message to the GUI is followed
by a notification, which the GUI thread takes from its event loop and answers by emptying
the queue, one callback of the script for each message. An `AtomicFile` shares its file with other
processes through file locks only. A view of the browser starts a GUI worker for each load and
listens to the report with its own `request_id`; page workers ask the fetch tasks (tasks of
fixtask) through one channel and are answered through a channel of their own.

`PROJECT.json` lists, under `hazards`, the places where this code is hard to
test, each with the properties that watch it.

## 2. The modules

| module | models | state and actions |
|---|---|---|
| `AbstractChannel` | the promise of `docs/channel.html` | a log per channel, how much of it was handed out, the answer to each sender; `Submit`, `Accept`, `Deliver`, `HandOver`, `Tell` |
| `Channel` | `channel_send`, `channel_receive`, `channel_set_size`, `notify_sets`, `unnotify_sets` | `slot` is `send_heap` (its message is in `call`), `sendError` is `send_error`, `queue` and `size` as in the code, `notifyEntries` and `notifyList` the lists of channel and set; `pc` is the wait a call is at ("send": `send_cond`, "sent": `send_cond2`, "receive": `receive_cond`), `asleep` who is blocked there, `expired` who came back with `ETIMEDOUT` |
| `ChannelSet` | `channel_set_add`, `_remove`, `_receive`; extends `Channel` | `TrafficSpec` lets senders send without end; `index` is the loop variable of receive, `current` the entry it picked, `entryChan` what is in the memory of an entry after it was freed |
| `TaskBarrier` | `barrier_wait` | the fields of the struct; `pc` tells whether a task is blocked, awake, or on Windows in the gap before its wait; `event` the remembered signals |
| `TaskMailbox` | `task_send`, `task_receive`, `task_handle_func`, the end of `thread_main` | `call` is the function a thread is in, `box` the two queues, `asleep` who waits for the one cond, `refcnt`, `holders` the heaps with a handle |
| `ComputeTasks` | the compute threads and their callers | the three stacks as sequences, `running` the heap of each core, `stack` the nested calls of the main thread (a finish function is a frame that may call again), `reading` the heaps with `parent_heap` set |
| `ParallelSplit` | the arithmetic of `run_parallel` | operators: `Parts(call)` is the list of intervals that the loop hands to `run`, for the arguments in the record `call`, on ints of `2 * Bound` values; `MCComputeTasks` evaluates it next to the threads |
| `Dispatcher` | `run_later`, `enter_loop`, `leave_loop`, `dispatch` | `timers` the list, with a history of when each entry is due; `frames` the nested calls of `dispatch` with its variables `off`, `len`, `imm_off`, `cur_time`, `timeout`; one action per stretch between two callbacks |
| `EventLoop` | `AsyncProcess` and its pool, timers and sockets; `AsyncIntegration` on both sides | `heap`, `poller`, `thread` tell where the heap, the event thread and the pool threads are; `batch` is what `epoll_wait` returned and nobody looked at yet; `waitMutex`, `hasEvents`, `sendingSignal`, `foreignProcessed` as in the code; `integrated` is chosen in `Init` |
| `FileImage` | the file under an `AtomicFile`: its operations, sync, what a crash leaves | header fields, pages, the logs by the place where they start; `images` are the files that a crash of the machine may leave, and `CrashImages` what an operation adds to them: any part of the operations since the last sync, torn pages included, where `LengthsOrdered` holds with a new length only behind what was written before it |
| `AtomicFile` | the class `AtomicFile`; extends `FileImage` | a call becomes a *plan*, the list of file operations the code would do, executed one at a time (`FileOperation`); `txn` the fields of the object, `buffers` its `RollbackBuffer`s; `ProcessCrash`, `MachineCrash` |
| `AbstractFile` | what the documentation promises of a transaction | `possible`, the contents the file may have (after a crash also longer ones), `working`, the contents the nested transactions see |
| `GuiWorker` | `worker_main_func`, `worker_notify_func`, `func_worker_create`, `_send`, `_receive`; `worker_lock`, `_unlock`, `_wait`, `_notify` of GTK and Windows (`platform`, chosen in `Init`) | `thread` is where the thread of a worker is, `frames` the nested calls of `worker_notify_func`, `pending` the list `notify_workers` or the posted messages, `polling` that `worker_notify_callbacks` holds `global_mutex`, `gap` and `event` the unlocked moment before a wait of Windows and its auto-reset event; `refcnt`, `finished`, the lengths of the queues and `rooted` (`worker->handle` is set) as in the code |
| `WebView` | `WebView`, `History`, `HistoryEntry`; `real_load_url` and `process_document` as far as they talk to the view and the tasks; `handle_message` and `send_failure` of the fetch tasks | `entries`, `pos` (one more than in the code), `requestId`, `cancelChannel` (the request it belongs to), `cancels` (who has a message in it); `worker[n]` is the worker of request n: where it is, its report, the sheets still to ask for (`todo`) and the difference of `total_resources` and `cur_resources` (`missing`); `fetchQueue`, `replies` and `task` the channels and the tasks |
| `ChannelProofs` | theorems about `Channel` and `ChannelSet` | |
| `TaskProofs` | theorems about `TaskBarrier` and `TaskMailbox` | |
| `ComputeProofs` | theorems about `ComputeTasks` and `ParallelSplit` | |
| `AtomicFileProofs`, `DispatcherProofs`, `EventLoopProofs`, `GuiWorkerProofs`, `WebViewProofs` | theorems about the module each is named after; those of `AtomicFileProofs` also about `FileImage` and `AbstractFile` | |
| `MCChannel`, `MCChannelSet`, `MCTaskBarrier`, `MCTaskMailbox`, `MCComputeTasks`, `MCDispatcher`, `MCEventLoop`, `MCAtomicFile`, `MCGuiWorker`, `MCWebView` | instances for TLC: queue sizes, a symmetry, ranges, pages | |

**Granularity.** In fixtask.c everything between two waits happens under one mutex, so an
action is the segment of a call from one acquisition of the mutex to the next
release. A wait ends by a signal, by its timeout, or for no reason at all
(`WakeSpuriously`); between the end of a wait and the segment that follows,
other threads may have the mutex. This is where the interesting interleavings
are, and it is why a timed sender can have `expired` set and its message taken.
`notify_sets` takes the mutexes of the sets inside the channel's; those nested
sections only touch `notifyList` and wake the owner, and are part of the
segment. `channel_set_receive` gives up its mutex for every entry: those gaps are
separate actions (`Pick`, then `SetTake` or `SetMiss`). In `Dispatcher` and `EventLoop`
callbacks are where other code runs: an action ends where a callback is called, and
what the callback does is a number of actions of its own. In `EventLoop` a mutex held
across several actions (the mutex of the set through all of `process_events`,
`foreign_mutex` from the end of epoll to the wait for the answer) is a predicate over
the places of its holders. In `AtomicFile` an action is one operation on the file; a
plan can be made in one step because its process holds the lock of the file alone,
and a crash forgets the rest of it. In `WebView` an action of the view is one event of the
GUI thread, and actions of workers and tasks end where they send or receive; the channels in
between are taken at their promise (`AbstractChannel`).

**Signals.** `pthread_cond_signal` wakes one waiter, any of them, if there is one
(`Woken`). Which of `send_cond`, `send_cond2` and `receive_cond` a thread sleeps in
follows from `pc`. In `TaskMailbox` there is only one condition variable, and the
choice ranges over all sleepers.

**Variants with a mistake.** Each specification also holds operators marked
*Mutant*: copies of an action with one plausible mistake (a missing signal, a
reset left out, an off-by-one). No specification uses them. Substituted for the
action they are a copy of, they make the property they are paired with in
`PROJECT.json` fail, which shows that the property can tell.

## 3. What is checked

### Properties

Channels: `SleepingSenderOffers` (no wakeup of a synchronous sender is lost),
`NoStrandedReceiver` (nobody sleeps next to a message that nobody on the way will
take), `AtMostOnce`, `TrueMeansDelivered`, and `KeepsPromise`: the detailed channel
implements `AbstractChannel` with the log of a channel mapped to *what was taken
followed by what is queued*, the answers mapped to themselves, and `hurried` to the
messages of the calls with a time limit: only those may be answered "false" although they
went.

Sets: `ReadyIsListed`, `SleepingSetHasNoMessage`; liveness: `EveryMessageServed` (a channel
that keeps having messages is received from without end) and, of the senders to the channels of
a set, `EverySendReturns`. Both are stated for senders that never stop, and both name the one
exception, `Starved`: every receive begins at the front of `notify_list`, so channels that stay
ahead of another one, or take turns there, keep the set away from it as long as they have
traffic (section 5).

Barriers: `Rendezvous` (no task ends its n-th wait before every task has begun its
n-th), `NobodyLeftBehind`, `FirstHeapIsStopped`.

Tasks: `NobodySleepsInVain`, `FreedWhenUnused`, `EverySendReturns`.

Compute tasks: `HeapsInOnePlace`, `EveryJobAccountedFor`, `EveryCallReturns` (or is `Wedged`:
the finish functions under way hold all heaps and wait for one); `OnlyPartsDisturb`, an action
property: up to the first error, in a step before which a core reads the heap of the script no
script code runs, and what is copied into that heap (`CopiesIn`) belongs to another part of the same
`run_parallel`; of the division of an interval `EveryIterationOnce`. The documentation promises more
(no change at all, every call returns), which the code does not keep (section 5).

Dispatcher: `NoTimerLost`, `RunsAtMostOnce`, `InTimeOrder` (an action property: never
early, never before one that was due earlier, across the wrap of the clock), and
`EveryTimerRuns`.

Event loop: `OneThreadInPoll`, `SetOutlivesNotify`, `NotSleptThrough`, `CalledOnce`, and
`EveryCallbackCalled`.

Atomic files: `ReadsItsOwnWrites`, `NeverCorrupted`, `ReadersSeeCommitted`, and
`Transactional`, the refinement of `AbstractFile`. The last two compare with `possible`,
the history of the contents that the commits and crashes so far allow: one after a commit or a
rollback, the old and the new one while a commit is under way and after a crash in it, and after a
crash that left a log without records also the old one made longer (`FoundLonger`). Who begins, to
write or to read, *finds* a content in the file; it must be one of them and is the only one from then on
(`possible \intersect {Found}`: if it is none of them nothing is left, and the properties fail). Of files
that are not clean the same does not hold (section 5).

GUI workers: `FreedWhenUnused` (freed exactly when nobody uses it any more),
`NothingLeftBehind` (the data of the callback go only after the last message), and
`MessagesGetThrough` (messages are taken, waits for room end, on both sides).

Pages: `LoadsTheCurrentEntry` (the load whose report the view listens to is that of the entry
it stands on; it says nothing of the documents of entries, since an entry that is left records what
the view shows at that moment, which may be the page of another address: section 5), `CancelsTheRightWorker` (what the view listens to can be cancelled, with
room in the channel, and has not been), `WaitHasAnAnswer` (what a worker waits for is in the
queue, with a task or answered, or was a lost failure), and `EveryLoadEnds`.

### Runs that pass

| run | instance | shows |
|---|---|---|
| `channel_wakeups` | 3 senders, 2 receivers, a synchronous channel and a queue of 1 that may grow to 2, 3 messages (one cannot be copied), sends of every timeout, receives that may expire at any moment; 455 thousand states | no receiver sleeps next to a message, no wakeup of the rendezvous is lost, also among threads that have timed out; no message is taken twice; the abstract promise |
| `set_shared` | a sender, a plain receiver and a set on two channels that enter and leave the set, entries at 2 addresses, 2 messages (one cannot be copied), every timeout; 1.5 million states | the list of the set names every ready channel |
| `set_no_skip` | 2 senders, 2 channels (a queue that may grow to 2), a set that is their only receiver, 3 messages that are sent again and again (`TrafficSpec`); 124 thousand states | the set never sleeps next to a message; with traffic that never stops every channel is served and every send returns, unless other channels starve it |
| `barrier` | 3 tasks, 3 rounds, a counter of 2 values, one marker; POSIX and Windows | the rendezvous on both; on POSIX nobody sleeps on in a round that is over |
| `mailbox` | a task and up to 2 parents that share and drop handles, queues of 1, 3 messages (one cannot be copied) | with one parent nobody sleeps in vain and every send returns; freed exactly when unused |
| `compute` | 2 cores, 3 heaps, 6 jobs: three with finish functions that run another job or wait for all (one of them fails), a plain one, one that fails, one that cannot be copied; every operation; 867 thousand states; the division of all intervals of up to 24 over 1, 2, 3 and 6 cores with `min_iters` up to 8 | heaps and jobs are never lost or duplicated; every call returns, or its finish functions hold all heaps that are not idle and wait for one (`Wedged`); up to the first error every job is finished once, and readers of the script's heap are disturbed by results of other parts only; every iteration is in one part |
| `dispatcher` | 3 timers, immediate or 2 ms away, a clock of 9 values that wraps at once, 1 waiting message, 2 nested loops; callbacks that add timers, throw, leave, enter loops; 386 thousand states | no timer lost, run twice, early or out of order; a loop that goes on runs them all |
| `event_loop` | 2 requests out of timers (immediate or delayed), connections, reads, writes, closes; 2 pool threads that may end, 1 socket, 1 message on a channel of the set; alone and integrated; 394 thousand states | the handshake of heap and event thread; one callback for each request, and in the end |
| `atomic_file` | a writer with 3 calls in transactions nested up to 2 deep (writes of 1 page, inside and beyond the file, `set_length` to 1 and to 10), a reader, 2 crashes of the process or of the machine, at any point; 383 thousand states | atomic, durable, isolated, also when recovery is cut off by the second crash; on a file system with `LengthsOrdered`, up to a greater length of the old content (`LongerAllowed`) |
| `gui_worker` | a worker and its owner, queues of 2, up to 4 messages each way (each may be one that cannot be copied), callbacks that send, drop the handle, or run an event loop in which notifications nest 3 deep; GTK and Windows; 91 thousand states | freed by the last user, callback data outlive the messages; messages and waits for room get through but where section 5 says |
| `web_view` | a page with 4 style sheets, a page with 1 for whose address a script may fail; queues of 1, one fetch task; 3 requests of the user, 2 of them loading at a time, a history of 2 entries, redirects followed once; 676 thousand states | the view listens to the right worker and can cancel it; no worker waits for what nobody will send; all loads end |

One run is violated, `atomic_file_pages`: one write of two pages (section 5).

### Conditions and bounds

Some properties carry the condition under which the code keeps them, because it
does not beyond it (section 5): `NobodySleepsInVain` and `EverySendReturns` of
`TaskMailbox` speak of tasks with one parent (the history variable `owners`),
`EveryJobAccountedFor` and `OnlyPartsDisturb` of the time
before the first error (`NoErrorYet`), `EveryCallReturns` of calls that are not `Wedged`,
`EveryMessageServed` and `EverySendReturns` of `ChannelSet` of channels that are not `Starved`, `NobodyLeftBehind` of POSIX
systems (`windows`), `NotSleptThrough` and `EveryCallbackCalled` of sets whose list was never
walked in vain (`missed`), `EveryCallbackCalled` of requests that were not thrown away
(`dropped`), `ReadersSeeCommitted` of files that are clean, `FreedWhenUnused` of `GuiWorker` of workers
without a merged notification (`merged`), `MessagesGetThrough` of times at which the GUI
thread is not in one of the four deadlocks of `GuiStuck`, `EveryLoadEnds` of behaviours in which no
failure is lost (`lost`) and no task is jammed (`Jammed`); the constants `Careful` of
`Dispatcher`, `LengthsOrdered` of `FileImage` and `LongerAllowed` of `AtomicFile` stand for what section 5 describes.
`LongerAllowed` leaves out no crash: with it the abstract file allows what such a crash leaves. In each run the condition holds in a large part of the
states, and the mutants paired with these properties are caught inside it.

**Why the bounds are enough.** Two sleepers of the same kind and one thread of the
other kind are what a lost or stolen wakeup needs. In
`channel_wakeups` every receive is a timed one: a time that never runs out is among its
behaviours, so for safety properties timed receives stand for untimed ones and for those that
return at once. Each message is sent once, so a duplicate is
visible; in `set_no_skip`, which is about liveness, a message may be sent again once its call has returned
and no queue holds it (`SendAgain`), so that traffic does not end with the messages. Queues of one or two are full, half full and empty in few steps; the
capacity of a task, 100 in the code, is a constant and only compared with. A
barrier counter of two values wraps at every second round, which is the worst
case of the 32 bits of the code (the theorems are for every range from two). One
core and one heap, or two cores and three heaps, are the two shapes
`get_compute_tasks` produces; as many jobs with finish functions as heaps, and as many
more for them to run, are what it takes to hold all heaps. So that six jobs fit, jobs of a kind are run in
the order of their numbers and the heaps start in one order (nothing tells them apart); the script ends, calls native functions
and `check_finished` only when all jobs were given to `run`, a finish function calls `finish_all` only then, and nothing
is called after the second error (`Bounds` of `MCComputeTasks`). The theorems have none of these bounds. The parts of `run_parallel` are tried for every length up to four times the largest number
of cores, so that shares are less than, equal to and more than `min_iters`, with and without
remainder; the theorem is for all of them. Three timers
are one that runs, one it adds and one behind them; the clock starts one tick before it
wraps, and `DispatcherAssumption` keeps delays in half its range, as `sub32` requires. Two
requests are one under way and one that a callback makes, and every pair of kinds
occurs; a second socket has the same events as the first. In the file, 10 pages and
three calls are enough for the log to be moved once or twice (the hole doubles) and for
the file to grow over its old place; `LastPage` is 20, and the only guard it is in (a file that a crash left longer
stays within it, `Abandoned`) never bites in these instances. The second crash hits the recovery from the first. One worker of the GUI has all
interactions in it: workers share only the list of notifications, whose order the proofs
leave open; queues of 2 with 4 messages are filled, emptied and filled again, and three
nested notifications are one that is emptying the queue, one in its callback, and the last.
Four style sheets are one more than the queue, the task and the channel of answers hold, so
the worker has to empty one end while it waits for room at the other; three requests are one
that is left, one that is gone back to and one that replaces it (the theorems are for all
numbers of them).

`CHECK_DEADLOCK FALSE` appears in every configuration but that of `Dispatcher`, which can
always go on: the bounds on messages,
jobs and calls let every instance come to its end, and programs that wait for a
message nobody sends are legal. What must not stop is stated by the liveness
properties.

**Fairness.** Weak fairness of the segments a thread can execute: a thread that is
not blocked is scheduled and gets the mutex in the end. A timed wait returns even
when it is left and entered again many times, since the time that is left is
computed from the same deadline: strong fairness of `Expire` (weak in `TaskMailbox`).
Nothing is assumed about spurious wakeups, about which waiter a signal picks, or
that anybody calls `send`. `EverySendReturns` and `EveryMessageServed` of
channels assume in addition that the owner of the set goes on receiving,
`EverySendReturns` of tasks that the task does; nothing makes senders send again
(`SendAgain` has no fairness), so behaviours with and without traffic beside a channel are both included;
`EveryCallReturns` that jobs and finish functions end. `EveryTimerRuns` assumes that the
thread runs (weak), that callbacks return and time passes, whatever loops a callback
enters on the way (strong: both are disabled again and again). `EveryCallbackCalled`
assumes that the threads run, that time passes, that the program comes back to
`async_process` or `receive`, both to wait for ever and to look in for a moment, and that
the event thread gets the mutex of the set, which receive gives up again and again
(strong, `Signal`); nothing about peers, senders, or spurious wakeups.
`MessagesGetThrough` assumes that the GUI thread runs and callbacks return (`GuiStep`), also
when it is inside `worker_send`, that the threads of the workers run, and that a thread in
the gap of Windows reaches its wait; not that a script calls send or receive again. `EveryLoadEnds` assumes that the GUI thread, the
workers and the tasks go on and that a server answers or the connection fails in the end; the
user need not do anything, and stops at `LastRequest`. `AtomicFile` has no
liveness: its calls are loops over finite plans, and locks are given up by time limits.

## 4. What is proved

No theorem bounds the number of threads, messages, tasks, timers or whatever else a module is
parameterised by; the assumptions named are those of the modules on their constants, which
TLC evaluates in every run.

`ChannelProofs` (any number of threads, channels, sets and messages; the only
assumption is `ChannelAssumption`):

- `TypeCorrect`: `Spec => []TypeOK`, from one lemma per group of assignments
  (`TakeType`, `NotifySetsType`, ...). `TypeOK` includes `OnlyCallersWait` (a thread
  that waits or has timed out is inside a call), preserved by the lemma `CallersStep`.
- `NoWakeupOfSenderLost`: `Spec => []SleepingSenderOffers`. Inductive as it stands.
  The heart: all sleepers at `send_cond2` of a channel are the one thread in its
  slot, so the single signal of the receiver cannot wake the wrong one.
- `TrueIsTrue`: `Spec => []TrueMeansDelivered`. Not inductive: between the receiver's
  step and the sender's return nothing in the property remembers the delivery.
  The strengthening `HandedOver` says that a sender still inside `channel_send` whose
  message is no longer in the slot has had it taken (`OccursStays`, `QueuedStays`: a
  message taken stays taken, a message queued stays queued until taken).

- `NoReceiverStranded`: `Spec => []NoStrandedReceiver`. The property compares messages with
  receivers who are awake and coming, so the proof counts (`StillComing`): a message more is a
  receiver woken, or nobody is asleep; a receiver that goes away takes a message with it, or leaves by
  its timeout. `StrandedInv` adds what the counting needs: a thread whose time is up is not
  asleep, and finitely many threads are inside calls at a time.
- `DeliveredOnce`: `Spec => []AtMostOnce`, for
  synchronous and queued channels with every timeout and refusal. The property compares only what
  was taken; the invariant `OnceInv` follows a message on its way. `Hands`: a sender that has
  not put its message anywhere, or still offers it in the slot, has a message that is nowhere else,
  of which the answer is pending and which nobody else sends; `Placed`: a message that left the hand is
  in one place of one queue or of one log of what was taken, and never in both; `Offers`:
  who is in the slot of a channel waits at `send_cond2` of this channel. A sender whose time is up
  may find its message taken, and gives it up only after looking at the slot: that is where
  `Hands` is needed.
- `PromiseKept`: `Spec => KeepsPromise`, the refinement of `AbstractChannel`. Initial states map to
  initial states; each segment maps to one abstract step or to a stutter: a segment of send to
  `Submit`, `Accept`, `HandOver` or `Tell`, of receive to `Deliver` or `HandOver`, a wait or a wakeup to
  nothing. The steps need `HandedOver` and `OnceInv` (what a sender is told is true of its message, or the sender
  is one of the `hurried`: lemma `Told`) and `KindsStay`: a synchronous channel stays one and queues nothing, and only a wait
  with a limit times out.
- `ReadyStaysListed`: `SetSpec => []ReadyIsListed`, for any number of sets and entries, with
  `channel_set_add` and `_remove` at any time. `ListedInv` adds that the entries of two channels are
  different (`EntriesApart`) and that a set watches a channel with one entry (`OneEntryEach`), because
  `notify_sets` adds the entry it finds for a set; that removing by swapping with the last
  entry keeps the others listed is a lemma about sequences of its own (`UnnotifiedLists`).
- `SetSleepsLast`: `SetSpec /\ []OneWatcher => []SleepingSetHasNoMessage`, under the hypothesis
  `Undisturbed`. The code does not keep the property in general (section 5); the theorem says when it does,
  for any number of sets, channels and senders: only sets take messages,
  all messages can be copied, no offer is withdrawn by a time limit, channels are not removed, and no channel
  is watched by two sets. The run `set_no_skip` is an instance of this. `AloneInv`: the lists then have the entries
  of channels with a message only (`ListsAreExact`), so whatever a set picks it can take, it never gets
  beyond the first place of its list, and it sleeps with an empty one (`TakesTheFirst`). That the list does not
  change under a set between `Pick` and `SetTake` in a way that matters is the point, since it holds no mutex there.

`TaskProofs`, of barriers (any number of tasks, any markers, any counter of at least two
values; assumption `BarrierAssumption`):

- `TypeCorrect`, with `num_waiting <= max_waiting`.
- `TasksMeet`: `Spec => []Rendezvous`, on POSIX and on Windows. The inductive invariant
  is `RoundInv`: there is a round `d` such that a task outside has ended `d` waits, a task
  waiting in the current round has begun `d + 1`, a released task that has not left
  yet has ended `d - 1`; and `num_waiting` is the number of the current waiters. It is
  needed because `Rendezvous` compares histories while the code only has a counter
  that wraps: the last arrival finds all other tasks waiting in this round
  (`LastArrival`), so nobody can still be in the round before the last.
- `MarkerHeapIsStopped`: `Spec => []FirstHeapIsStopped`.
- `NobodySleepsOn`: `Spec => []NobodyLeftBehind` (a statement about POSIX), through
  `OwnSlots`: the tasks of the current round sleep in condition variables of their own,
  below `num_waiting`. For Windows the statement is false (section 5).

`TaskProofs`, of mailboxes (any number of heaps and messages, any size of the queues;
`MailboxAssumption`):

- `FreedByTheLast`: `Spec => []FreedWhenUnused`, from `CountInv`: `refcnt` is the number of heaps with a
  handle, plus one while the thread runs.
- `OneSignalIsEnough`: `Spec => []NobodySleepsInVain`, which is about a task with one parent. Both
  sides share one condition variable, and whoever makes room or puts a message in signals once. That this is
  enough is `AloneInv`: of the two, the one that signals is awake, so the signal reaches
  the other (`SignalReachesTheOther`), and each sleeps only next to a queue it cannot use. With two
  parents the signal may wake the wrong one (section 5).

`EventLoopProofs` (any number of pool threads, sockets, requests and messages, alone and
integrated; no assumption on the constants is needed):

- `PollHasOneUser`: `Spec => []OneThreadInPoll`, `SetIsThere`: `Spec => []SetOutlivesNotify`,
  `EventsWakeTheHeap`: `Spec => []NotSleptThrough`, all from one inductive invariant,
  `LoopInv` (theorem `LoopInvariant`). None of the three is inductive. That the poll has one
  user rests on the turn the two threads take (`Handshake`): from the moment an event is
  announced until the heap answers, the event thread is between `signalled` and
  `awaiting` and `foreign_processed` is false, so it cannot leave; an event is announced or
  being processed, never both. That the set is there rests on `Registered`: `sending_signal`
  is set exactly while the notify is at the mutex, only while `wait_mutex` is, and
  `wait_mutex` is set exactly while the heap is in receive; receive cannot end in between.
  `Attentive` follows the heap from its look at `has_events` to its sleep. `Alone` says where
  the threads can be without the integration, `Shape` that records keep their fields.
- `CallbacksOnce`: `Spec => []CalledOnce`. The property is about requests whose callback was
  called; `RequestInv` says where every other request is. There are seven holders
  (`Held`): the list of timers, the results, the results `process_events` has taken over, the one it has in
  its hand, the threads of the pool, the operations of the sockets, and what is over because it
  was called or thrown away. No two of them hold the same request (`HeldApart`), none holds
  one twice (`HeldOnce`). So a step that moves a request from one holder to another,
  and calls it at the end of its way, calls it once (`PoolIsIdle` and `OneThingAtATime`: a
  thread that is asleep, and a socket without an operation, hold none).

`GuiWorkerProofs` (any number of workers, messages and nested callbacks, both platforms;
`WorkerAssumption`):

- `TypeCorrect`: `Spec => []TypeOK`, one lemma per action.
- `FreedByTheLast`: `Spec => []FreedWhenUnused`. The property says only when the count is
  zero; the invariant `CountInv` says what it is: one for the thread while it runs, one more
  while it announces something, one for the handle, one for each merged notification, and for
  each notification on the list or under way one on Windows and two on GTK, where the list
  has a reference of its own. `Occurrences` counts a worker in a sequence, by the
  cardinality of the set of its places; the lemmas say how taking, adding at either
  end and `Goto` change it.
- `ReleasedAfterTheLastMessage`: `Spec => []NothingLeftBehind`, through `LeftBehindInv`: once the
  handle is dropped the worker has ended, so its thread puts nothing into the queue any more.

`WebViewProofs` (any number of pages, entries, requests, redirects and fetch tasks;
`WebViewAssumption`): `ListensForItsEntry`, `Spec => []LoadsTheCurrentEntry`, and `CancelsItsWorker`,
`Spec => []CancelsTheRightWorker`. Together they are inductive once it is known that requests are
numbered in the order they are made (`Numbered`: no worker and no cancel has a number beyond
`requestId`) and what the variables can be (`ViewType`); `Enough` says that the numbers of the
bounded model suffice. What the view can do to its request comes in four kinds, one lemma each: a new
load (`LoadKeeps`), a number taken without one (`NothingCurrent`, with `StopLoadingKeeps` for stops), a
report (`ReportTaken`), and a worker that goes on (`WorkerGoesOn`), which says that it was cancelled
only if it was. `WaitIsAnswered`, `Spec => []WaitHasAnAnswer`: the worker counts what it waits for with two
variables of its own; its answers are in the queue of the tasks, with a task, or in its own channel. The
proof counts the places of a request in `fetchQueue` and the tasks that work for it, and
shows that each step moves one answer from one place to the next.

`ComputeProofs` (any number of cores, heaps and jobs, any nesting of calls, jobs that fail
anywhere; `ComputeAssumption`, `SplitAssumption`):

- `OneOwner`: `Spec => []HeapsInOnePlace`. `HeapInv` gives each heap one place
  (`OnePlace`: a position in one of the three lists, a core, or a frame of the stack). That
  a step moves one heap needs to know which frames may hold one (`Good`) and which call may
  have made which (`Link`): a finish function runs while its heap is on no list, and may call anything
  that takes heaps from the lists. `NativeReady`: a native function that is about
  to start finds as many heaps inactive as there are cores, since it has finished all jobs before.
- `OnlyPartsWrite`: `Spec => OnlyPartsDisturb`, an action property. `StillInv` says that a heap on a list or
  a core has work (`Loaded`), that readers are ready or running, and that until the first error there are readers only
  while a `run_parallel` is on the stack that has not come to its end (`Modes`). `PartsInv` adds that this
  `run_parallel` is at hand or right below the call at hand (`Shallow`), and that meanwhile the heaps hold jobs
  without finish functions only, since it begins when all jobs before are finished. So no finish
  function, which would be script code, runs next to a reader, and whatever is copied is one of its parts.
- `JobsAccounted`: `Spec => []EveryJobAccountedFor`. `JobInv`: a job is fresh, given to one frame, or
  carried by one heap, and was reported exactly if it is none of these (`Counted`); a heap that is
  idle, or into which a job is being copied, has no work (`NoWork`). Both properties end at the first
  error, because the code does (section 5).
- `DivisionIsExact`: for all calls with the types of
  ints in which no int overflows (`NoOverflow`), all parts but the last have the same length and
  touch each other, and the last ends where the interval does, or where `min_iters` was rounded
  up, the parts beyond the end are empty. `IterationsOnce`: `Spec => []EveryIterationOnce`.

`DispatcherProofs` (any number of timers, any delays, any nesting of dispatches, any range of the clock
that is wide enough for the delays; `DispatcherAssumption`): `TimersRunOnce`, `Spec => []RunsAtMostOnce`,
`TimersStay`, `Spec => []NoTimerLost`, and the action property `TimersInOrder`, `Spec => InTimeOrder`.
They have a hypothesis, `Careful`, the condition of the run as well: callbacks do not do what section 5 says the
class does not survive (`run_later` without delay, or an error after it, in the callback of a delayed timer;
a loop or dispatch entered from the callback of a timer). Without it the first two are false. All follow from
one inductive invariant, `TimerInv` (theorem `TimersInvariant`):

- `Ran` are the entries at the front of the list that the innermost dispatch has called but not
  removed yet; an entry of the list has run once if it is one of them, and otherwise
  never (`Accounted`). `dispatch` knows them only by its offsets, so `AtStage` says what `off`, `len` and
  `imm_off` are at each point, while callbacks add entries in front of and behind them.
- `Sound`: the immediate timers come first, the others in the order they are due (`Ordered`), although
  the code compares times on a clock that wraps: `Due` ties the time of an entry to when it
  is due, `Since` says how long ago `dispatch` read the clock. The difference of two times
  has the right sign because twice the longest delay and lateness fit into the range
  (`SubIs`, from `DispatcherAssumption`).
- `Below`: of the frames below the innermost only a message callback can be under way, so nested
  dispatches do not cut each other's list.

`AtomicFileProofs` (any number of processes, pages, values, calls, nested transactions and
crashes; `AtomicFileAssumption`, `FileImageAssumption`):

- `ReadersSeeCommittedHolds`, `NeverCorruptedHolds`, `ReadsItsOwnWritesHolds` and `TransactionalHolds`:
  `Spec => []ReadersSeeCommitted`, `[]NeverCorrupted`, `[]ReadsItsOwnWrites` and the refinement of `AbstractFile`. They have a
  hypothesis, `Restrictions`, which is the condition of the run `atomic_file` as well: every write is of one page, the file
  system is one with `LengthsOrdered`, and what a crash may leave longer is allowed (`LongerAllowed`). None of the three
  can be left out: TLC finds counterexamples without any of them (section 5). No crash is
  excluded, those that leave an empty log in use included.

  A process does not look at the file while it works off a plan, so the invariant has to know where every
  plan that was ever made will end, and that no crash on the way does harm. `Leads(d, ops, e, cs)` says both: the
  operations `ops` take the disk `d` (the file and its images) to the disk `e`, and each disk on the way is
  `Crashable`, that is, recovery makes one of the contents `cs` of every image of it. What recovery makes of an
  image is told by `Settled` (no log in use, the content is there), `Stretched` (the log in use is empty: the content is there,
  and behind it whatever the file was prolonged with; `Whole` is one of these two), `Undoable` (the log in use
  restores the content: for each page its first record, or the page itself where there is none), and
  `Guarded` (the pages that recovery itself writes are pages that every image restores too, so that
  a crash within recovery is as good as one before it). Plans can be joined (`LeadsThen`) and taken apart
  (`LeadsStep`), and the first of their operations is what `FileOperation` does.

  The bulk of the proof is one lemma for each handler, which says that the plan it makes leads where it
  should: `CreateReaches`, `MoveFullLeads` (the copy behind the old log, and the switch of the header), `SetLengthReaches`,
  `SaveReaches`, `WriteReaches`, `RollbackReaches`, `CommitLeads`, `OuterRollbackLeads`, `InitLeads`. Between calls the
  file is `Writing(f, im, t, b)`: the log is that of the transaction, and a rollback from level `l` on would
  restore the content `b[l]`. That `b[1]` stays what it was at the outermost begin is the
  atomicity; that the log of level `l` restores `b[l]`, also after inner transactions were
  undone whose records stay in the log, is what nesting rests on.

  `FileInv` is the inductive invariant: while somebody holds the file alone, the rest of its plan leads to
  a disk that is `Done` with one of the allowed contents, or on which the transaction goes on with the content that its caller
  expects (`Underway`); while nobody does, the disk is `Crashable`, and recovery of the file as it is finds one of the
  contents in `possible` (`Fitted`), the longer ones of a crash included: that is what readers need. The refinement follows
  from it, action by action (`NextRefines`): `Began` is `Begin` and settles what a crash left open, `Write` and `SetFileLength` are
  `Modify`, the calls of nested transactions `Nest`, `NestedCommit` and `NestedRollback`; a commit is `StartCommit` when it
  makes its plan and `FinishCommit` when it returns, a rollback or a crash in a transaction is `Abandon`, a reader's begin `Read`,
  and operations on the file are stutters.

The contents of a file and the plans of a call are computed along sequences. Where a proof needs induction over them
it is induction over a *set* of numbers (`SetInduction`, from the well-foundedness of the natural numbers; the disks
on the way of a plan are the values of one function, and the set is that of the numbers up to which they are as they should be).
The induction theorems of the library take a predicate as a parameter, which the provers cannot instantiate.

Only model-checked: all liveness, which is out of reach of the prover (`EveryMessageServed`, the two
`EverySendReturns`, `EveryCallReturns`, `EveryTimerRuns`, `EveryCallbackCalled`, `MessagesGetThrough`, `EveryLoadEnds`).
Every safety property that a passing run checks is the statement of a theorem.

## 5. Disagreements between code and documentation

One has a run that TLC must find violated, and an entry in `findings` with the line
quoted: `atomic_file_pages`. A `write` that covers more than one page not yet saved uses
one buffer for all log records and computes the checksum of each with the checksum of
the record before still in `header[2]` (`atomic_file.fix:593`), where `apply_rollback` puts
zero (223). All records of a write but the first are refused: both `rollback()` and the
recovery after a crash throw "corrupted file" with the transaction half undone.

The other disagreements found while modelling have no run: each is named with the
property that fails when the condition or the constant that excludes it is changed, or
with the condition in the property that excuses it.

Channels and sets:

- A timed synchronous send returns false although its message was received: the wait
  timed out, the receiver got the mutex first (`fixtask.c:6140`, `docs/channel.html:60`).
  `KeepsPromise` fails without `hurried` in `Tell` of `AbstractChannel`.
- A timed sender withdraws its offer without signalling `send_cond`; another sender, without a time limit, sleeps
  on next to the free slot while the set receives on and on (`fixtask.c:6141`; a send whose copy fails leaves in the
  same way, 6164). `EverySendReturns` fails with `SendTimeouts = {"none", "timed"}`.
- The set tries an entry whose channel has just lost its message: another receiver was faster, or a sender whose time was up
  took it back. The entry was removed from `notify_list` behind the index, the next offer appends it at a
  position already visited (or the last entry has moved there), and the set goes to sleep next to its message (7175, 5922;
  `docs/channel_set.html:63`). `SleepingSetHasNoMessage` fails with a receiver beside the set, and with one
  synchronous channel and `SendTimeouts = {"none", "timed"}`.
- `channel_set_receive` begins at the front of `notify_list` in every call (`fixtask.c:7159`). A
  channel that is filled again before it is empty keeps its place there, channels of which one is always ready
  keep the places in front of others, and a later channel is never tried while that goes on: its message is not
  received and its sender does not return (`Starved` in `EveryMessageServed` and `EverySendReturns`). The documentation
  promises no order.
- Removing a ready channel from a set (6865) leaves its freed entry in `notify_list`;
  `SetTryFreed` is the step of a set that meets it.

- A handle of a channel that is put into a queue counts as a strong reference (the copy
  increments `refcnt`, 5727) and is given back as a weak one (`weakcnt--`, 5692): a channel
  that has passed through a queue is never destroyed, and a channel inside its own queue
  keeps itself alive, although the values of a queue "are only weakly referenced to
  prevent memory leaks" (`docs/channel.html:39`). The memory of a channel whose last strong
  handle goes is freed only from a queue heap (5692-5698), so in effect never. Found by
  reading the code, not by a model: see `ChannelRefs` in the plan.

Barriers: on Windows a task that left the critical section and has not reached its wait
loses its event to a task of the next round (371; `docs/barrier.html:32`). `NobodyLeftBehind`
fails without its condition on `windows`.

Tasks and compute tasks:

- Two parents of a task, one waits for room and one for a reply: the one signal of
  `task_receive` (1187) can wake the second, and the first sleeps on
  (`NobodySleepsInVain` of `TaskMailbox` without `owners = {Creator}`).
- While a finish function runs, its heap is on no list (1539). When finish functions run other jobs, each call inside them
  may pick up the next finished job, and once the calls hold all heaps the innermost waits for an inactive heap for
  ever (1634, 1642): with three heaps three finished jobs are enough, with one heap one. In the same way a finish function
  that calls `finish_all` waits for its own heap. Both happen in the run `compute`, and `EveryCallReturns`
  excuses them (`Wedged`), although `run` "runs finish functions for any finished tasks" (`docs/compute_task.html:58-59`).
- The last `finish_all` of `run_parallel` (1852) copies the result of each finished part into the heap of
  the script (1527) while other parts read that heap without a lock, although they have "parallel readonly access"
  (`docs/compute_task.html:94`). `OnlyPartsDisturb` fails without `Called("run_parallel")`.
- After an error in one part `finish_all` and with it `run_parallel` return (1852, 1756) while other parts
  still read the heap of the script, and the script goes on (`OnlyPartsDisturb` without `NoErrorYet`).
- `compute_task_run` returns the error of an earlier job (1635) instead of running
  its own, and `compute_task_finish_all` returns at the first error (1756) with other jobs under
  way (`EveryJobAccountedFor` without `NoErrorYet`).
- When `min_iters` is rounded up, `iters_per_core * i` passes the end of the interval
  (1837) and the last cores get parts with `from > to`, which run nothing: an
  interval of 11 with `min_iters` 2 on 6 cores ends with the part from 12 to 11.
- `min_iters * num_cores` overflows for large `min_iters` (1826) and iterations run more
  than once (`EveryIterationOnce` with `Bound = 32` and `Inexact` without `NoOverflow`).

Dispatcher (`task/channel.fix`), with `Careful = FALSE`:

- `run_later` with no delay, called in the callback of a delayed timer, puts the new entry
  in front of the part of the list that is being walked: the delayed callback runs a
  second time and the new one is removed without having run (386; `RunsAtMostOnce`,
  `NoTimerLost`). An error thrown after it removes new immediate timers as well (382).
- A loop or dispatch entered from the callback of a timer runs that timer again, since it
  is removed only afterwards (347, 380). After it the offsets of the outer walk are wrong.
- `leave_loop` called in the callback of a timer takes effect after `dispatch` has waited
  in `set.receive` (304, 390): the loop is left when the next message or timer comes.

Event loop:

- An event that arrives while receive tries a channel of its list is noticed only after
  the next wait: the mutex of the set is released there, the signal meets nobody, and
  `has_events` is looked at again only after a wakeup (7161). Without an unlucky channel
  that was emptied by somebody else the walk ends with a message and all is well;
  otherwise the heap sleeps next to the event (`NotSleptThrough` without `missed`).
- A pool thread that ends after five idle seconds stays in `threads_pool`; the next job is
  given to freed memory (`fixio.c` 6813, 6861). `Expire`, then `GiveJob`: the request is `dropped`.
- When the socket of a result cannot be added to the poll, the results behind it are
  thrown away without a callback and the timers of that round are skipped (7784); the
  error path closes a handle that was never made (7765).
- Callbacks run with the mutex of the set held (`fixtask.c:7155`): a callback that uses a
  channel of that set takes the two mutexes in the opposite order of a sender. A callback
  that calls receive itself clears `wait_mutex` at its end (7199), and the outer receive is
  no longer woken. The model's callbacks do neither.
- Immediate timers run in the reverse order of their requests, and one added by a callback
  runs in the same pass (7931, 7816). `docs/global_async.html` promises no order.
- A handle that is closed and freed by a callback may still stand in the batch of events
  that is being worked off (6921), and a close with an operation under way never calls its
  callback (`Waiting` excuses closed sockets).

Atomic files:

- A crash right after a log was started leaves an active, empty log at the end of the file. Recovery takes it for the
  end of a transaction and does not restore the length (`atomic_file.fix` 200, 534): a file of 64 bytes has 96 afterwards,
  although "After the rollback is applied the file is shrunk to remove the rollback" (`docs/atomic_file.html:80-81`).
  `LongerAllowed` adds what such a crash leaves to the contents that are allowed, and nothing else; `ReadersSeeCommitted` and
  `Transactional` fail with `LongerAllowed = FALSE`.
- `commit` (369) sets the length before it syncs, and `rollback` (409-415) writes the old pages and sets the length with no
  sync between them. On a file system that brings the length to the disk first, a crash leaves a content that is neither
  the old nor the new one, although the class "guards mainly against the partial writes (at byte granularity in any order or
  portions)" (`docs/atomic_file.html:62-63`). With `LengthsOrdered` the length arrives only together with what was written
  before it; the code relies on that and does nothing to enforce it. `ReadersSeeCommitted` and `Transactional` fail with
  `LengthsOrdered = FALSE`.
- A reader that finds a file to recover unlocks it twice on the way and looks at the state no more (304-316): a writer that
  starts and crashes in the gap leaves the reader with half a transaction (`ReadersSeeCommitted` without
  `file.state = CLEAN`).
- The rollback of a nested transaction does not cut its records off the log: `apply_rollback` advances the offset it
  is given, in place (`rollback_offset.add_int`, 214), and `rollback` uses the same object for the new length
  (408-410). The log grows with every nested transaction that is undone. No property is violated: for each page
  the first record counts, and a later transaction starts behind these records (theorem `ReadsItsOwnWritesHolds`).

GUI workers (`GuiWorker`; each is excused by name in the property):

- On GTK a notification that finds its worker on the list has already counted a reference
  (`fixgui.c` 2832, `fixgui_gtk.c` 2133-2143), and nobody gives it back: a worker that sends twice before the
  GUI thread looks is never freed (`merged` in `FreedWhenUnused`). `docs/changelog.html:93` lists
  "Fixed memory leak when exchanging messages with workers" for an earlier version.
- On GTK callbacks run with `global_mutex` held (`fixgui_gtk.c` 2111-2115): a callback that
  sends to a worker with a full queue waits for ever if that worker is about to announce a
  message (`polling` in `GuiStuck`). The same mutex would be taken twice if a callback
  entered an event loop of GTK; the models let callbacks do that on Windows only.
- On Windows the section is left before the wait begins, and the GUI thread and the worker
  wait for the same auto-reset event (`fixgui_win32.c` 1511): a signal set for one is taken by the other, and both
  sleep (`asleep` in `GuiStuck`).
- `worker_send` of the GUI waits without a time limit (`fixgui.c` 2819): for a worker that has ended, for ever; and for
  one that waits for room itself, which only the GUI thread could make.
- `worker_create` references the copied parameters in the heap of the GUI with a value of
  `comm_heap` (`fixgui.c` 2764), while the thread releases them in `comm_heap` (2585), without the lock that
  guards this heap everywhere else, also when it copies the parameters (2576). Data of the heaps, found by reading.

Pages of the browser (`src/fixbrowser/browser`; there is no documentation to disagree with):

- An entry of the history that is left gets what the view shows at that moment (`view.fix` 428,
  457, 475, 536), also while its page is still loading or after its load was stopped: going
  back to it shows the page of another address: open u2 while u1 is shown, go back and forward again, and the entry of u2
  shows u1. `Updated` does the same, and for that reason no property speaks of the documents of entries.
- `cancel_channel` stays after a page has loaded (251-260), and Escape calls `stop` in any case
  (`main.fix` 335-339): the entry of the page that is shown is taken out of the history
  (490-501), while the view goes on showing it.
- After too many redirects (242) the view has no worker any more and shows the old page under
  the new address; the entry has no document.
- The last wait of a page worker, `handle_fetch(-1)` (`html.fix` 123), has no time limit and does not look
  at `cancel_channel`; a failure that finds the channel of answers full for a second is thrown away
  (`fetch_task.fix` 206), and then the worker waits for ever (`lost` in `EveryLoadEnds`).
- All other answers wait for room without a time limit (77-178): when a page that was cancelled has
  more answers coming than its channel holds (1000), a fetch task waits for ever (`Jammed`); four
  such pages end all fetching.
- The GUI thread itself asks for images through the same queue, without a time limit
  (`view/image.fix` 260), while the tasks may wait for room in the channel of images, which only
  the GUI thread empties; `html.fix` 115-118 avoids that. Found by reading, images are not modelled.

## 6. Abstractions and limits

- Messages are model values; those in `Bad` cannot be copied between heaps. Values
  that are checked structurally (markers of barriers) are model values too.
- Time is not measured: a timed wait may expire at any moment, a call with a
  positive timeout may find at any test that its time has passed.
- Failures of `malloc`, of `pthread_*_init` and of loading scripts are left out.
- Handles are valid; calls that return an error before they touch shared state
  (wrong handle type, barrier marker that differs) are no steps.
- The threads of a set and of a heap are one actor: a heap is used by one thread.
- Freed entries of a set keep some channel in their memory or give an error
  (`SetTryFreed`): both outcomes of reading freed memory that let the program go on.
- Overflow of C ints wraps around, as in the compiled program.
- POSIX condition variables everywhere but in `TaskBarrier`, which has the Windows
  emulation as well (`windows`, chosen in `Init`). The WebAssembly variants (continuations instead of threads)
  are not modelled.
- Reference counts and destruction of channels and sets are not modelled; a
  channel lives as long as the instance.
- `Dispatcher` and `EventLoop` leave open which channel a message belongs to; callbacks of
  `EventLoop` use no channel of the set. The set of `EventLoop` has one channel (`ChannelSet`
  has the full list).
- `EventLoop` is the build with epoll. A TCP server is a socket that is only read.
- `AtomicFile` works on whole pages; what a write does inside a page is left out, and the
  page size does not change. A log can start behind any page; pages above `LastPage` are never written.
- `LengthsOrdered` is an assumption about the file system, `LongerAllowed` a weaker promise: see section 5. Writes to
  pages that are not synced may be lost, torn or arrive in any order among each other in either case.
- `GuiWorker` counts messages and does not tell them apart; the data races of the start and
  the contents of `comm_heap` are left out, and so is a `PostMessage` that fails.

- `WebView` names a document by the address it was loaded from, and leaves open what a server
  and the scripts of the browser answer. Whether a page asks twice for one sheet, status messages, and
  the start of further fetch tasks by a timer are left out: the number of tasks is a constant
  (4 in the code after two seconds).
- `LastRequest`, `MaxEntries` and `MaxLive` of `WebView` bound what the user does, nothing else: workers,
  tasks and redirects go on.

### Not modelled

Well over half of the lines of the repository are interpreters, code generators,
codecs, font and window code, and copies: `fixscript.c`, `fixio.c` and `fixtask.c` exist three
or four times. The models stand for the parts in which threads, callbacks, processes or
crashes meet, and that is a small share of all lines:

- `fixscript.c` (parser, interpreter, JIT, collector) is single-threaded and its state is
  a heap of arbitrary objects; TLC could only repeat its unit tests on smaller inputs.
- The widgets of `fixgui`, `fiximage`, `mathlib`, `png`, `zcomp`, cryptography, HTML and CSS are functions of
  large data; what could go wrong in them is arithmetic on bytes, not a protocol.
- `fixbuild`, `fixnative`, `fixutil`, `bindiff` run once from start to end.
- WebAssembly and Windows variants of the thread code are other programs behind `#ifdef`;
  only the condition variables of Windows are modelled, for barriers, and the workers of
  `fixgui` on Windows.
- The cache task and the images of the browser, `ScriptHeap`, channel references, globals and
  atomics could be modelled in the way of the modules here and are next (section 7).

## 7. Plan

In this order:

1. `ChannelRefs`: `channel_handler`, strong and weak counts, channels inside their own
   queues, freeing of sets against `notify_sets`. Abstract specification: a channel
   lives exactly as long as a handle outside of queues does (section 5: the code keeps it
   longer, so what can be checked is that no handle outlives its channel or queue). It
   covers the hazards at `fixtask.c` 5706, 5727 and 6661.
2. The cache task and the images of pages (`WebImage`), on top of `WebView`: the order of use and
   the size of the cache, and the deadlock of section 5 between GUI thread and fetch tasks.
3. `Channel.call`, `register` and `register_sync` of `task/channel.fix` on top of `Dispatcher`.
4. Windows condition variables for channels, tasks and compute tasks; creation of
   a task up to the first instruction of its thread; globals and atomics.

Proofs to add: for the modules that have proofs, the properties that later actions bring. For `AtomicFile`, writes of
several pages once the checksums of their records are right: `WriteReaches` is about one page, and what it needs is the same
induction along the pages that `RestoreLoop` makes along the records.
