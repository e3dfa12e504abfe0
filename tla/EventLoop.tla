------------------------------- MODULE EventLoop -------------------------------
(***************************************************************************)
(* The event loop of fixio (src/fixio/fixio.c: AsyncProcess, its pool of   *)
(* threads, timers and sockets, with epoll) and the way a heap waits for   *)
(* it: alone in async_process, or integrated with the channel set it       *)
(* receives from (src/fixtask/fixtask.c: AsyncIntegration).                *)
(*                                                                         *)
(* Integrated, there are three kinds of threads: the heap, which runs      *)
(* scripts and every callback; the event thread, which waits in epoll and  *)
(* hands over to the heap; the threads of the pool, which connect.  They   *)
(* share proc->mutex, foreign_mutex, the mutex of the set and ai->mutex.   *)
(* An action is a critical section, or the stretch between two callbacks;  *)
(* a mutex that is held across actions is a predicate over the places of   *)
(* its threads (SetMutexFree, ForeignMutexFree).                           *)
(*                                                                         *)
(* Abstracted: what is read and written; the rest of the channel set (see  *)
(* ChannelSet): one channel, whose senders may withdraw; the handle that   *)
(* is made of a connection; TCP servers, which are a socket that is only   *)
(* read; the wrap of the clock (see Dispatcher); freed handles.  Callbacks *)
(* use no channel of the set and do not wait for one.                      *)
(***************************************************************************)
EXTENDS Integers, Sequences, FiniteSets, SequencesExt

CONSTANTS
    MaxRequests,    \* bound: calls that are given a callback
    Delays,         \* the delays given to async_run_later
    Thread,         \* threads that the pool can create
    Socket,         \* open connections
    MaxMessages,    \* bound: messages offered to the channel of the set
    MaxClock        \* bound of the time

ASSUME EventLoopAssumption ==
    /\ Delays \subseteq Nat
    /\ {MaxRequests, MaxMessages, MaxClock} \subseteq Nat

VARIABLES
    integrated,         \* foreign_notify_func is set
    clock,
    timers,             \* proc->timers: [request, immediate, time]
    results,            \* proc->thread_results: requests
    pool,               \* threads_pool
    thread,             \* where each thread of the pool is
    func,               \* the request it was given
    pipe,               \* whether a byte waits in the pipe of the poll
    batch,              \* what epoll_wait returned and nobody has looked at: Pipe or <<socket, mode>>
    active, interest,   \* per socket: the request of each operation under way or 0, the
                        \* operations epoll watches
    closed,             \* the sockets that were closed
    incoming,           \* per socket: what the peer has sent and nobody has read
    poller,             \* the thread that waits for events: where it is, until when it waits
    heap,               \* the thread of the heap
    foreignProcessed,   \* foreign_processed
    waitMutex,          \* ai->wait_mutex and wait_cond are those of the set
    hasEvents,          \* ai->has_events
    sendingSignal,      \* ai->sending_signal
    quit,               \* proc->quit
    message, listed,    \* the channel has a message, it stands in notify_list
    offers,             \* offers the messages offered
    asked,              \* history: what was asked for, request n the n-th
    called,             \* history: how often the callback of each request was called
    dropped,            \* history: requests whose results were thrown away, or that a thread got that had ended
    missed              \* history: the list of the set was walked in vain

None == "none"
Modes == {"read", "write"}
Pipe == <<"pipe", "read">>
Request == 1 .. MaxRequests

files == <<pipe, batch, active, interest, closed, incoming>>
workers == <<pool, thread, func>>
signals == <<foreignProcessed, waitMutex, hasEvents, sendingSignal>>
channel == <<message, listed>>
ghosts == <<asked, called, dropped, missed>>
queues == <<timers, results>>
vars == <<integrated, clock, queues, workers, files, poller, heap, signals, quit, channel, offers, ghosts>>

(* The heap: its place; the place a callback returns to and the socket     *)
(* whose event it handles; the thread and the request async_run_thread is      *)
(* about to bring together; process_events' atr and time; the loop of      *)
(* receive or of async_process: index, whether it has a timeout.           *)
Script == [pc |-> "script", resume |-> None, socket |-> None, handing |-> <<>>,
           taken |-> <<>>, now |-> -1, index |-> 0, timed |-> FALSE]

Init ==
    /\ integrated \in BOOLEAN
    /\ clock = 0
    /\ timers = <<>> /\ results = <<>>
    /\ pool = <<>>
    /\ thread = [t \in Thread |-> None] /\ func = [t \in Thread |-> 0]
    /\ pipe = FALSE /\ batch = {}
    /\ active = [s \in Socket |-> [mode \in Modes |-> 0]] /\ interest = [s \in Socket |-> {}]
    /\ closed = {}
    /\ incoming = [s \in Socket |-> FALSE]
    /\ poller = [pc |-> IF integrated THEN "computing" ELSE "off", until |-> 0]
    /\ heap = Script
    /\ foreignProcessed = FALSE /\ waitMutex = FALSE /\ hasEvents = FALSE /\ sendingSignal = FALSE
    /\ quit = FALSE
    /\ message = FALSE /\ listed = FALSE
    /\ offers = 0
    /\ asked = <<>>
    /\ called = [n \in Request |-> 0]
    /\ dropped = {} /\ missed = FALSE

At(place) == heap.pc = place
Goto(place) == heap' = [heap EXCEPT !.pc = place]

(* fixtask holds the mutex of the set while it looks at has_events and at  *)
(* the list, and through all of process_events.                            *)
Processing == {"events", "event done", "results", "timers", "answer"}
InProcess == heap.pc \in Processing \/ (heap.pc = "callback" /\ heap.resume \in Processing)
SetMutexFree == ~(integrated /\ (InProcess \/ At("walking")))
InReceive == integrated /\ (InProcess \/ heap.pc \in {"entering", "awake", "walking", "receiving", "asleep", "leaving"})

(* The event thread holds foreign_mutex from here until it waits. *)
ForeignMutexFree == poller.pc \notin {"notifying", "signalling", "signalled"}

-------------------------------------------------------------------------------
(* What scripts and callbacks do. *)
MayCall == heap.pc \in {"script", "callback"} /\ heap.handing = <<>>

Ask(kind) == 
    /\ Len(asked) < MaxRequests
    /\ asked' = Append(asked, kind)
    /\ UNCHANGED <<called, dropped, missed>>

This == Len(asked) + 1

(* async_run_later: an immediate timer, and one that finds the list empty, *)
(* goes to the front, another before the first that is not due earlier.    *)
Place(time) ==
    LET later == {i \in DOMAIN timers : ~timers[i].immediate /\ time <= timers[i].time}
    IN  IF later = {} THEN Len(timers) + 1 ELSE CHOOSE i \in later : \A j \in later : i <= j

(* Mutant: the event thread is not interrupted. *)
RunLaterQuietly(delay) ==
    /\ MayCall
    /\ clock + delay <= MaxClock
    /\ Ask("timer")
    /\ LET entry == [request |-> This, immediate |-> delay = 0, time |-> clock + delay]
       IN  timers' = IF delay = 0 THEN <<entry>> \o timers
                     ELSE InsertAt(timers, Place(entry.time), entry)
    /\ UNCHANGED <<integrated, clock, results, workers, pipe, batch, active, interest, closed, incoming,
                   poller, heap, signals, quit, channel, offers>>

RunLater(delay) ==
    /\ MayCall
    /\ clock + delay <= MaxClock
    /\ Ask("timer")
    /\ LET entry == [request |-> This, immediate |-> delay = 0, time |-> clock + delay]
       IN  timers' = IF delay = 0 THEN <<entry>> \o timers
                     ELSE InsertAt(timers, Place(entry.time), entry)
    /\ pipe' = (pipe \/ integrated)
    /\ UNCHANGED <<integrated, clock, results, workers, batch, active, interest, closed, incoming,
                   poller, heap, signals, quit, channel, offers>>

(* AsyncTCPConnection.open, through async_run_thread: a thread is taken    *)
(* from the pool or created, and then given the job. *)
TakeThread ==
    /\ MayCall
    /\ Ask("connection")
    /\ IF pool # <<>>
       THEN /\ heap' = [heap EXCEPT !.handing = <<Head(pool), This>>]
            /\ pool' = Tail(pool)
            /\ UNCHANGED thread
       ELSE /\ None \in Range(thread)
            /\ LET t == CHOOSE t \in Thread : thread[t] = None
               IN  /\ thread' = [thread EXCEPT ![t] = "waiting"]
                   /\ heap' = [heap EXCEPT !.handing = <<t, This>>]
            /\ UNCHANGED pool
    /\ UNCHANGED <<integrated, clock, queues, func, files, poller, signals, quit, channel, offers>>

(* A thread that has ended is still in the pool, or was taken before it    *)
(* did: its memory is freed, and the job is lost.                          *)
GiveJob ==
    /\ heap.handing # <<>>
    /\ LET t == heap.handing[1]
           n == heap.handing[2]
       IN  IF thread[t] = "ended" THEN dropped' = dropped \union {n} /\ UNCHANGED func
           ELSE func' = [func EXCEPT ![t] = n] /\ UNCHANGED dropped
    /\ heap' = [heap EXCEPT !.handing = <<>>]
    /\ UNCHANGED <<integrated, clock, queues, pool, thread, files, poller, signals, quit, channel, offers,
                   asked, called, missed>>

(* AsyncTCPConnection.read and write; what is written has been sent when   *)
(* the call returns, its callback waits for the next event.                *)
UpdatePollCtl(s, operations) == 
    interest' = [interest EXCEPT ![s] = IF s \in closed THEN {} ELSE {mode \in Modes : operations[mode] # 0}]

StartOperation(s, mode) ==
    /\ MayCall
    /\ active[s][mode] = 0
    /\ Ask(mode)
    /\ active' = [active EXCEPT ![s][mode] = This]
    /\ UpdatePollCtl(s, active'[s])
    /\ UNCHANGED <<integrated, clock, queues, workers, pipe, batch, closed, incoming, poller, heap,
                   signals, quit, channel, offers>>

StartRead(s) == StartOperation(s, "read")
StartWrite(s) == StartOperation(s, "write")

(* close; on a socket without an operation under way it changes nothing    *)
(* that the loop could notice.                                             *)
Close(s) ==
    /\ MayCall
    /\ s \notin closed /\ interest[s] # {}
    /\ closed' = closed \union {s}
    /\ interest' = [interest EXCEPT ![s] = {}]
    /\ UNCHANGED <<integrated, clock, queues, workers, pipe, batch, active, incoming, poller, heap,
                   signals, quit, channel, offers, ghosts>>

AsyncQuit ==
    /\ At("callback") /\ heap.handing = <<>>
    /\ ~integrated /\ ~quit
    /\ quit' = TRUE
    /\ UNCHANGED <<integrated, clock, queues, workers, files, poller, heap, signals, channel, offers, ghosts>>

-------------------------------------------------------------------------------
(* process_events: the events of the poll, then the results of threads,    *)
(* then the timers, with a callback for each.                              *)
Callback(resume, s) == heap' = [heap EXCEPT !.pc = "callback", !.resume = resume, !.socket = s]

Called(n) ==
    /\ called' = [called EXCEPT ![n] = @ + 1]
    /\ UNCHANGED <<asked, dropped, missed>>

Return ==
    /\ At("callback") /\ heap.handing = <<>>
    /\ heap' = [heap EXCEPT !.pc = heap.resume, !.resume = None]
    /\ UNCHANGED <<integrated, clock, queues, workers, files, poller, signals, quit, channel, offers, ghosts>>

DrainPipe ==
    /\ At("events") /\ Pipe \in batch
    /\ batch' = batch \ {Pipe}
    /\ pipe' = FALSE
    /\ UNCHANGED <<integrated, clock, queues, workers, active, interest, closed, incoming, poller, heap,
                   signals, quit, channel, offers, ghosts>>

SocketEvent(s, mode) ==
    /\ At("events") /\ <<s, mode>> \in batch
    /\ batch' = batch \ {<<s, mode>>}
    /\ IF active[s][mode] # 0
       THEN /\ active' = [active EXCEPT ![s][mode] = 0]
            /\ incoming' = IF mode = "read" THEN [incoming EXCEPT ![s] = FALSE] ELSE incoming
            /\ Called(active[s][mode])
            /\ Callback("event done", s)
       ELSE /\ heap' = [heap EXCEPT !.pc = "event done", !.socket = s]
            /\ UNCHANGED <<active, incoming, ghosts>>
    /\ UNCHANGED <<integrated, clock, queues, workers, pipe, interest, closed, poller, signals, quit,
                   channel, offers>>

EventDone ==
    /\ At("event done")
    /\ UpdatePollCtl(heap.socket, active[heap.socket])
    /\ heap' = [heap EXCEPT !.pc = "events", !.socket = None]
    /\ UNCHANGED <<integrated, clock, queues, workers, pipe, batch, active, closed, incoming, poller,
                   signals, quit, channel, offers, ghosts>>

(* Mutant: the results stay in their list. *)
DetachNothing ==
    /\ At("events") /\ batch = {}
    /\ heap' = [heap EXCEPT !.pc = "results", !.taken = results]
    /\ UNCHANGED <<integrated, clock, queues, workers, files, poller, signals, quit, channel, offers, ghosts>>

DetachResults ==
    /\ At("events") /\ batch = {}
    /\ heap' = [heap EXCEPT !.pc = "results", !.taken = results]
    /\ results' = <<>>
    /\ UNCHANGED <<integrated, clock, timers, workers, files, poller, signals, quit, channel, offers, ghosts>>

JobDone ==
    /\ At("results") /\ heap.taken # <<>>
    /\ heap' = [heap EXCEPT !.pc = "callback", !.resume = "results", !.taken = Tail(@)]
    /\ Called(Head(heap.taken))
    /\ UNCHANGED <<integrated, clock, queues, workers, files, poller, signals, quit, channel, offers>>

(* The socket of a result cannot be added to the poll: this result and all *)
(* after it are thrown away, and the timers have to wait.                  *)
AddFails ==
    /\ At("results") /\ heap.taken # <<>>
    /\ dropped' = dropped \union ToSet(heap.taken)
    /\ heap' = IF integrated THEN [heap EXCEPT !.pc = "answer", !.taken = <<>>] ELSE Script
    /\ UNCHANGED <<integrated, clock, queues, workers, files, poller, signals, quit, channel, offers,
                   asked, called, missed>>

ResultsDone ==
    /\ At("results") /\ heap.taken = <<>>
    /\ heap' = [heap EXCEPT !.pc = "timers", !.now = -1]
    /\ UNCHANGED <<integrated, clock, queues, workers, files, poller, signals, quit, channel, offers, ghosts>>

(* The time is read once, for the first timer that is not immediate. *)
Now == IF heap.now = -1 THEN clock ELSE heap.now
FirstIsDue == timers # <<>> /\ (Head(timers).immediate \/ Head(timers).time <= Now)

TimerDue ==
    /\ At("timers") /\ FirstIsDue
    /\ timers' = Tail(timers)
    /\ heap' = [heap EXCEPT !.pc = "callback", !.resume = "timers",
                            !.now = IF Head(timers).immediate THEN @ ELSE Now]
    /\ Called(Head(timers).request)
    /\ UNCHANGED <<integrated, clock, results, workers, files, poller, signals, quit, channel, offers>>

(* async_process waits again, unless it is to end. *)
TimersDone ==
    /\ At("timers") /\ ~FirstIsDue
    /\ IF integrated THEN Goto("answer") /\ UNCHANGED poller
       ELSE IF quit THEN heap' = Script /\ UNCHANGED poller
       ELSE Goto("waiting") /\ poller' = [poller EXCEPT !.pc = "computing"]
    /\ UNCHANGED <<integrated, clock, queues, workers, files, signals, quit, channel, offers, ghosts>>

(* fixio_process_events lets the event thread go on. *)
Answer ==
    /\ At("answer")
    /\ ForeignMutexFree
    /\ foreignProcessed' = TRUE
    /\ heap' = [heap EXCEPT !.pc = "walking", !.index = 0]
    /\ UNCHANGED <<integrated, clock, queues, workers, files, poller, waitMutex, hasEvents, sendingSignal,
                   quit, channel, offers, ghosts>>

-------------------------------------------------------------------------------
(* async_process: with no timeout until somebody quits, with one once. *)
AsyncProcess(timed) ==
    /\ At("script") /\ heap.handing = <<>>
    /\ ~integrated
    /\ heap' = [heap EXCEPT !.pc = "waiting", !.timed = timed]
    /\ quit' = timed
    /\ poller' = [poller EXCEPT !.pc = "computing"]
    /\ UNCHANGED <<integrated, clock, queues, workers, files, signals, channel, offers, ghosts>>

(* channel_set_receive, with the integration. *)
Receive(timed) ==
    /\ At("script") /\ heap.handing = <<>>
    /\ integrated
    /\ waitMutex' = TRUE
    /\ heap' = [heap EXCEPT !.pc = "entering", !.timed = timed]
    /\ UNCHANGED <<integrated, clock, queues, workers, files, poller, foreignProcessed, hasEvents,
                   sendingSignal, quit, channel, offers, ghosts>>

Look ==
    /\ heap.pc \in {"entering", "awake"}
    /\ hasEvents' = FALSE
    /\ heap' = [heap EXCEPT !.pc = IF hasEvents THEN "events" ELSE "walking", !.index = 0]
    /\ UNCHANGED <<integrated, clock, queues, workers, files, poller, foreignProcessed, waitMutex,
                   sendingSignal, quit, channel, offers, ghosts>>

Walk ==
    /\ At("walking")
    /\ heap' = IF listed /\ heap.index = 0 THEN [heap EXCEPT !.pc = "receiving", !.index = 1]
               ELSE [heap EXCEPT !.pc = "asleep", !.index = 0]
    /\ UNCHANGED <<integrated, clock, queues, workers, files, poller, signals, quit, channel, offers, ghosts>>

TakeMessage ==
    /\ At("receiving")
    /\ Goto(IF message THEN "leaving" ELSE "walking")
    /\ message' = FALSE /\ listed' = FALSE
    /\ missed' = (missed \/ ~message)
    /\ UNCHANGED <<integrated, clock, queues, workers, files, poller, signals, quit, offers, asked, called, dropped>>

WakeSpuriously ==
    /\ At("asleep")
    /\ Goto("awake")
    /\ UNCHANGED <<integrated, clock, queues, workers, files, poller, signals, quit, channel, offers, ghosts>>

TimeOut ==
    /\ At("asleep") /\ heap.timed
    /\ Goto("leaving")
    /\ UNCHANGED <<integrated, clock, queues, workers, files, poller, signals, quit, channel, offers, ghosts>>

(* The end of receive waits for a notify that is about to use the mutex of *)
(* the set.                                                                *)
(* Mutant: it does not. *)
LeaveAtOnce ==
    /\ At("leaving")
    /\ waitMutex' = FALSE
    /\ heap' = Script
    /\ UNCHANGED <<integrated, clock, queues, workers, files, poller, foreignProcessed, hasEvents,
                   sendingSignal, quit, channel, offers, ghosts>>

Leave ==
    /\ At("leaving")
    /\ ~sendingSignal
    /\ waitMutex' = FALSE
    /\ heap' = Script
    /\ UNCHANGED <<integrated, clock, queues, workers, files, poller, foreignProcessed, hasEvents,
                   sendingSignal, quit, channel, offers, ghosts>>

-------------------------------------------------------------------------------
(* wait_events, in the event thread or in async_process. *)
Forever == MaxClock + 1

ComputeTimeout ==
    /\ poller.pc = "computing"
    /\ LET timer == IF timers = <<>> THEN Forever
                    ELSE IF Head(timers).immediate THEN clock
                    ELSE Head(timers).time
           limit == IF ~integrated /\ heap.timed THEN clock ELSE Forever
       IN  poller' = [pc |-> "polling", until |-> IF timer < limit THEN timer ELSE limit]
    /\ UNCHANGED <<integrated, clock, queues, workers, files, heap, signals, quit, channel, offers, ghosts>>

ReadyFiles == 
    (IF pipe THEN {Pipe} ELSE {})
    \union UNION {{s} \X {mode \in interest[s] : mode = "read" => incoming[s]} : s \in Socket}

PollWait ==
    /\ poller.pc = "polling"
    /\ batch # {} \/ ReadyFiles # {} \/ clock >= poller.until
    /\ batch' = IF batch # {} THEN batch ELSE ReadyFiles
    /\ IF integrated THEN poller' = [pc |-> "locking", until |-> 0] /\ UNCHANGED heap
       ELSE poller' = [pc |-> "off", until |-> 0] /\ Goto("events")
    /\ UNCHANGED <<integrated, clock, queues, workers, pipe, active, interest, closed, incoming, signals,
                   quit, channel, offers, ghosts>>

PollerGoto(place) == poller' = [poller EXCEPT !.pc = place]

(* event_thread *)
(* Mutant: foreign_processed is left as it was. *)
LockForeignOnly ==
    /\ poller.pc = "locking"
    /\ PollerGoto("notifying")
    /\ UNCHANGED <<integrated, clock, queues, workers, files, heap, signals,
                   quit, channel, offers, ghosts>>

LockForeign ==
    /\ poller.pc = "locking"
    /\ PollerGoto("notifying")
    /\ foreignProcessed' = FALSE
    /\ UNCHANGED <<integrated, clock, queues, workers, files, heap, waitMutex, hasEvents, sendingSignal,
                   quit, channel, offers, ghosts>>

(* channel_set_loop_notify *)
Notify ==
    /\ poller.pc = "notifying"
    /\ IF waitMutex
       THEN sendingSignal' = TRUE /\ PollerGoto("signalling") /\ UNCHANGED hasEvents
       ELSE hasEvents' = TRUE /\ PollerGoto("awaiting") /\ UNCHANGED sendingSignal
    /\ UNCHANGED <<integrated, clock, queues, workers, files, heap, foreignProcessed, waitMutex, quit,
                   channel, offers, ghosts>>

WakeReceiver == heap' = IF At("asleep") THEN [heap EXCEPT !.pc = "awake"] ELSE heap

(* Mutant: has_events is set, and nobody is woken. *)
SignalQuietly ==
    /\ poller.pc = "signalling"
    /\ SetMutexFree
    /\ hasEvents' = TRUE
    /\ PollerGoto("signalled")
    /\ UNCHANGED <<integrated, clock, queues, workers, files, heap, foreignProcessed, waitMutex, sendingSignal,
                   quit, channel, offers, ghosts>>

Signal ==
    /\ poller.pc = "signalling"
    /\ SetMutexFree
    /\ hasEvents' = TRUE
    /\ WakeReceiver
    /\ PollerGoto("signalled")
    /\ UNCHANGED <<integrated, clock, queues, workers, files, foreignProcessed, waitMutex, sendingSignal,
                   quit, channel, offers, ghosts>>

SignalSent ==
    /\ poller.pc = "signalled"
    /\ sendingSignal' = FALSE
    /\ PollerGoto("awaiting")
    /\ UNCHANGED <<integrated, clock, queues, workers, files, heap, foreignProcessed, waitMutex, hasEvents,
                   quit, channel, offers, ghosts>>

Processed ==
    /\ poller.pc = "awaiting" /\ foreignProcessed
    /\ PollerGoto("computing")
    /\ UNCHANGED <<integrated, clock, queues, workers, files, heap, signals, quit, channel, offers, ghosts>>

-------------------------------------------------------------------------------
(* thread_main, and tcp_open_func. *)
RunFunc(t) ==
    /\ thread[t] = "waiting" /\ func[t] # 0
    /\ thread' = [thread EXCEPT ![t] = "running"]
    /\ UNCHANGED <<integrated, clock, queues, pool, func, files, poller, heap, signals, quit, channel, offers, ghosts>>

PostResult(t) ==
    /\ thread[t] = "running"
    /\ thread' = [thread EXCEPT ![t] = "done"]
    /\ results' = <<func[t]>> \o results
    /\ pipe' = TRUE
    /\ UNCHANGED <<integrated, clock, timers, pool, func, batch, active, interest, closed, incoming, poller,
                   heap, signals, quit, channel, offers, ghosts>>

ReturnToPool(t) ==
    /\ thread[t] = "done"
    /\ thread' = [thread EXCEPT ![t] = "waiting"]
    /\ func' = [func EXCEPT ![t] = 0]
    /\ pool' = <<t>> \o pool
    /\ UNCHANGED <<integrated, clock, queues, files, poller, heap, signals, quit, channel, offers, ghosts>>

(* After five seconds without a job; the pool is not told. *)
Expire(t) ==
    /\ thread[t] = "waiting" /\ func[t] = 0
    /\ thread' = [thread EXCEPT ![t] = "ended"]
    /\ UNCHANGED <<integrated, clock, queues, pool, func, files, poller, heap, signals, quit, channel, offers, ghosts>>

-------------------------------------------------------------------------------
(* The surroundings: the peers of the sockets, the senders of the channel, *)
(* time.  What has arrived before somebody reads, and the time that passes *)
(* while there is no timer, make no difference to the loop.                *)
PeerSends(s) ==
    /\ ~incoming[s] /\ active[s]["read"] # 0
    /\ incoming' = [incoming EXCEPT ![s] = TRUE]
    /\ UNCHANGED <<integrated, clock, queues, workers, pipe, batch, active, interest, closed, poller, heap,
                   signals, quit, channel, offers, ghosts>>

Offer ==
    /\ integrated /\ ~message /\ offers < MaxMessages
    /\ SetMutexFree
    /\ message' = TRUE /\ listed' = TRUE
    /\ offers' = offers + 1
    /\ WakeReceiver
    /\ UNCHANGED <<integrated, clock, queues, workers, files, poller, signals, quit, ghosts>>

Withdraw ==
    /\ message
    /\ SetMutexFree
    /\ message' = FALSE /\ listed' = FALSE
    /\ UNCHANGED <<integrated, clock, queues, workers, files, poller, heap, signals, quit, offers, ghosts>>

Tick ==
    /\ clock < MaxClock /\ timers # <<>>
    /\ clock' = clock + 1
    /\ UNCHANGED <<integrated, queues, workers, files, poller, heap, signals, quit, channel, offers, ghosts>>

-------------------------------------------------------------------------------
Program ==
    \/ \E delay \in Delays : RunLater(delay)
    \/ TakeThread
    \/ \E s \in Socket : Close(s) \/ StartRead(s) \/ StartWrite(s)
    \/ AsyncQuit

(* The program comes back to the loop, waiting for as long as it takes. *)
ComeBack == AsyncProcess(FALSE) \/ Receive(FALSE)
LookIn == AsyncProcess(TRUE) \/ Receive(TRUE)

HeapSteps ==
    \/ GiveJob \/ Return
    \/ DrainPipe \/ (\E s \in Socket, mode \in Modes : SocketEvent(s, mode)) \/ EventDone
    \/ DetachResults \/ JobDone \/ ResultsDone \/ TimerDue \/ TimersDone \/ Answer
    \/ Look \/ Walk \/ TakeMessage \/ Leave

PollerSteps ==
    ComputeTimeout \/ PollWait \/ LockForeign \/ Notify \/ Signal \/ SignalSent \/ Processed

ThreadSteps(t) == RunFunc(t) \/ PostResult(t) \/ ReturnToPool(t)

Surroundings ==
    \/ WakeSpuriously \/ TimeOut \/ AddFails
    \/ \E t \in Thread : Expire(t)
    \/ \E s \in Socket : PeerSends(s)
    \/ Offer \/ Withdraw

Next ==
    \/ Program \/ ComeBack \/ LookIn \/ HeapSteps \/ PollerSteps \/ Surroundings \/ Tick
    \/ \E t \in Thread : ThreadSteps(t)

Spec == Init /\ [][Next]_vars

(* Threads that can run do, callbacks return, connections are made or      *)
(* fail, time passes, and the program goes on waiting for events.  The     *)
(* mutex of the set, which receive holds and releases again and again, is  *)
(* given to the notify that waits for it.                                  *)
FairSpec ==
    /\ Spec
    /\ WF_vars(HeapSteps) /\ WF_vars(PollerSteps) /\ WF_vars(ComeBack \/ LookIn) /\ WF_vars(Tick)
    /\ \A t \in Thread : WF_vars(ThreadSteps(t))
    /\ SF_vars(Signal)

-------------------------------------------------------------------------------
(* The poll and its array of events belong to the thread that waits or to  *)
(* the heap that processes, never to both, although no mutex guards them   *)
(* (the handshake of event_thread and fixio_process_events over            *)
(* has_events and foreign_processed).                                      *)
OneThreadInPoll == InProcess => poller.pc \notin {"computing", "polling", "locking"}

(* A notify only locks the mutex of a set while the heap is still inside   *)
(* its receive: the set may be freed right after (sending_signal).         *)
SetOutlivesNotify == poller.pc \in {"signalling", "signalled"} => InReceive

(* The heap does not sleep in receive with events to process, unless a     *)
(* walk over the list of the set found a channel already empty again: an   *)
(* event that arrives during such a walk is noticed by nobody.             *)
NotSleptThrough == At("asleep") /\ hasEvents => missed

(* Every callback is called once, although callbacks make new requests     *)
(* while the lists of timers and results and the events of the poll are    *)
(* worked off, and none whose result was thrown away before.               *)
CalledOnce == \A n \in Request : called[n] + (IF n \in dropped THEN 1 ELSE 0) <= 1

(* A request that nothing but the loop holds up: a read waits for data.    *)
Waiting(n) ==
    /\ n <= Len(asked) /\ called[n] = 0 /\ n \notin dropped
    /\ \A s \in Socket : n \in {active[s][mode] : mode \in Modes} =>
          s \notin closed /\ (asked[n] = "read" => incoming[s])

(* The callback of every request is called in the end, however requests,   *)
(* events and messages fall into the waits of the two threads, unless an   *)
(* event was slept through (docs/global_async.html,                        *)
(* docs/async_tcp_connection.html).                                        *)
EveryCallbackCalled == \A n \in Request : Waiting(n) ~> ~Waiting(n) \/ missed
===============================================================================
