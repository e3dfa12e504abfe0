----------------------------- MODULE GuiWorker -----------------------------
(***************************************************************************)
(* The worker threads of fixgui: the class Worker on the side of the GUI   *)
(* thread, worker_send and worker_receive inside a worker, and the         *)
(* notifications that make the GUI thread call the script for each message *)
(* (src/fixgui/fixgui.c, with the parts of fixgui_gtk.c and                *)
(* fixgui_win32.c that lock, wait and notify).                             *)
(*                                                                         *)
(* A worker is shared by its thread, by the handle in the heap of the GUI  *)
(* and by every notification on its way; refcnt counts them, and the last  *)
(* one out frees it.  An action is a stretch of code under the lock of the *)
(* worker, or one change of refcnt, or one call of the notify function.    *)
(***************************************************************************)
EXTENDS Integers, Sequences, FiniteSets

CONSTANTS
    Worker,         \* the workers that may be created
    Platforms,      \* some of "gtk" and "win32"
    MaxMessages,    \* MAX_MESSAGES, 1000 in the code
    ToGui, ToWorker,\* bounds of the messages of a worker, and to it
    MaxDepth,       \* bound of the nesting of notifications in each other
    NoWorker        \* the GUI thread waits for no worker

ASSUME WorkerAssumption ==
    /\ Platforms \subseteq {"gtk", "win32"}
    /\ MaxMessages \in Nat \ {0}
    /\ ToGui \in Nat /\ ToWorker \in Nat /\ MaxDepth \in Nat \ {0}
    /\ NoWorker \notin Worker

VARIABLES
    platform,
    refcnt,         \* of each worker; freed when it goes back to 0
    thread,         \* where the thread of a worker is, see Threads
    finished,       \* the field of that name
    input, output,  \* number of messages in comm_input and comm_output
    handle,         \* the handle object exists in the heap of the GUI
    held,           \* the script can reach the handle
    rooted,         \* worker->handle is set: referenced until the end
    asleep,         \* who is blocked in worker_wait: "gui", "thread"
    gap,            \* win32: who has left the section there and does not wait yet
    event,          \* win32: the auto-reset event is set
    pending,        \* gtk: notify_workers; win32: the posted messages
    polling,        \* gtk: worker_notify_callbacks is under way, global_mutex held
    frames,         \* the calls of worker_notify_func under way, innermost last
    waitsFor,       \* the worker that the GUI thread waits for in worker_send
    sentOut, sentIn,\* numbers of messages so far, to stop at the bounds
    merged          \* history: notifications that were already in notify_workers

vars == <<platform, refcnt, thread, finished, input, output, handle, held, rooted,
          asleep, gap, event, pending, polling, frames, waitsFor, sentOut, sentIn, merged>>

(* Groups of variables for UNCHANGED.                                      *)
handles == <<handle, held, rooted>>
queues == <<input, output, sentOut, sentIn>>
gui == <<pending, polling, frames, waitsFor>>
waits == <<asleep, gap, event>>

(* "room" and "message" are the waits of worker_send and worker_receive,   *)
(* "ref" and "notify" the last steps of a send and of the thread, "free"   *)
(* is the worker_free at its end.                                          *)
Threads == {"none", "params", "run", "room", "message", "ref", "notify", "free", "done"}

Places == {"drain", "callback", "free"}

WorkersOK ==
    /\ platform \in Platforms
    /\ refcnt \in [Worker -> Int]
    /\ thread \in [Worker -> Threads]
    /\ finished \in [Worker -> BOOLEAN]
    /\ merged \in [Worker -> Nat]

HandlesOK ==
    /\ handle \in [Worker -> BOOLEAN]
    /\ held \in [Worker -> BOOLEAN]
    /\ rooted \in [Worker -> BOOLEAN]

QueuesOK ==
    /\ input \in [Worker -> 0..MaxMessages] /\ output \in [Worker -> 0..MaxMessages]
    /\ sentOut \in [Worker -> Nat] /\ sentIn \in [Worker -> Nat]

WaitsOK ==
    /\ asleep \in [Worker -> SUBSET {"gui", "thread"}]
    /\ gap \in [Worker -> SUBSET {"gui", "thread"}]
    /\ event \in [Worker -> BOOLEAN]

GuiOK ==
    /\ pending \in Seq(Worker)
    /\ polling \in BOOLEAN
    /\ frames \in Seq([worker : Worker, at : Places])
    /\ waitsFor \in Worker \cup {NoWorker}

TypeOK == WorkersOK /\ HandlesOK /\ QueuesOK /\ WaitsOK /\ GuiOK

Init ==
    /\ platform \in Platforms
    /\ refcnt = [w \in Worker |-> 0]
    /\ thread = [w \in Worker |-> "none"]
    /\ finished = [w \in Worker |-> FALSE]
    /\ input = [w \in Worker |-> 0] /\ output = [w \in Worker |-> 0]
    /\ handle = [w \in Worker |-> FALSE] /\ held = [w \in Worker |-> FALSE]
    /\ rooted = [w \in Worker |-> FALSE]
    /\ asleep = [w \in Worker |-> {}] /\ gap = [w \in Worker |-> {}]
    /\ event = [w \in Worker |-> FALSE]
    /\ pending = <<>> /\ polling = FALSE
    /\ frames = <<>> /\ waitsFor = NoWorker
    /\ sentOut = [w \in Worker |-> 0] /\ sentIn = [w \in Worker |-> 0]
    /\ merged = [w \in Worker |-> 0]

-----------------------------------------------------------------------------
(* Locking and waiting                                                     *)

(* worker_unlock signals whenever it is called: one of those who wait      *)
(* wakes up; if there is none, the signal is lost on GTK, and on Windows   *)
(* the event stays set for the next one to wait.                           *)
Unlock(w) ==
    /\ IF asleep[w] = {}
       THEN asleep' = asleep /\ event' = [event EXCEPT ![w] = platform = "win32"]
       ELSE /\ \E who \in asleep[w] : asleep' = [asleep EXCEPT ![w] = @ \ {who}]
            /\ event' = event
    /\ gap' = gap

(* worker_wait: atomic on GTK.                                             *)
Sleep(w, who) ==
    /\ IF platform = "gtk"
       THEN asleep' = [asleep EXCEPT ![w] = @ \cup {who}] /\ gap' = gap
       ELSE gap' = [gap EXCEPT ![w] = @ \cup {who}] /\ asleep' = asleep
    /\ event' = event

Awake(w, who) == who \notin asleep[w] \cup gap[w]

(* WaitForSingleObject takes the event if it is set.                       *)
WaitForEvent(w, who) ==
    /\ who \in gap[w]
    /\ gap' = [gap EXCEPT ![w] = @ \ {who}]
    /\ asleep' = IF event[w] THEN asleep ELSE [asleep EXCEPT ![w] = @ \cup {who}]
    /\ event' = [event EXCEPT ![w] = FALSE]
    /\ UNCHANGED <<platform, refcnt, thread, finished, merged, queues, handles, gui>>

(* A wait of POSIX may end for no reason.                                  *)
WakeSpuriously(w) ==
    /\ platform = "gtk"
    /\ \E who \in asleep[w] : asleep' = [asleep EXCEPT ![w] = @ \ {who}]
    /\ UNCHANGED <<platform, refcnt, thread, finished, merged, queues, handles, gui, gap,
                   event>>

-----------------------------------------------------------------------------
(* The thread of a worker                                                  *)

(* The script is loaded and the parameters are taken out of comm_heap; if  *)
(* either fails, or there is no such function, the thread ends at once.    *)
Begin(w) ==
    /\ thread[w] = "params"
    /\ thread' = [thread EXCEPT ![w] = "run"]
    /\ UNCHANGED <<platform, refcnt, finished, merged, handles, queues, gui,
                   waits>>

End(w) ==
    /\ thread[w] \in {"params", "run"}
    /\ finished' = [finished EXCEPT ![w] = TRUE]
    /\ thread' = [thread EXCEPT ![w] = "ref"]
    /\ Unlock(w)
    /\ UNCHANGED <<platform, refcnt, merged, handles, queues, gui>>

(* In worker_send: called now, or awake again in its loop.                 *)
Sending(w) ==
    \/ thread[w] = "run" /\ sentOut[w] < ToGui
    \/ thread[w] = "room" /\ Awake(w, "thread")

(* A message that cannot be copied is announced like any other.            *)
Send(w) ==
    /\ Sending(w) /\ output[w] < MaxMessages
    /\ \E copied \in {0, 1} : output' = [output EXCEPT ![w] = @ + copied]
    /\ sentOut' = [sentOut EXCEPT ![w] = @ + 1]
    /\ thread' = [thread EXCEPT ![w] = "ref"]
    /\ Unlock(w)
    /\ UNCHANGED <<platform, refcnt, finished, input, sentIn, merged,
                   handles, gui>>

WaitForRoom(w) ==
    /\ Sending(w) /\ output[w] = MaxMessages
    /\ thread' = [thread EXCEPT ![w] = "room"]
    /\ Sleep(w, "thread")
    /\ UNCHANGED <<platform, refcnt, finished, merged, handles, queues, gui>>

(* The notification gets a reference of its own before it is sent.         *)
AddReference(w) ==
    /\ thread[w] = "ref"
    /\ refcnt' = [refcnt EXCEPT ![w] = @ + 1]
    /\ thread' = [thread EXCEPT ![w] = "notify"]
    /\ UNCHANGED <<platform, finished, merged, handles, queues, gui, waits>>

(* On GTK the list of workers to notify, itself a holder of a reference,   *)
(* is guarded by global_mutex, and a worker that is on it is not added     *)
(* again; Windows posts a message for each.                                *)
Listed(w) == \E i \in DOMAIN pending : pending[i] = w

(* Mutant: the list takes no reference.                                    *)
NotifyUnreferenced(w) ==
    /\ thread[w] = "notify" /\ ~polling
    /\ thread' = [thread EXCEPT ![w] = IF finished[w] THEN "free" ELSE "run"]
    /\ IF platform = "win32"
       THEN pending' = Append(pending, w) /\ UNCHANGED merged
       ELSE IF Listed(w)
            THEN merged' = [merged EXCEPT ![w] = @ + 1] /\ UNCHANGED pending
            ELSE pending' = <<w>> \o pending /\ UNCHANGED merged
    /\ UNCHANGED <<platform, refcnt, finished, polling, frames, waitsFor,
                   handles, queues, waits>>

Notify(w) ==
    /\ thread[w] = "notify" /\ ~polling
    /\ thread' = [thread EXCEPT ![w] = IF finished[w] THEN "free" ELSE "run"]
    /\ IF platform = "win32"
       THEN pending' = Append(pending, w) /\ UNCHANGED <<refcnt, merged>>
       ELSE IF Listed(w)
            THEN merged' = [merged EXCEPT ![w] = @ + 1] /\ UNCHANGED <<refcnt, pending>>
            ELSE /\ pending' = <<w>> \o pending
                 /\ refcnt' = [refcnt EXCEPT ![w] = @ + 1]
                 /\ UNCHANGED merged
    /\ UNCHANGED <<platform, finished, polling, frames, waitsFor, handles,
                   queues, waits>>

(* In worker_receive.                                                      *)
Receiving(w) ==
    \/ thread[w] = "run"
    \/ thread[w] = "message" /\ Awake(w, "thread")

Receive(w) ==
    /\ Receiving(w) /\ input[w] > 0
    /\ input' = [input EXCEPT ![w] = @ - 1]
    /\ thread' = [thread EXCEPT ![w] = "run"]
    /\ Unlock(w)
    /\ UNCHANGED <<platform, refcnt, finished, output, sentOut, sentIn,
                   merged, handles, gui>>

WaitForMessage(w) ==
    /\ Receiving(w) /\ input[w] = 0
    /\ thread' = [thread EXCEPT ![w] = "message"]
    /\ Sleep(w, "thread")
    /\ UNCHANGED <<platform, refcnt, finished, merged, handles, queues, gui>>

(* A receive with a timeout finds its time has passed.                     *)
GiveUpReceive(w) ==
    /\ Receiving(w) /\ input[w] = 0
    /\ thread' = [thread EXCEPT ![w] = "run"]
    /\ Unlock(w)
    /\ UNCHANGED <<platform, refcnt, finished, merged, queues, handles, gui>>

(* Its wait ends.                                                          *)
Expire(w) ==
    /\ thread[w] = "message" /\ "thread" \in asleep[w]
    /\ asleep' = [asleep EXCEPT ![w] = @ \ {"thread"}]
    /\ UNCHANGED <<platform, refcnt, thread, finished, merged, queues, handles, gui, gap,
                   event>>

FreeByThread(w) ==
    /\ thread[w] = "free"
    /\ refcnt' = [refcnt EXCEPT ![w] = @ - 1]
    /\ thread' = [thread EXCEPT ![w] = "done"]
    /\ UNCHANGED <<platform, finished, merged, handles, queues, gui, waits>>

ThreadStep(w) ==
    \/ Begin(w) \/ End(w) \/ Send(w) \/ WaitForRoom(w) \/ AddReference(w) \/ Notify(w)
    \/ Receive(w) \/ WaitForMessage(w) \/ GiveUpReceive(w) \/ FreeByThread(w)

-----------------------------------------------------------------------------
(* The GUI thread                                                          *)

(* The script of the GUI runs: from the event loop or from a callback.     *)
Innermost == frames[Len(frames)]
InScript ==
    /\ waitsFor = NoWorker
    /\ IF frames = <<>> THEN ~polling ELSE Innermost.at = "callback"

(* worker_create: the handle has a reference, the thread another one.  If  *)
(* the thread cannot be started the script gets an error and no handle.    *)
Create(w) ==
    /\ InScript /\ thread[w] = "none"
    /\ handle' = [handle EXCEPT ![w] = TRUE]
    /\ \/ /\ thread' = [thread EXCEPT ![w] = "params"]
          /\ refcnt' = [refcnt EXCEPT ![w] = 2]
          /\ held' = [held EXCEPT ![w] = TRUE]
          /\ rooted' = [rooted EXCEPT ![w] = TRUE]
       \/ /\ thread' = [thread EXCEPT ![w] = "done"]
          /\ refcnt' = [refcnt EXCEPT ![w] = 1]
          /\ UNCHANGED <<held, rooted>>
    /\ UNCHANGED <<platform, finished, merged, queues, gui, waits>>

(* worker_send of the script, which has the handle.                        *)
Post(w) ==
    /\ \/ InScript /\ held[w] /\ sentIn[w] < ToWorker
       \/ waitsFor = w /\ Awake(w, "gui")
    /\ input[w] < MaxMessages
    /\ \E copied \in {0, 1} : input' = [input EXCEPT ![w] = @ + copied]
    /\ sentIn' = [sentIn EXCEPT ![w] = @ + 1]
    /\ waitsFor' = NoWorker
    /\ Unlock(w)
    /\ UNCHANGED <<platform, refcnt, thread, finished, output, sentOut, merged, handles,
                   pending, polling, frames>>

WaitToPost(w) ==
    /\ \/ InScript /\ held[w] /\ sentIn[w] < ToWorker
       \/ waitsFor = w /\ Awake(w, "gui")
    /\ input[w] = MaxMessages
    /\ waitsFor' = w
    /\ Sleep(w, "gui")
    /\ UNCHANGED <<platform, refcnt, thread, finished, merged, queues, handles,
                   pending, polling, frames>>

(* The script forgets the handle; later the collector of the heap frees it *)
(* if nothing else refers to it.                                           *)
Forget(w) ==
    /\ InScript /\ held[w]
    /\ held' = [held EXCEPT ![w] = FALSE]
    /\ UNCHANGED <<platform, refcnt, thread, finished, handle, rooted, merged, queues, gui,
                   waits>>

Collect(w) ==
    /\ InScript /\ handle[w] /\ ~held[w] /\ ~rooted[w]
    /\ handle' = [handle EXCEPT ![w] = FALSE]
    /\ refcnt' = [refcnt EXCEPT ![w] = @ - 1]
    /\ UNCHANGED <<platform, thread, finished, held, rooted, merged, queues, gui, waits>>

(* A notification is taken: on GTK from the loop of                        *)
(* worker_notify_callbacks, on Windows from the event loop or from one     *)
(* that a callback runs (a message box).                                   *)
TakeNotification ==
    /\ pending # <<>> /\ waitsFor = NoWorker
    /\ IF platform = "gtk" THEN frames = <<>>
       ELSE InScript /\ Len(frames) < MaxDepth
    /\ pending' = Tail(pending)
    /\ frames' = Append(frames, [worker |-> Head(pending), at |-> "drain"])
    /\ polling' = (platform = "gtk")
    /\ UNCHANGED <<platform, refcnt, thread, finished, merged, queues, handles, waitsFor,
                   waits>>

(* The list is empty: global_mutex is released.                            *)
PollingDone ==
    /\ polling /\ frames = <<>> /\ pending = <<>>
    /\ polling' = FALSE
    /\ UNCHANGED <<platform, refcnt, thread, finished, merged, queues, handles, pending,
                   frames, waitsFor, waits>>

At(place) == frames # <<>> /\ waitsFor = NoWorker /\ Innermost.at = place

Goto(place) == frames' = [frames EXCEPT ![Len(frames)].at = place]

(* Mutant: room is made without a signal.                                  *)
DeliverQuietly(w) ==
    /\ At("drain") /\ Innermost.worker = w /\ output[w] > 0
    /\ \E left \in 0..(output[w] - 1) : output' = [output EXCEPT ![w] = left]
    /\ Goto("callback")
    /\ UNCHANGED <<platform, refcnt, thread, finished, merged, handles, input, sentOut, sentIn,
                   pending, polling, waitsFor, waits>>

(* The first message that can be copied goes to the callback of the        *)
(* script; those before it are dropped.                                    *)
Deliver(w) ==
    /\ At("drain") /\ Innermost.worker = w /\ output[w] > 0
    /\ \E left \in 0..(output[w] - 1) : output' = [output EXCEPT ![w] = left]
    /\ Goto("callback")
    /\ Unlock(w)
    /\ UNCHANGED <<platform, refcnt, thread, finished, merged, handles, input, sentOut, sentIn,
                   pending, polling, waitsFor>>

(* Mutant: one message for each notification, as each send sends one.      *)
CallbackReturnsToEnd ==
    /\ At("callback")
    /\ Goto("free")
    /\ rooted' = [rooted EXCEPT ![Innermost.worker] = @ /\ ~finished[Innermost.worker]]
    /\ UNCHANGED <<platform, refcnt, thread, finished, merged, queues, handle, held, pending,
                   polling, waitsFor, waits>>

CallbackReturns ==
    /\ At("callback")
    /\ Goto("drain")
    /\ UNCHANGED <<platform, refcnt, thread, finished, merged, queues, handles, pending,
                   polling, waitsFor, waits>>

(* No message is left that can be copied; the handle of a worker that has  *)
(* ended is not needed any more.                                           *)
NoMore(w) ==
    /\ At("drain") /\ Innermost.worker = w
    /\ output' = [output EXCEPT ![w] = 0]
    /\ rooted' = [rooted EXCEPT ![w] = @ /\ ~finished[w]]
    /\ Goto("free")
    /\ Unlock(w)
    /\ UNCHANGED <<platform, refcnt, thread, finished, merged, handle, held, input, sentOut,
                   sentIn, pending, polling, waitsFor>>

(* worker_free of the notification, and on GTK worker_unref of the list.   *)
FreeByGui ==
    /\ At("free")
    /\ refcnt' = [refcnt EXCEPT ![Innermost.worker] = @ - IF polling THEN 2 ELSE 1]
    /\ frames' = SubSeq(frames, 1, Len(frames) - 1)
    /\ UNCHANGED <<platform, thread, finished, merged, queues, handles, pending, polling,
                   waitsFor, waits>>

(* What the GUI thread does by itself, and what the script may do.         *)
GuiStep ==
    \/ TakeNotification \/ PollingDone \/ CallbackReturns \/ FreeByGui
    \/ \E w \in Worker : Deliver(w) \/ NoMore(w)

GuiSends(w) == Post(w) \/ WaitToPost(w)

Next ==
    \/ GuiStep
    \/ \E w \in Worker :
          \/ ThreadStep(w) \/ WaitForEvent(w, "gui") \/ WaitForEvent(w, "thread")
          \/ Expire(w) \/ WakeSpuriously(w)
          \/ Create(w) \/ GuiSends(w) \/ Forget(w) \/ Collect(w)

Spec == Init /\ [][Next]_vars

(* The scheduler runs the GUI thread and the threads of the workers; a     *)
(* callback returns, and a script inside a worker goes on to send, to      *)
(* receive or to its end.                                                  *)
FairSpec ==
    /\ Spec
    /\ WF_vars(GuiStep)
    /\ \A w \in Worker :
          /\ WF_vars(ThreadStep(w))
          /\ WF_vars(WaitForEvent(w, "gui")) /\ WF_vars(WaitForEvent(w, "thread"))
          /\ WF_vars(waitsFor = w /\ GuiSends(w))

-----------------------------------------------------------------------------
(* Properties                                                              *)

(* Who may still use the memory of a worker.                               *)
InUse(w) ==
    \/ thread[w] \notin {"none", "done"}
    \/ handle[w]
    \/ Listed(w)
    \/ \E i \in DOMAIN frames : frames[i].worker = w

(* A worker is freed exactly when its thread, the heap of the GUI and all  *)
(* notifications are done with it, whatever the order in which they let go *)
(* (worker_free, worker_notify and the three places that count).  A        *)
(* notification that was merged with one under way on GTK has counted a    *)
(* reference that nobody gives back: such a worker is never freed.         *)
FreedWhenUnused ==
    \A w \in Worker : thread[w] # "none" =>
        (refcnt[w] = 0 <=> ~InUse(w) /\ merged[w] = 0)

(* When the GUI lets go of the handle and of the data of the callback (the *)
(* end of worker_notify_func), the worker has ended and no message of it   *)
(* is left: no later notification calls a callback whose data is gone.     *)
NothingLeftBehind ==
    \A w \in Worker : ~rooted[w] =>
        output[w] = 0 /\ (finished[w] \/ thread[w] \in {"none", "done"})

(* The GUI thread waits in worker_send for a worker that will not receive: *)
(* it has ended, it waits itself for room that only the GUI thread makes,  *)
(* on GTK it has something to announce and the GUI thread, inside a        *)
(* callback, holds global_mutex, or on Windows one of the two has taken    *)
(* the event that was set for the other while that one was in the gap.     *)
(* Nothing but a timeout ends these waits.                                 *)
GuiStuck ==
    \E w \in Worker :
        /\ waitsFor = w
        /\ \/ finished[w] /\ input[w] = MaxMessages
           \/ thread[w] = "room" /\ output[w] = MaxMessages /\ input[w] = MaxMessages
           \/ thread[w] = "notify" /\ polling /\ input[w] = MaxMessages
           \/ platform = "win32" /\ asleep[w] = {"gui", "thread"}

(* Unless the GUI thread is stuck in one of these ways, every message of a *)
(* worker is taken by a notification, even if its own was merged with an   *)
(* earlier one or came while the queue was worked off, and every wait for  *)
(* room ends, on both sides, with one signal for both (worker_send,        *)
(* worker_unlock).                                                         *)
MessagesGetThrough ==
    \A w \in Worker :
        /\ (output[w] > 0) ~> (output[w] = 0 \/ GuiStuck)
        /\ (thread[w] = "room") ~> (thread[w] # "room" \/ GuiStuck)
        /\ (waitsFor = w) ~> (waitsFor # w \/ GuiStuck)
=============================================================================
