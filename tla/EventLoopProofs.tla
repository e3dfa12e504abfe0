---------------------------- MODULE EventLoopProofs ----------------------------
(***************************************************************************)
(* What the threads of the event loop owe each other, for any number of    *)
(* threads, sockets, requests and messages: the poll has one user at a     *)
(* time, a set outlives the notify that locks it, and a heap that sleeps   *)
(* next to an event has walked its list in vain.  And what the loop owes   *)
(* its callers: a callback is called once.                                 *)
(***************************************************************************)
EXTENDS EventLoop, WellFoundedInduction, TLAPS

(* What the proofs look at. *)
watched == <<integrated, heap, poller, signals, missed>>

(* The records have the fields that the code assigns, the flags are flags. *)
Shape ==
    /\ DOMAIN heap = DOMAIN Script
    /\ "pc" \in DOMAIN poller
    /\ integrated \in BOOLEAN /\ foreignProcessed \in BOOLEAN /\ waitMutex \in BOOLEAN
    /\ hasEvents \in BOOLEAN /\ sendingSignal \in BOOLEAN /\ missed \in BOOLEAN
    /\ At("callback") => heap.resume \in Processing \ {"answer"}

(* async_process alone: the heap waits in the poll itself.                 *)
Alone ==
    ~integrated =>
        /\ poller.pc \in {"off", "computing", "polling"}
        /\ poller.pc # "off" => At("waiting")
        /\ heap.pc \notin {"answer", "entering", "awake", "walking", "receiving", "asleep", "leaving"}

(* Integrated, an event is announced once, between LockForeign and the     *)
(* answer, and processed once before it.                                   *)
Handshake ==
    integrated =>
        /\ hasEvents \/ InProcess => poller.pc \in {"signalled", "awaiting"} /\ ~foreignProcessed
        /\ poller.pc \in {"notifying", "signalling"} => ~foreignProcessed
        /\ ~(hasEvents /\ InProcess)

(* The notify knows the mutex of a set exactly while the heap is inside    *)
(* receive, and says so while it uses it.                                  *)
Registered ==
    integrated =>
        /\ waitMutex <=> InReceive
        /\ sendingSignal <=> poller.pc \in {"signalling", "signalled"}
        /\ sendingSignal => waitMutex

(* NotSleptThrough, and the way to sleep. *)
Attentive == hasEvents /\ heap.pc \in {"walking", "asleep"} => missed

(* The inductive invariant. *)
LoopInv == Shape /\ Alone /\ Handshake /\ Registered /\ Attentive

-------------------------------------------------------------------------------
(* At the start the loop has not begun.                                    *)
LEMMA InitLoop == Init => LoopInv
<1> SUFFICES ASSUME Init PROVE LoopInv
  OBVIOUS
<1>1. /\ heap = Script /\ Script.pc = "script"
      /\ poller = [pc |-> IF integrated THEN "computing" ELSE "off", until |-> 0]
      /\ integrated \in BOOLEAN /\ missed = FALSE
      /\ foreignProcessed = FALSE /\ waitMutex = FALSE /\ hasEvents = FALSE /\ sendingSignal = FALSE
  BY DEF Init, Script
<1>2. ~InProcess /\ ~InReceive
  BY <1>1 DEF InProcess, InReceive, Processing, At
<1>3. poller.pc = IF integrated THEN "computing" ELSE "off"
  BY <1>1
<1>4. Shape
  BY <1>1 DEF Shape, At
<1> QED
  BY <1>1, <1>2, <1>3, <1>4 DEF LoopInv, Alone, Handshake, Registered, Attentive, At

(* A step that leaves alone what the invariant looks at. *)
LEMMA Elsewhere ==
    ASSUME LoopInv, UNCHANGED watched
    PROVE  LoopInv'
BY ZenonT(60) DEF watched, signals, LoopInv, Shape, Alone, Handshake, Registered, Attentive, At,
       InProcess, InReceive, Processing

(* The calls of scripts and callbacks. *)
LEMMA ProgramStep ==
    ASSUME LoopInv, Program
    PROVE  LoopInv'
<1>1. CASE \E delay \in Delays : RunLater(delay)
  BY <1>1, Elsewhere DEF RunLater, Ask, watched, signals
<1>2. CASE TakeThread
  <2>1. UNCHANGED <<integrated, poller, signals, missed>>
    BY <1>2 DEF TakeThread, Ask
  <2>2. \E job : heap' = [heap EXCEPT !.handing = job]
    BY <1>2 DEF TakeThread
  <2> QED
    BY ZenonT(60), <2>1, <2>2 DEF signals, LoopInv, Shape, Alone, Handshake, Registered, Attentive, At,
       InProcess, InReceive, Processing, Script
<1>3. CASE \E s \in Socket : Close(s)
  BY <1>3, Elsewhere DEF Close, watched, signals, ghosts
<1>4. CASE \E s \in Socket : StartRead(s) \/ StartWrite(s)
  BY <1>4, Elsewhere DEF StartRead, StartWrite, StartOperation, Ask, watched, signals
<1>5. CASE AsyncQuit
  BY <1>5, Elsewhere DEF AsyncQuit, watched, signals, ghosts
<1> QED
  BY <1>1, <1>2, <1>3, <1>4, <1>5 DEF Program

(* The start and the end of the wait for events. *)
LEMMA EnterStep ==
    ASSUME LoopInv, ComeBack \/ LookIn
    PROVE  LoopInv'
<1>1. CASE \E timed \in BOOLEAN : AsyncProcess(timed)
  BY <1>1 DEF LoopInv, Shape, Alone, Handshake, Registered, Attentive, At,
         InProcess, InReceive, Processing, Script, signals,
         AsyncProcess, ghosts
<1>2. CASE \E timed \in BOOLEAN : Receive(timed)
  BY <1>2 DEF LoopInv, Shape, Alone, Handshake, Registered, Attentive, At,
         InProcess, InReceive, Processing, Script, signals,
         Receive, ghosts
<1> QED
  BY <1>1, <1>2 DEF ComeBack, LookIn

(* process_events, receive and the callbacks. *)
LEMMA HeapStep ==
    ASSUME LoopInv, HeapSteps
    PROVE  LoopInv'
<1>1. CASE GiveJob
  BY ZenonT(60), <1>1 DEF LoopInv, Shape, Alone, Handshake, Registered, Attentive, At,
         InProcess, InReceive, Processing, Script, signals,
         GiveJob
<1>2. CASE Return
  BY ZenonT(60), <1>2 DEF LoopInv, Shape, Alone, Handshake, Registered, Attentive, At,
         InProcess, InReceive, Processing, Script, signals,
         Return, ghosts
<1>3. CASE DrainPipe
  BY <1>3 DEF LoopInv, Shape, Alone, Handshake, Registered, Attentive, At,
         InProcess, InReceive, Processing, Script, signals,
         DrainPipe, ghosts
<1>4. CASE \E s \in Socket, mode \in Modes : SocketEvent(s, mode)
  <2>1. At("events") /\ DOMAIN heap = DOMAIN Script
    BY <1>4 DEF SocketEvent, LoopInv, Shape
  <2>2. UNCHANGED <<integrated, poller, foreignProcessed, waitMutex, hasEvents, sendingSignal, missed>>
    BY ZenonT(60), <1>4 DEF SocketEvent, Called, signals, ghosts
  <2>3. PICK s \in Socket : \/ heap' = [heap EXCEPT !.pc = "callback", !.resume = "event done", !.socket = s]
                           \/ heap' = [heap EXCEPT !.pc = "event done", !.socket = s]
    BY <1>4 DEF SocketEvent, Callback
  <2>4. /\ DOMAIN heap' = DOMAIN Script
        /\ heap'.pc = "event done" \/ (heap'.pc = "callback" /\ heap'.resume = "event done")
    BY <2>1, <2>3 DEF Script
  <2> QED
    BY <2>1, <2>2, <2>4 DEF LoopInv, Shape, Alone, Handshake, Registered, Attentive, At,
           InProcess, InReceive, Processing
<1>5. CASE EventDone
  BY <1>5 DEF LoopInv, Shape, Alone, Handshake, Registered, Attentive, At,
         InProcess, InReceive, Processing, Script, signals,
         EventDone, ghosts
<1>6. CASE DetachResults
  BY <1>6 DEF LoopInv, Shape, Alone, Handshake, Registered, Attentive, At,
         InProcess, InReceive, Processing, Script, signals,
         DetachResults, ghosts
<1>7. CASE JobDone
  BY <1>7 DEF LoopInv, Shape, Alone, Handshake, Registered, Attentive, At,
         InProcess, InReceive, Processing, Script, signals,
         JobDone, Called
<1>8. CASE ResultsDone
  BY <1>8 DEF LoopInv, Shape, Alone, Handshake, Registered, Attentive, At,
         InProcess, InReceive, Processing, Script, signals,
         ResultsDone, ghosts
<1>9. CASE TimerDue
  BY <1>9 DEF LoopInv, Shape, Alone, Handshake, Registered, Attentive, At,
         InProcess, InReceive, Processing, Script, signals,
         TimerDue, Called
<1>10. CASE TimersDone
  <2>1. At("timers") /\ DOMAIN heap = DOMAIN Script /\ "pc" \in DOMAIN poller
    BY <1>10 DEF TimersDone, LoopInv, Shape
  <2>2. UNCHANGED <<integrated, foreignProcessed, waitMutex, hasEvents, sendingSignal, missed>>
    BY <1>10 DEF TimersDone, signals, ghosts
  <2>3. CASE integrated
    <3>1. heap' = [heap EXCEPT !.pc = "answer"] /\ poller' = poller
      BY <1>10, <2>3 DEF TimersDone, Goto
    <3>2. DOMAIN heap' = DOMAIN Script /\ heap'.pc = "answer"
      BY <2>1, <3>1 DEF Script
    <3> QED
      BY <2>1, <2>2, <2>3, <3>1, <3>2 DEF LoopInv, Shape, Alone, Handshake, Registered, Attentive, At,
           InProcess, InReceive, Processing
  <2>4. CASE ~integrated /\ quit
    <3>1. heap' = Script /\ poller' = poller
      BY <1>10, <2>4 DEF TimersDone
    <3>2. DOMAIN heap' = DOMAIN Script /\ heap'.pc = "script"
      BY <3>1 DEF Script
    <3> QED
      BY <2>1, <2>2, <2>4, <3>1, <3>2 DEF LoopInv, Shape, Alone, Handshake, Registered, Attentive, At,
           InProcess, InReceive, Processing
  <2>5. CASE ~integrated /\ ~quit
    <3>1. heap' = [heap EXCEPT !.pc = "waiting"] /\ poller' = [poller EXCEPT !.pc = "computing"]
      BY <1>10, <2>5 DEF TimersDone, Goto
    <3>2. /\ DOMAIN heap' = DOMAIN Script /\ heap'.pc = "waiting"
          /\ "pc" \in DOMAIN poller' /\ poller'.pc = "computing"
      BY <2>1, <3>1 DEF Script
    <3> QED
      BY <2>1, <2>2, <2>5, <3>2 DEF LoopInv, Shape, Alone, Handshake, Registered, Attentive, At,
           InProcess, InReceive, Processing
  <2> QED
    BY <2>3, <2>4, <2>5
<1>11. CASE Answer
  <2>1. At("answer") /\ DOMAIN heap = DOMAIN Script
    BY <1>11 DEF Answer, LoopInv, Shape
  <2>2. /\ UNCHANGED <<integrated, poller, waitMutex, hasEvents, sendingSignal, missed>>
        /\ foreignProcessed' = TRUE
    BY <1>11 DEF Answer, ghosts
  <2>3. DOMAIN heap' = DOMAIN Script /\ heap'.pc = "walking"
    BY <1>11, <2>1 DEF Answer, Script
  <2> QED
    BY <2>1, <2>2, <2>3 DEF LoopInv, Shape, Alone, Handshake, Registered, Attentive, At,
           InProcess, InReceive, Processing
<1>12. CASE Look
  BY <1>12 DEF LoopInv, Shape, Alone, Handshake, Registered, Attentive, At,
         InProcess, InReceive, Processing, Script, signals,
         Look, ghosts
<1>13. CASE Walk
  BY <1>13 DEF LoopInv, Shape, Alone, Handshake, Registered, Attentive, At,
         InProcess, InReceive, Processing, Script, signals,
         Walk, ghosts
<1>14. CASE TakeMessage
  BY <1>14 DEF LoopInv, Shape, Alone, Handshake, Registered, Attentive, At,
         InProcess, InReceive, Processing, Script, signals,
         TakeMessage, Goto
<1>15. CASE Leave
  BY <1>15 DEF LoopInv, Shape, Alone, Handshake, Registered, Attentive, At,
         InProcess, InReceive, Processing, Script, signals,
         Leave, ghosts
<1> QED
  BY <1>1, <1>2, <1>3, <1>4, <1>5, <1>6, <1>7, <1>8, <1>9, <1>10, <1>11, <1>12, <1>13, <1>14, <1>15 DEF HeapSteps

(* wait_events and the event thread. *)
LEMMA PollerStep ==
    ASSUME LoopInv, PollerSteps
    PROVE  LoopInv'
<1>1. CASE ComputeTimeout
  BY <1>1 DEF LoopInv, Shape, Alone, Handshake, Registered, Attentive, At,
         InProcess, InReceive, Processing, Script, signals,
         ComputeTimeout, ghosts
<1>2. CASE PollWait
  <2>1. poller.pc = "polling" /\ DOMAIN heap = DOMAIN Script
    BY <1>2 DEF PollWait, LoopInv, Shape
  <2>2. UNCHANGED <<integrated, foreignProcessed, waitMutex, hasEvents, sendingSignal, missed>>
    BY <1>2 DEF PollWait, signals, ghosts
  <2>3. CASE integrated
    <3>1. heap' = heap /\ poller' = [pc |-> "locking", until |-> 0]
      BY <1>2, <2>3 DEF PollWait
    <3>2. "pc" \in DOMAIN poller' /\ poller'.pc = "locking"
      BY <3>1
    <3> QED
      BY <2>1, <2>2, <2>3, <3>1, <3>2 DEF LoopInv, Shape, Alone, Handshake, Registered, Attentive, At,
           InProcess, InReceive, Processing
  <2>4. CASE ~integrated
    <3>1. heap' = [heap EXCEPT !.pc = "events"] /\ poller' = [pc |-> "off", until |-> 0]
      BY <1>2, <2>4 DEF PollWait, Goto
    <3>2. /\ DOMAIN heap' = DOMAIN Script /\ heap'.pc = "events"
          /\ "pc" \in DOMAIN poller' /\ poller'.pc = "off"
      BY <2>1, <3>1 DEF Script
    <3> QED
      BY <2>1, <2>2, <2>4, <3>2 DEF LoopInv, Shape, Alone, Handshake, Registered, Attentive, At,
           InProcess, InReceive, Processing
  <2> QED
    BY <2>3, <2>4
<1>3. CASE LockForeign
  BY <1>3 DEF LoopInv, Shape, Alone, Handshake, Registered, Attentive, At,
         InProcess, InReceive, Processing, Script, signals,
         LockForeign, PollerGoto, ghosts
<1>4. CASE Notify
  BY <1>4 DEF LoopInv, Shape, Alone, Handshake, Registered, Attentive, At,
         InProcess, InReceive, Processing, Script, signals,
         Notify, PollerGoto, ghosts
<1>5. CASE Signal
  BY <1>5 DEF LoopInv, Shape, Alone, Handshake, Registered, Attentive, At,
         InProcess, InReceive, Processing, Script, signals,
         Signal, SetMutexFree, WakeReceiver, PollerGoto, ghosts
<1>6. CASE SignalSent
  BY <1>6 DEF LoopInv, Shape, Alone, Handshake, Registered, Attentive, At,
         InProcess, InReceive, Processing, Script, signals,
         SignalSent, PollerGoto, ghosts
<1>7. CASE Processed
  BY <1>7 DEF LoopInv, Shape, Alone, Handshake, Registered, Attentive, At,
         InProcess, InReceive, Processing, Script, signals,
         Processed, PollerGoto, ghosts
<1> QED
  BY <1>1, <1>2, <1>3, <1>4, <1>5, <1>6, <1>7 DEF PollerSteps

(* The threads of the pool, and what happens around the program. *)
LEMMA OuterStep ==
    ASSUME LoopInv, Surroundings \/ Tick \/ \E t \in Thread : ThreadSteps(t)
    PROVE  LoopInv'
<1>1. CASE Tick
  BY <1>1, Elsewhere DEF Tick, ghosts, watched, signals
<1>2. CASE \E t \in Thread : ThreadSteps(t) \/ Expire(t)
  BY <1>2, Elsewhere DEF ThreadSteps, RunFunc, PostResult, ReturnToPool, Expire, ghosts, watched, signals
<1>3. CASE \E s \in Socket : PeerSends(s)
  BY <1>3, Elsewhere DEF PeerSends, ghosts, watched, signals
<1>4. CASE Withdraw
  BY <1>4, Elsewhere DEF Withdraw, ghosts, watched, signals
<1>5. CASE WakeSpuriously
  BY <1>5 DEF LoopInv, Shape, Alone, Handshake, Registered, Attentive, At,
         InProcess, InReceive, Processing, Script, signals,
         WakeSpuriously, Goto, ghosts
<1>6. CASE TimeOut
  BY <1>6 DEF LoopInv, Shape, Alone, Handshake, Registered, Attentive, At,
         InProcess, InReceive, Processing, Script, signals,
         TimeOut, Goto, ghosts
<1>7. CASE AddFails
  BY <1>7 DEF LoopInv, Shape, Alone, Handshake, Registered, Attentive, At,
         InProcess, InReceive, Processing, Script, signals,
         AddFails
<1>8. CASE Offer
  BY <1>8 DEF LoopInv, Shape, Alone, Handshake, Registered, Attentive, At,
         InProcess, InReceive, Processing, Script, signals,
         Offer, WakeReceiver, ghosts
<1> QED
  BY <1>1, <1>2, <1>3, <1>4, <1>5, <1>6, <1>7, <1>8 DEF Surroundings

(* The invariant of the event loop: who is in process, who waits on a      *)
(* handshake, and what is registered then.                                 *)
THEOREM LoopInvariant == Spec => []LoopInv
<1>1. ASSUME LoopInv, [Next]_vars PROVE LoopInv'
  <2>1. CASE UNCHANGED vars
    BY <1>1, <2>1, Elsewhere DEF vars, watched, ghosts
  <2> QED
    BY <1>1, <2>1, ProgramStep, EnterStep, HeapStep, PollerStep, OuterStep DEF Next
<1> QED
  BY <1>1, InitLoop, PTL DEF Spec

-------------------------------------------------------------------------------
(* The poll has one user at a time, without a mutex (event_thread and      *)
(* fixio_process_events).                                                  *)
THEOREM PollHasOneUser == Spec => []OneThreadInPoll
<1>1. LoopInv => OneThreadInPoll
  BY DEF LoopInv, Alone, Handshake, OneThreadInPoll, InProcess, Processing, At
<1> QED
  BY <1>1, LoopInvariant, PTL

(* A set is not freed under a notify that uses its mutex: the heap is      *)
(* still in receive (channel_set_loop_notify, channel_set_receive).        *)
THEOREM SetIsThere == Spec => []SetOutlivesNotify
<1>1. LoopInv => SetOutlivesNotify
  BY DEF LoopInv, Shape, Alone, Registered, SetOutlivesNotify
<1> QED
  BY <1>1, LoopInvariant, PTL

(* The heap sleeps next to an event only after it has walked its list in   *)
(* vain (channel_set_receive, channel_set_loop_notify).                    *)
THEOREM EventsWakeTheHeap == Spec => []NotSleptThrough
<1>1. LoopInv => NotSleptThrough
  BY DEF LoopInv, Attentive, NotSleptThrough, At
<1> QED
  BY <1>1, LoopInvariant, PTL

-------------------------------------------------------------------------------
(* Where the requests are. *)
InTimers == {timers[i].request : i \in DOMAIN timers}
InResults == {results[i] : i \in DOMAIN results}
InTaken == {heap.taken[i] : i \in DOMAIN heap.taken}
InHand == IF heap.handing = <<>> THEN {} ELSE {heap.handing[2]}
Live(t) == thread[t] \in {"waiting", "running"}
WithThread == {n \in Request : \E t \in Thread : Live(t) /\ func[t] = n}
OnSocket == {n \in Request : \E s \in Socket, mode \in Modes : active[s][mode] = n}
Over == {n \in Request : called[n] # 0} \cup dropped

(* The types of what holds requests. *)
Timer == [request : Request, immediate : BOOLEAN, time : Nat]
ThreadPlaces == {None, "waiting", "running", "done", "ended"}
Kinds == {"timer", "connection"} \cup Modes
HolderTypes ==
    /\ clock \in Nat
    /\ timers \in Seq(Timer) /\ results \in Seq(Request) /\ heap.taken \in Seq(Request)
    /\ heap.handing = <<>> \/ \E t \in Thread, n \in Request : heap.handing = <<t, n>>
    /\ pool \in Seq(Thread) /\ thread \in [Thread -> ThreadPlaces]
    /\ func \in [Thread -> {0} \cup Request]
    /\ active \in [Socket -> [Modes -> {0} \cup Request]]
    /\ asked \in Seq(Kinds) /\ Len(asked) <= MaxRequests
    /\ called \in [Request -> Nat] /\ dropped \in SUBSET Request

(* A thread without a job is in the pool, is being handed one, has never   *)
(* been started or has ended; it is in one of these places.  One that runs *)
(* has a job.                                                              *)
Idle(t) == thread[t] \in {"waiting", "ended"} /\ func[t] = 0
PoolIsIdle ==
    /\ \A i \in DOMAIN pool : Idle(pool[i])
    /\ \A i, j \in DOMAIN pool : pool[i] = pool[j] => i = j
    /\ heap.handing # <<>> =>
          Idle(heap.handing[1]) /\ \A i \in DOMAIN pool : pool[i] # heap.handing[1]
    /\ \A t \in Thread : (thread[t] = None => func[t] = 0) /\ (thread[t] = "running" => func[t] # 0)

(* The heap detaches results only to work them off, and hands over a job   *)
(* before it does anything else.                                           *)
OneThingAtATime ==
    /\ heap.taken # <<>> => At("results") \/ (At("callback") /\ heap.resume = "results")
    /\ heap.handing # <<>> => heap.pc \in {"script", "callback"}

(* No holder has a request twice ... *)
HeldOnce ==
    /\ \A i, j \in DOMAIN timers : timers[i].request = timers[j].request => i = j
    /\ \A i, j \in DOMAIN results : results[i] = results[j] => i = j
    /\ \A i, j \in DOMAIN heap.taken : heap.taken[i] = heap.taken[j] => i = j
    /\ \A t, u \in Thread : Live(t) /\ Live(u) /\ func[t] # 0 /\ func[t] = func[u] => t = u
    /\ \A s, r \in Socket, m, k \in Modes :
          active[s][m] # 0 /\ active[s][m] = active[r][k] => s = r /\ m = k

(* ... and no two holders have the same one, nor one not yet made.         *)
Held == [timers |-> InTimers, results |-> InResults, taken |-> InTaken, handing |-> InHand,
         threads |-> WithThread, sockets |-> OnSocket, over |-> Over]
Apart(F, P, k) ==
    /\ \A p, q \in P : p # q => F[p] \cap F[q] = {}
    /\ \A p \in P : \A n \in F[p] : n \in 1 .. k
HeldApart == Apart(Held, DOMAIN Held, Len(asked))

RequestInv ==
    HolderTypes /\ PoolIsIdle /\ OneThingAtATime /\ HeldOnce /\ HeldApart /\ CalledOnce

-------------------------------------------------------------------------------
(* A sequence with one more element. *)
LEMMA Inserted ==
    ASSUME NEW S, NEW s \in Seq(S), NEW e \in S, NEW k \in 1 .. Len(s) + 1
    PROVE  /\ InsertAt(s, k, e) \in Seq(S) /\ Len(InsertAt(s, k, e)) = Len(s) + 1
           /\ \A j \in 1 .. Len(s) + 1 :
                 InsertAt(s, k, e)[j] = IF j < k THEN s[j] ELSE IF j = k THEN e ELSE s[j - 1]
<1>1. Len(s) \in Nat /\ k \in Nat /\ k >= 1 /\ k <= Len(s) + 1
  OBVIOUS
<1>2. /\ SubSeq(s, 1, k - 1) \in Seq(S) /\ Len(SubSeq(s, 1, k - 1)) = k - 1
      /\ \A j \in 1 .. k - 1 : SubSeq(s, 1, k - 1)[j] = s[j]
  BY <1>1
<1>3. /\ SubSeq(s, k, Len(s)) \in Seq(S) /\ Len(SubSeq(s, k, Len(s))) = Len(s) - k + 1
      /\ \A j \in 1 .. Len(s) - k + 1 : SubSeq(s, k, Len(s))[j] = s[k + j - 1]
  BY <1>1
<1> DEFINE a == SubSeq(s, 1, k - 1)
           b == SubSeq(s, k, Len(s))
<1>4. InsertAt(s, k, e) = a \o <<e>> \o b
  BY DEF InsertAt
<1> HIDE DEF a, b
<1>5. /\ a \o <<e>> \in Seq(S) /\ Len(a \o <<e>>) = k
      /\ \A j \in 1 .. k : (a \o <<e>>)[j] = IF j < k THEN s[j] ELSE e
  <2>1. a \in Seq(S) /\ Len(a) = k - 1 /\ \A j \in 1 .. k - 1 : a[j] = s[j]
    BY <1>2 DEF a
  <2>2. /\ a \o <<e>> = Append(a, e) /\ Append(a, e) \in Seq(S) /\ Len(Append(a, e)) = Len(a) + 1
        /\ \A j \in 1 .. Len(a) + 1 : Append(a, e)[j] = IF j <= Len(a) THEN a[j] ELSE e
    BY <2>1
  <2>3. Len(a) + 1 = k /\ \A j \in 1 .. k : (j <= Len(a) <=> j < k) /\ (j < k => j \in 1 .. k - 1)
    BY <1>1, <2>1
  <2>4. \A j \in 1 .. k : Append(a, e)[j] = IF j < k THEN s[j] ELSE e
    BY <2>1, <2>2, <2>3
  <2> QED
    BY <2>2, <2>3, <2>4
<1>6. /\ InsertAt(s, k, e) \in Seq(S) /\ Len(InsertAt(s, k, e)) = Len(s) + 1
  <2>1. \A c \in Seq(S), d \in Seq(S) : c \o d \in Seq(S) /\ Len(c \o d) = Len(c) + Len(d)
    OBVIOUS
  <2>2. b \in Seq(S) /\ Len(b) = Len(s) - k + 1
    BY <1>3 DEF b
  <2>3. /\ InsertAt(s, k, e) \in Seq(S)
        /\ Len(InsertAt(s, k, e)) = Len(a \o <<e>>) + Len(b)
    BY <1>4, <1>5, <2>1, <2>2, Zenon
  <2>4. k + (Len(s) - k + 1) = Len(s) + 1
    BY <1>1
  <2> QED
    BY <1>5, <2>2, <2>3, <2>4, Zenon
<1>7. ASSUME NEW j \in 1 .. Len(s) + 1
      PROVE  InsertAt(s, k, e)[j] = IF j < k THEN s[j] ELSE IF j = k THEN e ELSE s[j - 1]
  <2>1. CASE j <= k
    BY <1>1, <1>3, <1>4, <1>5, <2>1 DEF b
  <2>2. CASE j > k
    <3>1. j - k \in 1 .. Len(s) - k + 1 /\ k + (j - k) - 1 = j - 1
      BY <1>1, <2>2
    <3>2. InsertAt(s, k, e)[j] = b[j - k]
      BY SMTT(40), <1>1, <1>3, <1>4, <1>5, <2>2 DEF b
    <3> QED
      BY <1>1, <1>3, <2>2, <3>1, <3>2 DEF b
  <2> QED
    BY <1>1, <2>1, <2>2
<1> QED
  BY <1>6, <1>7

(* One that is put in front of a list.                                      *)
LEMMA Pushed ==
    ASSUME NEW S, NEW s \in Seq(S), NEW e \in S
    PROVE  /\ <<e>> \o s \in Seq(S) /\ Len(<<e>> \o s) = Len(s) + 1
           /\ \A j \in 1 .. Len(s) + 1 : (<<e>> \o s)[j] = IF j = 1 THEN e ELSE s[j - 1]
OBVIOUS

(* A list without its first.                                               *)
LEMMA Popped ==
    ASSUME NEW S, NEW s \in Seq(S), s # <<>>
    PROVE  /\ Tail(s) \in Seq(S) /\ Len(Tail(s)) = Len(s) - 1 /\ Head(s) = s[1] /\ Head(s) \in S
           /\ Len(s) >= 1
           /\ \A j \in 1 .. Len(s) - 1 : Tail(s)[j] = s[j + 1]
OBVIOUS

(* A set of numbers has a smallest.                                         *)
LEMMA Smallest ==
    ASSUME NEW T \in SUBSET Nat, T # {}
    PROVE  \E x \in T : \A y \in T : x <= y
<1> DEFINE R == {p \in Nat \X Nat : p[1] < p[2]}
<1>1. IsWellFoundedOn(R, Nat)
  BY NatLessThanWellFounded DEF OpToRel
<1>2. PICK x \in T : \A y \in T : ~(<<y, x>> \in R)
  <2> HIDE DEF R
  <2> QED BY <1>1, WFMin
<1>3. \A y \in T : <<y, x>> \in Nat \X Nat /\ ~(y < x)
  BY <1>2
<1>4. ASSUME NEW y \in T PROVE x <= y
  <2>1. x \in Nat /\ y \in Nat
    OBVIOUS
  <2>2. ~(y < x)
    BY <1>3
  <2> QED
    BY <2>1, <2>2
<1> QED
  BY <1>4

(* The place of a timer is one of its list, or the end. *)
LEMMA PlaceInList ==
    ASSUME HolderTypes, NEW time \in Nat
    PROVE  Place(time) \in 1 .. Len(timers) + 1
<1> DEFINE later == {i \in DOMAIN timers : ~timers[i].immediate /\ time <= timers[i].time}
<1>1. later \in SUBSET Nat /\ Len(timers) \in Nat /\ later \subseteq 1 .. Len(timers)
  BY DEF HolderTypes
<1>2. Place(time) = IF later = {} THEN Len(timers) + 1 ELSE CHOOSE i \in later : \A j \in later : i <= j
  BY DEF Place
<1> HIDE DEF later
<1>3. CASE later = {}
  BY <1>1, <1>2, <1>3
<1>4. CASE later # {}
  <2>1. \E i \in later : \A j \in later : i <= j
    BY <1>1, <1>4, Smallest
  <2>2. (CHOOSE i \in later : \A j \in later : i <= j) \in later
    BY <2>1, Zenon
  <2>3. Place(time) \in later
    BY <1>2, <1>4, <2>2
  <2> QED
    <3>1. \A i \in later : i \in 1 .. Len(timers)
      BY <1>1
    <3>2. Place(time) \in 1 .. Len(timers)
      BY <2>3, <3>1, Zenon
    <3>3. \A i \in 1 .. Len(timers) : i \in 1 .. Len(timers) + 1
      BY <1>1
    <3> QED
      BY <3>2, <3>3, Zenon
<1> QED
  BY <1>3, <1>4

(* What goes from holder to holder keeps them apart. *)
LEMMA Moved ==
    ASSUME NEW P, NEW F, NEW G, NEW k \in Nat, NEW m \in Nat, k <= m, Apart(F, P, k),
           NEW M \in SUBSET (1 .. m), NEW to \in P,
           \A p \in P : p # to => G[p] \subseteq F[p] \ M,
           G[to] \subseteq F[to] \cup M
    PROVE  Apart(G, P, m)
<1>1. \A p \in P : \A n \in G[p] : n \in 1 .. m
  <2> TAKE p \in P
  <2> TAKE n \in G[p]
  <2>1. n \in M \/ n \in F[p]
    OBVIOUS
  <2>2. \A i \in 1 .. k : i \in 1 .. m
    OBVIOUS
  <2> QED
    BY <2>1, <2>2 DEF Apart
<1>2. \A p, q \in P : p # q => G[p] \cap G[q] = {}
  BY DEF Apart
<1> QED
  BY <1>1, <1>2 DEF Apart

(* A new request gets a holder. *)
LEMMA Made ==
    ASSUME HolderTypes, HeldApart, NEW to \in DOMAIN Held, Len(asked') = Len(asked) + 1,
           \A p \in DOMAIN Held : p # to => Held'[p] \subseteq Held[p],
           Held'[to] \subseteq Held[to] \cup {This}
    PROVE  HeldApart' /\ \A p \in DOMAIN Held : This \notin Held[p]
<1>1. Len(asked) \in Nat /\ Len(asked') \in Nat /\ Len(asked) <= Len(asked')
  BY DEF HolderTypes
<1>2. {This} \in SUBSET (1 .. Len(asked')) /\ ~(This \in 1 .. Len(asked))
  BY <1>1 DEF This
<1>3. Apart(Held, DOMAIN Held, Len(asked)) /\ DOMAIN Held' = DOMAIN Held
  BY DEF HeldApart, Held
<1>4. \A p \in DOMAIN Held : This \notin Held[p]
  BY <1>2, <1>3, Zenon DEF Apart
<1>5. \A p \in DOMAIN Held : p # to => Held'[p] \subseteq Held[p] \ {This}
  BY <1>4
<1>6. Apart(Held', DOMAIN Held, Len(asked'))
  BY <1>1, <1>2, <1>3, <1>5, Moved
<1> QED
  BY <1>3, <1>4, <1>6 DEF HeldApart

(* Requests go from one holder to another. *)
LEMMA Passed ==
    ASSUME HolderTypes, HeldApart, NEW from \in DOMAIN Held, NEW to \in DOMAIN Held, from # to,
           asked' = asked, NEW M \in SUBSET Held[from],
           \A p \in DOMAIN Held : p \notin {from, to} => Held'[p] \subseteq Held[p],
           Held'[from] \subseteq Held[from] \ M,
           Held'[to] \subseteq Held[to] \cup M
    PROVE  HeldApart'
<1>1. Len(asked) \in Nat /\ Len(asked) <= Len(asked)
  BY DEF HolderTypes
<1>2. Apart(Held, DOMAIN Held, Len(asked)) /\ DOMAIN Held' = DOMAIN Held
  BY DEF HeldApart, Held
<1>3. M \in SUBSET (1 .. Len(asked)) /\ \A p \in DOMAIN Held : p # from => Held[p] \cap M = {}
  BY <1>2 DEF Apart
<1>4. \A p \in DOMAIN Held : p # to => Held'[p] \subseteq Held[p] \ M
  BY <1>3
<1>5. Apart(Held', DOMAIN Held, Len(asked))
  BY <1>1, <1>2, <1>3, <1>4, Moved
<1> QED
  BY <1>2, <1>5 DEF HeldApart

(* A step that leaves the holders alone. *)
LEMMA Resting ==
    ASSUME RequestInv, UNCHANGED <<timers, results, pool, thread, func, active, asked, called, dropped>>,
           heap'.taken = heap.taken, heap'.handing = heap.handing, clock' \in Nat, OneThingAtATime'
    PROVE  RequestInv'
<1>1. HolderTypes'
  BY DEF RequestInv, HolderTypes
<1>2. PoolIsIdle'
  BY DEF RequestInv, PoolIsIdle, Idle
<1>3. HeldOnce'
  BY DEF RequestInv, HeldOnce, Live
<1>4. Held' = Held
  BY DEF Held, InTimers, InResults, InTaken, InHand, WithThread, Live, OnSocket, Over
<1>5. HeldApart'
  BY <1>4 DEF RequestInv, HeldApart
<1>6. CalledOnce'
  BY DEF RequestInv, CalledOnce
<1> QED
  BY <1>1, <1>2, <1>3, <1>5, <1>6 DEF RequestInv

(* Steps of the program and of process_events that move no request. *)
LEMMA QuietStep ==
    ASSUME LoopInv, RequestInv,
           \/ \E s \in Socket : Close(s) \/ PeerSends(s)
           \/ AsyncQuit \/ Return \/ DrainPipe \/ EventDone \/ ResultsDone \/ TimersDone \/ Answer
           \/ ComeBack \/ LookIn \/ Look \/ Walk \/ TakeMessage \/ WakeSpuriously \/ TimeOut \/ Leave
           \/ PollerSteps \/ Offer \/ Withdraw \/ Tick
    PROVE  RequestInv'
<1>0. /\ DOMAIN heap = DOMAIN Script /\ clock \in Nat /\ OneThingAtATime
      /\ heap.taken \in Seq(Request)
  BY DEF LoopInv, Shape, RequestInv, HolderTypes
<1>1. CASE (\E s \in Socket : Close(s) \/ PeerSends(s)) \/ AsyncQuit \/ DrainPipe \/ Withdraw
  <2>1. UNCHANGED <<timers, results, pool, thread, func, active, asked, called, dropped, heap, clock>>
    BY <1>1 DEF Close, PeerSends, AsyncQuit, DrainPipe, Withdraw, queues, workers, files, ghosts
  <2> QED
    BY <1>0, <2>1, Resting DEF OneThingAtATime, At
<1>2. CASE Tick
  <2>1. UNCHANGED <<timers, results, pool, thread, func, active, asked, called, dropped, heap>> /\ clock' = clock + 1
    BY <1>2 DEF Tick, queues, workers, files, ghosts
  <2> QED
    BY <1>0, <2>1, Resting DEF OneThingAtATime, At
<1>3. CASE \/ Return \/ EventDone \/ ResultsDone \/ TimersDone \/ Answer
           \/ ComeBack \/ LookIn \/ Look \/ Walk \/ TakeMessage \/ WakeSpuriously \/ TimeOut \/ Leave
           \/ PollerSteps \/ Offer
  <2>1. UNCHANGED <<timers, results, pool, thread, func, active, asked, called, dropped, clock>>
    BY <1>3 DEF Return, EventDone, ResultsDone, TimersDone, Answer, ComeBack, LookIn, AsyncProcess, Receive,
           Look, Walk, TakeMessage, WakeSpuriously, TimeOut, Leave, PollerSteps, ComputeTimeout, PollWait,
           LockForeign, Notify, Signal, SignalSent, Processed, Offer, queues, workers, files, ghosts
  <2>2. CASE Return \/ EventDone \/ ResultsDone \/ Answer
    <3>1. heap'.taken = heap.taken /\ heap'.handing = heap.handing
      BY <1>0, <2>2 DEF Return, EventDone, ResultsDone, Answer, Script
    <3>2. OneThingAtATime'
      BY <1>0, <2>2, <3>1 DEF Return, EventDone, ResultsDone, Answer, OneThingAtATime, At, Script
    <3> QED
      BY <1>0, <2>1, <3>1, <3>2, Resting
  <2>3. CASE TimersDone \/ Leave
    <3>1. heap.taken = <<>> /\ heap.handing = <<>>
      BY <1>0, <2>3 DEF TimersDone, Leave, OneThingAtATime, At
    <3>2. heap'.taken = <<>> /\ heap'.handing = <<>>
      BY <1>0, <2>3, <3>1 DEF TimersDone, Leave, Goto, Script
    <3>3. OneThingAtATime'
      BY <3>2 DEF OneThingAtATime
    <3> QED
      BY <1>0, <2>1, <3>1, <3>2, <3>3, Resting
  <2>4. CASE ComeBack \/ LookIn \/ Look \/ Walk \/ TakeMessage \/ WakeSpuriously \/ TimeOut
    <3>1. heap.taken = <<>> /\ heap.handing = <<>>
      BY <1>0, <2>4 DEF ComeBack, LookIn, AsyncProcess, Receive, Look, Walk, TakeMessage, WakeSpuriously,
             TimeOut, OneThingAtATime, At
    <3>2. heap'.taken = <<>> /\ heap'.handing = <<>>
      BY <1>0, <2>4, <3>1 DEF ComeBack, LookIn, AsyncProcess, Receive, Look, Walk, TakeMessage, WakeSpuriously,
             TimeOut, Goto, Script
    <3>3. OneThingAtATime'
      BY <3>2 DEF OneThingAtATime
    <3> QED
      BY <1>0, <2>1, <3>1, <3>2, <3>3, Resting
  <2>5. CASE PollWait
    <3>1. heap' = heap \/ (heap' = [heap EXCEPT !.pc = "events"] /\ At("waiting"))
      BY <2>5 DEF PollWait, Goto, LoopInv, Alone
    <3>2. heap'.taken = heap.taken /\ heap'.handing = heap.handing /\ OneThingAtATime'
      BY <1>0, <3>1 DEF OneThingAtATime, At, Script
    <3> QED
      BY <1>0, <2>1, <3>2, Resting
  <2>6. CASE ComputeTimeout \/ LockForeign \/ Notify \/ SignalSent \/ Processed \/ Signal \/ Offer
    <3>1. heap' = heap \/ (heap' = [heap EXCEPT !.pc = "awake"] /\ At("asleep"))
      BY <2>6 DEF ComputeTimeout, LockForeign, Notify, SignalSent, Processed, Signal, Offer, WakeReceiver
    <3>2. heap'.taken = heap.taken /\ heap'.handing = heap.handing /\ OneThingAtATime'
      BY <1>0, <3>1 DEF OneThingAtATime, At, Script
    <3> QED
      BY <1>0, <2>1, <3>2, Resting
  <2> QED
    BY <1>3, <2>2, <2>3, <2>4, <2>5, <2>6 DEF PollerSteps
<1> QED
  BY <1>1, <1>2, <1>3

(* A thread goes on without its request leaving it. *)
LEMMA ThreadStays ==
    ASSUME RequestInv, NEW t \in Thread, RunFunc(t) \/ ReturnToPool(t) \/ Expire(t)
    PROVE  RequestInv'
<1>0. /\ HolderTypes /\ PoolIsIdle /\ OneThingAtATime /\ HeldOnce /\ HeldApart /\ CalledOnce
  BY DEF RequestInv
<1>1. UNCHANGED <<timers, results, active, asked, called, dropped, clock, heap>>
  BY DEF RunFunc, ReturnToPool, Expire, queues, files, ghosts
<1>2. thread \in [Thread -> ThreadPlaces] /\ func \in [Thread -> {0} \cup Request] /\ pool \in Seq(Thread)
  BY <1>0 DEF HolderTypes
<1>3. PICK place \in {"running", "waiting", "ended"} : thread' = [thread EXCEPT ![t] = place]
  BY DEF RunFunc, ReturnToPool, Expire
<1>4. \A u \in Thread : thread'[u] = IF u = t THEN place ELSE thread[u]
  BY <1>2, <1>3
<1>5. \A u \in Thread : func'[u] = IF u = t /\ thread[t] = "done" THEN 0 ELSE func[u]
  BY <1>2 DEF RunFunc, ReturnToPool, Expire
<1>6. \A u \in Thread : Live(u)' /\ func'[u] # 0 => Live(u) /\ func'[u] = func[u]
  BY <1>2, <1>4, <1>5 DEF RunFunc, ReturnToPool, Expire, Live
<1>7. HolderTypes'
  <2>1. thread' \in [Thread -> ThreadPlaces]
    BY <1>2, <1>3 DEF ThreadPlaces
  <2>2. func' \in [Thread -> {0} \cup Request]
    BY <1>2 DEF RunFunc, ReturnToPool, Expire
  <2>3. pool' \in Seq(Thread)
    BY SMTT(40), <1>2, Pushed DEF RunFunc, ReturnToPool, Expire
  <2> QED
    BY <1>0, <1>1, <2>1, <2>2, <2>3 DEF HolderTypes
<1>8. PoolIsIdle'
  <2>1. CASE RunFunc(t)
    <3>1. /\ pool' = pool /\ func' = func /\ place = "running"
          /\ thread[t] = "waiting" /\ func[t] # 0
      BY <1>2, <1>3, <2>1 DEF RunFunc
    <3>2. /\ \A i \in DOMAIN pool : pool[i] \in Thread
          /\ heap.handing # <<>> => heap.handing[1] \in Thread
      BY <1>0 DEF HolderTypes
    <3> QED
      BY <1>0, <1>1, <1>4, <3>1, <3>2 DEF PoolIsIdle, Idle, None
  <2>2. CASE Expire(t)
    <3>1. /\ pool' = pool /\ func' = func /\ place = "ended"
          /\ thread[t] = "waiting" /\ func[t] = 0
      BY <1>2, <1>3, <2>2 DEF Expire
    <3>2. /\ \A i \in DOMAIN pool : pool[i] \in Thread
          /\ heap.handing # <<>> => heap.handing[1] \in Thread
      BY <1>0 DEF HolderTypes
    <3> QED
      BY <1>0, <1>1, <1>4, <3>1, <3>2 DEF PoolIsIdle, Idle, None
  <2>3. CASE ReturnToPool(t)
    <3>1. thread[t] = "done" /\ place = "waiting" /\ pool' = <<t>> \o pool
      BY <1>2, <1>3, <2>3 DEF ReturnToPool
    <3>2. /\ \A i \in DOMAIN pool : Idle(pool[i]) /\ pool[i] # t /\ pool[i] \in Thread
          /\ heap.handing # <<>> => Idle(heap.handing[1]) /\ heap.handing[1] # t /\ heap.handing[1] \in Thread
      BY <1>0, <1>2, <3>1 DEF PoolIsIdle, Idle, HolderTypes
    <3>3. \A u \in Thread : Idle(u) => Idle(u)'
      BY <1>4, <1>5, <3>1 DEF Idle
    <3>4. Idle(t)'
      BY <1>4, <1>5, <3>1 DEF Idle
    <3>5. /\ Len(pool') = Len(pool) + 1 /\ pool' \in Seq(Thread) /\ Len(pool) \in Nat
          /\ \A j \in 1 .. Len(pool) + 1 : pool'[j] = IF j = 1 THEN t ELSE pool[j - 1]
      BY <1>2, <3>1, Pushed
    <3>6. \A j \in DOMAIN pool' : j \in 1 .. Len(pool) + 1 /\ (j # 1 => j - 1 \in DOMAIN pool)
      BY <1>2, <3>5
    <3>7. \A j \in DOMAIN pool' : thread'[pool'[j]] \in {"waiting", "ended"} /\ func'[pool'[j]] = 0
      BY <3>2, <3>3, <3>4, <3>5, <3>6 DEF Idle
    <3>8. \A i, j \in DOMAIN pool' : pool'[i] = pool'[j] => i = j
      <4> SUFFICES ASSUME NEW i \in DOMAIN pool', NEW j \in DOMAIN pool', pool'[i] = pool'[j] PROVE i = j
        OBVIOUS
      <4>1. i \in Int /\ j \in Int
        BY <3>5, <3>6
      <4>2. i = 1 <=> j = 1
        BY <3>2, <3>5, <3>6
      <4>3. i # 1 => pool[i - 1] = pool[j - 1]
        BY <3>5, <3>6, <4>2
      <4>4. i # 1 => i - 1 = j - 1
        BY <1>0, <3>6, <4>2, <4>3 DEF PoolIsIdle
      <4> QED
        BY <4>1, <4>2, <4>4
    <3>9. heap.handing # <<>> =>
             /\ thread'[heap.handing[1]] \in {"waiting", "ended"} /\ func'[heap.handing[1]] = 0
             /\ \A j \in DOMAIN pool' : pool'[j] # heap.handing[1]
      BY SMTT(40), <1>0, <3>2, <3>3, <3>5, <3>6 DEF PoolIsIdle, Idle
    <3>10. \A u \in Thread : (thread'[u] = None => func'[u] = 0) /\ (thread'[u] = "running" => func'[u] # 0)
      BY <1>0, <1>4, <1>5, <3>1 DEF PoolIsIdle, None
    <3> QED
      BY <1>1, <3>7, <3>8, <3>9, <3>10 DEF PoolIsIdle, Idle
  <2> QED
    BY <2>1, <2>2, <2>3
<1>9. OneThingAtATime'
  BY <1>0, <1>1 DEF OneThingAtATime, At
<1>10. HeldOnce'
  BY <1>0, <1>1, <1>6 DEF HeldOnce
<1>11. HeldApart'
  <2>1. WithThread' \subseteq WithThread
    BY <1>6 DEF WithThread, Request
  <2>2. /\ InTimers' = InTimers /\ InResults' = InResults /\ InTaken' = InTaken /\ InHand' = InHand
        /\ OnSocket' = OnSocket /\ Over' = Over /\ asked' = asked
    BY <1>1 DEF InTimers, InResults, InTaken, InHand, OnSocket, Over
  <2> QED
    BY <1>0, <2>1, <2>2 DEF HeldApart, Held, Apart
<1>12. CalledOnce'
  BY <1>0, <1>1 DEF CalledOnce
<1> QED
  BY <1>7, <1>8, <1>9, <1>10, <1>11, <1>12 DEF RequestInv

(* The request of a thread becomes a result. *)
LEMMA PostStep ==
    ASSUME RequestInv, NEW t \in Thread, PostResult(t)
    PROVE  RequestInv'
<1>0. /\ HolderTypes /\ PoolIsIdle /\ OneThingAtATime /\ HeldOnce /\ HeldApart /\ CalledOnce
  BY DEF RequestInv
<1>1. UNCHANGED <<timers, pool, func, active, asked, called, dropped, clock, heap>>
  BY DEF PostResult, files, ghosts
<1>2. thread \in [Thread -> ThreadPlaces] /\ func \in [Thread -> {0} \cup Request] /\ results \in Seq(Request)
  BY <1>0 DEF HolderTypes
<1>3. thread[t] = "running" /\ thread' = [thread EXCEPT ![t] = "done"] /\ results' = <<func[t]>> \o results
  BY DEF PostResult
<1>4. /\ thread' \in [Thread -> ThreadPlaces]
      /\ \A u \in Thread : thread'[u] = IF u = t THEN "done" ELSE thread[u]
  BY <1>2, <1>3 DEF ThreadPlaces
<1>5. func[t] \in Request /\ func[t] # 0
  BY <1>0, <1>2, <1>3 DEF PoolIsIdle
<1>6. /\ results' \in Seq(Request) /\ Len(results') = Len(results) + 1 /\ Len(results) \in Nat
      /\ \A j \in 1 .. Len(results) + 1 : results'[j] = IF j = 1 THEN func[t] ELSE results[j - 1]
  BY <1>2, <1>3, <1>5, Pushed
<1>7. \A j \in DOMAIN results' : j \in 1 .. Len(results) + 1 /\ (j # 1 => j - 1 \in DOMAIN results)
  BY <1>2, <1>6
<1>8. HolderTypes'
  BY <1>0, <1>1, <1>4, <1>6 DEF HolderTypes
<1>9. PoolIsIdle'
  <2>1. /\ \A i \in DOMAIN pool : pool[i] \in Thread
        /\ heap.handing # <<>> => heap.handing[1] \in Thread
    BY <1>0 DEF HolderTypes
  <2> QED
    BY <1>0, <1>1, <1>3, <1>4, <2>1 DEF PoolIsIdle, Idle, None
<1>10. OneThingAtATime'
  BY <1>0, <1>1 DEF OneThingAtATime, At
<1>11. func[t] \in WithThread /\ func[t] \notin InResults
  <2>1. func[t] \in WithThread
    BY <1>3, <1>5 DEF WithThread, Live
  <2>2. WithThread \cap InResults = {}
    BY <1>0 DEF HeldApart, Apart, Held
  <2> QED
    BY <2>1, <2>2
<1>12. HeldOnce'
  <2>1. \A i, j \in DOMAIN results' : results'[i] = results'[j] => i = j
    <3> SUFFICES ASSUME NEW i \in DOMAIN results', NEW j \in DOMAIN results', results'[i] = results'[j] PROVE i = j
      OBVIOUS
    <3>1. i \in Int /\ j \in Int
      BY <1>6, <1>7
    <3>2. i = 1 <=> j = 1
      BY <1>6, <1>7, <1>11 DEF InResults
    <3>3. i # 1 => results[i - 1] = results[j - 1]
      BY <1>6, <1>7, <3>2
    <3>4. i # 1 => i - 1 = j - 1
      BY <1>0, <1>7, <3>2, <3>3 DEF HeldOnce
    <3> QED
      BY <3>1, <3>2, <3>4
  <2>2. \A u \in Thread : Live(u)' => Live(u) /\ u # t
    BY <1>4 DEF Live
  <2> QED
    BY <1>0, <1>1, <2>1, <2>2 DEF HeldOnce
<1>13. HeldApart'
  <2>1. WithThread' \subseteq WithThread \ {func[t]}
    <3>1. \A u \in Thread : Live(u)' /\ func[u] # 0 => Live(u) /\ func[u] # func[t]
      BY <1>0, <1>3, <1>4, <1>5 DEF HeldOnce, Live
    <3>2. 0 \notin Request
      BY DEF Request
    <3> QED
      BY <1>1, <3>1, <3>2 DEF WithThread
  <2>2. InResults' \subseteq InResults \cup {func[t]}
    BY <1>6, <1>7 DEF InResults
  <2>3. /\ InTimers' = InTimers /\ InTaken' = InTaken /\ InHand' = InHand
        /\ OnSocket' = OnSocket /\ Over' = Over /\ asked' = asked
    BY <1>1 DEF InTimers, InTaken, InHand, OnSocket, Over
  <2>4. \A p \in DOMAIN Held : p \notin {"threads", "results"} => Held'[p] \subseteq Held[p]
    BY <2>3 DEF Held
  <2>5. /\ "threads" \in DOMAIN Held /\ "results" \in DOMAIN Held /\ {func[t]} \in SUBSET Held["threads"]
        /\ Held'["threads"] \subseteq Held["threads"] \ {func[t]}
        /\ Held'["results"] \subseteq Held["results"] \cup {func[t]}
    BY <1>11, <2>1, <2>2 DEF Held
  <2> QED
    BY <1>0, <2>3, <2>4, <2>5, Passed
<1>14. CalledOnce'
  BY <1>0, <1>1 DEF CalledOnce
<1> QED
  BY <1>8, <1>9, <1>10, <1>12, <1>13, <1>14 DEF RequestInv

(* A job is given to a thread, or lost with it. *)
LEMMA GiveStep ==
    ASSUME LoopInv, RequestInv, GiveJob
    PROVE  RequestInv'
<1>0. /\ HolderTypes /\ PoolIsIdle /\ OneThingAtATime /\ HeldOnce /\ HeldApart /\ CalledOnce
      /\ DOMAIN heap = DOMAIN Script
  BY DEF RequestInv, LoopInv, Shape
<1>1. PICK t \in Thread, n \in Request : heap.handing = <<t, n>>
  BY <1>0 DEF GiveJob, HolderTypes
<1>2. heap.handing # <<>> /\ heap.handing[1] = t /\ heap.handing[2] = n
  BY <1>1
<1>3. /\ UNCHANGED <<timers, results, pool, thread, active, asked, called, clock>>
      /\ heap' = [heap EXCEPT !.handing = <<>>]
      /\ \/ thread[t] = "ended" /\ dropped' = dropped \cup {n} /\ func' = func
         \/ thread[t] # "ended" /\ dropped' = dropped /\ func' = [func EXCEPT ![t] = n]
  BY <1>2 DEF GiveJob, queues, files
<1>4. heap'.handing = <<>> /\ heap'.taken = heap.taken /\ heap'.pc = heap.pc /\ heap'.resume = heap.resume
  BY <1>0, <1>3 DEF Script
<1>5. thread \in [Thread -> ThreadPlaces] /\ func \in [Thread -> {0} \cup Request] /\ n # 0
  BY <1>0 DEF HolderTypes, Request
<1>6. /\ func' \in [Thread -> {0} \cup Request]
      /\ \A u \in Thread : func'[u] = IF u = t /\ thread[t] # "ended" THEN n ELSE func[u]
  BY <1>3, <1>5
<1>7. Idle(t) /\ \A i \in DOMAIN pool : pool[i] # t
  BY <1>0, <1>2 DEF PoolIsIdle
<1>8. HolderTypes'
  BY <1>0, <1>3, <1>4, <1>6 DEF HolderTypes
<1>9. PoolIsIdle'
  <2>1. \A i \in DOMAIN pool : pool[i] \in Thread
    BY <1>0 DEF HolderTypes
  <2> QED
    BY <1>0, <1>3, <1>4, <1>5, <1>6, <1>7, <2>1 DEF PoolIsIdle, Idle, None
<1>10. OneThingAtATime'
  BY <1>0, <1>4 DEF OneThingAtATime, At
<1>11. /\ InTimers' = InTimers /\ InResults' = InResults /\ InTaken' = InTaken /\ OnSocket' = OnSocket
       /\ InHand = {n} /\ InHand' = {}
  BY <1>2, <1>3, <1>4 DEF InTimers, InResults, InTaken, InHand, OnSocket
<1>12. n \notin WithThread /\ n \notin Over
  BY <1>0, <1>11 DEF HeldApart, Apart, Held
<1>13. /\ HeldApart'
       /\ \A u, v \in Thread : Live(u)' /\ Live(v)' /\ func'[u] # 0 /\ func'[u] = func'[v] => u = v
       /\ CalledOnce'
  <2>1. CASE thread[t] = "ended"
    <3>1. WithThread' = WithThread /\ Over' = Over \cup {n}
      BY <1>3, <2>1 DEF WithThread, Live, Over
    <3>2. /\ "handing" \in DOMAIN Held /\ "over" \in DOMAIN Held /\ {n} \in SUBSET Held["handing"]
          /\ Held'["handing"] \subseteq Held["handing"] \ {n}
          /\ Held'["over"] \subseteq Held["over"] \cup {n}
          /\ \A p \in DOMAIN Held : p \notin {"handing", "over"} => Held'[p] \subseteq Held[p]
      BY <1>11, <3>1 DEF Held
    <3>3. HeldApart'
      BY <1>0, <1>3, <3>2, Passed
    <3>4. CalledOnce'
      <4>1. called[n] = 0 /\ n \notin dropped /\ called' = called /\ dropped' = dropped \cup {n}
        BY <1>3, <1>12, <2>1 DEF Over
      <4>2. \A m \in Request : called[m] + (IF m \in dropped THEN 1 ELSE 0) <= 1
        BY <1>0 DEF CalledOnce
      <4>3. \A m \in Request : called'[m] + (IF m \in dropped' THEN 1 ELSE 0) <= 1
        <5> TAKE m \in Request
        <5> QED BY <4>1, <4>2
      <4> QED
        BY <4>3 DEF CalledOnce
    <3> QED
      BY <1>0, <1>3, <2>1, <3>3, <3>4 DEF HeldOnce, Live
  <2>2. CASE thread[t] # "ended"
    <3>1. WithThread' \subseteq WithThread \cup {n} /\ Over' = Over
      BY <1>3, <1>6, <2>2 DEF WithThread, Live, Over
    <3>2. /\ "handing" \in DOMAIN Held /\ "threads" \in DOMAIN Held /\ {n} \in SUBSET Held["handing"]
          /\ Held'["handing"] \subseteq Held["handing"] \ {n}
          /\ Held'["threads"] \subseteq Held["threads"] \cup {n}
          /\ \A p \in DOMAIN Held : p \notin {"handing", "threads"} => Held'[p] \subseteq Held[p]
      BY <1>11, <3>1 DEF Held
    <3>3. HeldApart'
      BY <1>0, <1>3, <3>2, Passed
    <3>4. \A u \in Thread : Live(u) => func[u] # n
      BY <1>12 DEF WithThread
    <3> QED
      BY <1>0, <1>3, <1>6, <2>2, <3>3, <3>4 DEF HeldOnce, Live, CalledOnce
  <2> QED
    BY <2>1, <2>2
<1>14. HeldOnce'
  BY <1>0, <1>3, <1>4, <1>13 DEF HeldOnce
<1> QED
  BY <1>8, <1>9, <1>10, <1>13, <1>14 DEF RequestInv

(* A new request takes a thread. *)
LEMMA TakeStep ==
    ASSUME LoopInv, RequestInv, TakeThread
    PROVE  RequestInv'
<1>0. /\ HolderTypes /\ PoolIsIdle /\ OneThingAtATime /\ HeldOnce /\ HeldApart /\ CalledOnce
      /\ DOMAIN heap = DOMAIN Script
  BY DEF RequestInv, LoopInv, Shape
<1>1. /\ UNCHANGED <<timers, results, func, active, called, dropped, clock>>
      /\ Len(asked) < MaxRequests /\ asked' = Append(asked, "connection")
      /\ heap.pc \in {"script", "callback"} /\ heap.handing = <<>>
  BY DEF TakeThread, Ask, MayCall, queues, files
<1>2. /\ pool \in Seq(Thread) /\ thread \in [Thread -> ThreadPlaces] /\ asked \in Seq(Kinds)
      /\ Len(asked) <= MaxRequests /\ MaxRequests \in Nat
  BY <1>0, EventLoopAssumption DEF HolderTypes
<1>3. This \in Request /\ asked' \in Seq(Kinds) /\ Len(asked') = Len(asked) + 1 /\ Len(asked') <= MaxRequests
  BY <1>1, <1>2 DEF This, Request, Kinds
<1>4. PICK t \in Thread :
         /\ heap' = [heap EXCEPT !.handing = <<t, This>>]
         /\ \/ pool # <<>> /\ t = Head(pool) /\ pool' = Tail(pool) /\ thread' = thread
            \/ pool = <<>> /\ pool' = pool /\ thread[t] = None /\ thread' = [thread EXCEPT ![t] = "waiting"]
  <2>1. CASE pool # <<>>
    <3>1. Head(pool) \in Thread
      BY <1>2, <2>1, Popped
    <3> QED
      BY <2>1, <3>1 DEF TakeThread
  <2>2. CASE pool = <<>>
    <3> DEFINE u == CHOOSE t \in Thread : thread[t] = None
    <3>1. \E t \in Thread : thread[t] = None
      BY <1>2, <2>2 DEF TakeThread, Range
    <3>2. u \in Thread /\ thread[u] = None
      BY <3>1, Zenon
    <3>3. heap' = [heap EXCEPT !.handing = <<u, This>>] /\ pool' = pool /\ thread' = [thread EXCEPT ![u] = "waiting"]
      BY <2>2 DEF TakeThread
    <3> QED
      BY <2>2, <3>2, <3>3
  <2> QED
    BY <2>1, <2>2
<1>5. heap'.handing = <<t, This>> /\ heap'.taken = heap.taken /\ heap'.pc = heap.pc /\ heap'.resume = heap.resume
  BY <1>0, <1>4 DEF Script
<1>6. heap'.handing # <<>> /\ heap'.handing[1] = t /\ heap'.handing[2] = This
  BY <1>5
<1>7. HolderTypes'
  <2>1. pool' \in Seq(Thread)
    BY <1>2, <1>4, Popped
  <2>2. thread' \in [Thread -> ThreadPlaces]
    BY <1>2, <1>4 DEF ThreadPlaces
  <2>3. \E u \in Thread, n \in Request : heap'.handing = <<u, n>>
    BY <1>3, <1>5
  <2> QED
    BY <1>0, <1>1, <1>3, <1>5, <2>1, <2>2, <2>3 DEF HolderTypes
<1>8. PoolIsIdle'
  <2>1. CASE pool # <<>>
    <3>1. /\ Len(pool) \in Nat /\ Len(pool) >= 1 /\ t = pool[1] /\ Len(pool') = Len(pool) - 1 /\ pool' \in Seq(Thread)
          /\ \A j \in 1 .. Len(pool) - 1 : pool'[j] = pool[j + 1]
      <4>1. t = Head(pool) /\ pool' = Tail(pool) /\ Len(pool) \in Nat
        BY <1>2, <1>4, <2>1
      <4> QED
        BY <1>2, <2>1, <4>1, Popped
    <3>2. \A j \in DOMAIN pool' : j \in 1 .. Len(pool) - 1 /\ j + 1 \in DOMAIN pool /\ j + 1 # 1
      BY <1>2, <3>1
    <3>3. 1 \in DOMAIN pool /\ Idle(t) /\ thread' = thread
      BY <1>0, <1>2, <1>4, <2>1, <3>1 DEF PoolIsIdle
    <3>4. \A j \in DOMAIN pool' : Idle(pool'[j]) /\ pool'[j] # t
      BY <1>0, <3>1, <3>2, <3>3 DEF PoolIsIdle
    <3>5. \A i, j \in DOMAIN pool' : pool'[i] = pool'[j] => i = j
      <4> SUFFICES ASSUME NEW i \in DOMAIN pool', NEW j \in DOMAIN pool', pool'[i] = pool'[j] PROVE i = j
        OBVIOUS
      <4>1. i \in Int /\ j \in Int
        BY <3>1, <3>2
      <4>2. i + 1 = j + 1
        BY SMTT(40), <1>0, <3>1, <3>2 DEF PoolIsIdle
      <4> QED
        BY <4>1, <4>2
    <3> QED
      BY <1>0, <1>1, <1>6, <3>3, <3>4, <3>5 DEF PoolIsIdle, Idle
  <2>2. CASE pool = <<>>
    <3>1. pool' = <<>> /\ DOMAIN pool' = {}
      BY <1>4, <2>2
    <3>2. \A u \in Thread : thread'[u] = IF u = t THEN "waiting" ELSE thread[u]
      BY <1>2, <1>4, <2>2
    <3>3. func[t] = 0
      BY <1>0, <1>4, <2>2 DEF PoolIsIdle
    <3> QED
      BY <1>0, <1>1, <1>6, <3>1, <3>2, <3>3 DEF PoolIsIdle, Idle, None
  <2> QED
    BY <2>1, <2>2
<1>9. OneThingAtATime'
  BY <1>0, <1>1, <1>5 DEF OneThingAtATime, At
<1>10. \A u \in Thread : Live(u)' /\ func[u] # 0 => Live(u)
  BY <1>0, <1>2, <1>4 DEF Live, PoolIsIdle
<1>11. HeldOnce'
  BY <1>0, <1>1, <1>5, <1>10 DEF HeldOnce
<1>12. HeldApart'
  <2>1. WithThread' \subseteq WithThread
    BY <1>1, <1>10 DEF WithThread, Request
  <2>2. /\ InTimers' = InTimers /\ InResults' = InResults /\ InTaken' = InTaken /\ OnSocket' = OnSocket
        /\ Over' = Over /\ InHand' = {This}
    BY <1>1, <1>5, <1>6 DEF InTimers, InResults, InTaken, InHand, OnSocket, Over
  <2>3. /\ "handing" \in DOMAIN Held /\ Held'["handing"] \subseteq Held["handing"] \cup {This}
        /\ \A p \in DOMAIN Held : p # "handing" => Held'[p] \subseteq Held[p]
    BY <2>1, <2>2 DEF Held
  <2> QED
    BY <1>0, <1>3, <2>3, Made
<1>13. CalledOnce'
  BY <1>0, <1>1 DEF CalledOnce
<1> QED
  BY <1>7, <1>8, <1>9, <1>11, <1>12, <1>13 DEF RequestInv

(* A callback is called that was not called before. *)
LEMMA CalledNow ==
    ASSUME HolderTypes, CalledOnce, NEW n \in Request, n \notin Over, Called(n)
    PROVE  /\ called' \in [Request -> Nat] /\ CalledOnce' /\ Over' = Over \cup {n}
           /\ asked' = asked /\ dropped' = dropped
<1>1. called \in [Request -> Nat] /\ called[n] = 0 /\ n \notin dropped
  BY DEF HolderTypes, Over
<1>2. called' = [called EXCEPT ![n] = @ + 1] /\ dropped' = dropped /\ asked' = asked
  BY DEF Called
<1>3. called' \in [Request -> Nat] /\ \A m \in Request : called'[m] = IF m = n THEN 1 ELSE called[m]
  BY <1>1, <1>2
<1>4. CalledOnce'
  <2>1. \A m \in Request : called[m] + (IF m \in dropped THEN 1 ELSE 0) <= 1
    BY DEF CalledOnce
  <2>2. \A m \in Request : called'[m] + (IF m \in dropped' THEN 1 ELSE 0) <= 1
    <3> TAKE m \in Request
    <3> QED BY <1>1, <1>2, <1>3, <2>1
  <2> QED
    BY <2>2 DEF CalledOnce
<1>5. Over' = Over \cup {n}
  BY <1>2, <1>3 DEF Over
<1> QED
  BY <1>2, <1>3, <1>4, <1>5

(* A socket gets a request. *)
LEMMA OperationStep ==
    ASSUME RequestInv, NEW s \in Socket, NEW mode \in Modes, StartOperation(s, mode)
    PROVE  RequestInv'
<1>0. /\ HolderTypes /\ PoolIsIdle /\ OneThingAtATime /\ HeldOnce /\ HeldApart /\ CalledOnce
  BY DEF RequestInv
<1>1. /\ UNCHANGED <<timers, results, pool, thread, func, called, dropped, clock, heap>>
      /\ Len(asked) < MaxRequests /\ asked' = Append(asked, mode)
      /\ active[s][mode] = 0 /\ active' = [active EXCEPT ![s][mode] = This]
  BY DEF StartOperation, Ask, queues, workers
<1>2. /\ asked \in Seq(Kinds) /\ Len(asked) <= MaxRequests /\ MaxRequests \in Nat
      /\ active \in [Socket -> [Modes -> {0} \cup Request]]
  BY <1>0, EventLoopAssumption DEF HolderTypes
<1>3. /\ This \in Request /\ asked' \in Seq(Kinds) /\ Len(asked') = Len(asked) + 1 /\ Len(asked') <= MaxRequests
  BY <1>1, <1>2 DEF This, Request, Kinds
<1>4. /\ active' \in [Socket -> [Modes -> {0} \cup Request]]
      /\ \A r \in Socket, k \in Modes : active'[r][k] = IF r = s /\ k = mode THEN This ELSE active[r][k]
  BY <1>1, <1>2, <1>3
<1>5. HolderTypes'
  BY <1>0, <1>1, <1>3, <1>4 DEF HolderTypes
<1>6. PoolIsIdle' /\ OneThingAtATime'
  BY <1>0, <1>1 DEF PoolIsIdle, Idle, OneThingAtATime, At
<1>7. HeldApart' /\ This \notin OnSocket
  <2>1. OnSocket' \subseteq OnSocket \cup {This}
    BY <1>4 DEF OnSocket
  <2>2. /\ InTimers' = InTimers /\ InResults' = InResults /\ InTaken' = InTaken /\ WithThread' = WithThread
        /\ Over' = Over /\ InHand' = InHand
    BY <1>1 DEF InTimers, InResults, InTaken, InHand, WithThread, Live, Over
  <2>3. /\ "sockets" \in DOMAIN Held /\ Held'["sockets"] \subseteq Held["sockets"] \cup {This}
        /\ \A p \in DOMAIN Held : p # "sockets" => Held'[p] \subseteq Held[p]
    BY <2>1, <2>2 DEF Held
  <2>4. HeldApart' /\ This \notin Held["sockets"]
    BY <1>0, <1>3, <2>3, Made
  <2> QED
    BY <2>4 DEF Held
<1>8. HeldOnce'
  <2>1. \A r \in Socket, k \in Modes : active[r][k] # This
    BY <1>3, <1>7 DEF OnSocket
  <2>2. ASSUME NEW r \in Socket, NEW q \in Socket, NEW m \in Modes, NEW k \in Modes,
               active'[r][m] # 0, active'[r][m] = active'[q][k]
        PROVE  r = q /\ m = k
    BY <1>0, <1>4, <2>1, <2>2 DEF HeldOnce
  <2> QED
    BY <1>0, <1>1, <2>2 DEF HeldOnce, Live
<1>9. CalledOnce'
  BY <1>0, <1>1 DEF CalledOnce
<1> QED
  BY <1>5, <1>6, <1>7, <1>8, <1>9 DEF RequestInv

(* An event of a socket calls the callback of its request. *)
LEMMA SocketStep ==
    ASSUME LoopInv, RequestInv, NEW s \in Socket, NEW mode \in Modes, SocketEvent(s, mode)
    PROVE  RequestInv'
<1>0. /\ HolderTypes /\ PoolIsIdle /\ OneThingAtATime /\ HeldOnce /\ HeldApart /\ CalledOnce
      /\ DOMAIN heap = DOMAIN Script
  BY DEF RequestInv, LoopInv, Shape
<1>1. UNCHANGED <<timers, results, pool, thread, func, clock>> /\ At("events")
  BY DEF SocketEvent, queues, workers
<1>2. \/ heap' = [heap EXCEPT !.pc = "callback", !.resume = "event done", !.socket = s]
      \/ heap' = [heap EXCEPT !.pc = "event done", !.socket = s]
  BY DEF SocketEvent, Callback
<1>3. heap'.handing = heap.handing /\ heap'.taken = heap.taken
  BY <1>0, <1>2 DEF Script
<1>4. heap.handing = <<>> /\ heap.taken = <<>>
  BY <1>0, <1>1 DEF OneThingAtATime, At
<1>5. OneThingAtATime'
  BY <1>3, <1>4 DEF OneThingAtATime
<1>6. CASE active[s][mode] = 0
  <2>1. UNCHANGED <<active, asked, called, dropped>>
    BY <1>6 DEF SocketEvent, ghosts
  <2> QED
    BY <1>0, <1>1, <1>3, <1>5, <2>1, Resting DEF HolderTypes
<1>7. CASE active[s][mode] # 0
  <2>1. PICK n \in Request : n = active[s][mode]
    BY <1>0, <1>7 DEF HolderTypes
  <2>2. active' = [active EXCEPT ![s][mode] = 0] /\ Called(n)
    BY <1>7, <2>1 DEF SocketEvent
  <2>3. active \in [Socket -> [Modes -> {0} \cup Request]]
    BY <1>0 DEF HolderTypes
  <2>4. /\ active' \in [Socket -> [Modes -> {0} \cup Request]]
        /\ \A r \in Socket, k \in Modes : active'[r][k] = IF r = s /\ k = mode THEN 0 ELSE active[r][k]
    BY <2>2, <2>3
  <2>5. n \in OnSocket /\ n \notin Over
    <3>1. n \in OnSocket
      BY <2>1 DEF OnSocket
    <3>2. OnSocket \cap Over = {}
      BY <1>0 DEF HeldApart, Apart, Held
    <3> QED
      BY <3>1, <3>2
  <2>6. /\ called' \in [Request -> Nat] /\ CalledOnce' /\ Over' = Over \cup {n}
        /\ asked' = asked /\ dropped' = dropped
    BY <1>0, <2>2, <2>5, CalledNow
  <2>7. HolderTypes'
    BY <1>0, <1>1, <1>3, <2>4, <2>6 DEF HolderTypes
  <2>8. PoolIsIdle'
    BY <1>0, <1>1, <1>3 DEF PoolIsIdle, Idle
  <2>9. HeldOnce'
    BY <1>0, <1>1, <1>3, <2>4 DEF HeldOnce, Live
  <2>10. HeldApart'
    <3>1. OnSocket' \subseteq OnSocket \ {n}
      <4>1. 0 \notin Request
        BY DEF Request
      <4>2. \A r \in Socket, k \in Modes : active'[r][k] # 0 => active'[r][k] = active[r][k] /\ active[r][k] # n
        BY <1>0, <1>7, <2>1, <2>4 DEF HeldOnce
      <4> QED
        BY <4>1, <4>2 DEF OnSocket
    <3>2. /\ InTimers' = InTimers /\ InResults' = InResults /\ InTaken' = InTaken /\ WithThread' = WithThread
          /\ InHand' = InHand
      BY <1>1, <1>3 DEF InTimers, InResults, InTaken, InHand, WithThread, Live
    <3>3. /\ "sockets" \in DOMAIN Held /\ "over" \in DOMAIN Held /\ {n} \in SUBSET Held["sockets"]
          /\ Held'["sockets"] \subseteq Held["sockets"] \ {n}
          /\ Held'["over"] \subseteq Held["over"] \cup {n}
          /\ \A p \in DOMAIN Held : p \notin {"sockets", "over"} => Held'[p] \subseteq Held[p]
      BY <2>5, <2>6, <3>1, <3>2 DEF Held
    <3> QED
      BY <1>0, <2>6, <3>3, Passed
  <2> QED
    BY <1>5, <2>6, <2>7, <2>8, <2>9, <2>10 DEF RequestInv
<1> QED
  BY <1>6, <1>7

(* The results are detached. *)
LEMMA DetachStep ==
    ASSUME LoopInv, RequestInv, DetachResults
    PROVE  RequestInv'
<1>0. /\ HolderTypes /\ PoolIsIdle /\ OneThingAtATime /\ HeldOnce /\ HeldApart /\ CalledOnce
      /\ DOMAIN heap = DOMAIN Script
  BY DEF RequestInv, LoopInv, Shape
<1>1. /\ UNCHANGED <<timers, pool, thread, func, active, asked, called, dropped, clock>>
      /\ At("events") /\ results' = <<>> /\ heap' = [heap EXCEPT !.pc = "results", !.taken = results]
  BY DEF DetachResults, workers, files, ghosts
<1>2. heap.handing = <<>> /\ heap.taken = <<>>
  BY <1>0, <1>1 DEF OneThingAtATime, At
<1>3. heap'.handing = heap.handing /\ heap'.taken = results /\ heap'.pc = "results"
  BY <1>0, <1>1 DEF Script
<1>4. HolderTypes'
  BY <1>0, <1>1, <1>3 DEF HolderTypes
<1>5. PoolIsIdle' /\ OneThingAtATime'
  BY <1>0, <1>1, <1>2, <1>3 DEF PoolIsIdle, Idle, OneThingAtATime, At
<1>6. HeldOnce'
  BY <1>0, <1>1, <1>3 DEF HeldOnce, Live
<1>7. HeldApart'
  <2>1. InResults' = {} /\ InTaken' = InResults
    BY <1>1, <1>3 DEF InResults, InTaken
  <2>2. /\ InTimers' = InTimers /\ OnSocket' = OnSocket /\ WithThread' = WithThread
        /\ InHand' = InHand /\ Over' = Over
    BY <1>1, <1>3 DEF InTimers, InResults, InTaken, InHand, WithThread, Live, OnSocket, Over
  <2>3. /\ "results" \in DOMAIN Held /\ "taken" \in DOMAIN Held /\ InResults \in SUBSET Held["results"]
        /\ Held'["results"] \subseteq Held["results"] \ InResults
        /\ Held'["taken"] \subseteq Held["taken"] \cup InResults
        /\ \A p \in DOMAIN Held : p \notin {"results", "taken"} => Held'[p] \subseteq Held[p]
    BY <2>1, <2>2 DEF Held
  <2> QED
    BY <1>0, <1>1, <2>3, Passed
<1>8. CalledOnce'
  BY <1>0, <1>1 DEF CalledOnce
<1> QED
  BY <1>4, <1>5, <1>6, <1>7, <1>8 DEF RequestInv

(* The callback of a result is called. *)
LEMMA JobStep ==
    ASSUME LoopInv, RequestInv, JobDone
    PROVE  RequestInv'
<1>0. /\ HolderTypes /\ PoolIsIdle /\ OneThingAtATime /\ HeldOnce /\ HeldApart /\ CalledOnce
      /\ DOMAIN heap = DOMAIN Script
  BY DEF RequestInv, LoopInv, Shape
<1>1. /\ UNCHANGED <<timers, results, pool, thread, func, active, clock>>
      /\ At("results") /\ heap.taken # <<>>
      /\ heap' = [heap EXCEPT !.pc = "callback", !.resume = "results", !.taken = Tail(@)]
  BY DEF JobDone, queues, workers, files
<1>2. PICK list \in Seq(Request) : list = heap.taken /\ list # <<>>
  BY <1>0, <1>1 DEF HolderTypes
<1>3. /\ heap'.handing = heap.handing /\ heap'.taken = Tail(list)
      /\ heap'.pc = "callback" /\ heap'.resume = "results"
  BY <1>0, <1>1, <1>2 DEF Script
<1>4. /\ Tail(list) \in Seq(Request) /\ Len(Tail(list)) = Len(list) - 1 /\ Len(list) >= 1 /\ Len(list) \in Nat
      /\ Head(list) = list[1] /\ Head(list) \in Request
      /\ \A j \in 1 .. Len(list) - 1 : Tail(list)[j] = list[j + 1]
  BY <1>2, Popped
<1>5. \A j \in DOMAIN Tail(list) : j \in 1 .. Len(list) - 1 /\ j + 1 \in DOMAIN list /\ j + 1 # 1 /\ j \in Int
  BY <1>4
<1>6. PICK n \in Request : n = list[1]
  BY <1>4
<1>7. Called(n)
  BY <1>2, <1>4, <1>6 DEF JobDone
<1>8. 1 \in DOMAIN list /\ n \in InTaken /\ n \notin Over
  <2>1. 1 \in DOMAIN list
    BY <1>4
  <2>2. n \in InTaken
    BY <1>2, <1>6, <2>1 DEF InTaken
  <2>3. InTaken \cap Over = {}
    BY <1>0 DEF HeldApart, Apart, Held
  <2> QED
    BY <2>1, <2>2, <2>3
<1>9. /\ called' \in [Request -> Nat] /\ CalledOnce' /\ Over' = Over \cup {n}
      /\ asked' = asked /\ dropped' = dropped
  BY <1>0, <1>7, <1>8, CalledNow
<1>10. HolderTypes'
  BY <1>0, <1>1, <1>3, <1>4, <1>9 DEF HolderTypes
<1>11. PoolIsIdle' /\ OneThingAtATime'
  BY <1>0, <1>1, <1>3 DEF PoolIsIdle, Idle, OneThingAtATime, At
<1>12. \A i, j \in DOMAIN list : list[i] = list[j] => i = j
  BY <1>0, <1>2 DEF HeldOnce
<1>13. HeldOnce'
  <2>1. ASSUME NEW i \in DOMAIN Tail(list), NEW j \in DOMAIN Tail(list), Tail(list)[i] = Tail(list)[j]
        PROVE  i = j
    <3>1. i + 1 = j + 1
      BY <1>4, <1>5, <1>12, <2>1
    <3> QED
      BY <1>5, <3>1
  <2>2. \A i, j \in DOMAIN heap'.taken : heap'.taken[i] = heap'.taken[j] => i = j
    BY <1>3, <2>1, Zenon
  <2> QED
    BY <1>0, <1>1, <2>2 DEF HeldOnce, Live
<1>14. HeldApart'
  <2>1. InTaken' \subseteq InTaken \ {n}
    BY <1>2, <1>3, <1>4, <1>5, <1>6, <1>8, <1>12 DEF InTaken
  <2>2. /\ InTimers' = InTimers /\ InResults' = InResults /\ OnSocket' = OnSocket /\ WithThread' = WithThread
        /\ InHand' = InHand
    BY <1>1, <1>3 DEF InTimers, InResults, InHand, WithThread, Live, OnSocket
  <2>3. /\ "taken" \in DOMAIN Held /\ "over" \in DOMAIN Held /\ {n} \in SUBSET Held["taken"]
        /\ Held'["taken"] \subseteq Held["taken"] \ {n}
        /\ Held'["over"] \subseteq Held["over"] \cup {n}
        /\ \A p \in DOMAIN Held : p \notin {"taken", "over"} => Held'[p] \subseteq Held[p]
    BY <1>8, <1>9, <2>1, <2>2 DEF Held
  <2> QED
    BY <1>0, <1>9, <2>3, Passed
<1> QED
  BY <1>9, <1>10, <1>11, <1>13, <1>14 DEF RequestInv

(* The results that are left are thrown away. *)
LEMMA FailStep ==
    ASSUME LoopInv, RequestInv, AddFails
    PROVE  RequestInv'
<1>0. /\ HolderTypes /\ PoolIsIdle /\ OneThingAtATime /\ HeldOnce /\ HeldApart /\ CalledOnce
      /\ DOMAIN heap = DOMAIN Script
  BY DEF RequestInv, LoopInv, Shape
<1>1. /\ UNCHANGED <<timers, results, pool, thread, func, active, asked, called, clock>>
      /\ At("results") /\ dropped' = dropped \cup ToSet(heap.taken)
      /\ heap' = IF integrated THEN [heap EXCEPT !.pc = "answer", !.taken = <<>>] ELSE Script
  BY DEF AddFails, queues, workers, files
<1>2. heap.handing = <<>>
  BY <1>0, <1>1 DEF OneThingAtATime, At
<1>3. heap'.handing = <<>> /\ heap'.taken = <<>>
  BY <1>0, <1>1, <1>2 DEF Script
<1>4. ToSet(heap.taken) = InTaken
  BY DEF ToSet, InTaken
<1>5. InTaken \in SUBSET Request
  BY <1>0 DEF HolderTypes, InTaken
<1>6. HolderTypes'
  <2>1. heap'.taken \in Seq(Request) /\ dropped' \in SUBSET Request
    <3>1. <<>> \in Seq(Request)
      OBVIOUS
    <3>2. dropped \in SUBSET Request
      BY <1>0 DEF HolderTypes
    <3> QED
      BY <1>1, <1>3, <1>4, <1>5, <3>1, <3>2
  <2> QED
    BY <1>0, <1>1, <1>2, <1>3, <2>1 DEF HolderTypes
<1>7. PoolIsIdle' /\ OneThingAtATime'
  BY <1>0, <1>1, <1>2, <1>3 DEF PoolIsIdle, Idle, OneThingAtATime
<1>8. HeldOnce'
  BY <1>0, <1>1, <1>3 DEF HeldOnce, Live
<1>9. Over' = Over \cup InTaken /\ InTaken \cap Over = {}
  BY <1>0, <1>1, <1>4 DEF HeldApart, Apart, Held, Over
<1>10. HeldApart'
  <2>1. InTaken' = {}
    BY <1>3 DEF InTaken
  <2>2. /\ InTimers' = InTimers /\ InResults' = InResults /\ OnSocket' = OnSocket /\ WithThread' = WithThread
        /\ InHand' = InHand
    BY <1>1, <1>2, <1>3 DEF InTimers, InResults, InHand, WithThread, Live, OnSocket
  <2>3. /\ "taken" \in DOMAIN Held /\ "over" \in DOMAIN Held /\ InTaken \in SUBSET Held["taken"]
        /\ Held'["taken"] \subseteq Held["taken"] \ InTaken
        /\ Held'["over"] \subseteq Held["over"] \cup InTaken
        /\ \A p \in DOMAIN Held : p \notin {"taken", "over"} => Held'[p] \subseteq Held[p]
    BY <1>9, <2>1, <2>2 DEF Held
  <2> QED
    BY <1>0, <1>1, <2>3, Passed
<1>11. CalledOnce'
  <2>1. \A n \in InTaken : called[n] = 0 /\ n \notin dropped
    BY <1>5, <1>9 DEF Over
  <2>2. dropped' = dropped \cup InTaken /\ called' = called
    BY <1>1, <1>4
  <2>3. \A n \in Request : called[n] + (IF n \in dropped THEN 1 ELSE 0) <= 1
    BY <1>0 DEF CalledOnce
  <2>4. \A n \in Request : called'[n] + (IF n \in dropped' THEN 1 ELSE 0) <= 1
    <3> TAKE n \in Request
    <3> QED BY <2>1, <2>2, <2>3
  <2> QED
    BY <2>4 DEF CalledOnce
<1> QED
  BY <1>6, <1>7, <1>8, <1>10, <1>11 DEF RequestInv

(* The first timer is due. *)
LEMMA TimerStep ==
    ASSUME LoopInv, RequestInv, TimerDue
    PROVE  RequestInv'
<1>0. /\ HolderTypes /\ PoolIsIdle /\ OneThingAtATime /\ HeldOnce /\ HeldApart /\ CalledOnce
      /\ DOMAIN heap = DOMAIN Script
  BY DEF RequestInv, LoopInv, Shape
<1>1. /\ UNCHANGED <<results, pool, thread, func, active, clock>>
      /\ At("timers") /\ timers # <<>> /\ timers' = Tail(timers) /\ Called(Head(timers).request)
  BY DEF TimerDue, FirstIsDue, workers, files
<1>2. \E now : heap' = [heap EXCEPT !.pc = "callback", !.resume = "timers", !.now = now]
  BY DEF TimerDue
<1>3. heap'.handing = heap.handing /\ heap'.taken = heap.taken
  BY <1>0, <1>2 DEF Script
<1>4. heap.handing = <<>> /\ heap.taken = <<>>
  BY <1>0, <1>1 DEF OneThingAtATime, At
<1>5. /\ timers' \in Seq(Timer) /\ Len(timers') = Len(timers) - 1 /\ Len(timers) >= 1 /\ Len(timers) \in Nat
      /\ Head(timers) = timers[1] /\ Head(timers) \in Timer
      /\ \A j \in 1 .. Len(timers) - 1 : timers'[j] = timers[j + 1]
  BY <1>0, <1>1, Popped DEF HolderTypes
<1>6. \A j \in DOMAIN timers' : j \in 1 .. Len(timers) - 1 /\ j + 1 \in DOMAIN timers /\ j + 1 # 1 /\ j \in Int
  BY <1>0, <1>5 DEF HolderTypes
<1>7. PICK n \in Request : n = timers[1].request
  BY <1>5 DEF Timer
<1>8. Called(n)
  BY <1>1, <1>5, <1>7
<1>9. 1 \in DOMAIN timers /\ n \in InTimers /\ n \notin Over
  <2>1. 1 \in DOMAIN timers
    BY <1>0, <1>5 DEF HolderTypes
  <2>2. n \in InTimers
    BY <1>7, <2>1 DEF InTimers
  <2>3. InTimers \cap Over = {}
    BY <1>0 DEF HeldApart, Apart, Held
  <2> QED
    BY <2>1, <2>2, <2>3
<1>10. /\ called' \in [Request -> Nat] /\ CalledOnce' /\ Over' = Over \cup {n}
       /\ asked' = asked /\ dropped' = dropped
  BY <1>0, <1>8, <1>9, CalledNow
<1>11. HolderTypes'
  BY <1>0, <1>1, <1>3, <1>5, <1>10 DEF HolderTypes
<1>12. PoolIsIdle' /\ OneThingAtATime'
  BY <1>0, <1>1, <1>3, <1>4 DEF PoolIsIdle, Idle, OneThingAtATime, At
<1>13. \A i, j \in DOMAIN timers : timers[i].request = timers[j].request => i = j
  BY <1>0 DEF HeldOnce
<1>14. HeldOnce'
  <2>1. ASSUME NEW i \in DOMAIN timers', NEW j \in DOMAIN timers', timers'[i].request = timers'[j].request
        PROVE  i = j
    <3>1. i + 1 = j + 1
      BY SMTT(40), <1>5, <1>6, <1>13, <2>1
    <3> QED
      BY <1>6, <3>1
  <2> QED
    BY <1>0, <1>1, <1>3, <2>1 DEF HeldOnce, Live
<1>15. HeldApart'
  <2>1. InTimers' \subseteq InTimers \ {n}
    BY <1>5, <1>6, <1>7, <1>9, <1>13 DEF InTimers
  <2>2. /\ InTaken' = InTaken /\ InResults' = InResults /\ OnSocket' = OnSocket /\ WithThread' = WithThread
        /\ InHand' = InHand
    BY <1>1, <1>3 DEF InTaken, InResults, InHand, WithThread, Live, OnSocket
  <2>3. /\ "timers" \in DOMAIN Held /\ "over" \in DOMAIN Held /\ {n} \in SUBSET Held["timers"]
        /\ Held'["timers"] \subseteq Held["timers"] \ {n}
        /\ Held'["over"] \subseteq Held["over"] \cup {n}
        /\ \A p \in DOMAIN Held : p \notin {"timers", "over"} => Held'[p] \subseteq Held[p]
    BY <1>9, <1>10, <2>1, <2>2 DEF Held
  <2> QED
    BY <1>0, <1>10, <2>3, Passed
<1> QED
  BY <1>10, <1>11, <1>12, <1>14, <1>15 DEF RequestInv

(* A new request becomes a timer. *)
LEMMA LaterStep ==
    ASSUME RequestInv, NEW delay \in Delays, RunLater(delay)
    PROVE  RequestInv'
<1>0. /\ HolderTypes /\ PoolIsIdle /\ OneThingAtATime /\ HeldOnce /\ HeldApart /\ CalledOnce
  BY DEF RequestInv
<1>1. /\ UNCHANGED <<results, pool, thread, func, active, called, dropped, clock, heap>>
      /\ Len(asked) < MaxRequests /\ asked' = Append(asked, "timer")
  BY DEF RunLater, Ask, workers
<1>2. /\ timers \in Seq(Timer) /\ asked \in Seq(Kinds) /\ Len(asked) <= MaxRequests /\ MaxRequests \in Nat
      /\ Len(timers) \in Nat /\ clock + delay \in Nat
  BY <1>0, EventLoopAssumption DEF HolderTypes
<1>3. /\ This \in Request /\ asked' \in Seq(Kinds) /\ Len(asked') = Len(asked) + 1 /\ Len(asked') <= MaxRequests
  BY <1>1, <1>2 DEF This, Request, Kinds
<1>4. PICK entry : entry = [request |-> This, immediate |-> delay = 0, time |-> clock + delay]
  OBVIOUS
<1>5. entry \in Timer /\ entry.request = This /\ entry.time \in Nat
  BY <1>2, <1>3, <1>4 DEF Timer
<1>6. timers' = IF delay = 0 THEN <<entry>> \o timers ELSE InsertAt(timers, Place(entry.time), entry)
  BY <1>4 DEF RunLater
<1>7. PICK k \in 1 .. Len(timers) + 1 :
         /\ timers' \in Seq(Timer) /\ Len(timers') = Len(timers) + 1
         /\ \A j \in 1 .. Len(timers) + 1 :
               timers'[j] = IF j < k THEN timers[j] ELSE IF j = k THEN entry ELSE timers[j - 1]
  <2>1. CASE delay = 0
    <3>1. /\ timers' \in Seq(Timer) /\ Len(timers') = Len(timers) + 1
          /\ \A j \in 1 .. Len(timers) + 1 : timers'[j] = IF j = 1 THEN entry ELSE timers[j - 1]
      BY <1>2, <1>5, <1>6, <2>1, Pushed
    <3>2. \A j \in 1 .. Len(timers) + 1 :
             timers'[j] = IF j < 1 THEN timers[j] ELSE IF j = 1 THEN entry ELSE timers[j - 1]
      <4> TAKE j \in 1 .. Len(timers) + 1
      <4>1. ~(j < 1)
        BY <1>2
      <4> QED
        BY <3>1, <4>1
    <3>3. 1 \in 1 .. Len(timers) + 1
      BY <1>2
    <3> QED
      BY <3>1, <3>2, <3>3, Zenon
  <2>2. CASE delay # 0
    <3>1. PICK k \in 1 .. Len(timers) + 1 : k = Place(entry.time)
      BY <1>0, <1>5, PlaceInList
    <3>2. timers' = InsertAt(timers, k, entry)
      BY <1>6, <2>2, <3>1
    <3>3. /\ timers' \in Seq(Timer) /\ Len(timers') = Len(timers) + 1
          /\ \A j \in 1 .. Len(timers) + 1 :
                timers'[j] = IF j < k THEN timers[j] ELSE IF j = k THEN entry ELSE timers[j - 1]
      <4>1. timers \in Seq(Timer)
        BY <1>2
      <4>2. entry \in Timer
        BY <1>5
      <4>3. k \in 1 .. Len(timers) + 1
        OBVIOUS
      <4>4. /\ InsertAt(timers, k, entry) \in Seq(Timer) /\ Len(InsertAt(timers, k, entry)) = Len(timers) + 1
            /\ \A j \in 1 .. Len(timers) + 1 :
                  InsertAt(timers, k, entry)[j] = IF j < k THEN timers[j] ELSE IF j = k THEN entry ELSE timers[j - 1]
        BY <4>1, <4>2, <4>3, Inserted
      <4> QED
        BY <3>2, <4>4, Zenon
    <3> QED
      BY <3>3
  <2> QED
    BY <2>1, <2>2
<1>8. \A j \in DOMAIN timers' :
         /\ j \in 1 .. Len(timers) + 1 /\ j \in Int
         /\ j < k => j \in DOMAIN timers
         /\ j > k => j - 1 \in DOMAIN timers
  BY <1>2, <1>7
<1>9. HolderTypes'
  BY <1>0, <1>1, <1>3, <1>7 DEF HolderTypes
<1>10. PoolIsIdle' /\ OneThingAtATime'
  BY <1>0, <1>1 DEF PoolIsIdle, Idle, OneThingAtATime, At
<1>11. \A j \in DOMAIN timers' : j = k \/ \E i \in DOMAIN timers : timers'[j] = timers[i]
  BY <1>7, <1>8
<1>12. HeldApart' /\ This \notin InTimers
  <2>1. InTimers' \subseteq InTimers \cup {This}
    BY SMTT(40), <1>5, <1>7, <1>8, <1>11 DEF InTimers
  <2>2. /\ InResults' = InResults /\ InTaken' = InTaken /\ WithThread' = WithThread
        /\ Over' = Over /\ InHand' = InHand /\ OnSocket' = OnSocket
    BY <1>1 DEF InResults, InTaken, InHand, WithThread, Live, Over, OnSocket
  <2>3. /\ "timers" \in DOMAIN Held /\ Held'["timers"] \subseteq Held["timers"] \cup {This}
        /\ \A p \in DOMAIN Held : p # "timers" => Held'[p] \subseteq Held[p]
    BY <2>1, <2>2 DEF Held
  <2>4. HeldApart' /\ This \notin Held["timers"]
    BY <1>0, <1>3, <2>3, Made
  <2> QED
    BY <2>4 DEF Held
<1>13. HeldOnce'
  <2>1. ASSUME NEW i \in DOMAIN timers', NEW j \in DOMAIN timers', timers'[i].request = timers'[j].request
        PROVE  i = j
    <3> DEFINE old(x) == IF x < k THEN x ELSE x - 1
    <3>1. \A x \in DOMAIN timers' : x # k => old(x) \in DOMAIN timers /\ timers'[x] = timers[old(x)]
      BY <1>7, <1>8
    <3>2. i \in Int /\ j \in Int /\ k \in Int
      BY <1>7, <1>8
    <3>3. timers'[k] = entry
      BY <1>7
    <3>4. \A x \in DOMAIN timers : timers[x].request # This
      BY <1>12 DEF InTimers
    <3>5. i = k <=> j = k
      <4> HIDE DEF old
      <4> QED BY <1>5, <2>1, <3>1, <3>3, <3>4
    <3>6. i # k => old(i) = old(j)
      <4> HIDE DEF old
      <4> QED BY <1>0, <2>1, <3>1, <3>5 DEF HeldOnce
    <3> QED
      BY <3>2, <3>5, <3>6
  <2> QED
    BY <1>0, <1>1, <2>1 DEF HeldOnce, Live
<1>14. CalledOnce'
  BY <1>0, <1>1 DEF CalledOnce
<1> QED
  BY <1>9, <1>10, <1>12, <1>13, <1>14 DEF RequestInv

(* The holders at the start: nobody has asked for anything. *)
LEMMA InitRequests == Init => RequestInv
<1> SUFFICES ASSUME Init PROVE RequestInv
  OBVIOUS
<1>1. /\ clock = 0 /\ timers = <<>> /\ results = <<>> /\ pool = <<>> /\ asked = <<>>
      /\ thread = [t \in Thread |-> None] /\ func = [t \in Thread |-> 0]
      /\ active = [s \in Socket |-> [mode \in Modes |-> 0]]
      /\ called = [n \in Request |-> 0] /\ dropped = {}
      /\ heap.taken = <<>> /\ heap.handing = <<>>
  BY DEF Init, Script
<1>2. HolderTypes
  <2>1. Len(asked) <= MaxRequests
    BY <1>1, EventLoopAssumption
  <2>2. timers \in Seq(Timer) /\ results \in Seq(Request) /\ heap.taken \in Seq(Request)
        /\ pool \in Seq(Thread) /\ asked \in Seq(Kinds)
    BY <1>1
  <2>3. thread \in [Thread -> ThreadPlaces]
    BY <1>1 DEF ThreadPlaces
  <2> QED
    BY <1>1, <2>1, <2>2, <2>3 DEF HolderTypes
<1>3. PoolIsIdle /\ OneThingAtATime
  BY <1>1 DEF PoolIsIdle, OneThingAtATime, None
<1>4. HeldOnce
  BY <1>1 DEF HeldOnce
<1>5. InTimers = {} /\ InResults = {} /\ InTaken = {} /\ InHand = {} /\ WithThread = {} /\ OnSocket = {} /\ Over = {}
  BY <1>1 DEF InTimers, InResults, InTaken, InHand, WithThread, OnSocket, Over, Request
<1>6. HeldApart
  BY <1>5 DEF HeldApart, Apart, Held
<1>7. CalledOnce
  BY <1>1 DEF CalledOnce
<1> QED
  BY <1>2, <1>3, <1>4, <1>6, <1>7 DEF RequestInv

(* A callback is called once, and none whose result was thrown away, in    *)
(* whatever order timers, threads and sockets hand their requests on       *)
(* (async_run_later, async_run_thread, process_events).                    *)
THEOREM CallbacksOnce == Spec => []CalledOnce
<1>1. ASSUME LoopInv, RequestInv, [Next]_vars PROVE RequestInv'
  <2>1. CASE UNCHANGED vars
    <3>1. UNCHANGED <<timers, results, pool, thread, func, active, asked, called, dropped, heap, clock>>
      BY <2>1 DEF vars, queues, workers, files, ghosts
    <3>2. OneThingAtATime' /\ clock' \in Nat
      BY <1>1, <3>1 DEF RequestInv, OneThingAtATime, HolderTypes, At
    <3> QED
      BY <1>1, <3>1, <3>2, Resting
  <2>2. CASE Program
    BY <1>1, <2>2, LaterStep, TakeStep, OperationStep, QuietStep DEF Program, StartRead, StartWrite, Modes
  <2>3. CASE ComeBack \/ LookIn \/ PollerSteps \/ Tick
    BY <1>1, <2>3, QuietStep
  <2>4. CASE HeapSteps
    BY <1>1, <2>4, QuietStep, GiveStep, SocketStep, DetachStep, JobStep, TimerStep DEF HeapSteps
  <2>5. CASE Surroundings
    BY <1>1, <2>5, QuietStep, FailStep, ThreadStays DEF Surroundings
  <2>6. CASE \E t \in Thread : ThreadSteps(t)
    BY <1>1, <2>6, ThreadStays, PostStep DEF ThreadSteps
  <2> QED
    BY <1>1, <2>1, <2>2, <2>3, <2>4, <2>5, <2>6 DEF Next
<1>2. RequestInv => CalledOnce
  BY DEF RequestInv
<1> QED
  BY <1>1, <1>2, InitRequests, LoopInvariant, PTL DEF Spec
===============================================================================
