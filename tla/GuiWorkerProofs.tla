-------------------------- MODULE GuiWorkerProofs --------------------------
(***************************************************************************)
(* Theorems about the workers of the GUI (module GuiWorker).               *)
(***************************************************************************)
EXTENDS GuiWorker, FiniteSetTheorems, FunctionTheorems, SequenceTheorems, TLAPS

-----------------------------------------------------------------------------
(* Types                                                                   *)

(* The types at the start.                                                 *)
LEMMA TypeInit == Init => TypeOK
<1> SUFFICES ASSUME Init PROVE TypeOK
  OBVIOUS
<1>1. WorkersOK BY DEF Init, WorkersOK, Threads
<1>2. HandlesOK BY DEF Init, HandlesOK
<1>3. QueuesOK BY WorkerAssumption DEF Init, QueuesOK
<1>4. WaitsOK BY DEF Init, WaitsOK
<1>5. GuiOK BY EmptySeq DEF Init, GuiOK
<1> QED BY <1>1, <1>2, <1>3, <1>4, <1>5 DEF TypeOK

(* What a step does to each group of variables.                            *)
LEMMA HandlesChange ==
    ASSUME [Next]_vars
    PROVE  \/ UNCHANGED handles
           \/ \E w \in Worker : NoMore(w) \/ Create(w) \/ Forget(w) \/ Collect(w)
BY ZenonT(60) DEF Next, vars, GuiStep, TakeNotification, PollingDone, CallbackReturns, FreeByGui, Deliver,
       ThreadStep, Begin, End, Send, WaitForRoom, AddReference, Notify, Receive,
       WaitForMessage, GiveUpReceive, FreeByThread, WaitForEvent, Expire, WakeSpuriously,
       GuiSends, Post, WaitToPost, handles, queues, gui, waits

(* The steps that change a queue.                                          *)
LEMMA QueuesChange ==
    ASSUME [Next]_vars
    PROVE  \/ UNCHANGED queues
           \/ \E w \in Worker : Send(w) \/ Receive(w) \/ Post(w) \/ Deliver(w) \/ NoMore(w)
BY ZenonT(60) DEF Next, vars, GuiStep, TakeNotification, PollingDone, CallbackReturns, FreeByGui,
       ThreadStep, Begin, End, WaitForRoom, AddReference, Notify,
       WaitForMessage, GiveUpReceive, FreeByThread, WaitForEvent, Expire, WakeSpuriously,
       GuiSends, WaitToPost, Create, Forget, Collect, handles, queues, gui, waits

(* The steps that change what the GUI thread has.                          *)
LEMMA GuiChange ==
    ASSUME [Next]_vars
    PROVE  \/ UNCHANGED gui
           \/ TakeNotification \/ PollingDone \/ CallbackReturns \/ FreeByGui
           \/ \E w \in Worker :
                 Deliver(w) \/ NoMore(w) \/ Notify(w) \/ Post(w) \/ WaitToPost(w)
BY DEF Next, vars, GuiStep, ThreadStep, Begin, End, Send, WaitForRoom, AddReference, Receive,
       WaitForMessage, GiveUpReceive, FreeByThread, WaitForEvent, Expire, WakeSpuriously,
       GuiSends, Create, Forget, Collect, handles, queues, gui, waits

(* The steps that change who waits.                                        *)
LEMMA WaitsChange ==
    ASSUME [Next]_vars
    PROVE  \/ UNCHANGED waits
           \/ \E w \in Worker :
                 \/ Unlock(w) \/ \E who \in {"gui", "thread"} : Sleep(w, who) \/ WaitForEvent(w, who)
                 \/ Expire(w) \/ WakeSpuriously(w)
BY ZenonT(60) DEF Next, vars, GuiStep, TakeNotification, PollingDone, CallbackReturns, FreeByGui, Deliver,
       NoMore, ThreadStep, Begin, End, Send, WaitForRoom, AddReference, Notify, Receive,
       WaitForMessage, GiveUpReceive, FreeByThread,
       GuiSends, Post, WaitToPost, Create, Forget, Collect, handles, queues, gui, waits

LEMMA WorkersType == TypeOK /\ [Next]_vars => WorkersOK'
<1> SUFFICES ASSUME TypeOK, [Next]_vars PROVE WorkersOK'
  OBVIOUS
<1> USE DEF TypeOK, WorkersOK, Threads
<1>1. CASE GuiStep
  BY <1>1 DEF GuiStep, TakeNotification, PollingDone, CallbackReturns, FreeByGui, Deliver, NoMore
<1>2. ASSUME NEW w \in Worker, ThreadStep(w) PROVE WorkersOK'
  <2>1. CASE Notify(w) BY <2>1 DEF Notify
  <2>2. CASE Begin(w) \/ End(w) \/ Send(w)
    BY <2>2 DEF Begin, End, Send
  <2>3. CASE WaitForRoom(w) \/ Receive(w) \/ WaitForMessage(w) \/ GiveUpReceive(w)
    BY <2>3 DEF WaitForRoom, Receive, WaitForMessage, GiveUpReceive
  <2>4. CASE AddReference(w) \/ FreeByThread(w)
    BY <2>4 DEF AddReference, FreeByThread
  <2> QED BY <1>2, <2>1, <2>2, <2>3, <2>4 DEF ThreadStep
<1>3. ASSUME NEW w \in Worker,
             \/ WaitForEvent(w, "gui") \/ WaitForEvent(w, "thread")
             \/ Expire(w) \/ WakeSpuriously(w)
             \/ GuiSends(w) \/ Forget(w)
      PROVE  WorkersOK'
  BY <1>3 DEF WaitForEvent, Expire, WakeSpuriously, GuiSends, Post, WaitToPost, Forget
<1>4. ASSUME NEW w \in Worker, Create(w) \/ Collect(w) PROVE WorkersOK'
  BY <1>4 DEF Create, Collect
<1>5. CASE UNCHANGED vars
  BY <1>5 DEF vars
<1> QED BY <1>1, <1>2, <1>3, <1>4, <1>5 DEF Next

LEMMA HandlesType == TypeOK /\ [Next]_vars => HandlesOK'
<1> SUFFICES ASSUME TypeOK, [Next]_vars PROVE HandlesOK'
  OBVIOUS
<1>1. CASE UNCHANGED handles BY <1>1 DEF TypeOK, HandlesOK, handles
<1>2. ASSUME NEW w \in Worker, NoMore(w) \/ Create(w) \/ Forget(w) \/ Collect(w)
      PROVE  HandlesOK'
  BY <1>2 DEF TypeOK, HandlesOK, WorkersOK, NoMore, Create, Forget, Collect
<1> QED BY <1>1, <1>2, HandlesChange

LEMMA QueuesType == TypeOK /\ [Next]_vars => QueuesOK'
<1> SUFFICES ASSUME TypeOK, [Next]_vars PROVE QueuesOK'
  OBVIOUS
<1>1. CASE UNCHANGED queues BY <1>1 DEF TypeOK, QueuesOK, queues
<1> USE WorkerAssumption DEF TypeOK, QueuesOK
<1>2. ASSUME NEW w \in Worker, Send(w) PROVE QueuesOK'
  <2>1. PICK copied \in {0, 1} : output' = [output EXCEPT ![w] = @ + copied]
    BY <1>2 DEF Send
  <2> QED BY <1>2, <2>1 DEF Send
<1>3. ASSUME NEW w \in Worker, Post(w) PROVE QueuesOK'
  <2>1. PICK copied \in {0, 1} : input' = [input EXCEPT ![w] = @ + copied]
    BY <1>3 DEF Post
  <2> QED BY <1>3, <2>1 DEF Post
<1>4. ASSUME NEW w \in Worker, Receive(w) PROVE QueuesOK'
  BY <1>4 DEF Receive
<1>5. ASSUME NEW w \in Worker, Deliver(w) PROVE QueuesOK'
  <2>1. PICK left \in 0..(output[w] - 1) : output' = [output EXCEPT ![w] = left]
    BY <1>5 DEF Deliver
  <2> QED BY <1>5, <2>1 DEF Deliver
<1>6. ASSUME NEW w \in Worker, NoMore(w) PROVE QueuesOK'
  BY <1>6 DEF NoMore
<1> QED BY <1>1, <1>2, <1>3, <1>4, <1>5, <1>6, QueuesChange

LEMMA WaitsType == TypeOK /\ [Next]_vars => WaitsOK'
<1> SUFFICES ASSUME TypeOK, [Next]_vars PROVE WaitsOK'
  OBVIOUS
<1> USE DEF TypeOK, WaitsOK, WorkersOK
<1>1. CASE UNCHANGED waits BY <1>1 DEF waits
<1>2. ASSUME NEW w \in Worker, Unlock(w) PROVE WaitsOK'
  BY ZenonT(60), <1>2 DEF Unlock
<1>3. ASSUME NEW w \in Worker, NEW who \in {"gui", "thread"}, Sleep(w, who) \/ WaitForEvent(w, who)
      PROVE  WaitsOK'
  <2>1. CASE Sleep(w, who) BY <2>1 DEF Sleep
  <2>2. CASE WaitForEvent(w, who) BY <2>2 DEF WaitForEvent
  <2> QED BY <1>3, <2>1, <2>2
<1>4. ASSUME NEW w \in Worker, Expire(w) \/ WakeSpuriously(w) PROVE WaitsOK'
  BY <1>4 DEF Expire, WakeSpuriously
<1> QED BY <1>1, <1>2, <1>3, <1>4, WaitsChange

(* The call of worker_notify_func that runs is one of its calls.           *)
LEMMA InnermostType ==
    ASSUME GuiOK, frames # <<>>
    PROVE  /\ Len(frames) \in Nat \ {0}
           /\ Innermost \in [worker : Worker, at : Places]
           /\ Innermost.worker \in Worker
<1>1. Len(frames) \in Nat \ {0} /\ Len(frames) \in 1..Len(frames)
  BY EmptySeq, LenProperties DEF GuiOK
<1>2. Innermost \in [worker : Worker, at : Places]
  BY <1>1, ElementOfSeq DEF GuiOK, Innermost
<1> QED BY <1>1, <1>2

(* The innermost call of the GUI thread goes to another place in the code. *)
LEMMA GotoType ==
    ASSUME GuiOK, frames # <<>>, NEW place \in Places, Goto(place)
    PROVE  frames' \in Seq([worker : Worker, at : Places])
<1> DEFINE r == [worker |-> Innermost.worker, at |-> place]
<1>1. r \in [worker : Worker, at : Places] BY InnermostType
<1>2. [Innermost EXCEPT !.at = place] = r BY InnermostType
<1>3. frames' = [frames EXCEPT ![Len(frames)] = [Innermost EXCEPT !.at = place]]
  BY Zenon DEF Goto, Innermost
<1> HIDE DEF r
<1> QED BY <1>1, <1>2, <1>3, InnermostType, ExceptSeq DEF GuiOK

LEMMA GuiType == TypeOK /\ [Next]_vars => GuiOK'
<1> SUFFICES ASSUME TypeOK, GuiOK, [Next]_vars PROVE GuiOK'
  BY DEF TypeOK
<1>1. CASE UNCHANGED gui BY <1>1 DEF GuiOK, gui
<1>2. CASE TakeNotification
  <2>1. Head(pending) \in Worker /\ Tail(pending) \in Seq(Worker)
    BY <1>2, HeadTailProperties DEF TakeNotification, GuiOK
  <2>2. [worker |-> Head(pending), at |-> "drain"] \in [worker : Worker, at : Places]
    BY <2>1 DEF Places
  <2>3. frames' \in Seq([worker : Worker, at : Places])
    BY <1>2, <2>2, AppendProperties DEF TakeNotification, GuiOK
  <2> QED BY <1>2, <2>1, <2>3 DEF TakeNotification, GuiOK
<1>3. CASE PollingDone BY <1>3 DEF PollingDone, GuiOK
<1>4. CASE FreeByGui
  <2>1. frames # <<>> BY <1>4 DEF FreeByGui, At
  <2>2. ASSUME NEW i \in 1..(Len(frames) - 1)
        PROVE  frames[i] \in [worker : Worker, at : Places]
    <3>1. i \in 1..Len(frames) BY <2>1, InnermostType
    <3> QED BY <3>1, ElementOfSeq DEF GuiOK
  <2>3. frames' \in Seq([worker : Worker, at : Places])
    BY <1>4, <2>1, <2>2, InnermostType, SubSeqProperties DEF FreeByGui
  <2> QED BY <1>4, <2>3 DEF FreeByGui, GuiOK
<1>5. ASSUME CallbackReturns \/ \E w \in Worker : Deliver(w) \/ NoMore(w) PROVE GuiOK'
  <2>1. frames # <<>> /\ (Goto("callback") \/ Goto("drain") \/ Goto("free"))
    BY <1>5 DEF CallbackReturns, Deliver, NoMore, At
  <2>2. frames' \in Seq([worker : Worker, at : Places])
    BY <2>1, GotoType DEF Places
  <2> QED BY <1>5, <2>2 DEF CallbackReturns, Deliver, NoMore, GuiOK
<1>6. ASSUME NEW w \in Worker, Notify(w) PROVE GuiOK'
  <2>1. <<w>> \o pending \in Seq(Worker) /\ Append(pending, w) \in Seq(Worker)
    BY ConcatProperties, AppendProperties DEF GuiOK
  <2> QED BY <1>6, <2>1 DEF Notify, GuiOK
<1>7. ASSUME NEW w \in Worker, Post(w) \/ WaitToPost(w) PROVE GuiOK'
  BY <1>7 DEF Post, WaitToPost, GuiOK
<1> QED BY <1>1, <1>2, <1>3, <1>4, <1>5, <1>6, <1>7, GuiChange

(* Every step keeps the types.                                             *)
LEMMA TypeStep == TypeOK /\ [Next]_vars => TypeOK'
BY WorkersType, HandlesType, QueuesType, WaitsType, GuiType DEF TypeOK

(* The workers keep their types: in particular the queues never hold more  *)
(* than MAX_MESSAGES messages.                                             *)
THEOREM TypeCorrect == Spec => []TypeOK
BY TypeInit, TypeStep, PTL DEF Spec

-----------------------------------------------------------------------------
(* Nothing is left behind                                                  *)

(* The types that the argument needs.                                      *)
Fields ==
    /\ thread \in [Worker -> Threads]
    /\ finished \in [Worker -> BOOLEAN]
    /\ output \in [Worker -> Int]
    /\ rooted \in [Worker -> BOOLEAN]

(* The types of single fields, which the other proofs use.                 *)
LEMMA FieldsType == TypeOK => Fields
BY WorkerAssumption DEF TypeOK, WorkersOK, HandlesOK, QueuesOK, Fields

(* A worker is finished when its thread says so, and from then on its      *)
(* thread neither sends nor receives.                                      *)
FinishedAtTheEnd ==
    \A w \in Worker :
        /\ thread[w] \in {"none", "params", "run", "room", "message"} => ~finished[w]
        /\ thread[w] = "free" => finished[w]

(* The inductive invariant.                                                *)
LeftBehindInv == FinishedAtTheEnd /\ NothingLeftBehind

(* Nothing is left behind at the start.                                    *)
LEMMA LeftBehindInit == Init => LeftBehindInv
  BY DEF Init, LeftBehindInv, Fields, FinishedAtTheEnd, NothingLeftBehind, Threads

(* The steps of the thread of one worker.                                  *)
LEMMA LeftBehindThread ==
    ASSUME Fields, Fields', LeftBehindInv, NEW w \in Worker, ThreadStep(w)
    PROVE  LeftBehindInv'
  <1> USE DEF LeftBehindInv, Fields, FinishedAtTheEnd, NothingLeftBehind, Threads, handles,
              queues
  <1>1. CASE Begin(w)
    BY <1>1 DEF Begin
  <1>2. CASE End(w)
    BY <1>2 DEF End
  <1>3. CASE Send(w)
    <2>1. rooted[w]
      BY <1>3 DEF Send, Sending
    <2>2. PICK copied \in {0, 1} : output' = [output EXCEPT ![w] = @ + copied]
      BY <1>3 DEF Send
    <2>3. output' \in [Worker -> Int] /\ \A v \in Worker \ {w} : output'[v] = output[v]
      BY <2>2
    <2> QED  BY <1>3, <2>1, <2>3 DEF Send, Sending
  <1>4. CASE WaitForRoom(w)
    BY <1>4 DEF WaitForRoom, Sending
  <1>5. CASE AddReference(w)
    BY <1>5 DEF AddReference
  <1>6. CASE Notify(w)
    BY <1>6 DEF Notify
  <1>7. CASE Receive(w)
    BY <1>7 DEF Receive, Receiving
  <1>8. CASE WaitForMessage(w)
    BY <1>8 DEF WaitForMessage, Receiving
  <1>9. CASE GiveUpReceive(w)
    BY <1>9 DEF GiveUpReceive, Receiving
  <1>10. CASE FreeByThread(w)
    BY <1>10 DEF FreeByThread
  <1> QED
    BY <1>1, <1>2, <1>3, <1>4, <1>5, <1>6, <1>7, <1>8, <1>9, <1>10 DEF ThreadStep

(* The steps of the GUI thread.                                            *)
LEMMA LeftBehindGui ==
    ASSUME Fields, Fields', LeftBehindInv, GuiStep
    PROVE  LeftBehindInv'
  <1> USE DEF LeftBehindInv, Fields, FinishedAtTheEnd, NothingLeftBehind, Threads, handles,
              queues
  <1>1. CASE TakeNotification
    BY <1>1 DEF TakeNotification
  <1>2. CASE PollingDone
    BY <1>2 DEF PollingDone
  <1>3. CASE CallbackReturns
    BY <1>3 DEF CallbackReturns
  <1>4. CASE FreeByGui
    BY <1>4 DEF FreeByGui
  <1>5. ASSUME NEW w \in Worker, Deliver(w)
        PROVE  LeftBehindInv'
    <2>1. rooted[w]
      BY <1>5 DEF Deliver
    <2>2. PICK left \in 0..(output[w] - 1) : output' = [output EXCEPT ![w] = left]
      BY <1>5 DEF Deliver
    <2> QED  BY <1>5, <2>1, <2>2 DEF Deliver
  <1>6. ASSUME NEW w \in Worker, NoMore(w)
        PROVE  LeftBehindInv'
    BY <1>6 DEF NoMore
  <1> QED
    BY <1>1, <1>2, <1>3, <1>4, <1>5, <1>6 DEF GuiStep

(* Every step keeps LeftBehindInv.                                         *)
LEMMA LeftBehindStep == Fields /\ Fields' /\ LeftBehindInv /\ [Next]_vars => LeftBehindInv'
  <1> SUFFICES ASSUME Fields, Fields', LeftBehindInv, [Next]_vars
               PROVE  LeftBehindInv'
    OBVIOUS
  <1>1. CASE GuiStep
    BY <1>1, LeftBehindGui
  <1>2. ASSUME NEW w \in Worker, ThreadStep(w)
        PROVE  LeftBehindInv'
    BY <1>2, LeftBehindThread
  <1> USE DEF LeftBehindInv, Fields, FinishedAtTheEnd, NothingLeftBehind, Threads, handles,
              queues
  <1>3. ASSUME NEW w \in Worker,
               \/ WaitForEvent(w, "gui") \/ WaitForEvent(w, "thread")
               \/ Expire(w) \/ WakeSpuriously(w)
        PROVE  LeftBehindInv'
    BY <1>3 DEF WaitForEvent, Expire, WakeSpuriously
  <1>4. ASSUME NEW w \in Worker, Create(w)
        PROVE  LeftBehindInv'
    BY <1>4 DEF Create
  <1>5. ASSUME NEW w \in Worker, GuiSends(w) \/ Forget(w) \/ Collect(w)
        PROVE  LeftBehindInv'
    BY <1>5 DEF GuiSends, Post, WaitToPost, Forget, Collect
  <1>6. CASE UNCHANGED vars
    BY <1>6 DEF vars
  <1> QED
    BY <1>1, <1>2, <1>3, <1>4, <1>5, <1>6 DEF Next

(* When the GUI lets go of the handle of a worker and of the data of its   *)
(* callback, the worker has ended and none of its messages is left         *)
(* (worker_notify_func): with any number of workers and messages, however  *)
(* notifications are merged or nested.                                     *)
THEOREM ReleasedAfterTheLastMessage == Spec => []NothingLeftBehind
  <1>1. LeftBehindInv => NothingLeftBehind
    BY DEF LeftBehindInv
  <1> QED
    BY <1>1, TypeCorrect, FieldsType, LeftBehindInit, LeftBehindStep, PTL DEF Spec

-----------------------------------------------------------------------------
(* Counting in a sequence                                                  *)

Spots(s, n, w) == {i \in 1..n : s[i] = w}

(* The spots of a value in a sequence are finitely many.                   *)
LEMMA SpotsCounted ==
    ASSUME NEW s, NEW n \in Nat, NEW w
    PROVE  /\ IsFiniteSet(Spots(s, n, w))
           /\ Cardinality(Spots(s, n, w)) \in Nat
           /\ Cardinality(Spots(s, n, w)) = 0 <=> \A i \in 1..n : s[i] # w
<1>1. IsFiniteSet(1..n) BY FS_Interval
<1>2. Spots(s, n, w) \in SUBSET (1..n) BY DEF Spots
<1>3. IsFiniteSet(Spots(s, n, w)) BY <1>1, <1>2, FS_Subset
<1>4. Cardinality(Spots(s, n, w)) \in Nat BY <1>3, FS_CardinalityType
<1>5. Cardinality(Spots(s, n, w)) = 0 <=> Spots(s, n, w) = {} BY <1>3, FS_EmptySet
<1>6. Spots(s, n, w) = {} <=> \A i \in 1..n : s[i] # w BY DEF Spots
<1> QED BY <1>3, <1>4, <1>5, <1>6

(* One more spot at the end.                                               *)
LEMMA AddAtEnd ==
    ASSUME NEW s, NEW t, NEW n \in Nat, NEW w, \A i \in 1..n : t[i] = s[i]
    PROVE  Cardinality(Spots(t, n + 1, w))
             = Cardinality(Spots(s, n, w)) + (IF t[n + 1] = w THEN 1 ELSE 0)
<1>1. CASE t[n + 1] = w
  <2>1. Spots(t, n + 1, w) = Spots(s, n, w) \cup {n + 1} BY <1>1 DEF Spots
  <2>2. n + 1 \notin Spots(s, n, w) BY DEF Spots
  <2> QED BY <1>1, <2>1, <2>2, SpotsCounted, FS_AddElement
<1>2. CASE t[n + 1] # w
  <2>1. Spots(t, n + 1, w) = Spots(s, n, w) BY <1>2 DEF Spots
  <2> QED BY <1>2, <2>1, SpotsCounted
<1> QED BY <1>1, <1>2

(* One more spot in front, the others one further.                         *)
LEMMA AddInFront ==
    ASSUME NEW s, NEW t, NEW n \in Nat, NEW w, \A i \in 1..n : t[i + 1] = s[i]
    PROVE  Cardinality(Spots(t, n + 1, w))
             = Cardinality(Spots(s, n, w)) + (IF t[1] = w THEN 1 ELSE 0)
<1> DEFINE S == Spots(s, n, w)
           T == Spots(t, n + 1, w) \ {1}
           shift == [i \in S |-> i + 1]
<1>1. IsFiniteSet(S) /\ Cardinality(S) \in Nat BY SpotsCounted
<1>2. shift \in [S -> T] BY DEF Spots
<1>3. \A a, b \in S : shift[a] = shift[b] => a = b BY DEF Spots
<1>4. ASSUME NEW j \in T PROVE \E i \in S : shift[i] = j
  <2>1. j - 1 \in 1..n /\ (j - 1) + 1 = j BY DEF Spots
  <2>2. j - 1 \in S BY <2>1 DEF Spots
  <2> QED BY <2>1, <2>2
<1> HIDE DEF shift, S, T
<1>5. shift \in Bijection(S, T) BY <1>2, <1>3, <1>4, Fun_IsBij
<1>6. IsFiniteSet(T) /\ Cardinality(T) = Cardinality(S)
  BY <1>1, <1>5, FS_Bijection DEF ExistsBijection
<1>7. CASE t[1] = w
  <2>1. Spots(t, n + 1, w) = T \cup {1} /\ 1 \notin T BY <1>7 DEF Spots, T
  <2> QED BY <1>1, <1>6, <1>7, <2>1, FS_AddElement DEF S
<1>8. CASE t[1] # w
  <2>1. Spots(t, n + 1, w) = T BY <1>8 DEF Spots, T
  <2> QED BY <1>1, <1>6, <1>8, <2>1 DEF S
<1> QED BY <1>7, <1>8

(* How often a worker occurs in a list of workers, and in a list of calls. *)
Occurrences(s, w) == Cardinality(Spots(s, Len(s), w))

Names(f) == [i \in 1..Len(f) |-> f[i].worker]

(* How often a value occurs is a number.                                   *)
LEMMA OccurrencesType ==
    ASSUME NEW S, NEW s \in Seq(S), NEW w
    PROVE  /\ Occurrences(s, w) \in Nat
           /\ Occurrences(s, w) = 0 <=> \A i \in 1..Len(s) : s[i] # w
BY LenProperties, SpotsCounted DEF Occurrences

(* It grows by one with an append of that value,                           *)
LEMMA OccurrencesAppend ==
    ASSUME NEW S, NEW s \in Seq(S), NEW v \in S, NEW w
    PROVE  Occurrences(Append(s, v), w) = Occurrences(s, w) + (IF v = w THEN 1 ELSE 0)
<1> DEFINE t == Append(s, v)
           n == Len(s)
<1>1. n \in Nat /\ Len(t) = n + 1 /\ t[n + 1] = v /\ \A i \in 1..n : t[i] = s[i]
  BY AppendProperties, LenProperties
<1> HIDE DEF t, n
<1>2. Cardinality(Spots(t, n + 1, w))
        = Cardinality(Spots(s, n, w)) + (IF t[n + 1] = w THEN 1 ELSE 0)
  BY SMTT(40), <1>1, AddAtEnd
<1>3. Occurrences(t, w) = Cardinality(Spots(t, n + 1, w))
      /\ Occurrences(s, w) = Cardinality(Spots(s, n, w))
  BY <1>1 DEF Occurrences, n
<1> QED BY <1>1, <1>2, <1>3 DEF t

(* or with that value in front,                                            *)
LEMMA OccurrencesPrepend ==
    ASSUME NEW S, NEW s \in Seq(S), NEW v \in S, NEW w
    PROVE  Occurrences(<<v>> \o s, w) = Occurrences(s, w) + (IF v = w THEN 1 ELSE 0)
<1> DEFINE t == <<v>> \o s
           n == Len(s)
<1>1. <<v>> \in Seq(S) /\ Len(<<v>>) = 1 /\ <<v>>[1] = v OBVIOUS
<1>2. /\ Len(t) = 1 + n
      /\ \A i \in 1..(1 + n) : t[i] = IF i <= 1 THEN <<v>>[i] ELSE s[i - 1]
  BY <1>1, ConcatProperties
<1>3. n \in Nat BY LenProperties
<1> HIDE DEF t, n
<1>4. Len(t) = n + 1 /\ t[1] = v BY <1>1, <1>2, <1>3
<1>5. ASSUME NEW i \in 1..n PROVE t[i + 1] = s[i]
  <2>1. i + 1 \in 1..(1 + n) /\ ~(i + 1 <= 1) /\ (i + 1) - 1 = i BY <1>3
  <2> QED BY <1>2, <2>1
<1>6. Cardinality(Spots(t, n + 1, w))
        = Cardinality(Spots(s, n, w)) + (IF t[1] = w THEN 1 ELSE 0)
  BY <1>3, <1>5, AddInFront
<1>7. Occurrences(t, w) = Cardinality(Spots(t, n + 1, w))
      /\ Occurrences(s, w) = Cardinality(Spots(s, n, w))
  BY <1>4 DEF Occurrences, n
<1> QED BY <1>4, <1>6, <1>7 DEF t

(* and shrinks by one without the first, if that is it.                    *)
LEMMA OccurrencesTail ==
    ASSUME NEW S, NEW s \in Seq(S), s # <<>>, NEW w
    PROVE  Occurrences(s, w) = Occurrences(Tail(s), w) + (IF Head(s) = w THEN 1 ELSE 0)
<1> DEFINE t == Tail(s)
           n == Len(t)
<1>1. t \in Seq(S) /\ n = Len(s) - 1 /\ (\A i \in 1..n : t[i] = s[i + 1]) /\ Head(s) = s[1]
  BY HeadTailProperties
<1>2. n \in Nat /\ Len(s) = n + 1 BY <1>1, EmptySeq, LenProperties
<1> HIDE DEF t, n
<1>3. Cardinality(Spots(s, n + 1, w))
        = Cardinality(Spots(t, n, w)) + (IF s[1] = w THEN 1 ELSE 0)
  BY SMTT(40), <1>1, <1>2, AddInFront
<1> QED BY <1>1, <1>2, <1>3 DEF Occurrences, t, n

(* The workers of a sequence of frames.                                    *)
LEMMA NamesType ==
    ASSUME NEW f \in Seq([worker : Worker, at : Places])
    PROVE  /\ Names(f) \in Seq(Worker) /\ Len(Names(f)) = Len(f)
           /\ \A i \in 1..Len(f) : Names(f)[i] = f[i].worker
<1>1. Len(f) \in Nat BY LenProperties
<1>2. ASSUME NEW i \in 1..Len(f) PROVE f[i].worker \in Worker
  <2>1. f[i] \in [worker : Worker, at : Places] BY ElementOfSeq
  <2> QED BY <2>1
<1> QED BY <1>1, <1>2, IsASeq DEF Names

(* One frame more names one worker more.                                   *)
LEMMA NamesAppend ==
    ASSUME NEW f \in Seq([worker : Worker, at : Places]), NEW r \in [worker : Worker, at : Places]
    PROVE  Names(Append(f, r)) = Append(Names(f), r.worker)
<1> DEFINE g == Append(f, r)
           n == Len(f)
<1>1. /\ n \in Nat /\ g \in Seq([worker : Worker, at : Places]) /\ Len(g) = n + 1
      /\ g[n + 1] = r /\ \A i \in 1..n : g[i] = f[i]
  BY AppendProperties, LenProperties
<1>2. r.worker \in Worker OBVIOUS
<1>3. /\ Names(f) \in Seq(Worker) /\ Len(Names(f)) = n /\ \A i \in 1..n : Names(f)[i] = f[i].worker
  BY NamesType
<1> HIDE DEF g, n
<1>4. /\ Names(g) \in Seq(Worker) /\ Len(Names(g)) = n + 1
      /\ \A i \in 1..(n + 1) : Names(g)[i] = g[i].worker
  BY <1>1, NamesType
<1> DEFINE h == Append(Names(f), r.worker)
<1>5. /\ h \in Seq(Worker) /\ Len(h) = n + 1 /\ h[n + 1] = r.worker
      /\ \A i \in 1..n : h[i] = Names(f)[i]
  BY <1>2, <1>3, AppendProperties
<1> HIDE DEF h
<1>6. ASSUME NEW i \in 1..(n + 1) PROVE Names(g)[i] = h[i]
  <2>1. CASE i = n + 1 BY <1>1, <1>4, <1>5, <2>1
  <2>2. CASE i \in 1..n BY ZenonT(60), <1>1, <1>3, <1>4, <1>5, <2>2
  <2> QED BY <1>1, <2>1, <2>2
<1> QED BY <1>4, <1>5, <1>6, SeqEqual DEF g, h

(* The last frame names the last worker.                                   *)
LEMMA NamesFront ==
    ASSUME NEW f \in Seq([worker : Worker, at : Places]), f # <<>>
    PROVE  Names(f) = Append(Names(SubSeq(f, 1, Len(f) - 1)), f[Len(f)].worker)
<1> DEFINE R == [worker : Worker, at : Places]
           n == Len(f) - 1
           front == SubSeq(f, 1, n)
           last == f[Len(f)]
<1>1. n \in Nat /\ Len(f) = n + 1 BY EmptySeq, LenProperties
<1> HIDE DEF R, n
<1>2. ASSUME NEW i \in 1..Len(f) PROVE f[i] \in R BY ElementOfSeq DEF R
<1>3. \A i \in 1..n : f[i] \in R BY <1>1, <1>2
<1>4. /\ front \in Seq(R)
      /\ Len(front) = IF 1 <= n THEN n - 1 + 1 ELSE 0
      /\ \A i \in 1..(n - 1 + 1) : front[i] = f[1 + i - 1]
  BY <1>1, <1>3, SubSeqProperties
<1>5. Len(front) = n /\ \A i \in 1..n : front[i] = f[i] BY <1>1, <1>4
<1>6. last \in R BY <1>1, <1>2
<1> HIDE DEF front, last
<1> DEFINE g == Append(front, last)
<1>7. g \in Seq(R) /\ Len(g) = n + 1 /\ g[n + 1] = last /\ \A i \in 1..n : g[i] = front[i]
  BY <1>4, <1>5, <1>6, AppendProperties
<1> HIDE DEF g
<1>8. ASSUME NEW i \in 1..(n + 1) PROVE g[i] = f[i]
  <2>1. CASE i = n + 1 BY <1>1, <1>7, <2>1 DEF last
  <2>2. CASE i \in 1..n BY <1>5, <1>7, <2>2
  <2> QED BY <1>1, <2>1, <2>2
<1>9. g = f BY <1>1, <1>7, <1>8, SeqEqual DEF R
<1>10. Names(g) = Append(Names(front), last.worker)
  BY <1>4, <1>6, NamesAppend DEF R, g
<1> QED BY <1>9, <1>10 DEF front, last, n

(* A frame that goes to another place names the same worker.               *)
LEMMA NamesExcept ==
    ASSUME NEW f \in Seq([worker : Worker, at : Places]), NEW i \in 1..Len(f), NEW place \in Places
    PROVE  Names([f EXCEPT ![i].at = place]) = Names(f)
<1> DEFINE r == [worker |-> f[i].worker, at |-> place]
           g == [f EXCEPT ![i] = r]
<1>1. f[i] \in [worker : Worker, at : Places] BY ElementOfSeq
<1>2. r \in [worker : Worker, at : Places] /\ [f[i] EXCEPT !.at = place] = r BY <1>1
<1>3. [f EXCEPT ![i].at = place] = [f EXCEPT ![i] = [f[i] EXCEPT !.at = place]] BY Zenon
<1>4. [f EXCEPT ![i].at = place] = g BY <1>2, <1>3
<1>5. r.worker = f[i].worker OBVIOUS
<1> HIDE DEF r
<1>6. /\ g \in Seq([worker : Worker, at : Places]) /\ Len(g) = Len(f)
      /\ \A j \in 1..Len(f) : g[j] = IF j = i THEN r ELSE f[j]
  BY <1>2, ExceptSeq
<1> HIDE DEF g
<1>7. \A j \in 1..Len(f) : g[j].worker = f[j].worker BY <1>5, <1>6
<1>8. Names(g) = Names(f) BY <1>6, <1>7 DEF Names
<1> QED BY <1>4, <1>8

-----------------------------------------------------------------------------
(* The count of references                                                 *)

(* Notifications of a worker on their way, and under way.                  *)
Notified(w) == Occurrences(pending, w)
Called(w) == Occurrences(Names(frames), w)

(* A thread has a reference, and one more for the notification it sends.   *)
OfThread(w) ==
    IF thread[w] \in {"none", "done"} THEN 0
    ELSE IF thread[w] = "notify" THEN 2 ELSE 1

OfHandle(w) == IF handle[w] THEN 1 ELSE 0

(* On GTK the list has a reference besides the notification.               *)
OfNotification == IF platform = "gtk" THEN 2 ELSE 1

Counted ==
    \A w \in Worker :
        refcnt[w] = OfThread(w) + OfHandle(w) + merged[w]
                      + OfNotification * (Notified(w) + Called(w))

(* The calls on GTK come from worker_notify_callbacks.                     *)
CalledByPolling == frames # <<>> => polling = (platform = "gtk")

NothingYet == \A w \in Worker : thread[w] = "none" => refcnt[w] = 0

(* The inductive invariant.                                                *)
CountInv == Counted /\ CalledByPolling /\ NothingYet

(* The references are numbers; they are zero where there is none.          *)
LEMMA CountsType ==
    ASSUME TypeOK, NEW w \in Worker
    PROVE  /\ Notified(w) \in Nat /\ Called(w) \in Nat
           /\ OfThread(w) \in Nat /\ OfHandle(w) \in Nat /\ merged[w] \in Nat
           /\ refcnt[w] \in Int
           /\ OfNotification \in {1, 2}
           /\ Notified(w) = 0 <=> ~Listed(w)
           /\ Called(w) = 0 <=> \A i \in DOMAIN frames : frames[i].worker # w
<1>1. pending \in Seq(Worker) /\ frames \in Seq([worker : Worker, at : Places])
  BY DEF TypeOK, GuiOK
<1>2. DOMAIN pending = 1..Len(pending) /\ DOMAIN frames = 1..Len(frames)
  BY <1>1, LenProperties
<1>3. Notified(w) \in Nat /\ (Notified(w) = 0 <=> ~Listed(w))
  BY <1>1, <1>2, OccurrencesType DEF Notified, Listed
<1>4. Called(w) \in Nat /\ (Called(w) = 0 <=> \A i \in DOMAIN frames : frames[i].worker # w)
  <2>1. /\ Names(frames) \in Seq(Worker) /\ Len(Names(frames)) = Len(frames)
        /\ \A i \in 1..Len(frames) : Names(frames)[i] = frames[i].worker
    BY <1>1, NamesType
  <2>2. Called(w) \in Nat /\ (Called(w) = 0 <=> \A i \in 1..Len(Names(frames)) : Names(frames)[i] # w)
    BY <2>1, OccurrencesType DEF Called
  <2> QED BY <1>2, <2>1, <2>2
<1>5. OfThread(w) \in Nat /\ OfHandle(w) \in Nat /\ merged[w] \in Nat /\ refcnt[w] \in Int
  BY DEF TypeOK, WorkersOK, OfThread, OfHandle
<1> QED BY <1>3, <1>4, <1>5 DEF OfNotification

(* At the start there is no worker, and no reference.                      *)
LEMMA CountInit == Init => CountInv
<1> SUFFICES ASSUME Init PROVE CountInv
  OBVIOUS
<1>1. TypeOK BY TypeInit
<1>2. ASSUME NEW w \in Worker
      PROVE  /\ Notified(w) = 0 /\ Called(w) = 0
             /\ refcnt[w] = 0 /\ merged[w] = 0 /\ OfThread(w) = 0 /\ OfHandle(w) = 0
  <2>1. ~Listed(w) /\ DOMAIN frames = {} BY DEF Init, Listed
  <2>2. Notified(w) = 0 /\ Called(w) = 0 BY <1>1, <2>1, CountsType
  <2> QED BY <2>2 DEF Init, OfThread, OfHandle
<1>3. OfNotification \in {1, 2} BY DEF OfNotification
<1>4. Counted BY <1>2, <1>3 DEF Counted
<1> QED BY <1>2, <1>4 DEF CountInv, CalledByPolling, NothingYet, Init

(* Steps that leave the notifications alone, and what they may do.         *)
LEMMA CountUnmoved ==
    ASSUME UNCHANGED <<platform, pending, frames>>
    PROVE  /\ OfNotification' = OfNotification
           /\ \A w \in Worker : Notified(w)' = Notified(w) /\ Called(w)' = Called(w)
BY DEF OfNotification, Notified, Called

(* A step that takes or drops references of one worker, in its thread, its *)
(* handle or the lost ones, and counts them, keeps the sum.                *)
LEMMA CountedWhileUnmoved ==
    ASSUME TypeOK, TypeOK', Counted, UNCHANGED <<platform, pending, frames>>,
           NEW w \in Worker, NEW d \in Int,
           refcnt' = [refcnt EXCEPT ![w] = @ + d],
           OfThread(w)' + OfHandle(w)' + merged'[w] = OfThread(w) + OfHandle(w) + merged[w] + d,
           \A v \in Worker \ {w} : /\ thread'[v] = thread[v] /\ handle'[v] = handle[v]
                                   /\ merged'[v] = merged[v]
    PROVE  Counted'
<1> SUFFICES ASSUME NEW v \in Worker
             PROVE  refcnt'[v] = OfThread(v)' + OfHandle(v)' + merged'[v]
                        + OfNotification' * (Notified(v)' + Called(v)')
  BY DEF Counted
<1>1. refcnt[v] = OfThread(v) + OfHandle(v) + merged[v]
                      + OfNotification * (Notified(v) + Called(v))
  BY DEF Counted
<1> DEFINE moving == OfNotification * (Notified(v) + Called(v))
<1>2. moving \in Nat /\ moving' = moving
  <2>1. moving \in Nat BY CountsType
  <2> QED BY <2>1, CountUnmoved
<1> HIDE DEF moving
<1>3. /\ OfThread(v) \in Nat /\ OfHandle(v) \in Nat /\ merged[v] \in Nat /\ refcnt[v] \in Int
      /\ OfThread(w) \in Nat /\ OfHandle(w) \in Nat /\ merged[w] \in Nat
  BY CountsType
<1>4. OfThread(v)' \in Nat /\ OfHandle(v)' \in Nat /\ merged'[v] \in Nat
  BY DEF TypeOK, WorkersOK, OfThread, OfHandle
<1>5. CASE v = w
  <2>1. refcnt'[v] = refcnt[v] + d BY <1>5 DEF TypeOK, WorkersOK
  <2> QED BY <1>1, <1>2, <1>3, <1>4, <1>5, <2>1 DEF moving
<1>6. CASE v # w
  <2>1. refcnt'[v] = refcnt[v] /\ merged'[v] = merged[v] BY <1>6 DEF TypeOK, WorkersOK
  <2>2. OfThread(v)' = OfThread(v) /\ OfHandle(v)' = OfHandle(v)
    BY <1>6 DEF OfThread, OfHandle
  <2> QED BY <1>1, <1>2, <2>1, <2>2 DEF moving
<1> QED BY <1>5, <1>6

(* A step that changes no count at all.                                    *)
LEMMA CountedStays ==
    ASSUME Counted, UNCHANGED <<platform, pending, refcnt, handle, merged>>,
           Names(frames') = Names(frames),
           \A v \in Worker : OfThread(v)' = OfThread(v)
    PROVE  Counted'
BY DEF Counted, OfNotification, OfHandle, Notified, Called

(* The steps of the thread of a worker.                                    *)
LEMMA CountThread ==
    ASSUME TypeOK, TypeOK', CountInv, NEW w \in Worker, ThreadStep(w)
    PROVE  CountInv'
<1> USE DEF CountInv
<1>1. UNCHANGED <<platform, frames, polling, handle>>
  BY DEF ThreadStep, Begin, End, Send, WaitForRoom, AddReference, Notify, Receive,
         WaitForMessage, GiveUpReceive, FreeByThread, handles, gui
<1>2. CalledByPolling' BY <1>1 DEF CalledByPolling
<1>3. /\ thread[w] # "none" /\ thread'[w] # "none"
      /\ \A v \in Worker \ {w} : thread'[v] = thread[v] /\ refcnt'[v] = refcnt[v]
                                 /\ merged'[v] = merged[v]
  <2> USE DEF TypeOK, WorkersOK
  <2>1. CASE Begin(w) \/ End(w) \/ Send(w) BY <2>1 DEF Begin, End, Send, Sending
  <2>2. CASE WaitForRoom(w) \/ Receive(w) \/ WaitForMessage(w) \/ GiveUpReceive(w)
    BY <2>2 DEF WaitForRoom, Receive, WaitForMessage, GiveUpReceive, Sending, Receiving
  <2>3. CASE AddReference(w) \/ FreeByThread(w) BY <2>3 DEF AddReference, FreeByThread
  <2>4. CASE Notify(w) BY <2>4 DEF Notify
  <2> QED BY <2>1, <2>2, <2>3, <2>4 DEF ThreadStep
<1>4. NothingYet' BY <1>3 DEF NothingYet
<1>5. CASE \/ Begin(w) \/ End(w) \/ Send(w) \/ WaitForRoom(w) \/ Receive(w)
           \/ WaitForMessage(w) \/ GiveUpReceive(w)
  <2>1. UNCHANGED <<pending, refcnt, merged>>
    BY <1>5 DEF Begin, End, Send, WaitForRoom, Receive, WaitForMessage, GiveUpReceive, gui
  <2>2. OfThread(w)' = OfThread(w)
    <3> USE DEF TypeOK, WorkersOK, OfThread
    <3>1. CASE Begin(w) \/ End(w) \/ Send(w) BY <3>1 DEF Begin, End, Send, Sending
    <3>2. CASE WaitForRoom(w) \/ Receive(w) \/ WaitForMessage(w) \/ GiveUpReceive(w)
      BY <3>2 DEF WaitForRoom, Receive, WaitForMessage, GiveUpReceive, Sending, Receiving
    <3> QED BY <1>5, <3>1, <3>2
  <2>3. \A v \in Worker : OfThread(v)' = OfThread(v) BY <1>3, <2>2 DEF OfThread
  <2>4. Counted' BY <1>1, <2>1, <2>3, CountedStays
  <2> QED BY <1>2, <1>4, <2>4
<1>6. CASE AddReference(w)
  <2>1. OfThread(w)' = OfThread(w) + 1 /\ OfHandle(w)' = OfHandle(w)
    BY <1>6 DEF AddReference, OfThread, OfHandle, TypeOK, WorkersOK, handles
  <2>2. OfThread(w) \in Nat /\ OfHandle(w) \in Nat /\ merged[w] \in Nat BY CountsType
  <2>3. /\ refcnt' = [refcnt EXCEPT ![w] = @ + 1] /\ merged' = merged
        /\ UNCHANGED <<platform, pending, frames>>
    BY <1>1, <1>6 DEF AddReference, gui
  <2>4. OfThread(w)' + OfHandle(w)' + merged'[w] = OfThread(w) + OfHandle(w) + merged[w] + 1
    BY <2>1, <2>2, <2>3
  <2>5. \A v \in Worker \ {w} : /\ thread'[v] = thread[v] /\ handle'[v] = handle[v]
                                /\ merged'[v] = merged[v]
    BY <1>1, <1>3
  <2>6. 1 \in Int OBVIOUS
  <2>7. Counted' BY <2>3, <2>4, <2>5, <2>6, CountedWhileUnmoved
  <2> QED BY <1>2, <1>4, <2>7
<1>7. CASE FreeByThread(w)
  <2>1. OfThread(w)' = OfThread(w) - 1 /\ OfHandle(w)' = OfHandle(w)
    BY <1>7 DEF FreeByThread, OfThread, OfHandle, TypeOK, WorkersOK, handles
  <2>2. OfThread(w) \in Nat /\ OfHandle(w) \in Nat /\ merged[w] \in Nat BY CountsType
  <2>3. refcnt' = [refcnt EXCEPT ![w] = @ + (-1)]
    BY <1>7 DEF FreeByThread, TypeOK, WorkersOK
  <2>4. UNCHANGED <<platform, pending, frames>> /\ merged' = merged
    BY <1>1, <1>7 DEF FreeByThread, gui
  <2>5. OfThread(w)' + OfHandle(w)' + merged'[w] = OfThread(w) + OfHandle(w) + merged[w] + (-1)
    BY <2>1, <2>2, <2>4
  <2>6. \A v \in Worker \ {w} : /\ thread'[v] = thread[v] /\ handle'[v] = handle[v]
                                /\ merged'[v] = merged[v]
    BY <1>1, <1>3
  <2>7. -1 \in Int OBVIOUS
  <2>8. Counted' BY <2>3, <2>4, <2>5, <2>6, <2>7, CountedWhileUnmoved
  <2> QED BY <1>2, <1>4, <2>8
<1>8. CASE Notify(w)
  <2>1. /\ OfThread(w)' = 1 /\ OfThread(w) = 2
        /\ \A v \in Worker \ {w} : OfThread(v)' = OfThread(v)
        /\ \A v \in Worker : OfHandle(v)' = OfHandle(v) /\ Called(v)' = Called(v)
        /\ OfNotification' = OfNotification
    BY <1>1, <1>3, <1>8 DEF Notify, OfThread, OfHandle, Called, OfNotification, TypeOK, WorkersOK
  <2>2. CASE platform = "gtk" /\ Listed(w)
    <3>1. /\ UNCHANGED <<platform, pending, frames>> /\ refcnt' = [refcnt EXCEPT ![w] = @ + 0]
          /\ merged'[w] = merged[w] + 1
      BY <1>1, <1>8, <2>2 DEF Notify, TypeOK, WorkersOK
    <3>2. OfHandle(w) \in Nat /\ merged[w] \in Nat BY CountsType
    <3>3. OfThread(w)' + OfHandle(w)' + merged'[w] = OfThread(w) + OfHandle(w) + merged[w] + 0
      BY <2>1, <3>1, <3>2
    <3>4. \A v \in Worker \ {w} : /\ thread'[v] = thread[v] /\ handle'[v] = handle[v]
                                  /\ merged'[v] = merged[v]
      BY <1>1, <1>3
    <3>5. 0 \in Int OBVIOUS
    <3>6. Counted' BY <3>1, <3>3, <3>4, <3>5, CountedWhileUnmoved
    <3> QED BY <1>2, <1>4, <3>6
  <2>3. CASE ~(platform = "gtk" /\ Listed(w))
    <3>1. /\ merged' = merged
          /\ pending' = Append(pending, w) \/ pending' = <<w>> \o pending
          /\ refcnt'[w] = refcnt[w] + OfNotification - 1
      BY <1>8, <2>3, WorkerAssumption DEF Notify, OfNotification, TypeOK, WorkersOK
    <3>2. ASSUME NEW v \in Worker
          PROVE  Notified(v)' = Notified(v) + (IF w = v THEN 1 ELSE 0)
      <4>1. pending \in Seq(Worker) BY DEF TypeOK, GuiOK
      <4>2. /\ Occurrences(Append(pending, w), v) = Notified(v) + (IF w = v THEN 1 ELSE 0)
            /\ Occurrences(<<w>> \o pending, v) = Notified(v) + (IF w = v THEN 1 ELSE 0)
        BY <4>1, OccurrencesAppend, OccurrencesPrepend DEF Notified
      <4>3. Notified(v)' = Occurrences(pending', v) BY DEF Notified
      <4>4. CASE pending' = Append(pending, w) BY <4>2, <4>3, <4>4
      <4>5. CASE pending' = <<w>> \o pending BY <4>2, <4>3, <4>5
      <4> QED BY <3>1, <4>4, <4>5
    <3>3. ASSUME NEW v \in Worker
          PROVE  refcnt'[v] = OfThread(v)' + OfHandle(v)' + merged'[v]
                                + OfNotification' * (Notified(v)' + Called(v)')
      <4>1. refcnt[v] = OfThread(v) + OfHandle(v) + merged[v]
                            + OfNotification * (Notified(v) + Called(v))
        BY DEF Counted
      <4>2. /\ OfThread(v) \in Nat /\ OfHandle(v) \in Nat /\ merged[v] \in Nat
            /\ refcnt[v] \in Int /\ Notified(v) \in Nat /\ Called(v) \in Nat
            /\ OfNotification \in {1, 2}
        BY CountsType
      <4>3. CASE v = w
        <5>1. Notified(v)' = Notified(v) + 1 BY <3>2, <4>3
        <5>2. /\ OfThread(v)' = 1 /\ OfThread(v) = 2 /\ OfHandle(v)' = OfHandle(v)
              /\ Called(v)' = Called(v) /\ OfNotification' = OfNotification
              /\ merged'[v] = merged[v] /\ refcnt'[v] = refcnt[v] + OfNotification - 1
          BY <2>1, <3>1, <4>3
        <5>3. CASE OfNotification = 1 BY <4>1, <4>2, <5>1, <5>2, <5>3
        <5>4. CASE OfNotification = 2 BY <4>1, <4>2, <5>1, <5>2, <5>4
        <5> QED BY <4>2, <5>3, <5>4
      <4>4. CASE v # w
        <5>1. Notified(v)' = Notified(v) BY <3>2, <4>2, <4>4
        <5> QED BY <1>3, <2>1, <4>1, <4>4, <5>1
      <4> QED BY <4>3, <4>4
    <3> QED BY <1>2, <1>4, <3>3 DEF Counted
  <2> QED BY <2>2, <2>3
<1> QED BY <1>5, <1>6, <1>7, <1>8 DEF ThreadStep

(* A worker is counted at least for the call that is about it.             *)
LEMMA CountFrames ==
    ASSUME TypeOK, frames # <<>>
    PROVE  /\ Names(frames) = Append(Names(SubSeq(frames, 1, Len(frames) - 1)), Innermost.worker)
           /\ \A v \in Worker : Called(v) =
                 Occurrences(Names(SubSeq(frames, 1, Len(frames) - 1)), v)
                   + (IF Innermost.worker = v THEN 1 ELSE 0)
<1> DEFINE R == [worker : Worker, at : Places]
           front == SubSeq(frames, 1, Len(frames) - 1)
<1>1. frames \in Seq(R) BY DEF TypeOK, GuiOK
<1>2. Names(frames) = Append(Names(front), Innermost.worker)
  BY <1>1, NamesFront DEF Innermost
<1>3. front \in Seq(R)
  <2>1. Len(frames) \in Nat BY <1>1, LenProperties
  <2>2. ASSUME NEW i \in 1..(Len(frames) - 1) PROVE frames[i] \in R
    <3>1. i \in 1..Len(frames) BY <2>1
    <3> HIDE DEF R
    <3> QED BY <1>1, <3>1, ElementOfSeq
  <2> HIDE DEF R
  <2> QED BY <2>1, <2>2, SubSeqProperties
<1>4. Names(front) \in Seq(Worker) BY <1>3, NamesType
<1>5. Innermost.worker \in Worker BY InnermostType DEF TypeOK
<1> HIDE DEF front
<1>6. ASSUME NEW v \in Worker
      PROVE  Called(v) = Occurrences(Names(front), v) + (IF Innermost.worker = v THEN 1 ELSE 0)
  BY <1>2, <1>4, <1>5, OccurrencesAppend DEF Called
<1> QED BY <1>2, <1>6 DEF front

(* The steps of the GUI thread.                                            *)
LEMMA CountGui ==
    ASSUME TypeOK, TypeOK', CountInv, GuiStep
    PROVE  CountInv'
<1> USE DEF CountInv
<1>0. /\ frames \in Seq([worker : Worker, at : Places]) /\ pending \in Seq(Worker)
      /\ platform' = platform /\ OfNotification' = OfNotification
  BY DEF TypeOK, GuiOK, GuiStep, TakeNotification, PollingDone, CallbackReturns, FreeByGui,
         Deliver, NoMore, OfNotification
<1>1. CASE TakeNotification
  <2> DEFINE w == Head(pending)
             r == [worker |-> w, at |-> "drain"]
  <2>1. /\ pending # <<>> /\ pending' = Tail(pending) /\ frames' = Append(frames, r)
        /\ polling' = (platform = "gtk")
        /\ UNCHANGED <<refcnt, thread, handle, merged>>
    BY <1>1 DEF TakeNotification, handles
  <2>2. w \in Worker /\ Tail(pending) \in Seq(Worker) BY <1>0, <2>1, HeadTailProperties
  <2>3. r \in [worker : Worker, at : Places] /\ r.worker = w BY <2>2 DEF Places
  <2> HIDE DEF w, r
  <2>4. Names(frames') = Append(Names(frames), w) /\ Names(frames) \in Seq(Worker)
    BY <1>0, <2>1, <2>3, NamesAppend, NamesType
  <2>5. ASSUME NEW v \in Worker
        PROVE  Notified(v)' + Called(v)' = Notified(v) + Called(v)
    <3>1. Called(v)' = Called(v) + (IF w = v THEN 1 ELSE 0)
      <4>1. Called(v)' = Occurrences(Names(frames'), v) BY DEF Called
      <4> QED BY <2>2, <2>4, <4>1, OccurrencesAppend DEF Called
    <3>2. Notified(v) = Notified(v)' + (IF w = v THEN 1 ELSE 0)
      <4>1. Notified(v)' = Occurrences(Tail(pending), v) BY <2>1 DEF Notified
      <4> QED BY <1>0, <2>1, <4>1, OccurrencesTail DEF Notified, w
    <3>3. Notified(v) \in Nat /\ Called(v) \in Nat BY CountsType
    <3>4. Notified(v)' \in Nat
      <4>1. Notified(v)' = Occurrences(Tail(pending), v) BY <2>1 DEF Notified
      <4> QED BY <2>2, <4>1, OccurrencesType
    <3>5. CASE w = v BY <3>1, <3>2, <3>3, <3>4, <3>5
    <3>6. CASE w # v BY <3>1, <3>2, <3>3, <3>4, <3>6
    <3> QED BY <3>5, <3>6
  <2>6. \A v \in Worker : OfThread(v)' = OfThread(v) /\ OfHandle(v)' = OfHandle(v)
    BY <2>1 DEF OfThread, OfHandle
  <2>7. Counted' BY <1>0, <2>1, <2>5, <2>6 DEF Counted
  <2>8. CalledByPolling' /\ NothingYet' BY <1>0, <2>1 DEF CalledByPolling, NothingYet
  <2> QED BY <2>7, <2>8
<1>2. CASE PollingDone
  <2>1. /\ frames = <<>> /\ UNCHANGED <<pending, frames, refcnt, thread, handle, merged>>
    BY <1>2 DEF PollingDone, handles
  <2>2. \A v \in Worker : OfThread(v)' = OfThread(v) BY <2>1 DEF OfThread
  <2>3. Counted' BY <1>0, <2>1, <2>2, CountedStays
  <2> QED BY <2>1, <2>3 DEF CalledByPolling, NothingYet
<1>3. ASSUME CallbackReturns \/ \E w \in Worker : Deliver(w) \/ NoMore(w)
      PROVE  CountInv'
  <2>1. /\ frames # <<>>
        /\ UNCHANGED <<pending, polling, refcnt, thread, handle, merged>>
        /\ \E place \in Places : Goto(place)
    BY <1>3 DEF CallbackReturns, Deliver, NoMore, At, Places, handles
  <2>2. PICK place \in Places : Goto(place) BY <2>1
  <2>3. Len(frames) \in 1..Len(frames) BY <2>1, InnermostType DEF TypeOK
  <2>4. Names(frames') = Names(frames) BY <1>0, <2>2, <2>3, NamesExcept DEF Goto
  <2>5. \A v \in Worker : OfThread(v)' = OfThread(v) BY <2>1 DEF OfThread
  <2>6. Counted' BY <1>0, <2>1, <2>4, <2>5, CountedStays
  <2> QED BY <1>0, <2>1, <2>6 DEF CalledByPolling, NothingYet
<1>4. CASE FreeByGui
  <2> DEFINE w == Innermost.worker
  <2>1. /\ frames # <<>> /\ frames' = SubSeq(frames, 1, Len(frames) - 1)
        /\ refcnt' = [refcnt EXCEPT ![w] = @ - IF polling THEN 2 ELSE 1]
        /\ UNCHANGED <<pending, polling, thread, handle, merged>>
    BY <1>4 DEF FreeByGui, At, handles
  <2>2. w \in Worker BY <2>1, InnermostType DEF TypeOK
  <2>3. ASSUME NEW v \in Worker
        PROVE  Called(v) = Called(v)' + (IF w = v THEN 1 ELSE 0) /\ Called(v)' \in Nat
    <3>1. Called(v)' = Occurrences(Names(SubSeq(frames, 1, Len(frames) - 1)), v)
      BY <2>1 DEF Called
    <3>2. Called(v) = Called(v)' + (IF w = v THEN 1 ELSE 0) BY <2>1, <3>1, CountFrames
    <3>3. frames' \in Seq([worker : Worker, at : Places]) BY DEF TypeOK, GuiOK
    <3>4. Names(frames') \in Seq(Worker) BY <3>3, NamesType
    <3>5. Called(v)' = Occurrences(Names(frames'), v) BY DEF Called
    <3> QED BY <3>2, <3>4, <3>5, OccurrencesType
  <2>4. refcnt'[w] = refcnt[w] - OfNotification /\ \A v \in Worker \ {w} : refcnt'[v] = refcnt[v]
    BY <2>1, <2>2 DEF CalledByPolling, OfNotification, TypeOK, WorkersOK
  <2> HIDE DEF w
  <2>5. ASSUME NEW v \in Worker
        PROVE  /\ Notified(v)' = Notified(v) /\ OfThread(v)' = OfThread(v)
               /\ OfHandle(v)' = OfHandle(v) /\ merged'[v] = merged[v]
    BY <2>1 DEF Notified, OfThread, OfHandle
  <2>6. ASSUME NEW v \in Worker
        PROVE  /\ refcnt'[v] = OfThread(v)' + OfHandle(v)' + merged'[v]
                                + OfNotification' * (Notified(v)' + Called(v)')
               /\ v = w => refcnt[v] > 0
    <3>1. refcnt[v] = OfThread(v) + OfHandle(v) + merged[v]
                          + OfNotification * (Notified(v) + Called(v))
      BY DEF Counted
    <3>2. /\ OfThread(v) \in Nat /\ OfHandle(v) \in Nat /\ merged[v] \in Nat
          /\ refcnt[v] \in Int /\ Notified(v) \in Nat /\ Called(v) \in Nat
          /\ OfNotification \in {1, 2}
      BY CountsType
    <3>3. CASE v = w
      <4>1. Called(v) = Called(v)' + 1 /\ Called(v)' \in Nat BY <2>3, <3>3
      <4>2. refcnt'[v] = refcnt[v] - OfNotification BY <2>4, <3>3
      <4>3. CASE OfNotification = 1
        <5>1. refcnt[v] = OfThread(v) + OfHandle(v) + merged[v] + Notified(v) + Called(v)
          BY <3>1, <3>2, <4>3
        <5>2. refcnt'[v] = refcnt[v] - 1 /\ refcnt[v] > 0 BY <3>2, <4>1, <4>2, <4>3, <5>1
        <5>3. refcnt'[v] = OfThread(v) + OfHandle(v) + merged[v] + 1 * (Notified(v) + Called(v)')
          BY <3>2, <4>1, <5>1, <5>2
        <5> QED BY <1>0, <2>5, <4>3, <5>2, <5>3
      <4>4. CASE OfNotification = 2
        <5>1. refcnt[v] = OfThread(v) + OfHandle(v) + merged[v] + 2 * (Notified(v) + Called(v))
          BY <3>1, <4>4
        <5>2. refcnt'[v] = refcnt[v] - 2 /\ refcnt[v] > 0 BY <3>2, <4>1, <4>2, <4>4, <5>1
        <5>3. refcnt'[v] = OfThread(v) + OfHandle(v) + merged[v] + 2 * (Notified(v) + Called(v)')
          BY <3>2, <4>1, <5>1, <5>2
        <5> QED BY <1>0, <2>5, <4>4, <5>2, <5>3
      <4> QED BY <3>2, <4>3, <4>4
    <3>4. CASE v # w
      <4>1. Called(v)' = Called(v) BY <2>3, <3>2, <3>4
      <4>2. refcnt'[v] = refcnt[v] BY <2>4, <3>4
      <4> QED BY <1>0, <2>5, <3>1, <3>4, <4>1, <4>2
    <3> QED BY <3>3, <3>4
  <2>7. Counted' BY <2>6 DEF Counted
  <2>8. CalledByPolling'
    BY <1>0, <2>1 DEF CalledByPolling
  <2>9. NothingYet'
    <3> SUFFICES ASSUME NEW v \in Worker, thread[v] = "none" PROVE refcnt'[v] = 0
      BY <2>1 DEF NothingYet
    <3>1. refcnt[v] = 0 BY DEF NothingYet
    <3>2. v # w BY <2>6, <3>1
    <3> QED BY <2>4, <3>1, <3>2
  <2> QED BY <2>7, <2>8, <2>9
<1> QED BY <1>1, <1>2, <1>3, <1>4 DEF GuiStep

(* Numbers that add up to zero are zero.                                   *)
LEMMA SumIsZero ==
  ASSUME NEW a \in Nat, NEW b \in Nat, a + b = 0
  PROVE  a = 0 /\ b = 0
OBVIOUS

(* References that add up to zero are none.                                *)
LEMMA NoneLeft ==
  ASSUME TypeOK, NEW w \in Worker,
         OfThread(w) + OfHandle(w) + merged[w] + OfNotification * (Notified(w) + Called(w)) = 0
  PROVE  /\ OfThread(w) = 0 /\ OfHandle(w) = 0 /\ merged[w] = 0
         /\ Notified(w) = 0 /\ Called(w) = 0
<1> DEFINE others == OfThread(w) + OfHandle(w)
           lost == merged[w]
           few == Notified(w) + Called(w)
<1>1. /\ OfThread(w) \in Nat /\ OfHandle(w) \in Nat /\ merged[w] \in Nat
      /\ Notified(w) \in Nat /\ Called(w) \in Nat /\ OfNotification \in {1, 2}
  BY CountsType
<1>2. others \in Nat /\ lost \in Nat /\ few \in Nat BY <1>1
<1>3. others + lost + OfNotification * few = 0 OBVIOUS
<1>4. others = 0 /\ lost = 0 /\ few = 0
  <2> HIDE DEF others, lost, few
  <2>1. CASE OfNotification = 1
    <3>1. others + lost + 1 * few = 0 BY <1>3, <2>1
    <3> QED BY <1>2, <3>1
  <2>2. CASE OfNotification = 2
    <3>1. others + lost + 2 * few = 0 BY <1>3, <2>2
    <3> QED BY <1>2, <3>1
  <2> QED BY <1>1, <2>1, <2>2
<1>5. OfThread(w) = 0 /\ OfHandle(w) = 0 BY <1>1, <1>4, SumIsZero
<1>6. Notified(w) = 0 /\ Called(w) = 0 BY <1>1, <1>4, SumIsZero
<1> QED BY <1>4, <1>5, <1>6

(* Every step keeps the counts.                                            *)
LEMMA CountStep == TypeOK /\ TypeOK' /\ CountInv /\ [Next]_vars => CountInv'
<1> SUFFICES ASSUME TypeOK, TypeOK', CountInv, [Next]_vars PROVE CountInv'
  OBVIOUS
<1>1. CASE GuiStep BY <1>1, CountGui
<1>2. ASSUME NEW w \in Worker, ThreadStep(w) PROVE CountInv' BY <1>2, CountThread
<1> USE DEF CountInv
<1>3. ASSUME \/ UNCHANGED vars
             \/ \E w \in Worker :
                   \/ WaitForEvent(w, "gui") \/ WaitForEvent(w, "thread")
                   \/ Expire(w) \/ WakeSpuriously(w) \/ GuiSends(w) \/ Forget(w)
      PROVE  CountInv'
  <2>1. UNCHANGED <<platform, pending, frames, polling, refcnt, thread, handle, merged>>
    BY <1>3 DEF vars, WaitForEvent, Expire, WakeSpuriously, GuiSends, Post, WaitToPost, Forget,
                handles, gui
  <2>2. Names(frames') = Names(frames) /\ \A v \in Worker : OfThread(v)' = OfThread(v)
    BY <2>1 DEF OfThread
  <2>3. Counted' BY <2>1, <2>2, CountedStays
  <2> QED BY <2>1, <2>3 DEF CalledByPolling, NothingYet
<1>4. ASSUME NEW w \in Worker, Create(w) PROVE CountInv'
  <2>1. UNCHANGED <<platform, pending, frames, polling, merged>> /\ thread[w] = "none"
    BY <1>4 DEF Create, gui
  <2>2. /\ OfThread(w) = 0 /\ OfHandle(w) = 0 /\ merged[w] \in Nat /\ refcnt[w] = 0
    <3>1. /\ refcnt[w] = 0
          /\ refcnt[w] = OfThread(w) + OfHandle(w) + merged[w]
                            + OfNotification * (Notified(w) + Called(w))
      BY <2>1 DEF NothingYet, Counted
    <3>2. OfThread(w) + OfHandle(w) + merged[w]
            + OfNotification * (Notified(w) + Called(w)) = 0
      BY <3>1
    <3>3. OfThread(w) = 0 /\ OfHandle(w) = 0 BY <3>2, NoneLeft
    <3>4. merged[w] \in Nat BY CountsType
    <3> QED BY <3>1, <3>3, <3>4
  <2>3. \A v \in Worker \ {w} : /\ thread'[v] = thread[v] /\ handle'[v] = handle[v]
                                /\ merged'[v] = merged[v] /\ refcnt'[v] = refcnt[v]
    BY <1>4 DEF Create, TypeOK, WorkersOK, HandlesOK
  <2>4. PICK d \in {1, 2} : /\ refcnt' = [refcnt EXCEPT ![w] = d]
                            /\ thread'[w] = (IF d = 2 THEN "params" ELSE "done")
                            /\ handle'[w] = TRUE
    <3>1. handle'[w] = TRUE BY <1>4 DEF Create, TypeOK, HandlesOK
    <3>2. \/ thread'[w] = "params" /\ refcnt' = [refcnt EXCEPT ![w] = 2]
          \/ thread'[w] = "done" /\ refcnt' = [refcnt EXCEPT ![w] = 1]
      BY <1>4 DEF Create, TypeOK, WorkersOK
    <3> QED BY <3>1, <3>2
  <2>5. refcnt' = [refcnt EXCEPT ![w] = @ + d] BY <2>2, <2>4
  <2>6. OfThread(w)' + OfHandle(w)' + merged'[w] = OfThread(w) + OfHandle(w) + merged[w] + d
    BY <2>1, <2>2, <2>4 DEF OfThread, OfHandle
  <2>7. d \in Int BY <2>4
  <2>8. UNCHANGED <<platform, pending, frames>>
        /\ \A v \in Worker \ {w} : /\ thread'[v] = thread[v] /\ handle'[v] = handle[v]
                                   /\ merged'[v] = merged[v]
    BY <2>1, <2>3
  <2>9. Counted' BY <2>5, <2>6, <2>7, <2>8, CountedWhileUnmoved
  <2>10. NothingYet' BY <2>3, <2>4 DEF NothingYet
  <2> QED BY <2>1, <2>9, <2>10 DEF CalledByPolling
<1>5. ASSUME NEW w \in Worker, Collect(w) PROVE CountInv'
  <2>1. /\ UNCHANGED <<platform, pending, frames, polling, merged, thread>>
        /\ OfHandle(w) = 1 /\ OfHandle(w)' = 0
        /\ refcnt' = [refcnt EXCEPT ![w] = @ + (-1)]
        /\ \A v \in Worker \ {w} : handle'[v] = handle[v] /\ refcnt'[v] = refcnt[v]
    BY <1>5 DEF Collect, OfHandle, gui, TypeOK, WorkersOK, HandlesOK
  <2>2. OfThread(w) \in Nat /\ merged[w] \in Nat BY CountsType
  <2>3. OfThread(w)' + OfHandle(w)' + merged'[w] = OfThread(w) + OfHandle(w) + merged[w] + (-1)
    BY <2>1, <2>2 DEF OfThread
  <2>4. \A v \in Worker \ {w} : /\ thread'[v] = thread[v] /\ handle'[v] = handle[v]
                                /\ merged'[v] = merged[v]
    BY <2>1
  <2>5. -1 \in Int /\ UNCHANGED <<platform, pending, frames>> BY <2>1
  <2>6. Counted' BY <2>1, <2>3, <2>4, <2>5, CountedWhileUnmoved
  <2>7. thread[w] # "none"
    <3>1. refcnt[w] = OfThread(w) + OfHandle(w) + merged[w]
                            + OfNotification * (Notified(w) + Called(w))
      BY DEF Counted
    <3>2. Notified(w) \in Nat /\ Called(w) \in Nat /\ OfNotification \in {1, 2} BY CountsType
    <3>3. OfNotification * (Notified(w) + Called(w)) \in Nat BY <3>2
    <3>4. refcnt[w] # 0 BY <2>1, <2>2, <3>1, <3>3
    <3> QED BY <3>4 DEF NothingYet
  <2>8. NothingYet' BY <2>1, <2>7 DEF NothingYet
  <2> QED BY <2>1, <2>6, <2>8 DEF CalledByPolling
<1> QED BY <1>1, <1>2, <1>3, <1>4, <1>5 DEF Next

(* A worker whose references add up is freed when nothing refers to it.    *)
LEMMA CountedMeansFreed == TypeOK /\ CountInv => FreedWhenUnused
<1> SUFFICES ASSUME TypeOK, CountInv, NEW w \in Worker, thread[w] # "none"
             PROVE  refcnt[w] = 0 <=> ~InUse(w) /\ merged[w] = 0
  BY DEF FreedWhenUnused
<1>1. refcnt[w] = OfThread(w) + OfHandle(w) + merged[w]
                      + OfNotification * (Notified(w) + Called(w))
  BY DEF CountInv, Counted
<1>2. /\ OfThread(w) \in Nat /\ OfHandle(w) \in Nat /\ merged[w] \in Nat
      /\ Notified(w) \in Nat /\ Called(w) \in Nat /\ OfNotification \in {1, 2}
      /\ Notified(w) = 0 <=> ~Listed(w)
      /\ Called(w) = 0 <=> \A i \in DOMAIN frames : frames[i].worker # w
  BY CountsType
<1>3. /\ OfThread(w) = 0 <=> thread[w] \in {"none", "done"}
      /\ OfHandle(w) = 0 <=> ~handle[w]
  BY DEF OfThread, OfHandle, TypeOK, HandlesOK
<1>4. ~InUse(w) <=> OfThread(w) = 0 /\ OfHandle(w) = 0 /\ Notified(w) = 0 /\ Called(w) = 0
  BY <1>2, <1>3 DEF InUse
<1>5. refcnt[w] = 0 <=> /\ OfThread(w) = 0 /\ OfHandle(w) = 0 /\ merged[w] = 0
                        /\ Notified(w) = 0 /\ Called(w) = 0
  <2>1. ASSUME refcnt[w] = 0
        PROVE  /\ OfThread(w) = 0 /\ OfHandle(w) = 0 /\ merged[w] = 0
               /\ Notified(w) = 0 /\ Called(w) = 0
    <3>1. OfThread(w) + OfHandle(w) + merged[w]
            + OfNotification * (Notified(w) + Called(w)) = 0
      BY <1>1, <2>1
    <3> QED BY <3>1, NoneLeft
  <2>2. ASSUME /\ OfThread(w) = 0 /\ OfHandle(w) = 0 /\ merged[w] = 0
               /\ Notified(w) = 0 /\ Called(w) = 0
        PROVE  refcnt[w] = 0
    <3>1. refcnt[w] = 0 + 0 + 0 + OfNotification * (0 + 0) BY <1>1, <2>2
    <3>2. OfNotification \in {1, 2} BY <1>2
    <3> QED BY <3>1, <3>2
  <2> QED BY <2>1, <2>2
<1> QED BY <1>4, <1>5

(* A worker is freed exactly when its thread, the handle in the heap of    *)
(* the GUI and all its notifications are done with it, in whatever order   *)
(* they let go, on both systems, unless a notification of it was merged    *)
(* with another on GTK (worker_free, worker_unref, worker_notify_func).    *)
THEOREM FreedByTheLast == Spec => []FreedWhenUnused
BY TypeCorrect, CountInit, CountStep, CountedMeansFreed, PTL DEF Spec
=============================================================================
