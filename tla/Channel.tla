------------------------------ MODULE Channel ------------------------------
(***************************************************************************)
(* The message channels of fixtask (src/fixtask/fixtask.c): channel_send,  *)
(* channel_receive and channel_set_size, with the calls they make into the *)
(* channel sets that watch a channel (notify_sets and unnotify_sets).      *)
(*                                                                         *)
(* A channel has one mutex and three condition variables.  Everything a    *)
(* call does between two waits happens with that mutex held, so the        *)
(* actions below are the segments of the two functions from one            *)
(* acquisition of the mutex (the entry, or the return of a wait) to its    *)
(* next release (the next wait, or the return).  An action therefore       *)
(* begins by testing again what the code tests again after every wait.     *)
(*                                                                         *)
(* Abstracted: what a message says (a member of Msg; the ones in Bad hold  *)
(* a value that cannot be copied to another heap), time (a timed wait may  *)
(* expire at any moment) and the failures of malloc.                       *)
(***************************************************************************)
EXTENDS Naturals, Sequences, FiniteSets

CONSTANTS
    Thread,         \* the heaps that use the channels, each run by one thread
    Sender,         \* the threads that hold a handle that may send
    Receiver,       \* the threads that hold a handle that may receive
    NoThread,       \* a NULL send_heap
    Chan,           \* the channels
    InitSize,       \* the queue size of each channel, 0 when synchronous
    NewSizes,       \* the sizes that channel_set_size may be called with
    Msg,            \* the messages: each one is sent at most once (a bound)
    Bad,            \* the messages that no other heap can hold
    SendTimeouts,   \* the timeouts senders use, some of Timeouts
    RecvTimeouts,   \* the timeouts receivers use, some of Timeouts
    Sets,           \* the channel sets
    Address         \* the addresses the entries of a set are allocated at

Timeouts == {"none", "zero", "timed"}

ASSUME ChannelAssumption ==
    /\ Sender \subseteq Thread
    /\ Receiver \subseteq Thread
    /\ NoThread \notin Thread
    /\ Chan # {}
    /\ Msg # {}
    /\ InitSize \in [Chan -> Nat]
    /\ NewSizes \subseteq Nat \ {0}
    /\ Bad \subseteq Msg
    /\ SendTimeouts \subseteq Timeouts
    /\ RecvTimeouts \subseteq Timeouts

Entry == [set : Sets, address : Address]

VARIABLES
    pc,             \* where each thread is in channel_send or channel_receive
    call,           \* the arguments of the call it is in
    asleep,         \* the threads blocked in a condition variable
    expired,        \* the threads whose timed wait has returned ETIMEDOUT
    slot,           \* send_heap: whose message a synchronous channel offers
    sendError,      \* send_error: a receiver refused the offered message
    queue,          \* the queue of an asynchronous channel
    size,           \* its capacity, 0 for a synchronous channel
    notifyEntries,  \* the entries of the sets that watch the channel
    notifyList,     \* the entries each set believes to be ready
    setAsleep,      \* the sets whose owner is blocked in set->cond
    taken,          \* history: the messages receivers took, in order
    verdict         \* history: what channel_send returned for each message

threadVars == <<pc, call, asleep, expired>>
chanVars == <<slot, sendError, queue, size>>
setVars == <<notifyEntries, notifyList, setAsleep>>
vars == <<pc, call, asleep, expired, slot, sendError, queue, size,
          notifyEntries, notifyList, setAsleep, taken, verdict>>

PCs == {"idle", "send", "sent", "receive"}
Verdicts == {"unsent", "pending", "true", "false", "error"}
Calls == [chan : Chan, timeout : Timeouts, msg : Msg]
NoCall == CHOOSE k \in Calls : TRUE     \* the arguments of an idle thread

(* Only a thread in a call sleeps, or remembers that its wait timed out:   *)
(* no such memory reaches its next call.                                   *)
OnlyCallersWait == \A t \in asleep \cup expired : pc[t] # "idle"

(* The one type invariant.                                                 *)
TypeOK ==
    /\ pc \in [Thread -> PCs]
    /\ call \in [Thread -> Calls]
    /\ asleep \in SUBSET Thread
    /\ expired \in SUBSET Thread
    /\ OnlyCallersWait
    /\ slot \in [Chan -> Thread \cup {NoThread}]
    /\ sendError \in [Chan -> BOOLEAN]
    /\ queue \in [Chan -> Seq(Msg)]
    /\ size \in [Chan -> Nat]
    /\ notifyEntries \in [Chan -> SUBSET Entry]
    /\ notifyList \in [Sets -> Seq(Entry)]
    /\ setAsleep \in SUBSET Sets
    /\ taken \in [Chan -> Seq(Msg)]
    /\ verdict \in [Msg -> Verdicts]

Init ==
    /\ pc = [t \in Thread |-> "idle"]
    /\ call = [t \in Thread |-> NoCall]
    /\ asleep = {}
    /\ expired = {}
    /\ slot = [c \in Chan |-> NoThread]
    /\ sendError = [c \in Chan |-> FALSE]
    /\ queue = [c \in Chan |-> <<>>]
    /\ size = InitSize
    /\ notifyEntries = [c \in Chan |-> {}]
    /\ notifyList = [s \in Sets |-> <<>>]
    /\ setAsleep = {}
    /\ taken = [c \in Chan |-> <<>>]
    /\ verdict = [m \in Msg |-> "unsent"]

-----------------------------------------------------------------------------
(* Channels and the sets that watch them.                                  *)

Sync(c) == size[c] = 0

(* What channel_receive waits for.                                         *)
Ready(c) == IF Sync(c) THEN slot[c] # NoThread /\ ~sendError[c]
                       ELSE queue[c] # <<>>

Listed(list, e) == \E i \in DOMAIN list : list[i] = e

(* notify_sets, for a channel with these entries: every set that watches   *)
(* it and does not list it yet lists it, and its cond is signalled; only   *)
(* the owner of a set waits for that cond.  (channel_set_add lets a set    *)
(* watch a channel with one entry at most.)                                *)
ToNotify(entries) ==
    {s \in Sets : \E e \in entries : e.set = s /\ ~Listed(notifyList[s], e)}
Notified(entries) ==
    [s \in Sets |-> IF s \in ToNotify(entries)
                    THEN Append(notifyList[s], CHOOSE e \in entries : e.set = s)
                    ELSE notifyList[s]]

(* Dropping position i the way unnotify_sets does: the last entry of the   *)
(* list takes its place.                                                   *)
SwapOut(list, i) ==
    [j \in 1 .. (Len(list) - 1) |-> IF j = i THEN list[Len(list)] ELSE list[j]]

(* unnotify_sets: the entries of the channel leave the lists they are in.  *)
Unnotified(lists, entries) ==
    [s \in Sets |->
        IF \E e \in entries : Listed(lists[s], e)
        THEN SwapOut(lists[s], CHOOSE i \in DOMAIN lists[s] : lists[s][i] \in entries)
        ELSE lists[s]]

(* Mutant: the sets list the channel, and their conds are not signalled.   *)
NotifyQuietly(c) ==
    /\ notifyList' = Notified(notifyEntries[c])
    /\ UNCHANGED <<notifyEntries, setAsleep>>

NotifySets(c) ==
    /\ notifyList' = Notified(notifyEntries[c])
    /\ setAsleep' = setAsleep \ ToNotify(notifyEntries[c])
    /\ UNCHANGED notifyEntries

UnnotifySets(c) ==
    /\ notifyList' = Unnotified(notifyList, notifyEntries[c])
    /\ UNCHANGED <<notifyEntries, setAsleep>>

-----------------------------------------------------------------------------
(* Condition variables and timeouts.  The waiters of send_cond, send_cond2 *)
(* and receive_cond are the sleeping threads at "send", "sent", "receive". *)

(* Mutant: one condition variable for all who wait on the channel.         *)
WaitersOfOneCond(p, c) == {t \in asleep : call[t].chan = c}

Waiters(p, c) == {t \in asleep : pc[t] = p /\ call[t].chan = c}

(* pthread_cond_signal: one waiter, any of them, stops waiting.            *)
Woken(p, c) == IF Waiters(p, c) = {} THEN {{}}
                                     ELSE {{t} : t \in Waiters(p, c)}

Running(t, p) == pc[t] = p /\ t \notin asleep

(* A call may go on waiting unless its timeout is 0 or its wait timed out; *)
(* with a timeout it may find at any test that its time has passed.        *)
MayWait(t) == call[t].timeout # "zero" /\ t \notin expired
MayGiveUp(t) == call[t].timeout # "none"

Return(t) ==
    /\ pc' = [pc EXCEPT ![t] = "idle"]
    /\ call' = [call EXCEPT ![t] = NoCall]
    /\ expired' = expired \ {t}

(* A wait is left without a signal, as POSIX allows.                       *)
WakeSpuriously(t) ==
    /\ t \in asleep
    /\ asleep' = asleep \ {t}
    /\ UNCHANGED <<pc, call, expired, chanVars, setVars, taken, verdict>>

(* A timed wait times out; the thread has yet to get the mutex back.       *)
Expire(t) ==
    /\ t \in asleep
    /\ call[t].timeout = "timed"
    /\ asleep' = asleep \ {t}
    /\ expired' = expired \cup {t}
    /\ UNCHANGED <<pc, call, chanVars, setVars, taken, verdict>>

-----------------------------------------------------------------------------
(* channel_send                                                            *)

CallSend(t) ==
    /\ t \in Sender
    /\ pc[t] = "idle"
    /\ \E c \in Chan, m \in Msg, timeout \in SendTimeouts :
        /\ verdict[m] = "unsent"
        /\ verdict' = [verdict EXCEPT ![m] = "pending"]
        /\ call' = [call EXCEPT ![t] = [chan |-> c, timeout |-> timeout, msg |-> m]]
    /\ pc' = [pc EXCEPT ![t] = "send"]
    /\ UNCHANGED <<asleep, expired, chanVars, setVars, taken>>

ReturnFromSend(t, result) ==
    /\ Return(t)
    /\ verdict' = [verdict EXCEPT ![call[t].msg] = result]

(* The slot or the queue is full: wait for send_cond.                      *)
NoRoom(c) == IF Sync(c) THEN slot[c] # NoThread ELSE Len(queue[c]) >= size[c]

WaitToSend(t) ==
    /\ Running(t, "send") /\ MayWait(t)
    /\ NoRoom(call[t].chan)
    /\ asleep' = asleep \cup {t}
    /\ UNCHANGED <<pc, call, expired, chanVars, setVars, taken, verdict>>

(* No time left to wait for send_cond.  A wait that timed out returns even *)
(* when there is room again.                                               *)
GiveUpSend(t) ==
    /\ Running(t, "send") /\ MayGiveUp(t)
    /\ t \in expired \/ NoRoom(call[t].chan)
    /\ ReturnFromSend(t, "false")
    /\ UNCHANGED <<asleep, chanVars, setVars, taken>>

CanOffer(t) ==
    /\ Running(t, "send") /\ t \notin expired
    /\ Sync(call[t].chan) /\ slot[call[t].chan] = NoThread

(* Synchronous: the message is offered and the sender waits at send_cond2. *)
Offer(t) ==
    /\ CanOffer(t) /\ MayWait(t)
    /\ LET c == call[t].chan IN
        /\ slot' = [slot EXCEPT ![c] = t]
        /\ sendError' = [sendError EXCEPT ![c] = FALSE]
        /\ \E woken \in Woken("receive", c) :
              asleep' = (asleep \ woken) \cup {t}
        /\ NotifySets(c)
    /\ pc' = [pc EXCEPT ![t] = "sent"]
    /\ UNCHANGED <<call, expired, queue, size, taken, verdict>>

(* The same with no time left: the offer is withdrawn before the mutex is  *)
(* released, and only the wakeups remain of it.                            *)
OfferAndWithdraw(t) ==
    /\ CanOffer(t) /\ MayGiveUp(t)
    /\ LET c == call[t].chan IN
        /\ sendError' = [sendError EXCEPT ![c] = FALSE]
        /\ \E woken \in Woken("receive", c) : asleep' = asleep \ woken
        /\ notifyList' = Unnotified(Notified(notifyEntries[c]), notifyEntries[c])
        /\ setAsleep' = setAsleep \ ToNotify(notifyEntries[c])
    /\ ReturnFromSend(t, "false")
    /\ UNCHANGED <<slot, queue, size, notifyEntries, taken>>

(* Still offered, nothing refused: wait again for send_cond2.              *)
WaitForTaker(t) ==
    /\ Running(t, "sent") /\ MayWait(t)
    /\ slot[call[t].chan] = t /\ ~sendError[call[t].chan]
    /\ asleep' = asleep \cup {t}
    /\ UNCHANGED <<pc, call, expired, chanVars, setVars, taken, verdict>>

(* A receiver found that the message cannot be copied to its heap.         *)
FailSend(t) ==
    /\ Running(t, "sent") /\ t \notin expired
    /\ LET c == call[t].chan IN
        /\ slot[c] = t /\ sendError[c]
        /\ slot' = [slot EXCEPT ![c] = NoThread]
        /\ UnnotifySets(c)
    /\ ReturnFromSend(t, "error")
    /\ UNCHANGED <<asleep, sendError, queue, size, taken>>

(* The time is up.  The result is 0 even when the message was taken after  *)
(* the wait had timed out.  Nobody is told that the slot is free.          *)
WithdrawSend(t) ==
    /\ Running(t, "sent") /\ MayGiveUp(t)
    /\ LET c == call[t].chan IN
        \/ /\ slot[c] = t
           /\ t \in expired \/ ~sendError[c]
           /\ slot' = [slot EXCEPT ![c] = NoThread]
           /\ UnnotifySets(c)
        \/ /\ slot[c] # t /\ t \in expired
           /\ UNCHANGED <<slot, setVars>>
    /\ ReturnFromSend(t, "false")
    /\ UNCHANGED <<asleep, sendError, queue, size, taken>>

(* Mutant: any return of the wait for send_cond2 counts as a delivery.     *)
FinishUntaken(t) ==
    /\ Running(t, "sent") /\ t \notin expired
    /\ \E woken \in Woken("send", call[t].chan) : asleep' = asleep \ woken
    /\ ReturnFromSend(t, "true")
    /\ UNCHANGED <<chanVars, setVars, taken>>

(* Mutant: the next sender is not told that the slot is free.              *)
FinishQuietly(t) ==
    /\ Running(t, "sent") /\ t \notin expired
    /\ slot[call[t].chan] # t
    /\ ReturnFromSend(t, "true")
    /\ UNCHANGED <<asleep, chanVars, setVars, taken>>

(* The message was taken: let the next sender have the slot.               *)
FinishSend(t) ==
    /\ Running(t, "sent") /\ t \notin expired
    /\ slot[call[t].chan] # t
    /\ \E woken \in Woken("send", call[t].chan) : asleep' = asleep \ woken
    /\ ReturnFromSend(t, "true")
    /\ UNCHANGED <<chanVars, setVars, taken>>

CanAppend(t) ==
    /\ Running(t, "send") /\ t \notin expired
    /\ ~Sync(call[t].chan) /\ Len(queue[call[t].chan]) < size[call[t].chan]

(* Asynchronous: the message is copied to the queue's own heap.            *)
Enqueue(t) ==
    /\ CanAppend(t) /\ call[t].msg \notin Bad
    /\ LET c == call[t].chan IN
        /\ queue' = [queue EXCEPT ![c] = Append(@, call[t].msg)]
        /\ \E woken \in Woken("receive", c) : asleep' = asleep \ woken
        /\ NotifySets(c)
    /\ ReturnFromSend(t, "true")
    /\ UNCHANGED <<slot, sendError, size, taken>>

(* The copy fails: a receiver is woken all the same.                       *)
FailEnqueue(t) ==
    /\ CanAppend(t) /\ call[t].msg \in Bad
    /\ \E woken \in Woken("receive", call[t].chan) : asleep' = asleep \ woken
    /\ ReturnFromSend(t, "error")
    /\ UNCHANGED <<chanVars, setVars, taken>>

-----------------------------------------------------------------------------
(* channel_receive                                                         *)

(* Mutant: the message of a synchronous channel stays on offer.            *)
TakeAndKeepOffer(c) ==
    /\ Sync(c) /\ Ready(c) /\ call[slot[c]].msg \notin Bad
    /\ taken' = [taken EXCEPT ![c] = Append(@, call[slot[c]].msg)]
    /\ \E woken \in Woken("sent", c) : asleep' = asleep \ woken
    /\ UNCHANGED <<chanVars, setVars>>

(* Taking the message of a ready channel: the effect on the channel, on    *)
(* the sets and on the sleeping senders.                                   *)
Take(c) ==
    \/ /\ Sync(c) /\ Ready(c)
       /\ call[slot[c]].msg \notin Bad
       /\ taken' = [taken EXCEPT ![c] = Append(@, call[slot[c]].msg)]
       /\ slot' = [slot EXCEPT ![c] = NoThread]
       /\ UnnotifySets(c)
       /\ \E woken \in Woken("sent", c) : asleep' = asleep \ woken
       /\ UNCHANGED <<sendError, queue, size>>
    \/ /\ ~Sync(c) /\ Ready(c)
       /\ taken' = [taken EXCEPT ![c] = Append(@, Head(queue[c]))]
       /\ queue' = [queue EXCEPT ![c] = Tail(@)]
       /\ IF Tail(queue[c]) = <<>> THEN UnnotifySets(c) ELSE UNCHANGED setVars
       /\ \E woken \in Woken("send", c) : asleep' = asleep \ woken
       /\ UNCHANGED <<slot, sendError, size>>

(* The offered message cannot be copied to the heap of the receiver.       *)
Refused(c) == Sync(c) /\ Ready(c) /\ call[slot[c]].msg \in Bad

CallReceive(t) ==
    /\ t \in Receiver
    /\ pc[t] = "idle"
    /\ \E c \in Chan, timeout \in RecvTimeouts :
        call' = [call EXCEPT ![t] =
                    [chan |-> c, timeout |-> timeout, msg |-> NoCall.msg]]
    /\ pc' = [pc EXCEPT ![t] = "receive"]
    /\ UNCHANGED <<asleep, expired, chanVars, setVars, taken, verdict>>

Receive(t) ==
    /\ Running(t, "receive") /\ t \notin expired
    /\ Take(call[t].chan)
    /\ Return(t)
    /\ UNCHANGED verdict

(* The sender is told, and the receiver waits on for another message.      *)
Refuse(t) ==
    /\ Running(t, "receive") /\ t \notin expired
    /\ LET c == call[t].chan IN
        /\ Refused(c)
        /\ sendError' = [sendError EXCEPT ![c] = TRUE]
        /\ \E woken \in Woken("sent", c) :
             \/ /\ MayWait(t)
                /\ asleep' = (asleep \ woken) \cup {t}
                /\ UNCHANGED <<pc, call, expired>>
             \/ /\ MayGiveUp(t)
                /\ asleep' = asleep \ woken
                /\ Return(t)
    /\ UNCHANGED <<slot, queue, size, setVars, taken, verdict>>

(* Mutant: wait first, look at the channel afterwards.                     *)
WaitBeforeLooking(t) ==
    /\ Running(t, "receive") /\ MayWait(t)
    /\ asleep' = asleep \cup {t}
    /\ UNCHANGED <<pc, call, expired, chanVars, setVars, taken, verdict>>

WaitToReceive(t) ==
    /\ Running(t, "receive") /\ MayWait(t)
    /\ ~Ready(call[t].chan)
    /\ asleep' = asleep \cup {t}
    /\ UNCHANGED <<pc, call, expired, chanVars, setVars, taken, verdict>>

GiveUpReceive(t) ==
    /\ Running(t, "receive") /\ MayGiveUp(t)
    /\ t \in expired \/ ~Ready(call[t].chan)
    /\ Return(t)
    /\ UNCHANGED <<asleep, chanVars, setVars, taken, verdict>>

-----------------------------------------------------------------------------
(* channel_set_size: the owner of an asynchronous channel changes its size.*)
SetSize(c) ==
    /\ ~Sync(c)
    /\ \E n \in NewSizes : size' = [size EXCEPT ![c] = n]
    /\ UNCHANGED <<threadVars, slot, sendError, queue, setVars, taken, verdict>>

(* What a thread that is in a call does when it gets the mutex.            *)
Step(t) ==
    \/ WaitToSend(t) \/ GiveUpSend(t)
    \/ Offer(t) \/ OfferAndWithdraw(t) \/ WaitForTaker(t)
    \/ FailSend(t) \/ WithdrawSend(t) \/ FinishSend(t)
    \/ Enqueue(t) \/ FailEnqueue(t)
    \/ Receive(t) \/ Refuse(t) \/ WaitToReceive(t) \/ GiveUpReceive(t)

Next ==
    \/ \E t \in Thread : CallSend(t) \/ CallReceive(t) \/ Step(t)
                        \/ Expire(t) \/ WakeSpuriously(t)
    \/ \E c \in Chan : SetSize(c)

Spec == Init /\ [][Next]_vars

-----------------------------------------------------------------------------
(* Fairness.  A thread that is not blocked is scheduled and gets the mutex *)
(* in the end, and a timed wait returns in the end.  Nothing makes a       *)
(* thread call channel_send or channel_receive.                            *)
Fairness == \A t \in Thread : WF_vars(Step(t)) /\ SF_vars(Expire(t))

-----------------------------------------------------------------------------
(* Properties                                                              *)

Occurs(m, c) == \E i \in DOMAIN taken[c] : taken[c][i] = m
Queued(m, c) == \E i \in DOMAIN queue[c] : queue[c][i] = m

(* A sender that sleeps in send_cond2 still has its message on offer:      *)
(* whoever took or refused the message has woken exactly this sender       *)
(* (channel_receive signals send_cond2 once, and other senders that have   *)
(* finished may not have left the function yet).                           *)
SleepingSenderOffers ==
    \A t \in asleep : pc[t] = "sent" =>
        slot[call[t].chan] = t /\ ~sendError[call[t].chan]

(* A thread that will look at channel c again without being woken.         *)
OnTheWay(p, c) ==
    {t \in Thread : Running(t, p) /\ t \notin expired /\ call[t].chan = c}

(* No receiver sleeps next to a message nobody is coming for: while some   *)
(* receiver of c sleeps in receive_cond, there are as many receivers on    *)
(* their way as there are messages to take.                                *)
NoStrandedReceiver ==
    \A c \in Chan : Ready(c) /\ Waiters("receive", c) # {} =>
        Cardinality(OnTheWay("receive", c)) >= IF Sync(c) THEN 1 ELSE Len(queue[c])

(* No message reaches two receivers, or one receiver twice.                *)
AtMostOnce ==
    \A c, d \in Chan : \A i \in DOMAIN taken[c], j \in DOMAIN taken[d] :
        taken[c][i] = taken[d][j] => c = d /\ i = j

(* "Returns true if the message was delivered": a sender is told so only   *)
(* when a receiver has taken the message or the queue has accepted it.     *)
TrueMeansDelivered ==
    \A m \in Msg : verdict[m] = "true" =>
        \E c \in Chan : Occurs(m, c) \/ Queued(m, c)

-----------------------------------------------------------------------------
(* The channels keep the promise of AbstractChannel: the log of a channel  *)
(* is what was taken from it followed by what is queued.                   *)
Promise == INSTANCE AbstractChannel WITH
    SyncChannels <- {c \in Chan : InitSize[c] = 0},
    log <- [c \in Chan |-> taken[c] \o queue[c]],
    delivered <- [c \in Chan |-> Len(taken[c])],
    hurried <- {call[t].msg : t \in {s \in Thread :
                    pc[s] \in {"send", "sent"} /\ call[s].timeout = "timed"}}

(* Order, at most once, and a truthful answer to every sender but one that *)
(* runs out of time.                                                       *)
KeepsPromise == Promise!Spec
=============================================================================
