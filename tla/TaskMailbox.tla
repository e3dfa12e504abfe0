---------------------------- MODULE TaskMailbox ----------------------------
(***************************************************************************)
(* A task and its two message queues (src/fixtask/fixtask.c: task_create,  *)
(* thread_main, task_send, task_receive, task_handle_func).  Heaps that    *)
(* hold a handle of the task (its parents) send to comm_arr and receive    *)
(* from reply_arr; the thread of the task does the opposite.               *)
(*                                                                         *)
(* Both queues, and all who wait for room or for a message in either, use  *)
(* one mutex and one condition variable, which every send and every        *)
(* receive signals once.  An action is a segment of a call from one        *)
(* acquisition of the mutex to its release, in a wait or at the return.    *)
(*                                                                         *)
(* Abstracted: the contents of messages (those in Bad cannot be copied),   *)
(* the loading of scripts, time (a timed wait may end at any moment).      *)
(***************************************************************************)
EXTENDS Naturals, Sequences, FiniteSets

CONSTANTS
    Parent,         \* the heaps that may hold a handle of the task
    Creator,        \* the one that creates it
    TaskThread,     \* the thread of the task
    max_messages,   \* the capacity of each queue, 100 in the code
    Msg,            \* the messages, each sent at most once (a bound)
    Bad,            \* the messages that cannot be copied to another heap
    RecvTimeouts    \* the timeouts of receive_wait that are used

Timeouts == {"none", "zero", "timed"}
Thread == Parent \cup {TaskThread}

ASSUME MailboxAssumption ==
    /\ IsFiniteSet(Parent) /\ Creator \in Parent /\ TaskThread \notin Parent
    /\ max_messages \in Nat \ {0}
    /\ Bad \subseteq Msg
    /\ RecvTimeouts \subseteq Timeouts

VARIABLES
    call,       \* where each thread is in task_send or task_receive
    msg,        \* the message it sends, a set of one or none
    timeout,    \* the timeout of its receive
    asleep,     \* the threads blocked in task->cond
    expired,    \* the threads whose timed wait has returned ETIMEDOUT
    box,        \* comm_arr and reply_arr
    unsent,     \* the messages not sent yet
    life,       \* of the thread: "running", "ending" or "ended"
    holders,    \* the heaps that hold a handle of the task
    refcnt,
    freed,      \* whether the task was freed
    owners      \* history: the heaps that have ever held a handle

callVars == <<call, msg, timeout, asleep, expired>>
lifeVars == <<life, holders, refcnt, freed, owners>>
mailboxVars == <<call, msg, timeout, asleep, expired, box, unsent, life, holders, refcnt,
                 freed, owners>>

(* task_create: one reference is of the thread, one of the handle it       *)
(* returns and one of the handle task_val in the heap of the task itself.  *)
MailboxInit ==
    /\ call = [t \in Thread |-> "idle"]
    /\ msg = [t \in Thread |-> {}]
    /\ timeout = [t \in Thread |-> "none"]
    /\ asleep = {} /\ expired = {}
    /\ box = [b \in {"comm", "reply"} |-> <<>>]
    /\ unsent = Msg
    /\ life = "running"
    /\ holders = {Creator}
    /\ refcnt = 3
    /\ freed = FALSE
    /\ owners = {Creator}

Outbox(t) == IF t = TaskThread THEN "reply" ELSE "comm"
Inbox(t) == IF t = TaskThread THEN "comm" ELSE "reply"
MayCall(t) == call[t] = "idle" /\ IF t = TaskThread THEN life = "running" ELSE t \in holders
Running(t, p) == call[t] = p /\ t \notin asleep

(* pthread_cond_signal on the one condition variable.                      *)
Woken == IF asleep = {} THEN {{}} ELSE {{t} : t \in asleep}

Return(t) ==
    /\ call' = [call EXCEPT ![t] = "idle"]
    /\ msg' = [msg EXCEPT ![t] = {}]
    /\ timeout' = [timeout EXCEPT ![t] = "none"]
    /\ expired' = expired \ {t}

-----------------------------------------------------------------------------
(* task_send: no timeout.                                                  *)
CallSend(t) ==
    /\ MayCall(t)
    /\ \E m \in unsent : msg' = [msg EXCEPT ![t] = {m}] /\ unsent' = unsent \ {m}
    /\ call' = [call EXCEPT ![t] = "send"]
    /\ UNCHANGED <<timeout, asleep, expired, box, lifeVars>>

HasRoom(t) == Len(box[Outbox(t)]) < max_messages

Send(t) ==
    /\ Running(t, "send") /\ HasRoom(t)
    /\ \E m \in msg[t] \ Bad : box' = [box EXCEPT ![Outbox(t)] = Append(@, m)]
    /\ \E woken \in Woken : asleep' = asleep \ woken
    /\ Return(t)
    /\ UNCHANGED <<unsent, lifeVars>>

(* The copy fails: an error, and no signal.                                *)
FailSend(t) ==
    /\ Running(t, "send") /\ HasRoom(t) /\ msg[t] \subseteq Bad
    /\ Return(t)
    /\ UNCHANGED <<asleep, box, unsent, lifeVars>>

WaitToSend(t) ==
    /\ Running(t, "send") /\ ~HasRoom(t)
    /\ asleep' = asleep \cup {t}
    /\ UNCHANGED <<call, msg, timeout, expired, box, unsent, lifeVars>>

-----------------------------------------------------------------------------
(* task_receive                                                            *)
CallReceive(t) ==
    /\ MayCall(t)
    /\ \E w \in RecvTimeouts : timeout' = [timeout EXCEPT ![t] = w]
    /\ call' = [call EXCEPT ![t] = "receive"]
    /\ UNCHANGED <<msg, asleep, expired, box, unsent, lifeVars>>

HasMail(t) == box[Inbox(t)] # <<>>

(* Mutant: a receive does not tell that there is room again.               *)
ReceiveQuietly(t) ==
    /\ Running(t, "receive") /\ HasMail(t) /\ t \notin expired
    /\ box' = [box EXCEPT ![Inbox(t)] = Tail(@)]
    /\ Return(t)
    /\ UNCHANGED <<asleep, unsent, lifeVars>>

Receive(t) ==
    /\ Running(t, "receive") /\ HasMail(t) /\ t \notin expired
    /\ box' = [box EXCEPT ![Inbox(t)] = Tail(@)]
    /\ \E woken \in Woken : asleep' = asleep \ woken
    /\ Return(t)
    /\ UNCHANGED <<unsent, lifeVars>>

WaitToReceive(t) ==
    /\ Running(t, "receive") /\ ~HasMail(t)
    /\ timeout[t] # "zero" /\ t \notin expired
    /\ asleep' = asleep \cup {t}
    /\ UNCHANGED <<call, msg, timeout, expired, box, unsent, lifeVars>>

GiveUpReceive(t) ==
    /\ Running(t, "receive") /\ timeout[t] # "none"
    /\ t \in expired \/ ~HasMail(t)
    /\ Return(t)
    /\ UNCHANGED <<asleep, box, unsent, lifeVars>>

Expire(t) ==
    /\ t \in asleep /\ call[t] = "receive" /\ timeout[t] = "timed"
    /\ asleep' = asleep \ {t}
    /\ expired' = expired \cup {t}
    /\ UNCHANGED <<call, msg, timeout, box, unsent, lifeVars>>

WakeForNothing(t) ==
    /\ t \in asleep
    /\ asleep' = asleep \ {t}
    /\ UNCHANGED <<call, msg, timeout, expired, box, unsent, lifeVars>>

-----------------------------------------------------------------------------
(* The references of the task: task_handle_func and the end of thread_main.*)

Unref == refcnt' = refcnt - 1 /\ freed' = (freed \/ refcnt = 1)

(* Mutant: the copy of a handle is not counted.                            *)
ShareUncounted(p, q) ==
    /\ p \in holders /\ call[p] = "idle" /\ q \notin holders
    /\ holders' = holders \cup {q}
    /\ owners' = owners \cup {q}
    /\ UNCHANGED <<callVars, box, unsent, life, refcnt, freed>>

(* A heap gets a copy of the handle from another one, over some channel.   *)
Share(p, q) ==
    /\ p \in holders /\ call[p] = "idle" /\ q \notin holders
    /\ holders' = holders \cup {q}
    /\ owners' = owners \cup {q}
    /\ refcnt' = refcnt + 1
    /\ UNCHANGED <<callVars, box, unsent, life, freed>>

(* A heap that no longer refers to the task collects its handle.           *)
Drop(p) ==
    /\ p \in holders /\ call[p] = "idle"
    /\ holders' = holders \ {p}
    /\ Unref
    /\ UNCHANGED <<callVars, box, unsent, life, owners>>

(* The function of the task has returned: its heap gives up task_val...    *)
EndTask ==
    /\ life = "running" /\ call[TaskThread] = "idle"
    /\ life' = "ending"
    /\ Unref
    /\ UNCHANGED <<callVars, box, unsent, holders, owners>>

(* ... and then the thread gives up its own reference.                     *)
EndThread ==
    /\ life = "ending"
    /\ life' = "ended"
    /\ Unref
    /\ UNCHANGED <<callVars, box, unsent, holders, owners>>

Step(t) ==
    \/ Send(t) \/ FailSend(t) \/ WaitToSend(t)
    \/ Receive(t) \/ WaitToReceive(t) \/ GiveUpReceive(t)

MailboxNext ==
    \/ \E t \in Thread : CallSend(t) \/ CallReceive(t) \/ Step(t) \/ Expire(t)
                         \/ WakeForNothing(t)
    \/ \E p, q \in Parent : Share(p, q)
    \/ \E p \in Parent : Drop(p)
    \/ EndTask \/ EndThread

MailboxSpec == MailboxInit /\ [][MailboxNext]_mailboxVars

(* Threads in a call run when they can; the task goes on receiving, as the *)
(* loop of a task that serves its parents does, and does not end.          *)
ServingSpec ==
    /\ MailboxSpec
    /\ \A t \in Thread : WF_mailboxVars(Step(t)) /\ WF_mailboxVars(Expire(t))
    /\ WF_mailboxVars(CallReceive(TaskThread))

-----------------------------------------------------------------------------
(* Properties                                                              *)

(* While the task has one parent the one signal of a send or a receive     *)
(* reaches who can use it: no thread sleeps while what it waits for is     *)
(* there.  (With two parents it may not: both sleep in task->cond, and the *)
(* signal for the one may wake the other, which sleeps again.)             *)
NobodySleepsInVain ==
    owners = {Creator} =>
        \A t \in asleep : ~(IF call[t] = "send" THEN HasRoom(t) ELSE HasMail(t))

(* The task is freed when no heap holds a handle of it any more and its    *)
(* thread has ended, not before and not later.                             *)
FreedWhenUnused ==
    freed <=> holders = {} /\ life = "ended"

(* Every send of an only parent returns, unless the task ends or waits for *)
(* room to reply itself.                                                   *)
EverySendReturns ==
    \A p \in Parent : call[p] = "send" ~> (call[p] = "idle" \/ call[TaskThread] = "send"
                                            \/ life # "running" \/ owners # {Creator})
=============================================================================
