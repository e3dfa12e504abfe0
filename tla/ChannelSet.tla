---------------------------- MODULE ChannelSet ----------------------------
(***************************************************************************)
(* Channel sets (src/fixtask/fixtask.c): channel_set_add,                  *)
(* channel_set_remove and channel_set_receive, next to the senders and     *)
(* receivers of Channel.  A set belongs to one heap, so the set and the    *)
(* thread that uses it are one actor here.                                 *)
(*                                                                         *)
(* channel_set_receive walks notify_list by index under the mutex of the   *)
(* set, and leaves that mutex while it calls channel_receive (under the    *)
(* mutex of a channel, with timeout 0): the list may change at any of      *)
(* these gaps, which are the points between the actions below.             *)
(***************************************************************************)
EXTENDS Channel

CONSTANTS
    SetTimeouts,    \* the timeouts sets receive with, some of Timeouts
    Removable       \* the channels the program removes from sets again

ASSUME ChannelSetAssumption ==
    /\ SetTimeouts \subseteq Timeouts
    /\ Removable \subseteq Chan

VARIABLES
    setPc,      \* where each set is: "idle", or in channel_set_receive
    setTimeout, \* the timeout of that call
    index,      \* its position in notify_list, the code's i plus one
    current,    \* the entry it has picked there
    entryChan   \* the channel in the memory of each entry, freed or not

setLoop == <<setPc, setTimeout, index, current>>
allVars == <<vars, setLoop, entryChan>>

Allocated == UNION {notifyEntries[c] : c \in Chan}

SetInit ==
    /\ Init
    /\ setPc = [s \in Sets |-> "idle"]
    /\ setTimeout = [s \in Sets |-> "none"]
    /\ index = [s \in Sets |-> 1]
    /\ current = [s \in Sets |-> CHOOSE e \in Entry : TRUE]
    /\ entryChan = [e \in Entry |-> CHOOSE c \in Chan : TRUE]

Watches(s, c) == \E e \in notifyEntries[c] : e.set = s

(* Mutant: a channel that is ready when it is added is not announced.      *)
AddQuietly(s, c) ==
    /\ setPc[s] = "idle" /\ ~Watches(s, c)
    /\ \E e \in Entry \ Allocated :
        /\ e.set = s
        /\ entryChan' = [entryChan EXCEPT ![e] = c]
        /\ notifyEntries' = [notifyEntries EXCEPT ![c] = @ \cup {e}]
    /\ UNCHANGED <<threadVars, chanVars, notifyList, setAsleep, taken, verdict, setLoop>>

(* A new entry, at any address that is free.  A channel that is ready is   *)
(* announced at once, to every set that does not list it.                  *)
Add(s, c) ==
    /\ setPc[s] = "idle" /\ ~Watches(s, c)
    /\ \E e \in Entry \ Allocated :
        /\ e.set = s
        /\ entryChan' = [entryChan EXCEPT ![e] = c]
        /\ notifyEntries' = [notifyEntries EXCEPT ![c] = @ \cup {e}]
        /\ IF Ready(c)
           THEN /\ notifyList' = Notified(notifyEntries'[c])
                /\ setAsleep' = setAsleep \ ToNotify(notifyEntries'[c])
           ELSE UNCHANGED <<notifyList, setAsleep>>
    /\ UNCHANGED <<threadVars, chanVars, taken, verdict, setLoop>>

(* The entry is unlinked from the channel and freed; a notify_list that    *)
(* holds it keeps it.                                                      *)
Remove(s, c) ==
    /\ setPc[s] = "idle" /\ c \in Removable
    /\ \E e \in notifyEntries[c] :
        /\ e.set = s
        /\ notifyEntries' = [notifyEntries EXCEPT ![c] = @ \ {e}]
    /\ UNCHANGED <<threadVars, chanVars, notifyList, setAsleep, taken, verdict,
                   setLoop, entryChan>>

CallSetReceive(s) ==
    /\ setPc[s] = "idle"
    /\ setPc' = [setPc EXCEPT ![s] = "scan"]
    /\ \E timeout \in SetTimeouts : setTimeout' = [setTimeout EXCEPT ![s] = timeout]
    /\ index' = [index EXCEPT ![s] = 1]
    /\ UNCHANGED <<vars, current, entryChan>>

SetReturn(s) ==
    /\ setPc' = [setPc EXCEPT ![s] = "idle"]
    /\ index' = [index EXCEPT ![s] = 1]
    /\ UNCHANGED <<setTimeout, current>>

Scanning(s) == setPc[s] = "scan" /\ s \notin setAsleep

(* Mutant: the last entry of the list is not looked at.                    *)
PickButLast(s) ==
    /\ Scanning(s) /\ index[s] < Len(notifyList[s])
    /\ current' = [current EXCEPT ![s] = notifyList[s][index[s]]]
    /\ setPc' = [setPc EXCEPT ![s] = "try"]
    /\ UNCHANGED <<vars, setTimeout, index, entryChan>>

(* Under the mutex of the set: pick the next entry, then release it.       *)
Pick(s) ==
    /\ Scanning(s) /\ index[s] <= Len(notifyList[s])
    /\ current' = [current EXCEPT ![s] = notifyList[s][index[s]]]
    /\ setPc' = [setPc EXCEPT ![s] = "try"]
    /\ UNCHANGED <<vars, setTimeout, index, entryChan>>

(* The end of the list: wait for the cond of the set and start again.      *)
SetWait(s) ==
    /\ Scanning(s) /\ index[s] > Len(notifyList[s])
    /\ setTimeout[s] # "zero"
    /\ setAsleep' = setAsleep \cup {s}
    /\ index' = [index EXCEPT ![s] = 1]
    /\ UNCHANGED <<threadVars, chanVars, notifyEntries, notifyList, taken, verdict,
                   setPc, setTimeout, current, entryChan>>

(* ... or, with no time left, before or during the wait, return.           *)
SetGiveUp(s) ==
    /\ setPc[s] = "scan" /\ setTimeout[s] # "none"
    /\ \/ s \in setAsleep /\ setTimeout[s] = "timed"
       \/ s \notin setAsleep /\ index[s] > Len(notifyList[s])
    /\ setAsleep' = setAsleep \ {s}
    /\ SetReturn(s)
    /\ UNCHANGED <<threadVars, chanVars, notifyEntries, notifyList, taken, verdict,
                   entryChan>>

SetWakeSpuriously(s) ==
    /\ s \in setAsleep
    /\ setAsleep' = setAsleep \ {s}
    /\ UNCHANGED <<threadVars, chanVars, notifyEntries, notifyList, taken, verdict,
                   setLoop, entryChan>>

(* channel_receive on the channel of the entry, with timeout 0.            *)
SetTake(s) ==
    /\ setPc[s] = "try"
    /\ Take(entryChan[current[s]])
    /\ SetReturn(s)
    /\ UNCHANGED <<pc, call, expired, verdict, entryChan>>

(* Nothing was received: on to the next position of the list as it is now. *)
SetMiss(s) ==
    /\ setPc[s] = "try"
    /\ LET c == entryChan[current[s]] IN
        \/ /\ ~Ready(c)
           /\ UNCHANGED vars
        \/ /\ Refused(c)
           /\ sendError' = [sendError EXCEPT ![c] = TRUE]
           /\ \E woken \in Woken("sent", c) : asleep' = asleep \ woken
           /\ UNCHANGED <<pc, call, expired, slot, queue, size, setVars, taken, verdict>>
    /\ setPc' = [setPc EXCEPT ![s] = "scan"]
    /\ index' = [index EXCEPT ![s] = @ + 1]
    /\ UNCHANGED <<setTimeout, current, entryChan>>

(* The entry was freed and its memory holds no channel any more: the call  *)
(* returns an error.  (When the memory still holds one, SetTake and        *)
(* SetMiss go on with that.)                                               *)
SetTryFreed(s) ==
    /\ setPc[s] = "try" /\ current[s] \notin Allocated
    /\ SetReturn(s)
    /\ UNCHANGED <<vars, entryChan>>

SetStep(s) ==
    \/ Pick(s) \/ SetWait(s) \/ SetGiveUp(s)
    \/ SetTake(s) \/ SetMiss(s) \/ SetTryFreed(s)

SetNext ==
    \/ Next /\ UNCHANGED <<setLoop, entryChan>>
    \/ \E s \in Sets, c \in Chan : Add(s, c) \/ Remove(s, c)
    \/ \E s \in Sets : CallSetReceive(s) \/ SetStep(s) \/ SetWakeSpuriously(s)

SetSpec == SetInit /\ [][SetNext]_allVars

-----------------------------------------------------------------------------
(* Fairness: as in Channel, and the owner of a set, when not blocked, goes *)
(* on with channel_set_receive; its program receives again and again.      *)
SetFairness ==
    /\ Fairness
    /\ \A s \in Sets : WF_allVars(SetStep(s)) /\ WF_allVars(CallSetReceive(s))

SetFairSpec == SetSpec /\ SetFairness

(* Traffic without end.  Channel sends each message once, a bound that     *)
(* stops every sender in the end.  Here a message whose call has returned  *)
(* and that no queue holds may be sent again, as another message with the  *)
(* same contents: only the histories forget it.                            *)
SendAgain(m) ==
    /\ verdict[m] \notin {"unsent", "pending"}
    /\ \A c \in Chan : ~Queued(m, c)
    /\ verdict' = [verdict EXCEPT ![m] = "unsent"]
    /\ taken' = [c \in Chan |-> SelectSeq(taken[c], LAMBDA x : x # m)]
    /\ UNCHANGED <<threadVars, chanVars, setVars, setLoop, entryChan>>

TrafficNext == SetNext \/ \E m \in Msg : SendAgain(m)

TrafficSpec == SetInit /\ [][TrafficNext]_allVars /\ SetFairness

-----------------------------------------------------------------------------
(* Properties                                                              *)

(* Every set that watches a ready channel has that channel in its          *)
(* notify_list, whatever calls are in progress.                            *)
ReadyIsListed ==
    \A c \in Chan : Ready(c) => \A e \in notifyEntries[c] : Listed(notifyList[e.set], e)

(* No set sleeps while one of the channels in it has a message: the owner  *)
(* of a set is never blocked in channel_set_receive next to work.          *)
SleepingSetHasNoMessage ==
    \A s \in setAsleep : \A c \in Chan : Ready(c) => ~Watches(s, c)

(* A set takes a message from channel c.                                   *)
Serves(s, c) == SetTake(s) /\ entryChan[current[s]] = c

AtFront(s, c) == notifyList[s] # <<>> /\ Head(notifyList[s]) \in notifyEntries[c]

(* channel_set_receive tries notify_list from its first position in every  *)
(* call: other channels that stay ahead of c, or take turns there, keep    *)
(* the set away from c for as long as there is traffic on them.            *)
Starved(s, c) ==
    /\ <>[]~AtFront(s, c)
    /\ \E d \in Chan \ {c} : []<><<Serves(s, d)>>_allVars

(* A channel that has a message for a set for ever is received from again  *)
(* and again, without end, however the list is rearranged; unless channels *)
(* ahead of it in the list starve it, which the code does nothing against. *)
(* In particular no message stays on offer and no queue stays full next to *)
(* a set that has nothing else to do for ever.                             *)
EveryMessageServed ==
    \A s \in Sets, c \in Chan :
        <>[](Ready(c) /\ Watches(s, c)) =>
            []<><<Serves(s, c)>>_allVars \/ Starved(s, c)

(* A call of channel_send on a channel of a set that keeps receiving       *)
(* returns, also that of a sender behind others; unless other senders to   *)
(* the channel are served in its place without end (a condition variable   *)
(* has no order), or the channel itself is starved.                        *)
EverySendReturns ==
    \A t \in Thread, s \in Sets, c \in Chan :
        <>[](pc[t] \in {"send", "sent"} /\ call[t].chan = c /\ Watches(s, c)) =>
            []<><<Serves(s, c)>>_allVars \/ Starved(s, c)
=============================================================================
