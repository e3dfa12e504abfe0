--------------------------- MODULE ChannelProofs ----------------------------
(***************************************************************************)
(* Theorems about Channel and ChannelSet, for every number of threads,     *)
(* channels, sets and messages, every mix of timeouts and every queue      *)
(* size: the types, that no receiver sleeps next to a message, that no     *)
(* message is delivered twice, that the channels keep the promise of       *)
(* AbstractChannel, that a channel with a message is listed by the sets    *)
(* that watch it, and when a set never sleeps next to such a channel.      *)
(***************************************************************************)
EXTENDS ChannelSet, SequenceTheorems, FiniteSetTheorems, TLAPS

(* Dropping an entry from a notify_list leaves a list of entries.          *)
LEMMA SwapOutType ==
    ASSUME NEW S, NEW list \in Seq(S), list # <<>>, NEW i
    PROVE  SwapOut(list, i) \in Seq(S)
<1> DEFINE n == Len(list) - 1
<1>1. n \in Nat /\ Len(list) \in 1 .. Len(list)
  BY EmptySeq, LenProperties
<1>2. \A j \in 1 .. n : list[j] \in S
  BY <1>1, LenProperties, ElementOfSeq
<1>3. list[Len(list)] \in S
  BY <1>1, ElementOfSeq
<1>4. SwapOut(list, i) \in [1 .. n -> S]
  BY <1>1, <1>2, <1>3 DEF SwapOut
<1> QED
  BY <1>1, <1>4, SeqDef

(* notify_sets and unnotify_sets keep every notify_list a list of entries. *)
LEMMA NotifiedType ==
    ASSUME notifyList \in [Sets -> Seq(Entry)], NEW entries \in SUBSET Entry
    PROVE  Notified(entries) \in [Sets -> Seq(Entry)]
<1> SUFFICES ASSUME NEW s \in Sets
             PROVE  Notified(entries)[s] \in Seq(Entry)
  BY DEF Notified
<1>1. CASE s \in ToNotify(entries)
  <2>1. (CHOOSE e \in entries : e.set = s) \in Entry
    BY <1>1 DEF ToNotify
  <2>2. Append(notifyList[s], CHOOSE e \in entries : e.set = s) \in Seq(Entry)
    BY <2>1, AppendProperties
  <2> QED
    BY <1>1, <2>2 DEF Notified
<1>2. CASE s \notin ToNotify(entries)
  BY <1>2 DEF Notified
<1> QED
  BY <1>1, <1>2

(* unnotify_sets leaves every notify_list a list of entries.               *)
LEMMA UnnotifiedType ==
    ASSUME NEW lists \in [Sets -> Seq(Entry)], NEW entries \in SUBSET Entry
    PROVE  Unnotified(lists, entries) \in [Sets -> Seq(Entry)]
<1> SUFFICES ASSUME NEW s \in Sets
             PROVE  Unnotified(lists, entries)[s] \in Seq(Entry)
  BY DEF Unnotified
<1>1. CASE \E e \in entries : Listed(lists[s], e)
  <2>1. lists[s] # <<>>
    BY <1>1, LenProperties, EmptySeq DEF Listed
  <2>2. \A i : SwapOut(lists[s], i) \in Seq(Entry)
    BY <2>1, SwapOutType
  <2> QED
    BY <1>1, <2>2 DEF Unnotified
<1>2. CASE ~ \E e \in entries : Listed(lists[s], e)
  BY <1>2 DEF Unnotified
<1> QED
  BY <1>1, <1>2

(* The arguments of an idle thread are arguments.                          *)
LEMMA NoCallType == NoCall \in Calls
<1>1. PICK c \in Chan, m \in Msg : TRUE
  BY ChannelAssumption
<1>2. [chan |-> c, timeout |-> "none", msg |-> m] \in Calls
  BY DEF Calls, Timeouts
<1> QED
  BY <1>2 DEF NoCall

(* What the two ways of taking a message leave behind.                     *)
LEMMA TakeType ==
    ASSUME TypeOK, NEW c \in Chan, Take(c)
    PROVE  /\ taken' \in [Chan -> Seq(Msg)]
           /\ slot' \in [Chan -> Thread \cup {NoThread}]
           /\ queue' \in [Chan -> Seq(Msg)]
           /\ sendError' \in [Chan -> BOOLEAN]
           /\ size' \in [Chan -> Nat]
           /\ notifyEntries' \in [Chan -> SUBSET Entry]
           /\ notifyList' \in [Sets -> Seq(Entry)]
           /\ setAsleep' \in SUBSET Sets
           /\ asleep' \in SUBSET asleep
<1>u. Unnotified(notifyList, notifyEntries[c]) \in [Sets -> Seq(Entry)]
  BY UnnotifiedType DEF TypeOK
<1>1. CASE Sync(c)
  <2>1. call[slot[c]].msg \in Msg
    BY <1>1 DEF Take, Ready, TypeOK, Calls
  <2>2. Append(taken[c], call[slot[c]].msg) \in Seq(Msg)
    BY <2>1, AppendProperties DEF TypeOK
  <2> QED
    BY ZenonT(60), <1>1, <1>u, <2>2 DEF Take, TypeOK, UnnotifySets
<1>2. CASE ~Sync(c)
  <2>1. queue[c] \in Seq(Msg) /\ queue[c] # <<>>
    BY <1>2 DEF Take, Ready, TypeOK
  <2>2. Head(queue[c]) \in Msg /\ Tail(queue[c]) \in Seq(Msg)
    BY <2>1, HeadTailProperties
  <2>3. Append(taken[c], Head(queue[c])) \in Seq(Msg)
    BY <2>2, AppendProperties DEF TypeOK
  <2> QED
    BY ZenonT(60), <1>2, <1>u, <2>2, <2>3 DEF Take, TypeOK, UnnotifySets, setVars
<1> QED
  BY <1>1, <1>2

(* The part of the state that signals, waits and returns change.           *)
LEMMA ThreadType ==
    ASSUME TypeOK, NEW t \in Thread, Return(t)
    PROVE  /\ pc' \in [Thread -> PCs]
           /\ call' \in [Thread -> Calls]
           /\ expired' \in SUBSET Thread
BY NoCallType DEF Return, TypeOK, PCs

(* A return of channel_send keeps the types of what it assigns.            *)
LEMMA ReturnFromSendType ==
    ASSUME TypeOK, NEW t \in Thread, NEW result \in Verdicts, ReturnFromSend(t, result)
    PROVE  /\ pc' \in [Thread -> PCs]
           /\ call' \in [Thread -> Calls]
           /\ expired' \in SUBSET Thread
           /\ verdict' \in [Msg -> Verdicts]
BY ThreadType DEF ReturnFromSend, TypeOK, Calls

(* notify_sets keeps the types of the variables of the sets.               *)
LEMMA NotifySetsType ==
    ASSUME TypeOK, NEW c \in Chan, NotifySets(c)
    PROVE  /\ notifyEntries' \in [Chan -> SUBSET Entry]
           /\ notifyList' \in [Sets -> Seq(Entry)]
           /\ setAsleep' \in SUBSET Sets
BY NotifiedType DEF NotifySets, TypeOK

(* unnotify_sets keeps the types of the variables of the sets.             *)
LEMMA UnnotifySetsType ==
    ASSUME TypeOK, NEW c \in Chan, UnnotifySets(c)
    PROVE  /\ notifyEntries' \in [Chan -> SUBSET Entry]
           /\ notifyList' \in [Sets -> Seq(Entry)]
           /\ setAsleep' \in SUBSET Sets
BY UnnotifiedType DEF UnnotifySets, TypeOK

(* A call ends awake and without the memory of a timeout.                  *)
LEMMA CallersStep == TypeOK /\ [Next]_vars => OnlyCallersWait'
<1> SUFFICES ASSUME TypeOK, [Next]_vars
             PROVE  OnlyCallersWait'
  OBVIOUS
<1> USE DEF OnlyCallersWait, TypeOK
<1>1. ASSUME NEW t \in Thread, t \notin asleep, Return(t), asleep' \subseteq asleep
      PROVE  OnlyCallersWait'
  BY <1>1 DEF Return
<1>2. ASSUME NEW t \in Thread, pc[t] # "idle", pc' = pc \/ pc' = [pc EXCEPT ![t] = "sent"],
             asleep' \subseteq asleep \cup {t}, expired' \subseteq expired \cup asleep
      PROVE  OnlyCallersWait'
  BY <1>2
<1>3. ASSUME NEW t \in Thread, CallSend(t) \/ CallReceive(t) PROVE OnlyCallersWait'
  BY <1>3 DEF CallSend, CallReceive
<1>4. ASSUME NEW t \in Thread, Step(t) PROVE OnlyCallersWait'
  <2>1. CASE WaitToSend(t) \/ WaitForTaker(t) \/ WaitToReceive(t)
    BY <2>1, <1>2 DEF WaitToSend, WaitForTaker, WaitToReceive, Running
  <2>2. CASE Offer(t)
    BY <2>2, <1>2 DEF Offer, CanOffer, Running
  <2>3. CASE GiveUpSend(t) \/ FailSend(t) \/ WithdrawSend(t) \/ FinishSend(t)
    BY <2>3, <1>1 DEF GiveUpSend, FailSend, WithdrawSend, FinishSend, ReturnFromSend, Running
  <2>4. CASE OfferAndWithdraw(t) \/ Enqueue(t) \/ FailEnqueue(t)
    BY <2>4, <1>1 DEF OfferAndWithdraw, Enqueue, FailEnqueue, CanOffer, CanAppend,
                      ReturnFromSend, Running
  <2>5. CASE Receive(t)
    <3>1. call[t].chan \in Chan
      BY DEF Calls
    <3> QED
      BY <2>5, <3>1, <1>1, TakeType DEF Receive, Running
  <2>6. CASE Refuse(t)
    BY <2>6, <1>1, <1>2 DEF Refuse, Running
  <2>7. CASE GiveUpReceive(t)
    BY <2>7, <1>1 DEF GiveUpReceive, Running
  <2> QED
    BY <1>4, <2>1, <2>2, <2>3, <2>4, <2>5, <2>6, <2>7 DEF Step
<1>5. ASSUME NEW t \in Thread, Expire(t) \/ WakeSpuriously(t) PROVE OnlyCallersWait'
  BY <1>5 DEF Expire, WakeSpuriously
<1>6. ASSUME NEW c \in Chan, SetSize(c) PROVE OnlyCallersWait'
  BY <1>6 DEF SetSize, threadVars
<1>7. CASE UNCHANGED vars
  BY <1>7 DEF vars
<1> QED
  BY <1>3, <1>4, <1>5, <1>6, <1>7 DEF Next

(* The state always has its type.                                          *)
LEMMA TypeStep == TypeOK /\ [Next]_vars => TypeOK'
<1> SUFFICES ASSUME TypeOK, [Next]_vars
             PROVE  TypeOK'
  OBVIOUS
<1>0. OnlyCallersWait'
  BY CallersStep
<1> USE <1>0
<1>1. ASSUME NEW t \in Thread, CallSend(t) PROVE TypeOK'
  <2>1. PICK c \in Chan, m \in Msg, timeout \in SendTimeouts :
            /\ verdict' = [verdict EXCEPT ![m] = "pending"]
            /\ call' = [call EXCEPT ![t] = [chan |-> c, timeout |-> timeout, msg |-> m]]
    BY <1>1 DEF CallSend
  <2>2. [chan |-> c, timeout |-> timeout, msg |-> m] \in Calls
    BY ChannelAssumption DEF Calls
  <2>3. call' \in [Thread -> Calls] /\ verdict' \in [Msg -> Verdicts]
    BY <2>1, <2>2 DEF TypeOK, Verdicts
  <2> QED
    BY <1>1, <2>3 DEF CallSend, TypeOK, PCs, chanVars, setVars
<1>2. ASSUME NEW t \in Thread, CallReceive(t) PROVE TypeOK'
  <2>1. PICK c \in Chan, timeout \in RecvTimeouts :
            call' = [call EXCEPT ![t] =
                        [chan |-> c, timeout |-> timeout, msg |-> NoCall.msg]]
    BY <1>2 DEF CallReceive
  <2>2. [chan |-> c, timeout |-> timeout, msg |-> NoCall.msg] \in Calls
    BY ChannelAssumption, NoCallType DEF Calls
  <2>3. call' \in [Thread -> Calls]
    BY <2>1, <2>2 DEF TypeOK
  <2> QED
    BY <1>2, <2>3 DEF CallReceive, TypeOK, PCs, chanVars, setVars
<1>3. ASSUME NEW t \in Thread, Step(t) PROVE TypeOK'
  <2> DEFINE c == call[t].chan
  <2>c. c \in Chan /\ call[t].msg \in Msg
    BY DEF TypeOK, Calls
  <2>1. CASE WaitToSend(t)
    BY <2>1 DEF WaitToSend, TypeOK, chanVars, setVars
  <2>2. CASE GiveUpSend(t)
    BY <2>2, ReturnFromSendType DEF GiveUpSend, TypeOK, chanVars, setVars, Verdicts
  <2>3. CASE Offer(t)
    BY <2>3, <2>c, NotifySetsType DEF Offer, TypeOK, PCs
  <2>4. CASE OfferAndWithdraw(t)
    <3>1. Unnotified(Notified(notifyEntries[c]), notifyEntries[c]) \in [Sets -> Seq(Entry)]
      BY <2>c, NotifiedType, UnnotifiedType DEF TypeOK
    <3> QED
      BY <2>4, <2>c, <3>1, ReturnFromSendType DEF OfferAndWithdraw, TypeOK, Verdicts
  <2>5. CASE WaitForTaker(t)
    BY <2>5 DEF WaitForTaker, TypeOK, chanVars, setVars
  <2>6. CASE FailSend(t)
    BY <2>6, <2>c, UnnotifySetsType, ReturnFromSendType DEF FailSend, TypeOK, Verdicts
  <2>7. CASE WithdrawSend(t)
    BY <2>7, <2>c, UnnotifySetsType, ReturnFromSendType
       DEF WithdrawSend, TypeOK, Verdicts, setVars
  <2>8. CASE FinishSend(t)
    BY <2>8, ReturnFromSendType DEF FinishSend, TypeOK, Verdicts, chanVars, setVars
  <2>9. CASE Enqueue(t)
    <3>1. Append(queue[c], call[t].msg) \in Seq(Msg)
      BY <2>c, AppendProperties DEF TypeOK
    <3> QED
      BY <2>9, <2>c, <3>1, NotifySetsType, ReturnFromSendType DEF Enqueue, TypeOK, Verdicts
  <2>10. CASE FailEnqueue(t)
    BY <2>10, ReturnFromSendType DEF FailEnqueue, TypeOK, Verdicts, chanVars, setVars
  <2>11. CASE Receive(t)
    BY <2>11, <2>c, TakeType, ThreadType DEF Receive, TypeOK
  <2>12. CASE Refuse(t)
    BY <2>12, <2>c, ThreadType DEF Refuse, TypeOK, setVars
  <2>13. CASE WaitToReceive(t)
    BY <2>13 DEF WaitToReceive, TypeOK, chanVars, setVars
  <2>14. CASE GiveUpReceive(t)
    BY <2>14, ThreadType DEF GiveUpReceive, TypeOK, chanVars, setVars
  <2> QED
    BY <1>3, <2>1, <2>2, <2>3, <2>4, <2>5, <2>6, <2>7, <2>8, <2>9, <2>10, <2>11,
       <2>12, <2>13, <2>14 DEF Step
<1>4. ASSUME NEW t \in Thread, Expire(t) PROVE TypeOK'
  BY <1>4 DEF Expire, TypeOK, chanVars, setVars
<1>5. ASSUME NEW t \in Thread, WakeSpuriously(t) PROVE TypeOK'
  BY <1>5 DEF WakeSpuriously, TypeOK, chanVars, setVars
<1>6. ASSUME NEW c \in Chan, SetSize(c) PROVE TypeOK'
  BY <1>6, ChannelAssumption DEF SetSize, TypeOK, threadVars, setVars
<1>7. CASE UNCHANGED vars
  BY <1>7 DEF TypeOK, vars
<1> QED
  BY <1>1, <1>2, <1>3, <1>4, <1>5, <1>6, <1>7 DEF Next

(* The initial state has its type.                                         *)
LEMMA TypeInit == Init => TypeOK
BY ChannelAssumption, NoCallType, EmptySeq DEF Init, TypeOK, OnlyCallersWait, PCs, Verdicts

(* Every behaviour of the channels keeps the type invariant, for every     *)
(* number of threads, channels, sets and messages.                         *)
THEOREM TypeCorrect == Spec => []TypeOK
BY TypeInit, TypeStep, PTL DEF Spec

-----------------------------------------------------------------------------
(* A sender that sleeps in send_cond2 still has its message on offer: no   *)
(* wakeup of a synchronous sender is ever lost.  The invariant is          *)
(* inductive as it stands; the argument is that all the sleepers of a      *)
(* channel's send_cond2 are the one thread in its slot, so that the single *)
(* signal of the receiver leaves no sleeper behind.                        *)
THEOREM NoWakeupOfSenderLost == Spec => []SleepingSenderOffers
<1>1. Init => SleepingSenderOffers
  BY DEF Init, SleepingSenderOffers
<1>2. TypeOK /\ SleepingSenderOffers /\ [Next]_vars => SleepingSenderOffers'
  <2> SUFFICES ASSUME TypeOK, SleepingSenderOffers, [Next]_vars,
                      NEW u \in asleep', pc'[u] = "sent"
               PROVE  slot'[call'[u].chan] = u /\ ~sendError'[call'[u].chan]
    BY DEF SleepingSenderOffers
  (* The signal of send_cond2 wakes whoever owns the slot.                 *)
  <2>w. ASSUME NEW c \in Chan, NEW woken \in Woken("sent", c),
               u \in asleep \ woken, pc[u] = "sent"
        PROVE  call[u].chan # c
    <3> SUFFICES ASSUME call[u].chan = c PROVE FALSE
      OBVIOUS
    <3>1. \A v \in Waiters("sent", c) : v = slot[c]
      BY DEF Waiters, SleepingSenderOffers
    <3>2. u \in Waiters("sent", c)
      BY <2>w DEF Waiters
    <3>3. woken = {u}
      BY <3>1, <3>2 DEF Woken
    <3> QED
      BY <2>w, <3>3
  <2>t. /\ u \in Thread /\ asleep \subseteq Thread
        /\ pc \in [Thread -> PCs] /\ call \in [Thread -> Calls]
        /\ slot \in [Chan -> Thread \cup {NoThread}] /\ sendError \in [Chan -> BOOLEAN]
    <3>1. TypeOK'
      BY TypeStep
    <3> QED
      BY <3>1 DEF TypeOK
  <2>1. ASSUME NEW t \in Thread, CallSend(t)
        PROVE  slot'[call'[u].chan] = u /\ ~sendError'[call'[u].chan]
    BY <2>1, <2>t DEF CallSend, SleepingSenderOffers, chanVars
  <2>2. ASSUME NEW t \in Thread, CallReceive(t)
        PROVE  slot'[call'[u].chan] = u /\ ~sendError'[call'[u].chan]
    BY <2>2, <2>t DEF CallReceive, SleepingSenderOffers, chanVars
  <2>3. ASSUME NEW t \in Thread, Step(t)
        PROVE  slot'[call'[u].chan] = u /\ ~sendError'[call'[u].chan]
    <3> DEFINE c == call[t].chan
    <3>c. c \in Chan /\ (pc[u] = "sent" /\ u \in asleep => call[u].chan \in Chan)
      BY <2>t DEF Calls
    <3>1. CASE WaitToSend(t)
      BY <3>1, <2>t DEF WaitToSend, Running, SleepingSenderOffers, chanVars
    <3>2. CASE GiveUpSend(t)
      BY <3>2, <2>t DEF GiveUpSend, Running, ReturnFromSend, Return, SleepingSenderOffers, chanVars
    <3>3. CASE Offer(t)
      BY <3>3, <3>c, <2>t, ChannelAssumption DEF Offer, CanOffer, Running, SleepingSenderOffers
    <3>4. CASE OfferAndWithdraw(t)
      BY <3>4, <3>c, <2>t
         DEF OfferAndWithdraw, CanOffer, Running, ReturnFromSend, Return, SleepingSenderOffers
    <3>5. CASE WaitForTaker(t)
      BY <3>5, <2>t DEF WaitForTaker, Running, SleepingSenderOffers, chanVars
    <3>6. CASE FailSend(t)
      BY <3>6, <3>c, <2>t
         DEF FailSend, Running, ReturnFromSend, Return, SleepingSenderOffers
    <3>7. CASE WithdrawSend(t)
      BY <3>7, <3>c, <2>t
         DEF WithdrawSend, Running, ReturnFromSend, Return, SleepingSenderOffers
    <3>8. CASE FinishSend(t)
      BY <3>8, <2>t
         DEF FinishSend, Running, ReturnFromSend, Return, SleepingSenderOffers, chanVars
    <3>9. CASE Enqueue(t)
      BY <3>9, <2>t DEF Enqueue, CanAppend, Running, ReturnFromSend, Return, SleepingSenderOffers
    <3>10. CASE FailEnqueue(t)
      BY <3>10, <2>t
         DEF FailEnqueue, CanAppend, Running, ReturnFromSend, Return, SleepingSenderOffers, chanVars
    <3>11. CASE Receive(t)
      <4>1. u # t /\ u \in asleep /\ pc[u] = "sent" /\ call'[u] = call[u]
        BY <3>11, <2>t DEF Receive, Take, Running, Return
      <4>2. CASE Sync(c)
        BY <3>11, <4>1, <4>2, <2>w, <3>c, <2>t DEF Receive, Take, SleepingSenderOffers
      <4>3. CASE ~Sync(c)
        BY <3>11, <4>1, <4>3, <3>c, <2>t DEF Receive, Take, SleepingSenderOffers
      <4> QED
        BY <4>2, <4>3
    <3>12. CASE Refuse(t)
      <4>1. PICK woken \in Woken("sent", c) : asleep' \subseteq (asleep \ woken) \cup {t}
        BY <3>12 DEF Refuse
      <4>2. u # t /\ call'[u] = call[u] /\ pc[u] = "sent"
        BY <3>12, <2>t DEF Refuse, Running, Return
      <4> QED
        BY <3>12, <4>1, <4>2, <2>w, <3>c, <2>t DEF Refuse, SleepingSenderOffers
    <3>13. CASE WaitToReceive(t)
      BY <3>13, <2>t DEF WaitToReceive, Running, SleepingSenderOffers, chanVars
    <3>14. CASE GiveUpReceive(t)
      BY <3>14, <2>t DEF GiveUpReceive, Running, Return, SleepingSenderOffers, chanVars
    <3> QED
      BY <2>3, <3>1, <3>2, <3>3, <3>4, <3>5, <3>6, <3>7, <3>8, <3>9, <3>10, <3>11,
         <3>12, <3>13, <3>14 DEF Step
  <2>4. ASSUME NEW t \in Thread, Expire(t) \/ WakeSpuriously(t)
        PROVE  slot'[call'[u].chan] = u /\ ~sendError'[call'[u].chan]
    BY <2>4 DEF Expire, WakeSpuriously, SleepingSenderOffers, chanVars
  <2>5. ASSUME NEW c \in Chan, SetSize(c)
        PROVE  slot'[call'[u].chan] = u /\ ~sendError'[call'[u].chan]
    BY <2>5 DEF SetSize, SleepingSenderOffers, threadVars
  <2>6. CASE UNCHANGED vars
    BY <2>6 DEF SleepingSenderOffers, vars
  <2> QED
    BY <2>1, <2>2, <2>3, <2>4, <2>5, <2>6 DEF Next
<1> QED
  BY <1>1, <1>2, TypeCorrect, PTL DEF Spec

-----------------------------------------------------------------------------
(* "Returns true if the message was delivered."                            *)

(* A step takes a message, or leaves what was taken alone and drops        *)
(* nothing from a queue.                                                   *)
LEMMA TakingSteps ==
    ASSUME TypeOK, [Next]_vars
    PROVE  \/ \E t \in Thread : Receive(t)
           \/ /\ taken' = taken
              /\ \/ queue' = queue
                 \/ \E t \in Thread : Enqueue(t)
<1>1. ASSUME NEW t \in Thread, Step(t), ~Receive(t), ~Enqueue(t)
      PROVE  taken' = taken /\ queue' = queue
  BY <1>1 DEF Step, WaitToSend, GiveUpSend, Offer, OfferAndWithdraw, WaitForTaker,
     FailSend, WithdrawSend, FinishSend, FailEnqueue, Refuse, WaitToReceive,
     GiveUpReceive, chanVars
<1>2. ASSUME NEW t \in Thread, Enqueue(t)
      PROVE  taken' = taken
  BY <1>2 DEF Enqueue
<1>3. ASSUME NEW t \in Thread,
             CallSend(t) \/ CallReceive(t) \/ Expire(t) \/ WakeSpuriously(t)
      PROVE  taken' = taken /\ queue' = queue
  BY <1>3 DEF CallSend, CallReceive, Expire, WakeSpuriously, chanVars
<1>4. ASSUME NEW c \in Chan, SetSize(c)
      PROVE  taken' = taken /\ queue' = queue
  BY <1>4 DEF SetSize
<1>5. ASSUME UNCHANGED vars
      PROVE  taken' = taken /\ queue' = queue
  BY <1>5 DEF vars
<1> QED
  BY <1>1, <1>2, <1>3, <1>4, <1>5 DEF Next

(* A message that was taken stays taken.                                   *)
LEMMA OccursStays ==
    ASSUME TypeOK, [Next]_vars, NEW m \in Msg, NEW c \in Chan, Occurs(m, c)
    PROVE  Occurs(m, c)'
<1>1. CASE taken' = taken
  BY <1>1 DEF Occurs
<1>2. ASSUME NEW t \in Thread, Receive(t)
      PROVE  Occurs(m, c)'
  <2> DEFINE d == call[t].chan
  <2>1. PICK n : taken' = [taken EXCEPT ![d] = Append(@, n)] /\ n \in Msg
    <3>0. d \in Chan
      BY DEF TypeOK, Calls
    <3>1. CASE Sync(d)
      BY <1>2, <3>1 DEF Receive, Take, Ready, TypeOK, Calls
    <3>2. CASE ~Sync(d)
      <4>1. Head(queue[d]) \in Msg
        BY <1>2, <3>0, <3>2, HeadTailProperties DEF Receive, Take, Ready, TypeOK
      <4> QED
        BY <1>2, <3>2, <4>1 DEF Receive, Take
    <3> QED
      BY <3>1, <3>2
  <2>2. PICK i \in DOMAIN taken[c] : taken[c][i] = m
    BY DEF Occurs
  <2>3. taken[c] \in Seq(Msg) /\ i \in 1 .. Len(taken[c]) /\ Len(taken[c]) \in Nat
    BY <2>2, LenProperties DEF TypeOK
  <2>4. /\ Append(taken[c], n) \in Seq(Msg)
        /\ Len(Append(taken[c], n)) = Len(taken[c]) + 1
        /\ Append(taken[c], n)[i] = m
    BY <2>1, <2>2, <2>3, AppendProperties
  <2>5. i \in DOMAIN Append(taken[c], n)
    BY <2>3, <2>4, LenProperties
  <2> QED
    BY <2>1, <2>2, <2>4, <2>5 DEF Occurs, TypeOK
<1> QED
  BY <1>1, <1>2, TakingSteps

(* What a queue holds stays there until it is taken.                       *)
LEMMA QueuedStays ==
    ASSUME TypeOK, [Next]_vars, NEW m \in Msg, NEW c \in Chan, Queued(m, c)
    PROVE  Queued(m, c)' \/ Occurs(m, c)'
<1>1. CASE queue' = queue
  BY <1>1 DEF Queued
<1>2. PICK i \in DOMAIN queue[c] : queue[c][i] = m
  BY DEF Queued
<1>3. /\ queue[c] \in Seq(Msg) /\ queue[c] # <<>>
      /\ i \in 1 .. Len(queue[c]) /\ Len(queue[c]) \in Nat
  BY <1>2, LenProperties, EmptySeq DEF TypeOK
<1>4. ASSUME NEW t \in Thread, Enqueue(t)
      PROVE  Queued(m, c)'
  <2> DEFINE n == call[t].msg
  <2>1. n \in Msg /\ queue' = [queue EXCEPT ![call[t].chan] = Append(@, n)]
    BY <1>4 DEF Enqueue, TypeOK, Calls
  <2>2. /\ Append(queue[c], n) \in Seq(Msg)
        /\ Len(Append(queue[c], n)) = Len(queue[c]) + 1
        /\ Append(queue[c], n)[i] = m
    BY <2>1, <1>2, <1>3, AppendProperties
  <2>3. i \in DOMAIN Append(queue[c], n)
    BY <1>3, <2>2, LenProperties
  <2> QED
    BY <1>2, <2>1, <2>2, <2>3 DEF Queued, TypeOK
<1>5. ASSUME NEW t \in Thread, Receive(t), queue' # queue
      PROVE  Queued(m, c)' \/ Occurs(m, c)'
  <2> DEFINE d == call[t].chan
  <2>1. /\ queue' = [queue EXCEPT ![d] = Tail(@)]
        /\ taken' = [taken EXCEPT ![d] = Append(@, Head(queue[d]))]
        /\ d \in Chan
    BY <1>5 DEF Receive, Take, TypeOK, Calls
  <2>2. CASE d # c
    BY <1>2, <2>1, <2>2 DEF Queued, TypeOK
  <2>3. CASE d = c /\ i = 1
    <3>1. taken[c] \in Seq(Msg) /\ Len(taken[c]) \in Nat /\ Head(queue[c]) = m
      BY <1>2, <1>3, <2>3, LenProperties DEF TypeOK
    <3>2. /\ Append(taken[c], m) \in Seq(Msg)
          /\ Len(Append(taken[c], m)) = Len(taken[c]) + 1
          /\ Append(taken[c], m)[Len(taken[c]) + 1] = m
      BY <3>1, AppendProperties
    <3>3. Len(taken[c]) + 1 \in DOMAIN Append(taken[c], m)
      BY <3>1, <3>2, LenProperties
    <3> QED
      BY <2>1, <2>3, <3>1, <3>2, <3>3 DEF Occurs, TypeOK
  <2>4. CASE d = c /\ i # 1
    <3>1. /\ Tail(queue[c]) \in Seq(Msg)
          /\ Len(Tail(queue[c])) = Len(queue[c]) - 1
          /\ \A j \in 1 .. Len(Tail(queue[c])) : Tail(queue[c])[j] = queue[c][j + 1]
      BY <1>3, HeadTailProperties
    <3>2. i - 1 \in 1 .. Len(Tail(queue[c])) /\ Tail(queue[c])[i - 1] = m
      BY <1>2, <1>3, <2>4, <3>1
    <3>3. i - 1 \in DOMAIN Tail(queue[c])
      BY <3>1, <3>2, LenProperties
    <3> QED
      BY <2>1, <2>4, <3>2, <3>3 DEF Queued, TypeOK
  <2> QED
    BY SMTT(40), <2>2, <2>3, <2>4
<1> QED
  BY <1>1, <1>4, <1>5, TakingSteps

(* The strengthening: a message that has left the slot while its sender is *)
(* still in channel_send was taken by a receiver.                          *)
HandedOver ==
    \A t \in Thread : pc[t] = "sent" /\ slot[call[t].chan] # t =>
        Occurs(call[t].msg, call[t].chan)

(* The strengthening of TrueMeansDelivered is inductive: a sender at       *)
(* send_cond2 whose message is no longer in the slot has had it taken.     *)
LEMMA HandedOverStep == TypeOK /\ HandedOver /\ [Next]_vars => HandedOver'
<1> SUFFICES ASSUME TypeOK, HandedOver, [Next]_vars,
                    NEW u \in Thread, NEW d \in Chan, NEW m \in Msg,
                    call'[u].chan = d, call'[u].msg = m,
                    pc'[u] = "sent", slot'[d] # u
             PROVE  Occurs(m, d)'
  BY TypeStep DEF HandedOver, TypeOK, Calls
(* Nothing to do when the message had left the slot before the step.       *)
<1>g. ASSUME pc[u] = "sent", call'[u] = call[u], slot[d] # u
      PROVE  Occurs(m, d)'
  <2>1. Occurs(m, d)
    BY <1>g DEF HandedOver
  <2> QED
    BY <2>1, OccursStays
<1>t. /\ pc \in [Thread -> PCs] /\ call \in [Thread -> Calls]
      /\ slot \in [Chan -> Thread \cup {NoThread}]
  BY DEF TypeOK
<1>1. ASSUME NEW t \in Thread, CallSend(t) \/ CallReceive(t)
      PROVE  Occurs(m, d)'
  BY <1>1, <1>g, <1>t DEF CallSend, CallReceive, chanVars
<1>2. ASSUME NEW t \in Thread, Step(t)
      PROVE  Occurs(m, d)'
  <2>c. call[t].chan \in Chan
    BY <1>t DEF Calls
  <2>1. CASE WaitToSend(t)
    BY <2>1, <2>c, <1>g, <1>t DEF WaitToSend, Running, chanVars
  <2>2. CASE GiveUpSend(t)
    BY <2>2, <2>c, <1>g, <1>t DEF GiveUpSend, Running, ReturnFromSend, Return, chanVars
  <2>3. CASE Offer(t)
    BY <2>3, <2>c, <1>g, <1>t, ChannelAssumption DEF Offer, CanOffer, Running
  <2>4. CASE OfferAndWithdraw(t)
    BY <2>4, <2>c, <1>g, <1>t DEF OfferAndWithdraw, CanOffer, Running, ReturnFromSend, Return
  <2>5. CASE WaitForTaker(t)
    BY <2>5, <2>c, <1>g, <1>t DEF WaitForTaker, Running, chanVars
  <2>6. CASE FailSend(t)
    BY <2>6, <2>c, <1>g, <1>t DEF FailSend, Running, ReturnFromSend, Return
  <2>7. CASE WithdrawSend(t)
    BY <2>7, <2>c, <1>g, <1>t DEF WithdrawSend, Running, ReturnFromSend, Return
  <2>8. CASE FinishSend(t)
    BY <2>8, <2>c, <1>g, <1>t DEF FinishSend, Running, ReturnFromSend, Return, chanVars
  <2>9. CASE Enqueue(t)
    BY <2>9, <2>c, <1>g, <1>t DEF Enqueue, CanAppend, Running, ReturnFromSend, Return
  <2>10. CASE FailEnqueue(t)
    BY <2>10, <2>c, <1>g, <1>t DEF FailEnqueue, CanAppend, Running, ReturnFromSend, Return, chanVars
  <2>11. CASE Receive(t)
    <3>1. u # t /\ pc[u] = "sent" /\ call'[u] = call[u]
      BY <2>11, <1>t DEF Receive, Running, Return
    <3>2. CASE slot[d] = u
      <4>1. Sync(d) /\ d = call[t].chan
        BY <2>11, <2>c, <3>2, <1>t DEF Receive, Take
      <4>2. taken' = [taken EXCEPT ![d] = Append(@, m)]
        BY <2>11, <3>1, <3>2, <4>1 DEF Receive, Take
      <4>3. taken[d] \in Seq(Msg) /\ Len(taken[d]) \in Nat
        BY LenProperties DEF TypeOK
      <4>4. /\ Append(taken[d], m) \in Seq(Msg)
            /\ Len(Append(taken[d], m)) = Len(taken[d]) + 1
            /\ Append(taken[d], m)[Len(taken[d]) + 1] = m
        BY <4>3, AppendProperties
      <4>5. Len(taken[d]) + 1 \in DOMAIN Append(taken[d], m)
        BY <4>3, <4>4, LenProperties
      <4> QED
        BY <4>2, <4>4, <4>5 DEF Occurs, TypeOK
    <3> QED
      BY <3>1, <3>2, <1>g
  <2>12. CASE Refuse(t)
    BY <2>12, <2>c, <1>g, <1>t DEF Refuse, Running, Return
  <2>13. CASE WaitToReceive(t)
    BY <2>13, <2>c, <1>g, <1>t DEF WaitToReceive, Running, chanVars
  <2>14. CASE GiveUpReceive(t)
    BY <2>14, <2>c, <1>g, <1>t DEF GiveUpReceive, Running, Return, chanVars
  <2> QED
    BY <1>2, <2>1, <2>2, <2>3, <2>4, <2>5, <2>6, <2>7, <2>8, <2>9, <2>10, <2>11, <2>12, <2>13, <2>14 DEF Step
<1>3. ASSUME NEW t \in Thread, Expire(t) \/ WakeSpuriously(t)
      PROVE  Occurs(m, d)'
  BY <1>3, <1>g DEF Expire, WakeSpuriously, chanVars
<1>4. ASSUME NEW c \in Chan, SetSize(c)
      PROVE  Occurs(m, d)'
  BY <1>4, <1>g DEF SetSize, threadVars
<1>5. CASE UNCHANGED vars
  BY <1>5, <1>g DEF vars
<1> QED
  BY <1>1, <1>2, <1>3, <1>4, <1>5 DEF Next

(* A sender is told "true" only of a message that a receiver has taken or  *)
(* that waits in the queue, whatever the timeouts and the refusals.        *)
THEOREM TrueIsTrue == Spec => []TrueMeansDelivered
<1> DEFINE Inv == HandedOver /\ TrueMeansDelivered
<1>1. Init => Inv
  BY DEF Init, HandedOver, TrueMeansDelivered
<1>2. TypeOK /\ HandedOver /\ TrueMeansDelivered /\ [Next]_vars => TrueMeansDelivered'
  <2> SUFFICES ASSUME TypeOK, HandedOver, TrueMeansDelivered, [Next]_vars,
                      NEW m \in Msg, verdict'[m] = "true"
               PROVE  \E c \in Chan : Occurs(m, c)' \/ Queued(m, c)'
    BY DEF TrueMeansDelivered
  <2>1. CASE verdict[m] = "true"
    BY <2>1, OccursStays, QueuedStays DEF TrueMeansDelivered
  <2>2. CASE verdict[m] # "true"
    <3>1. PICK t \in Thread : /\ FinishSend(t) \/ Enqueue(t)
                              /\ call[t].msg = m
      <4>1. ASSUME NEW t \in Thread, CallSend(t) PROVE FALSE
        BY <4>1, <2>2 DEF CallSend, TypeOK
      <4>2. ASSUME NEW t \in Thread, Step(t), ~FinishSend(t), ~Enqueue(t) PROVE FALSE
        BY <4>2, <2>2 DEF Step, WaitToSend, GiveUpSend, Offer, OfferAndWithdraw,
           WaitForTaker, FailSend, WithdrawSend, FailEnqueue, Receive, Refuse,
           WaitToReceive, GiveUpReceive, ReturnFromSend, TypeOK
      <4>3. ASSUME NEW t \in Thread, FinishSend(t) \/ Enqueue(t) PROVE call[t].msg = m
        BY <4>3, <2>2 DEF FinishSend, Enqueue, ReturnFromSend, TypeOK
      <4>4. ASSUME NEW t \in Thread, CallReceive(t) \/ Expire(t) \/ WakeSpuriously(t)
            PROVE  FALSE
        BY <4>4, <2>2 DEF CallReceive, Expire, WakeSpuriously
      <4>5. ASSUME NEW c \in Chan, SetSize(c) PROVE FALSE
        BY <4>5, <2>2 DEF SetSize
      <4>6. ~UNCHANGED vars
        BY <2>2 DEF vars
      <4> QED
        BY <4>1, <4>2, <4>3, <4>4, <4>5, <4>6 DEF Next
    <3>2. call[t].chan \in Chan
      BY DEF TypeOK, Calls
    <3>3. CASE FinishSend(t)
      <4>1. Occurs(m, call[t].chan)
        BY <3>1, <3>3 DEF FinishSend, Running, HandedOver
      <4> QED
        BY <3>2, <4>1, OccursStays
    <3>4. CASE Enqueue(t)
      <4> DEFINE c == call[t].chan
      <4>1. queue' = [queue EXCEPT ![c] = Append(@, m)]
        BY <3>1, <3>4 DEF Enqueue
      <4>2. queue[c] \in Seq(Msg) /\ Len(queue[c]) \in Nat
        BY <3>2, LenProperties DEF TypeOK
      <4>3. /\ Append(queue[c], m) \in Seq(Msg)
            /\ Len(Append(queue[c], m)) = Len(queue[c]) + 1
            /\ Append(queue[c], m)[Len(queue[c]) + 1] = m
        BY <4>2, AppendProperties
      <4>4. Len(queue[c]) + 1 \in DOMAIN Append(queue[c], m)
        BY <4>2, <4>3, LenProperties
      <4>5. queue'[c] = Append(queue[c], m)
        BY <3>2, <4>1 DEF TypeOK
      <4>6. \E k \in Chan : Queued(m, k)'
        BY <3>2, <4>3, <4>4, <4>5 DEF Queued
      <4> QED
        BY <4>6
    <3> QED
      BY <3>1, <3>3, <3>4
  <2> QED
    BY <2>1, <2>2
<1>3. Spec => []HandedOver
  BY <1>1, HandedOverStep, TypeCorrect, PTL DEF Spec
<1> QED
  BY <1>1, <1>2, <1>3, TypeCorrect, PTL DEF Spec

-----------------------------------------------------------------------------
(* No receiver sleeps next to a message                                    *)

Busy == {t \in Thread : pc[t] # "idle"}
Coming(c) == OnTheWay("receive", c)
Sleeping(c) == Waiters("receive", c)
Enough(c) == IF Sync(c) THEN 1 ELSE Len(queue[c])

(* The strengthening: a wait that timed out is over, and finitely many     *)
(* threads are in a call at a time, however many there are.                *)
StrandedInv ==
    /\ NoStrandedReceiver
    /\ asleep \cap expired = {}
    /\ IsFiniteSet(Busy)

(* What a step may do to one channel without a message to wake for: the    *)
(* receivers that were coming still come, or one of them has come.         *)
LEMMA StillComing ==
    ASSUME StrandedInv, NEW c \in Chan, queue[c] \in Seq(Msg), queue'[c] \in Seq(Msg),
           Sync(c)' <=> Sync(c), Ready(c)' => Ready(c),
           Sleeping(c)' \subseteq Sleeping(c),
           IsFiniteSet(Coming(c)'),
           \/ /\ Coming(c) \subseteq Coming(c)'
              /\ Ready(c)' => Len(queue'[c]) = Len(queue[c])
           \/ \E t \in Thread : /\ Coming(c) \ {t} \subseteq Coming(c)'
                                /\ ~Sync(c) /\ Len(queue'[c]) = Len(queue[c]) - 1
    PROVE  Ready(c)' /\ Sleeping(c)' # {} => Cardinality(Coming(c)') >= Enough(c)'
<1> SUFFICES ASSUME Ready(c)', Sleeping(c)' # {}
             PROVE  Cardinality(Coming(c)') >= Enough(c)'
  OBVIOUS
<1>1. Cardinality(Coming(c)) >= Enough(c)
  BY DEF StrandedInv, NoStrandedReceiver, Coming, Sleeping, Enough
<1>2. Len(queue[c]) \in Nat /\ Len(queue'[c]) \in Nat BY LenProperties
<1>3. Cardinality(Coming(c)') \in Nat BY FS_CardinalityType
<1>4. CASE Coming(c) \subseteq Coming(c)' /\ Len(queue'[c]) = Len(queue[c])
  <2>1. Cardinality(Coming(c)) \in Nat /\ Cardinality(Coming(c)) <= Cardinality(Coming(c)')
    BY <1>4, FS_Subset, FS_CardinalityType
  <2>2. Enough(c)' = Enough(c) /\ Enough(c) \in Nat BY <1>2, <1>4 DEF Enough
  <2> QED BY <1>1, <1>3, <2>1, <2>2
<1>5. ASSUME NEW t \in Thread, Coming(c) \ {t} \subseteq Coming(c)',
             ~Sync(c), Len(queue'[c]) = Len(queue[c]) - 1
      PROVE  Cardinality(Coming(c)') >= Enough(c)'
  <2>1. /\ IsFiniteSet(Coming(c) \ {t})
        /\ Cardinality(Coming(c) \ {t}) <= Cardinality(Coming(c)')
        /\ Cardinality(Coming(c) \ {t}) \in Nat
    BY <1>5, FS_Subset, FS_CardinalityType
  <2>2. IsFiniteSet(Coming(c))
    <3>1. IsFiniteSet((Coming(c) \ {t}) \cup {t}) BY <2>1, FS_AddElement
    <3>2. Coming(c) \subseteq (Coming(c) \ {t}) \cup {t} OBVIOUS
    <3> QED BY <3>1, <3>2, FS_Subset
  <2>3. /\ Cardinality(Coming(c)) \in Nat
        /\ Cardinality(Coming(c) \ {t}) >= Cardinality(Coming(c)) - 1
    <3>1. Cardinality(Coming(c)) \in Nat BY <2>2, FS_CardinalityType
    <3>2. Cardinality(Coming(c) \ {t}) =
            IF t \in Coming(c) THEN Cardinality(Coming(c)) - 1 ELSE Cardinality(Coming(c))
      BY <2>2, FS_RemoveElement
    <3> QED BY <3>1, <3>2
  <2>4. Enough(c) = Len(queue[c]) /\ Enough(c)' = Len(queue[c]) - 1 BY <1>5 DEF Enough
  <2> QED BY <1>1, <1>2, <1>3, <2>1, <2>3, <2>4
<1> QED BY <1>4, <1>5

(* A step that makes one more message ready and wakes a receiver for it.   *)
LEMMA OneMoreComes ==
    ASSUME StrandedInv, NEW c \in Chan, queue[c] \in Seq(Msg), queue'[c] \in Seq(Msg),
           Sync(c)' <=> Sync(c),
           NEW woken \in Woken("receive", c),
           Sleeping(c)' \subseteq Sleeping(c) \ woken,
           Coming(c) \cup woken \subseteq Coming(c)',
           IsFiniteSet(Coming(c)'),
           \/ ~Ready(c) /\ Enough(c)' = 1
           \/ Ready(c) /\ Enough(c)' = Enough(c) + 1
    PROVE  Ready(c)' /\ Sleeping(c)' # {} => Cardinality(Coming(c)') >= Enough(c)'
<1> SUFFICES ASSUME Sleeping(c)' # {} PROVE Cardinality(Coming(c)') >= Enough(c)' OBVIOUS
<1>1. PICK w \in Sleeping(c) : woken = {w} BY DEF Sleeping, Woken
<1>2. w \notin Coming(c) BY DEF Sleeping, Waiters, Coming, OnTheWay, Running
<1>3. IsFiniteSet(Coming(c)) BY FS_Subset
<1>4. /\ Cardinality(Coming(c)) \in Nat
      /\ Cardinality(Coming(c) \cup {w}) = Cardinality(Coming(c)) + 1
  BY <1>2, <1>3, FS_AddElement, FS_CardinalityType
<1>5. /\ Cardinality(Coming(c)') \in Nat
      /\ Cardinality(Coming(c) \cup {w}) <= Cardinality(Coming(c)')
  BY <1>1, FS_Subset, FS_CardinalityType
<1>6. CASE ~Ready(c) /\ Enough(c)' = 1 BY <1>4, <1>5, <1>6
<1>7. CASE Ready(c) /\ Enough(c)' = Enough(c) + 1
  <2>1. Cardinality(Coming(c)) >= Enough(c)
    BY <1>1, <1>7 DEF StrandedInv, NoStrandedReceiver, Coming, Sleeping, Enough
  <2>2. Enough(c) \in Nat BY LenProperties DEF Enough
  <2> QED BY <1>4, <1>5, <1>7, <2>1, <2>2
<1> QED BY <1>6, <1>7

(* Only the calls in progress change, one of them at a time.               *)
LEMMA BusyStep ==
    ASSUME TypeOK, IsFiniteSet(Busy), [Next]_vars
    PROVE  IsFiniteSet(Busy')
<1>1. \E t : Busy' \subseteq Busy \cup {t}
  <2>t. pc \in [Thread -> PCs] BY DEF TypeOK
  <2>1. ASSUME NEW t \in Thread, CallSend(t) \/ CallReceive(t) \/ Step(t) \/ Expire(t)
                                \/ WakeSpuriously(t)
        PROVE  Busy' \subseteq Busy \cup {t}
    <3>1. pc' = pc \/ \E p \in PCs : pc' = [pc EXCEPT ![t] = p]
      BY <2>1 DEF CallSend, CallReceive, Expire, WakeSpuriously, Step, WaitToSend, GiveUpSend,
         Offer, OfferAndWithdraw, WaitForTaker, FailSend, WithdrawSend, FinishSend, Enqueue,
         FailEnqueue, Receive, Refuse, WaitToReceive, GiveUpReceive, ReturnFromSend, Return, PCs
    <3> QED BY <2>t, <3>1 DEF Busy
  <2>2. ASSUME (\E c \in Chan : SetSize(c)) \/ UNCHANGED vars PROVE Busy' = Busy
    BY <2>2 DEF SetSize, threadVars, vars, Busy
  <2> QED BY <2>1, <2>2 DEF Next
<1>2. PICK t : Busy' \subseteq Busy \cup {t} BY <1>1
<1> QED BY <1>2, FS_AddElement, FS_Subset

(* A thread that goes to sleep is not one whose wait has timed out.        *)
LEMMA AwakeStep ==
    ASSUME TypeOK, asleep \cap expired = {}, [Next]_vars
    PROVE  asleep' \cap expired' = {}
<1>1. ASSUME NEW t \in Thread, Step(t)
      PROVE  /\ asleep' \subseteq asleep \cup {t} /\ expired' \subseteq expired
             /\ t \in asleep' => t \notin expired
  <2>1. CASE WaitToSend(t) \/ WaitForTaker(t) \/ WaitToReceive(t)
    BY <2>1 DEF WaitToSend, WaitForTaker, WaitToReceive, MayWait
  <2>2. CASE Offer(t) \/ Refuse(t)
    BY <2>2 DEF Offer, CanOffer, Refuse, Return
  <2>3. CASE GiveUpSend(t) \/ FailSend(t) \/ WithdrawSend(t) \/ FinishSend(t) \/ GiveUpReceive(t)
    BY SMTT(40), <2>3 DEF GiveUpSend, FailSend, WithdrawSend, FinishSend, GiveUpReceive, ReturnFromSend,
                Return, Running
  <2>4. CASE OfferAndWithdraw(t) \/ Enqueue(t) \/ FailEnqueue(t) \/ Receive(t)
    BY <2>4 DEF OfferAndWithdraw, CanOffer, Enqueue, FailEnqueue, CanAppend, Receive, Take,
                ReturnFromSend, Return, Running
  <2> QED BY <1>1, <2>1, <2>2, <2>3, <2>4 DEF Step
<1>2. ASSUME NEW t \in Thread, CallSend(t) \/ CallReceive(t) \/ Expire(t) \/ WakeSpuriously(t)
      PROVE  asleep' \cap expired' = {}
  BY <1>2 DEF CallSend, CallReceive, Expire, WakeSpuriously
<1>3. ASSUME (\E c \in Chan : SetSize(c)) \/ UNCHANGED vars
      PROVE  asleep' \cap expired' = {}
  BY <1>3 DEF SetSize, threadVars, vars
<1> QED BY <1>1, <1>2, <1>3 DEF Next

(* Every step keeps StrandedInv; only those that touch a lock or a         *)
(* condition of the channel need an argument.                              *)
LEMMA StrandedStep ==
    ASSUME TypeOK, TypeOK', StrandedInv, [Next]_vars
    PROVE  StrandedInv'
<1>f. IsFiniteSet(Busy') /\ asleep' \cap expired' = {}
  BY BusyStep, AwakeStep DEF StrandedInv
<1> SUFFICES ASSUME NEW c \in Chan
             PROVE  Ready(c)' /\ Sleeping(c)' # {} => Cardinality(Coming(c)') >= Enough(c)'
  BY <1>f DEF StrandedInv, NoStrandedReceiver, Sleeping, Coming, Enough
<1> DEFINE Goal == Ready(c)' /\ Sleeping(c)' # {} => Cardinality(Coming(c)') >= Enough(c)'
<1>t. /\ pc \in [Thread -> PCs] /\ call \in [Thread -> Calls]
      /\ slot \in [Chan -> Thread \cup {NoThread}] /\ sendError \in [Chan -> BOOLEAN]
      /\ queue \in [Chan -> Seq(Msg)] /\ queue' \in [Chan -> Seq(Msg)]
      /\ size \in [Chan -> Nat] /\ asleep \subseteq Thread /\ expired \subseteq Thread
      /\ OnlyCallersWait /\ asleep \cap expired = {}
  BY DEF TypeOK, StrandedInv
<1>c. IsFiniteSet(Coming(c)')
  <2>1. Coming(c)' \subseteq Busy' BY DEF Coming, OnTheWay, Running, Busy
  <2> QED BY <1>f, <2>1, FS_Subset
(* Nothing happens to the channel, and none of its receivers leaves.       *)
<1>g. ASSUME Ready(c)' => Ready(c), Sync(c)' <=> Sync(c),
             Ready(c)' => Len(queue'[c]) = Len(queue[c]),
             Sleeping(c)' \subseteq Sleeping(c), Coming(c) \subseteq Coming(c)'
      PROVE  Goal
  BY <1>g, <1>c, <1>t, StillComing
<1>r. ASSUME NEW t \in Thread, pc[t] \in {"send", "sent"}, asleep' \subseteq asleep, Return(t)
      PROVE  Sleeping(c)' \subseteq Sleeping(c) /\ Coming(c) \subseteq Coming(c)'
  BY <1>r, <1>t DEF Return, Sleeping, Waiters, Coming, OnTheWay, Running
<1>1. ASSUME NEW t \in Thread, CallSend(t) \/ CallReceive(t) PROVE Goal
  <2>1. Sleeping(c)' \subseteq Sleeping(c) /\ Coming(c) \subseteq Coming(c)'
    BY <1>1, <1>t DEF CallSend, CallReceive, OnlyCallersWait, Sleeping, Waiters, Coming, OnTheWay,
                      Running
  <2> QED BY <1>1, <1>g, <2>1 DEF CallSend, CallReceive, chanVars, Ready, Sync
<1>2. ASSUME NEW t \in Thread, Step(t) PROVE Goal
  <2> DEFINE d == call[t].chan
  <2>c. d \in Chan BY <1>t DEF Calls
  <2>1. CASE WaitToSend(t) \/ WaitForTaker(t)
    <3>1. Sleeping(c)' \subseteq Sleeping(c) /\ Coming(c) \subseteq Coming(c)'
      BY <2>1, <1>t DEF WaitToSend, WaitForTaker, Running, Sleeping, Waiters, Coming, OnTheWay
    <3> QED BY <2>1, <1>g, <3>1 DEF WaitToSend, WaitForTaker, chanVars, Ready, Sync
  <2>2. CASE GiveUpSend(t) \/ FinishSend(t) \/ FailEnqueue(t)
    <3>1. /\ pc[t] \in {"send", "sent"} /\ asleep' \subseteq asleep /\ Return(t)
          /\ UNCHANGED chanVars
      BY <2>2 DEF GiveUpSend, FinishSend, FailEnqueue, CanAppend, Running, ReturnFromSend
    <3> QED BY <1>g, <1>r, <3>1 DEF chanVars, Ready, Sync
  <2>3. CASE FailSend(t) \/ WithdrawSend(t)
    <3>1. /\ pc[t] \in {"send", "sent"} /\ asleep' \subseteq asleep /\ Return(t)
          /\ UNCHANGED <<queue, size, sendError>>
          /\ slot' = slot \/ slot' = [slot EXCEPT ![d] = NoThread]
      BY <2>3 DEF FailSend, WithdrawSend, Running, ReturnFromSend
    <3>2. Ready(c)' => Ready(c) BY <1>t, <3>1 DEF Ready, Sync
    <3> QED BY <1>g, <1>r, <3>1, <3>2 DEF Sync
  <2>4. CASE OfferAndWithdraw(t)
    <3>1. /\ pc[t] \in {"send", "sent"} /\ asleep' \subseteq asleep /\ Return(t)
          /\ UNCHANGED <<slot, queue, size>>
          /\ Sync(d) /\ slot[d] = NoThread /\ sendError' = [sendError EXCEPT ![d] = FALSE]
      BY <2>4 DEF OfferAndWithdraw, CanOffer, Running, ReturnFromSend
    <3>2. Ready(c)' => Ready(c) BY <1>t, <3>1 DEF Ready, Sync
    <3> QED BY <1>g, <1>r, <3>1, <3>2 DEF Sync
  <2>5. CASE Offer(t)
    <3>1. PICK woken \in Woken("receive", d) : asleep' = (asleep \ woken) \cup {t}
      BY <2>5 DEF Offer
    <3>2. /\ pc[t] = "send" /\ Sync(d) /\ slot[d] = NoThread
          /\ UNCHANGED <<call, expired, queue, size>> /\ pc' = [pc EXCEPT ![t] = "sent"]
          /\ slot' = [slot EXCEPT ![d] = t] /\ sendError' = [sendError EXCEPT ![d] = FALSE]
      BY <2>5 DEF Offer, CanOffer, Running
    <3>3. Sleeping(c)' \subseteq Sleeping(c) \ woken /\ Coming(c) \subseteq Coming(c)'
      BY <1>t, <3>1, <3>2 DEF Sleeping, Waiters, Coming, OnTheWay, Running
    <3>4. Sync(c)' <=> Sync(c) BY <3>2 DEF Sync
    <3>5. CASE c # d
      <4>1. Ready(c)' <=> Ready(c) BY <1>t, <3>2, <3>5 DEF Ready, Sync
      <4> QED BY <1>g, <3>2, <3>3, <3>4, <4>1
    <3>6. CASE c = d
      <4>1. woken \subseteq Coming(c)'
        BY <1>t, <3>1, <3>2, <3>6 DEF Woken, Waiters, Coming, OnTheWay, Running
      <4>2. ~Ready(c) /\ Enough(c)' = 1 BY <3>2, <3>6 DEF Ready, Sync, Enough
      <4> QED BY <1>c, <1>t, <3>1, <3>3, <3>4, <3>6, <4>1, <4>2, OneMoreComes
    <3> QED BY <3>5, <3>6
  <2>6. CASE Enqueue(t)
    <3>1. PICK woken \in Woken("receive", d) : asleep' = asleep \ woken
      BY <2>6 DEF Enqueue
    <3>2. /\ pc[t] = "send" /\ ~Sync(d) /\ Return(t) /\ call[t].msg \in Msg
          /\ UNCHANGED <<slot, sendError, size>>
          /\ queue' = [queue EXCEPT ![d] = Append(@, call[t].msg)]
      BY <2>6, <1>t DEF Enqueue, CanAppend, Running, ReturnFromSend, Calls
    <3>3. Sleeping(c)' \subseteq Sleeping(c) \ woken /\ Coming(c) \subseteq Coming(c)'
      BY <1>t, <3>1, <3>2 DEF Sleeping, Waiters, Coming, OnTheWay, Running, Return
    <3>4. Sync(c)' <=> Sync(c) BY <3>2 DEF Sync
    <3>5. CASE c # d
      <4>1. queue'[c] = queue[c] /\ (Ready(c)' <=> Ready(c))
        BY <1>t, <3>2, <3>5 DEF Ready, Sync
      <4> QED BY <1>g, <3>3, <3>4, <4>1
    <3>6. CASE c = d
      <4>1. woken \subseteq Coming(c)'
        BY <1>t, <3>1, <3>2, <3>6 DEF Woken, Waiters, Coming, OnTheWay, Running, Return
      <4>2. queue'[c] = Append(queue[c], call[t].msg) BY <1>t, <3>2, <3>6
      <4>3. Len(queue'[c]) = Len(queue[c]) + 1 BY <1>t, <3>2, <4>2, AppendProperties
      <4>4. Enough(c)' = Len(queue[c]) + 1 /\ Enough(c) = Len(queue[c])
        BY <3>2, <3>4, <3>6, <4>3 DEF Enough
      <4>5. ~Ready(c) => Len(queue[c]) = 0 BY <3>2, <3>6, EmptySeq DEF Ready
      <4>6. \/ ~Ready(c) /\ Enough(c)' = 1
            \/ Ready(c) /\ Enough(c)' = Enough(c) + 1
        BY <4>4, <4>5
      <4> QED BY <1>c, <1>t, <3>1, <3>3, <3>4, <3>6, <4>1, <4>6, OneMoreComes
    <3> QED BY <3>5, <3>6
  <2>7. CASE Receive(t)
    <3>1. /\ pc[t] = "receive" /\ Take(d) /\ Return(t) /\ asleep' \subseteq asleep /\ size' = size
      BY <2>7 DEF Receive, Running, Take
    <3>2. /\ Sleeping(c)' \subseteq Sleeping(c) /\ Coming(c) \ {t} \subseteq Coming(c)'
          /\ c # d => Coming(c) \subseteq Coming(c)'
      BY <1>t, <3>1 DEF Sleeping, Waiters, Coming, OnTheWay, Running, Return
    <3>3. Sync(c)' <=> Sync(c) BY <3>1 DEF Sync
    <3>4. CASE c # d
      <4>1. queue'[c] = queue[c] /\ (Ready(c)' <=> Ready(c))
        BY <1>t, <3>1, <3>4 DEF Take, Ready, Sync
      <4> QED BY <1>g, <3>2, <3>3, <3>4, <4>1
    <3>5. CASE c = d /\ Sync(d)
      <4>1. ~Ready(c)' BY <1>t, <3>1, <3>3, <3>5 DEF Take, Ready
      <4> QED BY <4>1
    <3>6. CASE c = d /\ ~Sync(d)
      <4>1. queue'[c] = Tail(queue[c]) /\ queue[c] # <<>> /\ Ready(c)
        BY <1>t, <3>1, <3>6 DEF Take, Ready
      <4>2. Len(queue'[c]) = Len(queue[c]) - 1 BY <1>t, <4>1, HeadTailProperties
      <4> QED BY <1>c, <1>t, <3>2, <3>3, <3>6, <4>1, <4>2, StillComing
    <3> QED BY SMTT(40), <3>4, <3>5, <3>6
  <2>8. CASE Refuse(t)
    <3>1. /\ pc[t] = "receive" /\ Sync(d) /\ sendError' = [sendError EXCEPT ![d] = TRUE]
          /\ UNCHANGED <<slot, queue, size>>
          /\ \/ asleep' \subseteq asleep \cup {t} /\ UNCHANGED <<pc, call, expired>>
             \/ asleep' \subseteq asleep /\ Return(t)
      BY <2>8 DEF Refuse, Refused, Running
    <3>2. CASE c # d
      <4>1. Sleeping(c)' \subseteq Sleeping(c) /\ Coming(c) \subseteq Coming(c)'
        BY <1>t, <3>1, <3>2 DEF Sleeping, Waiters, Coming, OnTheWay, Running, Return
      <4>2. (Ready(c)' <=> Ready(c)) /\ (Sync(c)' <=> Sync(c))
        BY <1>t, <3>1, <3>2 DEF Ready, Sync
      <4> QED BY <1>g, <3>1, <4>1, <4>2
    <3>3. CASE c = d
      <4>1. ~Ready(c)' BY <1>t, <3>1, <3>3 DEF Ready, Sync
      <4> QED BY <4>1
    <3> QED BY <3>2, <3>3
  <2>9. CASE WaitToReceive(t)
    <3>1. /\ pc[t] = "receive" /\ ~Ready(d) /\ asleep' = asleep \cup {t}
          /\ UNCHANGED <<pc, call, expired, chanVars>>
      BY <2>9 DEF WaitToReceive, Running
    <3>2. (Ready(c)' <=> Ready(c)) /\ (Sync(c)' <=> Sync(c)) BY <3>1 DEF chanVars, Ready, Sync
    <3>3. CASE c # d
      <4>1. Sleeping(c)' \subseteq Sleeping(c) /\ Coming(c) \subseteq Coming(c)'
        BY <3>1, <3>3 DEF Sleeping, Waiters, Coming, OnTheWay, Running
      <4> QED BY <1>g, <3>1, <3>2, <4>1 DEF chanVars
    <3>4. CASE c = d BY <3>1, <3>2, <3>4
    <3> QED BY <3>3, <3>4
  <2>10. CASE GiveUpReceive(t)
    <3>1. /\ pc[t] = "receive" /\ asleep' = asleep /\ Return(t) /\ UNCHANGED chanVars
          /\ t \in expired \/ ~Ready(d)
      BY <2>10 DEF GiveUpReceive, Running
    <3>2. (Ready(c)' <=> Ready(c)) /\ (Sync(c)' <=> Sync(c)) BY <3>1 DEF chanVars, Ready, Sync
    <3>3. CASE c # d \/ t \in expired
      <4>1. Sleeping(c)' \subseteq Sleeping(c) /\ Coming(c) \subseteq Coming(c)'
        BY <1>t, <3>1, <3>3 DEF Sleeping, Waiters, Coming, OnTheWay, Running, Return
      <4> QED BY <1>g, <3>1, <3>2, <4>1 DEF chanVars
    <3>4. CASE c = d /\ ~Ready(d) BY <3>1, <3>2, <3>4
    <3> QED BY <3>1, <3>3, <3>4
  <2> QED
    BY <1>2, <2>1, <2>2, <2>3, <2>4, <2>5, <2>6, <2>7, <2>8, <2>9, <2>10 DEF Step
<1>3. ASSUME NEW t \in Thread, Expire(t) \/ WakeSpuriously(t) PROVE Goal
  <2>1. Sleeping(c)' \subseteq Sleeping(c) /\ Coming(c) \subseteq Coming(c)'
    BY <1>3, <1>t DEF Expire, WakeSpuriously, Sleeping, Waiters, Coming, OnTheWay, Running
  <2> QED BY <1>3, <1>g, <2>1 DEF Expire, WakeSpuriously, chanVars, Ready, Sync
<1>4. ASSUME NEW d \in Chan, SetSize(d) PROVE Goal
  <2>1. PICK n \in NewSizes : size' = [size EXCEPT ![d] = n] BY <1>4 DEF SetSize
  <2>2. Sync(c)' <=> Sync(c)
    <3>1. n # 0 /\ size[d] # 0 BY <1>4, ChannelAssumption DEF SetSize, Sync
    <3> QED BY <1>t, <2>1, <3>1 DEF Sync
  <2>3. UNCHANGED <<threadVars, slot, sendError, queue>> BY <1>4 DEF SetSize
  <2> QED
    BY <1>g, <2>2, <2>3 DEF threadVars, Ready, Sleeping, Waiters, Coming, OnTheWay, Running
<1>5. CASE UNCHANGED vars
  BY <1>5, <1>g DEF vars, Ready, Sync, Sleeping, Waiters, Coming, OnTheWay, Running
<1> QED BY <1>1, <1>2, <1>3, <1>4, <1>5 DEF Next

(* No receiver sleeps next to a message that nobody is coming for.  The    *)
(* argument is one of counting: a message more is a receiver woken (or     *)
(* none asleep), a receiver gone is a message less.                        *)
THEOREM NoReceiverStranded == Spec => []NoStrandedReceiver
<1>1. Init => StrandedInv
  <2> SUFFICES ASSUME Init PROVE StrandedInv OBVIOUS
  <2>1. Busy = {} BY DEF Init, Busy
  <2> QED BY <2>1, FS_EmptySet DEF Init, StrandedInv, NoStrandedReceiver, Waiters
<1>2. StrandedInv => NoStrandedReceiver BY DEF StrandedInv
<1> QED BY <1>1, <1>2, TypeCorrect, StrandedStep, PTL DEF Spec

-----------------------------------------------------------------------------
(* No message is delivered twice, by synchronous or queued channels, with  *)
(* every timeout and refusal                                               *)

InSend(t) == pc[t] \in {"send", "sent"}

(* The sender still has its message: it has not put it anywhere, or it     *)
(* offers it in the slot.                                                  *)
InHand(t) == pc[t] = "send" \/ (pc[t] = "sent" /\ slot[call[t].chan] = t)

Nowhere(m) == \A c \in Chan : ~Occurs(m, c) /\ ~Queued(m, c)

QueuedOnce ==
    \A c, d \in Chan : \A i \in DOMAIN queue[c], j \in DOMAIN queue[d] :
        queue[c][i] = queue[d][j] => c = d /\ i = j

NotTakenAndQueued == \A m \in Msg : \A c, d \in Chan : Occurs(m, c) => ~Queued(m, d)

Placed == AtMostOnce /\ QueuedOnce /\ NotTakenAndQueued

(* A message is in one hand, or where it was put.                          *)
Hands ==
    /\ \A t \in Thread : InHand(t) => Nowhere(call[t].msg)
    /\ \A t \in Thread : InSend(t) => verdict[call[t].msg] = "pending"
    /\ \A t, u \in Thread : InSend(t) /\ InSend(u) /\ call[t].msg = call[u].msg => t = u
    /\ \A m \in Msg : verdict[m] = "unsent" => Nowhere(m)

(* The thread in the slot of a channel is a sender on that channel.        *)
Offers ==
    \A c \in Chan : slot[c] # NoThread => pc[slot[c]] = "sent" /\ call[slot[c]].chan = c

(* The inductive invariant.                                                *)
OnceInv == Placed /\ Hands /\ Offers

(* No message has been sent at the start.                                  *)
LEMMA OnceInit == Init => OnceInv
BY DEF Init, OnceInv, Placed, AtMostOnce, QueuedOnce, NotTakenAndQueued, Hands, Offers, InHand,
       InSend, Nowhere, Occurs, Queued

-----------------------------------------------------------------------------
(* Sequences                                                               *)

(* Where the elements of a longer sequence are.                            *)
LEMMA AppendAt ==
    ASSUME NEW s \in Seq(Msg), NEW m \in Msg
    PROVE  /\ Len(s) \in Nat /\ DOMAIN s = 1 .. Len(s)
           /\ DOMAIN Append(s, m) = 1 .. (Len(s) + 1)
           /\ \A i \in 1 .. Len(s) : Append(s, m)[i] = s[i]
           /\ Append(s, m)[Len(s) + 1] = m
<1>1. /\ Append(s, m) \in Seq(Msg) /\ Len(Append(s, m)) = Len(s) + 1
      /\ \A i \in 1 .. Len(s) : Append(s, m)[i] = s[i]
      /\ Append(s, m)[Len(s) + 1] = m
  BY AppendProperties
<1> QED BY <1>1, LenProperties

(* Where the elements of a sequence are after its first is taken.          *)
LEMMA TailAt ==
    ASSUME NEW s \in Seq(Msg), s # <<>>
    PROVE  /\ Len(s) \in Nat \ {0} /\ DOMAIN s = 1 .. Len(s)
           /\ Head(s) = s[1] /\ Head(s) \in Msg
           /\ DOMAIN Tail(s) = 1 .. (Len(s) - 1)
           /\ \A i \in 1 .. (Len(s) - 1) : Tail(s)[i] = s[i + 1]
<1>1. /\ Tail(s) \in Seq(Msg) /\ Len(Tail(s)) = Len(s) - 1
      /\ \A i \in 1 .. Len(Tail(s)) : Tail(s)[i] = s[i + 1]
      /\ Head(s) = s[1] /\ Head(s) \in Msg
  BY HeadTailProperties
<1>2. Len(s) \in Nat /\ DOMAIN s = 1 .. Len(s) /\ Len(s) # 0 BY LenProperties, EmptySeq
<1>3. DOMAIN Tail(s) = 1 .. (Len(s) - 1) BY <1>1, LenProperties
<1> QED BY <1>1, <1>2, <1>3

-----------------------------------------------------------------------------
(* What the steps do to the messages taken and queued                      *)

(* A message that was nowhere is put into a queue.                         *)
LEMMA PutIntoQueue ==
    ASSUME TypeOK, Placed, NEW c \in Chan, NEW m \in Msg, Nowhere(m), taken' = taken,
           queue' = [queue EXCEPT ![c] = Append(@, m)]
    PROVE  Placed' /\ \A n \in Msg \ {m} : Nowhere(n) => Nowhere(n)'
<1>1. queue[c] \in Seq(Msg) /\ queue \in [Chan -> Seq(Msg)] BY DEF TypeOK
<1> DEFINE new == Len(queue[c]) + 1
<1>2. ASSUME NEW d \in Chan, NEW i \in DOMAIN queue'[d]
      PROVE  \/ i \in DOMAIN queue[d] /\ queue'[d][i] = queue[d][i]
             \/ d = c /\ i = new /\ queue'[d][i] = m
  BY <1>1, <1>2, AppendAt
<1>3. \A d \in Chan : \A i \in DOMAIN queue[d] : queue[d][i] # m
  BY DEF Nowhere, Queued
<1>4. QueuedOnce' BY <1>2, <1>3 DEF QueuedOnce, Placed
<1>5. ASSUME NEW n \in Msg, NEW d \in Chan, Queued(n, d)' PROVE n = m \/ Queued(n, d)
  BY <1>2, <1>5 DEF Queued
<1>6. \A n \in Msg, d \in Chan : Occurs(n, d)' <=> Occurs(n, d) BY DEF Occurs
<1>7. NotTakenAndQueued' BY <1>5, <1>6 DEF NotTakenAndQueued, Nowhere, Placed
<1>8. AtMostOnce' BY DEF AtMostOnce, Placed
<1> QED BY <1>4, <1>5, <1>6, <1>7, <1>8 DEF Placed, Nowhere

(* A message that was nowhere is taken out of the slot.                    *)
LEMMA TakeFromSlot ==
    ASSUME TypeOK, Placed, NEW c \in Chan, NEW m \in Msg, Nowhere(m), queue' = queue,
           taken' = [taken EXCEPT ![c] = Append(@, m)]
    PROVE  Placed' /\ \A n \in Msg \ {m} : Nowhere(n) => Nowhere(n)'
<1>1. taken[c] \in Seq(Msg) /\ taken \in [Chan -> Seq(Msg)] BY DEF TypeOK
<1> DEFINE new == Len(taken[c]) + 1
<1>2. ASSUME NEW d \in Chan, NEW i \in DOMAIN taken'[d]
      PROVE  \/ i \in DOMAIN taken[d] /\ taken'[d][i] = taken[d][i]
             \/ d = c /\ i = new /\ taken'[d][i] = m
  BY <1>1, <1>2, AppendAt
<1>3. \A d \in Chan : \A i \in DOMAIN taken[d] : taken[d][i] # m
  BY DEF Nowhere, Occurs
<1>4. AtMostOnce' BY <1>2, <1>3 DEF AtMostOnce, Placed
<1>5. ASSUME NEW n \in Msg, NEW d \in Chan, Occurs(n, d)' PROVE n = m \/ Occurs(n, d)
  BY <1>2, <1>5 DEF Occurs
<1>6. \A n \in Msg, d \in Chan : Queued(n, d)' <=> Queued(n, d) BY DEF Queued
<1>7. NotTakenAndQueued' BY <1>5, <1>6 DEF NotTakenAndQueued, Nowhere, Placed
<1>8. QueuedOnce' BY DEF QueuedOnce, Placed
<1> QED BY <1>4, <1>5, <1>6, <1>7, <1>8 DEF Placed, Nowhere

(* The first message of a queue is taken.                                  *)
LEMMA TakeFromQueue ==
    ASSUME TypeOK, Placed, NEW c \in Chan, queue[c] # <<>>,
           queue' = [queue EXCEPT ![c] = Tail(@)],
           taken' = [taken EXCEPT ![c] = Append(@, Head(queue[c]))]
    PROVE  Placed' /\ \A n \in Msg : Nowhere(n) => Nowhere(n)'
<1> DEFINE m == Head(queue[c])
           new == Len(taken[c]) + 1
<1>1. /\ queue[c] \in Seq(Msg) /\ queue \in [Chan -> Seq(Msg)]
      /\ taken[c] \in Seq(Msg) /\ taken \in [Chan -> Seq(Msg)]
  BY DEF TypeOK
<1>2. m \in Msg /\ m = queue[c][1] /\ 1 \in DOMAIN queue[c] BY <1>1, TailAt
<1>3. ASSUME NEW d \in Chan, NEW i \in DOMAIN taken'[d]
      PROVE  \/ i \in DOMAIN taken[d] /\ taken'[d][i] = taken[d][i]
             \/ d = c /\ i = new /\ taken'[d][i] = m
  BY <1>1, <1>2, <1>3, AppendAt
<1>4. ASSUME NEW i \in DOMAIN queue'[c]
      PROVE  i + 1 \in DOMAIN queue[c] /\ queue'[c][i] = queue[c][i + 1] /\ i \in Nat \ {0}
  BY <1>1, <1>4, TailAt
<1>5. \A d \in Chan \ {c} : queue'[d] = queue[d] BY <1>1
<1>6. ASSUME NEW d \in Chan, NEW i \in DOMAIN queue'[d]
      PROVE  queue'[d][i] # m /\ \E j \in DOMAIN queue[d] : queue'[d][i] = queue[d][j]
  <2>1. CASE d = c
    <3>1. i + 1 \in DOMAIN queue[c] /\ queue'[c][i] = queue[c][i + 1] /\ i + 1 # 1
      BY <1>4, <1>6, <2>1
    <3> QED BY <1>2, <2>1, <3>1 DEF Placed, QueuedOnce
  <2>2. CASE d # c BY <1>2, <1>5, <1>6, <2>2 DEF Placed, QueuedOnce
  <2> QED BY <2>1, <2>2
<1>7. \A d \in Chan : \A i \in DOMAIN taken[d] : taken[d][i] # m
  <2>1. Queued(m, c) BY <1>2 DEF Queued
  <2> QED BY <1>2, <2>1 DEF Placed, NotTakenAndQueued, Occurs
<1>8. AtMostOnce' BY <1>3, <1>7 DEF AtMostOnce, Placed
<1>9. QueuedOnce'
  <2> SUFFICES ASSUME NEW d \in Chan, NEW e \in Chan, NEW i \in DOMAIN queue'[d],
                      NEW j \in DOMAIN queue'[e], queue'[d][i] = queue'[e][j]
               PROVE  d = e /\ i = j
    BY DEF QueuedOnce
  <2>1. CASE d = c /\ e = c
    <3>1. i + 1 = j + 1 BY <1>4, <2>1 DEF Placed, QueuedOnce
    <3>2. i \in Nat /\ j \in Nat BY <1>4, <2>1
    <3> QED BY <2>1, <3>1, <3>2
  <2>2. CASE d # c /\ e # c BY <1>5, <2>2 DEF Placed, QueuedOnce
  <2>3. CASE d = c /\ e # c BY <1>4, <1>5, <2>3 DEF Placed, QueuedOnce
  <2>4. CASE d # c /\ e = c BY <1>4, <1>5, <2>4 DEF Placed, QueuedOnce
  <2> QED BY <2>1, <2>2, <2>3, <2>4
<1>10. ASSUME NEW n \in Msg, NEW d \in Chan, Occurs(n, d)' PROVE n = m \/ Occurs(n, d)
  BY <1>3, <1>10 DEF Occurs
<1>11. ASSUME NEW n \in Msg, NEW d \in Chan, Queued(n, d)' PROVE n # m /\ Queued(n, d)
  BY <1>6, <1>11 DEF Queued
<1>12. NotTakenAndQueued' BY <1>10, <1>11 DEF NotTakenAndQueued, Placed
<1>13. \A n \in Msg : Nowhere(n) => n # m BY <1>2 DEF Nowhere, Queued
<1> QED BY <1>8, <1>9, <1>10, <1>11, <1>12, <1>13 DEF Placed, Nowhere
-----------------------------------------------------------------------------
(* What the steps do to the threads                                        *)

(* A step of another thread, or of none, leaves a sender where it is, but  *)
(* it may empty the slot.                                                  *)
Untouched(u) == pc'[u] = pc[u] /\ call'[u] = call[u]

(* A sender leaves the slot only when a receiver has taken its message, or *)
(* takes the message out again itself.                                     *)
LEMMA OffersStep == TypeOK /\ Offers /\ [Next]_vars => Offers'
<1> SUFFICES ASSUME TypeOK, Offers, [Next]_vars, NEW c \in Chan, slot'[c] # NoThread
             PROVE  pc'[slot'[c]] = "sent" /\ call'[slot'[c]].chan = c
  BY DEF Offers
<1>t. /\ pc \in [Thread -> PCs] /\ call \in [Thread -> Calls]
      /\ slot \in [Chan -> Thread \cup {NoThread}]
  BY DEF TypeOK
<1>o. slot[c] # NoThread =>
        slot[c] \in Thread /\ pc[slot[c]] = "sent" /\ call[slot[c]].chan = c
  BY <1>t DEF Offers
<1>1. ASSUME NEW t \in Thread, CallSend(t) \/ CallReceive(t)
      PROVE  pc'[slot'[c]] = "sent" /\ call'[slot'[c]].chan = c
  BY <1>1, <1>o, <1>t DEF CallSend, CallReceive, chanVars
<1>2. ASSUME NEW t \in Thread, Step(t)
      PROVE  pc'[slot'[c]] = "sent" /\ call'[slot'[c]].chan = c
  <2>c. call[t].chan \in Chan BY <1>t DEF Calls
  <2>1. CASE WaitToSend(t) \/ WaitForTaker(t) \/ WaitToReceive(t)
    BY <2>1, <1>o, <1>t DEF WaitToSend, WaitForTaker, WaitToReceive, chanVars
  <2>2. CASE GiveUpSend(t) \/ FailEnqueue(t) \/ GiveUpReceive(t)
    BY <2>2, <1>o, <1>t
       DEF GiveUpSend, FailEnqueue, CanAppend, GiveUpReceive, Running, ReturnFromSend, Return,
           chanVars
  <2>3. CASE Offer(t)
    BY <2>3, <2>c, <1>o, <1>t DEF Offer, CanOffer, Running
  <2>4. CASE OfferAndWithdraw(t)
    BY <2>4, <2>c, <1>o, <1>t DEF OfferAndWithdraw, CanOffer, Running, ReturnFromSend, Return
  <2>5. CASE FailSend(t)
    BY <2>5, <2>c, <1>o, <1>t DEF FailSend, Running, ReturnFromSend, Return
  <2>6. CASE WithdrawSend(t)
    BY <2>6, <2>c, <1>o, <1>t DEF WithdrawSend, Running, ReturnFromSend, Return
  <2>7. CASE FinishSend(t)
    BY <2>7, <2>c, <1>o, <1>t DEF FinishSend, Running, ReturnFromSend, Return, chanVars
  <2>8. CASE Enqueue(t)
    BY <2>8, <2>c, <1>o, <1>t DEF Enqueue, CanAppend, Running, ReturnFromSend, Return
  <2>9. CASE Receive(t)
    BY <2>9, <2>c, <1>o, <1>t DEF Receive, Take, Running, Return
  <2>10. CASE Refuse(t)
    BY <2>10, <2>c, <1>o, <1>t DEF Refuse, Running, Return
  <2> QED
    BY <1>2, <2>1, <2>2, <2>3, <2>4, <2>5, <2>6, <2>7, <2>8, <2>9, <2>10 DEF Step
<1>3. ASSUME NEW t \in Thread, Expire(t) \/ WakeSpuriously(t)
      PROVE  pc'[slot'[c]] = "sent" /\ call'[slot'[c]].chan = c
  BY <1>3, <1>o DEF Expire, WakeSpuriously, chanVars
<1>4. ASSUME NEW d \in Chan, SetSize(d)
      PROVE  pc'[slot'[c]] = "sent" /\ call'[slot'[c]].chan = c
  BY <1>4, <1>o DEF SetSize, threadVars
<1>5. CASE UNCHANGED vars BY <1>5, <1>o DEF vars
<1> QED BY <1>1, <1>2, <1>3, <1>4, <1>5 DEF Next

(* A sender was in the same send before, or has just begun one with a      *)
(* message nobody has sent; it holds its message only if it did before.    *)
LEMMA SenderSteps ==
    ASSUME TypeOK, [Next]_vars, NEW u \in Thread, InSend(u)'
    PROVE  \/ /\ InSend(u) /\ call'[u] = call[u]
              /\ InHand(u)' => InHand(u)
           \/ CallSend(u)
<1>t. /\ pc \in [Thread -> PCs] /\ call \in [Thread -> Calls]
      /\ slot \in [Chan -> Thread \cup {NoThread}]
  BY DEF TypeOK
<1> USE DEF InSend, InHand
<1>g. ASSUME Untouched(u), \A c \in Chan : slot'[c] = u => slot[c] = u
      PROVE  InSend(u) /\ call'[u] = call[u] /\ (InHand(u)' => InHand(u))
  <2>1. call[u].chan \in Chan BY <1>t DEF Calls
  <2> QED BY <1>g, <2>1 DEF Untouched
<1>1. ASSUME NEW t \in Thread, CallSend(t), t # u
      PROVE  InSend(u) /\ call'[u] = call[u] /\ (InHand(u)' => InHand(u))
  BY <1>1, <1>g, <1>t DEF CallSend, chanVars, Untouched
<1>2. ASSUME NEW t \in Thread, CallReceive(t)
      PROVE  InSend(u) /\ call'[u] = call[u] /\ (InHand(u)' => InHand(u))
  BY <1>2, <1>g, <1>t DEF CallReceive, chanVars, Untouched
<1>3. ASSUME NEW t \in Thread, Step(t)
      PROVE  InSend(u) /\ call'[u] = call[u] /\ (InHand(u)' => InHand(u))
  <2>c. call[t].chan \in Chan BY <1>t DEF Calls
  <2>1. CASE WaitToSend(t) \/ WaitForTaker(t) \/ WaitToReceive(t)
    BY <2>1, <1>g, <1>t DEF WaitToSend, WaitForTaker, WaitToReceive, chanVars, Untouched
  <2>2. CASE GiveUpSend(t) \/ FailEnqueue(t) \/ GiveUpReceive(t) \/ FinishSend(t)
    BY <2>2, <1>g, <1>t
       DEF GiveUpSend, FailEnqueue, GiveUpReceive, FinishSend, ReturnFromSend, Return, chanVars,
           Untouched
  <2>3. CASE Offer(t) /\ t # u
    BY <2>3, <2>c, <1>g, <1>t DEF Offer, Untouched
  <2>4. CASE Offer(t) /\ t = u
    BY <2>4, <2>c, <1>t DEF Offer, CanOffer, Running
  <2>5. CASE OfferAndWithdraw(t)
    BY <2>5, <1>g, <1>t DEF OfferAndWithdraw, ReturnFromSend, Return, Untouched
  <2>6. CASE FailSend(t) \/ WithdrawSend(t)
    BY <2>6, <2>c, <1>g, <1>t, ChannelAssumption
       DEF FailSend, WithdrawSend, ReturnFromSend, Return, Untouched
  <2>7. CASE Enqueue(t)
    BY <2>7, <1>g, <1>t DEF Enqueue, ReturnFromSend, Return, Untouched
  <2>8. CASE Receive(t)
    BY <2>8, <2>c, <1>g, <1>t, ChannelAssumption DEF Receive, Take, Return, Untouched
  <2>9. CASE Refuse(t)
    BY <2>9, <1>g, <1>t DEF Refuse, Return, Untouched
  <2> QED
    BY <1>3, <2>1, <2>2, <2>3, <2>4, <2>5, <2>6, <2>7, <2>8, <2>9 DEF Step
<1>4. ASSUME NEW t \in Thread, Expire(t) \/ WakeSpuriously(t)
      PROVE  InSend(u) /\ call'[u] = call[u] /\ (InHand(u)' => InHand(u))
  BY <1>4, <1>g DEF Expire, WakeSpuriously, chanVars, Untouched
<1>5. ASSUME (\E c \in Chan : SetSize(c)) \/ UNCHANGED vars
      PROVE  InSend(u) /\ call'[u] = call[u] /\ (InHand(u)' => InHand(u))
  BY <1>5, <1>g DEF SetSize, threadVars, vars, Untouched
<1> QED BY <1>1, <1>2, <1>3, <1>4, <1>5 DEF Next

(* The result of a message changes when it is sent and when that send      *)
(* returns.                                                                *)
LEMMA VerdictSteps ==
    ASSUME TypeOK, [Next]_vars, NEW m \in Msg, verdict'[m] # verdict[m]
    PROVE  \/ \E t \in Thread : CallSend(t) /\ call'[t].msg = m /\ verdict[m] = "unsent"
                                /\ verdict'[m] = "pending"
           \/ \E t \in Thread : InSend(t) /\ call[t].msg = m /\ pc'[t] = "idle"
                                /\ verdict'[m] # "unsent"
<1>t. /\ pc \in [Thread -> PCs] /\ call \in [Thread -> Calls] /\ verdict \in [Msg -> Verdicts]
  BY DEF TypeOK
<1>1. ASSUME NEW t \in Thread, CallSend(t)
      PROVE  call'[t].msg = m /\ verdict[m] = "unsent" /\ verdict'[m] = "pending"
  BY <1>1, <1>t DEF CallSend
<1>2. ASSUME NEW t \in Thread, Step(t)
      PROVE  InSend(t) /\ call[t].msg = m /\ pc'[t] = "idle" /\ verdict'[m] # "unsent"
  <2>1. CASE \/ GiveUpSend(t) \/ OfferAndWithdraw(t) \/ FailSend(t) \/ WithdrawSend(t)
             \/ FinishSend(t) \/ Enqueue(t) \/ FailEnqueue(t)
    <3>1. /\ InSend(t) /\ \E r \in {"true", "false", "error"} : ReturnFromSend(t, r)
      BY <2>1 DEF GiveUpSend, OfferAndWithdraw, CanOffer, FailSend, WithdrawSend, FinishSend,
                  Enqueue, FailEnqueue, CanAppend, Running, InSend
    <3> QED BY <3>1, <1>t DEF ReturnFromSend, Return
  <2>2. CASE \/ WaitToSend(t) \/ Offer(t) \/ WaitForTaker(t) \/ Receive(t) \/ Refuse(t)
             \/ WaitToReceive(t) \/ GiveUpReceive(t)
    BY <2>2 DEF WaitToSend, Offer, WaitForTaker, Receive, Refuse, WaitToReceive, GiveUpReceive
  <2> QED BY <1>2, <2>1, <2>2 DEF Step
<1>3. ASSUME \/ \E t \in Thread : CallReceive(t) \/ Expire(t) \/ WakeSpuriously(t)
             \/ \E c \in Chan : SetSize(c)
             \/ UNCHANGED vars
      PROVE  FALSE
  BY <1>3 DEF CallReceive, Expire, WakeSpuriously, SetSize, vars
<1> QED BY <1>1, <1>2, <1>3 DEF Next
-----------------------------------------------------------------------------
(* The messages a step puts somewhere leave the hand of their sender.      *)
LeaveTheHand(M) ==
    /\ \A n \in Msg \ M : Nowhere(n) => Nowhere(n)'
    /\ \A n \in M : verdict[n] = "pending"
    /\ \A u \in Thread : InHand(u)' => call'[u].msg \notin M

(* A message gets to another place only by the step of the thread that has *)
(* it in hand, which then has it no more.                                  *)
LEMMA PlacedStep ==
    ASSUME TypeOK, TypeOK', OnceInv, [Next]_vars
    PROVE  Placed' /\ \E M \in SUBSET Msg : LeaveTheHand(M)
<1>t. /\ pc \in [Thread -> PCs] /\ call \in [Thread -> Calls]
      /\ slot \in [Chan -> Thread \cup {NoThread}]
  BY DEF TypeOK
<1>p. Placed /\ Hands /\ Offers BY DEF OnceInv
(* The sender of a message that is put somewhere is its only one.          *)
<1>h. ASSUME NEW s \in Thread, InSend(s), ~InHand(s)', NEW u \in Thread, InHand(u)'
      PROVE  call'[u].msg # call[s].msg
  <2>1. InSend(u)' BY <1>h DEF InSend, InHand
  <2>2. CASE InSend(u) /\ call'[u] = call[u] BY <1>h, <1>p, <2>2 DEF Hands
  <2>3. CASE CallSend(u)
    <3>1. verdict[call'[u].msg] = "unsent" BY <1>t, <2>3 DEF CallSend
    <3>2. verdict[call[s].msg] = "pending" BY <1>h, <1>p DEF Hands
    <3> QED BY <3>1, <3>2
  <2> QED BY <2>1, <2>2, <2>3, SenderSteps
<1>1. CASE taken' = taken /\ queue' = queue
  <2>1. Placed' BY <1>1, <1>p DEF Placed, AtMostOnce, QueuedOnce, NotTakenAndQueued, Occurs, Queued
  <2>2. LeaveTheHand({}) BY <1>1 DEF LeaveTheHand, Nowhere, Occurs, Queued
  <2> QED BY <2>1, <2>2
<1>2. ASSUME NEW t \in Thread, Enqueue(t)
      PROVE  Placed' /\ \E M \in SUBSET Msg : LeaveTheHand(M)
  <2> DEFINE m == call[t].msg
             c == call[t].chan
  <2>1. m \in Msg /\ c \in Chan BY <1>t DEF Calls
  <2>2. /\ InHand(t) /\ InSend(t) /\ pc'[t] = "idle"
        /\ taken' = taken /\ queue' = [queue EXCEPT ![c] = Append(@, m)]
    BY <1>2, <1>t DEF Enqueue, CanAppend, Running, ReturnFromSend, Return, InHand, InSend
  <2>3. Nowhere(m) /\ verdict[m] = "pending" BY <1>p, <2>2 DEF Hands
  <2>4. Placed' /\ \A n \in Msg \ {m} : Nowhere(n) => Nowhere(n)'
    <3> HIDE DEF m, c
    <3> QED BY <1>p, <2>1, <2>2, <2>3, PutIntoQueue
  <2>5. ~InHand(t)' BY <2>2 DEF InHand
  <2>6. \A u \in Thread : InHand(u)' => call'[u].msg # m BY <1>h, <2>2, <2>5
  <2>7. LeaveTheHand({m}) BY <2>3, <2>4, <2>6 DEF LeaveTheHand
  <2> QED BY <2>1, <2>4, <2>7
<1>3. ASSUME NEW t \in Thread, Receive(t)
      PROVE  Placed' /\ \E M \in SUBSET Msg : LeaveTheHand(M)
  <2> DEFINE c == call[t].chan
  <2>1. c \in Chan BY <1>t DEF Calls
  <2>2. CASE Sync(c)
    <3>s. PICK s : s = slot[c] OBVIOUS
    <3> DEFINE m == call[s].msg
    <3>1. /\ s # NoThread /\ slot' = [slot EXCEPT ![c] = NoThread] /\ queue' = queue
          /\ taken' = [taken EXCEPT ![c] = Append(@, m)] /\ pc[t] = "receive"
          /\ pc' = [pc EXCEPT ![t] = "idle"] /\ call' = [call EXCEPT ![t] = NoCall]
      BY <1>3, <2>2, <3>s DEF Receive, Take, Ready, Running, Return
    <3>2. s \in Thread /\ pc[s] = "sent" /\ call[s].chan = c BY <1>p, <1>t, <2>1, <3>s, <3>1 DEF Offers
    <3>3. InHand(s) /\ InSend(s) /\ m \in Msg BY <1>t, <3>s, <3>2 DEF InHand, InSend, Calls
    <3>4. Nowhere(m) /\ verdict[m] = "pending" BY <1>p, <3>2, <3>3 DEF Hands
    <3>5. Placed' /\ \A n \in Msg \ {m} : Nowhere(n) => Nowhere(n)'
      <4> HIDE DEF m, c
      <4> QED BY <1>p, <2>1, <3>1, <3>3, <3>4, TakeFromSlot
    <3>6. ~InHand(s)'
      <4>1. call'[s] = call[s] BY <1>t, <3>1, <3>2
      <4>2. slot'[c] = NoThread /\ s # NoThread BY <1>t, <2>1, <3>1
      <4>3. slot'[call'[s].chan] # s BY <3>2, <4>1, <4>2
      <4>4. pc'[s] # "send" BY <1>t, <3>1, <3>2
      <4> QED BY <4>3, <4>4 DEF InHand
    <3>7. \A u \in Thread : InHand(u)' => call'[u].msg # m BY <1>h, <3>2, <3>3, <3>6
    <3>8. LeaveTheHand({m}) BY <3>4, <3>5, <3>7 DEF LeaveTheHand
    <3> QED BY <3>3, <3>5, <3>8
  <2>3. CASE ~Sync(c)
    <3>1. /\ queue[c] # <<>> /\ queue' = [queue EXCEPT ![c] = Tail(@)]
          /\ taken' = [taken EXCEPT ![c] = Append(@, Head(queue[c]))]
      BY <1>3, <2>3 DEF Receive, Take, Ready
    <3>2. Placed' /\ \A n \in Msg : Nowhere(n) => Nowhere(n)'
      <4> HIDE DEF c
      <4> QED BY <1>p, <2>1, <3>1, TakeFromQueue
    <3>3. LeaveTheHand({}) BY <3>2 DEF LeaveTheHand
    <3> QED BY SMTT(40), <3>2, <3>3
  <2> QED BY <2>2, <2>3
<1> QED BY <1>1, <1>2, <1>3, TakingSteps

(* So no step lets a message be delivered, or queued, a second time.       *)
LEMMA OnceStep == TypeOK /\ TypeOK' /\ OnceInv /\ [Next]_vars => OnceInv'
<1> SUFFICES ASSUME TypeOK, TypeOK', OnceInv, [Next]_vars PROVE OnceInv' OBVIOUS
<1>t. call \in [Thread -> Calls] /\ call' \in [Thread -> Calls] /\ pc \in [Thread -> PCs]
      /\ verdict \in [Msg -> Verdicts]
  BY DEF TypeOK
<1>p. Placed /\ Hands /\ Offers BY DEF OnceInv
<1>1. PICK M \in SUBSET Msg : LeaveTheHand(M) BY PlacedStep
<1>2. ASSUME NEW u \in Thread, CallSend(u)
      PROVE  /\ verdict[call'[u].msg] = "unsent" /\ verdict'[call'[u].msg] = "pending"
             /\ pc[u] = "idle" /\ pc' = [pc EXCEPT ![u] = "send"]
  BY <1>2, <1>t DEF CallSend
<1>3. ASSUME NEW u \in Thread, InHand(u)', NEW n \in Msg, n = call'[u].msg
      PROVE  Nowhere(n)'
  <2>1. InSend(u)' BY <1>3 DEF InSend, InHand
  <2>2. n \notin M BY <1>1, <1>3 DEF LeaveTheHand
  <2>3. Nowhere(n)
    <3>1. CASE InSend(u) /\ call'[u] = call[u] /\ (InHand(u)' => InHand(u))
      BY <1>3, <1>p, <3>1 DEF Hands
    <3>2. CASE CallSend(u) BY <1>2, <1>3, <1>p, <3>2 DEF Hands
    <3> QED BY <2>1, <3>1, <3>2, SenderSteps
  <2> QED BY <1>1, <2>2, <2>3 DEF LeaveTheHand
<1>4. ASSUME NEW u \in Thread, InSend(u)'
      PROVE  verdict'[call'[u].msg] = "pending"
  <2>1. CASE InSend(u) /\ call'[u] = call[u]
    <3>1. verdict[call[u].msg] = "pending" /\ call[u].msg \in Msg BY <1>p, <1>t, <2>1 DEF Hands, Calls
    <3>2. ASSUME verdict'[call[u].msg] # verdict[call[u].msg] PROVE FALSE
      <4>1. PICK t \in Thread : InSend(t) /\ call[t].msg = call[u].msg /\ pc'[t] = "idle"
        BY <3>1, <3>2, VerdictSteps
      <4>2. t = u BY <1>p, <2>1, <4>1 DEF Hands
      <4> QED BY <1>4, <4>1, <4>2 DEF InSend
    <3> QED BY <2>1, <3>1, <3>2
  <2>2. CASE CallSend(u) BY <1>2, <2>2
  <2> QED BY <1>4, <2>1, <2>2, SenderSteps
<1>5. ASSUME NEW u \in Thread, NEW v \in Thread, InSend(u)', InSend(v)',
             call'[u].msg = call'[v].msg
      PROVE  u = v
  <2>1. \/ InSend(u) /\ call'[u] = call[u]
        \/ CallSend(u)
    BY <1>5, SenderSteps
  <2>2. \/ InSend(v) /\ call'[v] = call[v]
        \/ CallSend(v)
    BY <1>5, SenderSteps
  <2>3. CASE InSend(u) /\ call'[u] = call[u] /\ InSend(v) /\ call'[v] = call[v]
    BY <1>5, <1>p, <2>3 DEF Hands
  <2>4. CASE InSend(u) /\ call'[u] = call[u] /\ CallSend(v)
    BY <1>2, <1>5, <1>p, <2>4 DEF Hands
  <2>5. CASE CallSend(u) /\ InSend(v) /\ call'[v] = call[v]
    BY <1>2, <1>5, <1>p, <2>5 DEF Hands
  <2>6. CASE CallSend(u) /\ CallSend(v) BY <1>2, <1>t, <2>6
  <2> QED BY <2>1, <2>2, <2>3, <2>4, <2>5, <2>6
<1>6. ASSUME NEW m \in Msg, verdict'[m] = "unsent"
      PROVE  Nowhere(m)'
  <2>1. verdict[m] = "unsent" BY <1>6, VerdictSteps
  <2>2. Nowhere(m) /\ m \notin M BY <1>1, <1>p, <2>1 DEF Hands, LeaveTheHand
  <2> QED BY <1>1, <2>2 DEF LeaveTheHand
<1>7. Hands'
  <2>1. ASSUME NEW u \in Thread, InHand(u)' PROVE Nowhere(call[u].msg)'
    <3>1. call'[u].msg \in Msg BY <1>t DEF Calls
    <3>2. \A n \in Msg : n = call'[u].msg => \A c \in Chan : ~Occurs(n, c)' /\ ~Queued(n, c)'
      BY <1>3, <2>1 DEF Nowhere
    <3> QED BY <3>1, <3>2 DEF Nowhere, Occurs, Queued
  <2> QED BY <1>4, <1>5, <1>6, <2>1 DEF Hands
<1> QED BY <1>7, <1>p, PlacedStep, OffersStep DEF OnceInv

(* No message reaches two receivers or one receiver twice, through a slot  *)
(* or a queue, whoever times out, refuses it or withdraws it.              *)
THEOREM DeliveredOnce == Spec => []AtMostOnce
<1>1. OnceInv => AtMostOnce BY DEF OnceInv, Placed
<1> QED BY <1>1, TypeCorrect, OnceInit, OnceStep, PTL DEF Spec

-----------------------------------------------------------------------------
(* The channels keep the promise of AbstractChannel: every step of a thread *)
(* is a step of the promise, or none of its business                       *)

(* The state of the promise, as Channel!Promise defines it.                *)
Log == [c \in Chan |-> taken[c] \o queue[c]]
Delivered == [c \in Chan |-> Len(taken[c])]
HurriedThreads == {t \in Thread : InSend(t) /\ call[t].timeout = "timed"}
Hurried == {call[t].msg : t \in HurriedThreads}
SyncChannels == {c \in Chan : InitSize[c] = 0}

(* A channel stays what it was created as, nothing is queued in a          *)
(* synchronous one, and only a wait with a limit times out.                *)
KindsStay ==
    /\ \A c \in Chan : Sync(c) <=> c \in SyncChannels
    /\ \A c \in Chan : Sync(c) => queue[c] = <<>>
    /\ \A t \in expired : call[t].timeout = "timed"

(* The calls begin with the kinds of timeouts and channels KindsStay       *)
(* names.                                                                  *)
LEMMA KindsInit == Init => KindsStay
BY ChannelAssumption DEF Init, KindsStay, Sync, SyncChannels

(* No step changes them.                                                   *)
LEMMA KindsStep == TypeOK /\ KindsStay /\ [Next]_vars => KindsStay'
<1> SUFFICES ASSUME TypeOK, KindsStay, [Next]_vars PROVE KindsStay' OBVIOUS
<1>t. /\ pc \in [Thread -> PCs] /\ call \in [Thread -> Calls]
      /\ size \in [Chan -> Nat] /\ queue \in [Chan -> Seq(Msg)]
      /\ expired \subseteq Thread /\ OnlyCallersWait
  BY DEF TypeOK
<1> USE DEF KindsStay, Sync, SyncChannels
(* A step that keeps the kinds and the queues, and the calls that time out. *)
<1>g. ASSUME size' = size, queue' = queue, expired' \subseteq expired,
             \A u \in expired' : call'[u] = call[u]
      PROVE  KindsStay'
  BY <1>g
<1>r. ASSUME NEW t \in Thread, Return(t)
      PROVE  expired' \subseteq expired /\ \A u \in expired' : call'[u] = call[u]
  BY <1>r, <1>t DEF Return
<1>1. ASSUME NEW t \in Thread, CallSend(t) \/ CallReceive(t) PROVE KindsStay'
  <2>1. \A u \in expired : u # t BY <1>1, <1>t DEF CallSend, CallReceive, OnlyCallersWait
  <2> QED BY <1>1, <1>g, <1>t, <2>1 DEF CallSend, CallReceive, chanVars
<1>2. ASSUME NEW t \in Thread, Step(t) PROVE KindsStay'
  <2>1. CASE WaitToSend(t) \/ WaitForTaker(t) \/ WaitToReceive(t) \/ Offer(t)
    BY <2>1, <1>g DEF WaitToSend, WaitForTaker, WaitToReceive, Offer, chanVars
  <2>2. CASE GiveUpSend(t) \/ FinishSend(t) \/ FailEnqueue(t) \/ GiveUpReceive(t)
    BY <2>2, <1>g, <1>r
       DEF GiveUpSend, FinishSend, FailEnqueue, GiveUpReceive, ReturnFromSend, chanVars
  <2>3. CASE OfferAndWithdraw(t) \/ FailSend(t) \/ WithdrawSend(t)
    BY <2>3, <1>g, <1>r DEF OfferAndWithdraw, FailSend, WithdrawSend, ReturnFromSend
  <2>4. CASE Refuse(t) BY <2>4, <1>g, <1>r DEF Refuse
  <2>5. CASE Enqueue(t)
    <3>1. size' = size /\ Return(t) /\ size[call[t].chan] # 0
          /\ queue' = [queue EXCEPT ![call[t].chan] = Append(@, call[t].msg)]
      BY <2>5 DEF Enqueue, CanAppend, ReturnFromSend
    <3> QED BY <1>r, <1>t, <3>1
  <2>6. CASE Receive(t)
    <3>1. size' = size /\ Return(t) BY <2>6 DEF Receive, Take
    <3>2. \/ queue' = queue
          \/ size[call[t].chan] # 0 /\ queue' = [queue EXCEPT ![call[t].chan] = Tail(@)]
      BY <2>6 DEF Receive, Take
    <3> QED BY <1>r, <1>t, <3>1, <3>2
  <2> QED BY <1>2, <2>1, <2>2, <2>3, <2>4, <2>5, <2>6 DEF Step
<1>3. ASSUME NEW t \in Thread, Expire(t) \/ WakeSpuriously(t) PROVE KindsStay'
  BY <1>3 DEF Expire, WakeSpuriously, chanVars
<1>4. ASSUME NEW d \in Chan, SetSize(d) PROVE KindsStay'
  <2>1. PICK n \in NewSizes : size' = [size EXCEPT ![d] = n] BY <1>4 DEF SetSize
  <2>2. n # 0 /\ size[d] # 0 BY <1>4, ChannelAssumption DEF SetSize
  <2>3. queue' = queue /\ expired' = expired /\ call' = call BY <1>4 DEF SetSize, threadVars
  <2> QED BY <1>t, <2>1, <2>2, <2>3
<1>5. CASE UNCHANGED vars BY <1>5 DEF vars
<1> QED BY <1>1, <1>2, <1>3, <1>4, <1>5 DEF Next

-----------------------------------------------------------------------------
(* The log                                                                 *)

(* What two sequences hold together.                                       *)
LEMMA ConcatAt ==
    ASSUME NEW s \in Seq(Msg), NEW q \in Seq(Msg)
    PROVE  /\ s \o q \in Seq(Msg)
           /\ Len(s) \in Nat /\ DOMAIN s = 1 .. Len(s)
           /\ Len(q) \in Nat /\ DOMAIN q = 1 .. Len(q)
           /\ Len(s \o q) = Len(s) + Len(q) /\ DOMAIN (s \o q) = 1 .. (Len(s) + Len(q))
           /\ \A i \in DOMAIN s : i \in DOMAIN (s \o q) /\ (s \o q)[i] = s[i]
           /\ \A i \in DOMAIN q :
                 Len(s) + i \in DOMAIN (s \o q) /\ (s \o q)[Len(s) + i] = q[i]
           /\ \A i \in DOMAIN (s \o q) :
                 i \notin DOMAIN s => i - Len(s) \in DOMAIN q /\ i = Len(s) + (i - Len(s))
<1>1. /\ s \o q \in Seq(Msg)
      /\ Len(s) \in Nat /\ DOMAIN s = 1 .. Len(s)
      /\ Len(q) \in Nat /\ DOMAIN q = 1 .. Len(q)
      /\ Len(s \o q) = Len(s) + Len(q) /\ DOMAIN (s \o q) = 1 .. (Len(s) + Len(q))
  <2>1. Len(s \o q) = Len(s) + Len(q) /\ s \o q \in Seq(Msg) BY ConcatProperties
  <2> QED BY <2>1, LenProperties
<1>2. \A i \in 1 .. Len(s) + Len(q) :
         (s \o q)[i] = IF i <= Len(s) THEN s[i] ELSE q[i - Len(s)]
  BY ConcatProperties
<1>3. ASSUME NEW i \in DOMAIN s PROVE i \in DOMAIN (s \o q) /\ (s \o q)[i] = s[i]
  <2>1. i \in 1 .. Len(s) + Len(q) /\ i <= Len(s) BY <1>1
  <2> QED BY <1>1, <1>2, <2>1
<1>4. ASSUME NEW i \in DOMAIN q
      PROVE  Len(s) + i \in DOMAIN (s \o q) /\ (s \o q)[Len(s) + i] = q[i]
  <2>1. /\ Len(s) + i \in 1 .. Len(s) + Len(q) /\ ~(Len(s) + i <= Len(s))
        /\ (Len(s) + i) - Len(s) = i
    BY <1>1
  <2> QED BY <1>1, <1>2, <2>1
<1>5. ASSUME NEW i \in DOMAIN (s \o q), i \notin DOMAIN s
      PROVE  i - Len(s) \in DOMAIN q /\ i = Len(s) + (i - Len(s))
  <2>1. i \in 1 .. (Len(s) + Len(q)) /\ i \notin 1 .. Len(s) BY <1>1, <1>5
  <2>2. i - Len(s) \in 1 .. Len(q) /\ i = Len(s) + (i - Len(s))
    <3>1. Len(s) \in Nat /\ Len(q) \in Nat BY <1>1
    <3> QED BY <2>1, <3>1
  <2> QED BY <1>1, <2>2
<1> QED BY <1>1, <1>3, <1>4, <1>5

(* The log of the promise holds what was taken and what is queued.         *)
LEMMA LoggedIsSomewhere ==
    ASSUME TypeOK, NEW m \in Msg
    PROVE  (\E c \in Chan : \E i \in DOMAIN Log[c] : Log[c][i] = m) <=> ~Nowhere(m)
<1> SUFFICES ASSUME NEW c \in Chan
             PROVE  (\E i \in DOMAIN Log[c] : Log[c][i] = m) <=> Occurs(m, c) \/ Queued(m, c)
  BY DEF Nowhere
<1>s. PICK s : s = taken[c] OBVIOUS
<1>q. PICK q : q = queue[c] OBVIOUS
<1>1. s \in Seq(Msg) /\ q \in Seq(Msg) /\ Log[c] = s \o q BY <1>s, <1>q DEF TypeOK, Log
<1>2. Occurs(m, c) <=> \E i \in DOMAIN s : s[i] = m BY <1>s DEF Occurs
<1>3. Queued(m, c) <=> \E i \in DOMAIN q : q[i] = m BY <1>q DEF Queued
<1>4. (\E i \in DOMAIN (s \o q) : (s \o q)[i] = m) =>
          (\E i \in DOMAIN s : s[i] = m) \/ (\E i \in DOMAIN q : q[i] = m)
  <2> SUFFICES ASSUME NEW i \in DOMAIN (s \o q), (s \o q)[i] = m, i \notin DOMAIN s
               PROVE  \E j \in DOMAIN q : q[j] = m
    BY <1>1, ConcatAt
  <2>1. i - Len(s) \in DOMAIN q /\ i = Len(s) + (i - Len(s)) BY <1>1, ConcatAt
  <2>2. q[i - Len(s)] = m BY <1>1, <2>1, ConcatAt
  <2> QED BY <2>1, <2>2
<1>5. (\E i \in DOMAIN s : s[i] = m) => \E i \in DOMAIN (s \o q) : (s \o q)[i] = m
  BY <1>1, ConcatAt
<1>6. ASSUME NEW i \in DOMAIN q, q[i] = m PROVE \E j \in DOMAIN (s \o q) : (s \o q)[j] = m
  <2>1. Len(s) + i \in DOMAIN (s \o q) /\ (s \o q)[Len(s) + i] = q[i] BY <1>1, ConcatAt
  <2> QED BY <1>6, <2>1
<1> QED BY <1>1, <1>2, <1>3, <1>4, <1>5, <1>6

(* A message that is queued comes last in the log.                         *)
LEMMA ConcatAppend ==
    ASSUME NEW s \in Seq(Msg), NEW q \in Seq(Msg), NEW m \in Msg
    PROVE  s \o Append(q, m) = Append(s \o q, m)
<1>1. Append(q, m) = q \o <<m>> /\ <<m>> \in Seq(Msg) BY AppendIsConcat
<1>2. s \o q \in Seq(Msg) BY ConcatProperties
<1>3. Append(s \o q, m) = (s \o q) \o <<m>> BY <1>2, AppendIsConcat
<1> QED BY <1>1, <1>3, ConcatAssociative

(* A message that moves from the queue to a receiver keeps its place.      *)
LEMMA MoveHead ==
    ASSUME NEW s \in Seq(Msg), NEW q \in Seq(Msg), q # <<>>
    PROVE  Append(s, Head(q)) \o Tail(q) = s \o q
<1>1. Head(q) \in Msg /\ Tail(q) \in Seq(Msg) /\ <<Head(q)>> \in Seq(Msg)
  BY HeadTailProperties
<1>2. Append(s, Head(q)) = s \o <<Head(q)>> BY <1>1, AppendIsConcat
<1>3. <<Head(q)>> \o Tail(q) = q
  <2>1. Len(q) \in 1 .. Len(q) /\ 1 \in 1 .. Len(q) /\ 1 + 1 = 2 BY EmptySeq
  <2>2. SubSeq(q, 1, Len(q)) = <<q[1]>> \o SubSeq(q, 2, Len(q))
    BY <2>1, SubSeqRecursiveFirst
  <2>3. Tail(q) = SubSeq(q, 2, Len(q)) /\ Head(q) = q[1] /\ SubSeq(q, 1, Len(q)) = q
    BY TailIsSubSeq, SubSeqFull, TailAt
  <2> QED BY <2>2, <2>3
<1> QED BY <1>1, <1>2, <1>3, ConcatAssociative

-----------------------------------------------------------------------------
(* The senders that wait for a limited time                                *)

(* No step of a thread that is not sending changes who is in a hurry.      *)
LEMMA HurriedStays ==
    ASSUME \A u \in Thread : /\ InSend(u)' <=> InSend(u)
                             /\ InSend(u) => call'[u] = call[u]
    PROVE  Hurried' = Hurried
<1>1. HurriedThreads' = HurriedThreads BY DEF HurriedThreads
<1> QED BY <1>1 DEF Hurried, HurriedThreads

(* The return of a send takes its message, and no other, out of the hurry. *)
LEMMA HurriedReturns ==
    ASSUME TypeOK, Hands, NEW t \in Thread, InSend(t), Return(t)
    PROVE  Hurried' = Hurried \ {call[t].msg}
<1>1. /\ pc' = [pc EXCEPT ![t] = "idle"] /\ call' = [call EXCEPT ![t] = NoCall]
      /\ pc \in [Thread -> PCs] /\ call \in [Thread -> Calls]
  BY DEF Return, TypeOK
<1>2. HurriedThreads' = HurriedThreads \ {t}
  BY <1>1 DEF HurriedThreads, InSend
<1>3. \A u \in HurriedThreads : call[u].msg = call[t].msg => u = t
  BY DEF HurriedThreads, Hands
<1>4. \A u \in HurriedThreads \ {t} : call'[u] = call[u]
  BY <1>1 DEF HurriedThreads
<1> QED BY <1>2, <1>3, <1>4 DEF Hurried

(* What the return of a send says of a message that went nowhere, or of    *)
(* one that is in the log, is the truth; or the sender was in a hurry.     *)
LEMMA Told ==
    ASSUME TypeOK, OnceInv, NEW t \in Thread, InSend(t), NEW result, ReturnFromSend(t, result),
           taken' = taken, queue' = queue,
           \/ result = "true" /\ ~Nowhere(call[t].msg)
           \/ result = "false" /\ (Nowhere(call[t].msg) \/ t \in HurriedThreads)
           \/ result = "error" /\ Nowhere(call[t].msg)
    PROVE  [Promise!Next]_(Promise!vars)
<1>m. PICK m \in Msg : m = call[t].msg BY DEF TypeOK, Calls
<1>1. verdict[m] = "pending" BY <1>m DEF OnceInv, Hands
<1>2. Log' = Log /\ Delivered' = Delivered BY DEF Log, Delivered
<1>3. Hurried' = Hurried \ {m} BY <1>m, HurriedReturns DEF OnceInv, ReturnFromSend
<1>4. Promise!Logged(m) <=> ~Nowhere(m) BY LoggedIsSomewhere DEF Promise!Logged, Log
<1>5. t \in HurriedThreads => m \in Hurried BY <1>m DEF Hurried
<1>6. verdict' = [verdict EXCEPT ![m] = result] BY <1>m DEF ReturnFromSend
<1>7. Promise!Tell(m)
  BY <1>m, <1>1, <1>2, <1>3, <1>4, <1>5, <1>6
     DEF Promise!Tell, Log, Delivered, Hurried, HurriedThreads, InSend
<1> QED BY <1>7 DEF Promise!Next

-----------------------------------------------------------------------------
(* Every step keeps the promise                                            *)

(* The state the promise depends on does not change.                       *)
LEMMA Stutter ==
    ASSUME taken' = taken, queue' = queue, verdict' = verdict,
           \A u \in Thread : /\ InSend(u)' <=> InSend(u)
                             /\ InSend(u) => call'[u] = call[u]
    PROVE  [Promise!Next]_(Promise!vars)
<1>1. Log' = Log /\ Delivered' = Delivered BY DEF Log, Delivered
<1>2. Hurried' = Hurried BY HurriedStays
<1>3. UNCHANGED Promise!vars
  BY <1>1, <1>2 DEF Promise!vars, Log, Delivered, Hurried, HurriedThreads, InSend
<1> QED BY <1>3

(* A call of channel_send submits its message.                             *)
LEMMA CallSendSubmits ==
    ASSUME TypeOK, NEW t \in Thread, CallSend(t)
    PROVE  [Promise!Next]_(Promise!vars)
<1>1. PICK c \in Chan, m \in Msg, timeout \in SendTimeouts :
        /\ verdict[m] = "unsent" /\ verdict' = [verdict EXCEPT ![m] = "pending"]
        /\ call' = [call EXCEPT ![t] = [chan |-> c, timeout |-> timeout, msg |-> m]]
  BY DEF CallSend
<1>2. /\ pc \in [Thread -> PCs] /\ call \in [Thread -> Calls]
      /\ pc[t] = "idle" /\ pc' = [pc EXCEPT ![t] = "send"]
      /\ taken' = taken /\ queue' = queue
  BY DEF TypeOK, CallSend, chanVars
<1>3. HurriedThreads' = IF timeout = "timed" THEN HurriedThreads \cup {t} ELSE HurriedThreads
  BY <1>1, <1>2 DEF HurriedThreads, InSend
<1>4. t \notin HurriedThreads BY <1>2 DEF HurriedThreads, InSend
<1>5. /\ \A u \in HurriedThreads : call'[u] = call[u]
      /\ call'[t].msg = m
  BY <1>1, <1>2, <1>4 DEF HurriedThreads
<1>6. Hurried' \in {Hurried, Hurried \cup {m}}
  BY <1>3, <1>5 DEF Hurried
<1>7. Log' = Log /\ Delivered' = Delivered BY <1>2 DEF Log, Delivered
<1>8. Promise!Submit(m)
  BY <1>1, <1>6, <1>7 DEF Promise!Submit, Log, Delivered, Hurried, HurriedThreads, InSend
<1> QED BY <1>8 DEF Promise!Next

(* channel_send puts the message into the queue: the promise accepts it.   *)
LEMMA EnqueueAccepts ==
    ASSUME TypeOK, OnceInv, KindsStay, NEW t \in Thread, Enqueue(t)
    PROVE  [Promise!Next]_(Promise!vars)
<1>c. PICK c \in Chan, m \in Msg : c = call[t].chan /\ m = call[t].msg BY DEF TypeOK, Calls
<1>1. /\ pc[t] = "send" /\ c \notin SyncChannels
      /\ queue' = [queue EXCEPT ![c] = Append(@, m)] /\ taken' = taken
      /\ verdict' = [verdict EXCEPT ![m] = "true"] /\ Return(t)
  BY <1>c DEF Enqueue, CanAppend, Running, ReturnFromSend, KindsStay
<1>2. InSend(t) /\ verdict[m] = "pending" /\ Nowhere(m)
  BY <1>c, <1>1 DEF OnceInv, Hands, InSend, InHand
<1>3. Hurried' = Hurried \ {m} BY <1>c, <1>1, <1>2, HurriedReturns DEF OnceInv
<1>4. ~Promise!Logged(m) BY <1>2, LoggedIsSomewhere DEF Promise!Logged, Log
<1>5. Log' = [Log EXCEPT ![c] = Append(@, m)]
  <2>1. /\ queue \in [Chan -> Seq(Msg)] /\ taken \in [Chan -> Seq(Msg)] BY DEF TypeOK
  <2>2. taken[c] \o Append(queue[c], m) = Append(taken[c] \o queue[c], m)
    BY <2>1, ConcatAppend
  <2> QED BY <1>1, <2>1, <2>2 DEF Log
<1>6. Delivered' = Delivered BY <1>1 DEF Delivered
<1>7. Promise!Accept(c, m)
  BY <1>1, <1>2, <1>3, <1>4, <1>5, <1>6
     DEF Promise!Accept, Log, Delivered, Hurried, HurriedThreads, InSend, SyncChannels
<1> QED BY <1>7 DEF Promise!Next

(* A receiver takes a message from the slot: it is handed over; from the   *)
(* queue: the oldest message is delivered.                                 *)
LEMMA ReceiveDelivers ==
    ASSUME TypeOK, OnceInv, KindsStay, NEW t \in Thread, Receive(t)
    PROVE  [Promise!Next]_(Promise!vars)
<1>c. PICK c \in Chan : c = call[t].chan BY DEF TypeOK, Calls
<1>t. /\ pc \in [Thread -> PCs] /\ call \in [Thread -> Calls]
      /\ queue \in [Chan -> Seq(Msg)] /\ taken \in [Chan -> Seq(Msg)]
      /\ slot \in [Chan -> Thread \cup {NoThread}]
  BY DEF TypeOK
<1>1. Take(c) /\ Return(t) /\ verdict' = verdict /\ pc[t] = "receive"
  BY <1>c DEF Receive, Running
<1>2. Hurried' = Hurried
  <2>1. \A u \in Thread : /\ InSend(u)' <=> InSend(u)
                          /\ InSend(u) => call'[u] = call[u]
    BY <1>1, <1>t DEF InSend, Return
  <2> QED BY <2>1, HurriedStays
<1>3. CASE Sync(c)
  <2>s. PICK s \in Thread, m \in Msg : s = slot[c] /\ m = call[s].msg
    BY <1>1, <1>3, <1>t DEF Take, Ready, Calls
  <2>1. InSend(s) /\ InHand(s) BY <1>t, <2>s, ChannelAssumption DEF OnceInv, Offers, InSend, InHand
  <2>2. verdict[m] = "pending" /\ Nowhere(m) BY <2>s, <2>1 DEF OnceInv, Hands
  <2>3. ~Promise!Logged(m) BY <2>2, LoggedIsSomewhere DEF Promise!Logged, Log
  <2>4. taken' = [taken EXCEPT ![c] = Append(@, m)] /\ queue' = queue /\ queue[c] = <<>>
    BY <1>1, <1>3, <2>s DEF Take, KindsStay
  <2>5. Append(taken[c], m) \in Seq(Msg) /\ Len(Append(taken[c], m)) = Len(taken[c]) + 1
    BY <1>t, AppendProperties
  <2>6. Append(taken[c], m) \o queue[c] = Append(taken[c] \o queue[c], m)
    BY <1>t, <2>4, <2>5, ConcatEmptySeq
  <2>7. Log' = [Log EXCEPT ![c] = Append(@, m)] BY <1>t, <2>4, <2>6 DEF Log
  <2>8. Delivered' = [Delivered EXCEPT ![c] = @ + 1] BY <1>t, <2>4, <2>5 DEF Delivered
  <2>9. c \in SyncChannels BY <1>3 DEF KindsStay
  <2>10. Promise!HandOver(c, m)
    BY <1>1, <1>2, <2>2, <2>3, <2>7, <2>8, <2>9
       DEF Promise!HandOver, Log, Delivered, Hurried, HurriedThreads, InSend, SyncChannels
  <2> QED BY <2>10 DEF Promise!Next
<1>4. CASE ~Sync(c)
  <2>1. /\ queue[c] # <<>> /\ taken' = [taken EXCEPT ![c] = Append(@, Head(queue[c]))]
        /\ queue' = [queue EXCEPT ![c] = Tail(@)]
    BY <1>1, <1>4 DEF Take, Ready
  <2>2. Append(taken[c], Head(queue[c])) \o Tail(queue[c]) = taken[c] \o queue[c]
    BY <1>t, <2>1, MoveHead
  <2>3. Log' = Log BY <1>t, <2>1, <2>2 DEF Log
  <2>4. /\ Head(queue[c]) \in Msg /\ Len(queue[c]) \in Nat \ {0} /\ Len(taken[c]) \in Nat
        /\ Len(taken[c] \o queue[c]) = Len(taken[c]) + Len(queue[c])
    BY <1>t, <2>1, TailAt, ConcatAt
  <2>5. Len(Append(taken[c], Head(queue[c]))) = Len(taken[c]) + 1
    BY <1>t, <2>4, AppendProperties
  <2>6. Delivered' = [Delivered EXCEPT ![c] = @ + 1] BY <1>t, <2>1, <2>5 DEF Delivered
  <2>7. Delivered[c] < Len(Log[c])
    <3>1. Delivered[c] = Len(taken[c]) /\ Log[c] = taken[c] \o queue[c] BY DEF Delivered, Log
    <3>2. \A a \in Nat, b \in Nat \ {0} : a < a + b OBVIOUS
    <3> QED BY <2>4, <3>1, <3>2
  <2>8. c \notin SyncChannels BY <1>4 DEF KindsStay
  <2>9. Promise!Deliver(c)
    BY <1>1, <1>2, <2>3, <2>6, <2>7, <2>8
       DEF Promise!Deliver, Log, Delivered, Hurried, HurriedThreads, InSend, SyncChannels
  <2> QED BY <2>9 DEF Promise!Next
<1> QED BY <1>3, <1>4

(* The step of the refinement: whatever a thread does is a step of the     *)
(* promise, or changes nothing it speaks of.                               *)
LEMMA PromiseStep ==
    ASSUME TypeOK, OnceInv, HandedOver, KindsStay, [Next]_vars
    PROVE  [Promise!Next]_(Promise!vars)
<1>t. /\ pc \in [Thread -> PCs] /\ call \in [Thread -> Calls]
  BY DEF TypeOK
<1>1. ASSUME NEW t \in Thread, CallReceive(t) PROVE [Promise!Next]_(Promise!vars)
  BY <1>1, <1>t, Stutter DEF CallReceive, chanVars, InSend
<1>2. ASSUME NEW t \in Thread, Step(t) PROVE [Promise!Next]_(Promise!vars)
  <2>c. call[t].chan \in Chan BY <1>t DEF Calls
  <2>1. CASE WaitToSend(t) \/ WaitForTaker(t) \/ WaitToReceive(t)
    BY <2>1, Stutter DEF WaitToSend, WaitForTaker, WaitToReceive, chanVars, InSend
  <2>2. CASE Offer(t)
    BY <2>2, <1>t, Stutter DEF Offer, CanOffer, Running, InSend
  <2>3. CASE Refuse(t) \/ GiveUpReceive(t)
    BY <2>3, <1>t, Stutter DEF Refuse, GiveUpReceive, Running, Return, chanVars, InSend
  <2>4. CASE GiveUpSend(t) \/ OfferAndWithdraw(t)
    <3>1. /\ pc[t] = "send" /\ ReturnFromSend(t, "false") /\ taken' = taken /\ queue' = queue
      BY <2>4 DEF GiveUpSend, OfferAndWithdraw, CanOffer, Running, chanVars
    <3>2. InSend(t) /\ Nowhere(call[t].msg) BY <3>1 DEF InSend, InHand, OnceInv, Hands
    <3> QED BY <3>1, <3>2, Told
  <2>5. CASE FailEnqueue(t) \/ FailSend(t)
    <3>1. /\ InSend(t) /\ InHand(t) /\ ReturnFromSend(t, "error")
          /\ taken' = taken /\ queue' = queue
      BY <2>5 DEF FailEnqueue, FailSend, CanAppend, Running, chanVars, InSend, InHand
    <3>2. Nowhere(call[t].msg) BY <3>1 DEF OnceInv, Hands
    <3> QED BY <3>1, <3>2, Told
  <2>6. CASE WithdrawSend(t)
    <3>1. /\ InSend(t) /\ pc[t] = "sent" /\ ReturnFromSend(t, "false")
          /\ taken' = taken /\ queue' = queue
          /\ slot[call[t].chan] = t \/ t \in expired
      BY <2>6 DEF WithdrawSend, Running, InSend
    <3>2. CASE slot[call[t].chan] = t
      <4>1. Nowhere(call[t].msg) BY <3>1, <3>2 DEF InHand, OnceInv, Hands
      <4> QED BY <3>1, <4>1, Told
    <3>3. CASE t \in expired
      <4>1. t \in HurriedThreads BY <3>1, <3>3 DEF HurriedThreads, KindsStay
      <4> QED BY <3>1, <4>1, Told
    <3> QED BY <3>1, <3>2, <3>3
  <2>7. CASE FinishSend(t)
    <3>1. /\ InSend(t) /\ pc[t] = "sent" /\ slot[call[t].chan] # t
          /\ ReturnFromSend(t, "true") /\ taken' = taken /\ queue' = queue
      BY <2>7 DEF FinishSend, Running, chanVars, InSend
    <3>2. Occurs(call[t].msg, call[t].chan) BY <3>1 DEF HandedOver
    <3>3. ~Nowhere(call[t].msg) BY <2>c, <3>2 DEF Nowhere
    <3> QED BY <3>1, <3>3, Told
  <2> QED
    BY <1>2, <2>1, <2>2, <2>3, <2>4, <2>5, <2>6, <2>7, EnqueueAccepts, ReceiveDelivers DEF Step
<1>3. ASSUME NEW t \in Thread, Expire(t) \/ WakeSpuriously(t)
      PROVE  [Promise!Next]_(Promise!vars)
  BY <1>3, Stutter DEF Expire, WakeSpuriously, chanVars, InSend
<1>4. ASSUME NEW c \in Chan, SetSize(c) PROVE [Promise!Next]_(Promise!vars)
  BY <1>4, Stutter DEF SetSize, threadVars, InSend
<1>5. CASE UNCHANGED vars BY <1>5, Stutter DEF vars, InSend
<1> QED BY <1>1, <1>2, <1>3, <1>4, <1>5, CallSendSubmits DEF Next

(* The channels implement AbstractChannel: one order of the messages of a  *)
(* channel, each of them at most once, whatever the queue, the slot and    *)
(* the waits do in between, and a true answer to every sender that is not  *)
(* running out of time.                                                    *)
THEOREM PromiseKept == Spec => KeepsPromise
<1>1. Init => Promise!Init
  <2> SUFFICES ASSUME Init PROVE Promise!Init OBVIOUS
  <2>1. <<>> \o <<>> = <<>> /\ <<>> \in Seq(Msg) /\ Len(<<>>) = 0 BY EmptySeq, ConcatEmptySeq
  <2>2. Log = [c \in Chan |-> <<>>] /\ Delivered = [c \in Chan |-> 0]
    BY <2>1 DEF Init, Log, Delivered
  <2>3. Hurried = {} BY DEF Init, Hurried, HurriedThreads, InSend
  <2>4. verdict = [m \in Msg |-> "unsent"] BY DEF Init
  <2> QED
    BY <2>2, <2>3, <2>4 DEF Promise!Init, Log, Delivered, Hurried, HurriedThreads, InSend
<1>2. Init => OnceInv /\ HandedOver /\ KindsStay
  BY OnceInit, KindsInit DEF Init, HandedOver
<1> QED
  BY <1>1, <1>2, TypeCorrect, OnceStep, HandedOverStep, KindsStep, PromiseStep, PTL
     DEF Spec, KeepsPromise, Promise!Spec

-----------------------------------------------------------------------------
(* Sets that watch channels                                                *)

(* The types of what the sets add; a picked entry is one.                  *)
SetTypeOK ==
    /\ TypeOK
    /\ entryChan \in [Entry -> Chan]
    /\ current \in [Sets -> {CHOOSE e \in Entry : TRUE} \cup Entry]
    /\ setPc \in [Sets -> {"idle", "scan", "try"}]
    /\ index \in [Sets -> Nat \ {0}]
    /\ \A s \in Sets : setPc[s] = "try" => current[s] \in Entry

(* The entries of different channels are different, a set watches a        *)
(* channel with one entry, and a message is offered by a synchronous       *)
(* channel only.                                                           *)
EntriesApart ==
    \A c, d \in Chan : c # d => notifyEntries[c] \cap notifyEntries[d] = {}
OneEntryEach ==
    \A c \in Chan : \A e, f \in notifyEntries[c] : e.set = f.set => e = f
SlotIsSync == \A c \in Chan : slot[c] # NoThread => Sync(c)

(* The inductive invariant.                                                *)
ListedInv == ReadyIsListed /\ EntriesApart /\ OneEntryEach /\ SlotIsSync

-----------------------------------------------------------------------------
(* What notify_sets and unnotify_sets do to the lists                      *)

(* Whatever was listed before notify_sets is listed after it, and all the  *)
(* entries of the channel are.                                             *)
LEMMA NotifiedLists ==
    ASSUME notifyList \in [Sets -> Seq(Entry)], NEW entries \in SUBSET Entry,
           \A e, f \in entries : e.set = f.set => e = f,
           NEW f \in Entry, f \in entries \/ Listed(notifyList[f.set], f)
    PROVE  Listed(Notified(entries)[f.set], f)
<1> DEFINE s == f.set
           n == CHOOSE e \in entries : e.set = s
           list == notifyList[s]
<1>1. s \in Sets /\ list \in Seq(Entry) BY DEF Entry
<1>2. CASE s \in ToNotify(entries)
  <2>1. n \in entries /\ n.set = s BY <1>2 DEF ToNotify
  <2>2. Notified(entries)[s] = Append(list, n) BY <1>1, <1>2 DEF Notified
  <2>3. /\ Len(list) \in Nat /\ DOMAIN list = 1 .. Len(list)
        /\ Append(list, n) \in Seq(Entry) /\ Len(Append(list, n)) = Len(list) + 1
        /\ \A i \in 1 .. Len(list) : Append(list, n)[i] = list[i]
        /\ Append(list, n)[Len(list) + 1] = n
    BY <1>1, <2>1, LenProperties, AppendProperties
  <2>4. DOMAIN Append(list, n) = 1 .. (Len(list) + 1) BY SMTT(40), <2>3, LenProperties
  <2>5. CASE f \in entries
    <3>1. f = n BY <2>1, <2>5
    <3>2. Len(list) + 1 \in DOMAIN Append(list, n) BY <2>3, <2>4
    <3> QED BY <2>2, <2>3, <3>1, <3>2 DEF Listed
  <2>6. CASE Listed(list, f)
    <3>1. PICK i \in DOMAIN list : list[i] = f BY <2>6 DEF Listed
    <3>2. i \in DOMAIN Append(list, n) /\ Append(list, n)[i] = f BY <2>3, <2>4, <3>1
    <3> QED BY <2>2, <3>2 DEF Listed
  <2> QED BY <2>5, <2>6
<1>3. CASE s \notin ToNotify(entries)
  <2>1. Notified(entries)[s] = list BY <1>1, <1>3 DEF Notified
  <2>2. Listed(list, f) BY <1>1, <1>3 DEF ToNotify
  <2> QED BY <2>1, <2>2
<1> QED BY <1>2, <1>3

(* unnotify_sets leaves the entries of all other channels listed.          *)
LEMMA UnnotifiedLists ==
    ASSUME NEW lists \in [Sets -> Seq(Entry)], NEW entries \in SUBSET Entry,
           NEW f \in Entry, f \notin entries, Listed(lists[f.set], f)
    PROVE  Listed(Unnotified(lists, entries)[f.set], f)
<1> DEFINE s == f.set
           list == lists[s]
           i == CHOOSE j \in DOMAIN list : list[j] \in entries
<1>1. s \in Sets /\ list \in Seq(Entry) BY DEF Entry
<1>2. PICK j \in DOMAIN list : list[j] = f BY DEF Listed
<1>3. CASE \E e \in entries : Listed(list, e)
  <2>1. i \in DOMAIN list /\ list[i] \in entries BY <1>3 DEF Listed
  <2>2. i # j BY <1>2, <2>1
  <2>3. Unnotified(lists, entries)[s] = SwapOut(list, i) BY <1>1, <1>3 DEF Unnotified
  <2>4. Len(list) \in Nat /\ DOMAIN list = 1 .. Len(list) BY <1>1, LenProperties
  <2>5. CASE j = Len(list)
    <3>1. i \in 1 .. (Len(list) - 1) BY <2>1, <2>2, <2>4, <2>5
    <3>2. i \in DOMAIN SwapOut(list, i) /\ SwapOut(list, i)[i] = f
      BY <1>2, <2>5, <3>1 DEF SwapOut
    <3> QED BY <2>3, <3>2 DEF Listed
  <2>6. CASE j # Len(list)
    <3>1. j \in 1 .. (Len(list) - 1) BY <2>4, <2>6
    <3>2. j \in DOMAIN SwapOut(list, i) /\ SwapOut(list, i)[j] = f
      BY <1>2, <2>2, <3>1 DEF SwapOut
    <3> QED BY <2>3, <3>2 DEF Listed
  <2> QED BY <2>5, <2>6
<1>4. CASE ~ \E e \in entries : Listed(list, e) BY <1>1, <1>4 DEF Unnotified
<1> QED BY <1>3, <1>4

-----------------------------------------------------------------------------
(* The types                                                               *)

(* Every step of the sets and of the channels keeps the types.             *)
LEMMA SetTypeStep == SetTypeOK /\ [SetNext]_allVars => SetTypeOK'
<1> SUFFICES ASSUME SetTypeOK, [SetNext]_allVars PROVE SetTypeOK' OBVIOUS
<1> USE DEF SetTypeOK
<1>1. CASE Next /\ UNCHANGED <<setLoop, entryChan>> BY <1>1, TypeStep DEF setLoop
<1>2. ASSUME NEW s \in Sets, NEW c \in Chan, Add(s, c) PROVE SetTypeOK'
  <2>1. PICK e \in Entry : /\ entryChan' = [entryChan EXCEPT ![e] = c]
                          /\ notifyEntries' = [notifyEntries EXCEPT ![c] = @ \cup {e}]
    BY <1>2 DEF Add
  <2>2. notifyEntries' \in [Chan -> SUBSET Entry] /\ entryChan' \in [Entry -> Chan]
    BY <2>1 DEF TypeOK
  <2>3. Notified(notifyEntries'[c]) \in [Sets -> Seq(Entry)] BY <2>2, NotifiedType DEF TypeOK
  <2>4. notifyList' \in [Sets -> Seq(Entry)] /\ setAsleep' \in SUBSET Sets
    <3>1. \/ notifyList' = notifyList /\ setAsleep' = setAsleep
          \/ /\ notifyList' = Notified(notifyEntries'[c])
             /\ setAsleep' = setAsleep \ ToNotify(notifyEntries'[c])
      BY <1>2 DEF Add
    <3>2. setAsleep' \subseteq setAsleep BY <3>1
    <3> QED BY <2>3, <3>1, <3>2 DEF TypeOK
  <2>5. UNCHANGED <<threadVars, chanVars, taken, verdict, setLoop>> BY <1>2 DEF Add
  <2> QED BY <2>2, <2>4, <2>5 DEF TypeOK, threadVars, chanVars, setLoop, OnlyCallersWait
<1>3. ASSUME NEW s \in Sets, NEW c \in Chan, Remove(s, c) PROVE SetTypeOK'
  <2>1. notifyEntries' \in [Chan -> SUBSET Entry] BY <1>3 DEF Remove, TypeOK
  <2> QED BY <1>3, <2>1 DEF Remove, TypeOK, threadVars, chanVars, setLoop, OnlyCallersWait
<1>4. ASSUME NEW s \in Sets, CallSetReceive(s) \/ SetWait(s) \/ SetGiveUp(s) \/ SetTryFreed(s)
                             \/ SetWakeSpuriously(s)
      PROVE  SetTypeOK'
  <2>1. /\ UNCHANGED <<threadVars, chanVars, notifyEntries, notifyList, taken, verdict, current,
                       entryChan>>
        /\ setAsleep' \in SUBSET Sets
        /\ setPc' = setPc \/ \E q \in {"idle", "scan"} : setPc' = [setPc EXCEPT ![s] = q]
        /\ index' = index \/ index' = [index EXCEPT ![s] = 1]
    BY <1>4 DEF CallSetReceive, SetWait, SetGiveUp, SetTryFreed, SetWakeSpuriously, SetReturn,
                setLoop, vars, threadVars, chanVars, TypeOK
  <2>2. TypeOK' BY <2>1 DEF TypeOK, threadVars, chanVars, OnlyCallersWait
  <2> QED BY <2>1, <2>2
<1>5. ASSUME NEW s \in Sets, Pick(s) PROVE SetTypeOK'
  <2>1. notifyList[s][index[s]] \in Entry
    <3>1. notifyList[s] \in Seq(Entry) /\ index[s] \in Nat \ {0} /\ index[s] <= Len(notifyList[s])
      BY <1>5 DEF Pick, TypeOK
    <3>2. index[s] \in 1 .. Len(notifyList[s]) BY <3>1, LenProperties
    <3> QED BY <3>1, <3>2, ElementOfSeq
  <2>2. TypeOK' BY <1>5 DEF Pick, TypeOK, vars, OnlyCallersWait
  <2> QED BY <1>5, <2>1, <2>2 DEF Pick
<1>6. ASSUME NEW s \in Sets, SetTake(s) PROVE SetTypeOK'
  <2>1. entryChan[current[s]] \in Chan BY <1>6 DEF SetTake
  <2>2. TypeOK' BY <1>6, <2>1, TakeType DEF SetTake, TypeOK, OnlyCallersWait
  <2> QED BY <1>6, <2>2 DEF SetTake, SetReturn
<1>7. ASSUME NEW s \in Sets, SetMiss(s) PROVE SetTypeOK'
  <2>1. TypeOK'
    BY ZenonT(60), <1>7 DEF SetMiss, TypeOK, vars, OnlyCallersWait, setVars
  <2> QED BY <1>7, <2>1 DEF SetMiss
<1>8. CASE UNCHANGED allVars BY <1>8 DEF allVars, vars, setLoop, TypeOK, OnlyCallersWait
<1> QED BY <1>1, <1>2, <1>3, <1>4, <1>5, <1>6, <1>7, <1>8 DEF SetNext, SetStep

-----------------------------------------------------------------------------
(* What the steps do to the lists                                          *)

(* Only senders of a synchronous channel use its slot.                     *)
LEMMA SlotStep == SetTypeOK /\ SlotIsSync /\ [SetNext]_allVars => SlotIsSync'
<1> SUFFICES ASSUME SetTypeOK, SlotIsSync, [SetNext]_allVars PROVE SlotIsSync' OBVIOUS
<1>t. /\ call \in [Thread -> Calls] /\ slot \in [Chan -> Thread \cup {NoThread}]
      /\ size \in [Chan -> Nat]
  BY DEF SetTypeOK, TypeOK
<1> USE DEF SlotIsSync, Sync
<1>1. ASSUME NEW t \in Thread, Step(t) PROVE SlotIsSync'
  <2>1. /\ size' = size
        /\ \/ slot' = slot
           \/ slot' = [slot EXCEPT ![call[t].chan] = NoThread]
           \/ slot' = [slot EXCEPT ![call[t].chan] = t] /\ size[call[t].chan] = 0
    BY <1>1 DEF Step, WaitToSend, GiveUpSend, Offer, CanOffer, OfferAndWithdraw, WaitForTaker,
       FailSend, WithdrawSend, FinishSend, Enqueue, FailEnqueue, Receive, Take, Refuse,
       WaitToReceive, GiveUpReceive, chanVars
  <2> QED BY SMTT(40), <1>t, <2>1 DEF Calls
<1>2. ASSUME NEW t \in Thread, CallSend(t) \/ CallReceive(t) \/ Expire(t) \/ WakeSpuriously(t)
      PROVE  SlotIsSync'
  BY <1>2 DEF CallSend, CallReceive, Expire, WakeSpuriously, chanVars
<1>3. ASSUME NEW d \in Chan, SetSize(d) PROVE SlotIsSync' BY <1>3, <1>t DEF SetSize
<1>4. ASSUME NEW s \in Sets, NEW c \in Chan, Add(s, c) \/ Remove(s, c) PROVE SlotIsSync'
  BY <1>4 DEF Add, Remove, chanVars
<1>5. ASSUME NEW s \in Sets, CallSetReceive(s) \/ SetStep(s) \/ SetWakeSpuriously(s)
      PROVE  SlotIsSync'
  <2>1. /\ size' = size
        /\ slot' = slot \/ \E c \in Chan : slot' = [slot EXCEPT ![c] = NoThread]
    <3>1. setPc[s] = "try" => entryChan[current[s]] \in Chan BY DEF SetTypeOK
    <3>2. ASSUME NEW c \in Chan, Take(c)
          PROVE  /\ size' = size
                 /\ slot' = slot \/ \E d \in Chan : slot' = [slot EXCEPT ![d] = NoThread]
      BY <3>2 DEF Take
    <3>3. CASE SetTake(s) BY <3>1, <3>2, <3>3 DEF SetTake
    <3> QED
      BY <1>5, <3>3 DEF CallSetReceive, SetWakeSpuriously, SetStep, Pick, SetWait, SetGiveUp,
         SetMiss, SetTryFreed, vars, chanVars
  <2> QED BY <1>t, <2>1
<1>6. CASE UNCHANGED allVars BY <1>6 DEF allVars, vars
<1> QED BY <1>1, <1>2, <1>3, <1>4, <1>5, <1>6 DEF SetNext, Next

(* A step that makes no channel ready, and drops only entries of a channel *)
(* that is not ready from the lists.                                       *)
LEMMA KeepLists ==
    ASSUME TypeOK, ListedInv, UNCHANGED notifyEntries, \A d \in Chan : Ready(d)' => Ready(d),
           \/ notifyList' = notifyList
           \/ \E c \in Chan : /\ ~Ready(c)'
                              /\ notifyList' = Unnotified(notifyList, notifyEntries[c])
           \/ \E c \in Chan : /\ ~Ready(c)'
                              /\ notifyList' = Unnotified(Notified(notifyEntries[c]), notifyEntries[c])
    PROVE  ReadyIsListed' /\ EntriesApart' /\ OneEntryEach'
<1>t. notifyEntries \in [Chan -> SUBSET Entry] /\ notifyList \in [Sets -> Seq(Entry)]
  BY DEF TypeOK
<1>1. EntriesApart' /\ OneEntryEach' BY DEF ListedInv, EntriesApart, OneEntryEach
<1>2. ASSUME NEW d \in Chan, Ready(d)', NEW f \in notifyEntries[d]
      PROVE  Listed(notifyList'[f.set], f)
  <2>1. f \in Entry /\ Listed(notifyList[f.set], f)
    BY <1>2, <1>t DEF ListedInv, ReadyIsListed
  <2>2. CASE notifyList' = notifyList BY <2>1, <2>2
  <2>3. ASSUME NEW c \in Chan, ~Ready(c)',
               \/ notifyList' = Unnotified(notifyList, notifyEntries[c])
               \/ notifyList' = Unnotified(Notified(notifyEntries[c]), notifyEntries[c])
        PROVE  Listed(notifyList'[f.set], f)
    <3>1. f \notin notifyEntries[c] BY <1>2, <2>3 DEF ListedInv, EntriesApart
    <3>2. notifyEntries[c] \in SUBSET Entry BY <1>t
    <3>3. CASE notifyList' = Unnotified(notifyList, notifyEntries[c])
      BY <1>t, <2>1, <3>1, <3>2, <3>3, UnnotifiedLists
    <3>4. CASE notifyList' = Unnotified(Notified(notifyEntries[c]), notifyEntries[c])
      <4>1. Listed(Notified(notifyEntries[c])[f.set], f)
        BY <1>t, <2>1, <3>2, NotifiedLists DEF ListedInv, OneEntryEach
      <4>2. Notified(notifyEntries[c]) \in [Sets -> Seq(Entry)] BY <1>t, <3>2, NotifiedType
      <4> QED BY <2>1, <3>1, <3>2, <3>4, <4>1, <4>2, UnnotifiedLists
    <3> QED BY <2>3, <3>3, <3>4
  <2> QED BY <2>2, <2>3
<1> QED BY <1>1, <1>2 DEF ReadyIsListed, Listed

(* A step that makes a channel ready and notifies the sets that watch it.  *)
LEMMA AnnounceReady ==
    ASSUME TypeOK, ListedInv, UNCHANGED notifyEntries, NEW c \in Chan,
           \A d \in Chan \ {c} : Ready(d)' => Ready(d),
           notifyList' = Notified(notifyEntries[c])
    PROVE  ReadyIsListed' /\ EntriesApart' /\ OneEntryEach'
<1>t. notifyEntries \in [Chan -> SUBSET Entry] /\ notifyList \in [Sets -> Seq(Entry)]
  BY DEF TypeOK
<1>1. EntriesApart' /\ OneEntryEach' BY DEF ListedInv, EntriesApart, OneEntryEach
<1>2. ASSUME NEW d \in Chan, Ready(d)', NEW f \in notifyEntries[d]
      PROVE  Listed(notifyList'[f.set], f)
  <2>1. f \in Entry /\ notifyEntries[c] \in SUBSET Entry BY <1>2, <1>t
  <2>2. f \in notifyEntries[c] \/ Listed(notifyList[f.set], f)
    BY <1>2 DEF ListedInv, ReadyIsListed
  <2> QED BY <1>t, <2>1, <2>2, NotifiedLists DEF ListedInv, OneEntryEach
<1> QED BY <1>1, <1>2 DEF ReadyIsListed, Listed

(* Taking the message of a channel, by a receiver or by a set.             *)
LEMMA TakeKeepsLists ==
    ASSUME TypeOK, ListedInv, NEW c \in Chan, Take(c)
    PROVE  ReadyIsListed' /\ EntriesApart' /\ OneEntryEach'
<1>t. /\ slot \in [Chan -> Thread \cup {NoThread}] /\ queue \in [Chan -> Seq(Msg)]
      /\ size \in [Chan -> Nat] /\ sendError \in [Chan -> BOOLEAN]
  BY DEF TypeOK
<1>1. CASE Sync(c)
  <2>1. /\ slot' = [slot EXCEPT ![c] = NoThread] /\ UnnotifySets(c)
        /\ UNCHANGED <<sendError, queue, size>>
    BY <1>1 DEF Take
  <2>2. ~Ready(c)' /\ \A d \in Chan : Ready(d)' => Ready(d)
    BY <1>1, <1>t, <2>1 DEF Ready, Sync
  <2> QED BY <2>1, <2>2, KeepLists DEF UnnotifySets
<1>2. CASE ~Sync(c)
  <2>1. /\ queue[c] # <<>> /\ queue' = [queue EXCEPT ![c] = Tail(@)]
        /\ UNCHANGED <<slot, sendError, size>>
        /\ IF Tail(queue[c]) = <<>> THEN UnnotifySets(c) ELSE UNCHANGED setVars
    BY <1>2 DEF Take, Ready
  <2>2. \A d \in Chan : Ready(d)' => Ready(d)
    BY <1>2, <1>t, <2>1 DEF Ready, Sync
  <2>3. CASE Tail(queue[c]) = <<>>
    <3>1. ~Ready(c)' BY <1>2, <1>t, <2>1, <2>3 DEF Ready, Sync
    <3> QED BY <2>1, <2>2, <2>3, <3>1, KeepLists DEF UnnotifySets
  <2>4. CASE Tail(queue[c]) # <<>> BY <2>1, <2>2, <2>4, KeepLists DEF setVars
  <2> QED BY <2>3, <2>4
<1> QED BY <1>1, <1>2

(* A channel becomes ready in the step that announces it, and leaves a     *)
(* list only when the set found it not ready, or removed it.               *)
LEMMA ListedStep ==
    ASSUME SetTypeOK, SetTypeOK', ListedInv, [SetNext]_allVars
    PROVE  ListedInv'
<1> SUFFICES ReadyIsListed' /\ EntriesApart' /\ OneEntryEach'
  BY SlotStep DEF ListedInv
<1> DEFINE Goal == ReadyIsListed' /\ EntriesApart' /\ OneEntryEach'
<1> HIDE DEF Goal
<1> SUFFICES Goal BY DEF Goal
<1>t. /\ pc \in [Thread -> PCs] /\ call \in [Thread -> Calls]
      /\ slot \in [Chan -> Thread \cup {NoThread}] /\ sendError \in [Chan -> BOOLEAN]
      /\ queue \in [Chan -> Seq(Msg)] /\ size \in [Chan -> Nat]
      /\ notifyEntries \in [Chan -> SUBSET Entry] /\ notifyEntries' \in [Chan -> SUBSET Entry]
      /\ notifyList \in [Sets -> Seq(Entry)]
      /\ TypeOK
  BY DEF SetTypeOK, TypeOK
(* No channel becomes ready and the lists stay as they are.                *)
<1>g. ASSUME UNCHANGED <<notifyEntries, notifyList>>, \A d \in Chan : Ready(d)' => Ready(d)
      PROVE  Goal
  BY <1>g, <1>t, KeepLists DEF Goal
<1>u. ASSUME UNCHANGED <<notifyEntries, notifyList, chanVars>> PROVE Goal
  BY <1>g, <1>u DEF chanVars, Ready, Sync
<1>1. ASSUME NEW t \in Thread, CallSend(t) \/ CallReceive(t) \/ Expire(t) \/ WakeSpuriously(t)
      PROVE  Goal
  BY <1>1, <1>u DEF CallSend, CallReceive, Expire, WakeSpuriously, setVars
<1>2. ASSUME NEW t \in Thread, Step(t) PROVE Goal
  <2>c. PICK c \in Chan : c = call[t].chan BY <1>t DEF Calls
  <2>1. CASE \/ WaitToSend(t) \/ WaitForTaker(t) \/ GiveUpSend(t) \/ FinishSend(t)
             \/ FailEnqueue(t) \/ WaitToReceive(t) \/ GiveUpReceive(t)
    BY <2>1, <1>u DEF WaitToSend, WaitForTaker, GiveUpSend, FinishSend, FailEnqueue,
                      WaitToReceive, GiveUpReceive, setVars
  <2>2. CASE Offer(t) \/ Enqueue(t)
    <3>1. NotifySets(c) BY <2>2, <2>c DEF Offer, Enqueue
    <3>2. \A d \in Chan \ {c} : Ready(d)' => Ready(d)
      BY <2>2, <2>c, <1>t DEF Offer, Enqueue, Ready, Sync
    <3> QED BY <1>t, <3>1, <3>2, AnnounceReady DEF NotifySets, Goal
  <2>3. CASE OfferAndWithdraw(t)
    <3>1. /\ UNCHANGED <<slot, queue, size, notifyEntries>>
          /\ sendError' = [sendError EXCEPT ![c] = FALSE] /\ slot[c] = NoThread /\ Sync(c)
          /\ notifyList' = Unnotified(Notified(notifyEntries[c]), notifyEntries[c])
      BY <2>3, <2>c DEF OfferAndWithdraw, CanOffer
    <3>2. ~Ready(c)' /\ \A d \in Chan : Ready(d)' => Ready(d)
      BY <3>1, <1>t DEF Ready, Sync
    <3> QED BY <1>t, <3>1, <3>2, KeepLists DEF Goal
  <2>4. CASE FailSend(t) \/ WithdrawSend(t)
    <3>1. UNCHANGED <<queue, size, sendError>> BY <2>4 DEF FailSend, WithdrawSend
    <3>2. CASE slot[c] # t
      BY <2>4, <2>c, <3>2, <1>u DEF FailSend, WithdrawSend, chanVars, setVars
    <3>3. CASE slot[c] = t
      <4>1. slot' = [slot EXCEPT ![c] = NoThread] /\ UnnotifySets(c)
        BY <2>4, <2>c, <3>3 DEF FailSend, WithdrawSend
      <4>2. Sync(c) BY <3>3, ChannelAssumption DEF ListedInv, SlotIsSync
      <4>3. ~Ready(c)' /\ \A d \in Chan : Ready(d)' => Ready(d)
        BY <1>t, <3>1, <4>1, <4>2 DEF Ready, Sync
      <4> QED BY <1>t, <4>1, <4>3, KeepLists DEF UnnotifySets, Goal
    <3> QED BY <3>2, <3>3
  <2>5. CASE Receive(t) BY <2>5, <2>c, <1>t, TakeKeepsLists DEF Receive, Goal
  <2>6. CASE Refuse(t)
    <3>1. \A d \in Chan : Ready(d)' => Ready(d)
      BY <2>6, <2>c, <1>t DEF Refuse, Ready, Sync
    <3> QED BY <2>6, <1>g, <3>1 DEF Refuse, setVars
  <2> QED BY <1>2, <2>1, <2>2, <2>3, <2>4, <2>5, <2>6 DEF Step
<1>3. ASSUME NEW d \in Chan, SetSize(d) PROVE Goal
  <2>1. \A c \in Chan : size'[c] = 0 <=> size[c] = 0
    BY <1>3, <1>t, ChannelAssumption DEF SetSize, Sync
  <2>2. \A c \in Chan : Ready(c)' => Ready(c) BY <1>3, <2>1 DEF SetSize, Ready, Sync
  <2> QED BY <1>3, <1>g, <2>2 DEF SetSize, setVars
<1>4. ASSUME NEW s \in Sets, NEW c \in Chan, Add(s, c) PROVE Goal
  <2>1. PICK e \in Entry \ Allocated :
            e.set = s /\ notifyEntries' = [notifyEntries EXCEPT ![c] = @ \cup {e}]
    BY <1>4 DEF Add
  <2>2. \A d \in Chan : Ready(d)' <=> Ready(d) BY <1>4 DEF Add, chanVars, Ready, Sync
  <2>3. notifyEntries'[c] = notifyEntries[c] \cup {e}
        /\ \A d \in Chan \ {c} : notifyEntries'[d] = notifyEntries[d]
    BY <1>t, <2>1
  <2>4. \A d \in Chan : e \notin notifyEntries[d] BY <2>1 DEF Allocated
  <2>5. EntriesApart' BY <2>3, <2>4 DEF ListedInv, EntriesApart
  <2>6. OneEntryEach'
    <3>1. \A f \in notifyEntries[c] : f.set # e.set BY <1>4, <2>1 DEF Add, Watches
    <3> QED BY <2>3, <3>1 DEF ListedInv, OneEntryEach
  <2>7. ASSUME NEW d \in Chan, Ready(d), NEW f \in notifyEntries'[d]
        PROVE  Listed(notifyList'[f.set], f)
    <3>1. f \in Entry /\ notifyEntries'[c] \in SUBSET Entry BY <1>t, <2>7
    <3>2. CASE Ready(c)
      <4>1. notifyList' = Notified(notifyEntries'[c]) BY <1>4, <3>2 DEF Add
      <4>2. f \in notifyEntries'[c] \/ Listed(notifyList[f.set], f)
        BY <2>3, <2>7 DEF ListedInv, ReadyIsListed
      <4>3. \A a, b \in notifyEntries'[c] : a.set = b.set => a = b BY <2>6 DEF OneEntryEach
      <4> QED BY <1>t, <3>1, <4>1, <4>2, <4>3, NotifiedLists
    <3>3. CASE ~Ready(c)
      <4>1. notifyList' = notifyList /\ d # c BY <1>4, <2>7, <3>3 DEF Add
      <4> QED BY <2>3, <2>7, <4>1 DEF ListedInv, ReadyIsListed
    <3> QED BY <3>2, <3>3
  <2>8. ReadyIsListed' BY <2>2, <2>7 DEF ReadyIsListed, Listed
  <2> QED BY <2>5, <2>6, <2>8 DEF Goal
<1>5. ASSUME NEW s \in Sets, NEW c \in Chan, Remove(s, c) PROVE Goal
  <2>1. \A d \in Chan : notifyEntries'[d] \subseteq notifyEntries[d] BY <1>5, <1>t DEF Remove
  <2>2. notifyList' = notifyList /\ \A d \in Chan : Ready(d)' <=> Ready(d)
    BY <1>5 DEF Remove, chanVars, Ready, Sync
  <2>3. EntriesApart' /\ OneEntryEach' BY <2>1 DEF ListedInv, EntriesApart, OneEntryEach
  <2>4. ReadyIsListed' BY <2>1, <2>2 DEF ListedInv, ReadyIsListed, Listed
  <2> QED BY <2>3, <2>4 DEF Goal
<1>6. ASSUME NEW s \in Sets, CallSetReceive(s) \/ Pick(s) \/ SetWait(s) \/ SetGiveUp(s)
                             \/ SetTryFreed(s) \/ SetWakeSpuriously(s)
      PROVE  Goal
  BY <1>6, <1>u DEF CallSetReceive, Pick, SetWait, SetGiveUp, SetTryFreed, SetWakeSpuriously,
                    vars, chanVars
<1>7. ASSUME NEW s \in Sets, SetTake(s) \/ SetMiss(s) PROVE Goal
  <2>1. PICK c \in Chan : c = entryChan[current[s]] BY <1>7 DEF SetTake, SetMiss, SetTypeOK
  <2>2. CASE SetTake(s) BY <1>t, <2>1, <2>2, TakeKeepsLists DEF SetTake, Goal
  <2>3. CASE SetMiss(s) /\ UNCHANGED vars BY <2>3, <1>u DEF vars, chanVars
  <2>4. CASE SetMiss(s) /\ ~UNCHANGED vars
    <3>1. /\ UNCHANGED <<slot, queue, size, setVars>> /\ Refused(c)
          /\ sendError' = [sendError EXCEPT ![c] = TRUE]
      BY <2>1, <2>4 DEF SetMiss
    <3>2. \A d \in Chan : Ready(d)' => Ready(d) BY <1>t, <3>1 DEF Ready, Sync
    <3> QED BY <1>g, <3>1, <3>2 DEF setVars
  <2> QED BY <1>7, <2>2, <2>3, <2>4
<1>8. CASE UNCHANGED allVars BY <1>8, <1>u DEF allVars, vars, chanVars
<1> QED
  BY <1>1, <1>2, <1>3, <1>4, <1>5, <1>6, <1>7, <1>8 DEF SetNext, SetStep, Next

(* The sets at the start.                                                  *)
LEMMA SetInitTypes == SetInit => SetTypeOK /\ ListedInv
<1> SUFFICES ASSUME SetInit PROVE SetTypeOK /\ ListedInv OBVIOUS
<1>1. TypeOK BY TypeInit DEF SetInit
<1>2. (CHOOSE c \in Chan : TRUE) \in Chan BY ChannelAssumption
<1>3. SetTypeOK BY <1>1, <1>2 DEF SetInit, SetTypeOK
<1>4. ListedInv
  BY DEF SetInit, Init, ListedInv, ReadyIsListed, EntriesApart, OneEntryEach, SlotIsSync
<1> QED BY <1>3, <1>4

(* Every set that watches a channel with a message lists that channel,     *)
(* whatever senders, receivers and other sets do at the same time, and     *)
(* however entries are added, removed, reused and swapped in the lists.    *)
THEOREM ReadyStaysListed == SetSpec => []ReadyIsListed
<1>1. ListedInv => ReadyIsListed BY DEF ListedInv
<1> QED BY <1>1, SetInitTypes, SetTypeStep, ListedStep, PTL DEF SetSpec

-----------------------------------------------------------------------------
(* A set that has its channels to itself                                   *)

(* The conditions of the next theorem: messages of the channels are taken  *)
(* by sets only, all of them can be copied, no offer is withdrawn while it *)
(* stands, and no channel is removed from a set; ...                       *)
Undisturbed ==
    /\ Receiver = {} /\ Bad = {} /\ Removable = {}
    /\ SendTimeouts \subseteq {"none", "zero"}

(* ... and a channel is watched by one set at most.  What breaks when one  *)
(* of these does not hold: while a set tries a channel, the list it walks  *)
(* gets shorter, and the last entry moves to a place it has already left.  *)
OneWatcher == \A c \in Chan : \A e, f \in notifyEntries[c] : e.set = f.set

Announced(e) == \E c \in Chan : Ready(c) /\ e \in notifyEntries[c]
NoTwice(list) == \A i, j \in DOMAIN list : list[i] = list[j] => i = j
AtMostOneOf(entries, list) ==
    \A e, f \in entries : Listed(list, e) /\ Listed(list, f) => e = f

(* No sender has a time limit, and no message is refused.                  *)
Patient ==
    /\ \A t \in Thread : /\ pc[t] # "receive"
                         /\ pc[t] = "send" => call[t].timeout # "timed"
                         /\ pc[t] = "sent" => call[t].timeout = "none"
    /\ \A c \in Chan : ~sendError[c]

(* A list has the entries of channels with a message only, each once.      *)
ListsAreExact ==
    \A s \in Sets :
        /\ NoTwice(notifyList[s])
        /\ \A e : Listed(notifyList[s], e) => e.set = s /\ Announced(e)

(* So a set never gets beyond the first place of its list, since what it   *)
(* finds there it can take, and sleeps with an empty list.                 *)
TakesTheFirst ==
    \A s \in Sets :
        /\ index[s] = 1
        /\ setPc[s] = "try" => current[s].set = s /\ Announced(current[s])
        /\ s \in setAsleep => setPc[s] = "scan" /\ notifyList[s] = <<>>

(* The memory of an entry in use names its channel.                        *)
OwnMemory == \A c \in Chan : \A e \in notifyEntries[c] : entryChan[e] = c

(* The inductive invariant.                                                *)
AloneInv == Patient /\ ListsAreExact /\ TakesTheFirst /\ OwnMemory

(* What notify_sets puts on the list of a set.                             *)
LEMMA NotifiedAdds ==
    ASSUME notifyList \in [Sets -> Seq(Entry)], NEW entries \in SUBSET Entry,
           \A e, f \in entries : e.set = f.set => e = f,
           NEW s \in Sets, NoTwice(notifyList[s])
    PROVE  /\ s \notin ToNotify(entries) => Notified(entries)[s] = notifyList[s]
           /\ NoTwice(Notified(entries)[s])
           /\ \A e : Listed(Notified(entries)[s], e)
                => Listed(notifyList[s], e) \/ (e \in entries /\ e.set = s)
<1> DEFINE n == CHOOSE e \in entries : e.set = s
           list == notifyList[s]
<1>1. CASE s \in ToNotify(entries)
  <2>1. PICK e \in entries : e.set = s /\ ~Listed(list, e) BY <1>1 DEF ToNotify
  <2>2. n \in entries /\ n.set = s BY <2>1
  <2>3. n = e BY <2>1, <2>2
  <2>4. Notified(entries)[s] = Append(list, n) BY <1>1 DEF Notified
  <2>5. PICK k : k = Append(list, n) OBVIOUS
  <2>6. /\ Len(list) \in Nat /\ DOMAIN list = 1 .. Len(list) /\ DOMAIN k = 1 .. (Len(list) + 1)
        /\ \A i \in 1 .. Len(list) : k[i] = list[i]
        /\ k[Len(list) + 1] = n
    BY <2>2, <2>5, LenProperties, AppendProperties
  <2>7. \A i \in 1 .. Len(list) : list[i] # n BY <2>1, <2>3, <2>6 DEF Listed
  <2>8. NoTwice(k)
    <3> SUFFICES ASSUME NEW i \in DOMAIN k, NEW j \in DOMAIN k, k[i] = k[j] PROVE i = j
      BY DEF NoTwice
    <3>1. CASE i # Len(list) + 1 /\ j # Len(list) + 1
      <4>1. i \in 1 .. Len(list) /\ j \in 1 .. Len(list) BY <2>6, <3>1
      <4> QED BY <2>6, <4>1 DEF NoTwice
    <3>2. CASE i = Len(list) + 1 \/ j = Len(list) + 1 BY <2>6, <2>7, <3>2
    <3> QED BY <3>1, <3>2
  <2>9. ASSUME NEW f, Listed(k, f) PROVE Listed(list, f) \/ (f \in entries /\ f.set = s)
    <3>1. PICK i \in DOMAIN k : k[i] = f BY <2>9 DEF Listed
    <3> QED BY <2>2, <2>6, <3>1 DEF Listed
  <2> QED BY <1>1, <2>4, <2>5, <2>8, <2>9
<1>2. CASE s \notin ToNotify(entries) BY <1>2 DEF Notified
<1> QED BY <1>1, <1>2

(* What unnotify_sets leaves on the list of a set.                         *)
LEMMA UnnotifiedDrops ==
    ASSUME NEW lists, NEW entries, NEW s \in Sets, lists[s] \in Seq(Entry), NoTwice(lists[s]),
           AtMostOneOf(entries, lists[s])
    PROVE  /\ lists[s] = <<>> => Unnotified(lists, entries)[s] = <<>>
           /\ NoTwice(Unnotified(lists, entries)[s])
           /\ \A e : Listed(Unnotified(lists, entries)[s], e)
                => Listed(lists[s], e) /\ e \notin entries
<1> DEFINE list == lists[s]
           i == CHOOSE j \in DOMAIN list : list[j] \in entries
<1>1. CASE \E e \in entries : Listed(list, e)
  <2>1. i \in DOMAIN list /\ list[i] \in entries BY <1>1 DEF Listed
  <2>2. PICK k : k = SwapOut(list, i) OBVIOUS
  <2>3. Unnotified(lists, entries)[s] = k BY <1>1, <2>2 DEF Unnotified
  <2>4. Len(list) \in Nat /\ DOMAIN list = 1 .. Len(list) BY LenProperties
  <2>5. DOMAIN k = 1 .. (Len(list) - 1)
        /\ \A j \in DOMAIN k : k[j] = IF j = i THEN list[Len(list)] ELSE list[j]
    BY <2>2 DEF SwapOut
  <2>6. list # <<>> BY <2>1, <2>4, EmptySeq, LenProperties
  <2>7. \A j \in DOMAIN k : /\ j \in DOMAIN list /\ Len(list) \in DOMAIN list
                            /\ j # Len(list)
    BY <2>4, <2>5
  <2>8. NoTwice(k) BY <2>5, <2>7 DEF NoTwice
  <2>9. ASSUME NEW e, Listed(k, e) PROVE Listed(list, e) /\ e \notin entries
    <3>1. PICK j \in DOMAIN k : k[j] = e BY <2>9 DEF Listed
    <3>2. PICK m \in DOMAIN list : list[m] = e /\ m # i BY <2>5, <2>7, <3>1
    <3>3. e # list[i] BY <2>1, <3>2 DEF NoTwice
    <3>4. Listed(list, e) /\ Listed(list, list[i]) BY <2>1, <3>2 DEF Listed
    <3> QED BY <2>1, <3>3, <3>4 DEF AtMostOneOf
  <2> QED BY <2>3, <2>6, <2>8, <2>9
<1>2. CASE ~ \E e \in entries : Listed(list, e)
  <2>1. Unnotified(lists, entries)[s] = list BY <1>2 DEF Unnotified
  <2> QED BY <1>2, <2>1
<1> QED BY <1>1, <1>2

(* The senders.                                                            *)
LEMMA PatientStep ==
    ASSUME Undisturbed, TypeOK, Patient, [SetNext]_allVars PROVE Patient'
<1>t. /\ pc \in [Thread -> PCs] /\ call \in [Thread -> Calls] /\ sendError \in [Chan -> BOOLEAN]
  BY DEF TypeOK
<1>u. ASSUME UNCHANGED <<pc, call, sendError>> PROVE Patient' BY <1>u DEF Patient
<1>r. ASSUME NEW t \in Thread, Return(t), \A c \in Chan : sendError'[c] => sendError[c]
      PROVE  Patient'
  BY <1>r, <1>t DEF Patient, Return
<1>1. ASSUME NEW t \in Thread, CallSend(t) PROVE Patient'
  <2>1. PICK c \in Chan, m \in Msg, timeout \in SendTimeouts :
            call' = [call EXCEPT ![t] = [chan |-> c, timeout |-> timeout, msg |-> m]]
    BY <1>1 DEF CallSend
  <2>2. call'[t].timeout # "timed" BY <1>t, <2>1 DEF Undisturbed
  <2> QED BY <1>1, <1>t, <2>1, <2>2 DEF CallSend, Patient, chanVars
<1>2. ASSUME NEW t \in Thread, CallReceive(t) PROVE FALSE BY <1>2 DEF CallReceive, Undisturbed
<1>3. ASSUME NEW t \in Thread, Expire(t) \/ WakeSpuriously(t) PROVE Patient'
  BY <1>3, <1>u DEF Expire, WakeSpuriously, chanVars
<1>4. ASSUME NEW t \in Thread, Step(t) PROVE Patient'
  <2>1. CASE WaitToSend(t) \/ WaitForTaker(t)
    BY <2>1, <1>u DEF WaitToSend, WaitForTaker, chanVars
  <2>2. CASE Offer(t)
    <3>1. call[t].timeout # "zero" /\ call[t].timeout # "timed"
      BY <2>2 DEF Offer, MayWait, CanOffer, Running, Patient
    <3>2. call[t].timeout = "none" BY <1>t, <3>1 DEF Calls, Timeouts
    <3> QED BY <2>2, <1>t, <3>2 DEF Offer, Patient
  <2>3. CASE \/ GiveUpSend(t) \/ FailSend(t) \/ WithdrawSend(t) \/ FinishSend(t)
             \/ Enqueue(t) \/ FailEnqueue(t)
    BY <2>3, <1>r DEF GiveUpSend, FailSend, WithdrawSend, FinishSend, Enqueue, FailEnqueue,
                      ReturnFromSend, chanVars
  <2>4. CASE OfferAndWithdraw(t)
    <3>1. Return(t) /\ \E c : sendError' = [sendError EXCEPT ![c] = FALSE]
      BY <2>4 DEF OfferAndWithdraw, ReturnFromSend
    <3> QED BY <1>t, <1>r, <3>1
  <2>5. CASE Receive(t) \/ Refuse(t) \/ WaitToReceive(t) \/ GiveUpReceive(t)
    BY <2>5 DEF Receive, Refuse, WaitToReceive, GiveUpReceive, Running, Patient
  <2> QED BY <1>4, <2>1, <2>2, <2>3, <2>4, <2>5 DEF Step
<1>5. ASSUME NEW c \in Chan, SetSize(c) PROVE Patient' BY <1>5, <1>u DEF SetSize, threadVars
<1>6. ASSUME NEW s \in Sets, NEW c \in Chan, Add(s, c) \/ Remove(s, c) PROVE Patient'
  BY <1>6, <1>u DEF Add, Remove, threadVars, chanVars
<1>7. ASSUME NEW s \in Sets, CallSetReceive(s) \/ SetStep(s) \/ SetWakeSpuriously(s) PROVE Patient'
  <2>1. \A c : ~Refused(c) BY DEF Refused, Undisturbed
  <2> QED
    BY <1>7, <1>u, <2>1 DEF CallSetReceive, SetStep, SetWakeSpuriously, Pick, SetWait, SetGiveUp,
       SetTake, Take, SetMiss, SetTryFreed, vars, threadVars, chanVars
<1>8. CASE UNCHANGED allVars BY <1>8, <1>u DEF allVars, vars
<1> QED BY <1>1, <1>2, <1>3, <1>4, <1>5, <1>6, <1>7, <1>8 DEF SetNext, Next

(* A step that takes no message, and after which the lists have the        *)
(* entries of channels with a message only.                                *)
LEMMA AloneKeeps ==
    ASSUME TypeOK, ListsAreExact, TakesTheFirst, OwnMemory,
           \A c \in Chan : Ready(c) => Ready(c)',
           \A c \in Chan : notifyEntries[c] \subseteq notifyEntries'[c],
           OwnMemory', ListsAreExact',
           UNCHANGED <<setPc, index, current>>,
           setAsleep' \subseteq setAsleep,
           \A s \in setAsleep' : notifyList[s] = <<>> => notifyList'[s] = <<>>
    PROVE  ListsAreExact' /\ TakesTheFirst' /\ OwnMemory'
<1>1. \A e : Announced(e) => Announced(e)' BY DEF Announced
<1> QED BY <1>1 DEF TakesTheFirst

(* notify_sets, for a channel that is ready now.                           *)
LEMMA AnnouncedLists ==
    ASSUME TypeOK, ListsAreExact, NEW c \in Chan, Ready(c)',
           \A d \in Chan : Ready(d) => Ready(d)',
           \A d \in Chan : notifyEntries[d] \subseteq notifyEntries'[d],
           notifyEntries'[c] \in SUBSET Entry,
           \A e, f \in notifyEntries'[c] : e.set = f.set => e = f,
           notifyList' = Notified(notifyEntries'[c])
    PROVE  /\ ListsAreExact'
           /\ \A s \in Sets \ ToNotify(notifyEntries'[c]) : notifyList'[s] = notifyList[s]
<1>t. notifyList \in [Sets -> Seq(Entry)] BY DEF TypeOK
<1>1. \A e : Announced(e) => Announced(e)' BY DEF Announced
<1>2. \A e \in notifyEntries'[c] : Announced(e)' BY DEF Announced
<1>3. ASSUME NEW s \in Sets
      PROVE  /\ NoTwice(notifyList'[s])
             /\ \A e : Listed(notifyList'[s], e) => e.set = s /\ Announced(e)'
             /\ s \notin ToNotify(notifyEntries'[c]) => notifyList'[s] = notifyList[s]
  <2>1. /\ NoTwice(notifyList[s])
        /\ \A e : Listed(notifyList[s], e) => e.set = s /\ Announced(e)
    BY DEF ListsAreExact
  <2>2. PICK E : E = notifyEntries'[c] OBVIOUS
  <2>3. /\ NoTwice(Notified(E)[s])
        /\ \A e : Listed(Notified(E)[s], e) => Listed(notifyList[s], e) \/ (e \in E /\ e.set = s)
        /\ s \notin ToNotify(E) => Notified(E)[s] = notifyList[s]
    BY <1>t, <2>1, <2>2, NotifiedAdds
  <2> QED BY <1>1, <1>2, <2>1, <2>2, <2>3
<1> QED BY <1>3 DEF ListsAreExact, Listed, NoTwice

(* The entry of a channel is on the list of its set only, once.            *)
LEMMA OneListed ==
    ASSUME ListsAreExact, OneEntryEach, NEW c \in Chan, NEW s \in Sets,
           NEW e \in notifyEntries[c], NEW f \in notifyEntries[c],
           Listed(notifyList[s], e), Listed(notifyList[s], f)
    PROVE  e = f
BY DEF ListsAreExact, OneEntryEach

(* A channel that has no message any more leaves the lists; the other      *)
(* channels keep theirs.                                                   *)
LEMMA UnannouncedLists ==
    ASSUME TypeOK, ListsAreExact, OneEntryEach, NEW c \in Chan,
           \A d \in Chan \ {c} : Ready(d) => Ready(d)',
           UnnotifySets(c)
    PROVE  /\ ListsAreExact' /\ setAsleep' = setAsleep
           /\ \A s \in Sets : notifyList[s] = <<>> => notifyList'[s] = <<>>
<1>t. notifyList \in [Sets -> Seq(Entry)] /\ notifyEntries[c] \in SUBSET Entry BY DEF TypeOK
<1>0. /\ notifyEntries' = notifyEntries /\ setAsleep' = setAsleep
      /\ notifyList' = Unnotified(notifyList, notifyEntries[c])
  BY DEF UnnotifySets
<1>1. ASSUME NEW s \in Sets
      PROVE  /\ notifyList[s] = <<>> => notifyList'[s] = <<>>
             /\ NoTwice(notifyList'[s])
             /\ \A e : Listed(notifyList'[s], e) => e.set = s /\ Announced(e)'
  <2>1. /\ NoTwice(notifyList[s])
        /\ \A e : Listed(notifyList[s], e) => e.set = s /\ Announced(e)
    BY DEF ListsAreExact
  <2>2. PICK E : E = notifyEntries[c] OBVIOUS
  <2>3. AtMostOneOf(E, notifyList[s]) BY <2>2, OneListed DEF AtMostOneOf
  <2>4. /\ notifyList[s] = <<>> => Unnotified(notifyList, E)[s] = <<>>
        /\ NoTwice(Unnotified(notifyList, E)[s])
        /\ \A e : Listed(Unnotified(notifyList, E)[s], e) => Listed(notifyList[s], e) /\ e \notin E
    BY <1>t, <2>1, <2>3, UnnotifiedDrops
  <2>5. \A e : Announced(e) /\ e \notin E => Announced(e)' BY <1>0, <2>2 DEF Announced
  <2> QED BY <1>0, <2>1, <2>2, <2>4, <2>5
<1> QED BY <1>0, <1>1 DEF ListsAreExact, Listed, NoTwice

(* An offer with no time left: announced and withdrawn under the mutex.    *)
LEMMA WithdrawnLists ==
    ASSUME TypeOK, ListsAreExact, OneEntryEach, NEW c \in Chan,
           \A d \in Chan : Ready(d) => Ready(d)',
           UNCHANGED notifyEntries,
           notifyList' = Unnotified(Notified(notifyEntries[c]), notifyEntries[c])
    PROVE  /\ ListsAreExact'
           /\ \A s \in Sets \ ToNotify(notifyEntries[c]) :
                 notifyList[s] = <<>> => notifyList'[s] = <<>>
<1>t. notifyList \in [Sets -> Seq(Entry)] /\ notifyEntries[c] \in SUBSET Entry BY DEF TypeOK
<1>1. PICK E : E = notifyEntries[c] OBVIOUS
<1>2. PICK L : L = Notified(E) OBVIOUS
<1>3. L \in [Sets -> Seq(Entry)] BY <1>t, <1>1, <1>2, NotifiedType
<1>4. \A e, f \in E : e.set = f.set => e = f BY <1>1 DEF OneEntryEach
<1>5. \A e : Announced(e) => Announced(e)' BY DEF Announced
<1>6. ASSUME NEW s \in Sets
      PROVE  /\ s \notin ToNotify(E) /\ notifyList[s] = <<>> => notifyList'[s] = <<>>
             /\ NoTwice(notifyList'[s])
             /\ \A e : Listed(notifyList'[s], e) => e.set = s /\ Announced(e)'
  <2>1. /\ NoTwice(notifyList[s])
        /\ \A e : Listed(notifyList[s], e) => e.set = s /\ Announced(e)
    BY DEF ListsAreExact
  <2>2. /\ s \notin ToNotify(E) => L[s] = notifyList[s]
        /\ NoTwice(L[s])
        /\ \A e : Listed(L[s], e) => Listed(notifyList[s], e) \/ (e \in E /\ e.set = s)
    BY <1>t, <1>1, <1>2, <1>4, <2>1, NotifiedAdds
  <2>3. AtMostOneOf(E, L[s]) BY <1>4, <2>1, <2>2 DEF AtMostOneOf
  <2>4. /\ L[s] = <<>> => Unnotified(L, E)[s] = <<>>
        /\ NoTwice(Unnotified(L, E)[s])
        /\ \A e : Listed(Unnotified(L, E)[s], e) => Listed(L[s], e) /\ e \notin E
    BY <1>3, <2>2, <2>3, UnnotifiedDrops
  <2> QED BY <1>1, <1>2, <1>5, <2>1, <2>2, <2>4
<1> QED BY <1>1, <1>6 DEF ListsAreExact, Listed, NoTwice

(* A set takes the message of a channel that no other set watches.         *)
LEMMA TakeAlone ==
    ASSUME TypeOK, ListsAreExact, OneEntryEach, OneWatcher, NEW c \in Chan, Take(c),
           NEW s \in Sets, NEW n \in notifyEntries[c], n.set = s
    PROVE  /\ ListsAreExact' /\ setAsleep' = setAsleep /\ notifyEntries' = notifyEntries
           /\ \A r \in Sets : notifyList[r] = <<>> => notifyList'[r] = <<>>
           /\ \A e : e.set # s /\ Announced(e) => Announced(e)'
<1>t. /\ slot \in [Chan -> Thread \cup {NoThread}] /\ queue \in [Chan -> Seq(Msg)]
      /\ size \in [Chan -> Nat] /\ sendError \in [Chan -> BOOLEAN]
  BY DEF TypeOK
<1>1. /\ \A d \in Chan \ {c} : Ready(d) => Ready(d)'
      /\ UnnotifySets(c) \/ (UNCHANGED setVars /\ Ready(c)')
  <2>1. CASE Sync(c) BY <1>t, <2>1 DEF Take, Ready, Sync
  <2>2. CASE ~Sync(c)
    <3>1. /\ queue' = [queue EXCEPT ![c] = Tail(@)] /\ UNCHANGED <<slot, sendError, size>>
          /\ IF Tail(queue[c]) = <<>> THEN UnnotifySets(c) ELSE UNCHANGED setVars
      BY <2>2 DEF Take
    <3> QED BY <1>t, <2>2, <3>1 DEF Ready, Sync
  <2> QED BY <2>1, <2>2
<1>2. \A e : e.set # s => e \notin notifyEntries[c] BY DEF OneWatcher
<1>3. notifyEntries' = notifyEntries BY <1>1 DEF UnnotifySets, setVars
<1>4. \A e : e.set # s /\ Announced(e) => Announced(e)' BY <1>1, <1>2, <1>3 DEF Announced
<1>5. CASE UnnotifySets(c) BY <1>1, <1>3, <1>4, <1>5, UnannouncedLists
<1>6. CASE UNCHANGED setVars /\ Ready(c)'
  <2>1. \A e : Announced(e) => Announced(e)' BY <1>1, <1>3, <1>6 DEF Announced
  <2>2. notifyList' = notifyList /\ setAsleep' = setAsleep BY <1>6 DEF setVars
  <2>3. ListsAreExact' BY <2>1, <2>2 DEF ListsAreExact, Listed, NoTwice
  <2> QED BY <1>3, <1>4, <2>2, <2>3
<1> QED BY <1>1, <1>5, <1>6

(* No step leaves a set asleep next to a message.                          *)
LEMMA AloneStep ==
    ASSUME Undisturbed, SetTypeOK, SetTypeOK', ListedInv, OneWatcher, AloneInv, [SetNext]_allVars
    PROVE  AloneInv'
<1> SUFFICES ListsAreExact' /\ TakesTheFirst' /\ OwnMemory'
  BY PatientStep DEF AloneInv, SetTypeOK
<1> DEFINE Goal == ListsAreExact' /\ TakesTheFirst' /\ OwnMemory'
<1> HIDE DEF Goal
<1> SUFFICES Goal BY DEF Goal
<1>i. /\ Patient /\ ListsAreExact /\ TakesTheFirst /\ OwnMemory
      /\ OneEntryEach /\ EntriesApart /\ SlotIsSync
  BY DEF AloneInv, ListedInv
<1>t. /\ pc \in [Thread -> PCs] /\ call \in [Thread -> Calls]
      /\ slot \in [Chan -> Thread \cup {NoThread}] /\ sendError \in [Chan -> BOOLEAN]
      /\ queue \in [Chan -> Seq(Msg)] /\ size \in [Chan -> Nat]
      /\ notifyEntries \in [Chan -> SUBSET Entry] /\ notifyEntries' \in [Chan -> SUBSET Entry]
      /\ notifyList \in [Sets -> Seq(Entry)]
      /\ setPc \in [Sets -> {"idle", "scan", "try"}] /\ index \in [Sets -> Nat \ {0}]
      /\ TypeOK
  BY DEF SetTypeOK, TypeOK
(* Nothing happens to the sets, and no channel loses its message.          *)
<1>g. ASSUME UNCHANGED <<notifyEntries, notifyList, setAsleep, setPc, index, current, entryChan>>,
             \A d \in Chan : Ready(d) => Ready(d)'
      PROVE  Goal
  <2>1. \A e : Announced(e) => Announced(e)' BY <1>g DEF Announced
  <2>2. ListsAreExact' BY <1>g, <1>i, <2>1 DEF ListsAreExact, Listed, NoTwice
  <2>3. OwnMemory' BY <1>g, <1>i DEF OwnMemory
  <2> QED BY <1>g, <1>i, <1>t, <2>2, <2>3, AloneKeeps DEF Goal
<1>u. ASSUME UNCHANGED <<notifyEntries, notifyList, setAsleep, setLoop, entryChan, chanVars>>
      PROVE  Goal
  BY <1>g, <1>u DEF chanVars, setLoop, Ready, Sync
<1>1. ASSUME NEW t \in Thread, CallSend(t) \/ CallReceive(t) \/ Expire(t) \/ WakeSpuriously(t),
             UNCHANGED <<setLoop, entryChan>>
      PROVE  Goal
  BY <1>1, <1>u DEF CallSend, CallReceive, Expire, WakeSpuriously, setVars
<1>2. ASSUME NEW t \in Thread, Step(t), UNCHANGED <<setLoop, entryChan>> PROVE Goal
  <2>c. PICK c \in Chan : c = call[t].chan BY <1>t DEF Calls
  <2>e. notifyEntries[c] \in SUBSET Entry /\ \A e, f \in notifyEntries[c] : e.set = f.set => e = f
    BY <1>i, <1>t DEF OneEntryEach
  <2>1. CASE \/ WaitToSend(t) \/ WaitForTaker(t) \/ GiveUpSend(t) \/ FinishSend(t)
             \/ FailEnqueue(t)
    BY <1>2, <2>1, <1>u DEF WaitToSend, WaitForTaker, GiveUpSend, FinishSend, FailEnqueue, setVars
  <2>2. CASE Offer(t) \/ Enqueue(t)
    <3>1. NotifySets(c) BY <2>2, <2>c DEF Offer, Enqueue
    <3>2. Ready(c)' /\ \A d \in Chan : Ready(d) => Ready(d)'
      <4>1. CASE Offer(t)
        <5>1. /\ slot' = [slot EXCEPT ![c] = t] /\ sendError' = [sendError EXCEPT ![c] = FALSE]
              /\ UNCHANGED <<queue, size>> /\ Sync(c) /\ t # NoThread
          BY <2>c, <4>1, ChannelAssumption DEF Offer, CanOffer
        <5> QED BY <1>t, <5>1 DEF Ready, Sync
      <4>2. CASE Enqueue(t)
        <5>1. /\ queue' = [queue EXCEPT ![c] = Append(@, call[t].msg)]
              /\ UNCHANGED <<slot, sendError, size>> /\ ~Sync(c) /\ call[t].msg \in Msg
          BY <1>t, <2>c, <4>2 DEF Enqueue, CanAppend, Calls
        <5>2. PICK q : q = queue[c] OBVIOUS
        <5>3. q \in Seq(Msg) BY <1>t, <5>2
        <5>4. Append(q, call[t].msg) # <<>> BY <5>1, <5>3, AppendProperties
        <5> QED BY <1>t, <5>1, <5>2, <5>4 DEF Ready, Sync
      <4> QED BY <2>2, <4>1, <4>2
    <3>3. /\ notifyEntries' = notifyEntries /\ notifyList' = Notified(notifyEntries'[c])
          /\ setAsleep' = setAsleep \ ToNotify(notifyEntries'[c])
      BY <3>1 DEF NotifySets
    <3>4. ListsAreExact' /\ \A s \in Sets \ ToNotify(notifyEntries'[c]) : notifyList'[s] = notifyList[s]
      BY <1>i, <1>t, <2>e, <3>2, <3>3, AnnouncedLists
    <3>5. \A s \in setAsleep' : s \in Sets \ ToNotify(notifyEntries'[c]) BY <1>t, <3>3 DEF TypeOK
    <3>6. OwnMemory' BY <1>2, <1>i, <3>3 DEF OwnMemory
    <3> QED BY <1>2, <1>i, <1>t, <3>2, <3>3, <3>4, <3>5, <3>6, AloneKeeps DEF Goal, setLoop
  <2>3. CASE OfferAndWithdraw(t)
    <3>1. /\ UNCHANGED <<slot, queue, size, notifyEntries>>
          /\ sendError' = [sendError EXCEPT ![c] = FALSE]
          /\ notifyList' = Unnotified(Notified(notifyEntries[c]), notifyEntries[c])
          /\ setAsleep' = setAsleep \ ToNotify(notifyEntries[c])
      BY <2>3, <2>c DEF OfferAndWithdraw
    <3>2. \A d \in Chan : Ready(d) => Ready(d)' BY <1>t, <3>1 DEF Ready, Sync
    <3>3. /\ ListsAreExact'
          /\ \A s \in Sets \ ToNotify(notifyEntries[c]) : notifyList[s] = <<>> => notifyList'[s] = <<>>
      BY <1>i, <1>t, <3>1, <3>2, WithdrawnLists
    <3>4. \A s \in setAsleep' : s \in Sets \ ToNotify(notifyEntries[c]) BY <1>t, <3>1 DEF TypeOK
    <3>5. OwnMemory' BY <1>2, <1>i, <3>1 DEF OwnMemory
    <3> QED BY <1>2, <1>i, <1>t, <3>1, <3>2, <3>3, <3>4, <3>5, AloneKeeps DEF Goal, setLoop
  <2>4. CASE FailSend(t) \/ WithdrawSend(t)
    <3>1. pc[t] = "sent" /\ ~sendError[c] /\ call[t].timeout = "none"
      BY <1>i, <2>4, <2>c DEF FailSend, WithdrawSend, Running, Patient
    <3> QED BY <2>4, <2>c, <3>1 DEF FailSend, WithdrawSend, MayGiveUp
  <2>5. CASE Receive(t) \/ Refuse(t) \/ WaitToReceive(t) \/ GiveUpReceive(t)
    BY <1>i, <2>5 DEF Receive, Refuse, WaitToReceive, GiveUpReceive, Running, Patient
  <2> QED BY <1>2, <2>1, <2>2, <2>3, <2>4, <2>5 DEF Step
<1>3. ASSUME NEW d \in Chan, SetSize(d), UNCHANGED <<setLoop, entryChan>> PROVE Goal
  <2>1. \A c \in Chan : size'[c] = 0 <=> size[c] = 0
    BY <1>3, <1>t, ChannelAssumption DEF SetSize, Sync
  <2>2. \A c \in Chan : Ready(c) => Ready(c)' BY <1>3, <2>1 DEF SetSize, Ready, Sync
  <2> QED BY <1>3, <1>g, <2>2 DEF SetSize, setVars, setLoop
<1>4. ASSUME NEW s \in Sets, NEW c \in Chan, Add(s, c) PROVE Goal
  <2>1. PICK e \in Entry \ Allocated :
            /\ e.set = s /\ entryChan' = [entryChan EXCEPT ![e] = c]
            /\ notifyEntries' = [notifyEntries EXCEPT ![c] = @ \cup {e}]
    BY <1>4 DEF Add
  <2>2. \A d \in Chan : Ready(d)' <=> Ready(d) BY <1>4 DEF Add, chanVars, Ready, Sync
  <2>3. /\ notifyEntries'[c] = notifyEntries[c] \cup {e}
        /\ \A d \in Chan \ {c} : notifyEntries'[d] = notifyEntries[d]
        /\ \A d \in Chan : notifyEntries[d] \subseteq notifyEntries'[d]
    BY <1>t, <2>1
  <2>4. \A d \in Chan : e \notin notifyEntries[d] BY <2>1 DEF Allocated
  <2>5. OwnMemory'
    <3>1. entryChan \in [Entry -> Chan] BY DEF SetTypeOK
    <3>2. \A d \in Chan : \A f \in notifyEntries[d] : f \in Entry /\ f # e BY <1>t, <2>4
    <3> QED BY <1>i, <2>1, <2>3, <3>1, <3>2 DEF OwnMemory
  <2>6. \A f, g \in notifyEntries'[c] : f.set = g.set => f = g
    <3>1. \A f \in notifyEntries[c] : f.set # e.set BY <1>4, <2>1 DEF Add, Watches
    <3> QED BY <1>i, <2>3, <3>1 DEF OneEntryEach
  <2>7. UNCHANGED <<setPc, index, current>> BY <1>4 DEF Add, setLoop
  <2>8. CASE Ready(c)
    <3>1. /\ notifyList' = Notified(notifyEntries'[c])
          /\ setAsleep' = setAsleep \ ToNotify(notifyEntries'[c])
      BY <1>4, <2>8 DEF Add
    <3>2. ListsAreExact' /\ \A r \in Sets \ ToNotify(notifyEntries'[c]) : notifyList'[r] = notifyList[r]
      BY <1>i, <1>t, <2>2, <2>3, <2>6, <2>8, <3>1, AnnouncedLists
    <3>3. \A r \in setAsleep' : r \in Sets \ ToNotify(notifyEntries'[c]) BY <1>t, <3>1 DEF TypeOK
    <3> QED BY <1>i, <1>t, <2>2, <2>3, <2>5, <2>7, <3>1, <3>2, <3>3, AloneKeeps DEF Goal
  <2>9. CASE ~Ready(c)
    <3>1. notifyList' = notifyList /\ setAsleep' = setAsleep BY <1>4, <2>9 DEF Add
    <3>2. \A f : Announced(f) => Announced(f)' BY <2>2, <2>3 DEF Announced
    <3>3. ListsAreExact' BY <1>i, <3>1, <3>2 DEF ListsAreExact, Listed, NoTwice
    <3> QED BY <1>i, <1>t, <2>2, <2>3, <2>5, <2>7, <3>1, <3>3, AloneKeeps DEF Goal
  <2> QED BY <2>8, <2>9
<1>5. ASSUME NEW s \in Sets, NEW c \in Chan, Remove(s, c) PROVE FALSE
  BY <1>5 DEF Remove, Undisturbed
(* The set looks at its list: the first entry, if there is one.            *)
<1>6. ASSUME NEW s \in Sets, CallSetReceive(s) \/ Pick(s) \/ SetWait(s) \/ SetGiveUp(s)
                             \/ SetWakeSpuriously(s)
      PROVE  Goal
  <2>1. UNCHANGED <<notifyEntries, notifyList, entryChan, chanVars>>
    BY <1>6 DEF CallSetReceive, Pick, SetWait, SetGiveUp, SetWakeSpuriously, vars, chanVars, setVars
  <2>2. \A d \in Chan : Ready(d)' <=> Ready(d) BY <2>1 DEF chanVars, Ready, Sync
  <2>3. \A e : Announced(e)' <=> Announced(e) BY <2>1, <2>2 DEF Announced
  <2>4. ListsAreExact' /\ OwnMemory'
    BY <1>i, <2>1, <2>3 DEF ListsAreExact, Listed, NoTwice, OwnMemory
  <2>5. TakesTheFirst'
    <3>1. notifyList[s] \in Seq(Entry) /\ index[s] = 1 /\ (s \in setAsleep => setPc[s] = "scan")
      BY <1>i, <1>t DEF TakesTheFirst
    <3>2. Len(notifyList[s]) \in Nat /\ DOMAIN notifyList[s] = 1 .. Len(notifyList[s])
      BY <3>1, LenProperties
    <3>3. CASE Pick(s)
      <4>1. 1 \in DOMAIN notifyList[s] BY <3>1, <3>2, <3>3 DEF Pick
      <4>2. Listed(notifyList[s], notifyList[s][1]) BY <4>1 DEF Listed
      <4>3. notifyList[s][1].set = s /\ Announced(notifyList[s][1]) BY <1>i, <4>2 DEF ListsAreExact
      <4>4. /\ current' = [current EXCEPT ![s] = notifyList[s][1]]
            /\ setPc' = [setPc EXCEPT ![s] = "try"] /\ UNCHANGED <<setAsleep, index>>
            /\ s \notin setAsleep
        BY <3>1, <3>3 DEF Pick, Scanning, vars
      <4>5. current'[s] = notifyList[s][1] /\ \A r \in Sets \ {s} : current'[r] = current[r]
        BY <4>4 DEF SetTypeOK
      <4>6. setPc'[s] = "try" /\ \A r \in Sets \ {s} : setPc'[r] = setPc[r] BY <1>t, <4>4
      <4> QED BY <1>i, <2>1, <2>3, <4>3, <4>4, <4>5, <4>6 DEF TakesTheFirst
    <3>4. CASE SetWait(s)
      <4>1. Len(notifyList[s]) = 0 BY <3>1, <3>2, <3>4 DEF SetWait
      <4>2. notifyList[s] = <<>> BY <3>1, <4>1, EmptySeq
      <4>3. /\ setAsleep' = setAsleep \cup {s} /\ index' = [index EXCEPT ![s] = 1]
            /\ UNCHANGED <<setPc, current>> /\ setPc[s] = "scan"
        BY <3>4 DEF SetWait, Scanning
      <4> QED BY <1>i, <1>t, <2>1, <2>3, <4>2, <4>3 DEF TakesTheFirst
    <3>5. CASE CallSetReceive(s) \/ SetGiveUp(s) \/ SetWakeSpuriously(s)
      <4>1. /\ \A r \in Sets : index'[r] = 1
            /\ \A r \in Sets \ {s} : setPc'[r] = setPc[r]
            /\ setPc'[s] # "try" \/ setPc'[s] = setPc[s]
            /\ current' = current
            /\ s \notin setAsleep' \/ FALSE
            /\ setAsleep' \subseteq setAsleep
        BY <1>i, <1>t, <3>1, <3>5 DEF CallSetReceive, SetGiveUp, SetWakeSpuriously, SetReturn,
           vars, setLoop, TakesTheFirst
      <4> QED BY <1>i, <2>1, <2>3, <4>1 DEF TakesTheFirst
    <3> QED BY <1>6, <3>3, <3>4, <3>5
  <2> QED BY <2>4, <2>5 DEF Goal
(* What it has picked is there to be taken.                                *)
<1>7. ASSUME NEW s \in Sets, SetTake(s) \/ SetMiss(s) \/ SetTryFreed(s) PROVE Goal
  <2>1. setPc[s] = "try" /\ current[s].set = s /\ Announced(current[s])
    BY <1>7, <1>i DEF SetTake, SetMiss, SetTryFreed, TakesTheFirst
  <2>2. PICK c \in Chan : Ready(c) /\ current[s] \in notifyEntries[c] BY <2>1 DEF Announced
  <2>3. entryChan[current[s]] = c BY <1>i, <2>2 DEF OwnMemory
  <2>4. SetTake(s)
    BY <1>7, <2>2, <2>3 DEF SetMiss, SetTryFreed, Allocated, Refused, Undisturbed
  <2>5. Take(c) /\ SetReturn(s) /\ entryChan' = entryChan BY <2>3, <2>4 DEF SetTake
  <2>6. /\ ListsAreExact' /\ setAsleep' = setAsleep /\ notifyEntries' = notifyEntries
        /\ \A r \in Sets : notifyList[r] = <<>> => notifyList'[r] = <<>>
        /\ \A e : e.set # s /\ Announced(e) => Announced(e)'
    BY <1>i, <1>t, <2>1, <2>2, <2>5, TakeAlone
  <2>7. OwnMemory' BY <1>i, <2>5, <2>6 DEF OwnMemory
  <2>8. /\ setPc' = [setPc EXCEPT ![s] = "idle"] /\ index' = [index EXCEPT ![s] = 1]
        /\ current' = current
    BY <2>5 DEF SetReturn
  <2>9. ASSUME NEW r \in Sets
        PROVE  /\ index'[r] = 1
               /\ setPc'[r] = "try" => current'[r].set = r /\ Announced(current[r])'
               /\ r \in setAsleep' => setPc'[r] = "scan" /\ notifyList'[r] = <<>>
    <3>1. /\ index[r] = 1 /\ (setPc[r] = "try" => current[r].set = r /\ Announced(current[r]))
          /\ r \in setAsleep => setPc[r] = "scan" /\ notifyList[r] = <<>>
      BY <1>i DEF TakesTheFirst
    <3>2. CASE r = s
      <4>1. setPc'[s] = "idle" /\ index'[s] = 1 BY <1>t, <2>8
      <4>2. s \notin setAsleep BY <2>1, <3>1, <3>2
      <4> QED BY <2>6, <3>2, <4>1, <4>2
    <3>3. CASE r # s
      <4>1. setPc'[r] = setPc[r] /\ index'[r] = index[r] BY <1>t, <2>8, <3>3
      <4> QED BY <2>6, <2>8, <3>1, <3>3, <4>1 DEF Announced
    <3> QED BY <3>2, <3>3
  <2>10. TakesTheFirst' BY <2>9 DEF TakesTheFirst, Announced
  <2> QED BY <2>6, <2>7, <2>10 DEF Goal
<1>8. CASE UNCHANGED allVars BY <1>8, <1>u DEF allVars, vars, chanVars
<1> QED
  BY <1>1, <1>2, <1>3, <1>4, <1>5, <1>6, <1>7, <1>8 DEF SetNext, SetStep, Next

(* The sets and the senders at the start.                                  *)
LEMMA AloneInit == SetInit => AloneInv
<1> SUFFICES ASSUME SetInit PROVE AloneInv OBVIOUS
<1>1. Patient BY DEF SetInit, Init, Patient
<1>2. ListsAreExact BY EmptySeq DEF SetInit, Init, ListsAreExact, NoTwice, Listed
<1>3. TakesTheFirst BY DEF SetInit, Init, TakesTheFirst
<1>4. OwnMemory BY DEF SetInit, Init, OwnMemory
<1> QED BY <1>1, <1>2, <1>3, <1>4 DEF AloneInv

(* A set that has its channels to itself never sleeps next to a message,   *)
(* whatever is sent to whichever of its channels while it walks its list,  *)
(* and although it leaves its mutex for every entry.                       *)
THEOREM SetSleepsLast ==
    ASSUME Undisturbed
    PROVE  SetSpec /\ []OneWatcher => []SleepingSetHasNoMessage
<1>1. SetInit => SetTypeOK /\ ListedInv BY SetInitTypes
<1>2. SetTypeOK /\ ListedInv /\ AloneInv => SleepingSetHasNoMessage
  <2> SUFFICES ASSUME SetTypeOK, ListedInv, AloneInv, NEW s \in setAsleep, NEW c \in Chan, Ready(c),
                      NEW e \in notifyEntries[c], e.set = s, s \in Sets
               PROVE  FALSE
    BY DEF SleepingSetHasNoMessage, Watches, SetTypeOK, TypeOK
  <2>1. notifyList[s] = <<>> BY DEF AloneInv, TakesTheFirst
  <2>2. Listed(notifyList[s], e) BY DEF ListedInv, ReadyIsListed
  <2> QED BY <2>1, <2>2, EmptySeq DEF Listed
<1>3. SetTypeOK /\ SetTypeOK' /\ ListedInv /\ OneWatcher /\ AloneInv /\ [SetNext]_allVars => AloneInv'
  BY AloneStep
<1> QED BY <1>1, <1>2, <1>3, AloneInit, SetTypeStep, ListedStep, PTL DEF SetSpec
=============================================================================
